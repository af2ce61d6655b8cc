---------------------------- MODULE SchemaOrigins ----------------------------
(***************************************************************************)
(* Making schema versions that follow templates: from a template, from a   *)
(* definition (the origin is inherited), and by merging what the template  *)
(* has become.  And the task that publishes the built-in templates.        *)
(***************************************************************************)
EXTENDS Templates

Rev(t) == IF InLibrary(t) THEN templates[t].rev ELSE 0

(* A request that knows the definition it will store. *)
Resolved(ws, def, template, snapshot, merges) ==
  [at |-> "resolved", ws |-> ws, def |-> def, template |-> template, snapshot |-> snapshot,
   seen |-> Rev(template), merges |-> merges]

(* The template is read outside the transaction, without its lock. *)
resolve_template_definition(c, ws, t) ==
  /\ visible_to(TenantOf[ws], t)
  /\ calls' = [calls EXCEPT ![c] = Resolved(ws, templates[t].def, t, templates[t].def, None)]
  /\ UNCHANGED <<library, schemas, homes, seed, late>>

version_locked(ws, name) ==
  \E c \in Callers : calls[c].at = "writing" /\ calls[c].ws = ws /\ calls[c].def.name = name

(* create_schema up to its first write: the predecessor and its origin are *)
(* read under the version lock.                                            *)
LockVersion(c, call) ==
  LET previous == get_active_schema(schemas, call.ws, call.def.name)
      inherits == previous # None /\ call.template = None
      origin == OriginAfter(schemas, previous, call.template, call.snapshot)
  IN /\ validate_definition(call.def)
     /\ ~version_locked(call.ws, call.def.name)
     /\ calls' = [calls EXCEPT ![c] =
          [at |-> "writing", ws |-> call.ws, def |-> call.def, template |-> call.template,
           merges |-> call.merges, origin |-> origin,
           seen |-> IF inherits THEN Rev(origin.template) ELSE call.seen,
           late |-> inherits /\ previous \in late]]
     /\ UNCHANGED <<library, schemas, homes, seed, late>>

(* The rest of create_schema.  An origin that was deleted meanwhile fails *)
(* the foreign key.                                                       *)
WriteVersion(c) ==
  LET call == calls[c]
      from == call.origin.template
      new == NextSchema(schemas)
  IN /\ call.at = "writing"
     /\ HasRoom(schemas)
     /\ from # None => InLibrary(from)
     /\ schemas' = InsertVersion(schemas, call.ws, call.def, call.origin)
     /\ homes' = [homes EXCEPT ![call.ws] = IF @ = None THEN new ELSE @]
     /\ late' = IF call.merges = None /\ (call.late \/ Rev(from) # call.seen) THEN late \cup {new} ELSE late
     /\ calls' = [calls EXCEPT ![c] = Idle]
     /\ UNCHANGED <<library, seed>>

-----------------------------------------------------------------------------
(* merge_sides up to the template's lock: only an active version that follows *)
(* a template.                                                                *)
ReadLocalSide(c, ws, s, applies) ==
  /\ get_by_id(schemas, ws, s)
  /\ schemas[s].status = "active"
  /\ schemas[s].origin # None
  /\ calls' = [calls EXCEPT ![c] = [at |-> "read", ws |-> ws, schema |-> s, template |-> schemas[s].origin,
                                    base |-> schemas[s].snapshot, local |-> schemas[s].def,
                                    applies |-> applies]]
  /\ UNCHANGED <<library, schemas, homes, seed, late>>

(* The rest of merge_sides, under the template's lock. *)
SidesReady(call, applies) ==
  /\ call.at = "read" /\ call.applies = applies
  /\ ~template_origin_locked(call.template)
  /\ call.base # None
  /\ visible_to(TenantOf[call.ws], call.template)

Plan(call) == three_way(call.base, templates[call.template].def, call.local)

merge_preview(c) ==
  /\ SidesReady(calls[c], FALSE)
  /\ calls' = [calls EXCEPT ![c] = Idle]
  /\ UNCHANGED <<library, schemas, homes, seed, late>>

(* The version written will have the template as it is now for its base. *)
merge_apply(c) ==
  LET call == calls[c]
      upstream == templates[call.template].def
  IN /\ SidesReady(call, TRUE)
     /\ ~has_conflicts(Plan(call))
     /\ calls' = [calls EXCEPT ![c] = Resolved(call.ws, apply_plan(Plan(call), upstream, call.local),
                                               call.template, upstream, call.schema)]
     /\ UNCHANGED <<library, schemas, homes, seed, late>>

(* The active versions of a workspace with a pending notice. *)
list_with_upstream_changes(ws) ==
  [s \in {s \in SchemaIds : /\ get_by_id(schemas, ws, s) /\ schemas[s].status = "active"
                            /\ schemas[s].linked /\ ~schemas[s].noted} |->
     summarize(three_way(schemas[s].snapshot, templates[schemas[s].origin].def, schemas[s].def))]

-----------------------------------------------------------------------------
(* The built-in template's row is made or refreshed, without the template's *)
(* lock and without a notice.                                               *)
upsert_template(name, def) ==
  LET known == {t \in Library : Owned(Official, t) /\ templates[t].name = name}
      t == IF known # {} THEN CHOOSE u \in known : TRUE ELSE NewTemplate
  IN /\ seed = None
     /\ known # {} \/ LibraryHasRoom
     /\ templates' = [templates EXCEPT ![t] =
          IF known # {}
          THEN [templates[t] EXCEPT !.def = def, !.visibility = "community", !.rev = templates[t].rev + 1]
          ELSE Template(Official, name, def, "community", None)]
     /\ seed' = [template |-> t, def |-> def]
     /\ UNCHANGED <<published, reviews, schemas, homes, calls, late>>

differs_from_first(t, def) == published[t] = <<>> \/ published[t][1].def # def

differs_from_latest(t, def) == published[t] = <<>> \/ NewestPublished(t).def # def

(* A version is published only when the newest, of any status, differs. *)
seed_official_templates ==
  /\ seed # None
  /\ IF differs_from_latest(seed.template, seed.def)
     THEN insert_next_version(seed.template, seed.def, "stable")
     ELSE UNCHANGED published
  /\ seed' = None
  /\ UNCHANGED <<templates, reviews, schemas, homes, calls, late>>

(* The process that seeds stops. *)
SeedStops ==
  /\ seed # None
  /\ seed' = None
  /\ UNCHANGED <<library, schemas, homes, calls, late>>
===============================================================================

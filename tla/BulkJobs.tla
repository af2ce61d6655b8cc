------------------------------- MODULE BulkJobs -------------------------------
(***************************************************************************)
(* The bulk jobs on a workspace's content and what they are told apart by; *)
(* the drift of an entity and the dry run of a migration.                  *)
(*                                                                         *)
(* A job's run is one transaction: it takes the job's lock, returns if the *)
(* job's completion is already recorded, checks that its actor may still   *)
(* act, works, and records the completion.  The queue may deliver a job    *)
(* again at any time, so runs of one job may overlap and may follow its    *)
(* completion; a run may also die, which rolls it back.                    *)
(***************************************************************************)
EXTENDS Knowledge

FreshJob == [kind |-> "fresh"]

NextJob == Min({j \in JobIds : jobs[j] = FreshJob})

(* Accepting a job is part of the request's transaction: its dispatch row *)
(* commits with the request.                                              *)
Enqueue(job) ==
    /\ \E j \in JobIds : jobs[j] = FreshJob
    /\ jobs' = [jobs EXCEPT ![NextJob] = job]
    /\ UNCHANGED <<content, done, locks, calls>>

EnqueueFill(name) ==
    /\ get_active_schema(schemas, Ws, name) # None
    /\ Enqueue([kind |-> "fill", name |-> name, actor |-> TRUE])

require_job_snapshots(j) == \E i \in DOMAIN snapshots : snapshots[i].job = j

EnqueueUndo(j) ==
    /\ require_job_snapshots(j)
    /\ Enqueue([kind |-> "undo", of |-> j, actor |-> TRUE])

EnqueueImport(lines) == Enqueue([kind |-> "import", lines |-> lines, actor |-> TRUE])

(* The member who asked loses the access the job needs. *)
RevokeActor(j) ==
    /\ jobs[j] # FreshJob /\ jobs[j].actor
    /\ jobs' = [jobs EXCEPT ![j].actor = FALSE]
    /\ UNCHANGED <<content, done, locks, calls>>

job_completed_never(j) == FALSE

job_completed(j) == j \in done

(* The operations that are runs of a job in one transaction. *)
RunOps == {"fill", "import", "confirm"}

(* No other run of the job is open, the job is not complete, and the one *)
(* who asked for it may still ask for it.                                *)
MayRun(j, kind) ==
    /\ jobs[j].kind = kind
    /\ ~\E c \in Callers : calls[c].op \in RunOps /\ calls[c].job = j
    /\ ~job_completed(j)
    /\ jobs[j].actor

-----------------------------------------------------------------------------
(* Drift of one entity, and the dry run of a whole migration.               *)
Behind(name) ==
  {e \in Live : schemas[entities[e].schema].name = name
                /\ entities[e].schema # get_active_schema(schemas, Ws, name)}

MissingUnder(s, e, data) ==
  IF entities[e].type \in DOMAIN schemas[s].def.types
  THEN missing_fields_in_value(data, schemas[s].def.types[entities[e].type]) ELSE {}

drift(e) ==
  LET active == get_active_schema(schemas, Ws, schemas[entities[e].schema].name)
  IN [version |-> schemas[entities[e].schema].version, active |-> schemas[active].version,
      missing |-> MissingUnder(active, e, entities[e].data)]

NeedsValues(name) ==
  LET active == get_active_schema(schemas, Ws, name)
  IN {e \in Behind(name) :
        \E p \in MissingUnder(active, e, entities[e].data) : schemas[active].def.types[entities[e].type][p].required}

migration_dry_run(name) ==
  [behind_but_valid |-> Behind(name) \ NeedsValues(name), needs_values |-> NeedsValues(name)]

-----------------------------------------------------------------------------
(* Fill-defaults.  One statement reads every entity that is behind.  Then,  *)
(* entity by entity, the row as it is now goes into a snapshot and the data *)
(* as it was read, with the absent required fields filled, goes into the    *)
(* row.                                                                     *)
FillRead(c, j) ==
    /\ calls[c] = Idle
    /\ MayRun(j, "fill")
    /\ LET s == get_active_schema(schemas, Ws, jobs[j].name)
       IN /\ s # None
          /\ calls' = [calls EXCEPT ![c] =
               [op |-> "fill", job |-> j, fields |-> schemas[s].def.types,
                read |-> [e \in Behind(jobs[j].name) |-> entities[e]],
                left |-> {e \in Behind(jobs[j].name) : entities[e].type \in DOMAIN schemas[s].def.types},
                saved |-> <<>>, at |-> None, writes |-> <<>>]]
    /\ UNCHANGED <<content, queue, locks>>

(* An entity that is gone by now is skipped. *)
FillSnapshot(c) ==
    /\ calls[c].op = "fill" /\ calls[c].at = None /\ calls[c].left # {}
    /\ LET e == Min(calls[c].left)
       IN calls' = [calls EXCEPT
               ![c].left = @ \ {e},
               ![c].saved = IF e \in Live THEN Append(@, Snapshot(calls[c].job, e, entities[e])) ELSE @,
               ![c].at = IF e \in Live THEN e ELSE None]
    /\ UNCHANGED <<content, queue, locks>>

Filled(call, e) == fill_fields_in_value(call.read[e].data, call.fields[call.read[e].type])

FillWrite(c) ==
    /\ calls[c].op = "fill" /\ calls[c].at # None
    /\ LET e == calls[c].at
           changed == e \in Live /\ Filled(calls[c], e) # calls[c].read[e].data
       IN /\ changed => RowFree(e) /\ entities[e].rev < MaxRevision
          /\ calls' = [calls EXCEPT ![c].at = None,
                 ![c].writes = IF changed THEN [f \in DOMAIN @ \cup {e} |-> Filled(calls[c], f)] ELSE @]
    /\ UNCHANGED <<content, queue, locks>>

FillCommit(c) ==
    /\ calls[c].op = "fill" /\ calls[c].at = None /\ calls[c].left = {}
    /\ entities' = [e \in EntityIds |-> IF e \in DOMAIN calls[c].writes
                                        THEN Written(entities[e], calls[c].writes[e], "fill")
                                        ELSE entities[e]]
    /\ snapshots' = snapshots \o calls[c].saved
    /\ done' = done \cup {calls[c].job}
    /\ calls' = [calls EXCEPT ![c] = Idle]
    /\ UNCHANGED <<schemas, home, relations, jobs, locks>>

(* The process running it dies: nothing of the transaction stays. *)
RunDies(c) ==
    /\ calls[c].op \in RunOps
    /\ calls' = [calls EXCEPT ![c] = Idle]
    /\ locks' = Release(c)
    /\ UNCHANGED <<content, queue>>

-----------------------------------------------------------------------------
(* Undo: every entity the job saved gets its data and its version back, the *)
(* oldest snapshot first; entities deleted since are only counted.          *)
SavedBy(j) == {i \in DOMAIN snapshots : snapshots[i].job = j}

Restore(rows, snap) ==
  IF rows[snap.entity].state = "live"
  THEN [rows EXCEPT ![snap.entity] =
          EntityRow(snap.row.schema, @.type, snap.row.data, @.rev + 1, snap.row.by)]
  ELSE rows

(* The rows after each of the snapshots, those of other jobs passed over. *)
restored(rows, snaps, j) ==
  LET after[n \in 0..Len(snaps)] ==
        IF n = 0 THEN rows
        ELSE IF snaps[n].job = j THEN Restore(after[n - 1], snaps[n]) ELSE after[n - 1]
  IN after

undo_job(j) == restored(entities, snapshots, j)[Len(snapshots)]

RunUndo(j) ==
    /\ MayRun(j, "undo")
    /\ SavedBy(jobs[j].of) # {}
    /\ \A i \in SavedBy(jobs[j].of) : RowFree(snapshots[i].entity)
    /\ \A e \in LiveIn(undo_job(jobs[j].of)) : Stored(schemas, undo_job(jobs[j].of)[e].schema)
    /\ entities' = undo_job(jobs[j].of)
    /\ \A e \in Live : entities'[e].rev <= MaxRevision
    /\ done' = done \cup {j}
    /\ UNCHANGED <<schemas, home, relations, snapshots, jobs, locks, calls>>

-----------------------------------------------------------------------------
(* Import, line by line.  The accumulator holds the tables as the import's *)
(* transaction sees them, the names of the schema lines and the ids given  *)
(* to the entity lines; the first line refused fails the whole import.     *)
Before(S, h, E, R) ==
  [ok |-> TRUE, schemas |-> S, home |-> h, entities |-> E, relations |-> R,
   names |-> <<>>, ids |-> <<>>]

Extend(f, k, v) == [x \in DOMAIN f \cup {k} |-> IF x = k THEN v ELSE f[x]]

Mapped_to_itself(f, k) == k

Mapped(f, k) == IF k \in DOMAIN f THEN f[k] ELSE k

ImportSchema(acc, line) ==
  [acc EXCEPT !.ok = validate_definition(line.def) /\ HasRoom(acc.schemas),
              !.schemas = IF HasRoom(@) THEN create_schema(@, Ws, line.def, None, None) ELSE @,
              !.home = IF HasRoom(acc.schemas) THEN mark_active(@, NextSchema(acc.schemas)) ELSE @,
              !.names = Extend(@, line.id, line.def.name)]

(* The name of a schema line of this import, else of a version that is *)
(* already there.                                                      *)
ImportedName(acc, s) ==
  CASE s \in DOMAIN acc.names -> acc.names[s]
    [] s \notin DOMAIN acc.names /\ s \in SchemaIds /\ get_by_id(acc.schemas, Ws, s) -> acc.schemas[s].name
    [] OTHER -> None

ImportEntity(acc, line) ==
  LET name == ImportedName(acc, line.schema)
      s == IF name = None THEN None ELSE get_active_schema(acc.schemas, Ws, name)
      ok == /\ check_entity_quota(acc.entities) /\ Fresh(acc.entities) # {}
            /\ ~is_schema_pending(acc.home)
            /\ s # None /\ Accepts(acc.schemas, s, line.type, line.data)
  IN IF ok THEN [acc EXCEPT !.entities = Insert(@, EntityRow(s, line.type, line.data, 0, "create")),
                            !.ids = Extend(@, line.id, Min(Fresh(acc.entities)))]
     ELSE [acc EXCEPT !.ok = FALSE]

ImportRelation(acc, line) ==
  LET row == RelationRow(Mapped(acc.ids, line.source), Mapped(acc.ids, line.target), line.type)
      ok == /\ insertable(acc.entities, acc.relations, row) /\ Fresh(acc.relations) # {}
            /\ validate_relation_type(acc.schemas, acc.entities, row.source, row.target, row.type)
  IN IF ok THEN [acc EXCEPT !.relations = Insert(@, row)] ELSE [acc EXCEPT !.ok = FALSE]

ImportLine(acc, line) ==
  CASE ~acc.ok -> acc
    [] acc.ok /\ line.kind = "schema" -> ImportSchema(acc, line)
    [] acc.ok /\ line.kind = "entity" -> ImportEntity(acc, line)
    [] acc.ok /\ line.kind = "relation" -> ImportRelation(acc, line)

(* The accumulator after each line. *)
imported(before, lines) ==
  LET after[n \in 0..Len(lines)] == IF n = 0 THEN before ELSE ImportLine(after[n - 1], lines[n])
  IN after

import_jsonl(before, lines) == imported(before, lines)[Len(lines)]

OfKind(lines, kind) == {line \in Range(lines) : line.kind = kind}

LineNames(lines) == {line.def.name : line \in OfKind(lines, "schema")}

(* What the entity lines lock in addition. *)
EntityLocks(lines) ==
  IF OfKind(lines, "entity") = {} THEN {}
  ELSE {"workspace"} \cup {schemas[s].name : s \in {line.schema : line \in OfKind(lines, "entity")}
                                                  \cap {s \in SchemaIds : Stored(schemas, s)}}

(* The schema lines come first and hold their names' locks when the entity *)
(* lines ask for the workspace's.                                          *)
ImportStart(c, j) ==
    /\ calls[c] = Idle
    /\ MayRun(j, "import")
    /\ \A name \in LineNames(jobs[j].lines) : lock_version(name, c)
    /\ locks' = [k \in DOMAIN locks |-> IF k \in LineNames(jobs[j].lines) THEN c ELSE locks[k]]
    /\ calls' = [calls EXCEPT ![c] = [op |-> "import", job |-> j]]
    /\ UNCHANGED <<content, queue>>

ImportCommit(c) ==
    /\ calls[c].op = "import"
    /\ \A k \in EntityLocks(jobs[calls[c].job].lines) : lock_for_update(k, c)
    /\ LET after == import_jsonl(Before(schemas, home, entities, relations), jobs[calls[c].job].lines)
       IN /\ schemas' = IF after.ok THEN after.schemas ELSE schemas
          /\ home' = IF after.ok THEN after.home ELSE home
          /\ entities' = IF after.ok THEN after.entities ELSE entities
          /\ relations' = IF after.ok THEN after.relations ELSE relations
          /\ done' = IF after.ok THEN done \cup {calls[c].job} ELSE done
    /\ locks' = Release(c)
    /\ calls' = [calls EXCEPT ![c] = Idle]
    /\ UNCHANGED <<snapshots, jobs>>

(* An entity creation holds the workspace's lock and waits for the name's, *)
(* an import holds the name's and waits for the workspace's: the database  *)
(* ends one of the two.                                                    *)
Waits(c) ==
  CASE calls[c].op = "create" /\ calls[c].schema = None -> {calls[c].name}
    [] calls[c].op = "import" -> EntityLocks(jobs[calls[c].job].lines)
    [] OTHER -> {}

DeadlockVictim(c) ==
    /\ \E d \in Callers \ {c} :
         (\E k \in Waits(c) : locks[k] = d) /\ (\E k \in Waits(d) : locks[k] = c)
    /\ locks' = Release(c)
    /\ calls' = [calls EXCEPT ![c] = Idle]
    /\ UNCHANGED <<content, queue>>
===============================================================================

------------------------------ MODULE Templates ------------------------------
(***************************************************************************)
(* The template library, the marketplace over it, and the schema versions  *)
(* that follow templates.  A template belongs to a tenant and is private   *)
(* or community-visible; it has published versions and reviews.  A schema  *)
(* version made from a template keeps what the template said and is told   *)
(* when that changes; merging brings the change into a next version.       *)
(*                                                                         *)
(* An operation is one step, unless another transaction can run between    *)
(* two of its reads and writes.  Making a version reads the template (or,  *)
(* for a merge, the version, and then the template under the template's    *)
(* lock), then its predecessor under the lock on the workspace's name, and *)
(* only then writes.  Forking from the marketplace, and seeding the        *)
(* official templates, run outside any transaction.                        *)
(***************************************************************************)
EXTENDS SchemaMerge, SchemaVersions

CONSTANTS
    Workspaces, Tenants,
    TenantOf,       \* the tenant of each workspace
    Official,       \* the tenant that publishes the built-in templates
    Callers,        \* requests under way
    TemplateIds     \* bound: the templates ever created

ASSUME TemplatesAssumption ==
    /\ TenantOf \in [Workspaces -> Tenants]
    /\ Official \in Tenants
    /\ TemplateIds \subseteq Nat /\ IsFiniteSet(TemplateIds)

VARIABLES
    templates, published, reviews,
    schemas,
    homes,          \* each workspace's default schema
    calls,
    seed,           \* what the seeding task is about to publish, or None
    late            \* history: versions written after their template had moved on

library == <<templates, published, reviews>>
store == <<library, schemas, homes, calls, seed, late>>

FreshTemplate == [state |-> "fresh"]
GoneTemplate == [state |-> "gone"]

(* rev counts the definitions the row has had. *)
Template(tenant, name, def, visibility, fork_of) ==
  [state |-> "stored", tenant |-> tenant, name |-> name, def |-> def,
   visibility |-> visibility, fork_of |-> fork_of, rev |-> 0]

Idle == [at |-> "idle"]

InLibrary(t) == t \in TemplateIds /\ templates[t].state = "stored"
Library == {t \in TemplateIds : InLibrary(t)}
Owned(tenant, t) == InLibrary(t) /\ templates[t].tenant = tenant
NewestPublished(t) == published[t][Len(published[t])]

visible_to(tenant, t) == InLibrary(t) /\ (templates[t].tenant = tenant \/ templates[t].visibility = "community")

NewTemplate == Min({t \in TemplateIds : templates[t].state = "fresh"})
LibraryHasRoom == \E t \in TemplateIds : templates[t].state = "fresh"
NameTaken(tenant, name, but) == \E t \in Library \ {but} : Owned(tenant, t) /\ templates[t].name = name

-----------------------------------------------------------------------------
(* The library. *)
InsertTemplate(tenant, name, def, fork_of) ==
  /\ LibraryHasRoom /\ ~NameTaken(tenant, name, None)
  /\ templates' = [templates EXCEPT ![NewTemplate] = Template(tenant, name, def, "tenant", fork_of)]

CreateTemplate(tenant, name, def) ==
  /\ validate_definition(def)
  /\ InsertTemplate(tenant, name, def, None)
  /\ UNCHANGED <<published, reviews, schemas, homes, calls, seed, late>>

unlocked(t) == FALSE

(* Held by a merge from its comparison to its end. *)
template_origin_locked(t) ==
  \E c \in Callers : calls[c].at \in {"resolved", "writing"} /\ calls[c].merges # None /\ calls[c].template = t

notify_upstream_change(S, t) ==
  [s \in SchemaIds |-> IF Stored(S, s) /\ S[s].origin = t /\ S[s].linked
                       THEN [S[s] EXCEPT !.noted = FALSE] ELSE S[s]]

(* name and def are None where the request leaves them out; one that leaves *)
(* everything out reads.  A definition that is given counts as changed.     *)
UpdateTemplate(tenant, t, name, def) ==
  /\ name # None \/ def # None
  /\ ~template_origin_locked(t)
  /\ Owned(tenant, t)
  /\ def # None => validate_definition(def)
  /\ name # None => ~NameTaken(tenant, name, t)
  /\ templates' = [templates EXCEPT ![t].name = IF name # None THEN name ELSE @,
                                    ![t].def = IF def # None THEN def ELSE @,
                                    ![t].rev = IF def # None THEN @ + 1 ELSE @]
  /\ schemas' = IF def # None THEN notify_upstream_change(schemas, t) ELSE schemas
  /\ UNCHANGED <<published, reviews, homes, calls, seed, late>>

(* The database's part of a deletion: followers are detached and keep what *)
(* they copied.                                                            *)
detach(S, t) ==
  [s \in SchemaIds |-> IF Stored(S, s) /\ S[s].origin = t
                       THEN [S[s] EXCEPT !.origin = None, !.linked = FALSE] ELSE S[s]]

(* Forks lose their lineage, versions and reviews go with the template. *)
DeleteTemplate(tenant, t) ==
  /\ Owned(tenant, t)
  /\ templates' = [u \in TemplateIds |->
       CASE u = t -> GoneTemplate
         [] u # t /\ InLibrary(u) /\ templates[u].fork_of = t -> [templates[u] EXCEPT !.fork_of = None]
         [] OTHER -> templates[u]]
  /\ published' = [published EXCEPT ![t] = <<>>]
  /\ reviews' = [reviews EXCEPT ![t] = [u \in Tenants |-> None]]
  /\ schemas' = detach(schemas, t)
  /\ UNCHANGED <<homes, calls, seed, late>>

ForkTemplate(tenant, t, name) ==
  /\ visible_to(tenant, t)
  /\ InsertTemplate(tenant, name, templates[t].def, t)
  /\ UNCHANGED <<published, reviews, schemas, homes, calls, seed, late>>

-----------------------------------------------------------------------------
(* The marketplace. *)
Statuses == {"draft", "pre", "stable"}

insert_next_version(t, def, status) ==
  published' = [published EXCEPT ![t] = Append(@, [def |-> def, status |-> status])]

PublishVersion(tenant, t, def, status) ==
  /\ Owned(tenant, t)
  /\ insert_next_version(t, def, status)
  /\ UNCHANGED <<templates, reviews, schemas, homes, calls, seed, late>>

(* One review a tenant: a new one replaces the last. *)
SubmitReview(tenant, t, rating) ==
  /\ rating \in 1..5
  /\ visible_to(tenant, t)
  /\ reviews' = [reviews EXCEPT ![t][tenant] = rating]
  /\ UNCHANGED <<templates, published, schemas, homes, calls, seed, late>>

SetVisibility(tenant, t, visibility) ==
  /\ Owned(tenant, t)
  /\ templates' = [templates EXCEPT ![t].visibility = visibility]
  /\ UNCHANGED <<published, reviews, schemas, homes, calls, seed, late>>

OfStatus(t, statuses) == {v \in 1..Len(published[t]) : published[t][v].status \in statuses}

LatestStable(t) ==
  IF OfStatus(t, {"stable"}) = {} THEN None ELSE Max(OfStatus(t, {"stable"}))

list_marketplace ==
  [t \in {t \in Library : templates[t].visibility = "community" /\ OfStatus(t, {"pre", "stable"}) # {}} |->
     [latest_stable_version |-> LatestStable(t),
      review_count |-> Cardinality({u \in Tenants : reviews[t][u] # None})]]

list_versions(tenant, t) ==
  IF ~visible_to(tenant, t) THEN {}
  ELSE OfStatus(t, IF Owned(tenant, t) THEN Statuses ELSE Statuses \ {"draft"})

list_reviews(tenant, t) == IF visible_to(tenant, t) THEN reviews[t] ELSE [u \in Tenants |-> None]

find_fork_source(c, tenant, t) ==
  /\ visible_to(tenant, t)
  /\ calls' = [calls EXCEPT ![c] = [at |-> "sourced", tenant |-> tenant, template |-> t, name |-> templates[t].name]]
  /\ UNCHANGED <<library, schemas, homes, seed, late>>

forkable(t, version) == version \in OfStatus(t, Statuses \ {"draft"})

(* The version asked for, or else the latest stable one. *)
find_forkable_definition(c, version) ==
  LET call == calls[c]
      v == IF version # None THEN version ELSE LatestStable(call.template)
  IN /\ call.at = "sourced"
     /\ v # None /\ forkable(call.template, v)
     /\ calls' = [calls EXCEPT ![c] = [at |-> "forking", tenant |-> call.tenant, template |-> call.template,
                                       name |-> call.name, def |-> published[call.template][v].def]]
     /\ UNCHANGED <<library, schemas, homes, seed, late>>

insert_fork(c) ==
  /\ calls[c].at = "forking"
  /\ InLibrary(calls[c].template)
  /\ InsertTemplate(calls[c].tenant, calls[c].name, calls[c].def, calls[c].template)
  /\ calls' = [calls EXCEPT ![c] = Idle]
  /\ UNCHANGED <<published, reviews, schemas, homes, seed, late>>

(* What a request meets when its template is gone, its name taken, nothing *)
(* is published, or its client is lost: it ends without a trace.           *)
Abandon(c) ==
  /\ calls[c] # Idle
  /\ calls' = [calls EXCEPT ![c] = Idle]
  /\ UNCHANGED <<library, schemas, homes, seed, late>>
===============================================================================

----------------------------- MODULE SchemaForks -----------------------------
(***************************************************************************)
(* A workspace following the schema of another workspace of its tenant.    *)
(* The fork's heads are versions of the forking workspace: archived rows   *)
(* in the same version sequence as its own schemas.  Creating a fork is    *)
(* serialized across the installation, updating one on the fork; both take *)
(* the version lock before they insert a head.                             *)
(***************************************************************************)
EXTENDS SchemaOrigins

CONSTANT ForkIds      \* bound: the forks ever created

ASSUME ForkIdsAssumption == ForkIds \subseteq Nat /\ IsFiniteSet(ForkIds)

VARIABLES
    forks,
    heads,      \* <<fork, version>>: every head a fork has had
    used        \* versions that entities or their history refer to

forkStore == <<forks, heads, used>>

FreshFork == [state |-> "fresh"]
GoneFork == [state |-> "gone"]

Fork(ws, source_ws, source, head) ==
  [state |-> "stored", ws |-> ws, source_ws |-> source_ws, source |-> source,
   source_version |-> schemas[source].version, source_name |-> schemas[source].name,
   head |-> head, customized |-> FALSE]

StoredForks == {f \in ForkIds : forks[f].state = "stored"}
ForksOf(ws) == {f \in StoredForks : forks[f].ws = ws}

(* Sources cross workspaces, never tenants. *)
source_by_id(tenant, ws, s) == TenantOf[ws] = tenant /\ get_by_id(schemas, ws, s)

current_source(tenant, ws, s) == source_by_id(tenant, ws, s) /\ schemas[s].status = "active"

latest_source_by_name(tenant, ws, name) ==
  IF TenantOf[ws] = tenant THEN get_active_schema(schemas, ws, name) ELSE None

get_fork(ws, f) == f \in ForksOf(ws)

fork_edges(ws) == {forks[f].source_ws : f \in ForksOf(ws)}

direct_sources(ws) == {ws} \cup fork_edges(ws)

(* The workspaces a fork from ws would follow, directly or not: all that the  *)
(* search finds that starts at ws and visits each workspace once.             *)
sources_reached(ws) ==
  LET visited == {W \in SUBSET Workspaces : ws \in W /\ \A w \in W : fork_edges(w) \subseteq W}
  IN {w \in Workspaces : \A W \in visited : w \in W}

next_version(ws, name) == latest_version(schemas, ws, name) + 1

(* Archived and without an origin: a head never becomes the schema new *)
(* content is created on.                                              *)
insert_fork_head(ws, def) ==
  /\ validate_definition(def)
  /\ HasRoom(schemas)
  /\ ~version_locked(ws, def.name)
  /\ schemas' = [schemas EXCEPT ![NextSchema(schemas)] =
       SchemaRow(ws, def, next_version(ws, def.name), "archived", None, None, FALSE)]

to_record(f) ==
  LET fork == forks[f]
      latest == latest_source_by_name(TenantOf[fork.ws], fork.source_ws, fork.source_name)
  IN [fork |-> f, version |-> schemas[fork.head].version, customized |-> fork.customized,
      upstream_version |-> IF latest # None /\ schemas[latest].version > fork.source_version
                           THEN schemas[latest].version ELSE None]

-----------------------------------------------------------------------------
(* One fork of a source's name a workspace. *)
CreateFork(ws, source_ws, s) ==
  LET f == Min({g \in ForkIds : forks[g].state = "fresh"})
      head == NextSchema(schemas)
  IN /\ source_ws # ws
     /\ current_source(TenantOf[ws], source_ws, s)
     /\ ws \notin sources_reached(source_ws)
     /\ \E g \in ForkIds : forks[g].state = "fresh"
     /\ ~ \E g \in ForksOf(ws) : forks[g].source_ws = source_ws /\ forks[g].source_name = schemas[s].name
     /\ insert_fork_head(ws, schemas[s].def)
     /\ forks' = [forks EXCEPT ![f] = Fork(ws, source_ws, s, head)]
     /\ heads' = heads \cup {<<f, head>>}
     /\ UNCHANGED <<used, library, homes, calls, seed, late>>

MoveHead(f) == heads' = heads \cup {<<f, NextSchema(schemas)>>}

(* expected_head is None when the client did not say what it read. *)
Unchanged_since_read(f, expected_head) == expected_head # None => forks[f].head = expected_head

(* A local edit keeps the source's name and marks the fork. *)
CustomizeFork(ws, f, def, expected_head) ==
  /\ get_fork(ws, f)
  /\ Unchanged_since_read(f, expected_head)
  /\ def.name = forks[f].source_name
  /\ insert_fork_head(ws, def)
  /\ forks' = [forks EXCEPT ![f].head = NextSchema(schemas), ![f].customized = TRUE]
  /\ MoveHead(f)
  /\ UNCHANGED <<used, library, homes, calls, seed, late>>

(* Following drops local edits, so a customized fork needs force. *)
FollowFork(ws, f, force, expected_head, expected_source) ==
  LET source == latest_source_by_name(TenantOf[ws], forks[f].source_ws, forks[f].source_name)
  IN /\ get_fork(ws, f)
     /\ Unchanged_since_read(f, expected_head)
     /\ forks[f].customized => force
     /\ source # None
     /\ expected_source # None => source = expected_source
     /\ insert_fork_head(ws, schemas[source].def)
     /\ forks' = [forks EXCEPT ![f].head = NextSchema(schemas), ![f].customized = FALSE,
                               ![f].source = source, ![f].source_version = schemas[source].version]
     /\ MoveHead(f)
     /\ UNCHANGED <<used, library, homes, calls, seed, late>>

(* The versions stay behind; only the record of which were heads goes. *)
DeleteFork(ws, f) ==
  /\ get_fork(ws, f)
  /\ ~ \E h \in heads : h[1] = f /\ h[2] \in used
  /\ forks' = [forks EXCEPT ![f] = GoneFork]
  /\ heads' = {h \in heads : h[1] # f}
  /\ UNCHANGED <<used, store>>

-----------------------------------------------------------------------------
(* What keeps a version from being deleted. *)
ReferencedByOwnForks(ws) ==
  used \cup {homes[w] : w \in Workspaces} \cup {h[2] : h \in heads}
       \cup UNION {{forks[f].source, forks[f].head} : f \in ForksOf(ws)}

Referenced(ws) ==
  used \cup {homes[w] : w \in Workspaces} \cup {h[2] : h \in heads}
       \cup UNION {{forks[f].source, forks[f].head} : f \in StoredForks}

ArchiveVersion(ws, s) ==
  /\ get_by_id(schemas, ws, s)
  /\ ~version_locked(ws, schemas[s].name)
  /\ schemas' = archive(schemas, s)
  /\ UNCHANGED <<forkStore, library, homes, calls, seed, late>>

DeleteVersion(ws, s) ==
  /\ get_by_id(schemas, ws, s)
  /\ ~version_locked(ws, schemas[s].name)
  /\ deletable(schemas, s, Referenced(ws))
  /\ schemas' = delete_schema(schemas, s)
  /\ late' = late \ {s}
  /\ UNCHANGED <<forkStore, library, homes, calls, seed>>

(* Content is created on an active version. *)
UseVersion(ws, s) ==
  /\ get_by_id(schemas, ws, s) /\ schemas[s].status = "active"
  /\ used' = used \cup {s}
  /\ UNCHANGED <<forks, heads, store>>
===============================================================================

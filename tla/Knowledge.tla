------------------------------ MODULE Knowledge ------------------------------
(***************************************************************************)
(* The content of one workspace: its schema versions, its entities and     *)
(* relations, the snapshots that make bulk jobs undoable, and the bulk     *)
(* jobs themselves (fill-defaults, undo, import), which the queue may      *)
(* deliver more than once.                                                 *)
(*                                                                         *)
(* A statement reads what is committed when it runs, so an operation whose *)
(* reads are not covered by a lock is split where another transaction can  *)
(* slip in: entity creation (under its two locks), update, relation        *)
(* creation and the fill-defaults run.  The writes of an open fill run     *)
(* show at its commit; until then they hold their rows.  The other         *)
(* operations are one step.  A refused operation changes nothing and is    *)
(* not a step.                                                             *)
(***************************************************************************)
EXTENDS SchemaVersions

CONSTANTS
    Ws,             \* the workspace
    Names,          \* the schema names
    EntityIds,      \* bound: entities ever created
    RelationIds,    \* bound: relations ever created
    JobIds,         \* bound: queue jobs ever accepted
    Callers,        \* requests and job runs that may overlap
    MaxRevision,    \* bound: writes to one entity
    MaxEntities     \* the workspace's entity quota

ASSUME KnowledgeAssumption ==
    /\ EntityIds \subseteq Nat /\ IsFiniteSet(EntityIds)
    /\ RelationIds \subseteq Nat /\ IsFiniteSet(RelationIds)
    /\ JobIds \subseteq Nat /\ IsFiniteSet(JobIds)
    /\ MaxRevision \in Nat /\ MaxEntities \in Nat
    /\ None \notin SchemaIds \cup Callers /\ "workspace" \notin Names

VARIABLES
    schemas,    \* the schema versions
    home,       \* the workspace's status and default schema
    entities,   \* the entity rows
    relations,  \* the relation rows
    snapshots,  \* what bulk jobs saved, oldest first
    jobs,       \* the bulk jobs accepted by the queue
    done,       \* the jobs whose completion is in the audit log
    locks,      \* who holds each advisory lock
    calls       \* what each open request or run has read so far

content == <<schemas, home, entities, relations, snapshots>>
queue == <<jobs, done>>
store == <<content, queue, locks, calls>>

FreshEntity == [state |-> "fresh"]
GoneEntity == [state |-> "gone"]

(* rev stands for the row's sync token and its updated_at, which every write *)
(* replaces; by remembers the operation that wrote the data.                 *)
EntityRow(schema, type, data, rev, by) ==
  [state |-> "live", schema |-> schema, type |-> type, data |-> data, rev |-> rev, by |-> by]

LiveIn(rows) == {i \in DOMAIN rows : rows[i].state = "live"}

Live == LiveIn(entities)

RelationRow(source, target, type) ==
  [state |-> "live", source |-> source, target |-> target, type |-> type, status |-> "active"]

LiveRelations == LiveIn(relations)

Snapshot(job, e, row) == [job |-> job, entity |-> e, row |-> row]

Fresh(rows) == {i \in DOMAIN rows : rows[i].state = "fresh"}

(* Inserts a row under the next id. *)
Insert(rows, row) == [rows EXCEPT ![Min(Fresh(rows))] = row]

Idle == [op |-> "idle"]

(* Rows an open fill run has written, and those a confirmation has read, are *)
(* locked until it ends.                                                     *)
Held(call) ==
  CASE call.op = "fill" -> DOMAIN call.writes
    [] call.op = "confirm" -> call.held
    [] OTHER -> {}

Locked == UNION {Held(calls[c]) : c \in Callers}

RowFree(e) == e \notin Locked

lock_for_update(key, c) == locks[key] \in {None, c}

Release(c) == [k \in DOMAIN locks |-> IF locks[k] = c THEN None ELSE locks[k]]

(* resolve_entity_type, then validate_data: version s of the table S has the *)
(* type and the type accepts the data.                                       *)
Accepts(S, s, type, data) ==
  type \in DOMAIN S[s].def.types /\ validate_data(S[s].def.types[type], data)

Written(row, data, by) == [row EXCEPT !.data = data, !.rev = @ + 1, !.by = by]

-----------------------------------------------------------------------------
(* Schema versions.  Every operation holds the lock of the name, so it waits *)
(* while an entity of that name is between resolving and insertion.          *)

lock_version(name, c) == lock_for_update(name, c)

CreateSchema(def, template) ==
    /\ HasRoom(schemas)
    /\ validate_definition(def)
    /\ lock_version(def.name, None)
    /\ schemas' = create_schema(schemas, Ws, def, template, IF template = None THEN None ELSE def)
    /\ home' = mark_active(home, NextSchema(schemas))
    /\ UNCHANGED <<entities, relations, snapshots, queue, locks, calls>>

ArchiveSchema(s) ==
    /\ get_by_id(schemas, Ws, s)
    /\ lock_version(schemas[s].name, None)
    /\ schemas' = archive(schemas, s)
    /\ UNCHANGED <<home, entities, relations, snapshots, queue, locks, calls>>

ReferencedByContent_but_default ==
  {entities[e].schema : e \in Live} \cup {snapshots[i].row.schema : i \in DOMAIN snapshots}

(* What the content of the workspace refers to. *)
ReferencedByContent ==
  {entities[e].schema : e \in Live} \cup {snapshots[i].row.schema : i \in DOMAIN snapshots}
    \cup {home.schema}

DeleteSchema(s, referenced) ==
    /\ get_by_id(schemas, Ws, s)
    /\ lock_version(schemas[s].name, None)
    /\ deletable(schemas, s, referenced)
    /\ schemas' = delete_schema(schemas, s)
    /\ UNCHANGED <<home, entities, relations, snapshots, queue, locks, calls>>

-----------------------------------------------------------------------------
(* Entities.                                                                *)
check_entity_quota(E) == Cardinality(LiveIn(E)) < MaxEntities

CreateEntity_without_lock(c, name, type, data) ==
    /\ calls[c] = Idle
    /\ check_entity_quota(entities)
    /\ ~is_schema_pending(home)
    /\ calls' = [calls EXCEPT ![c] = [op |-> "create", name |-> name, type |-> type, data |-> data,
                                      schema |-> None]]
    /\ UNCHANGED <<content, queue, locks>>

(* Under the workspace's lock until it commits: the count, then the state. *)
CreateEntity(c, name, type, data) ==
    /\ calls[c] = Idle
    /\ lock_for_update("workspace", c)
    /\ check_entity_quota(entities)
    /\ ~is_schema_pending(home)
    /\ locks' = [locks EXCEPT !["workspace"] = c]
    /\ calls' = [calls EXCEPT ![c] = [op |-> "create", name |-> name, type |-> type, data |-> data,
                                      schema |-> None]]
    /\ UNCHANGED <<content, queue>>

(* The version lock joins it; a refusal rolls the transaction back. *)
ResolveEntity(c) ==
    /\ calls[c].op = "create" /\ calls[c].schema = None
    /\ lock_version(calls[c].name, c)
    /\ LET s == get_active_schema(schemas, Ws, calls[c].name)
       IN IF s # None /\ Accepts(schemas, s, calls[c].type, calls[c].data)
          THEN /\ locks' = [locks EXCEPT ![calls[c].name] = c]
               /\ calls' = [calls EXCEPT ![c].schema = s]
          ELSE locks' = Release(c) /\ calls' = [calls EXCEPT ![c] = Idle]
    /\ UNCHANGED <<content, queue>>

InsertEntity(c) ==
    /\ calls[c].op = "create" /\ calls[c].schema # None
    /\ Fresh(entities) # {}
    /\ entities' = Insert(entities, EntityRow(calls[c].schema, calls[c].type, calls[c].data, 0, "create"))
    /\ locks' = Release(c)
    /\ calls' = [calls EXCEPT ![c] = Idle]
    /\ UNCHANGED <<schemas, home, relations, snapshots, queue>>

UpdateEntity_by_active(c, e, data, expected) ==
    /\ calls[c] = Idle
    /\ e \in Live
    /\ expected \in {None, entities[e].rev}
    /\ LET s == get_active_schema(schemas, Ws, schemas[entities[e].schema].name)
       IN s # None /\ Accepts(schemas, s, entities[e].type, data)
    /\ calls' = [calls EXCEPT ![c] = [op |-> "update", entity |-> e, data |-> data,
                                      rev |-> entities[e].rev, checked |-> expected # None]]
    /\ UNCHANGED <<content, queue, locks>>

(* The row is read and the data validated against the version it names. An *)
(* expected revision other than the current one is a conflict.             *)
UpdateEntity(c, e, data, expected) ==
    /\ calls[c] = Idle
    /\ e \in Live
    /\ expected \in {None, entities[e].rev}
    /\ Accepts(schemas, entities[e].schema, entities[e].type, data)
    /\ calls' = [calls EXCEPT ![c] = [op |-> "update", entity |-> e, data |-> data,
                                      rev |-> entities[e].rev, checked |-> expected # None]]
    /\ UNCHANGED <<content, queue, locks>>

update_matches_always(row, call) == TRUE

(* Only an update that named a revision insists on the one it read. *)
update_matches(row, call) == call.checked => row.rev = call.rev

WriteEntity(c) ==
    /\ calls[c].op = "update"
    /\ LET e == calls[c].entity
       IN /\ RowFree(e)
          /\ e \in Live => entities[e].rev < MaxRevision
          /\ entities' = IF e \in Live /\ update_matches(entities[e], calls[c])
                         THEN [entities EXCEPT ![e] = Written(@, calls[c].data,
                                 IF calls[c].checked THEN "update" ELSE "blind")]
                         ELSE entities
    /\ calls' = [calls EXCEPT ![c] = Idle]
    /\ UNCHANGED <<schemas, home, relations, snapshots, queue, locks>>

relations_after_entity_outgoing(e) ==
  [x \in RelationIds |->
     IF x \in LiveRelations /\ e = relations[x].source
     THEN [state |-> "gone"] ELSE relations[x]]

(* The entity's relations go with it; snapshots and proposals stay. *)
relations_after_entity(e) ==
  [x \in RelationIds |->
     IF x \in LiveRelations /\ e \in {relations[x].source, relations[x].target}
     THEN [state |-> "gone"] ELSE relations[x]]

DeleteEntity(e) ==
    /\ e \in Live /\ RowFree(e)
    /\ entities' = [entities EXCEPT ![e] = GoneEntity]
    /\ relations' = relations_after_entity(e)
    /\ UNCHANGED <<schemas, home, snapshots, queue, locks, calls>>

-----------------------------------------------------------------------------
(* Relations.                                                               *)
(* By the version of the source entity. *)
validate_relation_type(S, E, e, f, type) ==
  LET defs == S[E[e].schema].def.relations
  IN type \in DOMAIN defs /\ defs[type] = [source |-> E[e].type, target |-> E[f].type]

CreateRelation(c, e, f, type) ==
    /\ calls[c] = Idle
    /\ {e, f} \subseteq Live
    /\ validate_relation_type(schemas, entities, e, f, type)
    /\ calls' = [calls EXCEPT ![c] = [op |-> "relate", row |-> RelationRow(e, f, type)]]
    /\ UNCHANGED <<content, queue, locks>>

SameEdge(r, q) == r.source = q.source /\ r.target = q.target /\ r.type = q.type

(* The foreign keys and the unique index have the last word. *)
insertable(E, R, row) ==
  /\ {row.source, row.target} \subseteq LiveIn(E)
  /\ ~\E x \in LiveIn(R) : SameEdge(R[x], row)

InsertRelation(c) ==
    /\ calls[c].op = "relate"
    /\ Fresh(relations) # {}
    /\ relations' = IF insertable(entities, relations, calls[c].row)
                    THEN Insert(relations, calls[c].row) ELSE relations
    /\ calls' = [calls EXCEPT ![c] = Idle]
    /\ UNCHANGED <<schemas, home, entities, snapshots, queue, locks>>

RelationStatuses == {"active", "deprecated", "archived"}

SetRelationStatus(x, status) ==
    /\ x \in LiveRelations
    /\ relations' = [relations EXCEPT ![x].status = status]
    /\ UNCHANGED <<schemas, home, entities, snapshots, queue, locks, calls>>

DeleteRelation(x) ==
    /\ x \in LiveRelations
    /\ relations' = [relations EXCEPT ![x] = [state |-> "gone"]]
    /\ UNCHANGED <<schemas, home, entities, snapshots, queue, locks, calls>>
=============================================================================

------------------------------ MODULE KnowledgeProofs ------------------------------
(***************************************************************************)
(* The invariant holds of everything the REST handlers, the MCP tools and   *)
(* the workers do, and what follows for the store.                          *)
(***************************************************************************)
EXTENDS KnowledgeApi, ContentProofs

-----------------------------------------------------------------------------
(* All steps. *)

(* What a step does to the store, whichever interface asked for it. *)
StoreNext ==
    \/ UNCHANGED store
    \/ \E c \in Callers :
         \/ \E name \in Names, type \in Types, data \in Datas : CreateEntity(c, name, type, data)
         \/ \E e \in EntityIds, data \in Datas : \E expected \in {None} \cup 0..MaxRevision :
                UpdateEntity(c, e, data, expected)
         \/ \E e, f \in EntityIds, type \in RelationTypes : CreateRelation(c, e, f, type)
         \/ ResolveEntity(c) \/ InsertEntity(c) \/ WriteEntity(c) \/ InsertRelation(c)
         \/ FillSnapshot(c) \/ FillWrite(c) \/ FillCommit(c) \/ ImportCommit(c)
         \/ DeadlockVictim(c) \/ RunDies(c)
         \/ \E j \in JobIds : FillRead(c, j) \/ ImportStart(c, j)
    \/ \E e \in EntityIds : DeleteEntity(e)
    \/ \E x \in RelationIds : DeleteRelation(x) \/ \E status \in RelationStatuses : SetRelationStatus(x, status)
    \/ \E def \in Defs : CreateSchema(def, None)
    \/ \E s \in SchemaIds : ArchiveSchema(s) \/ DeleteSchema(s, ReferencedByContent)
    \/ \E name \in Names : EnqueueFill(name)
    \/ \E lines \in Files : EnqueueImport(lines)
    \/ \E j \in JobIds : EnqueueUndo(j) \/ RunUndo(j) \/ RevokeActor(j)

(* A read changes nothing. *)
LEMMA ReadsOnly == ASSUME NEW c, ReadNext(c) PROVE UNCHANGED store
BY Zenon DEF ReadNext, Answers, RestGetEntity, McpGetEntity, McpEntityDrift, RestListEntities, McpListEntities,
       RestListSchemas, McpListSchemas, RestListRelations, McpListRelations, RestMigrationJobStatus,
       McpMigrationJobStatus, RestImportJobStatus, McpImportJobStatus, RestGetActiveSchema,
       McpGetActiveSchema, McpMigrationDryRun, RestGetSchema, McpGetSchema, RestJsonSchema, McpJsonSchema,
       RestGetRelation, McpGetRelation, RestExport, McpExport, McpRecallContext

(* Every REST handler and every MCP tool makes one of the store's own steps. *)
LEMMA NextIsStoreNext == [Next]_vars => StoreNext
<1>1. ASSUME NEW c \in Callers, EntityNext(c) PROVE StoreNext
  BY <1>1 DEF StoreNext, EntityNext, RestCreateEntity, McpCreateEntity, RestUpdateEntity, McpUpdateEntity,
      RestDeleteEntity, McpDeleteEntity, RestCreateRelation, McpCreateRelation, RestSetRelationStatus,
      McpSetRelationStatus, RestDeleteRelation, McpDeleteRelation
<1>2. ASSUME NEW c \in Callers, SchemaNext(c) PROVE StoreNext
  BY Zenon, <1>2 DEF StoreNext, SchemaNext, RestCreateSchema, McpCreateSchema, RestArchiveSchema,
      McpArchiveSchema, RestDeleteSchema, McpDeleteSchema
<1>3. ASSUME NEW c \in Callers, JobNext(c) PROVE StoreNext
  BY <1>3 DEF StoreNext, JobNext, RestFillDefaults, McpFillDefaults, RestUndoMigrationJob,
      McpUndoMigrationJob, RestImport, McpImport
<1>4. ASSUME NEW c \in Callers, Step(c) PROVE StoreNext
  BY Zenon, <1>4 DEF StoreNext, Step
<1>5. ASSUME NEW c \in Callers, NEW j \in JobIds, Deliver(c, j) PROVE StoreNext
  BY <1>5 DEF StoreNext, Deliver
<1>6. ASSUME NEW c \in Callers, ReadNext(c) PROVE StoreNext
  BY Zenon, <1>6, ReadsOnly DEF StoreNext
<1>7. ASSUME NEW c \in Callers, Fault(c) PROVE StoreNext
  BY <1>7 DEF StoreNext, Fault
<1>8. ASSUME NEW j \in JobIds, Revoke(j) PROVE StoreNext
  BY Zenon, <1>8 DEF StoreNext, Revoke
<1>9. ASSUME UNCHANGED vars PROVE StoreNext
  BY <1>9 DEF StoreNext, vars
<1> HIDE DEF StoreNext
<1> QED BY Zenon, <1>1, <1>2, <1>3, <1>4, <1>5, <1>6, <1>7, <1>8, <1>9 DEF Next

(* The empty store satisfies the invariant. *)
LEMMA InitiallyOK == Init => KnowledgeInv
<1> SUFFICES ASSUME Init PROVE KnowledgeInv
  OBVIOUS
<1>1. /\ schemas = [s \in SchemaIds |-> FreshSchema] /\ home.schema = None
      /\ entities = [e \in EntityIds |-> FreshEntity]
      /\ relations = [x \in RelationIds |-> [state |-> "fresh"]]
      /\ snapshots = <<>> /\ jobs = [j \in JobIds |-> FreshJob]
      /\ locks = [k \in {"workspace"} \cup Names |-> None] /\ calls = [c \in Callers |-> Idle]
  BY DEF Init
<1>2. TableOK(schemas)
  BY Zenon, <1>1 DEF TableOK, FreshSchema, Stored
<1>3. LiveIn(entities) = {} /\ LiveIn(relations) = {}
  BY <1>1 DEF LiveIn, FreshEntity
<1>4. RowsOK(schemas, entities)
  BY Zenon, <1>1, <1>3 DEF RowsOK, FreshEntity, States
<1>5. EdgesOK(schemas, entities, relations)
  BY SMTT(20), <1>1, <1>3 DEF EdgesOK, States
<1>6. ContentInv
  <2>1. Cardinality(LiveIn(entities)) = 0
    BY SMTT(20), <1>3, FS_EmptySet
  <2> QED BY SMTT(20), <1>1, <1>2, <1>4, <1>5, <2>1, KnowledgeAssumption DEF ContentInv, ContentOK, HomeOK
<1>7. CallsInv
  <2>1. \A c \in Callers : calls[c] = Idle
    BY <1>1
  <2>2. RunsExclude(calls)
    BY Zenon, <2>1, IdleOK DEF RunsExclude
  <2> QED BY Zenon, <1>1, <2>1, <2>2, IdleOK DEF CallsInv
<1>8. JobsOK(jobs)
  BY <1>1 DEF JobsOK, FreshJob
<1>9. SnapshotsOK(schemas, entities, done, snapshots)
  <2>1. <<>> \in Seq({})
    OBVIOUS
  <2> QED BY SMTT(20), <1>1, <2>1 DEF SnapshotsOK, IsSequence
<1> QED BY Zenon, <1>6, <1>7, <1>8, <1>9 DEF KnowledgeInv

(* Every step of the store keeps the invariant. *)
LEMMA StoreNextKeeps == KnowledgeInv /\ StoreNext => KnowledgeInv'
<1> SUFFICES ASSUME KnowledgeInv, StoreNext PROVE KnowledgeInv'
  OBVIOUS
<1>1. CASE UNCHANGED store
  BY <1>1 DEF store, content, queue, KnowledgeInv, ContentInv, CallsInv
<1>2. ASSUME NEW c \in Callers,
             \/ \E name \in Names, type \in Types, data \in Datas : CreateEntity(c, name, type, data)
             \/ \E e \in EntityIds, data \in Datas : \E expected \in {None} \cup 0..MaxRevision :
                    UpdateEntity(c, e, data, expected)
             \/ \E e, f \in EntityIds, type \in RelationTypes : CreateRelation(c, e, f, type)
      PROVE  KnowledgeInv'
  BY SMTT(20), <1>2, CreateEntityKeeps, UpdateEntityKeeps, CreateRelationKeeps
<1>3. ASSUME NEW c \in Callers, ResolveEntity(c) \/ InsertEntity(c) \/ WriteEntity(c) \/ InsertRelation(c)
      PROVE  KnowledgeInv'
  BY <1>3, ResolveEntityKeeps, InsertEntityKeeps, WriteEntityKeeps, InsertRelationKeeps
<1>4. ASSUME NEW c \in Callers, FillSnapshot(c) \/ FillWrite(c) \/ FillCommit(c) \/ ImportCommit(c)
      PROVE  KnowledgeInv'
  BY Zenon, <1>4, FillSnapshotKeeps, FillWriteKeeps, FillCommitKeeps, ImportCommitKeeps
<1>5. ASSUME NEW c \in Callers, DeadlockVictim(c) \/ RunDies(c) PROVE KnowledgeInv'
  BY <1>5, GivesUp DEF DeadlockVictim, RunDies
<1>6. ASSUME NEW c \in Callers, NEW j \in JobIds, FillRead(c, j) \/ ImportStart(c, j) PROVE KnowledgeInv'
  BY <1>6, FillReadKeeps, ImportStartKeeps
<1>7. ASSUME NEW e \in EntityIds, DeleteEntity(e) PROVE KnowledgeInv'
  BY <1>7, DeleteEntityKeeps
<1>8. ASSUME NEW x \in RelationIds, DeleteRelation(x) \/ \E status \in RelationStatuses : SetRelationStatus(x, status)
      PROVE  KnowledgeInv'
  BY Zenon, <1>8, DeleteRelationKeeps, SetRelationStatusKeeps
<1>9. ASSUME NEW def \in Defs, CreateSchema(def, None) PROVE KnowledgeInv'
  BY <1>9, CreateSchemaKeeps
<1>10. ASSUME NEW s \in SchemaIds, ArchiveSchema(s) \/ DeleteSchema(s, ReferencedByContent) PROVE KnowledgeInv'
  BY Zenon, <1>10, ArchiveSchemaKeeps, DeleteSchemaKeeps
<1>11. ASSUME NEW name \in Names, EnqueueFill(name) PROVE KnowledgeInv'
  BY SMTT(20), <1>11, EnqueueKeeps DEF EnqueueFill
<1>12. ASSUME NEW lines \in Files, EnqueueImport(lines) PROVE KnowledgeInv'
  <2>1. LinesOK(lines)
    BY Zenon, ApiAssumption DEF LinesOK, ImportKinds, IsSequence
  <2> QED BY Zenon, <1>12, <2>1, EnqueueKeeps DEF EnqueueImport
<1>13. ASSUME NEW j \in JobIds, EnqueueUndo(j) \/ RunUndo(j) \/ RevokeActor(j) PROVE KnowledgeInv'
  <2>1. CASE EnqueueUndo(j)
    BY <2>1, EnqueueKeeps DEF EnqueueUndo
  <2> QED BY Zenon, <1>13, <2>1, RunUndoKeeps, RevokeActorKeeps
<1> QED BY Zenon, <1>1, <1>2, <1>3, <1>4, <1>5, <1>6, <1>7, <1>8, <1>9, <1>10, <1>11, <1>12, <1>13 DEF StoreNext

(* The invariant of the store holds throughout. *)
THEOREM KnowledgeInvariant == Spec => []KnowledgeInv
<1>1. KnowledgeInv /\ [Next]_vars => KnowledgeInv'
  BY Zenon, NextIsStoreNext, StoreNextKeeps
<1> QED BY <1>1, InitiallyOK, PTL DEF Spec

-----------------------------------------------------------------------------
(* What it says. *)

(* check_entity_quota counts under the workspace lock, so the live entities never
   exceed the quota, however creations and imports interleave. *)
THEOREM QuotaHolds == Spec => []QuotaRespected
<1>1. KnowledgeInv => QuotaRespected
  BY Zenon DEF KnowledgeInv, ContentInv, QuotaRespected, Live
<1> QED BY <1>1, KnowledgeInvariant, PTL

(* At most one version of a name is active, and versions of a name have distinct
   numbers, although create_schema, archive, delete and import all write the table. *)
THEOREM OneVersionIsActive == Spec => []OneActiveVersion
<1>1. ASSUME KnowledgeInv, NEW name \in Names
      PROVE  /\ Cardinality(Active(schemas, Ws, name)) <= 1
             /\ \A s, t \in Versions(schemas, Ws, name) : schemas[s].version = schemas[t].version => s = t
  <2> DEFINE A == Active(schemas, Ws, name)
  <2>1. TableOK(schemas)
    BY <1>1 DEF KnowledgeInv, ContentInv, ContentOK
  <2>2. \A s, t \in A : s = t
    BY <2>1 DEF TableOK, Active, Versions
  <2>3. Cardinality(A) <= 1
    <3>1. CASE A = {}
      BY <3>1, FS_EmptySet
    <3>2. CASE A # {}
      <4>1. PICK s \in A : TRUE
        BY <3>2
      <4>2. A = {s}
        BY Zenon, <2>2, <4>1
      <4> HIDE DEF A
      <4> QED BY <4>2, FS_Singleton
    <3> QED BY Zenon, <3>1, <3>2
  <2>4. \A s, t \in Versions(schemas, Ws, name) : schemas[s].version = schemas[t].version => s = t
    BY <2>1 DEF TableOK, Versions
  <2> QED BY SMTT(20), <2>3, <2>4
<1>2. KnowledgeInv => OneActiveVersion
  BY Zenon, <1>1 DEF OneActiveVersion
<1> QED BY <1>2, KnowledgeInvariant, PTL

(* delete_schema never removes a version that a live entity or the workspace's
   default names, whatever a creation, an import or a fill has in flight. *)
THEOREM ReferencesHold == Spec => []ReferencedVersionsStay
<1>1. KnowledgeInv => ReferencedVersionsStay
  BY SMTT(20) DEF KnowledgeInv, ContentInv, ContentOK, RowsOK, EntityOK, HomeOK, ReferencedVersionsStay, Live
<1> QED BY <1>1, KnowledgeInvariant, PTL

(* Stored data is what the entity's version accepts, unless fill-defaults wrote
   it: validation and write are separate steps, and nothing between them matters. *)
THEOREM DataFits == Spec => []DataFitsVersion
<1>1. KnowledgeInv => DataFitsVersion
  BY SMTT(20) DEF KnowledgeInv, ContentInv, ContentOK, RowsOK, EntityOK, DataFitsVersion, Live
<1> QED BY <1>1, KnowledgeInvariant, PTL

(* A job has at most one snapshot of an entity, so undo restores what was there
   before the job even when the job ran again after a crash. *)
THEOREM SavedOnce == Spec => []SnapshotOnce
<1>1. KnowledgeInv => SnapshotOnce
  BY SMTT(20) DEF KnowledgeInv, SnapshotsOK, SnapshotOnce
<1> QED BY <1>1, KnowledgeInvariant, PTL

(* Live relations join live entities whose versions allow them, and no pair has
   the same relation twice. *)
THEOREM RelationsStayTrue == Spec => []RelationsHold
<1>1. KnowledgeInv => RelationsHold
  BY Zenon DEF KnowledgeInv, ContentInv, ContentOK, EdgesOK, RelationsHold, Live, LiveRelations
<1> QED BY <1>1, KnowledgeInvariant, PTL

(* The only step that ends an update and changes an entity is its own write. *)
LEMMA OnlyItsWrite ==
    ASSUME KnowledgeInv, StoreNext, NEW c \in Callers, calls[c].op = "update", calls'[c] = Idle,
           entities' # entities
    PROVE  WriteEntity(c)
<1>1. calls = [d \in Callers |-> calls[d]] /\ calls[c] # Idle
  BY DEF KnowledgeInv, CallsInv, Idle
<1>2. ~UNCHANGED calls
  BY Zenon, <1>1
<1>3. ASSUME NEW d \in Callers, calls' = [calls EXCEPT ![d] = Idle] PROVE d = c
  BY SMTT(20), <1>1, <1>3
<1>4. ASSUME NEW d \in Callers, InsertEntity(d) \/ FillCommit(d) \/ ImportCommit(d) PROVE FALSE
  <2>1. calls' = [calls EXCEPT ![d] = Idle] /\ calls[d].op # "update"
    BY Zenon, <1>4 DEF InsertEntity, FillCommit, ImportCommit
  <2> QED BY Zenon, <1>3, <2>1
<1>5. ASSUME NEW d \in Callers, WriteEntity(d) PROVE WriteEntity(c)
  <2>1. calls' = [calls EXCEPT ![d] = Idle]
    BY <1>5 DEF WriteEntity
  <2> QED BY Zenon, <1>3, <1>5, <2>1
<1>6. ~UNCHANGED content /\ ~UNCHANGED store
  BY Zenon DEF content, store
<1>7. ASSUME NEW d \in Callers,
             \/ \E name \in Names, type \in Types, data \in Datas : CreateEntity(d, name, type, data)
             \/ \E e \in EntityIds, data \in Datas : \E expected \in {None} \cup 0..MaxRevision :
                    UpdateEntity(d, e, data, expected)
             \/ \E e, f \in EntityIds, type \in RelationTypes : CreateRelation(d, e, f, type)
             \/ ResolveEntity(d) \/ InsertRelation(d) \/ FillSnapshot(d) \/ FillWrite(d)
             \/ DeadlockVictim(d) \/ RunDies(d)
             \/ \E j \in JobIds : FillRead(d, j) \/ ImportStart(d, j)
      PROVE  FALSE
  BY Zenon, <1>6, <1>7 DEF CreateEntity, UpdateEntity, CreateRelation, ResolveEntity, InsertRelation, FillSnapshot,
      FillWrite, DeadlockVictim, RunDies, FillRead, ImportStart
<1>8. /\ ~\E e \in EntityIds : DeleteEntity(e)
      /\ ~\E x \in RelationIds : DeleteRelation(x) \/ \E status \in RelationStatuses : SetRelationStatus(x, status)
      /\ ~\E def \in Defs : CreateSchema(def, None)
      /\ ~\E s \in SchemaIds : ArchiveSchema(s) \/ DeleteSchema(s, ReferencedByContent)
      /\ ~\E name \in Names : EnqueueFill(name)
      /\ ~\E lines \in Files : EnqueueImport(lines)
      /\ ~\E j \in JobIds : EnqueueUndo(j) \/ RunUndo(j) \/ RevokeActor(j)
  BY <1>2 DEF DeleteEntity, DeleteRelation, SetRelationStatus, CreateSchema, ArchiveSchema, DeleteSchema,
      EnqueueFill, EnqueueImport, EnqueueUndo, Enqueue, RunUndo, RevokeActor
<1> QED BY Zenon, <1>4, <1>5, <1>6, <1>7, <1>8 DEF StoreNext

(* An update that states the revision it edits writes only over that revision. *)
THEOREM NoEditIsLost == Spec => NoLostEdit
<1> DEFINE Kept == \A c \in Callers :
                      /\ calls[c].op = "update" /\ calls[c].checked /\ calls'[c] = Idle
                      /\ entities' # entities
                      => entities[calls[c].entity].rev = calls[c].rev
<1>1. KnowledgeInv /\ [Next]_vars => [Kept]_vars
  <2> SUFFICES ASSUME KnowledgeInv, [Next]_vars, NEW c \in Callers, calls[c].op = "update",
                      calls[c].checked, calls'[c] = Idle, entities' # entities
               PROVE  entities[calls[c].entity].rev = calls[c].rev
    OBVIOUS
  <2>1. WriteEntity(c)
    BY Zenon, NextIsStoreNext, OnlyItsWrite
  <2> QED BY <2>1 DEF WriteEntity, update_matches
<1> QED BY <1>1, KnowledgeInvariant, PTL DEF Spec, NoLostEdit
=============================================================================

---------------------------- MODULE KnowledgeApi ----------------------------
(***************************************************************************)
(* What reaches the content of a workspace: the REST handlers, the MCP     *)
(* tools and the deliveries of bulk jobs, and what is promised about the   *)
(* content.  A handler opens one transaction under its caller's key, whose *)
(* scope it checks first; a read answers and changes nothing.              *)
(***************************************************************************)
EXTENDS Reading

CONSTANTS
    Scope,      \* the scope of each caller's key
    Defs,       \* the definitions callers send
    Datas,      \* the data callers send
    Files,      \* the files callers import
    Limits,     \* the page sizes and depths readers ask for
    Budgets     \* bounds: how many operations of each kind a behaviour has

Kinds == {"schema", "create", "edit", "delete", "relate", "fill", "undo",
          "import", "fault", "read"}

ReadScope == 1
WriteScope == 2
SchemaScope == 3
MigrationScope == 4

ASSUME ApiAssumption ==
    /\ Scope \in [Callers -> ReadScope..MigrationScope]
    /\ Budgets \subseteq [Kinds -> Nat]
    /\ Limits \subseteq Nat
    /\ \A def \in Defs : def.name \in Names
    /\ \A lines \in Files :
         /\ lines \in Seq({lines[i] : i \in DOMAIN lines})
         /\ \A i \in DOMAIN lines : /\ lines[i].kind \in {"schema", "entity", "relation"}
                                    /\ lines[i].kind = "schema" => lines[i].def.name \in Names

VARIABLES
    answer,     \* what the last step told its caller, or None
    budget

vars == <<store, answer, budget>>

Types == UNION {DOMAIN d.types : d \in Defs}
RelationTypes == UNION {DOMAIN d.relations : d \in Defs}

Spend(k) == budget[k] > 0 /\ budget' = [budget EXCEPT ![k] = @ - 1]

Init ==
    /\ schemas = [s \in SchemaIds |-> FreshSchema]
    /\ home = [status |-> "schema_pending", schema |-> None]
    /\ entities = [e \in EntityIds |-> FreshEntity]
    /\ relations = [x \in RelationIds |-> [state |-> "fresh"]]
    /\ snapshots = <<>>
    /\ jobs = [j \in JobIds |-> FreshJob]
    /\ done = {}
    /\ locks = [k \in {"workspace"} \cup Names |-> None]
    /\ calls = [c \in Callers |-> Idle]
    /\ answer = None
    /\ budget \in Budgets

(* A handler: the key's scope, then its transaction. *)
Handles(c, scope, kind) ==
    /\ calls[c] = Idle
    /\ Scope[c] >= scope
    /\ Spend(kind)
    /\ answer' = None

(* A handler that only reads. *)
Answers(c, scope, what) ==
    /\ calls[c] = Idle
    /\ Scope[c] >= scope
    /\ Spend("read")
    /\ answer' = what
    /\ UNCHANGED store

(* A step of a transaction or job that is already under way. *)
Goes == answer' = None /\ UNCHANGED budget

-----------------------------------------------------------------------------
(* REST: entities and migration jobs. *)
RestCreateEntity(c, name, type, data) ==
    Handles(c, WriteScope, "create") /\ CreateEntity(c, name, type, data)

RestUpdateEntity(c, e, data, expected) ==
    Handles(c, WriteScope, "edit") /\ UpdateEntity(c, e, data, expected)

RestDeleteEntity(c, e) == Handles(c, WriteScope, "delete") /\ DeleteEntity(e)

RestUndoMigrationJob(c, j) == Handles(c, MigrationScope, "undo") /\ EnqueueUndo(j)

RestFillDefaults(c, name) == Handles(c, MigrationScope, "fill") /\ EnqueueFill(name)

RestGetEntity(c, e) ==
    e \in Live /\ Answers(c, ReadScope, [op |-> "get_entities", row |-> entities[e]])

(* Newest first, one page of it. *)
Page(ids, limit, offset) ==
  LET newest == Reverse(Ordered(ids))
  IN SubSeq(newest, offset + 1, Min({offset + limit, Len(newest)}))

RestListEntities(c, limit, offset) ==
    Answers(c, ReadScope, [op |-> "list", ids |-> Page(Live, limit, offset)])

job_status(j) == [op |-> "status", job |-> j, result |-> job_completed(j)]

RestMigrationJobStatus(c, j) ==
    jobs[j].kind \in {"fill", "undo"} /\ Answers(c, MigrationScope, job_status(j))

(* REST: schemas. *)
RestCreateSchema(c, def) ==
    /\ Handles(c, SchemaScope, "schema")
    /\ CreateSchema(def, None)

RestArchiveSchema(c, s) == Handles(c, SchemaScope, "schema") /\ ArchiveSchema(s)

RestDeleteSchema(c, s) ==
    Handles(c, SchemaScope, "schema") /\ DeleteSchema(s, ReferencedByContent)

StoredSchemas == {s \in SchemaIds : Stored(schemas, s)}

RestListSchemas(c, limit, offset) ==
    Answers(c, ReadScope, [op |-> "list", ids |-> Page(StoredSchemas, limit, offset)])

RestGetActiveSchema(c, name) ==
    /\ get_active_schema(schemas, Ws, name) # None
    /\ Answers(c, ReadScope, [op |-> "get_schemas", row |-> schemas[get_active_schema(schemas, Ws, name)]])

RestGetSchema(c, s) ==
    get_by_id(schemas, Ws, s) /\ Answers(c, ReadScope, [op |-> "get_schemas", row |-> schemas[s]])

RestJsonSchema(c, name, type) ==
    LET s == get_active_schema(schemas, Ws, name)
    IN /\ s # None /\ type \in DOMAIN schemas[s].def.types
       /\ Answers(c, ReadScope, [op |-> "json_schema", fields |-> schemas[s].def.types[type]])

(* REST: relations. *)
RestCreateRelation(c, e, f, type) ==
    Handles(c, WriteScope, "relate") /\ CreateRelation(c, e, f, type)

RestSetRelationStatus(c, x, status) ==
    Handles(c, WriteScope, "relate") /\ SetRelationStatus(x, status)

RestDeleteRelation(c, x) == Handles(c, WriteScope, "relate") /\ DeleteRelation(x)

RestGetRelation(c, x) ==
    x \in LiveRelations /\ Answers(c, ReadScope, [op |-> "get_relations", row |-> relations[x]])

RestListRelations(c, limit, offset) ==
    Answers(c, ReadScope, [op |-> "list", ids |-> Page(LiveRelations, limit, offset)])

(* REST: import and export. *)
RestImport(c, lines) == Handles(c, SchemaScope, "import") /\ EnqueueImport(lines)

RestImportJobStatus(c, j) ==
    jobs[j].kind = "import" /\ Answers(c, SchemaScope, job_status(j))

RestExport(c) ==
    Answers(c, ReadScope, [op |-> "export", lines |-> export_jsonl(schemas, entities, relations)])

-----------------------------------------------------------------------------
(* MCP: the same operations as tools, and the readers only it has. *)
McpCreateEntity(c, name, type, data) ==
    Handles(c, WriteScope, "create") /\ CreateEntity(c, name, type, data)

McpUpdateEntity(c, e, data, expected) ==
    Handles(c, WriteScope, "edit") /\ UpdateEntity(c, e, data, expected)

McpDeleteEntity(c, e) == Handles(c, WriteScope, "delete") /\ DeleteEntity(e)

McpGetEntity(c, e) ==
    e \in Live /\ Answers(c, ReadScope, [op |-> "get_entities", row |-> entities[e]])

McpListEntities(c, limit, offset) ==
    Answers(c, ReadScope, [op |-> "list", ids |-> Page(Live, limit, offset)])

McpEntityDrift(c, e) ==
    /\ e \in Live
    /\ get_active_schema(schemas, Ws, schemas[entities[e].schema].name) # None
    /\ Answers(c, ReadScope, [op |-> "drift", entity |-> e, drift |-> drift(e)])

McpMigrationDryRun(c, name) ==
    /\ get_active_schema(schemas, Ws, name) # None
    /\ Answers(c, ReadScope, [op |-> "dry_run", name |-> name, report |-> migration_dry_run(name)])

McpFillDefaults(c, name) == Handles(c, MigrationScope, "fill") /\ EnqueueFill(name)

McpUndoMigrationJob(c, j) == Handles(c, MigrationScope, "undo") /\ EnqueueUndo(j)

McpMigrationJobStatus(c, j) ==
    jobs[j].kind \in {"fill", "undo"} /\ Answers(c, MigrationScope, job_status(j))

McpCreateSchema(c, def) ==
    /\ Handles(c, SchemaScope, "schema")
    /\ CreateSchema(def, None)

McpArchiveSchema(c, s) == Handles(c, SchemaScope, "schema") /\ ArchiveSchema(s)

McpDeleteSchema(c, s) ==
    Handles(c, SchemaScope, "schema") /\ DeleteSchema(s, ReferencedByContent)

McpListSchemas(c, limit, offset) ==
    Answers(c, ReadScope, [op |-> "list", ids |-> Page(StoredSchemas, limit, offset)])

McpGetActiveSchema(c, name) ==
    /\ get_active_schema(schemas, Ws, name) # None
    /\ Answers(c, ReadScope, [op |-> "get_schemas", row |-> schemas[get_active_schema(schemas, Ws, name)]])

McpGetSchema(c, s) ==
    get_by_id(schemas, Ws, s) /\ Answers(c, ReadScope, [op |-> "get_schemas", row |-> schemas[s]])

McpJsonSchema(c, name, type) ==
    LET s == get_active_schema(schemas, Ws, name)
    IN /\ s # None /\ type \in DOMAIN schemas[s].def.types
       /\ Answers(c, ReadScope, [op |-> "json_schema", fields |-> schemas[s].def.types[type]])

McpCreateRelation(c, e, f, type) ==
    Handles(c, WriteScope, "relate") /\ CreateRelation(c, e, f, type)

McpSetRelationStatus(c, x, status) ==
    Handles(c, WriteScope, "relate") /\ SetRelationStatus(x, status)

McpDeleteRelation(c, x) == Handles(c, WriteScope, "relate") /\ DeleteRelation(x)

McpGetRelation(c, x) ==
    x \in LiveRelations /\ Answers(c, ReadScope, [op |-> "get_relations", row |-> relations[x]])

McpListRelations(c, limit, offset) ==
    Answers(c, ReadScope, [op |-> "list", ids |-> Page(LiveRelations, limit, offset)])

McpImport(c, lines) == Handles(c, SchemaScope, "import") /\ EnqueueImport(lines)

McpImportJobStatus(c, j) ==
    jobs[j].kind = "import" /\ Answers(c, SchemaScope, job_status(j))

McpExport(c) ==
    Answers(c, ReadScope, [op |-> "export", lines |-> export_jsonl(schemas, entities, relations)])

McpRecallContext(c, e, limit, depth) ==
    /\ e \in Live
    /\ Answers(c, ReadScope, [op |-> "recall", entity |-> e, limit |-> limit, depth |-> depth,
                              found |-> recall_context(e, limit, depth)])

-----------------------------------------------------------------------------
EntityNext(c) ==
    \/ \E name \in Names, type \in Types, data \in Datas :
           RestCreateEntity(c, name, type, data) \/ McpCreateEntity(c, name, type, data)
    \/ \E e \in EntityIds, data \in Datas : \E expected \in {None} \cup 0..MaxRevision :
           RestUpdateEntity(c, e, data, expected) \/ McpUpdateEntity(c, e, data, expected)
    \/ \E e \in EntityIds : RestDeleteEntity(c, e) \/ McpDeleteEntity(c, e)
    \/ \E e, f \in EntityIds, type \in RelationTypes :
           RestCreateRelation(c, e, f, type) \/ McpCreateRelation(c, e, f, type)
    \/ \E x \in RelationIds, status \in RelationStatuses :
           RestSetRelationStatus(c, x, status) \/ McpSetRelationStatus(c, x, status)
    \/ \E x \in RelationIds : RestDeleteRelation(c, x) \/ McpDeleteRelation(c, x)

SchemaNext(c) ==
    \/ \E def \in Defs : RestCreateSchema(c, def) \/ McpCreateSchema(c, def)
    \/ \E s \in SchemaIds : \/ RestArchiveSchema(c, s) \/ McpArchiveSchema(c, s)
                            \/ RestDeleteSchema(c, s) \/ McpDeleteSchema(c, s)

JobNext(c) ==
    \/ \E name \in Names : RestFillDefaults(c, name) \/ McpFillDefaults(c, name)
    \/ \E j \in JobIds : RestUndoMigrationJob(c, j) \/ McpUndoMigrationJob(c, j)
    \/ \E lines \in Files : RestImport(c, lines) \/ McpImport(c, lines)

ReadNext(c) ==
    \/ \E e \in EntityIds : RestGetEntity(c, e) \/ McpGetEntity(c, e) \/ McpEntityDrift(c, e)
    \/ \E limit \in Limits, offset \in {0, 1} :
           \/ RestListEntities(c, limit, offset) \/ McpListEntities(c, limit, offset)
           \/ RestListSchemas(c, limit, offset) \/ McpListSchemas(c, limit, offset)
           \/ RestListRelations(c, limit, offset) \/ McpListRelations(c, limit, offset)
    \/ \E j \in JobIds :
           \/ RestMigrationJobStatus(c, j) \/ McpMigrationJobStatus(c, j)
           \/ RestImportJobStatus(c, j) \/ McpImportJobStatus(c, j)
    \/ \E name \in Names : \/ RestGetActiveSchema(c, name) \/ McpGetActiveSchema(c, name)
                           \/ McpMigrationDryRun(c, name)
    \/ \E s \in SchemaIds : RestGetSchema(c, s) \/ McpGetSchema(c, s)
    \/ \E name \in Names, type \in Types : RestJsonSchema(c, name, type) \/ McpJsonSchema(c, name, type)
    \/ \E x \in RelationIds : RestGetRelation(c, x) \/ McpGetRelation(c, x)
    \/ RestExport(c) \/ McpExport(c)
    \/ \E e \in EntityIds, limit, depth \in Limits : McpRecallContext(c, e, limit, depth)

(* What an open transaction, or a job the queue delivers, does next. *)
Step(c) ==
    /\ \/ ResolveEntity(c) \/ InsertEntity(c) \/ WriteEntity(c) \/ InsertRelation(c)
       \/ FillSnapshot(c) \/ FillWrite(c) \/ FillCommit(c)
       \/ ImportCommit(c) \/ DeadlockVictim(c)
    /\ Goes

Deliver(c, j) == (FillRead(c, j) \/ ImportStart(c, j) \/ RunUndo(j)) /\ Goes

Fault(c) == RunDies(c) /\ Spend("fault") /\ answer' = None

Revoke(j) == RevokeActor(j) /\ Spend("fault") /\ answer' = None

Next ==
    \/ \E c \in Callers :
        \/ EntityNext(c) \/ SchemaNext(c) \/ JobNext(c)
        \/ budget["read"] > 0 /\ ReadNext(c)
        \/ Step(c)
        \/ \E j \in JobIds : Deliver(c, j)
        \/ Fault(c)
    \/ \E j \in JobIds : Revoke(j)

Spec == Init /\ [][Next]_vars

-----------------------------------------------------------------------------
(* Properties. *)

(* The quota holds however creations and imports overlap: each counts and
   inserts under the workspace's lock (create_with_quota). *)
QuotaRespected == Cardinality(Live) <= MaxEntities

(* A name has at most one active version and its version numbers are unique,
   also when a retired version was deleted in between (create_schema). *)
OneActiveVersion ==
    \A name \in Names :
        /\ Cardinality(Active(schemas, Ws, name)) <= 1
        /\ \A s, t \in Versions(schemas, Ws, name) :
               schemas[s].version = schemas[t].version => s = t

(* What is referred to stays: no version is deleted while an entity or the
   workspace's default names it, even one inserted by a request that resolved
   the version earlier (delete against create_with_quota). *)
ReferencedVersionsStay ==
    /\ \A e \in Live : Stored(schemas, entities[e].schema)
    /\ home.schema # None => Stored(schemas, home.schema)

(* An entity that was created, updated or restored holds data its own version
   accepts.  Only fill-defaults writes data for another version. *)
DataFitsVersion ==
    \A e \in Live : entities[e].by # "fill" =>
        Accepts(schemas, entities[e].schema, entities[e].type, entities[e].data)

(* A conditional update replaces the revision its caller named and no other,
   whatever was written after it was read (update). *)
NoLostEdit ==
    [][\A c \in Callers :
        /\ calls[c].op = "update" /\ calls[c].checked /\ calls'[c] = Idle
        /\ entities' # entities
        => entities[calls[c].entity].rev = calls[c].rev]_vars

(* A job saves an entity at most once, so an undo restores what was there
   before the job and never what the job itself wrote: deliveries that overlap
   or repeat a run find it complete (job_completed). *)
SnapshotOnce ==
    \A i, k \in DOMAIN snapshots :
        snapshots[i].job = snapshots[k].job /\ snapshots[i].entity = snapshots[k].entity => i = k

(* A relation joins two entities that are there, by a type the source's
   version declares for theirs, and no second one says the same. *)
RelationsHold ==
    \A x \in LiveRelations :
        /\ {relations[x].source, relations[x].target} \subseteq Live
        /\ validate_relation_type(schemas, entities, relations[x].source, relations[x].target,
                                  relations[x].type)
        /\ \A y \in LiveRelations : SameEdge(relations[x], relations[y]) => x = y

(* The hops from e along active relations. *)
Ball(e) ==
  LET hop[h \in 0..MaxDepth] ==
        IF h = 0 THEN {e}
        ELSE hop[h - 1] \cup {f \in Live : \E x \in LiveRelations :
                 /\ relations[x].status = "active"
                 /\ {relations[x].source, relations[x].target} \cap hop[h - 1] # {}
                 /\ f \in {relations[x].source, relations[x].target}}
  IN hop

(* A recall that does not call itself truncated has found every entity within
   its depth, each at its shortest distance, and nothing else; below the
   maximum of neighbours per lookup. *)
RecallFinds ==
    answer # None /\ answer.op = "recall" /\ ~answer.found.truncated /\ answer.limit < MaxRelations =>
        LET depth == Max({1, Min({answer.depth, MaxDepth})})
            ball == Ball(answer.entity)
        IN /\ DOMAIN answer.found.hops = ball[depth] \ {answer.entity}
           /\ \A f \in DOMAIN answer.found.hops :
                 f \in ball[answer.found.hops[f]] /\ f \notin ball[answer.found.hops[f] - 1]

(* The content as far as ids do not matter: the rank of an id is its place. *)
Rank(ids, i) == Cardinality({k \in ids : k <= i})
Portrait(S, E, R) ==
  [schemas |-> [i \in 1..Cardinality({s \in SchemaIds : Stored(S, s)}) |->
                  S[Ordered({s \in SchemaIds : Stored(S, s)})[i]].def],
   entities |-> [i \in 1..Cardinality(LiveIn(E)) |->
                  LET e == Ordered(LiveIn(E))[i] IN <<S[E[e].schema].name, E[e].type, E[e].data>>],
   relations |-> {<<Rank(LiveIn(E), R[x].source), Rank(LiveIn(E), R[x].target), R[x].type>> : x \in LiveIn(R)}]

(* The newest version of e's name accepts it and its relations. *)
FitsNewest(e) ==
  LET s == Newest(schemas, Versions(schemas, Ws, schemas[entities[e].schema].name))
  IN /\ Accepts(schemas, s, entities[e].type, entities[e].data)
     /\ \A x \in LiveRelations : relations[x].source = e =>
          /\ relations[x].type \in DOMAIN schemas[s].def.relations
          /\ schemas[s].def.relations[relations[x].type]
               = [source |-> entities[e].type, target |-> entities[relations[x].target].type]

(* An export imported into an empty workspace of the same quota gives the same
   content, provided the newest version of each name accepts its entities:
   import puts every entity on that one. *)
ExportRoundTrips ==
    answer # None /\ answer.op = "export" /\ (\A e \in Live : FitsNewest(e)) =>
        LET after == import_jsonl(Before([s \in SchemaIds |-> FreshSchema],
                                         [status |-> "schema_pending", schema |-> None],
                                         [e \in EntityIds |-> FreshEntity],
                                         [x \in RelationIds |-> [state |-> "fresh"]]),
                                  answer.lines)
        IN after.ok /\ Portrait(after.schemas, after.entities, after.relations)
                        = Portrait(schemas, entities, relations)
=============================================================================

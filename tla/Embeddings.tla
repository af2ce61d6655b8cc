----------------------------- MODULE Embeddings -----------------------------
(***************************************************************************)
(* The vectors of one workspace: the entities that are written, the sync   *)
(* jobs that embed one entity each, the reindex jobs that replace every    *)
(* vector, the workspace's provider assignment, and the two revisions and  *)
(* the reindexing flag of the workspace row that keep them apart.          *)
(*                                                                         *)
(* One action is one transaction or one autocommitted statement.  A write  *)
(* of an entity and a publication of vectors both lock the workspace row,  *)
(* so each is atomic.  The queue (module JobQueue) is abstracted to the    *)
(* number of jobs that wait: a job is delivered once more when its worker  *)
(* dies.  The text an entity embeds is a value, a model name stands for    *)
(* the model together with its dimensions, and a token is the number of    *)
(* writes the entity has seen.                                             *)
(***************************************************************************)
EXTENDS Integers, FiniteSets

CONSTANTS
    Entities,     \* entity ids of the workspace
    Texts,        \* what x-embed fields compose to
    NoText,       \* the text of an entity without x-embed content
    Absent,       \* the text of an entity that does not exist
    Providers,    \* embedding backends
    ModelOf,      \* the model (and width) of a provider
    Deployments,  \* what the worker processes have for a default provider
    Disabled,     \* a default provider that is absent or switched off
    TenantModel,  \* the model set on the tenant, or None
    None,         \* SQL NULL
    SessionLock,  \* PostgreSQL: reindexes hold an advisory lock
    Syncers,      \* slots of workers running sync jobs
    Reindexers,   \* slots of workers running reindex jobs
    Budgets       \* bounds on the steps of the environment, by kind

Kinds == { "write", "bulk", "assign", "reindex", "scan", "resync",
           "fail", "crash" }

Models == { ModelOf[p] : p \in Providers }
Contents == Texts \union {NoText}

ASSUME EmbeddingConstants ==
    /\ IsFiniteSet(Entities)
    /\ NoText \notin Texts /\ Absent \notin Texts /\ NoText # Absent
    /\ None \notin Texts \union Providers \union Models
    /\ Disabled \notin Providers /\ Disabled # None
    /\ Deployments \subseteq Providers \union {Disabled}
    /\ TenantModel \in Models \union {None}
    /\ SessionLock \in BOOLEAN
    /\ Budgets \subseteq [Kinds -> Nat]

VARIABLES
    text, token,        \* entity_entities: data, embedding_sync_token
    vtext, vprov,       \* entity_embeddings: what was embedded, and by whom
    assignment,         \* workspace_embedding_keys
    stamp,              \* workspace_workspaces.embedding_model
    revision, content,  \* embedding_revision, embedding_content_revision
    reindexing,         \* embedding_reindexing, the gate of search
    queued, failed,     \* sync jobs of an entity: how many wait, has one failed
    requests,           \* how many reindex jobs wait
    sync, reindex,      \* the locals of the workers
    budget              \* what is left of the budget

rows == <<text, token, content>>
vectors == <<vtext, vprov>>
workspace == <<assignment, stamp, revision, reindexing>>
jobs == <<queued, failed, requests>>
vars == <<rows, vectors, workspace, jobs, sync, reindex, budget>>

(* The locals of perform_embedding_sync: the job's entity, the revision the    *)
(* provider was resolved for, the snapshot, and the revision of the fence.     *)
SyncState ==
    [ pc : {"idle", "resolve", "confirm", "snapshot", "fence", "publish"},
      entity : Entities \union {None}, rev : Nat,
      prov : Providers \union {Disabled, None},
      text : Texts \union {None}, tok : Nat, fence : Nat ]
SyncIdle ==
    [ pc |-> "idle", entity |-> None, rev |-> 0, prov |-> None, text |-> None,
      tok |-> 0, fence |-> 0 ]

(* The locals of perform_reindex and reindex_workspace. *)
ReindexState ==
    [ pc : {"idle", "resolve", "confirm", "lock", "begin", "ids", "records",
            "publish"},
      rev : Nat, prov : Providers \union {Disabled, None},
      fence : Nat, content : Nat, ids : SUBSET Entities,
      text : [Entities -> Contents \union {Absent}], tok : [Entities -> Nat] ]
ReindexIdle ==
    [ pc |-> "idle", rev |-> 0, prov |-> None, fence |-> 0, content |-> 0,
      ids |-> {}, text |-> [e \in Entities |-> Absent],
      tok |-> [e \in Entities |-> 0] ]

(* Every column and every local within its type. *)
TypeOK ==
    /\ text \in [Entities -> Contents \union {Absent}]
    /\ token \in [Entities -> Nat]
    /\ vtext \in [Entities -> Texts \union {None}]
    /\ vprov \in [Entities -> Providers \union {None}]
    /\ assignment \in Providers \union {None}
    /\ stamp \in Models \union {None}
    /\ revision \in Nat /\ content \in Nat
    /\ reindexing \in BOOLEAN
    /\ queued \in [Entities -> Nat]
    /\ failed \in [Entities -> BOOLEAN]
    /\ requests \in Nat
    /\ sync \in [Syncers -> SyncState]
    /\ reindex \in [Reindexers -> ReindexState]
    /\ budget \in [Kinds -> Nat]

Init ==
    /\ text = [e \in Entities |-> Absent] /\ token = [e \in Entities |-> 0]
    /\ vtext = [e \in Entities |-> None] /\ vprov = [e \in Entities |-> None]
    /\ assignment = None /\ stamp = None
    /\ revision = 0 /\ content = 0 /\ reindexing = FALSE
    /\ queued = [e \in Entities |-> 0] /\ failed = [e \in Entities |-> FALSE]
    /\ requests = 0
    /\ sync = [w \in Syncers |-> SyncIdle]
    /\ reindex = [r \in Reindexers |-> ReindexIdle]
    /\ budget \in Budgets

Spend(k) ==
    /\ budget[k] > 0
    /\ budget' = [budget EXCEPT ![k] = @ - 1]

Live == { e \in Entities : text[e] # Absent }

-----------------------------------------------------------------------------
(* Writers of entities.  Triggers give every written row a new token and   *)
(* add one to the content revision for each row.                           *)

(* create_with_quota, by REST, MCP or an import: the sync job is in the    *)
(* transaction of the row.                                                 *)
CreateEntity(e, t) ==
    /\ token[e] = 0
    /\ Spend("write")
    /\ text' = [text EXCEPT ![e] = t]
    /\ token' = [token EXCEPT ![e] = 1]
    /\ content' = content + 1
    /\ queued' = [queued EXCEPT ![e] = @ + 1]
    /\ UNCHANGED <<vectors, workspace, failed, requests, sync, reindex>>

UpdateKeepsToken(e, t) ==
    /\ e \in Live
    /\ Spend("write")
    /\ text' = [text EXCEPT ![e] = t]
    /\ content' = content + 1
    /\ queued' = [queued EXCEPT ![e] = @ + 1]
    /\ UNCHANGED <<token, vectors, workspace, failed, requests, sync, reindex>>
UpdateEntity(e, t) ==
    /\ e \in Live
    /\ Spend("write")
    /\ text' = [text EXCEPT ![e] = t]
    /\ token' = [token EXCEPT ![e] = @ + 1]
    /\ content' = content + 1
    /\ queued' = [queued EXCEPT ![e] = @ + 1]
    /\ UNCHANGED <<vectors, workspace, failed, requests, sync, reindex>>

(* The row of entity_embeddings goes with the entity. *)
DeleteEntity(e) ==
    /\ e \in Live
    /\ Spend("write")
    /\ text' = [text EXCEPT ![e] = Absent]
    /\ vtext' = [vtext EXCEPT ![e] = None]
    /\ vprov' = [vprov EXCEPT ![e] = None]
    /\ content' = content + 1
    /\ UNCHANGED <<token, workspace, jobs, sync, reindex>>

(* fill_defaults, undo_job and confirm write entities and queue nothing. *)
BulkWrite(S, new) ==
    /\ S # {} /\ S \subseteq Live
    /\ Spend("bulk")
    /\ text' = [e \in Entities |-> IF e \in S THEN new[e] ELSE text[e]]
    /\ token' = [e \in Entities |-> IF e \in S THEN token[e] + 1 ELSE token[e]]
    /\ content' = content + Cardinality(S)
    /\ UNCHANGED <<vectors, workspace, jobs, sync, reindex>>

(* The resync_embeddings task: entities without a vector are queued again, *)
(* as far as the enqueueing succeeds.                                      *)
Missing == { e \in Live : vtext[e] = None }

ResyncEmbeddings(S) ==
    /\ S \subseteq Missing
    /\ Spend("resync")
    /\ queued' = [e \in Entities |->
                    IF e \in S THEN queued[e] + 1 ELSE queued[e]]
    /\ UNCHANGED <<rows, vectors, workspace, failed, requests, sync,
                   reindex>>

-----------------------------------------------------------------------------
(* The provider assignment.  The insert trigger fires for an upsert that   *)
(* ends as an update too.                                                  *)
ConfigureProvider(p) ==
    /\ Spend("assign")
    /\ assignment' = p
    /\ revision' = revision + (IF assignment = None THEN 1 ELSE 2)
    /\ reindexing' = TRUE
    /\ requests' = requests + 1
    /\ UNCHANGED <<rows, vectors, stamp, queued, failed, sync, reindex>>

RemoveProvider ==
    /\ Spend("assign")
    /\ assignment' = None
    /\ revision' = revision + (IF assignment = None THEN 0 ELSE 1)
    /\ reindexing' = (reindexing \/ assignment # None)
    /\ requests' = requests + 1
    /\ UNCHANGED <<rows, vectors, stamp, queued, failed, sync, reindex>>

(* The reindex endpoint and the reindex_embeddings task. *)
RequestReindex ==
    /\ Spend("reindex")
    /\ requests' = requests + 1
    /\ UNCHANGED <<rows, vectors, workspace, queued, failed, sync,
                   reindex>>

(* What embedding_provider may return to a worker. *)
Effective == IF assignment = None THEN Deployments ELSE {assignment}

ActiveReindex == requests > 0 \/ \E r \in Reindexers : reindex[r].pc # "idle"

(* The scan of a starting worker and of the scheduler. *)
ScanIgnoresGate(p) ==
    /\ p \in Effective \ {Disabled}
    /\ stamp \notin {None, ModelOf[p]}
    /\ ~ActiveReindex
    /\ Spend("scan")
    /\ requests' = requests + 1
    /\ UNCHANGED <<rows, vectors, workspace, queued, failed, sync, reindex>>
ScanForReindex(p) ==
    /\ p \in Effective \ {Disabled}
    /\ reindexing \/ stamp \notin {None, ModelOf[p]}
    /\ ~ActiveReindex
    /\ Spend("scan")
    /\ requests' = requests + 1
    /\ UNCHANGED <<rows, vectors, workspace, queued, failed, sync, reindex>>

(* check_embedding_assignment: the generation the provider was resolved for,
   and the model of the row. *)
AssignmentHoldsByModel(rev, p) ==
    assignment # None => ModelOf[assignment] = ModelOf[p]
AssignmentHolds(rev, p) ==
    /\ revision = rev
    /\ assignment # None => ModelOf[assignment] = ModelOf[p]

(* The guard of embed_and_write. *)
TokenHolds(e, tok) == text[e] # Absent /\ token[e] = tok

-----------------------------------------------------------------------------
(* Sync workers: perform_embedding_sync. *)

(* Completed as a no-op, or Cancelled as superseded: nothing is retried. *)
DropSync(w) ==
    /\ sync' = [sync EXCEPT ![w] = SyncIdle]
    /\ UNCHANGED <<rows, vectors, workspace, jobs, reindex, budget>>

FailSync(w) ==
    /\ sync' = [sync EXCEPT ![w] = SyncIdle]
    /\ failed' = [failed EXCEPT ![sync[w].entity] = TRUE]
    /\ UNCHANGED <<rows, vectors, workspace, queued, requests, reindex>>

(* A delivery starts with embedding_provider, which reads the revision. *)
TakeSync(w, e) ==
    /\ sync[w].pc = "idle" /\ queued[e] > 0
    /\ queued' = [queued EXCEPT ![e] = @ - 1]
    /\ sync' = [sync EXCEPT ![w].pc = "resolve", ![w].entity = e,
                            ![w].rev = revision]
    /\ UNCHANGED <<rows, vectors, workspace, failed, requests, reindex, budget>>

ResolveSync(w) ==
    /\ sync[w].pc = "resolve"
    /\ \E p \in Effective :
            sync' = [sync EXCEPT ![w].pc = "confirm", ![w].prov = p]
    /\ UNCHANGED <<rows, vectors, workspace, jobs, reindex, budget>>

(* The second read of the revision; a conflict here fails the job. *)
ConfirmSync(w) ==
    /\ sync[w].pc = "confirm"
    /\ \/ revision # sync[w].rev /\ FailSync(w) /\ UNCHANGED budget
       \/ revision = sync[w].rev /\ sync[w].prov = Disabled /\ DropSync(w)
       \/ /\ revision = sync[w].rev /\ sync[w].prov # Disabled
          /\ sync' = [sync EXCEPT ![w].pc = "snapshot"]
          /\ UNCHANGED <<rows, vectors, workspace, jobs, reindex, budget>>

(* get_with_token, and compose_embedding_text of what it read. *)
SnapshotSync(w) ==
    LET e == sync[w].entity IN
    /\ sync[w].pc = "snapshot"
    /\ \/ text[e] \notin Texts /\ DropSync(w)
       \/ /\ text[e] \in Texts
          /\ sync' = [sync EXCEPT ![w].pc = "fence", ![w].text = text[e],
                                  ![w].tok = token[e]]
          /\ UNCHANGED <<rows, vectors, workspace, jobs, reindex, budget>>

(* sync_embedding reads the revision again; the provider call follows. *)
FenceSync(w) ==
    /\ sync[w].pc = "fence"
    /\ sync' = [sync EXCEPT ![w].pc = "publish", ![w].fence = revision]
    /\ UNCHANGED <<rows, vectors, workspace, jobs, reindex, budget>>

(* The Conflict exits of the transaction before a vector is written. *)
SyncFenced(w) ==
    \/ revision # sync[w].fence
    \/ ~AssignmentHolds(sync[w].rev, sync[w].prov)
    \/ reindexing

(* The model the workspace or else its tenant expects. *)
ModelOfTenant(p) == TenantModel \in {None, ModelOf[p]}
ModelExpected(p) ==
    LET model == IF stamp # None THEN stamp ELSE TenantModel
    IN  model \in {None, ModelOf[p]}

PublishSync(w) ==
    LET e == sync[w].entity
        p == sync[w].prov
    IN
    /\ sync[w].pc = "publish"
    /\ \/ SyncFenced(w) /\ DropSync(w)
       \/ /\ ~SyncFenced(w) /\ ~ModelExpected(p)
          /\ FailSync(w) /\ UNCHANGED budget
       \/ /\ ~SyncFenced(w) /\ ModelExpected(p)
          /\ ~TokenHolds(e, sync[w].tok)
          /\ DropSync(w)
       \/ /\ ~SyncFenced(w) /\ ModelExpected(p)
          /\ TokenHolds(e, sync[w].tok)
          /\ vtext' = [vtext EXCEPT ![e] = sync[w].text]
          /\ vprov' = [vprov EXCEPT ![e] = p]
          /\ stamp' = IF stamp = None THEN ModelOf[p] ELSE stamp
          /\ sync' = [sync EXCEPT ![w] = SyncIdle]
          /\ UNCHANGED <<rows, assignment, revision, reindexing, jobs, reindex,
                         budget>>

(* A query, the provider or a check of the tenant fails. *)
SyncError(w) ==
    /\ sync[w].pc # "idle"
    /\ Spend("fail")
    /\ FailSync(w)

(* The worker dies, and the queue delivers the job again. *)
CrashSync(w) ==
    /\ sync[w].pc # "idle"
    /\ Spend("crash")
    /\ queued' = [queued EXCEPT ![sync[w].entity] = @ + 1]
    /\ sync' = [sync EXCEPT ![w] = SyncIdle]
    /\ UNCHANGED <<rows, vectors, workspace, failed, requests, reindex>>

(* An operator requeues a failed job. *)
RetrySync(e) ==
    /\ failed[e]
    /\ failed' = [failed EXCEPT ![e] = FALSE]
    /\ queued' = [queued EXCEPT ![e] = @ + 1]
    /\ UNCHANGED <<rows, vectors, workspace, requests, sync, reindex, budget>>

-----------------------------------------------------------------------------
(* Reindex workers: perform_reindex and reindex_workspace. *)

(* The job fails, and nothing retries it: the gate stays as it is until a scan,
   an operator or a new assignment asks for another reindex. *)
FailReindex(r) ==
    /\ reindex' = [reindex EXCEPT ![r] = ReindexIdle]
    /\ UNCHANGED <<rows, vectors, workspace, jobs, sync>>

TakeReindex(r) ==
    /\ reindex[r].pc = "idle" /\ requests > 0
    /\ requests' = requests - 1
    /\ reindex' = [reindex EXCEPT ![r].pc = "resolve", ![r].rev = revision]
    /\ UNCHANGED <<rows, vectors, workspace, queued, failed, sync, budget>>

ResolveReindex(r) ==
    /\ reindex[r].pc = "resolve"
    /\ \E p \in Effective :
            reindex' = [reindex EXCEPT ![r].pc = "confirm", ![r].prov = p]
    /\ UNCHANGED <<rows, vectors, workspace, jobs, sync, budget>>

ConfirmReindex(r) ==
    /\ reindex[r].pc = "confirm"
    /\ \/ /\ revision # reindex[r].rev \/ reindex[r].prov = Disabled
          /\ FailReindex(r) /\ UNCHANGED budget
       \/ /\ revision = reindex[r].rev /\ reindex[r].prov # Disabled
          /\ reindex' = [reindex EXCEPT ![r].pc = "lock"]
          /\ UNCHANGED <<rows, vectors, workspace, jobs, sync, budget>>

(* reindex_workspace_with_lock: only PostgreSQL has the session lock. *)
LockReindex(r) ==
    /\ reindex[r].pc = "lock"
    /\ SessionLock => \A q \in Reindexers :
            reindex[q].pc \notin {"begin", "ids", "records", "publish"}
    /\ reindex' = [reindex EXCEPT ![r].pc = "begin"]
    /\ UNCHANGED <<rows, vectors, workspace, jobs, sync, budget>>

(* The first transaction: a generation of its own, and the gate closes. *)
BeginReindex(r) ==
    LET holds == AssignmentHolds(reindex[r].rev, reindex[r].prov) IN
    /\ reindex[r].pc = "begin"
    /\ \/ ~holds /\ FailReindex(r) /\ UNCHANGED budget
       \/ /\ holds
          /\ revision' = revision + 1
          /\ reindexing' = TRUE
          /\ reindex' = [reindex EXCEPT ![r].pc = "ids",
                                        ![r].fence = revision + 1,
                                        ![r].content = content]
          /\ UNCHANGED <<rows, vectors, assignment, stamp, jobs, sync, budget>>

(* ids_for_workspace. *)
ReadIds(r) ==
    /\ reindex[r].pc = "ids"
    /\ reindex' = [reindex EXCEPT ![r].pc = "records", ![r].ids = Live]
    /\ UNCHANGED <<rows, vectors, workspace, jobs, sync, budget>>

(* get_batch_with_tokens.  An id whose row has gone is a failure of the run; the
   provider calls for the others follow. *)
ReadRecords(r) ==
    LET ids == reindex[r].ids IN
    /\ reindex[r].pc = "records"
    /\ \/ ~(ids \subseteq Live) /\ FailReindex(r) /\ UNCHANGED budget
       \/ /\ ids \subseteq Live
          /\ reindex' = [reindex EXCEPT
                ![r].pc = "publish",
                ![r].text = [e \in Entities |-> IF e \in ids THEN text[e] ELSE Absent],
                ![r].tok = [e \in Entities |-> IF e \in ids THEN token[e] ELSE 0]]
          /\ UNCHANGED <<rows, vectors, workspace, jobs, sync, budget>>

(* The checks of the second transaction, the one of embed_and_write included. *)
PublishableAnyContent(r) ==
    /\ revision = reindex[r].fence
    /\ \A e \in Entities : reindex[r].text[e] \in Texts
            => TokenHolds(e, reindex[r].tok[e])
Publishable(r) ==
    /\ revision = reindex[r].fence
    /\ content = reindex[r].content
    /\ \A e \in Entities : reindex[r].text[e] \in Texts
            => TokenHolds(e, reindex[r].tok[e])

(* All vectors, the stamp and the gate, in one transaction. *)
PublishReindex(r) ==
    LET new == reindex[r].text
        p == reindex[r].prov
    IN
    /\ reindex[r].pc = "publish"
    /\ \/ ~Publishable(r) /\ FailReindex(r) /\ UNCHANGED budget
       \/ /\ Publishable(r)
          /\ vtext' = [e \in Entities |-> IF new[e] \in Texts THEN new[e] ELSE None]
          /\ vprov' = [e \in Entities |-> IF new[e] \in Texts THEN p ELSE None]
          /\ stamp' = ModelOf[p]
          /\ reindexing' = FALSE
          /\ reindex' = [reindex EXCEPT ![r] = ReindexIdle]
          /\ UNCHANGED <<rows, assignment, revision, jobs, sync, budget>>

ReindexError(r) ==
    /\ reindex[r].pc # "idle"
    /\ Spend("fail")
    /\ FailReindex(r)

CrashReindex(r) ==
    /\ reindex[r].pc # "idle"
    /\ Spend("crash")
    /\ requests' = requests + 1
    /\ reindex' = [reindex EXCEPT ![r] = ReindexIdle]
    /\ UNCHANGED <<rows, vectors, workspace, queued, failed, sync>>

-----------------------------------------------------------------------------
WriterStep ==
    \/ \E e \in Entities, t \in Contents : CreateEntity(e, t) \/ UpdateEntity(e, t)
    \/ \E e \in Entities : DeleteEntity(e)
    \/ \E S \in SUBSET Entities, new \in [Entities -> Contents] : BulkWrite(S, new)

OperatorStep ==
    \/ \E S \in SUBSET Entities : ResyncEmbeddings(S)
    \/ \E p \in Providers : ConfigureProvider(p) \/ ScanForReindex(p)
    \/ RemoveProvider
    \/ RequestReindex
    \/ \E e \in Entities : RetrySync(e)

SyncStep(w) ==
    \/ \E e \in Entities : TakeSync(w, e)
    \/ ResolveSync(w) \/ ConfirmSync(w) \/ SnapshotSync(w) \/ FenceSync(w)
    \/ PublishSync(w)

ReindexStep(r) ==
    \/ TakeReindex(r) \/ ResolveReindex(r) \/ ConfirmReindex(r)
    \/ LockReindex(r) \/ BeginReindex(r) \/ ReadIds(r) \/ ReadRecords(r)
    \/ PublishReindex(r)

FaultStep ==
    \/ \E w \in Syncers : SyncError(w) \/ CrashSync(w)
    \/ \E r \in Reindexers : ReindexError(r) \/ CrashReindex(r)

Next ==
    \/ WriterStep
    \/ OperatorStep
    \/ \E w \in Syncers : SyncStep(w)
    \/ \E r \in Reindexers : ReindexStep(r)
    \/ FaultStep

Spec == Init /\ [][Next]_vars

(* Workers go on polling, and the scheduler scans every minute. *)
Fairness ==
    /\ \A w \in Syncers : WF_vars(SyncStep(w))
    /\ \A r \in Reindexers : WF_vars(ReindexStep(r))
    /\ WF_vars(\E p \in Providers : ScanForReindex(p))

FairSpec == Spec /\ Fairness

-----------------------------------------------------------------------------
(* Properties. *)

(* No model mix: every stored vector is of the model the workspace is stamped
   with, whichever of sync_embedding and reindex_workspace wrote it. *)
StampCoversVectors ==
    \A e \in Entities : vprov[e] # None => ModelOf[vprov[e]] = stamp

(* While search is open, every vector was embedded by a provider the workspace
   resolves to now: a switch of backend, even to one with the same model, leaves
   no vector of the old backend behind an open gate, whatever sync or reindex
   was resolved before it. *)
OpenGateProvider ==
    ~reindexing => \A e \in Entities : vprov[e] \in Effective \union {None}

(* A running sync that may still write what the entity says now. *)
WillWrite(w, e) ==
    /\ sync[w].entity = e
    /\ \/ sync[w].pc \in {"resolve", "confirm", "snapshot"}
       \/ sync[w].pc \in {"fence", "publish"} /\ sync[w].tok = token[e]

(* While search is open, an entity with text has its current vector, or a sync
   job that waits, has failed where an operator sees it, or can still write it.
   Superseded and no-op syncs, which nothing retries, never drop the last one. *)
NoneLeftBehind ==
    ~reindexing => \A e \in Entities : text[e] \in Texts =>
        \/ vtext[e] = text[e]
        \/ queued[e] > 0 \/ failed[e]
        \/ \E w \in Syncers : WillWrite(w, e)

(* The gate opens only on a complete set of vectors: exactly the entities with
   text have one, and it is of the text they have at that moment. *)
GateOpensComplete ==
    [][ reindexing /\ ~reindexing' =>
        \A e \in Entities :
            vtext'[e] = IF text'[e] \in Texts THEN text'[e] ELSE None ]_vars

(* Once writes and provider switches cease, search opens and every entity with
   text has its current vector, although superseded syncs and failed reindexes
   are not retried by the queue. *)
Current ==
    /\ ~reindexing
    /\ \A e \in Entities : text[e] \in Texts => vtext[e] = text[e]
Converges == <>[]Current
=============================================================================

---------------------------- MODULE InferenceApi ----------------------------
(***************************************************************************)
(* What reaches infer-fill: its REST handlers and MCP tools, the deliveries *)
(* of its two kinds of job, and the workspace's other writers (schema       *)
(* versions, edits, deletions, undo), whose handlers are in KnowledgeApi.   *)
(***************************************************************************)
EXTENDS Inference

CONSTANTS
    Scope,      \* the scope of each caller's key
    Defs,       \* the definitions callers send
    Datas,      \* the data callers send
    Budgets     \* bounds: how many operations of each kind a behaviour has

Kinds == {"schema", "edit", "delete", "undo", "infer", "decide", "llm", "fault", "read"}

ReadScope == 1
WriteScope == 2
SchemaScope == 3
MigrationScope == 4

ASSUME InferenceApiAssumption ==
    /\ Scope \in [Callers -> ReadScope..MigrationScope]
    /\ Budgets \subseteq [Kinds -> Nat]

VARIABLES
    answer,     \* what the last step told its caller, or None
    budget

vars == <<store, inference, answer, budget>>

Spend(k) == budget[k] > 0 /\ budget' = [budget EXCEPT ![k] = @ - 1]

Init ==
    /\ schemas = [s \in SchemaIds |-> FreshSchema]
    /\ home = [status |-> "schema_pending", schema |-> None]
    /\ entities = [e \in EntityIds |-> FreshEntity]
    /\ relations = [x \in RelationIds |-> [state |-> "fresh"]]
    /\ snapshots = <<>>
    /\ jobs = [j \in JobIds |-> FreshJob]
    /\ done = {}
    /\ locks = [k \in {"workspace"} \cup Names |-> None]
    /\ calls = [c \in Callers |-> Idle]
    /\ infer = [j \in JobIds |-> FreshInfer]
    /\ life = [j \in JobIds |-> FreshLife]
    /\ proposals = {}
    /\ llm = FALSE
    /\ answer = None
    /\ budget \in Budgets

Handles(c, scope, kind) ==
    /\ calls[c] = Idle
    /\ Scope[c] >= scope
    /\ Spend(kind)
    /\ answer' = None

Answers(c, scope, what) ==
    /\ calls[c] = Idle
    /\ Scope[c] >= scope
    /\ Spend("read")
    /\ answer' = what
    /\ UNCHANGED <<store, inference>>

Goes == answer' = None /\ UNCHANGED budget

-----------------------------------------------------------------------------
(* REST: inference jobs and their proposals. *)
RestInferFill(c, name) == Handles(c, SchemaScope, "infer") /\ EnqueueInferFill(name)

RestConfirmProposals(c, j) == Handles(c, SchemaScope, "decide") /\ EnqueueConfirm(j)

RestRejectProposals(c, j) == Handles(c, SchemaScope, "decide") /\ Reject(j)

RestDiscardProposals(c, j) == Handles(c, SchemaScope, "decide") /\ Discard(j)

RestInferJobStatus(c, j) ==
    jobs[j].kind = "infer" /\ Answers(c, ReadScope, [op |-> "status", status |-> infer[j].status])

RestListProposals(c, j) ==
    jobs[j].kind = "infer" /\ Answers(c, ReadScope, [op |-> "proposals", found |-> ProposalsOf(j)])

RestConfirmationStatus(c, j) ==
    jobs[j].kind = "confirm" /\ Answers(c, SchemaScope, [op |-> "confirmation", done |-> job_completed(j)])

(* REST and MCP: the workspace's credentials for a model. *)
RestSetLlmKey(c) == Handles(c, SchemaScope, "llm") /\ SetLlmKey

RestDeleteLlmKey(c) == Handles(c, SchemaScope, "llm") /\ DeleteLlmKey

RestGetLlmKey(c) == llm /\ Answers(c, ReadScope, [op |-> "llm_key"])

McpSetLlmProvider(c) == Handles(c, SchemaScope, "llm") /\ SetLlmKey

McpResetLlmProvider(c) == Handles(c, SchemaScope, "llm") /\ DeleteLlmKey

McpGetLlmProvider(c) == llm /\ Answers(c, ReadScope, [op |-> "llm_key"])

InferenceNext(c) ==
    \/ \E name \in Names : RestInferFill(c, name)
    \/ \E j \in JobIds : RestConfirmProposals(c, j) \/ RestRejectProposals(c, j) \/ RestDiscardProposals(c, j)
    \/ \E j \in JobIds :
         RestInferJobStatus(c, j) \/ RestListProposals(c, j) \/ RestConfirmationStatus(c, j)
    \/ RestSetLlmKey(c) \/ RestDeleteLlmKey(c) \/ RestGetLlmKey(c)
    \/ McpSetLlmProvider(c) \/ McpResetLlmProvider(c) \/ McpGetLlmProvider(c)

-----------------------------------------------------------------------------

(* What keeps a version from being deleted, proposals included. *)
Referenced == ReferencedByContent \cup {p.schema : p \in proposals}

(* The other writers of the workspace. *)
ContentNext(c) ==
    /\ \/ \E def \in Defs : Handles(c, SchemaScope, "schema") /\ CreateSchema(def, None)
       \/ \E s \in SchemaIds : Handles(c, SchemaScope, "schema") /\ ArchiveSchema(s)
       \/ \E s \in SchemaIds : Handles(c, SchemaScope, "schema") /\ DeleteSchema(s, Referenced)
       \/ \E e \in EntityIds, data \in Datas : \E expected \in {None} \cup 0..MaxRevision :
            Handles(c, WriteScope, "edit") /\ UpdateEntity(c, e, data, expected)
       \/ \E e \in EntityIds : Handles(c, WriteScope, "delete") /\ DeleteEntity(e)
       \/ \E j \in JobIds : Handles(c, MigrationScope, "undo") /\ EnqueueUndo(j)
       \/ WriteEntity(c) /\ Goes
       \/ \E j \in JobIds : RunUndo(j) /\ Goes
    /\ UNCHANGED inference

(* What a delivery, once admitted, does next. *)
Step(c) ==
    /\ \/ reconcile_attempt(c) \/ RereadAttempt(c) \/ AskModel(c) \/ RecordProposals(c)
       \/ complete_proposals_attempt(c) \/ FinishInfer(c) \/ InferError(c) \/ FinishFailed(c)
       \/ ConfirmEntity(c) \/ ConfirmCommit(c) \/ ConfirmFails(c)
    /\ Goes

Deliver(c, j) == (StartInfer(c, j) \/ ConfirmStart(c, j)) /\ Goes

(* A run dies, a model does not answer, a lease lapses, an actor loses access. *)
Fault(c) ==
    /\ \/ InferDies(c) \/ AskFails(c)
       \/ RunDies(c) /\ UNCHANGED inference
    /\ Spend("fault") /\ answer' = None

FaultOf(j) ==
    /\ LeaseLapses(j) \/ (RevokeActor(j) /\ UNCHANGED inference)
    /\ Spend("fault") /\ answer' = None

(* Without the actor, the credentials or an active version the run errs. *)
AskRefused(c) ==
    /\ At(c, "ask")
    /\ \/ ~jobs[calls[c].job].actor
       \/ ~llm
       \/ get_active_schema(schemas, Ws, jobs[calls[c].job].name) = None
    /\ AskFails(c)
    /\ Goes

Next ==
    \/ \E c \in Callers :
        \/ InferenceNext(c) \/ ContentNext(c) \/ Step(c) \/ AskRefused(c)
        \/ \E j \in JobIds : Deliver(c, j)
        \/ Fault(c)
    \/ \E j \in JobIds : FaultOf(j)

Spec == Init /\ [][Next]_vars

-----------------------------------------------------------------------------
(* Properties. *)

(* At most one inference runs in a workspace, whatever leases lapse and
   whichever runs are superseded (the running-job index). *)
OneInferenceRuns == Cardinality({j \in JobIds : infer[j].status = "running"}) <= 1

(* Confirming is undoable: an inference job has saved exactly the entities with
   a confirmed proposal of it, each once (confirm, delete_snapshot). *)
ConfirmedIsSaved ==
    \A j \in JobIds : jobs[j].kind = "infer" =>
        /\ {snapshots[i].entity : i \in {i \in DOMAIN snapshots : snapshots[i].job = j}}
             = {p.entity : p \in {p \in ProposalsOf(j) : p.status = "confirmed"}}
        /\ \A i, k \in DOMAIN snapshots :
             snapshots[i].job = j /\ snapshots[k].job = j /\ snapshots[i].entity = snapshots[k].entity => i = k
=============================================================================

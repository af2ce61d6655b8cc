------------------------------ MODULE Inference ------------------------------
(***************************************************************************)
(* Infer-fill: a queued job asks a language model for the fields a new     *)
(* schema version added, records its answers as proposals, and someone     *)
(* confirms, rejects or discards them.  Confirming is a second job, which  *)
(* writes the entities and saves them for an undo under the first.         *)
(*                                                                         *)
(* An inference job has two rows: its own (infer) and its delivery         *)
(* lifecycle (life).  They are moved by separate transactions and carry    *)
(* the same attempt number while they agree; the attempt fences off runs   *)
(* whose lease has lapsed and that were superseded.                        *)
(***************************************************************************)
EXTENDS BulkJobs

CONSTANTS
    MaxAttempt,     \* bound: admissions of one job
    Guesses,        \* the values the model may answer with
    Backend         \* "postgres" or "sqlite"

ASSUME InferenceAssumption == MaxAttempt \in Nat /\ Backend \in {"postgres", "sqlite"}

VARIABLES
    infer,      \* the inference jobs' own rows
    life,       \* the lifecycle rows of the inference jobs
    proposals,  \* the proposal rows
    llm         \* whether the workspace has credentials for a model

inference == <<infer, life, proposals, llm>>

FreshInfer == [status |-> "none", attempt |-> 0]

FreshLife == [status |-> "none", attempt |-> 0, live |-> FALSE]

Proposal(j, e, s, p, v) ==
  [job |-> j, entity |-> e, schema |-> s, field |-> p, value |-> v, status |-> "pending"]

ProposalsOf(j) == {p \in proposals : p.job = j}

PendingOf(j) == {p \in ProposalsOf(j) : p.status = "pending"}

(* Without credentials the request is refused; the schema is looked up by *)
(* the run.                                                               *)
EnqueueInferFill(name) ==
    /\ llm
    /\ Enqueue([kind |-> "infer", name |-> name, actor |-> TRUE])
    /\ infer' = [infer EXCEPT ![NextJob] = [status |-> "queued", attempt |-> 0]]
    /\ life' = [life EXCEPT ![NextJob] = [status |-> "queued", attempt |-> 0, live |-> FALSE]]
    /\ UNCHANGED <<proposals, llm>>

SetLlmKey ==
    /\ llm' = TRUE
    /\ UNCHANGED <<store, infer, life, proposals>>

DeleteLlmKey ==
    /\ llm
    /\ llm' = FALSE
    /\ UNCHANGED <<store, infer, life, proposals>>

-----------------------------------------------------------------------------
(* A delivery.                                                              *)
InferRun(j, attempt, duplicate) ==
  [op |-> "infer", job |-> j, attempt |-> attempt, duplicate |-> duplicate, at |-> "claim",
   schema |-> None, batch |-> {}]

At(c, place) == calls[c].op = "infer" /\ calls[c].at = place

Moves(c, place) == calls' = [calls EXCEPT ![c].at = place]

Ends(c) == calls' = [calls EXCEPT ![c] = Idle]

(* Admission: a new attempt, unless one is running under a live lease or the *)
(* job has ended.                                                            *)
StartInfer(c, j) ==
    /\ calls[c] = Idle /\ jobs[j].kind = "infer"
    /\ life[j].status # "completed"
    /\ IF life[j].status = "running" /\ life[j].live
       THEN /\ calls' = [calls EXCEPT ![c] = InferRun(j, life[j].attempt, TRUE)]
            /\ UNCHANGED life
       ELSE /\ life[j].attempt < MaxAttempt
            /\ calls' = [calls EXCEPT ![c] = InferRun(j, life[j].attempt + 1, FALSE)]
            /\ life' = [life EXCEPT ![j] = [status |-> "running", attempt |-> @.attempt + 1, live |-> TRUE]]
    /\ UNCHANGED <<content, queue, locks, infer, proposals, llm>>

(* The attempt may take the row over: it repeats a failed attempt or follows *)
(* the row's own.                                                            *)
reconcilable(row, attempt) ==
    \/ row.status = "failed" /\ row.attempt = attempt
    \/ row.attempt = attempt - 1 /\ row.status # "completed"

WorkspaceBusy_never(j) == FALSE

(* One job of a workspace may run at a time. *)
WorkspaceBusy(j) == \E i \in JobIds \ {j} : infer[i].status = "running"

Owns(row, attempt) == row.status = "running" /\ row.attempt = attempt

(* The lifecycle is deferred and its payload recorded again in the outbox,  *)
(* which starts its attempts afresh; the inference row keeps its own.       *)
Defer(j) == [life EXCEPT ![j] = [status |-> "queued", attempt |-> 0, live |-> FALSE]]

reconcile_attempt(c) ==
    /\ At(c, "claim")
    /\ LET j == calls[c].job
           attempt == calls[c].attempt
       IN \/ /\ ~reconcilable(infer[j], attempt)
             /\ Ends(c)
             /\ UNCHANGED <<infer, life>>
          \/ /\ reconcilable(infer[j], attempt) /\ WorkspaceBusy(j)
             /\ life' = IF ~calls[c].duplicate /\ Owns(life[j], attempt) THEN Defer(j) ELSE life
             /\ Ends(c)
             /\ UNCHANGED infer
          \/ /\ reconcilable(infer[j], attempt) /\ ~WorkspaceBusy(j)
             /\ infer' = [infer EXCEPT ![j] = [status |-> "running", attempt |-> attempt]]
             /\ Moves(c, "claimed")
             /\ UNCHANGED life
    /\ UNCHANGED <<content, queue, locks, proposals, llm>>

(* The attempt to work under is read back from the row. *)
RereadAttempt(c) ==
    /\ At(c, "claimed")
    /\ calls' = [calls EXCEPT ![c].at = "ask", ![c].attempt = infer[calls[c].job].attempt]
    /\ UNCHANGED <<content, queue, locks, inference>>

(* The top-level fields the active version has and the entity has not. *)
Asked(s, e) ==
  IF entities[e].type \in DOMAIN schemas[s].def.types
  THEN {p \in DOMAIN schemas[s].def.types[entities[e].type] : Len(p) = 1 /\ p \notin DOMAIN entities[e].data}
  ELSE {}

(* What the model was asked, all in all. *)
Questions(name, s) == UNION {{e} \X Asked(s, e) : e \in Behind(name)}

(* One read of the schema and the entities, then the model's answers to some *)
(* of the questions.  A missing actor, credential or schema is an error, and *)
(* so is a model that does not answer.                                       *)
AskModel(c) ==
    /\ At(c, "ask")
    /\ LET j == calls[c].job
           s == get_active_schema(schemas, Ws, jobs[j].name)
       IN /\ jobs[j].actor /\ llm /\ s # None
          /\ \E answered \in SUBSET Questions(jobs[j].name, s) : \E guess \in [answered -> Guesses] :
                calls' = [calls EXCEPT ![c].at = IF answered = {} THEN "complete" ELSE "record", ![c].schema = s,
                            ![c].batch = {Proposal(j, q[1], s, q[2], guess[q]) : q \in answered}]
    /\ UNCHANGED <<content, queue, locks, inference>>

AskFails(c) ==
    /\ At(c, "ask")
    /\ Moves(c, "error")
    /\ UNCHANGED <<content, queue, locks, inference>>

SameProposal(p, q) == p.job = q.job /\ p.entity = q.entity /\ p.schema = q.schema /\ p.field = q.field

Recorded(batch) == {p \in batch : \E q \in proposals : SameProposal(p, q)}

(* A proposal recorded before violates the unique index.  SQLite goes on; in *)
(* PostgreSQL the transaction is lost, and unless that was its last insert   *)
(* the next statement says so.                                               *)
InsertOutcomes(batch) ==
  LET new == batch \ Recorded(batch)
  IN IF Recorded(batch) = {} \/ Backend = "sqlite" THEN {[ok |-> TRUE, new |-> new]}
     ELSE {[ok |-> FALSE, new |-> {}] : x \in IF Cardinality(batch) > 1 THEN {1} ELSE {}}
          \cup {[ok |-> TRUE, new |-> {}] : x \in IF Cardinality(Recorded(batch)) = 1 THEN {1} ELSE {}}

(* Every batch checks that the job still runs under this attempt. *)
Fenced(j, attempt) == Owns(infer[j], attempt)

ActiveUnchanged(j, s) == get_active_schema(schemas, Ws, jobs[j].name) = s

(* One transaction under the version lock. *)
RecordProposals(c) ==
    /\ At(c, "record")
    /\ LET j == calls[c].job
           batch == calls[c].batch
           ok == jobs[j].actor /\ ActiveUnchanged(j, calls[c].schema) /\ Fenced(j, calls[c].attempt)
       IN /\ lock_version(jobs[j].name, c)
          /\ \/ ~ok /\ Moves(c, "error") /\ UNCHANGED proposals
             \/ /\ ok
                /\ \E out \in InsertOutcomes(batch) :
                      /\ proposals' = proposals \cup out.new
                      /\ Moves(c, IF out.ok THEN "complete" ELSE "error")
    /\ UNCHANGED <<content, queue, locks, infer, life, llm>>

complete_proposals_attempt(c) ==
    /\ At(c, "complete")
    /\ LET j == calls[c].job
       IN IF Owns(infer[j], calls[c].attempt)
          THEN infer' = [infer EXCEPT ![j].status = "completed"] /\ Moves(c, "finish")
          ELSE Ends(c) /\ UNCHANGED infer
    /\ UNCHANGED <<content, queue, locks, life, proposals, llm>>

(* The lifecycle ends only under the attempt that owns it. *)
Finish(j, attempt, status) ==
  IF Owns(life[j], attempt) THEN [life EXCEPT ![j].status = status, ![j].live = FALSE] ELSE life

FinishInfer(c) ==
    /\ At(c, "finish")
    /\ life' = Finish(calls[c].job, calls[c].attempt, "completed")
    /\ Ends(c)
    /\ UNCHANGED <<content, queue, locks, infer, proposals, llm>>

(* After an error: the job fails if its actor may no longer ask for it; else *)
(* both rows go back to the queue in one transaction, which is refused when  *)
(* the lifecycle has moved on.                                               *)
InferError(c) ==
    /\ At(c, "error")
    /\ LET j == calls[c].job
           attempt == calls[c].attempt
       IN \/ /\ ~jobs[j].actor
             /\ infer' = IF Owns(infer[j], attempt) THEN [infer EXCEPT ![j].status = "failed"] ELSE infer
             /\ Moves(c, "finish_failed")
             /\ UNCHANGED life
          \/ /\ jobs[j].actor
             /\ IF Owns(life[j], attempt)
                THEN /\ infer' = IF Owns(infer[j], attempt) THEN [infer EXCEPT ![j].status = "queued"] ELSE infer
                     /\ life' = Defer(j)
                ELSE UNCHANGED <<infer, life>>
             /\ Ends(c)
    /\ UNCHANGED <<content, queue, locks, proposals, llm>>

FinishFailed(c) ==
    /\ At(c, "finish_failed")
    /\ life' = Finish(calls[c].job, calls[c].attempt, "failed")
    /\ Ends(c)
    /\ UNCHANGED <<content, queue, locks, infer, proposals, llm>>

(* The worker dies, or is cut off from the database for longer than a lease. *)
InferDies(c) ==
    /\ calls[c].op = "infer"
    /\ Ends(c)
    /\ UNCHANGED <<content, queue, locks, inference>>

LeaseLapses(j) ==
    /\ life[j].status = "running" /\ life[j].live
    /\ life' = [life EXCEPT ![j].live = FALSE]
    /\ UNCHANGED <<store, infer, proposals, llm>>

-----------------------------------------------------------------------------
(* Decisions about a job's proposals.  Each holds the lock of the job.      *)
require_completed_job(j) == infer[j].status = "completed" /\ ProposalsOf(j) # {}

lock_job_for_action(j) == ~\E c \in Callers : calls[c].op = "confirm" /\ calls[c].of = j

transition_pending(P, j, status) ==
  {IF p.job = j /\ p.status = "pending" THEN [p EXCEPT !.status = status] ELSE p : p \in P}

Decide(j, status) ==
    /\ lock_job_for_action(j)
    /\ require_completed_job(j)
    /\ proposals' = transition_pending(proposals, j, status)
    /\ UNCHANGED <<store, infer, life, llm>>

Reject(j) == Decide(j, "rejected")

Discard(j) == Decide(j, "discarded")

(* Confirmation is a job of its own. *)
EnqueueConfirm(j) ==
    /\ require_completed_job(j)
    /\ Enqueue([kind |-> "confirm", of |-> j, actor |-> TRUE])
    /\ UNCHANGED inference

ConfirmStart(c, j) ==
    /\ calls[c] = Idle
    /\ MayRun(j, "confirm")
    /\ lock_job_for_action(jobs[j].of)
    /\ require_completed_job(jobs[j].of)
    /\ PendingOf(jobs[j].of) # {}
    /\ calls' = [calls EXCEPT ![c] =
         [op |-> "confirm", job |-> j, of |-> jobs[j].of,
          left |-> {p.entity : p \in PendingOf(jobs[j].of)},
          held |-> {}, writes |-> <<>>, marks |-> <<>>, saved |-> <<>>]]
    /\ UNCHANGED <<content, queue, locks, inference>>

DataWith(data, picks) ==
  [p \in DOMAIN data \cup DOMAIN picks |-> IF p \in DOMAIN picks THEN picks[p].value ELSE data[p]]

AlreadyThere(mine, e) == \E p \in mine : p.field \in DOMAIN entities[e].data

(* What becomes of an entity's proposals, given the version the first of *)
(* them names.                                                           *)
Verdict(e, mine, target, data) ==
  CASE e \notin Live -> "stale"
    [] e \in Live /\ (get_active_schema(schemas, Ws, schemas[target].name) # target \/ AlreadyThere(mine, e))
         -> "stale"
    [] OTHER -> IF Accepts(schemas, target, entities[e].type, data) THEN "confirmed" ELSE "invalid"

SavedRow_always(verdict, j, e) == IF e \in Live THEN <<Snapshot(j, e, entities[e])>> ELSE <<>>

SavedRow(verdict, j, e) == IF verdict = "confirmed" THEN <<Snapshot(j, e, entities[e])>> ELSE <<>>

(* Entity by entity under the lock of its row.  Proposals come in the order *)
(* of field names; two attempts under different versions may both have one  *)
(* for a field, in either order.                                            *)
ConfirmEntity(c) ==
    /\ calls[c].op = "confirm" /\ calls[c].left # {}
    /\ LET e == Min(calls[c].left)
           j == calls[c].of
           mine == {p \in PendingOf(j) : p.entity = e}
       IN /\ e \in Live => RowFree(e) /\ entities[e].rev < MaxRevision
          /\ \E first \in mine : \E picks \in [{p.field : p \in mine} -> mine] :
                /\ \A f \in DOMAIN picks : picks[f].field = f
                /\ get_active_schema(schemas, Ws, schemas[first.schema].name) # None
                /\ LET data == IF e \in Live THEN DataWith(entities[e].data, picks) ELSE <<>>
                       verdict == Verdict(e, mine, first.schema, data)
                   IN calls' = [calls EXCEPT
                        ![c].left = @ \ {e},
                        ![c].held = @ \cup {e},
                        ![c].marks = Extend(@, e, verdict),
                        ![c].saved = @ \o SavedRow(verdict, j, e),
                        ![c].writes = IF verdict = "confirmed"
                                      THEN Extend(@, e, [schema |-> first.schema, data |-> data]) ELSE @]
    /\ UNCHANGED <<content, queue, locks, inference>>

ConfirmCommit(c) ==
    /\ calls[c].op = "confirm" /\ calls[c].left = {}
    /\ LET call == calls[c]
       IN /\ entities' = [e \in EntityIds |->
                IF e \in DOMAIN call.writes
                THEN [Written(entities[e], call.writes[e].data, "confirm") EXCEPT !.schema = call.writes[e].schema]
                ELSE entities[e]]
          /\ proposals' = {IF p.job = call.of /\ p.status = "pending"
                           THEN [p EXCEPT !.status = call.marks[p.entity]] ELSE p : p \in proposals}
          /\ snapshots' = snapshots \o call.saved
          /\ done' = done \cup {call.job}
    /\ Ends(c)
    /\ UNCHANGED <<schemas, home, relations, jobs, locks, infer, life, llm>>

(* A lookup of the active version that finds none fails the run. *)
ConfirmFails(c) ==
    /\ calls[c].op = "confirm" /\ calls[c].left # {}
    /\ \E p \in PendingOf(calls[c].of) :
         p.entity = Min(calls[c].left) /\ get_active_schema(schemas, Ws, schemas[p.schema].name) = None
    /\ Ends(c)
    /\ UNCHANGED <<content, queue, locks, inference>>
==============================================================================

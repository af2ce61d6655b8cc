------------------------------ MODULE JobQueue ------------------------------
(***************************************************************************)
(* The durable job queue: the lifecycle row and the dispatch outbox row of *)
(* every background job, the relay that publishes outbox rows to the queue *)
(* provider, and the workers that admit, run, defer and finish a delivery. *)
(*                                                                         *)
(* One action is one database transaction (or one autocommitted statement) *)
(* or one call to the provider, which is the granularity at which the      *)
(* processes of a deployment interleave.  Instants are abstracted to what  *)
(* the code compares them for: a lease is live or lapsed, a relay claim is *)
(* live or lapsed, and an outbox row is cooling down or not.  A column of  *)
(* a table is a function over its rows, or the set of rows it is true of.  *)
(***************************************************************************)
EXTENDS Integers, FiniteSets

CONSTANTS
    Jobs,        \* lifecycle ids
    Embedding,   \* the jobs EmbeddingSyncWorker runs: no limit, no heartbeat
    Capped,      \* the jobs recorded with a concurrency key and a limit
    Keys,        \* concurrency keys ("class:target")
    KeyOf,       \* the key of a capped job
    LimitOf,     \* the limit of a key, as the plan policy resolves it
    Retiring,    \* the jobs of the tenant that may be retired
    Workers,     \* consumer slots of the worker processes
    Relays,      \* deliveries a relay has in progress, named by claim token
    Copies,      \* provider job ids
    None,        \* the null of every reference
    Faults,      \* the environment faults a behaviour may contain
    MaxFaults    \* bound on how many of them happen

FaultKinds ==
    { "worker_crash", "relay_crash", "refuser_crash", "db_error", "job_error",
      "heartbeat_error", "lease_lapse", "claim_lapse", "enqueue_error",
      "enqueue_timeout", "reap_live_lease", "reap_live_worker",
      "retry_failed", "retry_live_lease", "retire" }

ASSUME ConstantsAssumption ==
    /\ Embedding \subseteq Jobs
    /\ Capped \subseteq Jobs \ Embedding
    /\ Retiring \subseteq Jobs
    /\ KeyOf \in [Capped -> Keys]
    /\ LimitOf \in [Keys -> Nat]
    /\ IsFiniteSet(Jobs)
    /\ None \notin Jobs \cup Workers \cup Relays \cup Copies
    /\ Faults \subseteq FaultKinds
    /\ MaxFaults \in Nat

VARIABLES
    \* queue_job_lifecycles
    status, attempt, lease,
    \* queue_job_dispatch_outbox: the row, claim_token, the rows whose
    \* claim_until lies ahead, the rows within the retry cooldown
    dispatch, token, claimLive, cooling,
    \* the provider's jobs: which lifecycle each carries, its state, its holder
    carries, copyState, holder,
    \* consumer slots: what each is doing, for which job and provider job, with
    \* which attempt, and which of them have a heartbeat
    pc, job, copy, held, beating,
    \* relay deliveries
    relayPc, relayJob,
    \* how far a refused dispatch has come, the tenant of the Retiring jobs,
    \* and how many faults have happened
    refusal, tenant, faults

lifecycleVars == <<status, attempt, lease>>
outboxVars == <<dispatch, token, claimLive, cooling>>
providerVars == <<carries, copyState, holder>>
workerVars == <<pc, job, copy, held, beating>>
relayVars == <<relayPc, relayJob>>
vars == <<lifecycleVars, outboxVars, providerVars, workerVars, relayVars,
          refusal, tenant, faults>>

(***************************************************************************)
(* "absent" is a row not yet recorded, "deleted" one removed with its      *)
(* tenant.  A lease is "revived" when renew_at extends it after it lapsed. *)
(***************************************************************************)
Waiting == {"queued", "retrying"}
Active == Waiting \cup {"running"}
Status == Active \cup
    {"absent", "completed", "failed", "cancelled", "unavailable", "deleted"}
Lease == {"null", "live", "revived", "lapsed"}

Init ==
    /\ status = [j \in Jobs |-> "absent"]
    /\ attempt = [j \in Jobs |-> 0]
    /\ lease = [j \in Jobs |-> "null"]
    /\ dispatch = [j \in Jobs |-> "none"]
    /\ token = [j \in Jobs |-> None]
    /\ claimLive = {}
    /\ cooling = {}
    /\ carries = [c \in Copies |-> None]
    /\ copyState = [c \in Copies |-> "free"]
    /\ holder = [c \in Copies |-> None]
    /\ pc = [w \in Workers |-> "idle"]
    /\ job = [w \in Workers |-> None]
    /\ copy = [w \in Workers |-> None]
    /\ held = [w \in Workers |-> 0]
    /\ beating = {}
    /\ relayPc = [r \in Relays |-> "idle"]
    /\ relayJob = [r \in Relays |-> None]
    /\ refusal = [j \in Jobs |-> "no"]
    /\ tenant = "active"
    /\ faults = 0

Fault(kind) ==
    /\ kind \in Faults
    /\ faults < MaxFaults
    /\ faults' = faults + 1

-----------------------------------------------------------------------------
(* Dispatch: recording a job, or the refusal of one. *)

(* record_enqueue: a queued row at attempt 0 without a lease. *)
RecordEnqueue(j) ==
    /\ status[j] = "absent"
    /\ refusal[j] = "no"
    /\ j \in Retiring => tenant # "deleted"
    /\ status' = [status EXCEPT ![j] = "queued"]
    /\ UNCHANGED <<attempt, lease>>

(* dispatch_job: the lifecycle row and its outbox row, in one transaction. *)
Dispatch(j) ==
    /\ RecordEnqueue(j)
    /\ dispatch' = [dispatch EXCEPT ![j] = "pending"]
    /\ UNCHANGED <<token, claimLive, cooling, providerVars, workerVars,
                   relayVars, refusal, tenant, faults>>

(* refuse, first statement: the row is recorded as queued, with no dispatch. *)
RefuseRecord(j) ==
    /\ RecordEnqueue(j)
    /\ refusal' = [refusal EXCEPT ![j] = "open"]
    /\ UNCHANGED <<outboxVars, providerVars, workerVars, relayVars, tenant,
                   faults>>

(* A status change that also ends the lease. *)
MovedKeepsLease(j, to) ==
    /\ status' = [status EXCEPT ![j] = to]
    /\ UNCHANGED <<attempt, lease>>
Moved(j, to) ==
    /\ status' = [status EXCEPT ![j] = to]
    /\ lease' = [lease EXCEPT ![j] = "null"]
    /\ UNCHANGED attempt

(* close_unavailable: finish(None, Unavailable), which filters on the id only. *)
CloseUnavailable(j) ==
    /\ refusal[j] = "open"
    /\ \/ status[j] # "deleted" /\ Moved(j, "unavailable")
       \/ status[j] = "deleted" /\ UNCHANGED lifecycleVars
    /\ refusal' = [refusal EXCEPT ![j] = "closed"]
    /\ UNCHANGED <<outboxVars, providerVars, workerVars, relayVars, tenant,
                   faults>>

RefuserCrash(j) ==
    /\ refusal[j] = "open"
    /\ Fault("refuser_crash")
    /\ refusal' = [refusal EXCEPT ![j] = "closed"]
    /\ UNCHANGED <<lifecycleVars, outboxVars, providerVars, workerVars,
                   relayVars, tenant>>

-----------------------------------------------------------------------------
(* The relay: recover_pending_on_while over the rows `due` returned. *)

(* due: unpublished, past the retry cooldown, and still waiting to run. *)
Due(j) ==
    /\ dispatch[j] = "pending"
    /\ j \notin cooling
    /\ status[j] \in Waiting

RelayScan(r, j) ==
    /\ relayPc[r] = "idle"
    /\ Due(j)
    /\ relayPc' = [relayPc EXCEPT ![r] = "claim"]
    /\ relayJob' = [relayJob EXCEPT ![r] = j]
    /\ UNCHANGED <<lifecycleVars, outboxVars, providerVars, workerVars, refusal,
                   tenant, faults>>

RelayIdles(r) ==
    /\ relayPc' = [relayPc EXCEPT ![r] = "idle"]
    /\ relayJob' = [relayJob EXCEPT ![r] = None]

(* claim_dispatch: the row is unpublished and no other claim on it is live.
   It does not look at the lifecycle again. *)
RelayClaim(r) ==
    LET j == relayJob[r] IN
    /\ relayPc[r] = "claim"
    /\ \/ /\ dispatch[j] = "pending"
          /\ j \notin claimLive
          /\ token' = [token EXCEPT ![j] = r]
          /\ claimLive' = claimLive \cup {j}
          /\ cooling' = cooling \cup {j}
          /\ relayPc' = [relayPc EXCEPT ![r] = "publish"]
          /\ UNCHANGED <<dispatch, relayJob>>
       \/ /\ dispatch[j] # "pending" \/ j \in claimLive
          /\ RelayIdles(r)
          /\ UNCHANGED outboxVars
    /\ UNCHANGED <<lifecycleVars, providerVars, workerVars, refusal, tenant,
                   faults>>

(* The provider accepts j under an id that nothing refers to any more. *)
Enqueued(j) ==
    \E c \in Copies :
        /\ copyState[c] = "free"
        /\ \A w \in Workers : copy[w] # c
        /\ carries' = [carries EXCEPT ![c] = j]
        /\ copyState' = [copyState EXCEPT ![c] = "ready"]
        /\ UNCHANGED holder

(* enqueue_pending succeeds within the publish timeout. *)
RelayPublish(r) ==
    /\ relayPc[r] = "publish"
    /\ Enqueued(relayJob[r])
    /\ relayPc' = [relayPc EXCEPT ![r] = "ack"]
    /\ UNCHANGED <<lifecycleVars, outboxVars, workerVars, relayJob, refusal,
                   tenant, faults>>

(* The publish times out although the provider accepted the job. *)
RelayPublishTimesOut(r) ==
    /\ relayPc[r] = "publish"
    /\ Fault("enqueue_timeout")
    /\ Enqueued(relayJob[r])
    /\ RelayIdles(r)
    /\ UNCHANGED <<lifecycleVars, outboxVars, workerVars, refusal, tenant>>

(* The publish fails, or times out with nothing accepted. *)
RelayPublishFails(r) ==
    /\ relayPc[r] = "publish"
    /\ Fault("enqueue_error")
    /\ RelayIdles(r)
    /\ UNCHANGED <<lifecycleVars, outboxVars, providerVars, workerVars, refusal,
                   tenant>>

(* The filters of acknowledge_dispatch. *)
AckMatches(r, j) ==
    /\ dispatch[j] = "pending"
    /\ token[j] = r
    /\ j \in claimLive

RelayAck(r) ==
    LET j == relayJob[r] IN
    /\ relayPc[r] = "ack"
    /\ \/ /\ AckMatches(r, j)
          /\ dispatch' = [dispatch EXCEPT ![j] = "published"]
          /\ token' = [token EXCEPT ![j] = None]
          /\ claimLive' = claimLive \ {j}
          /\ UNCHANGED cooling
       \/ /\ ~AckMatches(r, j)
          /\ UNCHANGED outboxVars
    /\ RelayIdles(r)
    /\ UNCHANGED <<lifecycleVars, providerVars, workerVars, refusal, tenant,
                   faults>>

(* The relay's process stops, or a claim or acknowledgement statement fails. *)
RelayCrash(r) ==
    /\ relayPc[r] # "idle"
    /\ Fault("relay_crash")
    /\ RelayIdles(r)
    /\ UNCHANGED <<lifecycleVars, outboxVars, providerVars, workerVars, refusal,
                   tenant>>

-----------------------------------------------------------------------------
(* Workers: perform_with_terminal_lifecycle and, for the Embedding jobs,
   perform_embedding_with_lifecycle. *)

(* The provider hands a ready job to a consumer. *)
Fetch(w, c) ==
    /\ pc[w] = "idle"
    /\ copyState[c] = "ready"
    /\ copyState' = [copyState EXCEPT ![c] = "processing"]
    /\ holder' = [holder EXCEPT ![c] = w]
    /\ pc' = [pc EXCEPT ![w] = "start"]
    /\ job' = [job EXCEPT ![w] = carries[c]]
    /\ copy' = [copy EXCEPT ![w] = c]
    /\ UNCHANGED <<lifecycleVars, outboxVars, carries, held, beating, relayVars,
                   refusal, tenant, faults>>

(* running_lease_is_live: a null lease never expires. *)
LeaseIsLive(j) == lease[j] # "lapsed"

(* in_flight: the other running rows of j's key whose lease is live. *)
InFlightCountsLapsed(j) ==
    { i \in Capped \ {j} :
        KeyOf[i] = KeyOf[j] /\ status[i] = "running" /\ ~LeaseIsLive(i) }
InFlight(j) ==
    { i \in Capped \ {j} :
        KeyOf[i] = KeyOf[j] /\ status[i] = "running" /\ LeaseIsLive(i) }

Saturated(j) ==
    j \in Capped /\ Cardinality(InFlight(j)) >= LimitOf[KeyOf[j]]

(* admit and claim: the rows a delivery may run, either afresh or by taking
   over a run whose lease has lapsed. *)
ClaimableOnceCancelled(j) ==
    \/ status[j] \in Waiting \cup {"failed", "cancelled"}
    \/ status[j] = "running" /\ ~LeaseIsLive(j)
Claimable(j) ==
    \/ status[j] \in Waiting \cup {"failed"}
    \/ status[j] = "running" /\ ~LeaseIsLive(j)

(* start: a fresh claim or the recovery of a lapsed one.  The row lock and the
   lock on the concurrency key make the count and the claim one step. *)
Admit(w) ==
    LET j == job[w] IN
    /\ pc[w] = "start"
    /\ Claimable(j)
    /\ ~Saturated(j)
    /\ status' = [status EXCEPT ![j] = "running"]
    /\ attempt' = [attempt EXCEPT ![j] = @ + 1]
    /\ lease' = [lease EXCEPT ![j] = "live"]
    /\ pc' = [pc EXCEPT ![w] = "work"]
    /\ held' = [held EXCEPT ![w] = attempt[j] + 1]
    /\ beating' = IF j \in Embedding THEN beating ELSE beating \cup {w}
    /\ UNCHANGED <<outboxVars, providerVars, job, copy, relayVars, refusal,
                   tenant, faults>>

(* start: Saturated.  A lapsed run carries its attempt to defer_at. *)
AdmitSaturated(w) ==
    LET j == job[w] IN
    /\ pc[w] = "start"
    /\ Claimable(j)
    /\ Saturated(j)
    /\ pc' = [pc EXCEPT ![w] = IF status[j] = "running" THEN "defer_at"
                               ELSE "defer"]
    /\ held' = [held EXCEPT ![w] = attempt[j]]
    /\ UNCHANGED <<lifecycleVars, outboxVars, providerVars, job, copy, beating,
                   relayVars, refusal, tenant, faults>>

(* start: Duplicate and Terminal succeed; a missing row is an error. *)
AdmitNothing(w) ==
    /\ pc[w] = "start"
    /\ ~Claimable(job[w])
    /\ pc' = [pc EXCEPT ![w] = IF status[job[w]] = "deleted" THEN "err"
                               ELSE "ok"]
    /\ UNCHANGED <<lifecycleVars, outboxVars, providerVars, job, copy, held,
                   beating, relayVars, refusal, tenant, faults>>

(* The filters of defer_at (a lapsed run) and of defer with no attempt. *)
DeferMatches(w) ==
    LET j == job[w] IN
    \/ /\ pc[w] = "defer_at"
       /\ status[j] = "running"
       /\ attempt[j] = held[w]
       /\ lease[j] = "lapsed"
    \/ /\ pc[w] = "defer"
       /\ status[j] \in Waiting

Defer(w) ==
    /\ pc[w] \in {"defer", "defer_at"}
    /\ \/ /\ DeferMatches(w)
          /\ Moved(job[w], "retrying")
          /\ pc' = [pc EXCEPT ![w] = "requeue"]
       \/ /\ ~DeferMatches(w)
          /\ pc' = [pc EXCEPT ![w] = "err"]
          /\ UNCHANGED lifecycleVars
    /\ UNCHANGED <<outboxVars, providerVars, job, copy, held, beating, relayVars,
                   refusal, tenant, faults>>

(* record_lifecycle_payload on the outbox row: unpublished and unclaimed. *)
RedispatchKeepsClaim(j) ==
    /\ dispatch' = [dispatch EXCEPT ![j] = "pending"]
    /\ cooling' = cooling \ {j}
    /\ UNCHANGED <<token, claimLive>>
RedispatchKeepsPublished(j) ==
    /\ token' = [token EXCEPT ![j] = None]
    /\ claimLive' = claimLive \ {j}
    /\ cooling' = cooling \ {j}
    /\ UNCHANGED dispatch
Redispatch(j) ==
    /\ dispatch' = [dispatch EXCEPT ![j] = "pending"]
    /\ token' = [token EXCEPT ![j] = None]
    /\ claimLive' = claimLive \ {j}
    /\ cooling' = cooling \ {j}

(* requeue: a transaction of its own, after the one that deferred. *)
Requeue(w) ==
    LET j == job[w] IN
    /\ pc[w] = "requeue"
    /\ \/ /\ status[j] \in Waiting
          /\ dispatch[j] # "none"
          /\ status' = [status EXCEPT ![j] = "queued"]
          /\ attempt' = [attempt EXCEPT ![j] = 0]
          /\ Redispatch(j)
          /\ pc' = [pc EXCEPT ![w] = "ok"]
       \/ /\ status[j] \notin Waiting \/ dispatch[j] = "none"
          /\ pc' = [pc EXCEPT ![w] = "err"]
          /\ UNCHANGED <<status, attempt, outboxVars>>
    /\ UNCHANGED <<lease, providerVars, job, copy, held, beating, relayVars,
                   refusal, tenant, faults>>

(* The filter of renew_at and of finish: the row still runs this attempt. *)
OwnsWhateverAttempt(w) == status[job[w]] = "running"
Owns(w) ==
    /\ status[job[w]] = "running"
    /\ attempt[job[w]] = held[w]

(* One renewal of the heartbeat; it stops once the attempt is not its own. *)
Renew(w) ==
    /\ pc[w] = "work"
    /\ w \in beating
    /\ \/ /\ Owns(w)
          /\ lease[job[w]] = "lapsed"
          /\ lease' = [lease EXCEPT ![job[w]] = "revived"]
          /\ UNCHANGED beating
       \/ /\ ~Owns(w)
          /\ beating' = beating \ {w}
          /\ UNCHANGED lease
    /\ UNCHANGED <<status, attempt, outboxVars, providerVars, pc, job, copy, held,
                   relayVars, refusal, tenant, faults>>

(* A renewal that fails ends the heartbeat while the job goes on. *)
HeartbeatFails(w) ==
    /\ pc[w] = "work"
    /\ w \in beating
    /\ Fault("heartbeat_error")
    /\ beating' = beating \ {w}
    /\ UNCHANGED <<lifecycleVars, outboxVars, providerVars, pc, job, copy, held,
                   relayVars, refusal, tenant>>

(* What the worker returns to the provider once finish has been written. *)
ResultOf(outcome) == IF outcome = "failed" THEN "err" ELSE "ok"

(* The work is over: finish records its outcome for this attempt only.  Only an
   embedding sync ends as cancelled, when a newer update superseded it. *)
Finish(w, outcome) ==
    /\ pc[w] = "work"
    /\ \/ outcome = "completed" /\ UNCHANGED faults
       \/ outcome = "cancelled" /\ job[w] \in Embedding /\ UNCHANGED faults
       \/ outcome = "failed" /\ Fault("job_error")
    /\ \/ /\ Owns(w)
          /\ Moved(job[w], outcome)
          /\ pc' = [pc EXCEPT ![w] = ResultOf(outcome)]
       \/ /\ ~Owns(w)
          /\ pc' = [pc EXCEPT ![w] = "err"]
          /\ UNCHANGED lifecycleVars
    /\ beating' = beating \ {w}
    /\ UNCHANGED <<outboxVars, providerVars, job, copy, held, relayVars, refusal,
                   tenant>>

(* Any lifecycle statement of a worker fails: nothing is written, and the error
   goes to the provider. *)
FinishErrorSwallowed(w) ==
    /\ pc[w] \in {"start", "defer", "defer_at", "requeue", "work"}
    /\ Fault("db_error")
    /\ pc' = [pc EXCEPT ![w] = IF @ = "work" THEN "ok" ELSE "err"]
    /\ beating' = beating \ {w}
    /\ UNCHANGED <<lifecycleVars, outboxVars, providerVars, job, copy, held,
                   relayVars, refusal, tenant>>
DbError(w) ==
    /\ pc[w] \in {"start", "defer", "defer_at", "requeue", "work"}
    /\ Fault("db_error")
    /\ pc' = [pc EXCEPT ![w] = "err"]
    /\ beating' = beating \ {w}
    /\ UNCHANGED <<lifecycleVars, outboxVars, providerVars, job, copy, held,
                   relayVars, refusal, tenant>>

WorkerIdles(w) ==
    /\ pc' = [pc EXCEPT ![w] = "idle"]
    /\ job' = [job EXCEPT ![w] = None]
    /\ copy' = [copy EXCEPT ![w] = None]
    /\ held' = [held EXCEPT ![w] = 0]
    /\ beating' = beating \ {w}

(* The provider settles the job it handed to w, unless it was reaped. *)
Return(w) ==
    LET c == copy[w] IN
    /\ pc[w] \in {"ok", "err"}
    /\ \/ /\ holder[c] = w
          /\ holder' = [holder EXCEPT ![c] = None]
          /\ \/ /\ pc[w] = "ok"
                /\ carries' = [carries EXCEPT ![c] = None]
                /\ copyState' = [copyState EXCEPT ![c] = "free"]
             \/ /\ pc[w] = "err"
                /\ copyState' = [copyState EXCEPT ![c] = "failed"]
                /\ UNCHANGED carries
       \/ /\ holder[c] # w
          /\ UNCHANGED providerVars
    /\ WorkerIdles(w)
    /\ UNCHANGED <<lifecycleVars, outboxVars, relayVars, refusal, tenant, faults>>

(* A worker process dies; the provider's job stays in processing. *)
WorkerCrash(w) ==
    /\ pc[w] # "idle"
    /\ Fault("worker_crash")
    /\ holder' = [c \in Copies |-> IF holder[c] = w THEN None ELSE holder[c]]
    /\ WorkerIdles(w)
    /\ UNCHANGED <<lifecycleVars, outboxVars, carries, copyState, relayVars,
                   refusal, tenant>>

-----------------------------------------------------------------------------
(* The provider's own transitions, and the passing of time. *)

(* A delivery of c now would be taken for a duplicate of a live run. *)
RunLooksLive(c) ==
    status[carries[c]] = "running" /\ LeaseIsLive(carries[c])

(* The reaper requeues a job that has been in processing for too long.  Its age
   limit counts from the fetch and knows nothing of the lease, so the job may be
   reaped while the lease of a dead worker is still live, or, when the limit is
   shorter than the job, from a worker that is still running it. *)
Reap(c) ==
    /\ copyState[c] = "processing"
    /\ \/ holder[c] = None /\ ~RunLooksLive(c) /\ UNCHANGED faults
       \/ holder[c] = None /\ RunLooksLive(c) /\ Fault("reap_live_lease")
       \/ holder[c] # None /\ Fault("reap_live_worker")
    /\ copyState' = [copyState EXCEPT ![c] = "ready"]
    /\ holder' = [holder EXCEPT ![c] = None]
    /\ UNCHANGED <<lifecycleVars, outboxVars, carries, workerVars, relayVars,
                   refusal, tenant>>

(* The operator's explicit retry of a failed provider job. *)
RetryFailed(c) ==
    /\ copyState[c] = "failed"
    /\ \/ ~RunLooksLive(c) /\ Fault("retry_failed")
       \/ RunLooksLive(c) /\ Fault("retry_live_lease")
    /\ copyState' = [copyState EXCEPT ![c] = "ready"]
    /\ UNCHANGED <<lifecycleVars, outboxVars, carries, holder, workerVars,
                   relayVars, refusal, tenant>>

Owners(j) == { w \in Workers : pc[w] = "work" /\ job[w] = j /\ Owns(w) }

(* A lease runs out: for a dead or finished worker it is only a matter of time,
   under a worker that still holds the attempt it takes a stall. *)
LeaseLapses(j) ==
    /\ lease[j] \in {"live", "revived"}
    /\ \/ Owners(j) = {} /\ UNCHANGED faults
       \/ Owners(j) # {} /\ Fault("lease_lapse")
    /\ lease' = [lease EXCEPT ![j] = "lapsed"]
    /\ UNCHANGED <<status, attempt, outboxVars, providerVars, workerVars,
                   relayVars, refusal, tenant>>

(* A claim runs out: certainly so when its delivery is over. *)
Delivering(j) ==
    \E r \in Relays : /\ relayPc[r] \in {"publish", "ack"}
                      /\ relayJob[r] = j
                      /\ token[j] = r
ClaimLapses(j) ==
    /\ j \in claimLive
    /\ \/ ~Delivering(j) /\ UNCHANGED faults
       \/ Delivering(j) /\ Fault("claim_lapse")
    /\ claimLive' = claimLive \ {j}
    /\ UNCHANGED <<lifecycleVars, dispatch, token, cooling, providerVars,
                   workerVars, relayVars, refusal, tenant>>

CooldownEnds(j) ==
    /\ j \in cooling
    /\ cooling' = cooling \ {j}
    /\ UNCHANGED <<lifecycleVars, dispatch, token, claimLive, providerVars,
                   workerVars, relayVars, refusal, tenant, faults>>

-----------------------------------------------------------------------------
(* Tenant retirement. *)

DropDispatches ==
    /\ dispatch' = [j \in Jobs |-> IF j \in Retiring THEN "none" ELSE dispatch[j]]
    /\ token' = [j \in Jobs |-> IF j \in Retiring THEN None ELSE token[j]]
    /\ claimLive' = claimLive \ Retiring
    /\ cooling' = cooling \ Retiring

(* The rows cancel_work leaves as they are. *)
Untouched(j) ==
    \/ j \notin Retiring
    \/ status[j] \in {"absent", "completed", "cancelled", "deleted"}

(* disable_in_transaction: cancels the tenant's work and drops its dispatches. *)
DisableTenant ==
    /\ tenant # "deleted"
    /\ Fault("retire")
    /\ tenant' = "disabled"
    /\ status' = [j \in Jobs |-> IF Untouched(j) THEN status[j] ELSE "cancelled"]
    /\ lease' = [j \in Jobs |-> IF Untouched(j) THEN lease[j] ELSE "null"]
    /\ DropDispatches
    /\ UNCHANGED <<attempt, providerVars, workerVars, relayVars, refusal>>

(* delete_by_operator: the rows themselves go, once the tenant is disabled. *)
DeleteTenant ==
    /\ tenant = "disabled"
    /\ Fault("retire")
    /\ tenant' = "deleted"
    /\ status' = [j \in Jobs |-> IF j \in Retiring /\ status[j] # "absent"
                                 THEN "deleted" ELSE status[j]]
    /\ lease' = [j \in Jobs |-> IF j \in Retiring THEN "null" ELSE lease[j]]
    /\ DropDispatches
    /\ UNCHANGED <<attempt, providerVars, workerVars, relayVars, refusal>>

-----------------------------------------------------------------------------
DispatchStep == \E j \in Jobs :
    Dispatch(j) \/ RefuseRecord(j) \/ CloseUnavailable(j) \/ RefuserCrash(j)

RelayStep == \E r \in Relays :
    \/ \E j \in Jobs : RelayScan(r, j)
    \/ RelayClaim(r)
    \/ RelayPublish(r)
    \/ RelayPublishTimesOut(r)
    \/ RelayPublishFails(r)
    \/ RelayAck(r)
    \/ RelayCrash(r)

WorkerStep == \E w \in Workers :
    \/ \E c \in Copies : Fetch(w, c)
    \/ Admit(w)
    \/ AdmitSaturated(w)
    \/ AdmitNothing(w)
    \/ Defer(w)
    \/ Requeue(w)
    \/ Renew(w)
    \/ HeartbeatFails(w)
    \/ \E outcome \in {"completed", "failed", "cancelled"} : Finish(w, outcome)
    \/ DbError(w)
    \/ Return(w)
    \/ WorkerCrash(w)

ProviderStep == \E c \in Copies : Reap(c) \/ RetryFailed(c)

TimeStep == \E j \in Jobs : LeaseLapses(j) \/ ClaimLapses(j) \/ CooldownEnds(j)

Next == \/ DispatchStep \/ RelayStep \/ WorkerStep \/ ProviderStep \/ TimeStep
        \/ DisableTenant \/ DeleteTenant

Spec == Init /\ [][Next]_vars

-----------------------------------------------------------------------------
(* Properties. *)

TypeOK ==
    /\ status \in [Jobs -> Status]
    /\ attempt \in [Jobs -> Nat]
    /\ lease \in [Jobs -> Lease]
    /\ dispatch \in [Jobs -> {"none", "pending", "published"}]
    /\ token \in [Jobs -> Relays \cup {None}]
    /\ claimLive \subseteq Jobs
    /\ cooling \subseteq Jobs
    /\ carries \in [Copies -> Jobs \cup {None}]
    /\ copyState \in [Copies -> {"free", "ready", "processing", "failed"}]
    /\ holder \in [Copies -> Workers \cup {None}]
    /\ pc \in [Workers -> {"idle", "start", "defer", "defer_at", "requeue",
                           "work", "ok", "err"}]
    /\ job \in [Workers -> Jobs \cup {None}]
    /\ copy \in [Workers -> Copies \cup {None}]
    /\ held \in [Workers -> Nat]
    /\ beating \subseteq Workers
    /\ relayPc \in [Relays -> {"idle", "claim", "publish", "ack"}]
    /\ relayJob \in [Relays -> Jobs \cup {None}]
    /\ refusal \in [Jobs -> {"no", "open", "closed"}]
    /\ tenant \in {"active", "disabled", "deleted"}
    /\ faults \in 0 .. MaxFaults
    /\ \A c \in Copies : copyState[c] = "free" <=> carries[c] = None
    /\ \A c \in Copies : holder[c] # None => copyState[c] = "processing"
    /\ \A w \in Workers : pc[w] # "idle" => job[w] \in Jobs /\ copy[w] \in Copies
    /\ \A r \in Relays : relayPc[r] # "idle" => relayJob[r] \in Jobs

(* running_lease_is_live treats a running row without a lease as live for
   ever, so such a row could never be reclaimed and would hold its capacity for
   good.  No sequence of admit, defer, requeue, renew, finish and cancel_work
   produces one, nor leaves a lease on a row that is not running. *)
RunningHasLease ==
    \A j \in Jobs : status[j] = "running" <=> lease[j] # "null"

(* The runs of a key that are live, not counting those whose lease lapsed and
   was then extended again by a late heartbeat. *)
LiveRuns(k) == { j \in Capped : KeyOf[j] = k /\ lease[j] = "live" }

(* admit: however workers of different jobs interleave, recover and defer, the
   live runs of a concurrency key never exceed its limit.  A renewal that
   arrives after the lease lapsed is outside the guarantee: renew_at does not
   count, so a revived run comes on top of the limit. *)
CapacityRespected ==
    \A k \in Keys : Cardinality(LiveRuns(k)) <= LimitOf[k]

Carried(j) == \E c \in Copies : carries[c] = j

(* The outbox loses nothing: a job that waits to run has either an unpublished
   outbox row, which `due` will offer to a relay, or a provider job that has not
   been settled.  An acknowledgement that arrives after the job was requeued
   must therefore not mark the fresh dispatch as published. *)
WaitingHasCarrier ==
    \A j \in Jobs : status[j] \in Waiting /\ refusal[j] = "no"
                       => dispatch[j] = "pending" \/ Carried(j)

(* A running row is always backed by a provider job, so that when its worker
   dies the reaper can redeliver it and the lapsed lease is recovered, and so is
   a failed one: "Failed attempts remain eligible for Loco's explicit failed-job
   retry" (perform_with_terminal_lifecycle). *)
RunIsRecoverable == \A j \in Jobs : status[j] \in {"running", "failed"} => Carried(j)

(* finish and renew_at fence on the attempt: of all the workers still working
   on a job, at most one can renew its lease or record its outcome. *)
OneOwner == \A j \in Jobs : \A v, w \in Owners(j) : v = w

(* The same for the jobs without a concurrency limit, which are never deferred
   and so never have their attempt reset by a requeue. *)
UncappedOneOwner == \A j \in Jobs \ Capped : \A v, w \in Owners(j) : v = w

(* A completed or cancelled job is never run, requeued or finished again,
   whatever late deliveries, stale workers and acknowledgements do.  Only the
   unfiltered finish of a refused dispatch may overwrite a cancellation. *)
TerminalIsFinal ==
    [][\A j \in Jobs :
         status[j] \in {"completed", "cancelled"} /\ refusal[j] = "no"
            => status'[j] \in {status[j], "deleted"}]_vars

-----------------------------------------------------------------------------
(* The strengthenings under which the invariants above are inductive. *)

(* Attempts of an uncapped job only grow: no worker is ahead of the row, no two
   workers share an attempt, and no worker defers or requeues such a job. *)
AttemptsFresh ==
    /\ \A w \in Workers : pc[w] \in {"defer", "defer_at", "requeue"}
                           => job[w] \in Capped
    /\ \A w \in Workers : pc[w] = "work" /\ job[w] \notin Capped
                           => held[w] <= attempt[job[w]]
    /\ \A v, w \in Workers :
            /\ pc[v] = "work" /\ pc[w] = "work"
            /\ job[v] = job[w] /\ job[w] \notin Capped
            /\ held[v] = held[w]
            => v = w

(* A busy worker and the provider agree on the job it was handed. *)
Holding ==
    /\ \A w \in Workers : pc[w] # "idle"
            => holder[copy[w]] = w /\ carries[copy[w]] = job[w]
    /\ \A c \in Copies : holder[c] # None
            => pc[holder[c]] # "idle" /\ copy[holder[c]] = c

(* A provider job carries j and is not about to be settled as done. *)
Firm(j) ==
    \E c \in Copies : /\ carries[c] = j
                      /\ holder[c] = None \/ pc[holder[c]] # "ok"

(* The carrier of a waiting job, and of one a relay is about to acknowledge. *)
CarrierFirm ==
    \A j \in Jobs :
        /\ status[j] = "absent" => dispatch[j] = "none" /\ token[j] = None
        /\ status[j] \in Waiting /\ refusal[j] = "no"
                => dispatch[j] = "pending" \/ Firm(j)
        /\ \A r \in Relays :
                /\ relayPc[r] = "ack" /\ relayJob[r] = j /\ token[j] = r
                /\ status[j] \in Waiting /\ refusal[j] = "no"
                => Firm(j)

-----------------------------------------------------------------------------
(* Fairness: a running relay scans every due row in id order and finishes each
   delivery; a running worker takes every ready job and runs it to its end; the
   reaper and the clock go on.  No fault is fair. *)
Fairness ==
    /\ \A j \in Jobs :
        /\ SF_vars(\E r \in Relays : RelayScan(r, j))
        /\ WF_vars(CloseUnavailable(j))
        /\ WF_vars(LeaseLapses(j))
        /\ WF_vars(ClaimLapses(j))
        /\ WF_vars(CooldownEnds(j))
    /\ \A r \in Relays :
        WF_vars(RelayClaim(r)) /\ WF_vars(RelayPublish(r)) /\ WF_vars(RelayAck(r))
    /\ \A c \in Copies :
        /\ SF_vars(\E w \in Workers : Fetch(w, c))
        /\ WF_vars(Reap(c))
    /\ \A w \in Workers :
        /\ WF_vars(Admit(w) \/ AdmitSaturated(w) \/ AdmitNothing(w))
        /\ WF_vars(Defer(w))
        /\ WF_vars(Requeue(w))
        /\ WF_vars(Finish(w, "completed"))
        /\ WF_vars(Return(w))

FairSpec == Spec /\ Fairness

(* Every dispatched job settles: relay crashes, publishes that fail or time
   out, lapsed claims and leases, stopped heartbeats, crashed workers and the
   wait for a saturated key only delay it.  The operator is not needed unless a
   lifecycle statement or the work itself fails. *)
EventuallySettles ==
    \A j \in Jobs :
        (status[j] \in Active /\ refusal[j] = "no")
            ~> status[j] \in {"completed", "failed", "cancelled", "deleted"}

=============================================================================

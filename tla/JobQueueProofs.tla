--------------------------- MODULE JobQueueProofs ---------------------------
(* Types, leases, terminal states, attempts, capacity and the carriers of waiting
   jobs: proofs about JobQueue, for every value of its constants. *)
EXTENDS JobQueue, TLAPS, FiniteSetTheorems

(* The fault count stays within its bound. *)
LEMMA FaultType ==
    ASSUME faults \in 0 .. MaxFaults, NEW kind, Fault(kind)
    PROVE  faults' \in 0 .. MaxFaults
BY ConstantsAssumption DEF Fault

(* Every step keeps every row, provider job, worker slot and relay delivery
   within its type. *)
LEMMA TypeStep == TypeOK /\ [Next]_vars => TypeOK'
<1> USE ConstantsAssumption
<1> USE DEF TypeOK, Status, Active, Waiting, Lease, lifecycleVars, outboxVars,
            providerVars, workerVars, relayVars
<1>1. ASSUME TypeOK, DispatchStep PROVE TypeOK'
  BY <1>1, FaultType DEF DispatchStep, Dispatch, RecordEnqueue, RefuseRecord,
                         CloseUnavailable, Moved, RefuserCrash
<1>2. ASSUME TypeOK, RelayStep PROVE TypeOK'
  <2>1. ASSUME NEW r \in Relays, NEW j \in Jobs, RelayScan(r, j) PROVE TypeOK'
    BY Zenon, <1>2, <2>1 DEF RelayScan
  <2>2. ASSUME NEW r \in Relays, RelayClaim(r) \/ RelayAck(r) PROVE TypeOK'
    BY <1>2, <2>2 DEF RelayClaim, RelayAck, RelayIdles
  <2>3. ASSUME NEW r \in Relays, RelayPublish(r) \/ RelayPublishTimesOut(r)
        PROVE  TypeOK'
    BY <1>2, <2>3, FaultType
       DEF RelayPublish, RelayPublishTimesOut, Enqueued, RelayIdles
  <2>4. ASSUME NEW r \in Relays, RelayPublishFails(r) \/ RelayCrash(r)
        PROVE  TypeOK'
    BY <1>2, <2>4, FaultType DEF RelayPublishFails, RelayCrash, RelayIdles
  <2> HIDE DEF TypeOK
  <2> QED BY Zenon, <1>2, <2>1, <2>2, <2>3, <2>4 DEF RelayStep
<1>3. ASSUME TypeOK, WorkerStep PROVE TypeOK'
  <2> SUFFICES ASSUME NEW w \in Workers,
                      \/ \E c \in Copies : Fetch(w, c)
                      \/ Admit(w) \/ AdmitSaturated(w) \/ AdmitNothing(w)
                      \/ Defer(w) \/ Requeue(w) \/ Renew(w) \/ HeartbeatFails(w)
                      \/ \E outcome \in {"completed", "failed", "cancelled"} :
                            Finish(w, outcome)
                      \/ DbError(w) \/ Return(w) \/ WorkerCrash(w)
               PROVE  TypeOK'
    BY Zenon, <1>3 DEF WorkerStep
  <2>1. CASE \E c \in Copies : Fetch(w, c)
    BY <1>3, <2>1 DEF Fetch
  <2>2. CASE Admit(w)
    BY <1>3, <2>2 DEF Admit
  <2>8. CASE AdmitSaturated(w) \/ AdmitNothing(w)
    BY <1>3, <2>8 DEF AdmitSaturated, AdmitNothing
  <2>3. CASE Defer(w)
    BY <1>3, <2>3 DEF Defer, Moved
  <2>9. CASE Requeue(w)
    <3>1. CASE status[job[w]] \in Waiting /\ dispatch[job[w]] # "none"
      <4>1. Redispatch(job[w])
        BY Zenon, <2>9, <3>1 DEF Requeue
      <4>2. /\ dispatch' \in [Jobs -> {"none", "pending", "published"}]
            /\ token' \in [Jobs -> Relays \cup {None}]
            /\ claimLive' \subseteq Jobs /\ cooling' \subseteq Jobs
        BY Zenon, <1>3, <4>1 DEF Redispatch
      <4> QED BY <1>3, <2>9, <3>1, <4>2 DEF Requeue
    <3>2. CASE ~(status[job[w]] \in Waiting /\ dispatch[job[w]] # "none")
      BY <1>3, <2>9, <3>2 DEF Requeue
    <3> QED BY Zenon, <3>1, <3>2
  <2>4. CASE Renew(w) \/ HeartbeatFails(w) \/ DbError(w)
    BY <1>3, <2>4, FaultType DEF Renew, HeartbeatFails, DbError
  <2>5. CASE \E outcome \in {"completed", "failed", "cancelled"} :
                Finish(w, outcome)
    BY <1>3, <2>5, FaultType DEF Finish, Moved, ResultOf
  <2>6. CASE Return(w)
    <3>1. copy[w] \in Copies
      BY Zenon, <1>3, <2>6 DEF Return
    <3>2. /\ carries' \in [Copies -> Jobs \cup {None}]
          /\ copyState' \in [Copies -> {"free", "ready", "processing", "failed"}]
          /\ holder' \in [Copies -> Workers \cup {None}]
      BY <1>3, <2>6, <3>1 DEF Return
    <3>3. \A c \in Copies :
             /\ copyState'[c] = "free" <=> carries'[c] = None
             /\ holder'[c] # None => copyState'[c] = "processing"
      <4>1. CASE holder[copy[w]] = w /\ pc[w] = "ok"
        BY <1>3, <2>6, <3>1, <4>1 DEF Return
      <4>2. CASE holder[copy[w]] = w /\ pc[w] = "err"
        BY <1>3, <2>6, <3>1, <4>2 DEF Return
      <4>3. CASE holder[copy[w]] # w
        BY Zenon, <1>3, <2>6, <4>3 DEF Return
      <4> QED BY Zenon, <2>6, <4>1, <4>2, <4>3 DEF Return
    <3> QED BY <1>3, <2>6, <3>2, <3>3 DEF Return, WorkerIdles
  <2>7. CASE WorkerCrash(w)
    BY <1>3, <2>7, FaultType DEF WorkerCrash, WorkerIdles
  <2> HIDE DEF TypeOK
  <2> QED BY Zenon, <2>1, <2>2, <2>3, <2>4, <2>5, <2>6, <2>7, <2>8, <2>9
<1>4. ASSUME TypeOK, ProviderStep \/ TimeStep PROVE TypeOK'
  BY <1>4, FaultType DEF ProviderStep, TimeStep, Reap, RetryFailed, LeaseLapses,
     ClaimLapses, CooldownEnds
<1>5. ASSUME TypeOK, DisableTenant \/ DeleteTenant PROVE TypeOK'
  BY <1>5, FaultType DEF DisableTenant, DeleteTenant, DropDispatches
<1>6. ASSUME TypeOK, UNCHANGED vars PROVE TypeOK'
  BY Zenon, <1>6 DEF vars
<1> HIDE DEF TypeOK
<1> QED BY Zenon, <1>1, <1>2, <1>3, <1>4, <1>5, <1>6 DEF Next

(* Type correctness: whatever the processes, the provider and the environment
   do, every row and every in-flight delivery is well formed; in particular a
   busy worker or relay always names a job, and a provider job that is not free
   always carries one. *)
THEOREM TypeCorrect == Spec => []TypeOK
<1>1. Init => TypeOK
  BY ConstantsAssumption DEF Init, TypeOK, Status, Lease
<1> QED BY <1>1, TypeStep, PTL DEF Spec

(* No worker but w changes its program counter. *)
OnlyMoves(w) == \A v \in Workers \ {w} : pc'[v] = pc[v]

(* A worker that starts on a delivery, gives it up, finishes it or fails moves
   from one busy state to another, and keeps the provider job it was handed. *)
LEMMA BusyMoves ==
    ASSUME TypeOK, NEW w \in Workers,
           \/ Admit(w) \/ AdmitSaturated(w) \/ AdmitNothing(w)
           \/ Defer(w) \/ Requeue(w) \/ DbError(w)
           \/ \E outcome \in {"completed", "failed", "cancelled"} :
                 Finish(w, outcome)
    PROVE  /\ pc[w] \notin {"idle", "ok"} /\ pc'[w] # "idle" /\ OnlyMoves(w)
           /\ UNCHANGED <<job, copy, providerVars>>
<1>0. pc \in [Workers -> {"idle", "start", "defer", "defer_at", "requeue",
                          "work", "ok", "err"}]
  BY Zenon DEF TypeOK
<1>1. CASE Admit(w)
  BY Zenon, <1>0, <1>1 DEF Admit, OnlyMoves
<1>2. CASE AdmitSaturated(w)
  BY Zenon, <1>0, <1>2 DEF AdmitSaturated, OnlyMoves
<1>3. CASE AdmitNothing(w)
  BY Zenon, <1>0, <1>3 DEF AdmitNothing, OnlyMoves
<1>4. CASE Defer(w)
  BY Zenon, <1>0, <1>4 DEF Defer, OnlyMoves
<1>5. CASE Requeue(w)
  BY Zenon, <1>0, <1>5 DEF Requeue, OnlyMoves
<1>6. CASE DbError(w)
  BY Zenon, <1>0, <1>6 DEF DbError, OnlyMoves
<1>7. ASSUME NEW outcome \in {"completed", "failed", "cancelled"},
             Finish(w, outcome)
      PROVE  /\ pc[w] \notin {"idle", "ok"} /\ pc'[w] # "idle" /\ OnlyMoves(w)
             /\ UNCHANGED <<job, copy, providerVars>>
  BY Zenon, <1>0, <1>7 DEF Finish, ResultOf, OnlyMoves
<1> QED BY Zenon, <1>1, <1>2, <1>3, <1>4, <1>5, <1>6, <1>7

(* As long as the reaper leaves live workers alone, a busy worker keeps the
   provider job it was handed. *)
LEMMA HoldingStep ==
    ASSUME "reap_live_worker" \notin Faults
    PROVE  TypeOK /\ Holding /\ [Next]_vars => Holding'
<1> USE ConstantsAssumption
        DEF TypeOK, Holding, providerVars, workerVars
<1>1. ASSUME TypeOK, Holding, UNCHANGED providerVars, UNCHANGED workerVars
      PROVE  Holding'
  BY Zenon, <1>1
<1>2. ASSUME TypeOK, Holding, RelayStep PROVE Holding'
  <2>1. ASSUME NEW j, Enqueued(j), UNCHANGED workerVars PROVE Holding'
    BY <1>2, <2>1 DEF Enqueued
  <2>2. ASSUME NEW r \in Relays, RelayPublish(r) \/ RelayPublishTimesOut(r)
        PROVE  Holding'
    <3>1. Enqueued(relayJob[r]) /\ UNCHANGED workerVars
      BY Zenon, <2>2 DEF RelayPublish, RelayPublishTimesOut
    <3> QED BY Zenon, <2>1, <3>1
  <2>3. ASSUME NEW r \in Relays,
               \/ \E j \in Jobs : RelayScan(r, j)
               \/ RelayClaim(r) \/ RelayPublishFails(r) \/ RelayAck(r)
               \/ RelayCrash(r)
        PROVE  Holding'
    <3>1. UNCHANGED providerVars /\ UNCHANGED workerVars
      BY Zenon, <2>3 DEF RelayScan, RelayClaim, RelayPublishFails, RelayAck, RelayCrash
    <3> QED BY Zenon, <1>1, <1>2, <3>1
  <2> HIDE DEF TypeOK, Holding
  <2> QED BY Zenon, <1>2, <2>2, <2>3 DEF RelayStep
<1>3. ASSUME TypeOK, Holding, WorkerStep PROVE Holding'
  <2>1. ASSUME NEW w \in Workers, NEW c \in Copies, Fetch(w, c) PROVE Holding'
    BY <1>3, <2>1 DEF Fetch
  <2>2. ASSUME NEW w \in Workers, pc[w] # "idle", OnlyMoves(w),
               UNCHANGED <<job, copy, providerVars>>, pc'[w] # "idle"
        PROVE  Holding'
    <3>1. \A v \in Workers : pc'[v] # "idle" <=> pc[v] # "idle"
      BY Zenon, <2>2 DEF OnlyMoves
    <3> QED BY <1>3, <2>2, <3>1
  <2>3. ASSUME NEW w \in Workers, Return(w) PROVE Holding'
    BY <1>3, <2>3 DEF Return, WorkerIdles
  <2>4. ASSUME NEW w \in Workers, WorkerCrash(w) PROVE Holding'
    BY <1>3, <2>4 DEF WorkerCrash, WorkerIdles
  <2>5. ASSUME UNCHANGED <<pc, job, copy, providerVars>> PROVE Holding'
    BY Zenon, <1>3, <2>5
  <2>6. ASSUME NEW w \in Workers, Renew(w) \/ HeartbeatFails(w) PROVE Holding'
    BY Zenon, <2>5, <2>6 DEF Renew, HeartbeatFails
  <2> HIDE DEF TypeOK, Holding, providerVars, workerVars
  <2>7. ASSUME NEW w \in Workers,
               \/ Admit(w) \/ AdmitSaturated(w) \/ AdmitNothing(w)
               \/ Defer(w) \/ Requeue(w) \/ DbError(w)
               \/ \E outcome \in {"completed", "failed", "cancelled"} :
                     Finish(w, outcome)
        PROVE  Holding'
    BY Zenon, <1>3, <2>2, <2>7, BusyMoves
  <2> QED BY Zenon, <1>3, <2>1, <2>3, <2>4, <2>6, <2>7 DEF WorkerStep
<1>4. ASSUME TypeOK, Holding, ProviderStep PROVE Holding'
  BY <1>4 DEF ProviderStep, Reap, Fault, RetryFailed
<1>5. ASSUME DispatchStep \/ TimeStep \/ DisableTenant \/ DeleteTenant
             \/ UNCHANGED vars
      PROVE  UNCHANGED providerVars /\ UNCHANGED workerVars
  BY Zenon, <1>5 DEF DispatchStep, Dispatch, RefuseRecord, CloseUnavailable,
     RefuserCrash, TimeStep, LeaseLapses, ClaimLapses, CooldownEnds,
     DisableTenant, DeleteTenant, vars
<1> HIDE DEF TypeOK, Holding, providerVars, workerVars
<1> QED BY Zenon, <1>1, <1>2, <1>3, <1>4, <1>5 DEF Next

-----------------------------------------------------------------------------
(* Leases, terminal states, attempts and capacity. *)

(* The steps of a worker that write no lifecycle row. *)
UntouchedRows(w) ==
    \/ \E c \in Copies : Fetch(w, c)
    \/ AdmitSaturated(w) \/ AdmitNothing(w) \/ HeartbeatFails(w) \/ DbError(w)
    \/ Return(w) \/ WorkerCrash(w)

(* Fetching, being refused admission, a failing heartbeat or query, returning
   and dying leave the lifecycle rows as they are. *)
LEMMA RowsUntouched ==
    ASSUME NEW w \in Workers, UntouchedRows(w)
    PROVE  UNCHANGED lifecycleVars
BY Zenon DEF UntouchedRows, Fetch, AdmitSaturated, AdmitNothing, HeartbeatFails, DbError,
       Return, WorkerCrash, lifecycleVars

(* So do the relay, the reaper and the passing of time, which at most lets a
   lease lapse. *)
LEMMA BystandersRows ==
    ASSUME RelayStep \/ ProviderStep \/ TimeStep \/ UNCHANGED vars
    PROVE  /\ UNCHANGED <<status, attempt>>
           /\ UNCHANGED lease
              \/ \E j \in Jobs : lease' = [lease EXCEPT ![j] = "lapsed"]
<1> USE DEF lifecycleVars
<1>1. CASE RelayStep
  BY Zenon, <1>1 DEF RelayStep, RelayScan, RelayClaim, RelayPublish,
     RelayPublishTimesOut, RelayPublishFails, RelayAck, RelayCrash
<1>2. CASE ProviderStep
  BY Zenon, <1>2 DEF ProviderStep, Reap, RetryFailed
<1>3. CASE TimeStep \/ UNCHANGED vars
  BY Zenon, <1>3 DEF TimeStep, LeaseLapses, ClaimLapses, CooldownEnds, vars
<1> QED BY Zenon, <1>1, <1>2, <1>3

(* Only a running row has a lease, and every running row has one: each statement
   that moves a row into or out of `running` also sets its lease. *)
LEMMA LeaseStep ==
    TypeOK /\ RunningHasLease /\ [Next]_vars => RunningHasLease'
<1> USE DEF TypeOK, RunningHasLease, Waiting, lifecycleVars
<1>1. ASSUME TypeOK, RunningHasLease, DispatchStep PROVE RunningHasLease'
  BY <1>1 DEF DispatchStep, Dispatch, RecordEnqueue, RefuseRecord,
              CloseUnavailable, Moved, RefuserCrash
<1>2. ASSUME TypeOK, RunningHasLease, RelayStep PROVE RunningHasLease'
  BY Zenon, <1>2 DEF RelayStep, RelayScan, RelayClaim, RelayPublish,
     RelayPublishTimesOut, RelayPublishFails, RelayAck, RelayCrash
<1>3. ASSUME TypeOK, RunningHasLease, WorkerStep PROVE RunningHasLease'
  <2>1. ASSUME NEW w \in Workers, Admit(w) \/ Defer(w) \/ Requeue(w) \/ Renew(w)
        PROVE  RunningHasLease'
    BY <1>3, <2>1 DEF Admit, Defer, Moved, Requeue, Renew
  <2>2. ASSUME NEW w \in Workers,
               NEW outcome \in {"completed", "failed", "cancelled"},
               Finish(w, outcome)
        PROVE  RunningHasLease'
    BY <1>3, <2>2 DEF Finish, Moved
  <2>3. ASSUME NEW w \in Workers, UntouchedRows(w) PROVE RunningHasLease'
    <3>1. UNCHANGED lifecycleVars
      BY Zenon, <2>3, RowsUntouched
    <3> QED BY Zenon, <1>3, <3>1
  <2> HIDE DEF TypeOK, RunningHasLease
  <2> QED BY Zenon, <1>3, <2>1, <2>2, <2>3 DEF WorkerStep, UntouchedRows
<1>4. ASSUME TypeOK, RunningHasLease, ProviderStep \/ TimeStep
      PROVE  RunningHasLease'
  BY <1>4 DEF ProviderStep, TimeStep, Reap, RetryFailed, LeaseLapses,
     ClaimLapses, CooldownEnds
<1>5. ASSUME TypeOK, RunningHasLease, DisableTenant \/ DeleteTenant
      PROVE  RunningHasLease'
  BY <1>5 DEF DisableTenant, DeleteTenant, Untouched
<1>6. ASSUME RunningHasLease, UNCHANGED vars PROVE RunningHasLease'
  BY Zenon, <1>6 DEF vars
<1> HIDE DEF TypeOK, RunningHasLease
<1> QED BY Zenon, <1>1, <1>2, <1>3, <1>4, <1>5, <1>6 DEF Next

(* No immortal run: a row that running_lease_is_live would take as live for ever
   is never produced, whatever the interleaving and the faults. *)
THEOREM NoImmortalRun == Spec => []RunningHasLease
<1>1. Init => RunningHasLease
  BY DEF Init, RunningHasLease
<1> QED BY <1>1, TypeCorrect, LeaseStep, PTL DEF Spec

(* No statement of the queue or of tenant retirement leaves `completed`, and none
   but the unfiltered finish of a refused dispatch leaves `cancelled`. *)
THEOREM TerminalStaysTerminal == Spec => TerminalIsFinal
<1> DEFINE Final(j) ==
      status[j] \in {"completed", "cancelled"} /\ refusal[j] = "no"
         => status'[j] \in {status[j], "deleted"}
<1>1. ASSUME TypeOK, [Next]_vars, NEW j \in Jobs PROVE Final(j)
  <2> USE DEF TypeOK, Waiting, lifecycleVars
  <2>1. CASE DispatchStep
    BY <1>1, <2>1 DEF DispatchStep, Dispatch, RecordEnqueue, RefuseRecord,
                      CloseUnavailable, Moved, RefuserCrash
  <2>2. CASE WorkerStep
    <3>1. ASSUME NEW w \in Workers, Admit(w) \/ Requeue(w) \/ Renew(w)
          PROVE  Final(j)
      BY <1>1, <3>1 DEF Admit, Claimable, Requeue, Renew
    <3>2. ASSUME NEW w \in Workers, Defer(w) PROVE Final(j)
      BY ZenonT(60), <1>1, <3>2 DEF Defer, DeferMatches, Moved
    <3>3. ASSUME NEW w \in Workers, NEW outcome, Finish(w, outcome)
          PROVE  Final(j)
      BY <1>1, <3>3 DEF Finish, Owns, Moved
    <3>4. ASSUME NEW w \in Workers, UntouchedRows(w) PROVE Final(j)
      <4>1. UNCHANGED lifecycleVars
        BY Zenon, <3>4, RowsUntouched
      <4> QED BY Zenon, <4>1
    <3> HIDE DEF TypeOK, Final
    <3> QED BY Zenon, <2>2, <3>1, <3>2, <3>3, <3>4 DEF WorkerStep, UntouchedRows
  <2>3. CASE DisableTenant \/ DeleteTenant
    BY <1>1, <2>3 DEF DisableTenant, DeleteTenant, Untouched
  <2>4. CASE RelayStep \/ ProviderStep \/ TimeStep \/ UNCHANGED vars
    BY Zenon, <2>4, BystandersRows
  <2> HIDE DEF TypeOK, Final
  <2> QED BY Zenon, <1>1, <2>1, <2>2, <2>3, <2>4 DEF Next
<1>2. TypeOK /\ [Next]_vars => [\A j \in Jobs : Final(j)]_vars
  BY Zenon, <1>1
<1> QED BY <1>2, TypeCorrect, PTL DEF Spec, TerminalIsFinal

(* Attempts of an uncapped job are handed out in increasing order: admission adds
   one, and nothing else changes them. *)
LEMMA AttemptStep ==
    TypeOK /\ AttemptsFresh /\ [Next]_vars => AttemptsFresh'
<1> USE DEF TypeOK, AttemptsFresh, lifecycleVars, workerVars
<1>1. ASSUME TypeOK, AttemptsFresh, UNCHANGED workerVars, UNCHANGED attempt
      PROVE  AttemptsFresh'
  BY Zenon, <1>1
<1>2. ASSUME TypeOK, AttemptsFresh, WorkerStep PROVE AttemptsFresh'
  <2>1. ASSUME NEW w \in Workers, NEW c \in Copies, Fetch(w, c)
        PROVE  AttemptsFresh'
    BY <1>2, <2>1 DEF Fetch
  <2>2. ASSUME NEW w \in Workers, Admit(w) PROVE AttemptsFresh'
    BY SMTT(20), <1>2, <2>2 DEF Admit
  <2>3. ASSUME NEW w \in Workers, AdmitSaturated(w) \/ AdmitNothing(w)
        PROVE  AttemptsFresh'
    BY <1>2, <2>3 DEF AdmitSaturated, AdmitNothing, Saturated
  <2>4. ASSUME NEW w \in Workers, Defer(w) PROVE AttemptsFresh'
    BY <1>2, <2>4 DEF Defer, Moved
  <2>5. ASSUME NEW w \in Workers, Requeue(w) PROVE AttemptsFresh'
    BY <1>2, <2>5 DEF Requeue
  <2>6. ASSUME NEW w \in Workers, Renew(w) \/ HeartbeatFails(w) \/ DbError(w)
        PROVE  AttemptsFresh'
    BY <1>2, <2>6 DEF Renew, HeartbeatFails, DbError
  <2>7. ASSUME NEW w \in Workers, NEW outcome, Finish(w, outcome)
        PROVE  AttemptsFresh'
    BY <1>2, <2>7 DEF Finish, Moved, ResultOf
  <2>8. ASSUME NEW w \in Workers, Return(w) \/ WorkerCrash(w)
        PROVE  AttemptsFresh'
    <3>1. UNCHANGED attempt /\ WorkerIdles(w)
      BY Zenon, <2>8 DEF Return, WorkerCrash
    <3> QED BY <1>2, <3>1 DEF WorkerIdles
  <2> HIDE DEF TypeOK, AttemptsFresh
  <2> QED BY Zenon, <1>2, <2>1, <2>2, <2>3, <2>4, <2>5, <2>6, <2>7, <2>8 DEF WorkerStep
<1>3. ASSUME DispatchStep \/ RelayStep
      PROVE  UNCHANGED workerVars /\ UNCHANGED attempt
  BY Zenon, <1>3 DEF DispatchStep, Dispatch, RecordEnqueue, RefuseRecord,
     CloseUnavailable, Moved, RefuserCrash, RelayStep, RelayScan, RelayClaim,
     RelayPublish, RelayPublishTimesOut, RelayPublishFails, RelayAck, RelayCrash
<1>4. ASSUME \/ ProviderStep \/ TimeStep \/ DisableTenant \/ DeleteTenant
             \/ UNCHANGED vars
      PROVE  UNCHANGED workerVars /\ UNCHANGED attempt
  BY Zenon, <1>4 DEF ProviderStep, Reap, RetryFailed, TimeStep, LeaseLapses,
     ClaimLapses, CooldownEnds, DisableTenant, DeleteTenant, vars
<1> HIDE DEF TypeOK, AttemptsFresh, workerVars
<1> QED BY Zenon, <1>1, <1>2, <1>3, <1>4 DEF Next

(* The attempt fence is sound wherever a job is not subject to a concurrency
   limit: all embedding syncs, and every job of the community edition. *)
THEOREM UncappedFence == Spec => []UncappedOneOwner
<1>1. Init => AttemptsFresh
  BY Zenon DEF Init, AttemptsFresh
<1>2. AttemptsFresh => UncappedOneOwner
  BY DEF AttemptsFresh, UncappedOneOwner, Owners, Owns
<1> QED BY <1>1, <1>2, TypeCorrect, AttemptStep, PTL DEF Spec

(* The live runs of a key are finitely many. *)
LEMMA LiveRunsFinite ==
    ASSUME TypeOK, NEW k \in Keys
    PROVE  IsFiniteSet(LiveRuns(k))
<1>1. LiveRuns(k) \subseteq Jobs /\ IsFiniteSet(Jobs)
  BY Zenon, ConstantsAssumption DEF LiveRuns
<1> QED BY Zenon, <1>1, FS_Subset

(* A step after which no other run is live keeps every key within its limit. *)
LEMMA FewerLiveRuns ==
    ASSUME TypeOK, CapacityRespected,
           \A j \in Capped : lease'[j] = "live" => lease[j] = "live"
    PROVE  CapacityRespected'
<1> SUFFICES ASSUME NEW k \in Keys
             PROVE  Cardinality(LiveRuns(k)') <= LimitOf[k]
  BY Zenon DEF CapacityRespected
<1>1. LiveRuns(k)' \subseteq LiveRuns(k)
  BY Zenon DEF LiveRuns
<1>2. /\ Cardinality(LiveRuns(k)') <= Cardinality(LiveRuns(k))
      /\ Cardinality(LiveRuns(k)') \in Nat
      /\ Cardinality(LiveRuns(k)) \in Nat
  BY Zenon, <1>1, LiveRunsFinite, FS_Subset, FS_CardinalityType
<1>3. Cardinality(LiveRuns(k)) <= LimitOf[k] /\ LimitOf[k] \in Nat
  BY Zenon, ConstantsAssumption DEF CapacityRespected
<1> QED BY <1>2, <1>3

(* An admission leaves room for itself: the other live runs of the key are among
   those in_flight counted. *)
LEMMA AdmitCapacity ==
    ASSUME TypeOK, RunningHasLease, CapacityRespected,
           NEW w \in Workers, Admit(w), job[w] \in Capped
    PROVE  CapacityRespected'
<1> DEFINE j == job[w]
<1> SUFFICES ASSUME NEW k \in Keys
             PROVE  Cardinality(LiveRuns(k)') <= LimitOf[k]
  BY Zenon DEF CapacityRespected
<1> USE ConstantsAssumption
<1>0. LimitOf[k] \in Nat /\ Cardinality(LiveRuns(k)) <= LimitOf[k]
  BY Zenon DEF CapacityRespected
<1>1. CASE KeyOf[j] # k
  <2>1. LiveRuns(k)' = LiveRuns(k)
    BY Zenon, <1>1 DEF LiveRuns, Admit, TypeOK
  <2> QED BY Zenon, <2>1, <1>0
<1>2. CASE KeyOf[j] = k
  <2>1. IsFiniteSet(InFlight(j))
    <3>1. InFlight(j) \subseteq Jobs
      BY Zenon DEF InFlight
    <3> QED BY Zenon, <3>1, FS_Subset
  <2>2. j \notin InFlight(j)
    BY Zenon DEF InFlight
  <2>3. LiveRuns(k)' \subseteq InFlight(j) \cup {j}
    BY ZenonT(60), <1>2 DEF LiveRuns, InFlight, LeaseIsLive, Admit, TypeOK, RunningHasLease
  <2>4. /\ Cardinality(InFlight(j)) \in Nat
        /\ Cardinality(InFlight(j) \cup {j}) = Cardinality(InFlight(j)) + 1
        /\ IsFiniteSet(InFlight(j) \cup {j})
    BY Zenon, <2>1, <2>2, FS_AddElement, FS_CardinalityType
  <2>5. /\ Cardinality(LiveRuns(k)') <= Cardinality(InFlight(j) \cup {j})
        /\ Cardinality(LiveRuns(k)') \in Nat
    BY Zenon, <2>3, <2>4, FS_Subset, FS_CardinalityType
  <2>6. ~(Cardinality(InFlight(j)) >= LimitOf[k])
    BY Zenon, <1>2 DEF Admit, Saturated
  <2> QED BY <1>0, <2>4, <2>5, <2>6
<1> QED BY Zenon, <1>1, <1>2

(* The concurrency limit of a key holds for every number of jobs, workers and
   keys and every limit, zero included. *)
THEOREM CapacityHolds == Spec => []CapacityRespected
<1>1. Init => CapacityRespected
  <2>1. ASSUME Init, NEW k \in Keys PROVE LiveRuns(k) = {}
    BY Zenon, <2>1, ConstantsAssumption DEF Init, LiveRuns
  <2> QED BY <2>1, FS_EmptySet, ConstantsAssumption DEF CapacityRespected
<1>2. TypeOK /\ RunningHasLease /\ CapacityRespected /\ [Next]_vars
         => CapacityRespected'
  <2> SUFFICES ASSUME TypeOK, RunningHasLease, CapacityRespected, [Next]_vars
               PROVE  CapacityRespected'
    BY Zenon
  <2> DEFINE Fewer == \A j \in Capped : lease'[j] = "live" => lease[j] = "live"
  <2> USE ConstantsAssumption DEF TypeOK, lifecycleVars
  <2>1. CASE DispatchStep
    <3>1. Fewer
      BY <2>1 DEF DispatchStep, Dispatch, RecordEnqueue, RefuseRecord,
                  CloseUnavailable, Moved, RefuserCrash
    <3> QED BY Zenon, <3>1, FewerLiveRuns
  <2>2. CASE WorkerStep
    <3>1. ASSUME NEW w \in Workers, Admit(w) PROVE CapacityRespected'
      <4>1. CASE job[w] \in Capped
        BY Zenon, <3>1, <4>1, AdmitCapacity
      <4>2. CASE job[w] \notin Capped
        <5>1. Fewer
          BY Zenon, <3>1, <4>2 DEF Admit
        <5> QED BY Zenon, <5>1, FewerLiveRuns
      <4> QED BY Zenon, <4>1, <4>2
    <3>2. ASSUME NEW w \in Workers,
                 NEW outcome \in {"completed", "failed", "cancelled"},
                 Defer(w) \/ Requeue(w) \/ Renew(w) \/ Finish(w, outcome)
          PROVE  Fewer
      <4>1. CASE Defer(w)
        BY Zenon, <4>1 DEF Defer, Moved
      <4>2. CASE Requeue(w)
        BY Zenon, <4>2 DEF Requeue
      <4>3. CASE Renew(w)
        BY SMTT(20), <4>3 DEF Renew
      <4>4. CASE Finish(w, outcome)
        BY Zenon, <4>4 DEF Finish, Moved
      <4> QED BY Zenon, <3>2, <4>1, <4>2, <4>3, <4>4
    <3>3. ASSUME NEW w \in Workers, UntouchedRows(w) PROVE Fewer
      <4>1. UNCHANGED lifecycleVars
        BY Zenon, <3>3, RowsUntouched
      <4> QED BY Zenon, <4>1
    <3>4. ASSUME Fewer PROVE CapacityRespected'
      BY Zenon, <3>4, FewerLiveRuns
    <3> HIDE DEF TypeOK, Fewer
    <3> QED BY Zenon, <2>2, <3>1, <3>2, <3>3, <3>4 DEF WorkerStep, UntouchedRows
  <2>3. CASE DisableTenant \/ DeleteTenant
    <3>1. Fewer
      BY <2>3 DEF DisableTenant, DeleteTenant
    <3> QED BY Zenon, <3>1, FewerLiveRuns
  <2>4. CASE RelayStep \/ ProviderStep \/ TimeStep \/ UNCHANGED vars
    <3>1. Fewer
      BY Zenon, <2>4, BystandersRows
    <3> QED BY Zenon, <3>1, FewerLiveRuns
  <2> HIDE DEF TypeOK
  <2> QED BY Zenon, <2>1, <2>2, <2>3, <2>4 DEF Next
<1> QED BY <1>1, <1>2, TypeCorrect, NoImmortalRun, PTL DEF Spec

-----------------------------------------------------------------------------
(* No waiting job is lost. *)

(* The rows are left alone and every firm carrier stays firm. *)
LEMMA CarrierKept ==
    ASSUME CarrierFirm, \A j \in Jobs : Firm(j) => Firm(j)',
           UNCHANGED <<status, refusal, dispatch, token>>,
           \A r \in Relays : relayPc'[r] = "ack"
                => relayPc[r] = "ack" /\ relayJob'[r] = relayJob[r]
    PROVE  CarrierFirm'
BY DEF CarrierFirm

(* Only the rows of k change, and k still has its carrier if it waits. *)
LEMMA CarrierMoved ==
    ASSUME CarrierFirm, UNCHANGED <<relayPc, relayJob, refusal>>, NEW k \in Jobs,
           \A j \in Jobs \ {k} : /\ status'[j] = status[j]
                                 /\ dispatch'[j] = dispatch[j]
                                 /\ token'[j] = token[j]
                                 /\ Firm(j) => Firm(j)',
           status'[k] = "absent" => dispatch'[k] = "none" /\ token'[k] = None,
           status'[k] \in Waiting
                => Firm(k)' \/ (dispatch'[k] = "pending" /\ token'[k] = None)
    PROVE  CarrierFirm'
BY SMTT(20), ConstantsAssumption DEF CarrierFirm

(* The same for a job that is recorded or refused: k has no token, and its
   dispatch waits if it does. *)
LEMMA CarrierRecorded ==
    ASSUME CarrierFirm, UNCHANGED <<relayPc, relayJob, token>>, NEW k \in Jobs,
           \A j \in Jobs \ {k} : /\ status'[j] = status[j]
                                 /\ dispatch'[j] = dispatch[j]
                                 /\ refusal'[j] = refusal[j],
           \A j \in Jobs : Firm(j) => Firm(j)',
           status'[k] = "absent" => dispatch'[k] = "none" /\ token[k] = None,
           status'[k] \in Waiting /\ refusal'[k] = "no"
                => dispatch'[k] = "pending" /\ token[k] = None
    PROVE  CarrierFirm'
<1>1. ASSUME NEW r \in Relays PROVE r # None
  BY Zenon, ConstantsAssumption
<1> QED BY <1>1 DEF CarrierFirm

(* A relay publishes before it acknowledges, and an acknowledgement counts only
   for the claim it was made under: no waiting job loses its carrier to it. *)
LEMMA RelayCarrier ==
    ASSUME TypeOK, CarrierFirm, RelayStep
    PROVE  CarrierFirm'
<1> USE ConstantsAssumption
        DEF TypeOK, lifecycleVars, outboxVars, providerVars, workerVars
<1>1. ASSUME NEW j, Enqueued(j), UNCHANGED pc, NEW i \in Jobs, Firm(i)
      PROVE  Firm(i)'
  BY <1>1 DEF Enqueued, Firm
<1>2. ASSUME NEW j \in Jobs, Enqueued(j) PROVE Firm(j)'
  BY <1>2 DEF Enqueued, Firm
<1>3. ASSUME NEW j \in Jobs, Firm(j), UNCHANGED <<carries, holder, pc>>
      PROVE  Firm(j)'
  BY Zenon, <1>3 DEF Firm
<1>4. ASSUME NEW r \in Relays, NEW j \in Jobs, RelayScan(r, j)
      PROVE  CarrierFirm'
  BY Zenon, <1>3, <1>4, CarrierKept DEF RelayScan
<1>5. ASSUME NEW r \in Relays, RelayClaim(r) PROVE CarrierFirm'
  <2>1. \A i \in Jobs : Firm(i) => Firm(i)'
    BY Zenon, <1>3, <1>5 DEF RelayClaim
  <2>2. CASE RelayIdles(r) /\ UNCHANGED outboxVars
    BY Zenon, <1>5, <2>1, <2>2, CarrierKept DEF RelayClaim, RelayIdles
  <2>3. CASE /\ dispatch[relayJob[r]] = "pending"
             /\ token' = [token EXCEPT ![relayJob[r]] = r]
             /\ relayPc' = [relayPc EXCEPT ![r] = "publish"]
             /\ UNCHANGED <<dispatch, relayJob>>
    <3>1. relayJob[r] \in Jobs /\ UNCHANGED <<status, refusal>>
      BY Zenon, <1>5 DEF RelayClaim
    <3>2. \A j \in Jobs : status[j] = "absent" => token'[j] = None
      BY <2>3, <3>1 DEF CarrierFirm
    <3> QED BY <2>1, <2>3, <3>1, <3>2 DEF CarrierFirm
  <2> QED BY Zenon, <1>5, <2>2, <2>3 DEF RelayClaim
<1>6. ASSUME NEW r \in Relays, RelayPublish(r) PROVE CarrierFirm'
  <2>1. relayJob[r] \in Jobs /\ Firm(relayJob[r])'
    BY Zenon, <1>2, <1>6 DEF RelayPublish
  <2>2. \A i \in Jobs : Firm(i) => Firm(i)'
    BY Zenon, <1>1, <1>6 DEF RelayPublish
  <2> QED BY <1>6, <2>1, <2>2 DEF RelayPublish, CarrierFirm
<1>7. ASSUME NEW r \in Relays, RelayPublishTimesOut(r) PROVE CarrierFirm'
  <2>1. \A i \in Jobs : Firm(i) => Firm(i)'
    BY Zenon, <1>1, <1>7 DEF RelayPublishTimesOut
  <2> QED BY Zenon, <1>7, <2>1, CarrierKept DEF RelayPublishTimesOut, RelayIdles
<1>8. ASSUME NEW r \in Relays, RelayPublishFails(r) \/ RelayCrash(r)
      PROVE  CarrierFirm'
  <2>1. UNCHANGED <<carries, holder, pc, status, refusal, dispatch, token>>
    BY Zenon, <1>8 DEF RelayPublishFails, RelayCrash
  <2>2. \A q \in Relays : relayPc'[q] = "ack"
           => relayPc[q] = "ack" /\ relayJob'[q] = relayJob[q]
    BY <1>8 DEF RelayPublishFails, RelayCrash, RelayIdles
  <2>3. \A i \in Jobs : Firm(i) => Firm(i)'
    BY Zenon, <1>3, <2>1
  <2> HIDE DEF TypeOK
  <2> QED BY Zenon, <2>1, <2>2, <2>3, CarrierKept
<1>9. ASSUME NEW r \in Relays, RelayAck(r) PROVE CarrierFirm'
  <2>1. relayJob[r] \in Jobs
    BY Zenon, <1>9 DEF RelayAck
  <2>2. \A i \in Jobs : Firm(i) => Firm(i)'
    BY Zenon, <1>3, <1>9 DEF RelayAck
  <2> QED BY <1>9, <2>1, <2>2 DEF RelayAck, AckMatches, RelayIdles, CarrierFirm
<1> HIDE DEF TypeOK
<1> QED BY Zenon, <1>4, <1>5, <1>6, <1>7, <1>8, <1>9 DEF RelayStep

(* When only w moves, a job keeps its firm carrier unless w reports success
   for that very job. *)
LEMMA FirmKept ==
    ASSUME TypeOK, Holding, NEW w \in Workers, OnlyMoves(w),
           UNCHANGED <<carries, holder>>, NEW j \in Jobs, Firm(j),
           pc'[w] # "ok" \/ (pc[w] # "idle" /\ job[w] # j)
    PROVE  Firm(j)'
<1>1. PICK c \in Copies : carries[c] = j /\ (holder[c] = None \/ pc[holder[c]] # "ok")
  BY Zenon DEF Firm
<1>2. holder[c] \in Workers \cup {None}
  BY Zenon DEF TypeOK
<1>3. CASE holder[c] = None
  BY Zenon, <1>1, <1>3 DEF Firm
<1>4. CASE holder[c] \in Workers \ {w}
  <2>1. pc'[holder[c]] = pc[holder[c]]
    BY Zenon, <1>4 DEF OnlyMoves
  <2>2. holder[c] # None
    BY Zenon, <1>4, ConstantsAssumption
  <2> QED BY Zenon, <1>1, <2>1, <2>2 DEF Firm
<1>5. CASE holder[c] = w
  <2>1. pc[w] # "idle" => carries[c] = job[w]
    <3>1. w # None
      BY Zenon, ConstantsAssumption
    <3> QED BY Zenon, <1>5, <3>1 DEF Holding
  <2>2. pc'[w] # "ok"
    BY Zenon, <1>1, <2>1
  <2> QED BY Zenon, <1>1, <1>5, <2>2 DEF Firm
<1> QED BY Zenon, <1>2, <1>3, <1>4, <1>5

(* A worker never gives up the last firm carrier of a waiting job: it reports
   success only for a job that does not wait any more or whose dispatch it has
   just made pending again. *)
LEMMA WorkerCarrier ==
    ASSUME TypeOK, Holding, CarrierFirm, WorkerStep
    PROVE  CarrierFirm'
<1> USE ConstantsAssumption
        DEF TypeOK, lifecycleVars, outboxVars, providerVars, workerVars, relayVars
<1>1. ASSUME NEW w \in Workers,
             \/ Admit(w) \/ AdmitSaturated(w) \/ AdmitNothing(w)
             \/ Defer(w) \/ Requeue(w) \/ DbError(w)
             \/ \E outcome \in {"completed", "failed", "cancelled"} :
                   Finish(w, outcome)
      PROVE  \A j \in Jobs : Firm(j) /\ (pc'[w] # "ok" \/ job[w] # j) => Firm(j)'
  <2> HIDE DEF TypeOK
  <2> QED BY Zenon, <1>1, BusyMoves, FirmKept
<1>2. ASSUME NEW w \in Workers, pc[w] # "idle", pc[w] # "ok"
      PROVE  Firm(job[w])
  BY <1>2 DEF Firm, Holding
<1>3. ASSUME NEW w \in Workers, NEW c \in Copies, Fetch(w, c) PROVE CarrierFirm'
  <2>1. ASSUME NEW j \in Jobs, Firm(j) PROVE Firm(j)'
    BY SMTT(20), <1>3, <2>1 DEF Fetch, Firm, Holding
  <2> QED BY Zenon, <1>3, <2>1, CarrierKept DEF Fetch
<1>4. ASSUME NEW w \in Workers, Admit(w) PROVE CarrierFirm'
  <2>1. pc'[w] # "ok" /\ job[w] \in Jobs /\ status'[job[w]] = "running"
    BY Zenon, <1>4 DEF Admit
  <2>2. \A j \in Jobs \ {job[w]} : status'[j] = status[j]
    BY Zenon, <1>4 DEF Admit
  <2>3. UNCHANGED <<relayPc, relayJob, refusal, dispatch, token>>
    BY Zenon, <1>4 DEF Admit
  <2> HIDE DEF TypeOK
  <2> QED BY Zenon, <1>1, <1>4, <2>1, <2>2, <2>3, CarrierMoved DEF Waiting
<1>5. ASSUME NEW w \in Workers, AdmitSaturated(w) \/ DbError(w)
      PROVE  CarrierFirm'
  <2>1. pc'[w] # "ok"
    BY <1>5 DEF AdmitSaturated, DbError
  <2>2. UNCHANGED <<status, refusal, dispatch, token, relayPc, relayJob>>
    BY Zenon, <1>5 DEF AdmitSaturated, DbError
  <2> HIDE DEF TypeOK
  <2> QED BY Zenon, <1>1, <1>5, <2>1, <2>2, CarrierKept
<1>6. ASSUME NEW w \in Workers, AdmitNothing(w) PROVE CarrierFirm'
  <2>1. job[w] \in Jobs /\ status[job[w]] \notin Waiting
    BY Zenon, <1>6 DEF AdmitNothing, Claimable
  <2>2. UNCHANGED <<status, refusal, dispatch, token, relayPc, relayJob>>
    BY Zenon, <1>6 DEF AdmitNothing
  <2>3. status[job[w]] = "absent"
            => dispatch[job[w]] = "none" /\ token[job[w]] = None
    BY Zenon, <2>1 DEF CarrierFirm
  <2> HIDE DEF TypeOK
  <2> QED BY Zenon, <1>1, <1>6, <2>1, <2>2, <2>3, CarrierMoved
<1>7. ASSUME NEW w \in Workers, Defer(w) PROVE CarrierFirm'
  <2>1. pc'[w] # "ok" /\ job[w] \in Jobs /\ Firm(job[w])
    BY SMTT(20), <1>2, <1>7 DEF Defer
  <2>2. UNCHANGED <<refusal, dispatch, token, relayPc, relayJob>>
    BY Zenon, <1>7 DEF Defer
  <2>3. UNCHANGED status \/ status' = [status EXCEPT ![job[w]] = "retrying"]
    BY Zenon, <1>7 DEF Defer, Moved
  <2>4. \A j \in Jobs : Firm(j) => Firm(j)'
    <3> HIDE DEF TypeOK
    <3> QED BY Zenon, <1>1, <1>7, <2>1
  <2>5. CASE UNCHANGED status
    BY Zenon, <2>2, <2>4, <2>5, CarrierKept
  <2>6. CASE status' = [status EXCEPT ![job[w]] = "retrying"]
    <3>1. /\ status'[job[w]] = "retrying"
          /\ \A j \in Jobs \ {job[w]} : status'[j] = status[j]
      BY ZenonT(60), <2>1, <2>6
    <3> HIDE DEF TypeOK
    <3> QED BY Zenon, <2>1, <2>2, <2>4, <3>1, CarrierMoved
  <2> QED BY Zenon, <2>3, <2>5, <2>6
<1>8. ASSUME NEW w \in Workers, Requeue(w) PROVE CarrierFirm'
  <2>1. job[w] \in Jobs /\ UNCHANGED <<relayPc, relayJob, refusal>>
    BY Zenon, <1>8 DEF Requeue
  <2>2. CASE pc' = [pc EXCEPT ![w] = "err"] /\ UNCHANGED <<status, outboxVars>>
    <3>1. pc'[w] # "ok"
      BY Zenon, <2>2
    <3> HIDE DEF TypeOK
    <3>2. \A j \in Jobs : Firm(j) => Firm(j)'
      BY Zenon, <1>1, <1>8, <3>1
    <3> QED BY Zenon, <2>1, <2>2, <3>2, CarrierKept
  <2>3. CASE /\ status' = [status EXCEPT ![job[w]] = "queued"]
             /\ Redispatch(job[w])
    <3>1. \A j \in Jobs \ {job[w]} : /\ status'[j] = status[j]
                                     /\ dispatch'[j] = dispatch[j]
                                     /\ token'[j] = token[j]
      BY <2>1, <2>3 DEF Redispatch
    <3>2. /\ status'[job[w]] = "queued"
          /\ dispatch'[job[w]] = "pending" /\ token'[job[w]] = None
      BY SMTT(20), <2>1, <2>3 DEF Redispatch
    <3> HIDE DEF TypeOK
    <3>3. \A j \in Jobs \ {job[w]} : Firm(j) => Firm(j)'
      BY Zenon, <1>1, <1>8
    <3>4. status'[job[w]] # "absent"
      BY Zenon, <3>2
    <3> QED BY Zenon, <2>1, <3>1, <3>2, <3>3, <3>4, CarrierMoved
  <2> HIDE DEF TypeOK
  <2> QED BY Zenon, <1>8, <2>2, <2>3 DEF Requeue
<1>9. ASSUME NEW w \in Workers, Renew(w) \/ HeartbeatFails(w) PROVE CarrierFirm'
  <2>1. UNCHANGED <<carries, holder, pc, status, refusal, dispatch, token,
                    relayPc, relayJob>>
    BY Zenon, <1>9 DEF Renew, HeartbeatFails
  <2>2. \A j \in Jobs : Firm(j) => Firm(j)'
    BY Zenon, <2>1 DEF Firm
  <2> QED BY Zenon, <2>1, <2>2, CarrierKept
<1>10. ASSUME NEW w \in Workers,
              NEW outcome \in {"completed", "failed", "cancelled"},
              Finish(w, outcome)
       PROVE  CarrierFirm'
  <2>1. job[w] \in Jobs /\ UNCHANGED <<relayPc, relayJob, refusal, dispatch, token>>
    BY Zenon, <1>10 DEF Finish
  <2>2. CASE Owns(w)
    <3>1. /\ status'[job[w]] = outcome
          /\ \A j \in Jobs \ {job[w]} : status'[j] = status[j]
      BY SMTT(20), <1>10, <2>1, <2>2 DEF Finish, Moved
    <3> HIDE DEF TypeOK
    <3>2. \A j \in Jobs \ {job[w]} : Firm(j) => Firm(j)'
      BY Zenon, <1>1, <1>10
    <3>3. status'[job[w]] \notin Waiting \cup {"absent"}
      BY Zenon, <3>1 DEF Waiting
    <3> QED BY Zenon, <2>1, <3>1, <3>2, <3>3, CarrierMoved
  <2>3. CASE ~Owns(w)
    <3>1. pc'[w] # "ok" /\ UNCHANGED status
      BY Zenon, <1>10, <2>3 DEF Finish
    <3> HIDE DEF TypeOK
    <3> QED BY Zenon, <1>1, <1>10, <2>1, <3>1, CarrierKept
  <2> QED BY Zenon, <2>2, <2>3
<1>11. ASSUME NEW w \in Workers, Return(w) PROVE CarrierFirm'
  <2>1. \A j \in Jobs : Firm(j) => Firm(j)'
    <3>1. copy[w] \in Copies /\ holder[copy[w]] = w /\ w # None /\ OnlyMoves(w)
      BY SMTT(20), <1>11 DEF Return, WorkerIdles, Holding, OnlyMoves
    <3>2. holder' = [holder EXCEPT ![copy[w]] = None]
      BY Zenon, <1>11, <3>1 DEF Return
    <3>3. pc[w] # "ok" => carries' = carries
      BY Zenon, <1>11, <3>1 DEF Return
    <3>4. \A c \in Copies \ {copy[w]} : carries'[c] = carries[c]
      BY <1>11, <3>1 DEF Return
    <3>5. SUFFICES ASSUME NEW j \in Jobs, Firm(j) PROVE Firm(j)'
      BY Zenon
    <3>6. PICK c \in Copies : /\ carries[c] = j
                              /\ holder[c] = None \/ pc[holder[c]] # "ok"
      BY Zenon, <3>5 DEF Firm
    <3>7. CASE c = copy[w]
      <4>1. carries'[c] = j
        BY Zenon, <3>1, <3>3, <3>6, <3>7
      <4>2. holder'[c] = None
        BY Zenon, <3>2, <3>7
      <4> QED BY Zenon, <4>1, <4>2 DEF Firm
    <3>8. CASE c # copy[w]
      <4>1. carries'[c] = j
        BY Zenon, <3>4, <3>6, <3>8
      <4>2. holder'[c] = holder[c]
        BY Zenon, <3>2, <3>8
      <4>3. holder[c] = None \/ holder[c] \in Workers \ {w}
        BY SMTT(20), <3>1, <3>8 DEF Holding
      <4>4. holder[c] = None \/ pc'[holder[c]] = pc[holder[c]]
        BY Zenon, <3>1, <4>3 DEF OnlyMoves
      <4> QED BY Zenon, <3>6, <4>1, <4>2, <4>4 DEF Firm
    <3> QED BY Zenon, <3>7, <3>8
  <2>2. UNCHANGED <<status, refusal, dispatch, token, relayPc, relayJob>>
    BY Zenon, <1>11 DEF Return
  <2> QED BY Zenon, <2>1, <2>2, CarrierKept
<1>12. ASSUME NEW w \in Workers, WorkerCrash(w) PROVE CarrierFirm'
  <2>1. /\ UNCHANGED carries /\ OnlyMoves(w)
        /\ holder' = [c \in Copies |-> IF holder[c] = w THEN None ELSE holder[c]]
    BY Zenon, <1>12 DEF WorkerCrash, WorkerIdles, OnlyMoves
  <2>2. ASSUME NEW c \in Copies, holder'[c] # None
        PROVE  /\ holder'[c] = holder[c]
               /\ pc'[holder[c]] = pc[holder[c]]
    <3>1. holder[c] \in Workers \ {w} /\ holder'[c] = holder[c]
      BY <2>1, <2>2
    <3> QED BY Zenon, <2>1, <3>1 DEF OnlyMoves
  <2>4. \A j \in Jobs : Firm(j) => Firm(j)'
    <3> HIDE DEF TypeOK
    <3>1. SUFFICES ASSUME NEW j \in Jobs, Firm(j) PROVE Firm(j)'
      BY Zenon
    <3>2. PICK c \in Copies : /\ carries[c] = j
                              /\ holder[c] = None \/ pc[holder[c]] # "ok"
      BY Zenon, <3>1 DEF Firm
    <3>3. holder'[c] = None \/ pc'[holder'[c]] # "ok"
      BY Zenon, <2>2, <3>2
    <3> QED BY Zenon, <2>1, <3>2, <3>3 DEF Firm
  <2>3. UNCHANGED <<status, refusal, dispatch, token, relayPc, relayJob>>
    BY Zenon, <1>12 DEF WorkerCrash
  <2> QED BY Zenon, <2>3, <2>4, CarrierKept
<1> HIDE DEF TypeOK
<1> QED BY Zenon, <1>3, <1>4, <1>5, <1>6, <1>7, <1>8, <1>9, <1>10, <1>11, <1>12
        DEF WorkerStep

(* Dispatching, retiring, reaping, retrying and the passing of time leave every
   waiting job its carrier. *)
LEMMA OtherCarrier ==
    ASSUME TypeOK, CarrierFirm,
           \/ DispatchStep \/ ProviderStep \/ TimeStep
           \/ DisableTenant \/ DeleteTenant \/ UNCHANGED vars
    PROVE  CarrierFirm'
<1> USE ConstantsAssumption
        DEF TypeOK, lifecycleVars, outboxVars, providerVars, workerVars, relayVars
<1>1. ASSUME UNCHANGED <<carries, holder, pc>>
      PROVE  \A j \in Jobs : Firm(j) => Firm(j)'
  BY Zenon, <1>1 DEF Firm
<1>2. ASSUME NEW j \in Jobs, Dispatch(j) PROVE CarrierFirm'
  <2>1. UNCHANGED <<relayPc, relayJob, token, refusal, carries, holder, pc>>
    BY Zenon, <1>2 DEF Dispatch
  <2>2. /\ status[j] = "absent" /\ status'[j] = "queued" /\ dispatch'[j] = "pending"
        /\ \A i \in Jobs \ {j} : status'[i] = status[i] /\ dispatch'[i] = dispatch[i]
    BY <1>2 DEF Dispatch, RecordEnqueue
  <2> HIDE DEF TypeOK
  <2>3. token[j] = None
    BY Zenon, <2>2 DEF CarrierFirm
  <2>4. \A i \in Jobs : Firm(i) => Firm(i)'
    BY Zenon, <1>1, <2>1
  <2>5. status'[j] # "absent"
    BY Zenon, <2>2
  <2> QED BY Zenon, <2>1, <2>2, <2>3, <2>4, <2>5, CarrierRecorded
<1>3. ASSUME NEW j \in Jobs, RefuseRecord(j) PROVE CarrierFirm'
  <2>1. UNCHANGED <<relayPc, relayJob, token, dispatch, carries, holder, pc>>
    BY Zenon, <1>3 DEF RefuseRecord
  <2>2. /\ status'[j] = "queued" /\ refusal'[j] = "open"
        /\ \A i \in Jobs \ {j} : status'[i] = status[i] /\ refusal'[i] = refusal[i]
    BY <1>3 DEF RefuseRecord, RecordEnqueue
  <2> HIDE DEF TypeOK
  <2>3. \A i \in Jobs : Firm(i) => Firm(i)'
    BY Zenon, <1>1, <2>1
  <2>4. status'[j] # "absent" /\ refusal'[j] # "no"
    BY Zenon, <2>2
  <2> QED BY Zenon, <2>1, <2>2, <2>3, <2>4, CarrierRecorded
<1>4. ASSUME NEW j \in Jobs, CloseUnavailable(j) \/ RefuserCrash(j)
      PROVE  CarrierFirm'
  <2>1. UNCHANGED <<relayPc, relayJob, token, dispatch, carries, holder, pc>>
    BY Zenon, <1>4 DEF CloseUnavailable, RefuserCrash
  <2>2. /\ status'[j] \in {"unavailable", status[j]} /\ refusal'[j] = "closed"
        /\ \A i \in Jobs \ {j} : refusal'[i] = refusal[i]
    BY <1>4 DEF CloseUnavailable, RefuserCrash, Moved
  <2>3. \A i \in Jobs \ {j} : status'[i] = status[i]
    BY <1>4 DEF CloseUnavailable, RefuserCrash, Moved
  <2> HIDE DEF TypeOK
  <2>4. \A i \in Jobs : Firm(i) => Firm(i)'
    BY Zenon, <1>1, <2>1
  <2>5. status'[j] = "absent" => dispatch'[j] = "none" /\ token[j] = None
    BY Zenon, <2>1, <2>2 DEF CarrierFirm
  <2>6. refusal'[j] # "no"
    BY Zenon, <2>2
  <2> QED BY Zenon, <2>1, <2>2, <2>3, <2>4, <2>5, <2>6, CarrierRecorded
<1>5. CASE ProviderStep
  <2>1. PICK c \in Copies : Reap(c) \/ RetryFailed(c)
    BY Zenon, <1>5 DEF ProviderStep
  <2>2. UNCHANGED <<carries, pc, status, refusal, dispatch, token, relayPc,
                    relayJob>>
    BY Zenon, <2>1 DEF Reap, RetryFailed
  <2>3. \/ UNCHANGED holder
        \/ holder' = [holder EXCEPT ![c] = None]
    BY Zenon, <2>1 DEF Reap, RetryFailed
  <2>4. \A j \in Jobs : Firm(j) => Firm(j)'
    BY <2>2, <2>3 DEF Firm
  <2> QED BY Zenon, <2>2, <2>4, CarrierKept
<1>6. CASE TimeStep \/ UNCHANGED vars
  <2>1. UNCHANGED <<carries, holder, pc, status, refusal, dispatch, token, relayVars>>
    BY Zenon, <1>6 DEF TimeStep, LeaseLapses, ClaimLapses, CooldownEnds, vars
  <2> QED BY Zenon, <1>1, <2>1, CarrierKept
<1>7. CASE DisableTenant \/ DeleteTenant
  <2>1. \A j \in Jobs : Firm(j) => Firm(j)'
    BY Zenon, <1>1, <1>7 DEF DisableTenant, DeleteTenant
  <2>2. CASE DisableTenant
    BY ZenonT(60), <2>1, <2>2 DEF DisableTenant, Untouched, DropDispatches, CarrierFirm,
       Waiting
  <2>3. CASE DeleteTenant
    BY ZenonT(60), <2>1, <2>3 DEF DeleteTenant, DropDispatches, CarrierFirm, Waiting
  <2> QED BY Zenon, <1>7, <2>2, <2>3
<1> HIDE DEF TypeOK
<1> QED BY Zenon, <1>2, <1>3, <1>4, <1>5, <1>6, <1>7 DEF DispatchStep

(* The outbox and the provider between them never lose a job that waits to run,
   whatever crashes, times out, lapses or is retired, provided the reaper's age
   limit is longer than any healthy run, as config/production.yaml demands. *)
THEOREM NoJobLost ==
    ASSUME "reap_live_worker" \notin Faults
    PROVE  Spec => []WaitingHasCarrier
<1>1. Init => Holding /\ CarrierFirm
  BY ConstantsAssumption DEF Init, Holding, CarrierFirm, Waiting
<1>2. TypeOK /\ Holding /\ [Next]_vars => Holding'
  BY Zenon, HoldingStep
<1>3. TypeOK /\ Holding /\ CarrierFirm /\ [Next]_vars => CarrierFirm'
  BY Zenon, RelayCarrier, WorkerCarrier, OtherCarrier DEF Next
<1>4. CarrierFirm => WaitingHasCarrier
  BY Zenon DEF CarrierFirm, WaitingHasCarrier, Firm, Carried
<1> QED BY <1>1, <1>2, <1>3, <1>4, TypeCorrect, PTL DEF Spec
=============================================================================

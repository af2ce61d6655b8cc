------------------------ MODULE QueryEmbeddingProofs ------------------------
(* Proofs about QueryEmbedding, for every value of its constants. *)
EXTENDS QueryEmbedding, TLAPS

(* Every step keeps rows, dispatches, workers and callers within their types. *)
LEMMA TypeStep == TypeOK /\ [Next]_vars => TypeOK'
<1> USE ConstantsAssumption
        DEF TypeOK, Finished, clientVars, relayVars, workerVars, timeVars
<1>1. ASSUME TypeOK, ClientStep PROVE TypeOK'
  <2>1. ASSUME NEW r \in Requests, Open(r) PROVE TypeOK'
    BY <1>1, <2>1 DEF Open, Purges, Purgeable
  <2>2. ASSUME NEW r \in Requests, Poll(r) PROVE TypeOK'
    BY <1>1, <2>2 DEF Poll, Take, Replied, FinishedResult
  <2>3. ASSUME NEW r \in Requests, TimeOut(r) \/ Expire(r) \/ ClientLeaves(r)
        PROVE  TypeOK'
    BY <1>1, <2>3 DEF TimeOut, Expire, Settle, ClientLeaves, Replied
  <2>4. ASSUME NEW r \in Requests, ReadAfterExpire(r) PROVE TypeOK'
    BY <1>1, <2>4 DEF ReadAfterExpire, Take, Replied, FinishedResult
  <2> QED BY <1>1, <2>1, <2>2, <2>3, <2>4 DEF ClientStep
<1>2. ASSUME TypeOK, RelayStep PROVE TypeOK'
  BY <1>2 DEF RelayStep, RelayClaim, RelayPublish, RelayExpires, RelayFails
<1>3. ASSUME TypeOK, WorkerStep PROVE TypeOK'
  BY <1>3 DEF WorkerStep, Fetch, WorkerPurge, Deleted, Purges, Purgeable, FindPending,
     WorkerIdles, AcquirePermit, EmbedFails, StartEmbedding, ProviderReturns,
     Complete, Fail, Settle, WorkerCrash
<1>4. ASSUME TypeOK, TimeStep \/ DisableTenant \/ DeleteTenant PROVE TypeOK'
  BY <1>4 DEF TimeStep, DeadlinePasses, RetentionEnds, DisableTenant, DeleteTenant
<1>5. ASSUME TypeOK, UNCHANGED vars PROVE TypeOK'
  BY <1>5 DEF vars
<1> QED BY <1>1, <1>2, <1>3, <1>4, <1>5 DEF Next

(* The types hold of every behaviour of the handshake. *)
THEOREM TypeCorrect == Spec => []TypeOK
<1>1. Init => TypeOK
  BY ConstantsAssumption DEF Init, TypeOK, Finished
<1> QED BY <1>1, TypeStep, PTL DEF Spec

(* The steps that leave the rows and the callers alone. *)
LEMMA Bystanders ==
    ASSUME \/ RelayStep \/ TimeStep \/ UNCHANGED vars
           \/ \E w \in Workers :
                \/ \E r \in Requests : Fetch(w, r)
                \/ FindPending(w) \/ AcquirePermit(w) \/ EmbedFails(w)
                \/ StartEmbedding(w)
                \/ ProviderReturns(w) \/ WorkerCrash(w)
    PROVE  UNCHANGED <<row, client, result, decided>>
BY DEF RelayStep, RelayClaim, RelayPublish, RelayExpires, RelayFails, TimeStep,
   DeadlinePasses, RetentionEnds, vars, Fetch, FindPending, AcquirePermit,
   EmbedFails, StartEmbedding, ProviderReturns, WorkerCrash, clientVars, timeVars, relayVars,
   workerVars

(* The row's status and what became of the request stay in agreement. *)
LEMMA DecisionStep ==
    TypeOK /\ RowTellsDecision /\ [Next]_vars => RowTellsDecision'
<1> USE ConstantsAssumption DEF TypeOK, RowTellsDecision, Finished, clientVars
<1>1. ASSUME RowTellsDecision, UNCHANGED <<row, client, result, decided>>
      PROVE  RowTellsDecision'
  BY <1>1
<1>2. ASSUME TypeOK, RowTellsDecision, ClientStep PROVE RowTellsDecision'
  <2> SUFFICES ASSUME NEW r \in Requests,
                      \/ Open(r) \/ Poll(r) \/ TimeOut(r) \/ Expire(r)
                      \/ ReadAfterExpire(r) \/ ClientLeaves(r)
               PROVE  RowTellsDecision'
    BY <1>2 DEF ClientStep
  <2>1. CASE Open(r)
    BY <1>2, <2>1 DEF Open, Purges, Purgeable
  <2>2. CASE Poll(r)
    BY <1>2, <2>2 DEF Poll, Take, Replied, FinishedResult
  <2>3. CASE TimeOut(r) \/ ClientLeaves(r)
    BY <1>2, <2>3 DEF TimeOut, ClientLeaves, Replied
  <2>4. CASE Expire(r)
    BY <1>2, <2>4 DEF Expire, Settle
  <2>5. CASE ReadAfterExpire(r)
    BY <1>2, <2>5 DEF ReadAfterExpire, Take, Replied, FinishedResult
  <2> QED BY <2>1, <2>2, <2>3, <2>4, <2>5
<1>3. ASSUME TypeOK, RowTellsDecision, NEW w \in Workers,
             WorkerPurge(w) \/ Complete(w) \/ Fail(w)
      PROVE  RowTellsDecision'
  BY <1>3 DEF WorkerPurge, Deleted, Purges, Purgeable, Complete, Fail, Settle
<1>4. ASSUME TypeOK, RowTellsDecision, DisableTenant \/ DeleteTenant
      PROVE  RowTellsDecision'
  BY <1>4 DEF DisableTenant, DeleteTenant
<1> QED BY <1>1, <1>2, <1>3, <1>4, Bystanders DEF Next, WorkerStep

(* A vector is handed out by the statement that deletes its row, and a timeout
   removes the row it expired: neither can be consumed a second time. *)
THEOREM EachResultOnce == Spec => []ConsumedOnce
<1>1. Init => RowTellsDecision /\ ConsumedOnce
  BY DEF Init, RowTellsDecision, ConsumedOnce, Finished
<1>2. TypeOK /\ RowTellsDecision /\ ConsumedOnce /\ [Next]_vars => ConsumedOnce'
  <2> SUFFICES ASSUME TypeOK, RowTellsDecision, ConsumedOnce, [Next]_vars
               PROVE  ConsumedOnce'
    OBVIOUS
  <2> USE DEF TypeOK, RowTellsDecision, ConsumedOnce, Finished, clientVars
  <2>1. ASSUME UNCHANGED <<row, client, result, decided>> PROVE ConsumedOnce'
    BY <2>1
  <2>2. CASE ClientStep
    BY <2>2 DEF ClientStep, Open, Purges, Purgeable, Poll, TimeOut, Expire,
       ReadAfterExpire, ClientLeaves, Take, Replied, FinishedResult, Settle
  <2>3. ASSUME NEW w \in Workers, WorkerPurge(w) \/ Complete(w) \/ Fail(w)
        PROVE  ConsumedOnce'
    BY <2>3 DEF WorkerPurge, Deleted, Purges, Purgeable, Complete, Fail, Settle
  <2>4. CASE DisableTenant \/ DeleteTenant
    BY <2>4 DEF DisableTenant, DeleteTenant
  <2> QED BY <2>1, <2>2, <2>3, <2>4, Bystanders DEF Next, WorkerStep
<1> QED BY <1>1, <1>2, TypeCorrect, DecisionStep, PTL DEF Spec

(* One request is decided: the abstract step of the worker and of expire. *)
LEMMA DecideOne ==
    ASSUME TypeOK, NEW r \in Requests, NEW d \in {"succeeded", "failed", "expired"},
           decided[r] = "open", decided' = [decided EXCEPT ![r] = d],
           UNCHANGED result
    PROVE  Promise!Next
<1>1. Promise!DecideAll({r}, d)
  BY DEF TypeOK, Promise!DecideAll
<1> QED BY <1>1 DEF Promise!Next, Promise!Decisions

(* Many are decided at once: the abstract step of a purge and of retirement. *)
LEMMA DecideMany ==
    ASSUME NEW S \in SUBSET Requests, NEW d \in {"failed", "removed"},
           \A r \in S : decided[r] = "open",
           decided' = [r \in Requests |-> IF r \in S THEN d ELSE decided[r]],
           UNCHANGED result
    PROVE  Promise!Next
BY DEF Promise!Next, Promise!Decisions, Promise!DecideAll

(* The handshake implements SearchPromise, for any number of requests, workers
   and permits: it decides every request once and tells its caller the truth. *)
THEOREM HandshakeKeepsPromise == Spec => KeepsPromise
<1>1. Init => RowTellsDecision /\ Promise!Init
  BY DEF Init, RowTellsDecision, Finished, Promise!Init
<1>2. TypeOK /\ RowTellsDecision /\ [Next]_vars
        => [Promise!Next]_<<decided, result>>
  <2> SUFFICES ASSUME TypeOK, RowTellsDecision, [Next]_vars
               PROVE  Promise!Next \/ UNCHANGED <<decided, result>>
    OBVIOUS
  <2> USE DEF TypeOK, RowTellsDecision, Finished, clientVars
  <2>1. ASSUME NEW r \in Requests, Open(r) PROVE Promise!Next
    <3>0. PICK P \in Purges :
            decided' = [q \in Requests |-> IF q \in P /\ row[q] = "pending"
                                           THEN "removed" ELSE decided[q]]
      BY <2>1 DEF Open
    <3> DEFINE S == { q \in P : row[q] = "pending" }
    <3>1. S \in SUBSET Requests /\ \A q \in S : decided[q] = "open"
      BY DEF Purges, Purgeable
    <3>2. decided' = [q \in Requests |-> IF q \in S THEN "removed" ELSE decided[q]]
      BY <3>0
    <3>3. UNCHANGED result
      BY <2>1 DEF Open
    <3> HIDE DEF S
    <3> QED BY <3>1, <3>2, <3>3, DecideMany
  <2>2. ASSUME NEW r \in Requests,
               Poll(r) \/ ReadAfterExpire(r) \/ ClientLeaves(r)
        PROVE  Promise!Next
    <3>1. PICK reply \in Promise!Replies : Replied(r, reply)
                                           /\ Promise!Agrees(decided[r], reply)
      BY <2>2 DEF Poll, ReadAfterExpire, ClientLeaves, FinishedResult,
         Promise!Replies, Promise!Agrees
    <3>2. result[r] = "nothing" /\ UNCHANGED decided
      BY <2>2 DEF Poll, ReadAfterExpire, ClientLeaves
    <3> QED BY <3>1, <3>2 DEF Replied, Promise!Next, Promise!Tell
  <2>3. ASSUME NEW r \in Requests, TimeOut(r)
        PROVE  UNCHANGED <<decided, result>>
    BY <2>3 DEF TimeOut
  <2>4. ASSUME NEW r \in Requests, Expire(r)
        PROVE  Promise!Next \/ UNCHANGED <<decided, result>>
    BY <2>4, DecideOne DEF Expire, Settle
  <2>5. ASSUME NEW w \in Workers, WorkerPurge(w) PROVE Promise!Next
    <3>0. PICK P \in Purges :
            decided' = [q \in Requests |-> IF q \in P /\ row[q] = "pending"
                                           THEN "removed" ELSE decided[q]]
      BY <2>5 DEF WorkerPurge, Deleted
    <3> DEFINE S == { q \in P : row[q] = "pending" }
    <3>1. S \in SUBSET Requests /\ \A q \in S : decided[q] = "open"
      BY DEF Purges, Purgeable
    <3>2. decided' = [q \in Requests |-> IF q \in S THEN "removed" ELSE decided[q]]
      BY <3>0
    <3>3. UNCHANGED result
      BY <2>5 DEF WorkerPurge
    <3> HIDE DEF S
    <3> QED BY <3>1, <3>2, <3>3, DecideMany
  <2>6. ASSUME NEW w \in Workers, Complete(w) \/ Fail(w)
        PROVE  Promise!Next \/ UNCHANGED <<decided, result>>
    BY <2>6, DecideOne DEF Complete, Fail, Settle
  <2>7. CASE DisableTenant \/ DeleteTenant
    <3> DEFINE S == { q \in Requests : row[q] = "pending" }
    <3>1. S \in SUBSET Requests /\ \A q \in S : decided[q] = "open"
      OBVIOUS
    <3>2. decided' = [q \in Requests |-> IF q \in S THEN "failed" ELSE decided[q]]
      BY <2>7 DEF DisableTenant, DeleteTenant
    <3>3. UNCHANGED result
      BY <2>7 DEF DisableTenant, DeleteTenant
    <3> HIDE DEF S
    <3> QED BY <3>1, <3>2, <3>3, DecideMany
  <2> QED BY <2>1, <2>2, <2>3, <2>4, <2>5, <2>6, <2>7, Bystanders
          DEF Next, ClientStep, WorkerStep
<1> QED BY <1>1, <1>2, TypeCorrect, DecisionStep, PTL
        DEF Spec, KeepsPromise, Promise!Spec
=============================================================================

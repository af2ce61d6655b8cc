---------------------------- MODULE InferenceProofs ----------------------------
(***************************************************************************)
(* The promises of infer-fill, for any number of jobs, entities, attempts  *)
(* and callers.                                                            *)
(***************************************************************************)
EXTENDS InferenceApi, ContentProofs

(* The inductive invariant. *)

ProposalFields == {"job", "entity", "schema", "field", "value", "status"}

(* The entities of a job with a pending proposal, and with a confirmed one. *)
PendingIn(P, j) == {p.entity : p \in {q \in P : q.job = j /\ q.status = "pending"}}
ConfirmedIn(P, j) == {p.entity : p \in {q \in P : q.job = j /\ q.status = "confirmed"}}

(* The entities a job has saved, and that each was saved once. *)
SavedIn(Q, j) == {Q[i].entity : i \in {k \in DOMAIN Q : Q[k].job = j}}
SavedOnce(Q, j) ==
    \A i, k \in DOMAIN Q : Q[i].job = j /\ Q[k].job = j /\ Q[i].entity = Q[k].entity => i = k

(* What was confirmed was saved, and then the job is over and has no proposal
   left to decide. *)
JobSaved(I, P, Q, j) ==
    /\ SavedIn(Q, j) = ConfirmedIn(P, j) /\ SavedOnce(Q, j)
    /\ SavedIn(Q, j) # {} => I[j].status = "completed" /\ PendingIn(P, j) = {}

SavedOK(I, P, Q) == \A j \in JobIds : JobSaved(I, P, Q, j)

(* The jobs' own rows: one at most is running, and it is the inferences
   that have left the initial status. *)
RowsHold(I, J) ==
    /\ I = [j \in JobIds |-> I[j]] /\ J = [j \in JobIds |-> J[j]]
    /\ \A j \in JobIds :
         /\ DOMAIN I[j] = {"status", "attempt"} /\ "kind" \in DOMAIN J[j]
         /\ I[j].status # "none" <=> J[j].kind = "infer"
    /\ \A i, j \in JobIds : I[i].status = "running" /\ I[j].status = "running" => i = j

ProposalOK(p) == DOMAIN p = ProposalFields /\ p.job \in JobIds /\ p.entity \in EntityIds

InferFields == {"op", "job", "attempt", "duplicate", "at", "schema", "batch"}

(* A delivery is of an inference and holds new proposals of its own job. *)
DeliveryOK(I, call) ==
    call.op = "infer" =>
        /\ DOMAIN call = InferFields /\ call.job \in JobIds /\ I[call.job].status # "none"
        /\ \A p \in call.batch : ProposalOK(p) /\ p.job = call.job /\ p.status = "pending"

ConfirmFields == {"op", "job", "of", "left", "held", "writes", "marks", "saved"}

Marks == {"confirmed", "stale", "invalid"}

(* A confirmation has the entities with pending proposals before it or has
   marked them, and has saved exactly those it marked as confirmed. *)
ConfirmOK(I, P, call) ==
    call.op = "confirm" =>
        /\ DOMAIN call = ConfirmFields
        /\ call.of \in JobIds /\ I[call.of].status = "completed" /\ PendingIn(P, call.of) # {}
        /\ call.left \cup DOMAIN call.marks = PendingIn(P, call.of) /\ call.left \cap DOMAIN call.marks = {}
        /\ \A e \in DOMAIN call.marks : call.marks[e] \in Marks
        /\ IsSequence(call.saved) /\ \A i \in DOMAIN call.saved : call.saved[i].job = call.of
        /\ SavedIn(call.saved, call.of) = {e \in DOMAIN call.marks : call.marks[e] = "confirmed"}
        /\ SavedOnce(call.saved, call.of)

(* The open calls: no two confirmations decide about one job. *)
CallsHold(I, P, C) ==
    /\ C = [c \in Callers |-> C[c]]
    /\ \A c \in Callers : DeliveryOK(I, C[c]) /\ ConfirmOK(I, P, C[c])
    /\ \A c, d \in Callers :
         C[c].op = "confirm" /\ C[d].op = "confirm" /\ C[c].of = C[d].of => c = d

InferenceInv ==
    /\ RowsHold(infer, jobs)
    /\ \A p \in proposals : ProposalOK(p)
    /\ DOMAIN entities = EntityIds
    /\ IsSequence(snapshots)
    /\ SavedOK(infer, proposals, snapshots)
    /\ CallsHold(infer, proposals, calls)

-----------------------------------------------------------------------------
(* What the parts of the invariant depend on. *)

(* What a step may do to the jobs' own rows: a job that is over stays over, and
   one that was asked for stays so. *)
Onward(I, I2) ==
    \A j \in JobIds :
        /\ I[j].status = "completed" => I2[j].status = "completed"
        /\ I[j].status # "none" => I2[j].status # "none"

(* Then what was saved and what the open calls hold is as before. *)
LEMMA OverStaysOver ==
    ASSUME NEW I, NEW I2, NEW P, NEW Q, NEW C, Onward(I, I2)
    PROVE  /\ SavedOK(I, P, Q) => SavedOK(I2, P, Q)
           /\ CallsHold(I, P, C) => CallsHold(I2, P, C)
<1>1. SavedOK(I, P, Q) => SavedOK(I2, P, Q)
  BY Zenon DEF SavedOK, JobSaved, Onward
<1>2. ASSUME NEW call, ConfirmOK(I, P, call) PROVE ConfirmOK(I2, P, call)
  BY Zenon, <1>2 DEF ConfirmOK, Onward
<1>3. ASSUME NEW call, DeliveryOK(I, call) PROVE DeliveryOK(I2, call)
  BY Zenon, <1>3 DEF DeliveryOK, Onward
<1> QED BY Zenon, <1>1, <1>2, <1>3 DEF CallsHold

(* A step of one call. *)
LEMMA OneCallMoves ==
    ASSUME NEW I, NEW P, NEW C, NEW C2, NEW c \in Callers, NEW call,
           CallsHold(I, P, C), C2 = [C EXCEPT ![c] = call],
           DeliveryOK(I, call), ConfirmOK(I, P, call),
           call.op = "confirm" => \A d \in Callers \ {c} : C[d].op = "confirm" => C[d].of # call.of
    PROVE  CallsHold(I, P, C2)
<1>1. /\ C = [d \in Callers |-> C[d]]
      /\ \A d \in Callers : DeliveryOK(I, C[d]) /\ ConfirmOK(I, P, C[d])
      /\ \A b, d \in Callers : C[b].op = "confirm" /\ C[d].op = "confirm" /\ C[b].of = C[d].of => b = d
  BY Zenon DEF CallsHold
<1>2. C2[c] = call /\ \A d \in Callers \ {c} : C2[d] = C[d]
  BY Zenon, <1>1
<1>3. C2 = [d \in Callers |-> C2[d]]
  BY <1>1
<1>4. ASSUME NEW d \in Callers PROVE DeliveryOK(I, C2[d]) /\ ConfirmOK(I, P, C2[d])
  BY Zenon, <1>1, <1>2
<1>5. ASSUME NEW b \in Callers, NEW d \in Callers, C2[b].op = "confirm", C2[d].op = "confirm", C2[b].of = C2[d].of
      PROVE  b = d
  BY Zenon, <1>1, <1>2, <1>5
<1> QED BY Zenon, <1>3, <1>4, <1>5 DEF CallsHold

(* A call that is over, and one of another kind. *)
LEMMA OtherCallsHold ==
    ASSUME NEW I, NEW P, NEW call, call.op \notin {"infer", "confirm"}
    PROVE  DeliveryOK(I, call) /\ ConfirmOK(I, P, call)
BY Zenon DEF DeliveryOK, ConfirmOK

LEMMA CallEnds ==
    ASSUME NEW I, NEW P, NEW C, NEW C2, NEW c \in Callers,
           CallsHold(I, P, C), C2 = [C EXCEPT ![c] = Idle]
    PROVE  CallsHold(I, P, C2)
<1>1. Idle.op = "idle"
  BY DEF Idle
<1>2. DeliveryOK(I, Idle) /\ ConfirmOK(I, P, Idle)
  BY Zenon, <1>1, OtherCallsHold
<1> QED BY Zenon, <1>1, <1>2, OneCallMoves

(* A step that leaves proposals and snapshots alone. *)
LEMMA Steady ==
    ASSUME InferenceInv, RowsHold(infer', jobs'), Onward(infer, infer'), UNCHANGED <<proposals, snapshots>>,
           DOMAIN entities' = EntityIds, CallsHold(infer, proposals, calls')
    PROVE  InferenceInv'
<1>1. /\ SavedOK(infer, proposals, snapshots) /\ IsSequence(snapshots)
      /\ \A p \in proposals : ProposalOK(p)
  BY Zenon DEF InferenceInv
<1>2. proposals' = proposals /\ snapshots' = snapshots
  BY Zenon
<1>3. SavedOK(infer', proposals, snapshots) /\ CallsHold(infer', proposals, calls')
  BY Zenon, <1>1, OverStaysOver
<1>4. /\ SavedOK(infer', proposals', snapshots') /\ CallsHold(infer', proposals', calls')
      /\ IsSequence(snapshots') /\ \A p \in proposals' : ProposalOK(p)
  BY <1>1, <1>2, <1>3
<1> QED BY Zenon, <1>4 DEF InferenceInv

LEMMA SameRows == ASSUME InferenceInv, infer' = infer, jobs' = jobs
                  PROVE  RowsHold(infer', jobs') /\ Onward(infer, infer')
<1>1. RowsHold(infer, jobs)
  BY Zenon DEF InferenceInv
<1>2. RowsHold(infer', jobs')
  BY <1>1
<1> QED BY Zenon, <1>2 DEF Onward

(* A step of one row that was asked for and is not over. *)
LEMMA RowMoves ==
    ASSUME InferenceInv, NEW j \in JobIds, NEW row, DOMAIN row = {"status", "attempt"},
           infer' = [infer EXCEPT ![j] = row], jobs' = jobs,
           infer[j].status # "none", infer[j].status # "completed", row.status # "none",
           row.status = "running" => \A i \in JobIds \ {j} : infer[i].status # "running"
    PROVE  RowsHold(infer', jobs') /\ Onward(infer, infer')
<1>1. RowsHold(infer, jobs)
  BY Zenon DEF InferenceInv
<1>2. /\ infer = [i \in JobIds |-> infer[i]] /\ jobs = [i \in JobIds |-> jobs[i]]
      /\ \A i \in JobIds :
           /\ DOMAIN infer[i] = {"status", "attempt"} /\ "kind" \in DOMAIN jobs[i]
           /\ infer[i].status # "none" <=> jobs[i].kind = "infer"
      /\ \A i, k \in JobIds : infer[i].status = "running" /\ infer[k].status = "running" => i = k
  BY Zenon, <1>1 DEF RowsHold
<1>3. infer'[j] = row /\ \A i \in JobIds \ {j} : infer'[i] = infer[i]
  BY Zenon, <1>2
<1>4. infer' = [i \in JobIds |-> infer'[i]]
  BY <1>2
<1>5. ASSUME NEW i \in JobIds
      PROVE  /\ DOMAIN infer'[i] = {"status", "attempt"} /\ "kind" \in DOMAIN jobs'[i]
             /\ infer'[i].status # "none" <=> jobs'[i].kind = "infer"
  BY <1>2, <1>3
<1>6. ASSUME NEW i \in JobIds, NEW k \in JobIds, infer'[i].status = "running", infer'[k].status = "running"
      PROVE  i = k
  BY Zenon, <1>2, <1>3, <1>6
<1>7. jobs' = [i \in JobIds |-> jobs'[i]]
  BY <1>2
<1>8. RowsHold(infer', jobs')
  BY Zenon, <1>4, <1>5, <1>6, <1>7 DEF RowsHold
<1>9. Onward(infer, infer')
  BY Zenon, <1>3 DEF Onward
<1> QED BY Zenon, <1>8, <1>9

-----------------------------------------------------------------------------
(* Deliveries. *)

(* What a delivery knows of its job. *)
LEMMA OfDelivery ==
    ASSUME InferenceInv, NEW c \in Callers, calls[c].op = "infer"
    PROVE  /\ DeliveryOK(infer, calls[c]) /\ DOMAIN calls[c] = InferFields
           /\ calls[c].job \in JobIds /\ infer[calls[c].job].status # "none"
           /\ CallsHold(infer, proposals, calls) /\ calls = [d \in Callers |-> calls[d]]
<1>1. DeliveryOK(infer, calls[c]) /\ CallsHold(infer, proposals, calls) /\ calls = [d \in Callers |-> calls[d]]
  BY Zenon DEF InferenceInv, CallsHold
<1> QED BY Zenon, <1>1 DEF DeliveryOK

(* A delivery whose next call has the same job and the same or no proposals. *)
LEMMA DeliveryMoves ==
    ASSUME InferenceInv, NEW c \in Callers, calls[c].op = "infer", NEW call,
           call.op = "infer", DeliveryOK(infer, call), calls' = [calls EXCEPT ![c] = call]
    PROVE  CallsHold(infer, proposals, calls')
<1>1. CallsHold(infer, proposals, calls)
  BY Zenon DEF InferenceInv
<1>2. ConfirmOK(infer, proposals, call)
  BY Zenon DEF ConfirmOK
<1> QED BY Zenon, <1>1, <1>2, OneCallMoves

LEMMA DeliveryGoesTo ==
    ASSUME InferenceInv, NEW c \in Callers, calls[c].op = "infer", NEW place, Moves(c, place)
    PROVE  CallsHold(infer, proposals, calls')
<1> DEFINE call == [calls[c] EXCEPT !.at = place]
<1>1. calls' = [calls EXCEPT ![c] = call]
  BY DEF Moves
<1>2. DeliveryOK(infer, calls[c])
  BY Zenon, OfDelivery
<1>3. call.op = "infer" /\ DeliveryOK(infer, call)
  BY <1>2 DEF DeliveryOK, InferFields
<1> HIDE DEF call
<1> QED BY Zenon, <1>1, <1>3, DeliveryMoves

LEMMA DeliveryEnds ==
    ASSUME InferenceInv, NEW c \in Callers, Ends(c)
    PROVE  CallsHold(infer, proposals, calls')
<1>1. CallsHold(infer, proposals, calls) /\ calls' = [calls EXCEPT ![c] = Idle]
  BY Zenon DEF InferenceInv, Ends
<1> QED BY Zenon, <1>1, CallEnds

LEMMA StartInferKeeps ==
    ASSUME InferenceInv, NEW c \in Callers, NEW j \in JobIds, StartInfer(c, j)
    PROVE  InferenceInv'
<1>1. /\ calls[c] = Idle /\ jobs[j].kind = "infer" /\ UNCHANGED <<content, queue, locks, infer, proposals, llm>>
      /\ \E attempt, duplicate : calls' = [calls EXCEPT ![c] = InferRun(j, attempt, duplicate)]
  BY Zenon DEF StartInfer
<1>2. PICK attempt, duplicate : calls' = [calls EXCEPT ![c] = InferRun(j, attempt, duplicate)]
  BY Zenon, <1>1
<1>3. /\ infer' = infer /\ jobs' = jobs /\ proposals' = proposals /\ snapshots' = snapshots /\ entities' = entities
  BY Zenon, <1>1 DEF content, queue
<1>4. infer[j].status # "none" /\ CallsHold(infer, proposals, calls) /\ DOMAIN entities = EntityIds
  BY Zenon, <1>1 DEF InferenceInv, RowsHold
<1>5. PICK call : call = InferRun(j, attempt, duplicate)
  OBVIOUS
<1>6. call.op = "infer" /\ DeliveryOK(infer, call)
  BY <1>4, <1>5 DEF InferRun, DeliveryOK, InferFields
<1>7. ConfirmOK(infer, proposals, call)
  BY Zenon, <1>6 DEF ConfirmOK
<1>8. CallsHold(infer, proposals, calls')
  BY Zenon, <1>2, <1>4, <1>5, <1>6, <1>7, OneCallMoves
<1>9. RowsHold(infer', jobs') /\ Onward(infer, infer')
  BY Zenon, <1>3, SameRows
<1> QED BY SMTT(20), <1>3, <1>4, <1>8, <1>9, Steady

(* The attempt takes the row over, and is then the only one that runs. *)
LEMMA ReconcileKeeps ==
    ASSUME InferenceInv, NEW c \in Callers, reconcile_attempt(c)
    PROVE  InferenceInv'
<1> DEFINE j == calls[c].job
           attempt == calls[c].attempt
<1>1. /\ calls[c].op = "infer" /\ UNCHANGED <<content, queue, locks, proposals, llm>>
      /\ \/ Ends(c) /\ UNCHANGED infer
         \/ /\ reconcilable(infer[j], attempt) /\ ~WorkspaceBusy(j)
            /\ infer' = [infer EXCEPT ![j] = [status |-> "running", attempt |-> attempt]]
            /\ Moves(c, "claimed")
  BY Zenon DEF reconcile_attempt, At
<1>2. jobs' = jobs /\ proposals' = proposals /\ snapshots' = snapshots /\ entities' = entities
  BY Zenon, <1>1 DEF content, queue
<1>3. DOMAIN entities = EntityIds /\ j \in JobIds /\ infer[j].status # "none"
  BY Zenon, <1>1, OfDelivery DEF InferenceInv
<1>4. CASE Ends(c) /\ UNCHANGED infer
  <2>1. CallsHold(infer, proposals, calls')
    BY Zenon, <1>4, DeliveryEnds
  <2>2. RowsHold(infer', jobs') /\ Onward(infer, infer')
    BY Zenon, <1>2, <1>4, SameRows
  <2> QED BY <1>2, <1>3, <2>1, <2>2, Steady
<1>5. CASE /\ reconcilable(infer[j], attempt) /\ ~WorkspaceBusy(j)
           /\ infer' = [infer EXCEPT ![j] = [status |-> "running", attempt |-> attempt]]
           /\ Moves(c, "claimed")
  <2>1. CallsHold(infer, proposals, calls')
    BY Zenon, <1>1, <1>5, DeliveryGoesTo
  <2>2. PICK row : row = [status |-> "running", attempt |-> attempt]
    OBVIOUS
  <2>3. DOMAIN row = {"status", "attempt"} /\ row.status = "running"
    BY <2>2
  <2>4. infer[j].status # "completed"
    BY Zenon, <1>5 DEF reconcilable
  <2>5. \A i \in JobIds \ {j} : infer[i].status # "running"
    BY Zenon, <1>5 DEF WorkspaceBusy
  <2>6. infer' = [infer EXCEPT ![j] = row]
    BY Zenon, <1>5, <2>2
  <2> HIDE DEF j
  <2>7. RowsHold(infer', jobs') /\ Onward(infer, infer')
    BY <1>2, <1>3, <2>3, <2>4, <2>5, <2>6, RowMoves
  <2> QED BY <1>2, <1>3, <2>1, <2>7, Steady
<1> QED BY Zenon, <1>1, <1>4, <1>5

(* A step of a delivery that only moves it on, ends it or moves its lifecycle. *)
LEMMA DeliveryPasses ==
    ASSUME InferenceInv, UNCHANGED <<infer, jobs, proposals, snapshots, entities>>,
           CallsHold(infer, proposals, calls')
    PROVE  InferenceInv'
<1>1. infer' = infer /\ jobs' = jobs /\ proposals' = proposals /\ snapshots' = snapshots /\ entities' = entities
  BY Zenon
<1>2. RowsHold(infer', jobs') /\ Onward(infer, infer')
  BY Zenon, <1>1, SameRows
<1>3. DOMAIN entities' = EntityIds
  BY <1>1 DEF InferenceInv
<1> QED BY Zenon, <1>1, <1>2, <1>3, Steady

LEMMA RereadKeeps ==
    ASSUME InferenceInv, NEW c \in Callers, RereadAttempt(c)
    PROVE  InferenceInv'
<1> DEFINE call == [calls[c] EXCEPT !.at = "ask", !.attempt = infer[calls[c].job].attempt]
<1>1. calls[c].op = "infer" /\ UNCHANGED <<infer, jobs, proposals, snapshots, entities>>
  BY Zenon DEF RereadAttempt, At, content, queue, inference
<1>2. calls' = [calls EXCEPT ![c] = call]
  BY DEF RereadAttempt
<1>3. DeliveryOK(infer, calls[c])
  BY Zenon, <1>1, OfDelivery
<1>4. call.op = "infer" /\ DeliveryOK(infer, call)
  BY <1>1, <1>3 DEF DeliveryOK, InferFields
<1> HIDE DEF call
<1>5. CallsHold(infer, proposals, calls')
  BY Zenon, <1>1, <1>2, <1>4, DeliveryMoves
<1> QED BY Zenon, <1>1, <1>5, DeliveryPasses

(* What a run records of the answers, and where it goes with them. *)
Answered(j, s, answered, guess) == {Proposal(j, q[1], s, q[2], guess[q]) : q \in answered}
PlaceAfter(answered) == IF answered = {} THEN "complete" ELSE "record"

(* The answers become proposals of the job about entities it asked about. *)
LEMMA AskModelKeeps ==
    ASSUME InferenceInv, NEW c \in Callers, AskModel(c)
    PROVE  InferenceInv'
<1> DEFINE j == calls[c].job
<1>1. calls[c].op = "infer" /\ UNCHANGED <<infer, jobs, proposals, snapshots, entities>>
  BY Zenon DEF AskModel, At, content, queue, inference
<1>2. PICK s : \E answered \in SUBSET Questions(jobs[j].name, s) : \E guess \in [answered -> Guesses] :
                   calls' = [calls EXCEPT ![c].at = PlaceAfter(answered), ![c].schema = s,
                               ![c].batch = Answered(j, s, answered, guess)]
  BY Zenon DEF AskModel, Answered, PlaceAfter
<1>3. PICK answered \in SUBSET Questions(jobs[j].name, s) : \E guess \in [answered -> Guesses] :
                   calls' = [calls EXCEPT ![c].at = PlaceAfter(answered), ![c].schema = s,
                               ![c].batch = Answered(j, s, answered, guess)]
  BY Zenon, <1>2
<1>4. PICK guess \in [answered -> Guesses] :
                   calls' = [calls EXCEPT ![c].at = PlaceAfter(answered), ![c].schema = s,
                               ![c].batch = Answered(j, s, answered, guess)]
  BY Zenon, <1>3
<1> DEFINE batch == Answered(j, s, answered, guess)
           place == PlaceAfter(answered)
<1> HIDE DEF batch, place
<1> DEFINE call == [calls[c] EXCEPT !.at = place, !.schema = s, !.batch = batch]
<1>5. calls' = [calls EXCEPT ![c] = call]
  BY <1>4 DEF batch, place
<1>6. DeliveryOK(infer, calls[c]) /\ j \in JobIds /\ DOMAIN entities = EntityIds
  BY Zenon, <1>1, OfDelivery DEF InferenceInv
<1>7. ASSUME NEW p \in batch PROVE ProposalOK(p) /\ p.job = j /\ p.status = "pending"
  <2>1. PICK q \in answered : p = Proposal(j, q[1], s, q[2], guess[q])
    BY Zenon DEF batch, Answered
  <2>2. PICK e \in Behind(jobs[j].name) : q \in {e} \X Asked(s, e)
    BY Zenon, <2>1 DEF Questions
  <2>3. q[1] = e
    BY <2>2
  <2>4. e \in EntityIds
    BY Zenon, <1>6, <2>2 DEF Behind, Live, LiveIn
  <2> HIDE DEF j
  <2> QED BY <1>6, <2>1, <2>3, <2>4 DEF Proposal, ProposalOK, ProposalFields
<1>8. call.op = "infer" /\ DeliveryOK(infer, call)
  <2>1. /\ DOMAIN calls[c] = InferFields /\ infer[j].status # "none"
    BY Zenon, <1>1, <1>6 DEF DeliveryOK
  <2>2. call.op = "infer" /\ DOMAIN call = InferFields /\ call.job = j /\ call.batch = batch
    BY <1>1, <2>1 DEF InferFields
  <2> HIDE DEF call
  <2> QED BY Zenon, <1>6, <1>7, <2>1, <2>2 DEF DeliveryOK
<1> HIDE DEF call
<1>9. CallsHold(infer, proposals, calls')
  BY Zenon, <1>1, <1>5, <1>8, DeliveryMoves
<1> QED BY Zenon, <1>1, <1>9, DeliveryPasses

LEMMA AskFailsKeeps ==
    ASSUME InferenceInv, NEW c \in Callers, AskFails(c)
    PROVE  InferenceInv'
<1>1. /\ calls[c].op = "infer" /\ UNCHANGED <<infer, jobs, proposals, snapshots, entities>>
      /\ Moves(c, "error")
  BY Zenon DEF AskFails, At, content, queue, inference
<1>2. CallsHold(infer, proposals, calls')
  BY Zenon, <1>1, DeliveryGoesTo
<1> QED BY Zenon, <1>1, <1>2, DeliveryPasses

LEMMA DeliveryEndKeeps ==
    ASSUME InferenceInv, NEW c \in Callers, FinishInfer(c) \/ FinishFailed(c) \/ InferDies(c)
    PROVE  InferenceInv'
<1>1. /\ UNCHANGED <<infer, jobs, proposals, snapshots, entities>> /\ Ends(c)
  BY Zenon DEF FinishInfer, FinishFailed, InferDies, content, queue, inference
<1>2. CallsHold(infer, proposals, calls')
  BY Zenon, <1>1, DeliveryEnds
<1> QED BY Zenon, <1>1, <1>2, DeliveryPasses

(* An owner completes, fails or gives back the row of its job. *)
LEMMA OwnRowMoves ==
    ASSUME InferenceInv, NEW j \in JobIds, infer[j].status = "running",
           NEW status, status \in {"completed", "failed", "queued"},
           infer' = [infer EXCEPT ![j].status = status], jobs' = jobs
    PROVE  RowsHold(infer', jobs') /\ Onward(infer, infer')
<1> DEFINE row == [infer[j] EXCEPT !.status = status]
<1>1. infer' = [infer EXCEPT ![j] = row]
  OBVIOUS
<1>2. DOMAIN infer[j] = {"status", "attempt"}
  BY Zenon DEF InferenceInv, RowsHold
<1>3. DOMAIN row = {"status", "attempt"} /\ row.status = status
  BY <1>2
<1>4. row.status # "none" /\ row.status # "running"
  BY <1>3
<1> HIDE DEF row
<1> QED BY <1>1, <1>3, <1>4, RowMoves

LEMMA CompleteKeeps ==
    ASSUME InferenceInv, NEW c \in Callers, complete_proposals_attempt(c)
    PROVE  InferenceInv'
<1> DEFINE j == calls[c].job
<1>1. /\ calls[c].op = "infer" /\ UNCHANGED <<jobs, proposals, snapshots, entities>>
      /\ \/ /\ infer[j].status = "running" /\ infer' = [infer EXCEPT ![j].status = "completed"]
            /\ Moves(c, "finish")
         \/ Ends(c) /\ UNCHANGED infer
  BY Zenon DEF complete_proposals_attempt, At, Owns, content, queue
<1>2. CallsHold(infer, proposals, calls')
  BY Zenon, <1>1, DeliveryEnds, DeliveryGoesTo
<1>3. j \in JobIds /\ DOMAIN entities = EntityIds /\ DOMAIN entities' = EntityIds
  BY Zenon, <1>1, OfDelivery DEF InferenceInv
<1>4. RowsHold(infer', jobs') /\ Onward(infer, infer')
  <2> HIDE DEF j
  <2>1. CASE UNCHANGED infer
    BY Zenon, <1>1, <2>1, SameRows
  <2>2. CASE infer[j].status = "running" /\ infer' = [infer EXCEPT ![j].status = "completed"]
    BY <1>1, <1>3, <2>2, OwnRowMoves
  <2> QED BY Zenon, <1>1, <2>1, <2>2
<1> QED BY Zenon, <1>1, <1>2, <1>3, <1>4, Steady

LEMMA InferErrorKeeps ==
    ASSUME InferenceInv, NEW c \in Callers, InferError(c)
    PROVE  InferenceInv'
<1> DEFINE j == calls[c].job
<1>1. /\ calls[c].op = "infer" /\ UNCHANGED <<jobs, proposals, snapshots, entities>>
      /\ \/ /\ infer[j].status = "running"
            /\ \/ infer' = [infer EXCEPT ![j].status = "failed"]
               \/ infer' = [infer EXCEPT ![j].status = "queued"]
         \/ UNCHANGED infer
      /\ Ends(c) \/ Moves(c, "finish_failed")
  BY Zenon DEF InferError, At, Owns, content, queue
<1>2. CallsHold(infer, proposals, calls')
  BY Zenon, <1>1, DeliveryEnds, DeliveryGoesTo
<1>3. j \in JobIds /\ DOMAIN entities = EntityIds /\ DOMAIN entities' = EntityIds
  BY Zenon, <1>1, OfDelivery DEF InferenceInv
<1>4. RowsHold(infer', jobs') /\ Onward(infer, infer')
  <2> HIDE DEF j
  <2>1. CASE UNCHANGED infer
    BY Zenon, <1>1, <2>1, SameRows
  <2>2. CASE infer[j].status = "running" /\ infer' = [infer EXCEPT ![j].status = "failed"]
    BY <1>1, <1>3, <2>2, OwnRowMoves
  <2>3. CASE infer[j].status = "running" /\ infer' = [infer EXCEPT ![j].status = "queued"]
    BY <1>1, <1>3, <2>3, OwnRowMoves
  <2> QED BY Zenon, <1>1, <2>1, <2>2, <2>3
<1> QED BY Zenon, <1>1, <1>2, <1>3, <1>4, Steady

(* New pending proposals of a job that runs: the decided and the confirmed jobs
   are others. *)
LEMMA RecordedHold ==
    ASSUME InferenceInv, NEW j \in JobIds, infer[j].status = "running", NEW new,
           \A p \in new : ProposalOK(p) /\ p.job = j /\ p.status = "pending",
           NEW C, CallsHold(infer, proposals, C)
    PROVE  /\ SavedOK(infer, proposals \cup new, snapshots)
           /\ CallsHold(infer, proposals \cup new, C)
<1> DEFINE P == proposals \cup new
<1>1. ASSUME NEW k \in JobIds PROVE ConfirmedIn(P, k) = ConfirmedIn(proposals, k)
  <2>1. {q \in P : q.job = k /\ q.status = "confirmed"} = {q \in proposals : q.job = k /\ q.status = "confirmed"}
    BY "confirmed" # "pending"
  <2> QED BY Zenon, <2>1 DEF ConfirmedIn
<1>2. ASSUME NEW k \in JobIds, k # j PROVE PendingIn(P, k) = PendingIn(proposals, k)
  <2>1. {q \in P : q.job = k /\ q.status = "pending"} = {q \in proposals : q.job = k /\ q.status = "pending"}
    BY <1>2
  <2> QED BY Zenon, <2>1 DEF PendingIn
<1>3. infer[j].status # "completed" /\ SavedOK(infer, proposals, snapshots)
  BY Zenon DEF InferenceInv
<1> HIDE DEF P
<1>4. ASSUME NEW k \in JobIds PROVE JobSaved(infer, P, snapshots, k)
  <2>1. JobSaved(infer, proposals, snapshots, k)
    BY Zenon, <1>3 DEF SavedOK
  <2>2. CASE k = j
    BY Zenon, <1>1, <1>3, <2>1, <2>2 DEF JobSaved
  <2>3. CASE k # j
    BY Zenon, <1>1, <1>2, <2>1, <2>3 DEF JobSaved
  <2> QED BY Zenon, <2>2, <2>3
<1>5. ASSUME NEW call, ConfirmOK(infer, proposals, call) PROVE ConfirmOK(infer, P, call)
  <2>1. CASE call.op # "confirm"
    BY Zenon, <2>1 DEF ConfirmOK
  <2>2. CASE call.op = "confirm"
    <3>1. call.of \in JobIds /\ call.of # j
      BY Zenon, <1>3, <1>5, <2>2 DEF ConfirmOK
    <3>2. PendingIn(P, call.of) = PendingIn(proposals, call.of)
      BY Zenon, <1>2, <3>1
    <3> QED BY Zenon, <1>5, <3>2 DEF ConfirmOK
  <2> QED BY Zenon, <2>1, <2>2
<1>6. CallsHold(infer, P, C)
  BY Zenon, <1>5 DEF CallsHold
<1> QED BY Zenon, <1>4, <1>6 DEF SavedOK, P

LEMMA RecordKeeps ==
    ASSUME InferenceInv, NEW c \in Callers, RecordProposals(c)
    PROVE  InferenceInv'
<1> DEFINE j == calls[c].job
           batch == calls[c].batch
<1>1. /\ calls[c].op = "infer" /\ UNCHANGED <<infer, jobs, snapshots, entities>>
      /\ \/ Moves(c, "error") /\ UNCHANGED proposals
         \/ /\ infer[j].status = "running"
            /\ \E out \in InsertOutcomes(batch) :
                 /\ proposals' = proposals \cup out.new
                 /\ Moves(c, IF out.ok THEN "complete" ELSE "error")
  BY Zenon DEF RecordProposals, At, Fenced, Owns, content, queue
<1>2. j \in JobIds /\ DeliveryOK(infer, calls[c])
  BY Zenon, <1>1, OfDelivery
<1>3. CASE Moves(c, "error") /\ UNCHANGED proposals
  BY Zenon, <1>1, <1>3, DeliveryGoesTo, DeliveryPasses
<1>4. CASE /\ infer[j].status = "running"
           /\ \E out \in InsertOutcomes(batch) :
                 /\ proposals' = proposals \cup out.new
                 /\ Moves(c, IF out.ok THEN "complete" ELSE "error")
  <2>1. PICK out \in InsertOutcomes(batch) :
                 /\ proposals' = proposals \cup out.new
                 /\ Moves(c, IF out.ok THEN "complete" ELSE "error")
    BY Zenon, <1>4
  <2>2. out.new \subseteq batch
    <3>1. \/ out = [ok |-> TRUE, new |-> batch \ Recorded(batch)]
          \/ out = [ok |-> FALSE, new |-> {}] \/ out = [ok |-> TRUE, new |-> {}]
      BY Zenon DEF InsertOutcomes
    <3> QED BY <3>1
  <2>3. \A p \in out.new : ProposalOK(p) /\ p.job = j /\ p.status = "pending"
    BY Zenon, <1>1, <1>2, <2>2 DEF DeliveryOK
  <2>4. CallsHold(infer, proposals, calls')
    BY Zenon, <1>1, <2>1, DeliveryGoesTo
  <2> HIDE DEF j
  <2>5. /\ SavedOK(infer, proposals \cup out.new, snapshots)
        /\ CallsHold(infer, proposals \cup out.new, calls')
    BY Zenon, <1>2, <1>4, <2>3, <2>4, RecordedHold
  <2>6. /\ \A p \in proposals : ProposalOK(p)
        /\ RowsHold(infer, jobs) /\ DOMAIN entities = EntityIds /\ IsSequence(snapshots)
    BY Zenon DEF InferenceInv
  <2>7. \A p \in proposals \cup out.new : ProposalOK(p)
    BY Zenon, <2>3, <2>6
  <2>8. infer' = infer /\ jobs' = jobs /\ entities' = entities /\ snapshots' = snapshots
    BY Zenon, <1>1
  <2> QED BY <2>1, <2>5, <2>6, <2>7, <2>8 DEF InferenceInv
<1> QED BY Zenon, <1>1, <1>3, <1>4

-----------------------------------------------------------------------------
(* Decisions. *)

(* Proposals of one job are marked as given: no pending one is left, and the
   confirmed ones are those it had and those marked so. *)
Marked(P, j, mark) == {IF p.job = j /\ p.status = "pending" THEN [p EXCEPT !.status = mark[p.entity]] ELSE p : p \in P}

LEMMA MarkedHold ==
    ASSUME NEW P, NEW j, NEW mark, \A p \in P : ProposalOK(p),
           \A e \in PendingIn(P, j) : mark[e] # "pending"
    PROVE  /\ \A p \in Marked(P, j, mark) : ProposalOK(p)
           /\ PendingIn(Marked(P, j, mark), j) = {}
           /\ ConfirmedIn(Marked(P, j, mark), j)
                = ConfirmedIn(P, j) \cup {e \in PendingIn(P, j) : mark[e] = "confirmed"}
           /\ \A k : k # j => /\ PendingIn(Marked(P, j, mark), k) = PendingIn(P, k)
                              /\ ConfirmedIn(Marked(P, j, mark), k) = ConfirmedIn(P, k)
<1> DEFINE New(p) == IF p.job = j /\ p.status = "pending" THEN [p EXCEPT !.status = mark[p.entity]] ELSE p
           M == Marked(P, j, mark)
<1>1. M = {New(p) : p \in P}
  BY Zenon DEF Marked
<1>2. ASSUME NEW p \in P
      PROVE  /\ ProposalOK(New(p)) /\ New(p).job = p.job /\ New(p).entity = p.entity
             /\ p.job = j /\ p.status = "pending" => New(p).status = mark[p.entity]
             /\ ~(p.job = j /\ p.status = "pending") => New(p) = p
  BY DEF ProposalOK, ProposalFields
<1>3. \A p \in P : p.job = j /\ p.status = "pending" => p.entity \in PendingIn(P, j)
  BY Zenon DEF PendingIn
<1> HIDE DEF New, M
<1>4. \A p \in M : ProposalOK(p)
  BY Zenon, <1>1, <1>2
<1>5. PendingIn(M, j) = {}
  <2>1. ASSUME NEW m \in M, m.job = j PROVE m.status # "pending"
    <3>1. PICK p \in P : m = New(p)
      BY Zenon, <1>1
    <3> QED BY Zenon, <1>2, <1>3, <2>1, <3>1
  <2> QED BY Zenon, <2>1 DEF PendingIn
<1>6. ConfirmedIn(M, j) \subseteq ConfirmedIn(P, j) \cup {e \in PendingIn(P, j) : mark[e] = "confirmed"}
  <2> SUFFICES ASSUME NEW m \in M, m.job = j, m.status = "confirmed"
               PROVE  m.entity \in ConfirmedIn(P, j) \/ (m.entity \in PendingIn(P, j) /\ mark[m.entity] = "confirmed")
    BY Zenon DEF ConfirmedIn
  <2>1. PICK p \in P : m = New(p)
    BY Zenon, <1>1
  <2> QED BY Zenon, <1>2, <1>3, <2>1 DEF ConfirmedIn
<1>7. ConfirmedIn(P, j) \cup {e \in PendingIn(P, j) : mark[e] = "confirmed"} \subseteq ConfirmedIn(M, j)
  <2>1. ASSUME NEW p \in P, p.job = j, p.status = "confirmed" PROVE p.entity \in ConfirmedIn(M, j)
    <3>1. New(p) = p /\ New(p) \in M
      BY Zenon, <1>1, <1>2, <2>1, "confirmed" # "pending"
    <3> QED BY Zenon, <2>1, <3>1 DEF ConfirmedIn
  <2>2. ASSUME NEW p \in P, p.job = j, p.status = "pending", mark[p.entity] = "confirmed"
        PROVE  p.entity \in ConfirmedIn(M, j)
    <3>1. New(p).job = j /\ New(p).status = "confirmed" /\ New(p).entity = p.entity /\ New(p) \in M
      BY Zenon, <1>1, <1>2, <2>2
    <3> QED BY Zenon, <3>1 DEF ConfirmedIn
  <2> QED BY Zenon, <2>1, <2>2 DEF ConfirmedIn, PendingIn
<1>8. ASSUME NEW k, k # j, NEW q PROVE q \in M /\ q.job = k <=> q \in P /\ q.job = k
  <2>1. ASSUME q \in M, q.job = k PROVE q \in P
    <3>1. PICK p \in P : q = New(p)
      BY Zenon, <1>1, <2>1
    <3>2. p.job # j
      BY Zenon, <1>2, <1>8, <2>1, <3>1
    <3> QED BY Zenon, <1>2, <3>1, <3>2
  <2>2. ASSUME q \in P, q.job = k PROVE q \in M
    <3>1. New(q) = q
      BY Zenon, <1>2, <1>8, <2>2
    <3> QED BY Zenon, <1>1, <2>2, <3>1
  <2> QED BY Zenon, <2>1, <2>2
<1>9. ASSUME NEW k, k # j PROVE PendingIn(M, k) = PendingIn(P, k) /\ ConfirmedIn(M, k) = ConfirmedIn(P, k)
  <2>1. \A t : {q \in M : q.job = k /\ q.status = t} = {q \in P : q.job = k /\ q.status = t}
    <3>1. \A q : q \in M /\ q.job = k <=> q \in P /\ q.job = k
      BY <1>8, <1>9
    <3> QED BY <3>1
  <2> QED BY Zenon, <2>1 DEF PendingIn, ConfirmedIn
<1> QED BY Zenon, <1>4, <1>5, <1>6, <1>7, <1>9 DEF M

(* No call but c's, if any, confirms the job; its pending proposals are marked,
   and those marked as confirmed were saved. *)
LEMMA MarkedKeeps ==
    ASSUME InferenceInv, NEW j \in JobIds, NEW mark, NEW Q, IsSequence(Q), NEW C,
           infer[j].status = "completed",
           \A e \in PendingIn(proposals, j) : mark[e] # "pending",
           \A k \in JobIds \ {j} : SavedIn(Q, k) = SavedIn(snapshots, k) /\ (SavedOnce(snapshots, k) => SavedOnce(Q, k)),
           SavedIn(Q, j) = SavedIn(snapshots, j) \cup {e \in PendingIn(proposals, j) : mark[e] = "confirmed"},
           SavedOnce(Q, j),
           CallsHold(infer, proposals, C),
           \A c \in Callers : C[c].op = "confirm" => C[c].of # j,
           infer' = infer, jobs' = jobs, DOMAIN entities' = EntityIds, calls' = C, snapshots' = Q,
           proposals' = Marked(proposals, j, mark)
    PROVE  InferenceInv'
<1>1. PICK P : P = Marked(proposals, j, mark)
  OBVIOUS
<1>2. /\ \A p \in proposals : ProposalOK(p)
      /\ RowsHold(infer, jobs) /\ SavedOK(infer, proposals, snapshots)
  BY Zenon DEF InferenceInv
<1>3. /\ \A p \in P : ProposalOK(p)
      /\ PendingIn(P, j) = {}
      /\ ConfirmedIn(P, j) = ConfirmedIn(proposals, j) \cup {e \in PendingIn(proposals, j) : mark[e] = "confirmed"}
      /\ \A k : k # j => /\ PendingIn(P, k) = PendingIn(proposals, k)
                         /\ ConfirmedIn(P, k) = ConfirmedIn(proposals, k)
  BY <1>1, <1>2, MarkedHold
<1>4. ASSUME NEW k \in JobIds PROVE JobSaved(infer, P, Q, k)
  <2>1. JobSaved(infer, proposals, snapshots, k)
    BY Zenon, <1>2 DEF SavedOK
  <2>2. CASE k = j
    <3>1. SavedIn(snapshots, j) = ConfirmedIn(proposals, j)
      BY Zenon, <2>1, <2>2 DEF JobSaved
    <3>2. SavedIn(Q, j) = ConfirmedIn(P, j)
      BY <1>3, <3>1
    <3> QED BY Zenon, <1>3, <2>2, <3>2 DEF JobSaved
  <2>3. CASE k # j
    BY Zenon, <1>3, <2>1, <2>3 DEF JobSaved
  <2> QED BY Zenon, <2>2, <2>3
<1>5. SavedOK(infer, P, Q)
  BY Zenon, <1>4 DEF SavedOK
<1>6. ASSUME NEW c \in Callers PROVE ConfirmOK(infer, P, C[c])
  <2>1. ConfirmOK(infer, proposals, C[c])
    BY Zenon DEF CallsHold
  <2>2. CASE C[c].op # "confirm"
    BY Zenon, <2>2 DEF ConfirmOK
  <2>3. CASE C[c].op = "confirm"
    <3>1. PendingIn(P, C[c].of) = PendingIn(proposals, C[c].of)
      BY Zenon, <1>3, <2>3
    <3> QED BY Zenon, <2>1, <3>1 DEF ConfirmOK
  <2> QED BY Zenon, <2>2, <2>3
<1>7. CallsHold(infer, P, C)
  BY Zenon, <1>6 DEF CallsHold
<1>8. proposals' = P
  BY <1>1
<1> QED BY SMTT(20), <1>2, <1>3, <1>5, <1>7, <1>8 DEF InferenceInv

LEMMA DecideKeeps ==
    ASSUME InferenceInv, NEW j \in JobIds, NEW status, status \in {"rejected", "discarded"}, Decide(j, status)
    PROVE  InferenceInv'
<1>1. /\ ~\E c \in Callers : calls[c].op = "confirm" /\ calls[c].of = j
      /\ infer[j].status = "completed"
      /\ proposals' = transition_pending(proposals, j, status)
      /\ infer' = infer /\ jobs' = jobs /\ entities' = entities /\ calls' = calls /\ snapshots' = snapshots
  BY Zenon DEF Decide, lock_job_for_action, require_completed_job, store, content, queue
<1>2. PICK mark : mark = [e \in PendingIn(proposals, j) |-> status]
  OBVIOUS
<1>3. \A e \in PendingIn(proposals, j) : mark[e] = status
  BY Zenon, <1>2
<1>4. status # "pending" /\ status # "confirmed"
  OBVIOUS
<1>5. transition_pending(proposals, j, status) = Marked(proposals, j, mark)
  <2>1. ASSUME NEW p \in proposals
        PROVE  (IF p.job = j /\ p.status = "pending" THEN [p EXCEPT !.status = status] ELSE p)
               = IF p.job = j /\ p.status = "pending" THEN [p EXCEPT !.status = mark[p.entity]] ELSE p
    <3>1. p.job = j /\ p.status = "pending" => mark[p.entity] = status
      BY Zenon, <1>3 DEF PendingIn
    <3> QED BY Zenon, <3>1
  <2> QED BY <2>1 DEF transition_pending, Marked
<1>6. {e \in PendingIn(proposals, j) : mark[e] = "confirmed"} = {}
  BY Zenon, <1>3, <1>4
<1>7. /\ IsSequence(snapshots) /\ CallsHold(infer, proposals, calls) /\ SavedOnce(snapshots, j)
      /\ DOMAIN entities' = EntityIds
  BY <1>1 DEF InferenceInv, SavedOK, JobSaved
<1>8. SavedIn(snapshots, j) = SavedIn(snapshots, j) \cup {e \in PendingIn(proposals, j) : mark[e] = "confirmed"}
  BY Zenon, <1>6
<1>9. proposals' = Marked(proposals, j, mark)
  BY <1>1, <1>5
<1>10. \A e \in PendingIn(proposals, j) : mark[e] # "pending"
  BY Zenon, <1>3, <1>4
<1> QED BY SMTT(20), <1>1, <1>7, <1>8, <1>9, <1>10, MarkedKeeps

-----------------------------------------------------------------------------
(* Confirmation. *)

(* Snapshots joined to others. *)
LEMMA JoinedSaves ==
    ASSUME NEW Q, NEW R, IsSequence(Q), IsSequence(R), NEW j
    PROVE  /\ SavedIn(Q \o R, j) = SavedIn(Q, j) \cup SavedIn(R, j)
           /\ SavedOnce(Q, j) /\ SavedOnce(R, j) /\ SavedIn(Q, j) \cap SavedIn(R, j) = {} => SavedOnce(Q \o R, j)
<1> DEFINE m == Len(Q)
           n == Len(R)
           S == Q \o R
<1>1. m \in Nat /\ n \in Nat /\ DOMAIN Q = 1..m /\ DOMAIN R = 1..n
  BY Zenon, SequenceType
<1>2. /\ DOMAIN S = 1..(m + n)
      /\ \A i \in 1..m : S[i] = Q[i]
      /\ \A i \in (m + 1)..(m + n) : S[i] = R[i - m]
  BY Zenon, JoinedSequence
<1> HIDE DEF S, m, n
<1>3. ASSUME NEW i \in DOMAIN S
      PROVE  \/ i \in DOMAIN Q /\ S[i] = Q[i]
             \/ i - m \in DOMAIN R /\ S[i] = R[i - m] /\ i > m
  <2>1. CASE i <= m
    BY <1>1, <1>2, <2>1
  <2>2. CASE ~(i <= m)
    BY <1>1, <1>2, <2>2
  <2> QED BY Zenon, <2>1, <2>2
<1>4. ASSUME NEW i \in DOMAIN Q PROVE i \in DOMAIN S /\ S[i] = Q[i] /\ i <= m
  BY <1>1, <1>2
<1>5. ASSUME NEW i \in DOMAIN R PROVE i + m \in DOMAIN S /\ S[i + m] = R[i]
  BY <1>1, <1>2
<1>6. SavedIn(S, j) \subseteq SavedIn(Q, j) \cup SavedIn(R, j)
  BY Zenon, <1>3 DEF SavedIn
<1>7. SavedIn(Q, j) \cup SavedIn(R, j) \subseteq SavedIn(S, j)
  BY Zenon, <1>4, <1>5 DEF SavedIn
<1>8. ASSUME SavedOnce(Q, j), SavedOnce(R, j), SavedIn(Q, j) \cap SavedIn(R, j) = {}
      PROVE  SavedOnce(S, j)
  <2> SUFFICES ASSUME NEW i \in DOMAIN S, NEW k \in DOMAIN S, S[i].job = j, S[k].job = j, S[i].entity = S[k].entity
               PROVE  i = k
    BY Zenon DEF SavedOnce
  <2>1. CASE i \in DOMAIN Q /\ S[i] = Q[i] /\ k \in DOMAIN Q /\ S[k] = Q[k]
    BY Zenon, <1>8, <2>1 DEF SavedOnce
  <2>2. CASE i - m \in DOMAIN R /\ S[i] = R[i - m] /\ k - m \in DOMAIN R /\ S[k] = R[k - m]
    <3>1. i - m = k - m
      BY Zenon, <1>8, <2>2 DEF SavedOnce
    <3> QED BY <1>1, <1>2, <3>1
  <2>3. CASE i \in DOMAIN Q /\ S[i] = Q[i] /\ k - m \in DOMAIN R /\ S[k] = R[k - m]
    <3>1. S[i].entity \in SavedIn(Q, j) /\ S[k].entity \in SavedIn(R, j)
      BY Zenon, <2>3 DEF SavedIn
    <3> QED BY Zenon, <1>8, <3>1
  <2>4. CASE i - m \in DOMAIN R /\ S[i] = R[i - m] /\ k \in DOMAIN Q /\ S[k] = Q[k]
    <3>1. S[i].entity \in SavedIn(R, j) /\ S[k].entity \in SavedIn(Q, j)
      BY Zenon, <2>4 DEF SavedIn
    <3> QED BY Zenon, <1>8, <3>1
  <2> QED BY Zenon, <1>3, <2>1, <2>2, <2>3, <2>4
<1> QED BY Zenon, <1>6, <1>7, <1>8 DEF S

(* Snapshots of another job. *)
LEMMA OthersSaves ==
    ASSUME NEW R, NEW j, NEW k, k # j, \A i \in DOMAIN R : R[i].job = j
    PROVE  SavedIn(R, k) = {} /\ SavedOnce(R, k)
BY DEF SavedIn, SavedOnce

LEMMA NothingSaved ==
    ASSUME NEW j
    PROVE  IsSequence(<<>>) /\ DOMAIN <<>> = {} /\ SavedIn(<<>>, j) = {} /\ SavedOnce(<<>>, j)
<1>1. <<>> \in Seq({}) /\ DOMAIN <<>> = {}
  OBVIOUS
<1>2. IsSequence(<<>>)
  BY Zenon, <1>1 DEF IsSequence
<1>3. SavedIn(<<>>, j) = {} /\ SavedOnce(<<>>, j)
  BY <1>1 DEF SavedIn, SavedOnce
<1> QED BY <1>1, <1>2, <1>3

LEMMA OneSaved ==
    ASSUME NEW j, NEW e, NEW row, NEW s, s = <<Snapshot(j, e, row)>>
    PROVE  /\ IsSequence(s) /\ SavedIn(s, j) = {e} /\ SavedOnce(s, j)
           /\ \A i \in DOMAIN s : s[i].job = j
<1>1. PICK x : x = Snapshot(j, e, row)
  OBVIOUS
<1>2. x.job = j /\ x.entity = e
  BY <1>1 DEF Snapshot
<1>3. s \in Seq({x}) /\ DOMAIN s = {1} /\ s[1] = x
  BY <1>1
<1>4. IsSequence(s)
  BY Zenon, <1>3 DEF IsSequence
<1>5. \A i \in DOMAIN s : s[i] = x /\ i = 1
  BY <1>3
<1>6. SavedOnce(s, j)
  BY Zenon, <1>5 DEF SavedOnce
<1>7. SavedIn(s, j) = {e}
  BY Zenon, <1>2, <1>3 DEF SavedIn
<1> QED BY Zenon, <1>2, <1>4, <1>5, <1>6, <1>7

LEMMA ConfirmStartKeeps ==
    ASSUME InferenceInv, NEW c \in Callers, NEW i \in JobIds, ConfirmStart(c, i)
    PROVE  InferenceInv'
<1>1. PICK j : j = jobs[i].of
  OBVIOUS
<1>2. PICK call : call = [op |-> "confirm", job |-> i, of |-> j, left |-> {p.entity : p \in PendingOf(j)},
                          held |-> {}, writes |-> <<>>, marks |-> <<>>, saved |-> <<>>]
  OBVIOUS
<1>3. /\ UNCHANGED <<infer, jobs, proposals, snapshots, entities>>
      /\ ~\E d \in Callers : calls[d].op = "confirm" /\ calls[d].of = j
      /\ infer[j].status = "completed" /\ PendingOf(j) # {}
      /\ calls' = [calls EXCEPT ![c] = call]
  BY Zenon, <1>1, <1>2
     DEF ConfirmStart, lock_job_for_action, require_completed_job, content, queue, inference
<1>4. {p.entity : p \in PendingOf(j)} = PendingIn(proposals, j)
  <2>1. PendingOf(j) = {q \in proposals : q.job = j /\ q.status = "pending"}
    BY Zenon DEF PendingOf, ProposalsOf
  <2> QED BY Zenon, <2>1 DEF PendingIn
<1>5. PendingIn(proposals, j) # {} /\ j \in JobIds
  <2>1. PICK p \in proposals : p.job = j /\ p.status = "pending"
    BY Zenon, <1>3 DEF PendingOf, ProposalsOf
  <2> QED BY Zenon, <2>1 DEF InferenceInv, ProposalOK, PendingIn
<1>6. /\ call.op = "confirm" /\ DOMAIN call = ConfirmFields /\ call.of = j
      /\ call.left = PendingIn(proposals, j) /\ call.marks = <<>> /\ call.saved = <<>>
  BY <1>2, <1>4 DEF ConfirmFields
<1>7. DOMAIN <<>> = {} /\ IsSequence(<<>>) /\ SavedIn(<<>>, j) = {} /\ SavedOnce(<<>>, j)
  BY Zenon, NothingSaved
<1>8. ConfirmOK(infer, proposals, call)
  <2>1. /\ DOMAIN call.marks = {} /\ DOMAIN call.saved = {} /\ IsSequence(call.saved)
        /\ SavedIn(call.saved, call.of) = {} /\ SavedOnce(call.saved, call.of)
    BY <1>6, <1>7
  <2> QED BY Zenon, <1>3, <1>5, <1>6, <2>1 DEF ConfirmOK
<1>9. DeliveryOK(infer, call) /\ CallsHold(infer, proposals, calls)
  BY Zenon, <1>6, "confirm" # "infer" DEF DeliveryOK, InferenceInv
<1>10. \A d \in Callers \ {c} : calls[d].op = "confirm" => calls[d].of # call.of
  BY Zenon, <1>3, <1>6
<1>11. CallsHold(infer, proposals, calls')
  BY Zenon, <1>3, <1>8, <1>9, <1>10, OneCallMoves
<1> QED BY Zenon, <1>3, <1>11, DeliveryPasses

(* An entity before a confirmation gets its mark, and a snapshot if that says
   confirmed. *)
LEMMA EntityMarked ==
    ASSUME NEW I, NEW P, NEW call, NEW new, NEW e, NEW verdict, NEW row,
           ConfirmOK(I, P, call), call.op = "confirm", e \in call.left, verdict \in Marks,
           DOMAIN new = ConfirmFields, new.op = "confirm", new.of = call.of,
           new.left = call.left \ {e}, new.marks = Extend(call.marks, e, verdict),
           new.saved = call.saved \o (IF verdict = "confirmed" THEN <<Snapshot(call.of, e, row)>> ELSE <<>>)
    PROVE  ConfirmOK(I, P, new)
<1>1. PICK j, s, t, marks, marks2 : /\ j = call.of /\ s = call.saved /\ marks = call.marks /\ marks2 = new.marks
                                    /\ t = IF verdict = "confirmed" THEN <<Snapshot(j, e, row)>> ELSE <<>>
  BY Zenon
<1>2. /\ j \in JobIds /\ I[j].status = "completed" /\ PendingIn(P, j) # {}
      /\ call.left \cup DOMAIN marks = PendingIn(P, j) /\ call.left \cap DOMAIN marks = {}
      /\ \A f \in DOMAIN marks : marks[f] \in Marks
      /\ IsSequence(s) /\ \A i \in DOMAIN s : s[i].job = j
      /\ SavedIn(s, j) = {f \in DOMAIN marks : marks[f] = "confirmed"}
      /\ SavedOnce(s, j)
  BY Zenon, <1>1 DEF ConfirmOK
<1>3. new.saved = s \o t
  BY <1>1
<1>4. /\ DOMAIN marks2 = DOMAIN marks \cup {e} /\ marks2[e] = verdict
      /\ \A f \in DOMAIN marks : f # e => marks2[f] = marks[f]
  BY Zenon, <1>1 DEF Extend
<1>5. e \notin DOMAIN marks
  BY Zenon, <1>2
<1>6. /\ new.left \cup DOMAIN marks2 = PendingIn(P, j) /\ new.left \cap DOMAIN marks2 = {}
      /\ \A f \in DOMAIN marks2 : marks2[f] \in Marks
  BY Zenon, <1>2, <1>4, <1>5
<1>7. /\ IsSequence(t) /\ SavedOnce(t, j) /\ \A i \in DOMAIN t : t[i].job = j
      /\ SavedIn(t, j) = IF verdict = "confirmed" THEN {e} ELSE {}
  <2>1. CASE verdict = "confirmed"
    <3>1. t = <<Snapshot(j, e, row)>>
      BY Zenon, <1>1, <2>1
    <3>2. /\ IsSequence(t) /\ SavedIn(t, j) = {e} /\ SavedOnce(t, j)
          /\ \A i \in DOMAIN t : t[i].job = j
      BY <3>1, OneSaved
    <3> QED BY Zenon, <2>1, <3>2
  <2>2. CASE verdict # "confirmed"
    <3>1. t = <<>>
      BY Zenon, <1>1, <2>2
    <3> QED BY <2>2, <3>1, NothingSaved
  <2> QED BY Zenon, <2>1, <2>2
<1>8. SavedIn(t, j) \cap SavedIn(s, j) = {}
  BY Zenon, <1>2, <1>5, <1>7
<1>9. /\ SavedIn(s \o t, j) = SavedIn(s, j) \cup SavedIn(t, j) /\ SavedOnce(s \o t, j)
  BY Zenon, <1>2, <1>7, <1>8, JoinedSaves
<1>10. IsSequence(s \o t) /\ \A i \in DOMAIN (s \o t) : (s \o t)[i].job = j
  <2>1. /\ IsSequence(s \o t) /\ DOMAIN (s \o t) = 1..(Len(s) + Len(t))
        /\ \A i \in 1..Len(s) : (s \o t)[i] = s[i]
        /\ \A i \in (Len(s) + 1)..(Len(s) + Len(t)) : (s \o t)[i] = t[i - Len(s)]
    BY Zenon, <1>2, <1>7, JoinedSequence
  <2>2. Len(s) \in Nat /\ DOMAIN s = 1..Len(s) /\ Len(t) \in Nat /\ DOMAIN t = 1..Len(t)
    BY Zenon, <1>2, <1>7, SequenceType
  <2>3. PICK u : u = s \o t
    OBVIOUS
  <2>4. \A i \in DOMAIN u : u[i].job = j
    BY <1>2, <1>7, <2>1, <2>2, <2>3
  <2> QED BY <2>1, <2>3, <2>4
<1>11. SavedIn(s \o t, j) = {f \in DOMAIN marks2 : marks2[f] = "confirmed"}
  <2>1. CASE verdict = "confirmed"
    BY Zenon, <1>2, <1>4, <1>5, <1>7, <1>9, <2>1
  <2>2. CASE verdict # "confirmed"
    BY Zenon, <1>2, <1>4, <1>5, <1>7, <1>9, <2>2
  <2> QED BY Zenon, <2>1, <2>2
<1>12. new.of = j /\ new.marks = marks2
  BY Zenon, <1>1
<1>13. PICK s2 : s2 = s \o t
  OBVIOUS
<1>14. /\ new.saved = s2 /\ IsSequence(s2) /\ \A i \in DOMAIN s2 : s2[i].job = j
       /\ SavedIn(s2, j) = {f \in DOMAIN marks2 : marks2[f] = "confirmed"} /\ SavedOnce(s2, j)
  BY <1>3, <1>9, <1>10, <1>11, <1>13
<1>15. /\ new.left \cup DOMAIN new.marks = PendingIn(P, new.of) /\ new.left \cap DOMAIN new.marks = {}
       /\ \A f \in DOMAIN new.marks : new.marks[f] \in Marks
  BY Zenon, <1>6, <1>12
<1>16. /\ IsSequence(new.saved) /\ \A i \in DOMAIN new.saved : new.saved[i].job = new.of
       /\ SavedIn(new.saved, new.of) = {f \in DOMAIN new.marks : new.marks[f] = "confirmed"}
       /\ SavedOnce(new.saved, new.of)
  BY Zenon, <1>12, <1>14
<1>17. new.of \in JobIds /\ I[new.of].status = "completed" /\ PendingIn(P, new.of) # {}
  BY Zenon, <1>2, <1>12
<1> QED BY Zenon, <1>15, <1>16, <1>17 DEF ConfirmOK

NextConfirm(C, c, e, j, verdict, schema, data) ==
    [C EXCEPT ![c].left = @ \ {e},
              ![c].held = @ \cup {e},
              ![c].marks = Extend(@, e, verdict),
              ![c].saved = @ \o SavedRow(verdict, j, e),
              ![c].writes = IF verdict = "confirmed" THEN Extend(@, e, [schema |-> schema, data |-> data]) ELSE @]

LEMMA ConfirmEntityKeeps ==
    ASSUME InferenceInv, NEW c \in Callers, ConfirmEntity(c)
    PROVE  InferenceInv'
<1>1. PICK call, e, j : call = calls[c] /\ e = Min(calls[c].left) /\ j = calls[c].of
  BY Zenon
<1>2. /\ UNCHANGED <<infer, jobs, proposals, snapshots, entities>>
      /\ call.op = "confirm" /\ call.left # {}
  BY Zenon, <1>1 DEF ConfirmEntity, content, queue, inference
<1> DEFINE at == Min(calls[c].left)
           of == calls[c].of
           Data(picks) == IF at \in Live THEN DataWith(entities[at].data, picks) ELSE <<>>
           Mine == {p \in PendingOf(of) : p.entity = at}
<1>3. \E first, picks :
        calls' = NextConfirm(calls, c, at, of, Verdict(at, Mine, first.schema, Data(picks)), first.schema, Data(picks))
  <2>1. \E first \in Mine : \E picks \in [{p.field : p \in Mine} -> Mine] :
          calls' = NextConfirm(calls, c, at, of, Verdict(at, Mine, first.schema, Data(picks)), first.schema, Data(picks))
    BY ZenonT(60) DEF ConfirmEntity, NextConfirm
  <2> HIDE DEF at, of, Data, Mine
  <2> QED BY Zenon, <2>1
<1>4. PICK mine, schema, data, verdict :
        verdict = Verdict(e, mine, schema, data) /\ calls' = NextConfirm(calls, c, e, j, verdict, schema, data)
  <2>1. e = at /\ j = of
    BY Zenon, <1>1
  <2> HIDE DEF at, of, Data, Mine
  <2> QED BY Zenon, <1>3, <2>1
<1>5. verdict \in Marks
  BY Zenon, <1>4 DEF Verdict, Marks
<1>6. PICK writes : writes = IF verdict = "confirmed"
                             THEN Extend(call.writes, e, [schema |-> schema, data |-> data]) ELSE call.writes
  OBVIOUS
<1>7. PICK saved, marks : saved = call.saved \o SavedRow(verdict, j, e) /\ marks = Extend(call.marks, e, verdict)
  BY Zenon
<1> DEFINE new == [call EXCEPT !.left = @ \ {e}, !.held = @ \cup {e}, !.marks = marks, !.saved = saved, !.writes = writes]
<1>8. calls' = [calls EXCEPT ![c] = new]
  BY <1>1, <1>4, <1>6, <1>7 DEF NextConfirm
<1>9. /\ CallsHold(infer, proposals, calls) /\ ConfirmOK(infer, proposals, call)
      /\ \A d \in Callers \ {c} : calls[d].op = "confirm" => calls[d].of # call.of
  BY Zenon, <1>1, <1>2 DEF InferenceInv, CallsHold
<1>10. DOMAIN call = ConfirmFields /\ call.left \subseteq PendingIn(proposals, call.of)
  BY Zenon, <1>2, <1>9 DEF ConfirmOK
<1>11. /\ DOMAIN new = ConfirmFields /\ new.op = "confirm" /\ new.of = call.of /\ new.left = call.left \ {e}
       /\ new.marks = marks /\ new.saved = saved
  BY <1>2, <1>10 DEF ConfirmFields
<1> HIDE DEF new
<1>12. e \in call.left
  <2>1. call.left \subseteq EntityIds
    BY Zenon, <1>10 DEF PendingIn, InferenceInv, ProposalOK
  <2>2. call.left \subseteq Nat
    BY Zenon, <2>1, KnowledgeAssumption
  <2> QED BY Zenon, <1>1, <1>2, <2>2, MinIsLeast
<1>13. saved = call.saved \o (IF verdict = "confirmed" THEN <<Snapshot(call.of, e, entities[e])>> ELSE <<>>)
  BY Zenon, <1>1, <1>7 DEF SavedRow
<1>14. ConfirmOK(infer, proposals, new)
  BY <1>2, <1>5, <1>7, <1>9, <1>11, <1>12, <1>13, EntityMarked
<1>15. DeliveryOK(infer, new)
  BY Zenon, <1>11, "confirm" # "infer" DEF DeliveryOK
<1>16. CallsHold(infer, proposals, calls')
  BY Zenon, <1>8, <1>9, <1>11, <1>14, <1>15, OneCallMoves
<1> QED BY Zenon, <1>2, <1>16, DeliveryPasses

(* All the pending proposals are marked and what is confirmed is saved. *)
LEMMA ConfirmCommitKeeps ==
    ASSUME InferenceInv, NEW c \in Callers, ConfirmCommit(c)
    PROVE  InferenceInv'
<1>1. PICK call, j : call = calls[c] /\ j = calls[c].of
  BY Zenon
<1>2. /\ call.op = "confirm" /\ call.left = {} /\ Ends(c) /\ infer' = infer /\ jobs' = jobs
      /\ proposals' = Marked(proposals, j, call.marks) /\ snapshots' = snapshots \o call.saved
      /\ DOMAIN entities' = EntityIds
  BY Zenon, <1>1 DEF ConfirmCommit, Marked
<1>3. /\ CallsHold(infer, proposals, calls) /\ ConfirmOK(infer, proposals, call)
      /\ \A d \in Callers \ {c} : calls[d].op = "confirm" => calls[d].of # j
      /\ calls = [d \in Callers |-> calls[d]]
      /\ SavedOK(infer, proposals, snapshots) /\ IsSequence(snapshots)
  BY Zenon, <1>1, <1>2 DEF InferenceInv, CallsHold
<1>4. /\ j \in JobIds /\ infer[j].status = "completed" /\ PendingIn(proposals, j) # {}
      /\ DOMAIN call.marks = PendingIn(proposals, j)
      /\ \A e \in DOMAIN call.marks : call.marks[e] \in Marks
      /\ IsSequence(call.saved) /\ \A i \in DOMAIN call.saved : call.saved[i].job = j
      /\ SavedIn(call.saved, j) = {e \in DOMAIN call.marks : call.marks[e] = "confirmed"}
      /\ SavedOnce(call.saved, j)
  BY Zenon, <1>1, <1>2, <1>3 DEF ConfirmOK
<1>5. SavedIn(snapshots, j) = {} /\ SavedOnce(snapshots, j)
  BY Zenon, <1>3, <1>4 DEF SavedOK, JobSaved
<1>6. CallsHold(infer, proposals, calls')
  BY Zenon, <1>2, DeliveryEnds
<1>7. \A d \in Callers : calls'[d].op = "confirm" => calls'[d].of # j
  <2>1. calls'[c] = Idle /\ \A d \in Callers \ {c} : calls'[d] = calls[d]
    BY Zenon, <1>2, <1>3 DEF Ends
  <2>2. Idle.op # "confirm"
    BY DEF Idle
  <2> QED BY Zenon, <1>3, <2>1, <2>2
<1>8. PICK Q, mark, C : Q = snapshots \o call.saved /\ mark = call.marks /\ C = calls'
  BY Zenon
<1>9. IsSequence(Q)
  BY Zenon, <1>3, <1>4, <1>8, JoinedSequence
<1>10. /\ SavedIn(Q, j) = SavedIn(snapshots, j) \cup SavedIn(call.saved, j)
       /\ SavedOnce(Q, j)
  <2>1. SavedIn(snapshots, j) \cap SavedIn(call.saved, j) = {}
    BY Zenon, <1>5
  <2> QED BY Zenon, <1>3, <1>4, <1>5, <1>8, <2>1, JoinedSaves
<1>11. ASSUME NEW k \in JobIds \ {j}
       PROVE  SavedIn(Q, k) = SavedIn(snapshots, k) /\ (SavedOnce(snapshots, k) => SavedOnce(Q, k))
  <2>1. SavedIn(call.saved, k) = {} /\ SavedOnce(call.saved, k)
    BY Zenon, <1>4, OthersSaves
  <2>2. SavedIn(snapshots, k) \cap SavedIn(call.saved, k) = {}
    BY Zenon, <2>1
  <2>3. SavedIn(Q, k) = SavedIn(snapshots, k) \cup SavedIn(call.saved, k)
    BY <1>3, <1>4, <1>8, JoinedSaves
  <2>4. SavedOnce(snapshots, k) => SavedOnce(Q, k)
    BY Zenon, <1>3, <1>4, <1>8, <2>1, <2>2, JoinedSaves
  <2> QED BY <2>1, <2>3, <2>4
<1>12. \A e \in PendingIn(proposals, j) : mark[e] # "pending"
  BY Zenon, <1>4, <1>8, "pending" \notin Marks DEF Marks
<1>13. SavedIn(Q, j) = SavedIn(snapshots, j) \cup {e \in PendingIn(proposals, j) : mark[e] = "confirmed"}
  BY Zenon, <1>4, <1>8, <1>10
<1>14. /\ infer' = infer /\ jobs' = jobs /\ DOMAIN entities' = EntityIds /\ calls' = C /\ snapshots' = Q
       /\ proposals' = Marked(proposals, j, mark)
       /\ CallsHold(infer, proposals, C) /\ \A d \in Callers : C[d].op = "confirm" => C[d].of # j
  BY Zenon, <1>2, <1>6, <1>7, <1>8
<1> QED BY <1>4, <1>9, <1>10, <1>11, <1>12, <1>13, <1>14, MarkedKeeps

-----------------------------------------------------------------------------
(* The queue and the other writers. *)

(* An accepted job takes an id that no inference has. *)
LEMMA NextJobIsFresh ==
    ASSUME InferenceInv, \E j \in JobIds : jobs[j] = FreshJob
    PROVE  NextJob \in JobIds /\ infer[NextJob].status = "none"
<1>1. NextJob \in {j \in JobIds : jobs[j] = FreshJob}
  <2> DEFINE T == {j \in JobIds : jobs[j] = FreshJob}
  <2>1. T \subseteq Nat /\ T # {}
    BY Zenon, KnowledgeAssumption
  <2> HIDE DEF T
  <2>2. Min(T) \in T
    BY Zenon, <2>1, MinIsLeast
  <2> QED BY Zenon, <2>2 DEF T, NextJob
<1>2. jobs[NextJob].kind # "infer"
  BY <1>1 DEF FreshJob
<1> QED BY Zenon, <1>1, <1>2 DEF InferenceInv, RowsHold

(* A job is accepted and, if it is an inference, so is its row. *)
LEMMA Accepted ==
    ASSUME InferenceInv, NEW j \in JobIds, infer[j].status = "none", NEW job, "kind" \in DOMAIN job,
           NEW row, DOMAIN row = {"status", "attempt"}, row.status # "running",
           row.status # "none" <=> job.kind = "infer",
           jobs' = [jobs EXCEPT ![j] = job], infer' = [infer EXCEPT ![j] = row]
    PROVE  RowsHold(infer', jobs') /\ Onward(infer, infer')
<1>1. RowsHold(infer, jobs)
  BY Zenon DEF InferenceInv
<1>2. /\ infer = [i \in JobIds |-> infer[i]] /\ jobs = [i \in JobIds |-> jobs[i]]
      /\ \A i \in JobIds :
           /\ DOMAIN infer[i] = {"status", "attempt"} /\ "kind" \in DOMAIN jobs[i]
           /\ infer[i].status # "none" <=> jobs[i].kind = "infer"
      /\ \A i, k \in JobIds : infer[i].status = "running" /\ infer[k].status = "running" => i = k
  BY Zenon, <1>1 DEF RowsHold
<1>3. /\ infer'[j] = row /\ \A i \in JobIds \ {j} : infer'[i] = infer[i]
      /\ jobs'[j] = job /\ \A i \in JobIds \ {j} : jobs'[i] = jobs[i]
  BY Zenon, <1>2
<1>4. infer' = [i \in JobIds |-> infer'[i]] /\ jobs' = [i \in JobIds |-> jobs'[i]]
  BY <1>2
<1>5. ASSUME NEW i \in JobIds
      PROVE  /\ DOMAIN infer'[i] = {"status", "attempt"} /\ "kind" \in DOMAIN jobs'[i]
             /\ infer'[i].status # "none" <=> jobs'[i].kind = "infer"
  BY <1>2, <1>3
<1>6. ASSUME NEW i \in JobIds, NEW k \in JobIds, infer'[i].status = "running", infer'[k].status = "running"
      PROVE  i = k
  BY Zenon, <1>2, <1>3, <1>6
<1>7. RowsHold(infer', jobs')
  BY Zenon, <1>4, <1>5, <1>6 DEF RowsHold
<1>8. Onward(infer, infer')
  BY Zenon, <1>3, "none" # "completed" DEF Onward
<1> QED BY Zenon, <1>7, <1>8

LEMMA EnqueueInferKeeps ==
    ASSUME InferenceInv, NEW name, EnqueueInferFill(name)
    PROVE  InferenceInv'
<1>1. PICK j, job, row : /\ j = NextJob /\ job = [kind |-> "infer", name |-> name, actor |-> TRUE]
                         /\ row = [status |-> "queued", attempt |-> 0]
  BY Zenon
<1>2. /\ \E i \in JobIds : jobs[i] = FreshJob
      /\ jobs' = [jobs EXCEPT ![j] = job] /\ infer' = [infer EXCEPT ![j] = row]
      /\ UNCHANGED <<entities, snapshots, calls, proposals>>
  BY Zenon, <1>1 DEF EnqueueInferFill, Enqueue, content
<1>3. j \in JobIds /\ infer[j].status = "none"
  BY Zenon, <1>1, <1>2, NextJobIsFresh
<1>4. /\ "kind" \in DOMAIN job /\ job.kind = "infer"
      /\ DOMAIN row = {"status", "attempt"} /\ row.status = "queued"
  BY <1>1
<1>5. RowsHold(infer', jobs') /\ Onward(infer, infer')
  BY <1>2, <1>3, <1>4, Accepted
<1>6. CallsHold(infer, proposals, calls') /\ DOMAIN entities' = EntityIds
  BY <1>2 DEF InferenceInv
<1> QED BY Zenon, <1>2, <1>5, <1>6, Steady

(* A confirmation or an undo is accepted. *)
LEMMA AcceptKeeps ==
    ASSUME InferenceInv, NEW job, "kind" \in DOMAIN job, job.kind # "infer", Enqueue(job), UNCHANGED inference
    PROVE  InferenceInv'
<1>1. PICK j, row : j = NextJob /\ row = infer[j]
  BY Zenon
<1>2. /\ \E i \in JobIds : jobs[i] = FreshJob
      /\ jobs' = [jobs EXCEPT ![j] = job] /\ infer' = infer
      /\ UNCHANGED <<entities, snapshots, calls, proposals>>
  BY Zenon, <1>1 DEF Enqueue, content, inference
<1>3. j \in JobIds /\ infer[j].status = "none"
  BY Zenon, <1>1, <1>2, NextJobIsFresh
<1>4. DOMAIN row = {"status", "attempt"} /\ row.status = "none" /\ infer = [i \in JobIds |-> infer[i]]
  BY Zenon, <1>1, <1>3 DEF InferenceInv, RowsHold
<1>5. infer' = [infer EXCEPT ![j] = row]
  BY SMTT(20), <1>1, <1>2, <1>3, <1>4
<1>6. RowsHold(infer', jobs') /\ Onward(infer, infer')
  BY <1>2, <1>3, <1>4, <1>5, Accepted
<1>7. CallsHold(infer, proposals, calls') /\ DOMAIN entities' = EntityIds
  BY <1>2 DEF InferenceInv
<1> QED BY Zenon, <1>2, <1>6, <1>7, Steady

LEMMA EnqueueOthersKeep ==
    ASSUME InferenceInv, NEW j, EnqueueConfirm(j) \/ (EnqueueUndo(j) /\ UNCHANGED inference)
    PROVE  InferenceInv'
<1>1. PICK job : /\ job \in {[kind |-> "confirm", of |-> j, actor |-> TRUE], [kind |-> "undo", of |-> j, actor |-> TRUE]}
                 /\ Enqueue(job) /\ UNCHANGED inference
  BY Zenon DEF EnqueueConfirm, EnqueueUndo
<1>2. "kind" \in DOMAIN job /\ job.kind # "infer"
  BY <1>1
<1> QED BY Zenon, <1>1, <1>2, AcceptKeeps

LEMMA RevokeKeeps ==
    ASSUME InferenceInv, NEW j \in JobIds, RevokeActor(j), UNCHANGED inference
    PROVE  InferenceInv'
<1>1. /\ jobs' = [jobs EXCEPT ![j].actor = FALSE]
      /\ UNCHANGED <<entities, snapshots, calls, proposals, infer>>
  BY Zenon DEF RevokeActor, content, inference
<1>2. /\ infer = [i \in JobIds |-> infer[i]] /\ jobs = [i \in JobIds |-> jobs[i]]
      /\ \A i \in JobIds :
           /\ DOMAIN infer[i] = {"status", "attempt"} /\ "kind" \in DOMAIN jobs[i]
           /\ infer[i].status # "none" <=> jobs[i].kind = "infer"
      /\ \A i, k \in JobIds : infer[i].status = "running" /\ infer[k].status = "running" => i = k
  BY Zenon DEF InferenceInv, RowsHold
<1>3. \A i \in JobIds : "kind" \in DOMAIN jobs'[i] /\ jobs'[i].kind = jobs[i].kind
  BY <1>1, <1>2
<1>4. jobs' = [i \in JobIds |-> jobs'[i]] /\ infer' = infer
  BY <1>1, <1>2
<1>5. RowsHold(infer, jobs')
  BY Zenon, <1>2, <1>3, <1>4 DEF RowsHold
<1>6. RowsHold(infer', jobs') /\ Onward(infer, infer')
  BY <1>4, <1>5 DEF Onward
<1>7. CallsHold(infer, proposals, calls') /\ DOMAIN entities' = EntityIds
  BY <1>1 DEF InferenceInv
<1> QED BY Zenon, <1>1, <1>6, <1>7, Steady

(* A confirmation finds no active version, or the process running it dies. *)
LEMMA RunEndsKeeps ==
    ASSUME InferenceInv, NEW c \in Callers, ConfirmFails(c) \/ (RunDies(c) /\ UNCHANGED inference)
    PROVE  InferenceInv'
<1>1. UNCHANGED <<infer, jobs, proposals, snapshots, entities>> /\ Ends(c)
  BY Zenon DEF ConfirmFails, RunDies, Ends, content, queue, inference
<1>2. CallsHold(infer, proposals, calls')
  BY Zenon, <1>1, DeliveryEnds
<1> QED BY Zenon, <1>1, <1>2, DeliveryPasses

(* Undo restores rows: by induction on the snapshots it has a row for each
   entity id still. *)
LEMMA UndoKeepsIds ==
    ASSUME NEW rows, NEW snaps, NEW j, Len(snaps) \in Nat
    PROVE  DOMAIN restored(rows, snaps, j)[Len(snaps)] = DOMAIN rows
<1> DEFINE run == restored(rows, snaps, j)
           Good(n) == n <= Len(snaps) => DOMAIN run[n] = DOMAIN rows
           N == {n \in Nat : Good(n)}
<1>1. /\ run[0] = rows
      /\ \A n \in 1..Len(snaps) :
           run[n] = IF snaps[n].job = j THEN Restore(run[n - 1], snaps[n]) ELSE run[n - 1]
  BY RestoredRuns
<1> HIDE DEF run
<1>2. 0 \in N
  BY Zenon, <1>1
<1>3. ASSUME NEW n \in Nat, n \in N PROVE n + 1 \in N
  <2> SUFFICES ASSUME n + 1 <= Len(snaps) PROVE DOMAIN run[n + 1] = DOMAIN rows
    OBVIOUS
  <2>1. n + 1 \in 1..Len(snaps) /\ (n + 1) - 1 = n
    OBVIOUS
  <2>2. DOMAIN run[n] = DOMAIN rows
    BY <1>3
  <2>3. run[n + 1] = IF snaps[n + 1].job = j THEN Restore(run[n], snaps[n + 1]) ELSE run[n]
    BY Zenon, <1>1, <2>1
  <2>4. DOMAIN Restore(run[n], snaps[n + 1]) = DOMAIN run[n]
    BY Zenon DEF Restore
  <2> QED BY Zenon, <2>2, <2>3, <2>4
<1>4. Nat \subseteq N
  <2> HIDE DEF N
  <2> QED BY Zenon, <1>2, <1>3, SetInduction
<1>5. Good(Len(snaps))
  BY Zenon, <1>4
<1> QED BY <1>5 DEF run

(* What the other writers do to schemas, entities and their own calls. *)
LEMMA ContentKeeps ==
    ASSUME InferenceInv, NEW c \in Callers, ContentNext(c)
    PROVE  InferenceInv'
<1>1. UNCHANGED <<infer, proposals>> /\ DOMAIN entities = EntityIds /\ CallsHold(infer, proposals, calls)
  BY Zenon DEF ContentNext, inference, InferenceInv
<1>2. ASSUME UNCHANGED <<jobs, snapshots, calls>>, DOMAIN entities' = EntityIds PROVE InferenceInv'
  <2>1. RowsHold(infer', jobs') /\ Onward(infer, infer')
    BY Zenon, <1>1, <1>2, SameRows
  <2>2. CallsHold(infer, proposals, calls')
    BY <1>1, <1>2
  <2> QED BY Zenon, <1>1, <1>2, <2>1, <2>2, Steady
<1>3. ASSUME NEW def \in Defs, CreateSchema(def, None) PROVE InferenceInv'
  BY SMTT(20), <1>1, <1>2, <1>3 DEF CreateSchema, queue
<1>4. ASSUME NEW s \in SchemaIds, ArchiveSchema(s) PROVE InferenceInv'
  BY SMTT(20), <1>1, <1>2, <1>4 DEF ArchiveSchema, queue
<1>5. ASSUME NEW s \in SchemaIds, DeleteSchema(s, Referenced) PROVE InferenceInv'
  BY <1>1, <1>2, <1>5 DEF DeleteSchema, queue
<1>6. ASSUME NEW e \in EntityIds, NEW data \in Datas, NEW expected, UpdateEntity(c, e, data, expected)
      PROVE  InferenceInv'
  <2>1. PICK call : call = [op |-> "update", entity |-> e, data |-> data,
                            rev |-> entities[e].rev, checked |-> expected # None]
    OBVIOUS
  <2>2. calls' = [calls EXCEPT ![c] = call] /\ UNCHANGED <<infer, jobs, proposals, snapshots, entities>>
    BY Zenon, <1>1, <1>6, <2>1 DEF UpdateEntity, content, queue
  <2>3. call.op = "update"
    BY <2>1
  <2>4. DeliveryOK(infer, call) /\ ConfirmOK(infer, proposals, call)
    BY <2>3, OtherCallsHold
  <2>5. CallsHold(infer, proposals, calls')
    BY <1>1, <2>2, <2>3, <2>4, OneCallMoves
  <2> QED BY Zenon, <2>2, <2>5, DeliveryPasses
<1>7. ASSUME NEW e \in EntityIds, DeleteEntity(e) PROVE InferenceInv'
  BY <1>1, <1>2, <1>7 DEF DeleteEntity, queue
<1>8. ASSUME NEW j \in JobIds, EnqueueUndo(j) PROVE InferenceInv'
  <2>1. UNCHANGED inference
    BY Zenon DEF ContentNext
  <2> QED BY Zenon, <1>8, <2>1, EnqueueOthersKeep
<1>9. ASSUME WriteEntity(c) PROVE InferenceInv'
  <2>1. calls' = [calls EXCEPT ![c] = Idle] /\ UNCHANGED <<jobs, snapshots>>
    BY Zenon, <1>9 DEF WriteEntity, queue
  <2>2. DOMAIN entities' = EntityIds
    BY <1>1, <1>9 DEF WriteEntity
  <2>3. CallsHold(infer, proposals, calls')
    BY Zenon, <1>1, <2>1, CallEnds
  <2>4. RowsHold(infer', jobs') /\ Onward(infer, infer')
    BY Zenon, <1>1, <2>1, SameRows
  <2> QED BY Zenon, <1>1, <2>1, <2>2, <2>3, <2>4, Steady
<1>10. ASSUME NEW j \in JobIds, RunUndo(j) PROVE InferenceInv'
  <2>1. Len(snapshots) \in Nat
    BY Zenon, SequenceType DEF InferenceInv
  <2>2. entities' = restored(entities, snapshots, jobs[j].of)[Len(snapshots)] /\ UNCHANGED <<jobs, snapshots, calls>>
    BY Zenon, <1>10 DEF RunUndo, undo_job
  <2>3. DOMAIN entities' = EntityIds
    BY SMTT(20), <1>1, <2>1, <2>2, UndoKeepsIds
  <2> QED BY Zenon, <1>2, <2>2, <2>3
<1> QED BY Zenon, <1>3, <1>4, <1>5, <1>6, <1>7, <1>8, <1>9, <1>10 DEF ContentNext

-----------------------------------------------------------------------------
(* The theorems. *)

LEMMA InferenceStarts == Init => InferenceInv
<1> SUFFICES ASSUME Init PROVE InferenceInv
  OBVIOUS
<1>1. /\ entities = [e \in EntityIds |-> FreshEntity] /\ snapshots = <<>> /\ proposals = {}
      /\ jobs = [j \in JobIds |-> FreshJob] /\ infer = [j \in JobIds |-> FreshInfer]
      /\ calls = [c \in Callers |-> Idle]
  BY Zenon DEF Init
<1>2. RowsHold(infer, jobs)
  BY <1>1 DEF RowsHold, FreshInfer, FreshJob
<1>3. IsSequence(snapshots)
  BY <1>1, NothingSaved
<1>4. SavedOK(infer, proposals, snapshots)
  <2>1. ASSUME NEW j \in JobIds PROVE SavedIn(snapshots, j) = {} /\ SavedOnce(snapshots, j)
    BY <1>1, NothingSaved
  <2>2. ASSUME NEW j \in JobIds PROVE ConfirmedIn(proposals, j) = {}
    BY Zenon, <1>1 DEF ConfirmedIn
  <2> QED BY Zenon, <2>1, <2>2 DEF SavedOK, JobSaved
<1>5. CallsHold(infer, proposals, calls)
  <2>1. Idle.op = "idle"
    BY DEF Idle
  <2>2. ASSUME NEW c \in Callers PROVE calls[c] = Idle
    BY Zenon, <1>1
  <2>3. DeliveryOK(infer, Idle) /\ ConfirmOK(infer, proposals, Idle)
    BY <2>1, OtherCallsHold
  <2>4. calls = [c \in Callers |-> calls[c]]
    BY <1>1
  <2> QED BY Zenon, <2>1, <2>2, <2>3, <2>4 DEF CallsHold
<1>6. DOMAIN entities = EntityIds /\ \A p \in proposals : ProposalOK(p)
  BY Zenon, <1>1
<1> QED BY Zenon, <1>2, <1>3, <1>4, <1>5, <1>6 DEF InferenceInv

(* A step that leaves the store, the rows and the proposals alone. *)
LEMMA ReadKeeps ==
    ASSUME InferenceInv, UNCHANGED <<store, infer, proposals>>
    PROVE  InferenceInv'
<1>1. UNCHANGED <<infer, jobs, proposals, snapshots, entities, calls>>
  BY Zenon DEF store, content, queue
<1>2. CallsHold(infer, proposals, calls')
  BY <1>1 DEF InferenceInv
<1> QED BY Zenon, <1>1, <1>2, DeliveryPasses

LEMMA HandlersKeep ==
    ASSUME InferenceInv, NEW c \in Callers, InferenceNext(c)
    PROVE  InferenceInv'
<1>1. ASSUME NEW name \in Names, RestInferFill(c, name) PROVE InferenceInv'
  BY Zenon, <1>1, EnqueueInferKeeps DEF RestInferFill
<1>2. ASSUME NEW j \in JobIds, RestConfirmProposals(c, j) PROVE InferenceInv'
  BY Zenon, <1>2, EnqueueOthersKeep DEF RestConfirmProposals
<1>3. ASSUME NEW j \in JobIds, RestRejectProposals(c, j) \/ RestDiscardProposals(c, j) PROVE InferenceInv'
  <2>1. PICK status : status \in {"rejected", "discarded"} /\ Decide(j, status)
    BY Zenon, <1>3 DEF RestRejectProposals, RestDiscardProposals, Reject, Discard
  <2> QED BY Zenon, <2>1, DecideKeeps
<1>4. ASSUME NEW what, NEW scope, Answers(c, scope, what) PROVE InferenceInv'
  <2>1. UNCHANGED <<store, infer, proposals>>
    BY Zenon, <1>4 DEF Answers, inference
  <2> QED BY Zenon, <2>1, ReadKeeps
<1>5. ASSUME NEW j \in JobIds,
             RestInferJobStatus(c, j) \/ RestListProposals(c, j) \/ RestConfirmationStatus(c, j)
      PROVE  InferenceInv'
  BY Zenon, <1>4, <1>5 DEF RestInferJobStatus, RestListProposals, RestConfirmationStatus
<1>6. ASSUME SetLlmKey \/ DeleteLlmKey PROVE InferenceInv'
  <2>1. UNCHANGED <<store, infer, proposals>>
    BY Zenon, <1>6 DEF SetLlmKey, DeleteLlmKey
  <2> QED BY Zenon, <2>1, ReadKeeps
<1>7. CASE RestGetLlmKey(c) \/ McpGetLlmProvider(c)
  BY Zenon, <1>4, <1>7 DEF RestGetLlmKey, McpGetLlmProvider
<1>8. CASE RestSetLlmKey(c) \/ RestDeleteLlmKey(c) \/ McpSetLlmProvider(c) \/ McpResetLlmProvider(c)
  BY Zenon, <1>6, <1>8 DEF RestSetLlmKey, RestDeleteLlmKey, McpSetLlmProvider, McpResetLlmProvider
<1> QED BY Zenon, <1>1, <1>2, <1>3, <1>5, <1>7, <1>8 DEF InferenceNext

LEMMA InferenceStep == InferenceInv /\ [Next]_vars => InferenceInv'
<1> SUFFICES ASSUME InferenceInv, [Next]_vars PROVE InferenceInv'
  OBVIOUS
<1>1. ASSUME NEW c \in Callers, Step(c) PROVE InferenceInv'
  BY Zenon, <1>1, ReconcileKeeps, RereadKeeps, AskModelKeeps, RecordKeeps, CompleteKeeps, DeliveryEndKeeps,
     InferErrorKeeps, ConfirmEntityKeeps, ConfirmCommitKeeps, RunEndsKeeps DEF Step
<1>2. ASSUME NEW c \in Callers, AskRefused(c) PROVE InferenceInv'
  BY Zenon, <1>2, AskFailsKeeps DEF AskRefused
<1>3. ASSUME NEW c \in Callers, NEW j \in JobIds, Deliver(c, j) PROVE InferenceInv'
  BY Zenon, <1>3, StartInferKeeps, ConfirmStartKeeps DEF Deliver
<1>4. ASSUME NEW c \in Callers, Fault(c) PROVE InferenceInv'
  BY Zenon, <1>4, DeliveryEndKeeps, AskFailsKeeps, RunEndsKeeps DEF Fault
<1>5. ASSUME NEW j \in JobIds, FaultOf(j) PROVE InferenceInv'
  <2>1. CASE LeaseLapses(j)
    <3>1. UNCHANGED <<store, infer, proposals>>
      BY Zenon, <2>1 DEF LeaseLapses
    <3> QED BY Zenon, <3>1, ReadKeeps
  <2> QED BY Zenon, <1>5, <2>1, RevokeKeeps DEF FaultOf
<1>6. CASE UNCHANGED vars
  <2>1. UNCHANGED <<store, infer, proposals>>
    BY Zenon, <1>6 DEF vars, inference
  <2> QED BY Zenon, <2>1, ReadKeeps
<1> QED BY Zenon, <1>1, <1>2, <1>3, <1>4, <1>5, <1>6, HandlersKeep, ContentKeeps DEF Next

(* The inductive invariant of infer-fill: it relates the jobs' rows, the
   proposals, the snapshots and what the open confirmations have marked and
   saved so far (confirm, reconcile_attempt). *)
THEOREM InferenceConsistent == Spec => []InferenceInv
<1> QED BY InferenceStarts, InferenceStep, PTL DEF Spec

(* At most one inference of a workspace runs, for any number of jobs, attempts
   and lapsed leases: only an attempt that finds no other running takes its row
   over (reconcile_attempt and the running-job index). *)
THEOREM OneInferenceRunsHolds == Spec => []OneInferenceRuns
<1>1. InferenceInv => OneInferenceRuns
  <2> SUFFICES ASSUME InferenceInv PROVE OneInferenceRuns
    OBVIOUS
  <2> DEFINE T == {j \in JobIds : infer[j].status = "running"}
  <2>1. \A i, j \in T : i = j
    BY Zenon DEF InferenceInv, RowsHold
  <2>2. CASE T = {}
    <3>1. Cardinality(T) = 0
      BY Zenon, <2>2, FS_EmptySet
    <3> QED BY <3>1 DEF OneInferenceRuns
  <2>3. CASE T # {}
    <3>1. PICK j : T = {j}
      BY Zenon, <2>1, <2>3
    <3>2. Cardinality(T) = 1
      BY Zenon, <3>1, FS_Singleton
    <3> QED BY <3>2 DEF OneInferenceRuns
  <2> QED BY Zenon, <2>2, <2>3
<1> QED BY <1>1, InferenceConsistent, PTL

(* What a job's confirmation wrote is what its undo restores: the entities with
   a confirmed proposal are those saved under the job, each once, whatever
   other deliveries, decisions and writers do meanwhile (confirm). *)
THEOREM ConfirmedIsSavedHolds == Spec => []ConfirmedIsSaved
<1>1. InferenceInv => ConfirmedIsSaved
  <2> SUFFICES ASSUME InferenceInv, NEW j \in JobIds
               PROVE  /\ {snapshots[i].entity : i \in {i \in DOMAIN snapshots : snapshots[i].job = j}}
                           = {p.entity : p \in {p \in ProposalsOf(j) : p.status = "confirmed"}}
                      /\ \A i, k \in DOMAIN snapshots :
                           snapshots[i].job = j /\ snapshots[k].job = j
                             /\ snapshots[i].entity = snapshots[k].entity => i = k
    BY Zenon DEF ConfirmedIsSaved
  <2>1. SavedIn(snapshots, j) = ConfirmedIn(proposals, j) /\ SavedOnce(snapshots, j)
    BY Zenon DEF InferenceInv, SavedOK, JobSaved
  <2>2. {p \in ProposalsOf(j) : p.status = "confirmed"} = {q \in proposals : q.job = j /\ q.status = "confirmed"}
    BY Zenon DEF ProposalsOf
  <2>3. {p.entity : p \in {p \in ProposalsOf(j) : p.status = "confirmed"}} = ConfirmedIn(proposals, j)
    BY Zenon, <2>2 DEF ConfirmedIn
  <2>4. {snapshots[i].entity : i \in {i \in DOMAIN snapshots : snapshots[i].job = j}} = SavedIn(snapshots, j)
    BY Zenon DEF SavedIn
  <2> QED BY <2>1, <2>3, <2>4 DEF SavedOnce
<1> QED BY <1>1, InferenceConsistent, PTL
================================================================================

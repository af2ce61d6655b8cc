--------------------------- MODULE QueryEmbedding ---------------------------
(***************************************************************************)
(* One search asks a worker to embed its query.  The API server opens a    *)
(* request row together with a deadline-bound dispatch, polls the row and  *)
(* gives up after a timeout; a worker answers or fails the row; finished   *)
(* rows are consumed by the read that returns them, and rows past their    *)
(* retention are purged by whoever comes next.  No lifecycle row and no    *)
(* lease is involved: every transition is fenced on the row's status.      *)
(*                                                                         *)
(* The deadline the row carries is read on the workers' clocks, the        *)
(* caller's timeout runs on its own, so either may come first.             *)
(***************************************************************************)
EXTENDS Naturals, FiniteSets

CONSTANTS
    Requests,   \* searches, each with its request row and its dispatch
    Workers,    \* consumer slots of one worker process
    Permits,    \* provider calls the process may have in progress
    MaxCopies,  \* bound on the provider jobs of a request that wait at once
    MayRetire,  \* whether the tenant may be retired
    None

ASSUME ConstantsAssumption ==
    /\ Permits \in Nat
    /\ MaxCopies \in Nat
    /\ MayRetire \in BOOLEAN
    /\ None \notin Requests

VARIABLES
    row,        \* query_embedding_requests.status, "none" before, "gone" after
    late,       \* the requests whose deadline_at has passed
    stale,      \* the requests whose expires_at has passed
    dispatch,   \* the outbox row of the request
    relaying,   \* the requests a relay has claimed
    copies,     \* how many provider jobs of the request wait for a worker
    tenant,     \* the tenant of the workspace
    pc,         \* what each consumer slot is doing
    req,        \* for which request
    client,     \* where each caller stands in embed_query
    result,     \* what embed_query returned
    decided     \* history: what became of the row when it left pending

clientVars == <<client, result>>
relayVars == <<dispatch, relaying, copies>>
workerVars == <<pc, req>>
timeVars == <<late, stale>>
vars == <<row, timeVars, relayVars, tenant, workerVars, clientVars, decided>>

Finished == {"succeeded", "failed", "expired"}

Init ==
    /\ row = [r \in Requests |-> "none"]
    /\ late = {}
    /\ stale = {}
    /\ dispatch = [r \in Requests |-> "none"]
    /\ relaying = {}
    /\ copies = [r \in Requests |-> 0]
    /\ tenant = "active"
    /\ pc = [w \in Workers |-> "idle"]
    /\ req = [w \in Workers |-> None]
    /\ client = [r \in Requests |-> "none"]
    /\ result = [r \in Requests |-> "nothing"]
    /\ decided = [r \in Requests |-> "open"]

-----------------------------------------------------------------------------
(* The transitions of a row. *)

(* A row leaves pending: what became of it is remembered. *)
Settle(r, to) ==
    /\ row' = [row EXCEPT ![r] = to]
    /\ decided' = [decided EXCEPT ![r] = to]

(* The rows S are deleted; a pending one is thereby decided. *)
Deleted(S) ==
    /\ row' = [r \in Requests |-> IF r \in S THEN "gone" ELSE row[r]]
    /\ decided' = [r \in Requests |->
            IF r \in S /\ row[r] = "pending" THEN "removed" ELSE decided[r]]

(* purge_expired deletes every row past its expiry, whatever its status.  Both
   its callers go on when it fails, so a purge removes all of them or none. *)
Purgeable == { r \in stale : row[r] # "none" }
Purges == {Purgeable, {}}

(* take: a finished row is deleted by the statement that returns it. *)
Take(r) ==
    \/ /\ row[r] \in Finished
       /\ row' = [row EXCEPT ![r] = "gone"]
    \/ /\ row[r] \notin Finished
       /\ UNCHANGED row

-----------------------------------------------------------------------------
(* The caller: embed_query and wait. *)

(* Scope::open: purge, open and record_query_in_transaction in one transaction.
   The caller was authorised earlier, so the tenant may be disabled by now. *)
Open(r) ==
    /\ client[r] = "none"
    /\ tenant # "deleted"
    /\ \E S \in Purges :
        /\ row' = [q \in Requests |-> IF q = r THEN "pending"
                                      ELSE IF q \in S THEN "gone" ELSE row[q]]
        /\ decided' = [q \in Requests |-> IF q \in S /\ row[q] = "pending"
                                          THEN "removed" ELSE decided[q]]
    /\ dispatch' = [dispatch EXCEPT ![r] = "pending"]
    /\ client' = [client EXCEPT ![r] = "polling"]
    /\ UNCHANGED <<timeVars, relaying, copies, tenant, workerVars, result>>

(* finished_result, of the status that was read. *)
FinishedResult(status) ==
    CASE status = "succeeded" -> "vector"
      [] status = "failed" -> "unavailable"
      [] status \in {"expired", "pending"} -> "busy"
      [] status = "gone" -> "unavailable"

Replied(r, reply) ==
    /\ client' = [client EXCEPT ![r] = "done"]
    /\ result' = [result EXCEPT ![r] = reply]

(* One poll that finds the request finished, or no row at all. *)
Poll(r) ==
    /\ client[r] = "polling"
    /\ row[r] # "pending"
    /\ Take(r)
    /\ Replied(r, FinishedResult(row[r]))
    /\ UNCHANGED <<timeVars, relayVars, tenant, workerVars, decided>>

(* The last poll found the row pending, and no time is left.  *)
TimeOut(r) ==
    /\ client[r] = "polling"
    /\ row[r] = "pending"
    /\ client' = [client EXCEPT ![r] = "expiring"]
    /\ UNCHANGED <<row, timeVars, relayVars, tenant, workerVars, result, decided>>

(* expire: fenced on pending, so that a worker that finished in between wins. *)
ExpireBlindly(r) ==
    /\ client[r] = "expiring"
    /\ Settle(r, "expired")
    /\ client' = [client EXCEPT ![r] = "cleanup"]
    /\ UNCHANGED <<timeVars, relayVars, tenant, workerVars, result>>
Expire(r) ==
    /\ client[r] = "expiring"
    /\ \/ /\ row[r] = "pending"
          /\ Settle(r, "expired")
          /\ client' = [client EXCEPT ![r] = "cleanup"]
       \/ /\ row[r] # "pending"
          /\ client' = [client EXCEPT ![r] = "reading"]
          /\ UNCHANGED <<row, decided>>
    /\ UNCHANGED <<timeVars, relayVars, tenant, workerVars, result>>

(* The read after expire: it consumes the row, and says "busy" if expire won. *)
ReadAfterExpireStops(r) ==
    /\ client[r] = "cleanup"
    /\ Take(r)
    /\ Replied(r, "busy")
    /\ UNCHANGED <<timeVars, relayVars, tenant, workerVars, decided>>
ReadAfterExpire(r) ==
    /\ client[r] \in {"cleanup", "reading"}
    /\ Take(r)
    /\ Replied(r, IF client[r] = "cleanup" THEN "busy" ELSE FinishedResult(row[r]))
    /\ UNCHANGED <<timeVars, relayVars, tenant, workerVars, decided>>

(* The caller disconnects, its process dies, or one of its statements fails. *)
ClientLeaves(r) ==
    /\ client[r] \notin {"none", "done"}
    /\ Replied(r, "error")
    /\ UNCHANGED <<row, timeVars, relayVars, tenant, workerVars, decided>>

-----------------------------------------------------------------------------
(* The relay, for a dispatch without a lifecycle row. *)

(* due and claim_dispatch: the deadline lies ahead when the row is scanned. *)
RelayClaim(r) ==
    /\ dispatch[r] = "pending"
    /\ r \notin late
    /\ r \notin relaying
    /\ relaying' = relaying \cup {r}
    /\ UNCHANGED <<row, timeVars, dispatch, copies, tenant, workerVars, clientVars,
                   decided>>

(* Publish: acknowledged, or not, in which case it is published again. *)
RelayPublish(r) ==
    /\ r \in relaying
    /\ r \notin late
    /\ copies[r] < MaxCopies
    /\ copies' = [copies EXCEPT ![r] = @ + 1]
    /\ \/ dispatch[r] = "pending" /\ dispatch' = [dispatch EXCEPT ![r] = "published"]
       \/ UNCHANGED dispatch
    /\ relaying' = relaying \ {r}
    /\ UNCHANGED <<row, timeVars, tenant, workerVars, clientVars, decided>>

(* The deadline passed between the scan and the publish: the dispatch goes. *)
RelayExpires(r) ==
    /\ r \in relaying
    /\ r \in late
    /\ dispatch' = [dispatch EXCEPT ![r] = "none"]
    /\ relaying' = relaying \ {r}
    /\ UNCHANGED <<row, timeVars, copies, tenant, workerVars, clientVars, decided>>

RelayFails(r) ==
    /\ r \in relaying
    /\ relaying' = relaying \ {r}
    /\ UNCHANGED <<row, timeVars, dispatch, copies, tenant, workerVars, clientVars,
                   decided>>

-----------------------------------------------------------------------------
(* The worker: answer and embed. *)

Fetch(w, r) ==
    /\ pc[w] = "idle"
    /\ copies[r] > 0
    /\ copies' = [copies EXCEPT ![r] = @ - 1]
    /\ pc' = [pc EXCEPT ![w] = "purge"]
    /\ req' = [req EXCEPT ![w] = r]
    /\ UNCHANGED <<row, timeVars, dispatch, relaying, tenant, clientVars, decided>>

WorkerPurge(w) ==
    /\ pc[w] = "purge"
    /\ \E S \in Purges : Deleted(S)
    /\ pc' = [pc EXCEPT ![w] = "find"]
    /\ UNCHANGED <<timeVars, relayVars, tenant, req, clientVars>>

WorkerIdles(w) ==
    /\ pc' = [pc EXCEPT ![w] = "idle"]
    /\ req' = [req EXCEPT ![w] = None]

(* find_pending: a late delivery finds nothing to do. *)
FindPending(w) ==
    LET r == req[w] IN
    /\ pc[w] = "find"
    /\ \/ /\ row[r] = "pending"
          /\ r \notin stale \cup late
          /\ pc' = [pc EXCEPT ![w] = "permit"]
          /\ UNCHANGED req
       \/ /\ row[r] # "pending" \/ r \in stale \cup late
          /\ WorkerIdles(w)
    /\ UNCHANGED <<row, timeVars, relayVars, tenant, clientVars, decided>>

Embedding == { w \in Workers : pc[w] \in {"check", "embed"} }

AcquirePermit(w) ==
    /\ pc[w] = "permit"
    /\ Cardinality(Embedding) < Permits
    /\ pc' = [pc EXCEPT ![w] = "check"]
    /\ UNCHANGED <<row, timeVars, relayVars, tenant, req, clientVars, decided>>

(* No provider is configured, or a lookup before the provider call fails. *)
EmbedFails(w) ==
    /\ pc[w] \in {"permit", "check"}
    /\ pc' = [pc EXCEPT ![w] = "fail"]
    /\ UNCHANGED <<row, timeVars, relayVars, tenant, req, clientVars, decided>>

(* With the permit in hand: the deadline again, and the tenant again. *)
StartEmbedding(w) ==
    /\ pc[w] = "check"
    /\ pc' = [pc EXCEPT ![w] = IF req[w] \in late \/ tenant # "active"
                               THEN "fail" ELSE "embed"]
    /\ UNCHANGED <<row, timeVars, relayVars, tenant, req, clientVars, decided>>

(* The provider answers with a vector of the workspace's width, or does not. *)
ProviderReturns(w) ==
    /\ pc[w] = "embed"
    /\ \E next \in {"store", "fail"} : pc' = [pc EXCEPT ![w] = next]
    /\ UNCHANGED <<row, timeVars, relayVars, tenant, req, clientVars, decided>>

(* complete: the row is still pending and the tenant still active. *)
Complete(w) ==
    LET r == req[w] IN
    /\ pc[w] = "store"
    /\ \/ /\ row[r] = "pending"
          /\ tenant = "active"
          /\ Settle(r, "succeeded")
       \/ /\ row[r] # "pending" \/ tenant # "active"
          /\ UNCHANGED <<row, decided>>
    /\ WorkerIdles(w)
    /\ UNCHANGED <<timeVars, relayVars, tenant, clientVars>>

(* fail: the row is still pending. *)
Fail(w) ==
    LET r == req[w] IN
    /\ pc[w] = "fail"
    /\ \/ row[r] = "pending" /\ Settle(r, "failed")
       \/ row[r] # "pending" /\ UNCHANGED <<row, decided>>
    /\ WorkerIdles(w)
    /\ UNCHANGED <<timeVars, relayVars, tenant, clientVars>>

(* The worker dies and the reaper redelivers, or a statement of it fails. *)
WorkerCrash(w) ==
    /\ pc[w] # "idle"
    /\ \/ /\ copies[req[w]] < MaxCopies
          /\ copies' = [copies EXCEPT ![req[w]] = @ + 1]
       \/ UNCHANGED copies
    /\ WorkerIdles(w)
    /\ UNCHANGED <<row, timeVars, dispatch, relaying, tenant, clientVars, decided>>

-----------------------------------------------------------------------------
(* Time and the tenant. *)

DeadlinePasses(r) ==
    /\ row[r] # "none"
    /\ r \notin late
    /\ late' = late \cup {r}
    /\ UNCHANGED <<row, stale, relayVars, tenant, workerVars, clientVars, decided>>

RetentionEnds(r) ==
    /\ row[r] # "none"
    /\ r \notin stale
    /\ stale' = stale \cup {r}
    /\ UNCHANGED <<row, late, relayVars, tenant, workerVars, clientVars, decided>>

(* cancel_work, for the requests and dispatches of the tenant's workspaces. *)
DisableTenant ==
    /\ MayRetire
    /\ tenant # "deleted"
    /\ tenant' = "disabled"
    /\ row' = [r \in Requests |-> IF row[r] = "pending" THEN "failed" ELSE row[r]]
    /\ decided' = [r \in Requests |->
            IF row[r] = "pending" THEN "failed" ELSE decided[r]]
    /\ dispatch' = [r \in Requests |-> "none"]
    /\ UNCHANGED <<timeVars, relaying, copies, workerVars, clientVars>>

(* Deletion cascades from the workspace to its requests. *)
DeleteTenant ==
    /\ tenant = "disabled"
    /\ tenant' = "deleted"
    /\ row' = [r \in Requests |-> IF row[r] = "none" THEN "none" ELSE "gone"]
    /\ decided' = [r \in Requests |->
            IF row[r] = "pending" THEN "failed" ELSE decided[r]]
    /\ dispatch' = [r \in Requests |-> "none"]
    /\ UNCHANGED <<timeVars, relaying, copies, workerVars, clientVars>>

-----------------------------------------------------------------------------
ClientStep == \E r \in Requests :
    Open(r) \/ Poll(r) \/ TimeOut(r) \/ Expire(r) \/ ReadAfterExpire(r)
        \/ ClientLeaves(r)

RelayStep == \E r \in Requests :
    RelayClaim(r) \/ RelayPublish(r) \/ RelayExpires(r) \/ RelayFails(r)

WorkerStep == \E w \in Workers :
    \/ \E r \in Requests : Fetch(w, r)
    \/ WorkerPurge(w) \/ FindPending(w) \/ AcquirePermit(w) \/ EmbedFails(w)
    \/ StartEmbedding(w) \/ ProviderReturns(w) \/ Complete(w) \/ Fail(w) \/ WorkerCrash(w)

TimeStep == \E r \in Requests : DeadlinePasses(r) \/ RetentionEnds(r)

Next == ClientStep \/ RelayStep \/ WorkerStep \/ TimeStep \/ DisableTenant
            \/ DeleteTenant

Spec == Init /\ [][Next]_vars

-----------------------------------------------------------------------------
(* Properties. *)

TypeOK ==
    /\ row \in [Requests -> Finished \cup {"none", "pending", "gone"}]
    /\ late \subseteq Requests
    /\ stale \subseteq Requests
    /\ dispatch \in [Requests -> {"none", "pending", "published"}]
    /\ relaying \subseteq Requests
    /\ copies \in [Requests -> 0 .. MaxCopies]
    /\ tenant \in {"active", "disabled", "deleted"}
    /\ pc \in [Workers -> {"idle", "purge", "find", "permit", "check", "embed",
                           "store", "fail"}]
    /\ req \in [Workers -> Requests \cup {None}]
    /\ client \in [Requests -> {"none", "polling", "expiring", "cleanup",
                                "reading", "done"}]
    /\ result \in [Requests -> {"nothing", "vector", "busy", "unavailable", "error"}]
    /\ decided \in [Requests -> Finished \cup {"open", "removed"}]
    /\ \A w \in Workers : pc[w] # "idle" => req[w] \in Requests
    /\ \A r \in Requests : row[r] = "none" <=> client[r] = "none"

(* The handshake keeps its promise, however callers, workers, relays, purges
   and retirement interleave: a request is decided once, a late worker does not
   overwrite what was expired or consumed, and the caller's reply agrees with
   the decision.  In particular "no embedding worker answered" is never said of
   a request a worker answered. *)
Promise == INSTANCE SearchPromise WITH decision <- decided, told <- result
KeepsPromise == Promise!Spec

(* A vector that was handed out is gone: nobody else can take it, and no
   redelivered job finds the request pending again. *)
ConsumedOnce ==
    \A r \in Requests : result[r] \in {"vector", "busy"} => row[r] = "gone"

(* The row and the history agree, which is what makes the promise inductive. *)
RowTellsDecision ==
    \A r \in Requests :
        /\ row[r] \in {"none", "pending"} <=> decided[r] = "open"
        /\ row[r] \in Finished => decided[r] = row[r]
        /\ client[r] = "done" <=> result[r] # "nothing"
        /\ client[r] = "cleanup" => decided[r] = "expired"
        /\ client[r] = "reading" => row[r] # "pending"
        /\ decided[r] = "expired" => client[r] \in {"cleanup", "done"}

(* Only the caller's own process has to go on for a search to return. *)
Fairness ==
    \A r \in Requests :
        WF_vars(Poll(r) \/ TimeOut(r) \/ Expire(r) \/ ReadAfterExpire(r))
FairSpec == Spec /\ Fairness

(* wait: the number of reads is bounded, so every search returns, with or
   without workers, relays and a live tenant. *)
SearchReturns == \A r \in Requests : client[r] # "none" ~> client[r] = "done"
=============================================================================

---------------------------- MODULE SearchPromise ----------------------------
(***************************************************************************)
(* What the query-embedding handshake promises a search: the outcome of a  *)
(* request is decided once, by the worker that answers or fails it, by the *)
(* caller that gives up, or by whoever removes the row; and the caller is  *)
(* told at most once, in agreement with that decision.                     *)
(***************************************************************************)
CONSTANT Requests

VARIABLES
    decision,   \* what became of each request
    told        \* what its caller was told

Decisions == {"succeeded", "failed", "expired", "removed"}
Replies == {"vector", "busy", "unavailable", "error"}

Init ==
    /\ decision = [r \in Requests |-> "open"]
    /\ told = [r \in Requests |-> "nothing"]

(* A caller learns of a vector only when there is one, and is told that nobody
   answered only when nobody did.  A result removed before it was read, and a
   failed read, are reported as such. *)
Agrees(d, reply) ==
    \/ reply = "vector" /\ d = "succeeded"
    \/ reply = "busy" /\ d = "expired"
    \/ reply = "unavailable" /\ d \in {"succeeded", "failed", "removed"}
    \/ reply = "error"

Tell(r, reply) ==
    /\ told[r] = "nothing"
    /\ Agrees(decision[r], reply)
    /\ told' = [told EXCEPT ![r] = reply]
    /\ UNCHANGED decision

(* Retirement and the purge decide many requests at once. *)
DecideAll(S, d) ==
    /\ \A r \in S : decision[r] = "open"
    /\ decision' = [r \in Requests |-> IF r \in S THEN d ELSE decision[r]]

Next ==
    \/ \E S \in SUBSET Requests, d \in Decisions : DecideAll(S, d) /\ UNCHANGED told
    \/ \E r \in Requests, reply \in Replies : Tell(r, reply)

Spec == Init /\ [][Next]_<<decision, told>>
=============================================================================

----------------------------- MODULE RateLimits -----------------------------
(***************************************************************************)
(* The fixed-window limiter of credential routes (by client address, each  *)
(* request costs one) and of searches (by workspace, a query costs its     *)
(* tokens).  Every call is one step under the limiter's mutex.             *)
(***************************************************************************)
EXTENDS Deployment

CONSTANTS
    Clients,        \* addresses, or workspaces
    Costs,          \* what a request may cost
    MaxRequests,    \* the budget of a window
    Window,         \* its length
    GcThreshold,    \* GC_BUCKET_THRESHOLD
    MaxU32          \* where the counter saturates

ASSUME LimitAssumption ==
    /\ Costs \subseteq Nat /\ GcThreshold \in Nat
    /\ Window \in Nat \ {0}
    /\ MaxU32 \in Nat /\ MaxRequests \in Nat /\ MaxRequests < MaxU32
    /\ None \notin [start: Nat, spent: Nat]

VARIABLES
    buckets,    \* the window of each client: its start and what was spent, or None
    admitted    \* history: what was let through in each client's last window

quota == <<buckets, admitted>>

Elapsed(b) == now - b.start >= Window

retain_none == [c \in Clients |-> None]

(* Entries whose window is over are evicted when there are many. *)
retain ==
    [c \in Clients |-> IF buckets[c] # None /\ Elapsed(buckets[c]) THEN None ELSE buckets[c]]

Collected ==
    IF Cardinality({c \in Clients : buckets[c] # None}) > GcThreshold THEN retain ELSE buckets

(* The window a call falls in. *)
Entry(b) == IF b = None \/ Elapsed(b) THEN [start |-> now, spent |-> 0] ELSE b

saturating_add(a, b) == IF a + b > MaxU32 THEN MaxU32 ELSE a + b

(* The requests let through in a window: their cost, and how many cost something. *)
Admit(a, start, cost) ==
    LET paid == IF cost > 0 THEN 1 ELSE 0
    IN IF a.start = start
       THEN [start |-> start, total |-> a.total + cost, paid |-> a.paid + paid]
       ELSE [start |-> start, total |-> cost, paid |-> paid]

allow_cost(c, cost) ==
    LET entry == Entry(Collected[c])
        spent == saturating_add(entry.spent, cost)
    IN /\ buckets' = [Collected EXCEPT ![c] = [start |-> entry.start, spent |-> spent]]
       /\ admitted' = IF spent <= MaxRequests \/ entry.spent = 0
                      THEN [admitted EXCEPT ![c] = Admit(@, entry.start, cost)] ELSE admitted

LimitsInit ==
    /\ buckets = [c \in Clients |-> None]
    /\ admitted = [c \in Clients |-> [start |-> 0, total |-> 0, paid |-> 0]]

(* The requests let through in a window cost no more than its budget, unless a
   single one exceeds it: then nothing else of a cost was let through in that
   window (allow_cost, its eviction of old entries and its saturating counter). *)
WindowBudget ==
    \A c \in Clients : admitted[c].total <= MaxRequests \/ admitted[c].paid = 1
=============================================================================

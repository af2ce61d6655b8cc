----------------------------- MODULE MCJobQueue -----------------------------
(* Model-checking instances of JobQueue. *)
EXTENDS JobQueue, TLC

CONSTANTS j1, j2, w1, w2, w3, r1, r2, c1, c2, c3, k1

SharedKey == [j \in Capped |-> k1]
LimitOne == [k \in Keys |-> 1]

Symmetry == Permutations(Workers) \cup Permutations(Copies)
                \cup Permutations(Relays)

(* Everything except a redelivery while the lease still looks live. *)
BaseFaults ==
    FaultKinds \ {"reap_live_lease", "reap_live_worker", "retry_live_lease"}

(* A stalled heartbeat and a duplicate publish. *)
StaleFaults == {"lease_lapse", "enqueue_timeout"}

(* What delays a job without an operator having to step in. *)
DelayFaults ==
    {"worker_crash", "relay_crash", "heartbeat_error", "lease_lapse",
     "claim_lapse", "enqueue_error", "enqueue_timeout"}
=============================================================================

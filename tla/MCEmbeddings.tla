---------------------------- MODULE MCEmbeddings ----------------------------
(* Model-checking instances of Embeddings. *)
EXTENDS Embeddings, TLC

CONSTANTS e1, e2, t1, t2, own, other, w1, w2, r1, r2, m1, m2

OneModel == [p \in Providers |-> m1]
TwoModels == [p \in Providers |-> IF p = own THEN m1 ELSE m2]

Symmetry == Permutations(Texts) \cup Permutations(Entities)
                \cup Permutations(Syncers) \cup Permutations(Reindexers)

Steps(some) == some @@ [k \in Kinds |-> 0]

(* Three writes around one reindex, with a worker that dies; two changes of
   the provider around a write. *)
SyncSteps ==
    { Steps("write" :> 3 @@ "reindex" :> 1 @@ "crash" :> 1),
      Steps("write" :> 1 @@ "assign" :> 2 @@ "crash" :> 1) }

(* Everything once, and two writes. *)
ModelSteps ==
    { Steps("write" :> 2 @@ "bulk" :> 1 @@ "scan" :> 1 @@ "resync" :> 1
              @@ "fail" :> 1) }

(* Enough scans for a reindex after every one that fails: a write can fail one,
   and a change of the provider brings a reindex of its own. *)
LivenessSteps ==
    { Steps("write" :> 2 @@ "assign" :> 1 @@ "reindex" :> 1 @@ "scan" :> 3) }
=============================================================================

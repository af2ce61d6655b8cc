----------------------------- MODULE MCInference -----------------------------
(* Model-checking instance of InferenceApi.  Every behaviour starts where one
   schema has a second version and its entities are on the first. *)
EXTENDS InferenceApi, TLC

CONSTANTS ada, ben

Plain(type, required) ==
  [type |-> type, required |-> required, enum |-> None, floor |-> None, ceiling |-> None,
   rule |-> None, default |-> None]

Title == <<"title">>
Tag == <<"tag">>
Mark == <<"mark">>

Definition(fields) == [name |-> "note", types |-> [doc |-> fields], relations |-> <<>>]

First == Definition(Title :> Plain("string", TRUE))
Tagged == Definition(Title :> Plain("string", TRUE) @@ Tag :> Plain("string", TRUE))
Marked == Definition(Title :> Plain("string", TRUE) @@ Tag :> Plain("string", TRUE)
                     @@ Mark :> Plain("string", FALSE))

Short == Title :> <<"string", 1>>
WithTag == Short @@ Tag :> <<"string", 2>>

MCDefs == {Marked}
MCDatas == {WithTag}

(* One answer the tag accepts and one it does not. *)
MCGuesses == {<<"string", 1>>, <<"integer", 1>>}

MCScope == ada :> MigrationScope @@ ben :> MigrationScope

Calls(f) == [k \in Kinds |-> IF k \in DOMAIN f THEN f[k] ELSE 0]

(* With one entity behind the active version. *)
Solo ==
    { Calls([infer |-> 1, decide |-> 2, undo |-> 1]),
      Calls([infer |-> 1, decide |-> 2, edit |-> 1]),
      Calls([infer |-> 1, decide |-> 1, delete |-> 1]),
      Calls([infer |-> 1, decide |-> 1, schema |-> 2]),
      Calls([infer |-> 1, decide |-> 1, fault |-> 1]),
      Calls([infer |-> 1, fault |-> 3]),
      Calls([infer |-> 1, schema |-> 1, fault |-> 2]),
      Calls([infer |-> 2, fault |-> 1]),
      Calls([infer |-> 1, llm |-> 2]),
      Calls([infer |-> 1, decide |-> 1, read |-> 1]),
      Calls([llm |-> 1, read |-> 1]) }

(* With two. *)
Pair ==
    { Calls([infer |-> 1, decide |-> 1, schema |-> 1]),
      Calls([infer |-> 1, fault |-> 1]) }

Scenarios == Solo \cup Pair

MCInit ==
    /\ budget \in Budgets
    /\ schemas = [s \in SchemaIds |->
         CASE s = 1 -> SchemaRow(Ws, First, 1, "archived", None, None, FALSE)
           [] s = 2 -> SchemaRow(Ws, Tagged, 2, "active", None, None, FALSE)
           [] OTHER -> FreshSchema]
    /\ home = [status |-> "active", schema |-> 1]
    /\ entities = [e \in EntityIds |->
         IF e = 1 \/ budget \in Pair THEN EntityRow(1, "doc", Short, 0, "create") ELSE FreshEntity]
    /\ relations = [x \in RelationIds |-> [state |-> "fresh"]]
    /\ snapshots = <<>>
    /\ jobs = [j \in JobIds |-> FreshJob]
    /\ done = {}
    /\ locks = [k \in {"workspace"} \cup Names |-> None]
    /\ calls = [c \in Callers |-> Idle]
    /\ infer = [j \in JobIds |-> FreshInfer]
    /\ life = [j \in JobIds |-> FreshLife]
    /\ proposals = {}
    /\ llm = TRUE
    /\ answer = None

MCSpec == MCInit /\ [][Next]_vars

Twins == Permutations(Callers)
==============================================================================

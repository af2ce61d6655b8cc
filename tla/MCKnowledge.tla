----------------------------- MODULE MCKnowledge -----------------------------
(* Model-checking instance of KnowledgeApi.  Each budget is a scenario; what
   the scenarios explore is the union of their behaviours. *)
EXTENDS KnowledgeApi, TLC

CONSTANTS ada, ben

(* A field that says nothing more than its type. *)
Plain(type, required) ==
  [type |-> type, required |-> required, enum |-> None, floor |-> None, ceiling |-> None,
   rule |-> None, default |-> None]

Title == <<"title">>
Tag == <<"tag">>
Mark == <<"mark">>
Meta == <<"meta">>
Pages == <<"meta", "pages">>

Cites == [cites |-> [source |-> "doc", target |-> "doc"]]

Definition(name, fields) == [name |-> name, types |-> [doc |-> fields], relations |-> Cites]

(* Version by version: a title; its length limited; a required tag and mark; an object
   with a required property; the title one of two; and another schema. *)
First == Definition("note", Title :> Plain("string", TRUE))
Longer == Definition("note", Title :> [Plain("string", TRUE) EXCEPT !.floor = 1])
Tagged == Definition("note", Title :> Plain("string", TRUE)
                             @@ Tag :> Plain("string", TRUE)
                             @@ Mark :> [Plain("string", TRUE) EXCEPT !.default = <<"string", 1>>])
Nested == Definition("note", Title :> Plain("string", FALSE) @@ Meta :> Plain("object", FALSE)
                             @@ Pages :> Plain("integer", TRUE))
Other == Definition("log", Title :> Plain("string", TRUE))

MCDefs == {First, Longer, Tagged, Nested, Other}

Empty == Title :> <<"string", 0>>
Short == Title :> <<"string", 1>>
Both == Short @@ Tag :> <<"string", 1>> @@ Mark :> <<"string", 1>>
Deep == Short @@ Meta :> <<"object", 0>> @@ Pages :> <<"integer", 2>>

MCDatas == {Empty, Short, Both, Deep}

SchemaLine(id, def) == [kind |-> "schema", id |-> id, def |-> def]
EntityLine(id, s, data) == [kind |-> "entity", id |-> id, schema |-> s, type |-> "doc", data |-> data]
RelationLine(e, f) == [kind |-> "relation", source |-> e, target |-> f, type |-> "cites"]

(* A file with its own schema, one that relies on what is there, one that
   fails at its last line. *)
MCFiles ==
  { <<SchemaLine(1, Tagged), EntityLine(1, 1, Both)>>,
    <<EntityLine(2, 1, Short), RelationLine(2, 1)>>,
    <<SchemaLine(1, Tagged), EntityLine(1, 1, Short)>> }

MCScope == ada :> MigrationScope @@ ben :> WriteScope

Calls(f) == [k \in Kinds |-> IF k \in DOMAIN f THEN f[k] ELSE 0]

FromNothing ==
    { Calls([schema |-> 2, create |-> 2]), Calls([schema |-> 3]), Calls([schema |-> 1, import |-> 1, create |-> 1]) }

(* Once the first version is active and entity 1 is on it. *)
FromEstablished ==
    { Calls([edit |-> 2, delete |-> 1]),
      Calls([schema |-> 3, create |-> 1]),
      Calls([schema |-> 2, create |-> 1, edit |-> 1]),
      Calls([schema |-> 2, create |-> 1, delete |-> 1]),
      Calls([schema |-> 1, fill |-> 1, edit |-> 1, fault |-> 1]),
      Calls([schema |-> 1, fill |-> 1, edit |-> 1, undo |-> 1]),
      Calls([schema |-> 1, fill |-> 1, delete |-> 1, undo |-> 1]),
      Calls([schema |-> 1, fill |-> 2, edit |-> 1, undo |-> 1]),
      Calls([schema |-> 2, fill |-> 1, undo |-> 1]),
      Calls([import |-> 1, create |-> 1, fault |-> 1]),
      Calls([import |-> 1, create |-> 1, delete |-> 1]),
      Calls([create |-> 1, relate |-> 2, delete |-> 1]),
      Calls([create |-> 1, relate |-> 2, schema |-> 1]),
      Calls([create |-> 1, relate |-> 2, read |-> 1]),
      Calls([create |-> 1, relate |-> 1, delete |-> 1, read |-> 1]),
      Calls([schema |-> 1, fill |-> 1, read |-> 1]),
      Calls([import |-> 1, read |-> 1]) }

Scenarios == FromNothing \cup FromEstablished

Established ==
    /\ schemas = [s \in SchemaIds |->
         IF s = 1 THEN SchemaRow(Ws, First, 1, "active", None, None, FALSE) ELSE FreshSchema]
    /\ home = [status |-> "active", schema |-> 1]
    /\ entities = [e \in EntityIds |->
         IF e = 1 THEN EntityRow(1, "doc", Short, 0, "create") ELSE FreshEntity]
    /\ relations = [x \in RelationIds |-> [state |-> "fresh"]]
    /\ snapshots = <<>>
    /\ jobs = [j \in JobIds |-> FreshJob]
    /\ done = {}
    /\ locks = [k \in {"workspace"} \cup Names |-> None]
    /\ calls = [c \in Callers |-> Idle]
    /\ answer = None
    /\ budget \in FromEstablished

MCInit == (Init /\ budget \in FromNothing) \/ Established

MCSpec == MCInit /\ [][Next]_vars
==============================================================================

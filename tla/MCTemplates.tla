----------------------------- MODULE MCTemplates -----------------------------
(* Model-checking instance of TemplatesApi.  Each budget is a scenario; what
   the scenarios explore is the union of their behaviours. *)
EXTENDS TemplatesApi, TLC

CONSTANTS ada, ben, cyn, w1, w2, w3, v1, acme, blue, official

Plain(type) ==
  [type |-> type, required |-> FALSE, enum |-> None, floor |-> None, ceiling |-> None,
   rule |-> None, default |-> None]

Title == <<"title">>
Tag == <<"tag">>
Meta == <<"meta">>
Pages == <<"meta", "pages">>

Definition(types) == [name |-> "note", types |-> types, relations |-> <<>>]

(* A title; a tag as well; the title changed and an object added; the title gone for
   another type. *)
First == Definition([doc |-> Title :> Plain("string")])
Tagged == Definition([doc |-> Title :> Plain("string") @@ Tag :> Plain("string")])
Nested == Definition([doc |-> Title :> Plain("integer") @@ Meta :> Plain("object") @@ Pages :> Plain("integer")])
Moved == Definition([doc |-> Tag :> Plain("integer"), log |-> Title :> Plain("string")])

MCDefs == {First, Tagged, Nested, Moved}
TwoDefs == {First, Tagged}
MCTenantOf == w1 :> acme @@ w2 :> acme @@ w3 :> acme @@ v1 :> blue
MCTenant == ada :> acme @@ ben :> acme @@ cyn :> blue
MCScope == ada :> SchemaScope @@ ben :> SchemaScope @@ cyn :> SchemaScope
MCCallers == {ada, ben, cyn}

(* Keys of one tenant and scope, and workspaces that start empty. *)
Alike == Permutations({ada, ben}) \cup Permutations({w2, w3})

Calls(f) == [k \in Kinds |-> IF k \in DOMAIN f THEN f[k] ELSE 0]

(* From an empty installation. *)
FromNothing ==
    { Calls([library |-> 2, read |-> 1]),
      Calls([library |-> 2, market |-> 1]),
      Calls([seed |-> 3, read |-> 1]),
      Calls([seed |-> 2, version |-> 1, read |-> 1]) }

(* Once acme has a template that w1 follows. *)
FromFollowing ==
    { Calls([library |-> 1, version |-> 1, merge |-> 1]),
      Calls([library |-> 2, merge |-> 1]),
      Calls([library |-> 1, version |-> 1, read |-> 1]),
      Calls([library |-> 1, merge |-> 2]),
      Calls([version |-> 2, merge |-> 1]),
      Calls([market |-> 3, read |-> 1]),
      Calls([market |-> 2, library |-> 1]),
      Calls([fork |-> 2, version |-> 1, retire |-> 1]),
      Calls([fork |-> 2, use |-> 1, retire |-> 1]),
      Calls([fork |-> 2, read |-> 1]),
      Calls([fork |-> 1, version |-> 1, retire |-> 2]) }

(* Once three workspaces of acme have a schema of their own. *)
FromNeighbours ==
    { Calls([fork |-> 3]), Calls([fork |-> 2, version |-> 1]), Calls([fork |-> 1, version |-> 1, read |-> 1]) }

Scenarios == FromNothing \cup FromFollowing \cup FromNeighbours

Neighbours == <<w1, w2, w3>>

(* The rows of an installation with these schemas and templates, at rest. *)
AtRest(S, T) ==
    /\ templates = [t \in TemplateIds |-> IF t \in DOMAIN T THEN T[t] ELSE FreshTemplate]
    /\ published = [t \in TemplateIds |-> <<>>]
    /\ reviews = [t \in TemplateIds |-> [u \in Tenants |-> None]]
    /\ schemas = [s \in SchemaIds |-> IF s \in DOMAIN S THEN S[s] ELSE FreshSchema]
    /\ homes = [w \in Workspaces |->
         IF \E s \in DOMAIN S : S[s].ws = w THEN CHOOSE s \in DOMAIN S : S[s].ws = w ELSE None]
    /\ calls = [c \in Callers |-> Idle]
    /\ seed = None
    /\ late = {}
    /\ forks = [f \in ForkIds |-> FreshFork]
    /\ heads = {}
    /\ used = {}
    /\ answer = None

MCInit ==
    \/ AtRest(<<>>, <<>>) /\ budget \in FromNothing
    \/ /\ AtRest(<<SchemaRow(w1, First, 1, "active", 1, First, TRUE)>>,
                 <<Template(acme, "one", First, "tenant", None)>>)
       /\ budget \in FromFollowing
    \/ /\ AtRest([s \in 1..3 |-> SchemaRow(Neighbours[s], First, 1, "active", None, None, FALSE)], <<>>)
       /\ budget \in FromNeighbours

MCSpec == MCInit /\ [][Next]_vars
==============================================================================

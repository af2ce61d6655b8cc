----------------------------- MODULE MCTenancy -----------------------------
(* Model-checking instance of Operations.  Each budget is a scenario; what the
   scenarios explore is the union of their behaviours. *)
EXTENDS Operations, TLC

CONSTANTS ada, ben, cyd, r1, r2, c1, c2, h1, h2, p1, p2, g1, g2, a1, a2

(* Accounts 3 and 4 have one address: an account can be deleted and made
   again. *)
EmailOf == [u \in Users |-> CASE u = 1 -> ada [] u = 2 -> ben [] OTHER -> cyd]

Calls(f) == [k \in Kinds |-> CASE k \in DOMAIN f -> f[k] [] k = "time" -> 1 [] OTHER -> 0]

FromNothing ==
    { Calls([public |-> 2]),
      Calls([public |-> 1, issue |-> 1]),
      Calls([public |-> 1, provision |-> 2]) }

(* Once two tenants are at work. *)
FromEstablished ==
    { Calls([member |-> 2]), Calls([member |-> 1, key |-> 1]),
      Calls([key |-> 2, time |-> 0]), Calls([member |-> 1, workspace |-> 1]),
      Calls([workspace |-> 2]), Calls([workspace |-> 1, tenant |-> 1]),
      Calls([invite |-> 2]),
      Calls([invite |-> 1, retire |-> 1, public |-> 1, time |-> 0]),
      Calls([invite |-> 1, member |-> 1]),
      Calls([job |-> 1, member |-> 1]), Calls([job |-> 1, tenant |-> 1]),
      Calls([job |-> 1, retire |-> 1]),
      Calls([public |-> 1, member |-> 2, time |-> 0]), Calls([public |-> 1, retire |-> 2]),
      Calls([read |-> 1, retire |-> 1]), Calls([read |-> 1, member |-> 1]),
      Calls([member |-> 1, retire |-> 1]) }

Does(f) == [k \in ChoreKinds |-> IF k \in DOMAIN f THEN f[k] ELSE 0]
NoChores == Does(<<>>)

(* What goes on beside two tenants that nobody holds a key for. *)
Beside ==
    { <<Does([event |-> 5]), Calls([time |-> 0])>>,
      <<Does([event |-> 3]), Calls([retire |-> 2, time |-> 0])>>,
      <<Does([tick |-> 4]), Calls([time |-> 4])>>,
      <<Does([tick |-> 2, schedule |-> 1]), Calls([time |-> 3])>>,
      <<Does([tick |-> 1, schedule |-> 2]), Calls([time |-> 2])>>,
      <<Does([tick |-> 1, schedule |-> 1]), Calls([retire |-> 2, time |-> 2])>>,
      <<Does([sample |-> 4, maintain |-> 1]), Calls([time |-> 2])>>,
      <<Does([sample |-> 3, maintain |-> 2]), Calls([time |-> 2])>>,
      <<Does([charge |-> 5]), Calls([time |-> 2])>> }

Scenarios == FromNothing \cup FromEstablished \cup {b[2] : b \in Beside}
MCChores == {NoChores} \cup {b[1] : b \in Beside}

Event(id, type, created, customer, tenant, plan) ==
    [id |-> id, type |-> type, created |-> created, customer |-> customer,
     tenant |-> tenant, plan |-> plan]

(* One customer's subscription, with two events of the same second; a second
   customer for the same tenant, and one event without a mapped price. *)
MCEvents ==
    { Event(1, "checkout", 1, c1, 1, None), Event(2, "subscription", 1, c1, None, "pro"),
      Event(3, "subscription", 2, c1, None, "team"), Event(4, "deleted", 2, c1, None, None),
      Event(5, "checkout", 3, c2, 1, None), Event(6, "subscription", 3, c2, None, None),
      Event(7, "checkout", 3, c1, 2, None), Event(8, "other", 1, None, None, None) }

(* Tenant 1 was set up by account 1, who issued the tenant's key 1 and added
   account 2 with a grant; account 2 holds a key for workspace 1 and owns
   tenant 2; account 3 has logged in elsewhere and belongs to neither. *)
Established ==
    /\ tenants = [t \in Tenants |-> IF t = 3 THEN "fresh" ELSE "active"]
    /\ caps = [t \in Tenants |-> Unlimited]
    /\ accounts = [u \in Users |->
            CASE u \in {1, 2} -> "password" [] u = 3 -> "oauth" [] OTHER -> "fresh"]
    /\ roles = [p \in Tenants \X Users |->
            CASE p \in {<<1, 1>>, <<2, 2>>} -> "owner"
              [] p = <<1, 2>> -> "member"
              [] OTHER -> "none"]
    /\ owner = [w \in Workspaces |-> IF w = 3 THEN None ELSE w]
    /\ grants = [p \in Workspaces \X Users |->
            IF p = <<1, 2>> THEN "member" ELSE "none"]
    /\ keys = [k \in Keys |->
            CASE k = 1 -> Key(1, None, 1, 4, TRUE, Never, None)
              [] k = 2 -> Key(1, 1, 2, 2, FALSE, Never, None)
              [] k = 3 -> Key(2, 2, 2, 4, FALSE, 1, None)
              [] OTHER -> FreshKey]
    /\ invites = [i \in Invites |-> FreshInvite]
    /\ jobs = [j \in Jobs |-> FreshJob]
    /\ now = 0
    /\ req = [r \in Requests |-> None]
    /\ pend = [r \in Requests |-> None]
    /\ reply = None
    /\ budget \in FromEstablished

(* Two tenants with a workspace each, both scheduled, the first overdue. *)
Serving ==
    /\ tenants = [t \in Tenants |-> IF t = 3 THEN "fresh" ELSE "active"]
    /\ caps = [t \in Tenants |-> Unlimited]
    /\ accounts = [u \in Users |-> "fresh"]
    /\ roles = [p \in Tenants \X Users |-> "none"]
    /\ owner = [w \in Workspaces |-> IF w = 3 THEN None ELSE w]
    /\ grants = [p \in Workspaces \X Users |-> "none"]
    /\ keys = [k \in Keys |-> FreshKey]
    /\ invites = [i \in Invites |-> FreshInvite]
    /\ jobs = [j \in Jobs |-> FreshJob]
    /\ now = 0
    /\ req = [r \in Requests |-> None]
    /\ pend = [r \in Requests |-> None]
    /\ reply = None
    /\ \E b \in Beside : left = b[1] /\ budget = b[2]
    /\ BillingInit /\ MaintenanceInit /\ LimitsInit
    /\ schedules = [t \in Tenants |->
            CASE t = 1 -> [every |-> MinInterval, due |-> 0]
              [] t = 2 -> [every |-> MinInterval, due |-> MinInterval]
              [] OTHER -> NoSchedule]
    /\ ticks = [r \in Replicas |-> None]
    /\ runs = [t \in Tenants |-> <<>>]

MCInit ==
    \/ OperationsInit /\ budget \in FromNothing /\ left = NoChores
    \/ Established /\ HousekeepingInit /\ left = NoChores
    \/ Serving

MCSpec == MCInit /\ [][OperationsNext]_everything

Symmetry == Permutations(Requests)
=============================================================================

----------------------------- MODULE Operations -----------------------------
(* The tenants, and the housekeeping beside them: what surrounds it is every
   handler, tool and task of TenancyApi. *)
EXTENDS TenancyApi, Housekeeping

everything == <<vars, chores>>

TenancyStep == Next /\ Surroundings

OperationsInit == Init /\ HousekeepingInit

OperationsNext == TenancyStep \/ (Chore /\ UNCHANGED vars)

OperationsSpec == OperationsInit /\ [][OperationsNext]_everything
=============================================================================

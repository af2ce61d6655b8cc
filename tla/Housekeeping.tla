---------------------------- MODULE Housekeeping ----------------------------
(***************************************************************************)
(* Billing, reindex schedules, maintenance and rate limits together, in    *)
(* surroundings where time passes and tenants come, are disabled and go.   *)
(***************************************************************************)
EXTENDS Billing, ReindexSchedules, Maintenance, RateLimits

CONSTANT Chores     \* bounds: how many operations of each kind a behaviour has

ChoreKinds == {"event", "schedule", "tick", "maintain", "sample", "charge"}

ASSUME ChoresAssumption == Chores \subseteq [ChoreKinds -> Nat]

VARIABLE left

chores == <<money, timetable, upkeep, quota, left>>
housekeeping == <<tenants, now, chores>>

HousekeepingInit ==
    /\ BillingInit /\ SchedulesInit /\ MaintenanceInit /\ LimitsInit
    /\ left \in Chores

Takes(k) == left[k] > 0 /\ left' = [left EXCEPT ![k] = @ - 1]

BillingStep ==
    /\ \/ \E h \in Hooks, e \in Events : Takes("event") /\ ReceiveEvent(h, e)
       \/ \E h \in Hooks : (ApplyEvent(h) \/ EndDelivery(h)) /\ UNCHANGED left
    /\ UNCHANGED <<timetable, upkeep, quota>>

ScheduleStep ==
    /\ \/ \E t \in Tenants, every \in Intervals : Takes("schedule") /\ set_schedule(t, every)
       \/ \E t \in Tenants : Takes("schedule") /\ clear_schedule(t)
       \/ \E r \in Replicas : Takes("tick") /\ TickBegins(r)
       \/ \E r \in Replicas : (TickOwns(r) \/ TickTenant(r) \/ TickCommits(r) \/ TickEnds(r)) /\ UNCHANGED left
    /\ UNCHANGED <<money, upkeep, quota>>

MaintenanceStep ==
    /\ \/ \E m \in Modes, w \in Reasons \cup {None} : Takes("maintain") /\ set_maintenance(m, w)
       \/ \E g \in Guards, busy \in BOOLEAN : Takes("sample") /\ SampleLoad(g, busy)
       \/ \E g \in Guards : Takes("sample") /\ SampleFails(g)
       \/ \E g \in Guards : set_if_current(g) /\ UNCHANGED left
    /\ UNCHANGED <<money, timetable, quota>>

LimitStep ==
    /\ \E c \in Clients, cost \in Costs : Takes("charge") /\ allow_cost(c, cost)
    /\ UNCHANGED <<money, timetable, upkeep>>

(* Whatever happens to tenants meanwhile: a change of a tenant waits for the
   tick that holds the tenant's lock, and a tenant that is deleted takes its
   billing and its schedule along. *)
Surroundings ==
    /\ now' \in Nat /\ now <= now'
    /\ \A t \in Tenants : HeldByTick(t) => tenants'[t] = tenants[t]
    /\ billing' = tenant_billing_after
    /\ schedules' = tenant_reindex_schedules_after
    /\ UNCHANGED <<processed, hooks, ticks, runs, upkeep, quota, left>>

Chore == BillingStep \/ ScheduleStep \/ MaintenanceStep \/ LimitStep

HousekeepingNext == Surroundings \/ (Chore /\ UNCHANGED <<tenants, now>>)

HousekeepingSpec == now \in Nat /\ HousekeepingInit /\ [][HousekeepingNext]_housekeeping
=============================================================================

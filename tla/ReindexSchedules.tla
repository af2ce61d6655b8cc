-------------------------- MODULE ReindexSchedules --------------------------
(***************************************************************************)
(* Periodic reindexing of a tenant's workspaces.  An operator sets and     *)
(* clears a tenant's schedule; a cron task on every replica ticks.  A tick *)
(* takes the scheduler's ownership or gives up, reads all schedules, and   *)
(* in one transaction goes through those that are due: each tenant's       *)
(* membership lock is taken and held to the end, the tenant checked, its   *)
(* schedule advanced; at the commit the reindexes have been dispatched.    *)
(* On SQLite the transaction is the only writer, which leaves fewer        *)
(* interleavings than there are here.                                      *)
(***************************************************************************)
EXTENDS Deployment, Sequences

CONSTANTS
    Replicas,       \* the processes that run the scheduler task
    MinInterval,    \* MIN_INTERVAL_SECONDS
    Intervals       \* the intervals an operator asks for

ASSUME SchedulesAssumption == MinInterval \in Nat \ {0} /\ Intervals \subseteq Nat

VARIABLES
    schedules,  \* tenant_reindex_schedules: NoSchedule, or an interval and a time
    ticks,      \* the tick each replica is in, or None
    runs        \* the instants of the ticks that dispatched a tenant's reindexes

timetable == <<schedules, ticks, runs>>

NoSchedule == [every |-> 0, due |-> 0]
Scheduled(t) == schedules[t] # NoSchedule

(* Rows a tick has updated stay locked until it ends. *)
Advancing(t) == \E r \in Replicas : ticks[r] # None /\ t \in ticks[r].advanced

(* An interval is accepted if it is not shorter than the shortest. *)
parse_interval(every) == every >= MinInterval

set_schedule(t, every) ==
    /\ t \in Existing /\ ~Advancing(t)
    /\ parse_interval(every)
    /\ schedules' = [schedules EXCEPT ![t] = [every |-> every, due |-> now + every]]
    /\ UNCHANGED <<ticks, runs>>

clear_schedule(t) ==
    /\ Scheduled(t) /\ ~Advancing(t)
    /\ schedules' = [schedules EXCEPT ![t] = NoSchedule]
    /\ UNCHANGED <<ticks, runs>>

(* The task takes its instant before it asks for the ownership. *)
TickBegins(r) ==
    /\ ticks[r] = None
    /\ ticks' = [ticks EXCEPT ![r] = [at |-> now, owner |-> FALSE, read |-> schedules,
                                      todo |-> {}, locked |-> {}, advanced |-> {}]]
    /\ UNCHANGED <<schedules, runs>>

is_due(due, at) == due <= at

acquire_scheduler_ownership_shared(r) == TRUE

acquire_scheduler_ownership(r) == \A x \in Replicas : ticks[x] # None => ~ticks[x].owner

(* Schedules are read outside any lock; a tick that is not the owner ends. *)
TickOwns(r) ==
    /\ ticks[r] # None /\ ~ticks[r].owner
    /\ acquire_scheduler_ownership(r)
    /\ ticks' = [ticks EXCEPT ![r].owner = TRUE, ![r].read = schedules,
                    ![r].todo = {t \in Tenants : Scheduled(t) /\ is_due(schedules[t].due, ticks[r].at)}]
    /\ UNCHANGED <<schedules, runs>>

Unlocked(r, t) == ticks[r].locked

(* The locks a tick holds once it has taken the tenant's. *)
Locked(r, t) == ticks[r].locked \cup {t}

(* The tenants in their order.  A disabled tenant is passed over; a schedule
   cleared meanwhile fails the update and with it the tick (TickEnds). *)
TickTenant(r) ==
    /\ ticks[r] # None /\ ticks[r].owner
    /\ \E t \in ticks[r].todo :
        /\ \A o \in ticks[r].todo : t <= o
        /\ \A x \in Replicas \ {r} : ticks[x] # None => t \notin ticks[x].locked
        /\ tenants[t] = "active" => Scheduled(t)
        /\ ticks' = [ticks EXCEPT ![r].todo = @ \ {t}, ![r].locked = Locked(r, t),
                        ![r].advanced = IF tenants[t] = "active" THEN @ \cup {t} ELSE @]
    /\ UNCHANGED <<schedules, runs>>

(* The time a tick gives a schedule: after the interval it has read. *)
next_due(r, t) == ticks[r].at + ticks[r].read[t].every

TickCommits(r) ==
    /\ ticks[r] # None /\ ticks[r].owner /\ ticks[r].todo = {}
    /\ schedules' = [t \in Tenants |-> IF t \in ticks[r].advanced
                        THEN [schedules[t] EXCEPT !.due = next_due(r, t)] ELSE schedules[t]]
    /\ runs' = [t \in Tenants |-> IF t \in ticks[r].advanced
                        THEN Append(runs[t], ticks[r].at) ELSE runs[t]]
    /\ ticks' = [ticks EXCEPT ![r] = None]

(* Not the owner, any error before the commit, or a crash. *)
TickEnds(r) ==
    /\ ticks[r] # None
    /\ ticks' = [ticks EXCEPT ![r] = None]
    /\ UNCHANGED <<schedules, runs>>

tenant_reindex_schedules_after ==
    [t \in Tenants |-> IF tenants'[t] = "gone" THEN NoSchedule ELSE schedules[t]]

(* Whoever changes a tenant waits for the tick that holds its lock. *)
HeldByTick(t) == \E r \in Replicas : ticks[r] # None /\ t \in ticks[r].locked

SchedulesInit ==
    /\ schedules = [t \in Tenants |-> NoSchedule]
    /\ ticks = [r \in Replicas |-> None]
    /\ runs = [t \in Tenants |-> <<>>]

(* However schedules are set, cleared and ticked by several replicas, a
   tenant's reindexes are at least the shortest interval apart (set, tick and
   the scheduler's ownership). *)
ReindexesSpaced ==
    \A t \in Tenants : \A i, j \in DOMAIN runs[t] :
        i < j => runs[t][j] - runs[t][i] >= MinInterval

(* Reindexes are dispatched for active tenants only, also when the tenant is
   retired while the tick is under way (tick's recheck under the fence of
   retirement). *)
DispatchesActive ==
    [][\A t \in Tenants : runs'[t] # runs[t] => tenants[t] = "active"]_timetable
=============================================================================

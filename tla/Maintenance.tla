----------------------------- MODULE Maintenance -----------------------------
(***************************************************************************)
(* The deployment's maintenance row and the load guards that move it.      *)
(* Operators set it outright.  Every serving process may run a guard: it   *)
(* samples the load, keeps since when it has been busy or quiet, reads the *)
(* row, decides, and writes the row in a separate statement that changes   *)
(* it only if it still is what was read.                                   *)
(***************************************************************************)
EXTENDS Deployment, Sequences

CONSTANTS
    Guards,     \* the serving processes with a load guard
    Sustain,    \* how long the load must last
    AutoReason, \* AUTO_REASON
    Reasons     \* the reasons operators give

ASSUME MaintenanceAssumption == Sustain \in Nat /\ AutoReason \notin Reasons

VARIABLES
    maint,      \* system_maintenance
    guards,     \* each guard's LoadHistory, and the transition it is about to make
    samples     \* history: what each guard has seen, and when

upkeep == <<maint, guards, samples>>

Modes == {"off", "read_only", "full_lock"}
Maintained(mode, reason) == [mode |-> mode, reason |-> reason]
NoHistory == [busy |-> None, quiet |-> None, from |-> None, to |-> None]

set_maintenance(mode, reason) ==
    /\ maint' = Maintained(mode, reason)
    /\ UNCHANGED <<guards, samples>>

(* Since when the guard has seen what it sees now. *)
Since(before) == IF before = None THEN now ELSE before

observe_mixed(h, busy) ==
    [h EXCEPT !.busy = IF busy THEN Since(@) ELSE @, !.quiet = IF busy THEN @ ELSE Since(@)]

observe(h, busy) ==
    [h EXCEPT !.busy = IF busy THEN Since(@) ELSE None,
              !.quiet = IF busy THEN None ELSE Since(@)]

Lasted(since) == since # None /\ now - since >= Sustain

decide(h, current) ==
    CASE current.mode = "off" /\ Lasted(h.busy) -> "read_only"
      [] current.mode = "read_only" /\ current.reason = AutoReason /\ Lasted(h.quiet) -> "off"
      [] OTHER -> None

(* A poll.  Guards poll at most once in a unit of time. *)
SampleLoad(g, busy) ==
    /\ guards[g].to = None
    /\ \A i \in DOMAIN samples[g] : samples[g][i].at < now
    /\ samples' = [samples EXCEPT ![g] = Append(@, [at |-> now, busy |-> busy])]
    /\ LET h == observe(guards[g], busy)
       IN guards' = [guards EXCEPT ![g] = [h EXCEPT !.from = IF decide(h, maint) = None THEN None ELSE maint,
                                                    !.to = decide(h, maint)]]
    /\ UNCHANGED maint

(* The load, or the row after it, cannot be read. *)
SampleFails(g) ==
    /\ guards[g].to = None
    /\ \A i \in DOMAIN samples[g] : samples[g][i].at < now
    /\ guards' = [guards EXCEPT ![g] = NoHistory]
    /\ samples' = [samples EXCEPT ![g] = <<>>]
    /\ UNCHANGED maint

Unconditional(from) == TRUE

Current(from) == maint = from

(* A write that finds another state, or fails, keeps the history. *)
set_if_current(g) ==
    /\ guards[g].to # None
    /\ \/ /\ Current(guards[g].from)
          /\ maint' = Maintained(guards[g].to, IF guards[g].to = "read_only" THEN AutoReason ELSE None)
          /\ guards' = [guards EXCEPT ![g] = NoHistory]
       \/ /\ guards' = [guards EXCEPT ![g].from = None, ![g].to = None]
          /\ UNCHANGED maint
    /\ UNCHANGED samples

MaintenanceInit ==
    /\ maint = Maintained("off", None)
    /\ guards = [g \in Guards |-> NoHistory]
    /\ samples = [g \in Guards |-> <<>>]

(* No guard ever changes a mode an operator has put the deployment in, even if
   the operator decides between the guard's read and its write: a guard starts
   from off, and lifts only what a guard has set (set_if_current, decide). *)
OperatorPrevails ==
    [][guards' # guards /\ maint' # maint =>
        maint.mode = "off" \/ maint = Maintained("read_only", AutoReason)]_upkeep

(* A guard switches only after the load it saw was high, or low, without a
   break for the sustain time; a failed sample starts the wait again
   (LoadHistory::observe, run_step). *)
SwitchesAreSustained ==
    [][\A g \in Guards : guards'[g] # guards[g] /\ maint' # maint =>
        LET seen == samples[g]
            last == seen[Len(seen)]
        IN \E i \in DOMAIN seen :
            /\ last.at - seen[i].at >= Sustain
            /\ \A k \in i..Len(seen) : seen[k].busy = (maint'.mode = "read_only")]_upkeep
=============================================================================

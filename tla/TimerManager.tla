---------------------------- MODULE TimerManager ----------------------------
(***************************************************************************)
(* TimerManager (timer_manager.go) seen from the room: which time.AfterFunc*)
(* timers are running, which one tm.timer points to, and which callbacks   *)
(* have fired and wait for the room's mutex.  A timer is named by the      *)
(* phase it was started for.  Start does not stop a timer that is still    *)
(* running: it only loses the pointer to it.  Durations and the one-second *)
(* ticker, which only broadcasts, are left out.                            *)
(***************************************************************************)
EXTENDS DraftPhases

CONSTANT MaxFired  \* bound on callbacks of one phase that wait at the same time

ASSUME MaxFiredAssumption == MaxFired \in Nat \ {0}

VARIABLES timer,   \* {p}: tm.timer is running, started for phase p; {}: nil, stopped or fired
          orphans, \* the phases of running timers that tm.timer no longer points to
          fired    \* for each phase, its callbacks blocked on the room's mutex

timerVars == <<timer, orphans, fired>>

TimerTypeOK ==
  /\ timer \in SUBSET PhaseIndex
  /\ orphans \in SUBSET PhaseIndex
  /\ fired \in [PhaseIndex -> 0 .. MaxFired]

TimerInit ==
  /\ timer = {}
  /\ orphans = {}
  /\ fired = [p \in PhaseIndex |-> 0]

\* Start for phase p, when `running` is what is left in tm.timer.
TimerStart(p, running) ==
  /\ timer' = {p}
  /\ orphans' = orphans \cup running

\* Both Stop and Pause stop the timer that tm.timer points to, and no other.
TimerStop ==
  /\ timer' = {}
  /\ UNCHANGED orphans

\* The runtime starts the callback in a goroutine of its own, which blocks on r.mu.
TimerFires(p) ==
  /\ fired[p] < MaxFired
  /\ fired' = [fired EXCEPT ![p] = @ + 1]
  /\ \/ p \in timer /\ timer' = {} /\ UNCHANGED orphans
     \/ p \in orphans /\ orphans' = orphans \ {p} /\ UNCHANGED timer
=============================================================================

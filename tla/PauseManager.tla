---------------------------- MODULE PauseManager ----------------------------
(***************************************************************************)
(* PauseManager (pause_manager.go): the pause, the two ready flags, the    *)
(* countdown that ends the pause when both sides are ready, and the        *)
(* five-minute timer that ends it when they are not.                       *)
(*                                                                         *)
(* Every countdown is driven by a goroutine of its own.  It reads the      *)
(* field resumeCountdownCancel each time round its loop, without a lock,   *)
(* so the channel it listens to need not be the one it was started with.   *)
(* `tickers` counts the goroutines at each place of that loop:             *)
(*   "enter"    about to read the field and wait                           *)
(*   "listen"   waiting, on the channel the field holds now                *)
(*   "closed"   waiting, on a channel that was closed                      *)
(*   "deaf"     waiting, on nil or on a channel nobody can close any more  *)
(*   "lock"     a second has passed; waiting for pm.mu                     *)
(***************************************************************************)
EXTENDS DraftPhases

CONSTANTS CountdownFrom,   \* seconds of the resume countdown
          MaxTickers,      \* bound on countdown goroutines alive at the same time
          MaxPauseTimers   \* bound on auto-resume timers lost, and on callbacks waiting

ASSUME PauseAssumption ==
  /\ CountdownFrom \in Nat \ {0}
  /\ MaxTickers \in Nat
  /\ MaxPauseTimers \in Nat

VARIABLES paused,           \* pm.isPaused
          resumeReady,      \* the sides with blueResumeReady, redResumeReady set
          countdown,        \* pm.resumeCountdown
          cancelOpen,       \* pm.resumeCountdownCancel holds a channel
          tickers,          \* runCountdownTicker goroutines, by place
          pauseTimer,       \* the timer pm.pauseTimer points to is running
          lostPauseTimers,  \* running auto-resume timers it no longer points to
          autoResumes       \* handleAutoResume callbacks waiting for pm.mu

pauseVars == <<paused, resumeReady, countdown, cancelOpen, tickers,
               pauseTimer, lostPauseTimers, autoResumes>>

Place == {"enter", "listen", "closed", "deaf", "lock"}

PauseTypeOK ==
  /\ paused \in BOOLEAN
  /\ resumeReady \subseteq Side
  /\ countdown \in 0 .. CountdownFrom
  /\ cancelOpen \in BOOLEAN
  /\ tickers \in [Place -> Nat]
  /\ pauseTimer \in BOOLEAN
  /\ lostPauseTimers \in 0 .. MaxPauseTimers
  /\ autoResumes \in 0 .. MaxPauseTimers

PauseInit ==
  /\ paused = FALSE
  /\ resumeReady = {}
  /\ countdown = 0
  /\ cancelOpen = FALSE
  /\ tickers = [p \in Place |-> 0]
  /\ pauseTimer = FALSE
  /\ lostPauseTimers = 0
  /\ autoResumes = 0

Alive ==
  tickers["enter"] + tickers["listen"] + tickers["closed"] + tickers["deaf"] + tickers["lock"]

\* One goroutine moves from a place of the loop to another.
Moved(from, to) == [tickers EXCEPT ![from] = @ - 1, ![to] = @ + 1]

\* close(resumeCountdownCancel); resumeCountdownCancel = nil
CancelClosed ==
  /\ cancelOpen' = FALSE
  /\ tickers' = IF cancelOpen
                THEN [tickers EXCEPT !["closed"] = @ + tickers["listen"], !["listen"] = 0]
                ELSE tickers

\* Faulty form of PauseBegin: no auto-resume timer.
PauseBeginUnlimited ==
  /\ ~paused
  /\ paused' = TRUE
  /\ resumeReady' = {}
  /\ countdown' = 0
  /\ UNCHANGED <<cancelOpen, tickers, pauseTimer, lostPauseTimers, autoResumes>>

\* Pause starts a new auto-resume timer over whatever pauseTimer held.
PauseBegin ==
  /\ ~paused
  /\ paused' = TRUE
  /\ resumeReady' = {}
  /\ countdown' = 0
  /\ pauseTimer' = TRUE
  /\ IF pauseTimer
     THEN /\ lostPauseTimers < MaxPauseTimers
          /\ lostPauseTimers' = lostPauseTimers + 1
     ELSE UNCHANGED lostPauseTimers
  /\ UNCHANGED <<cancelOpen, tickers, autoResumes>>

\* Faulty form of CountdownCancel: the counter keeps its value.
CountdownCancelKeepsCount ==
  /\ paused
  /\ countdown > 0
  /\ resumeReady' = {}
  /\ CancelClosed
  /\ UNCHANGED <<paused, countdown, pauseTimer, lostPauseTimers, autoResumes>>

\* Faulty form of CountdownCancel: both sides stay ready.
CountdownCancelKeepsReady ==
  /\ paused
  /\ countdown > 0
  /\ countdown' = 0
  /\ CancelClosed
  /\ UNCHANGED <<paused, resumeReady, pauseTimer, lostPauseTimers, autoResumes>>

\* SetResumeReady(false) while the countdown runs.
CountdownCancel ==
  /\ paused
  /\ countdown > 0
  /\ countdown' = 0
  /\ resumeReady' = {}
  /\ CancelClosed
  /\ UNCHANGED <<paused, pauseTimer, lostPauseTimers, autoResumes>>

\* SetResumeReady otherwise.  The last of the two starts the countdown: a new channel
\* in the field, so that whoever listened to the previous one is deaf, and a goroutine.
ResumeReady(s, ready) ==
  /\ paused
  /\ countdown = 0 \/ ready
  /\ resumeReady' = IF ready THEN resumeReady \cup {s} ELSE resumeReady \ {s}
  /\ IF resumeReady' = Side /\ countdown = 0
     THEN /\ Alive < MaxTickers
          /\ countdown' = CountdownFrom
          /\ cancelOpen' = TRUE
          /\ tickers' = [tickers EXCEPT !["enter"] = @ + 1,
                                        !["deaf"] = @ + tickers["listen"], !["listen"] = 0]
     ELSE UNCHANGED <<countdown, cancelOpen, tickers>>
  /\ UNCHANGED <<paused, pauseTimer, lostPauseTimers, autoResumes>>

\* What doResumeLocked and handleAutoResume clear alike.
ResumeClears ==
  /\ paused' = FALSE
  /\ resumeReady' = {}
  /\ countdown' = 0

\* The select statement: the field is read and the goroutine waits.
CountdownWaits ==
  /\ tickers["enter"] > 0
  /\ tickers' = Moved("enter", IF cancelOpen THEN "listen" ELSE "deaf")
  /\ UNCHANGED <<paused, resumeReady, countdown, cancelOpen, pauseTimer,
                 lostPauseTimers, autoResumes>>

\* ticker.C delivers; select may prefer it even when the other channel is closed.
CountdownTicks(from) ==
  /\ from \in {"listen", "closed", "deaf"}
  /\ tickers[from] > 0
  /\ tickers' = Moved(from, "lock")
  /\ UNCHANGED <<paused, resumeReady, countdown, cancelOpen, pauseTimer,
                 lostPauseTimers, autoResumes>>

CountdownReturns ==
  /\ tickers["closed"] > 0
  /\ tickers' = [tickers EXCEPT !["closed"] = @ - 1]
  /\ UNCHANGED <<paused, resumeReady, countdown, cancelOpen, pauseTimer,
                 lostPauseTimers, autoResumes>>

\* Under pm.mu: nothing to count down any more.
CountdownStale ==
  /\ tickers["lock"] > 0
  /\ countdown = 0
  /\ tickers' = [tickers EXCEPT !["lock"] = @ - 1]
  /\ UNCHANGED <<paused, resumeReady, countdown, cancelOpen, pauseTimer,
                 lostPauseTimers, autoResumes>>

\* Faulty form of CountdownSteps: the goroutine returns after its first tick.
CountdownStepsOnce ==
  /\ tickers["lock"] > 0
  /\ countdown > 1
  /\ countdown' = countdown - 1
  /\ tickers' = [tickers EXCEPT !["lock"] = @ - 1]
  /\ UNCHANGED <<paused, resumeReady, cancelOpen, pauseTimer, lostPauseTimers, autoResumes>>

\* Under pm.mu: one second less, and round the loop again.
CountdownSteps ==
  /\ tickers["lock"] > 0
  /\ countdown > 1
  /\ countdown' = countdown - 1
  /\ tickers' = Moved("lock", "enter")
  /\ UNCHANGED <<paused, resumeReady, cancelOpen, pauseTimer, lostPauseTimers, autoResumes>>

\* Under pm.mu: the last second.  doResumeLocked stops the auto-resume timer it knows.
CountdownEnds ==
  /\ tickers["lock"] > 0
  /\ countdown = 1
  /\ ResumeClears
  /\ pauseTimer' = FALSE
  /\ tickers' = [tickers EXCEPT !["lock"] = @ - 1]
  /\ UNCHANGED <<cancelOpen, lostPauseTimers, autoResumes>>

PauseTimerFires ==
  /\ autoResumes < MaxPauseTimers
  /\ autoResumes' = autoResumes + 1
  /\ \/ pauseTimer /\ pauseTimer' = FALSE /\ UNCHANGED lostPauseTimers
     \/ /\ lostPauseTimers > 0
        /\ lostPauseTimers' = lostPauseTimers - 1
        /\ UNCHANGED pauseTimer
  /\ UNCHANGED <<paused, resumeReady, countdown, cancelOpen, tickers>>

\* handleAutoResume ends the pause it finds; it does not stop pauseTimer.
AutoResumeEnds ==
  /\ autoResumes > 0
  /\ paused
  /\ autoResumes' = autoResumes - 1
  /\ ResumeClears
  /\ CancelClosed
  /\ UNCHANGED <<pauseTimer, lostPauseTimers>>

AutoResumeIgnored ==
  /\ autoResumes > 0
  /\ ~paused
  /\ autoResumes' = autoResumes - 1
  /\ UNCHANGED <<paused, resumeReady, countdown, cancelOpen, tickers,
                 pauseTimer, lostPauseTimers>>
=============================================================================

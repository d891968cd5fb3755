------------------------------ MODULE DraftRoom ------------------------------
(***************************************************************************)
(* Room (room.go) from the moment its two sides are seated and ready: the  *)
(* handlers that the Run goroutine executes one at a time under r.mu, and  *)
(* the callbacks that run beside it.  The expiry of the phase timer takes  *)
(* r.mu; the countdown and the auto-resume take only pm.mu, and the edit   *)
(* timeout only em.mu, so they also run in the middle of a handler.  The   *)
(* one handler in which that matters is ProposeEdit, which checks the      *)
(* pause under pm.mu and stores the proposal under em.mu: it has two steps *)
(* here.  An actor is a side: in a 1v1 room the client seated there, in a  *)
(* team room the captain.  A refused command changes nothing and is not a  *)
(* step.                                                                   *)
(***************************************************************************)
EXTENDS TimerManager, PauseManager, EditManager

CONSTANT Pausers  \* the sides whose client ever asks for a pause

ASSUME PausersAssumption == Pausers \subseteq Side

VARIABLE proposing  \* the edit whose handler holds r.mu between its two steps, or Nil

vars == <<draftVars, timerVars, pauseVars, editVars, proposing>>

TypeOK ==
  /\ DraftTypeOK
  /\ TimerTypeOK
  /\ PauseTypeOK
  /\ EditTypeOK
  /\ proposing \in PendingEdit \cup {Nil}

Init ==
  /\ DraftInit
  /\ TimerInit
  /\ PauseInit
  /\ EditInit
  /\ proposing = Nil

\* r.mu can be taken.
RoomFree == proposing = Nil

-----------------------------------------------------------------------------
(* Handlers of the Run goroutine.                                          *)

StartDraft ==
  /\ RoomFree
  /\ ~started
  /\ started' = TRUE
  /\ TimerStart(0, timer)
  /\ UNCHANGED <<complete, phase, board, hover, fired, pauseVars, editVars, proposing>>

\* Faulty form of SelectChampion: the champion may be taken.
SelectChampionUnchecked(s, c) ==
  /\ RoomFree
  /\ InProgress
  /\ s = Turn
  /\ hover' = [hover EXCEPT ![s] = c]
  /\ UNCHANGED <<started, complete, phase, board, timerVars, pauseVars, editVars, proposing>>

SelectChampion(s, c) ==
  /\ RoomFree
  /\ InProgress
  /\ s = Turn
  /\ ~IsChampionUsed(c)
  /\ hover' = [hover EXCEPT ![s] = c]
  /\ UNCHANGED <<started, complete, phase, board, timerVars, pauseVars, editVars, proposing>>

\* Faulty form of LockIn: no check that anything was selected.
LockInUnchecked(s) ==
  /\ RoomFree
  /\ InProgress
  /\ ~paused
  /\ s = Turn
  /\ ApplySelection(hover[s])
  /\ AdvancePhase
  /\ IF phase + 1 < TotalPhases THEN TimerStart(phase + 1, {}) ELSE TimerStop
  /\ UNCHANGED <<fired, pauseVars, editVars, proposing>>

\* The timer of the phase is stopped before advancePhase starts the next one.
LockIn(s) ==
  /\ RoomFree
  /\ InProgress
  /\ ~paused
  /\ s = Turn
  /\ hover[s] # Nil
  /\ ApplySelection(hover[s])
  /\ AdvancePhase
  /\ IF phase + 1 < TotalPhases THEN TimerStart(phase + 1, {}) ELSE TimerStop
  /\ UNCHANGED <<fired, pauseVars, editVars, proposing>>

\* Faulty form of PauseDraft: the timer of the phase runs on.
PauseDraftKeepsTimer(s) ==
  /\ RoomFree
  /\ InProgress
  /\ s \in Pausers
  /\ PauseBegin
  /\ UNCHANGED <<draftVars, timerVars, editVars, proposing>>

PauseDraft(s) ==
  /\ RoomFree
  /\ InProgress
  /\ s \in Pausers
  /\ PauseBegin
  /\ TimerStop
  /\ UNCHANGED <<draftVars, fired, editVars, proposing>>

ReadyToResume(s, ready) ==
  /\ RoomFree
  /\ \/ ~ready /\ CountdownCancel
     \/ ResumeReady(s, ready)
  /\ UNCHANGED <<draftVars, timerVars, editVars, proposing>>

\* First step: IsPaused, then pm.mu is released.
ProposeEditCheck(e) ==
  /\ RoomFree
  /\ paused
  /\ proposing' = e
  /\ UNCHANGED <<draftVars, timerVars, pauseVars, editVars>>

\* Second step: ProposeEdit under em.mu, whatever became of the pause.
ProposeEditStore ==
  /\ proposing # Nil
  /\ IF Proposable(proposing) THEN EditPropose(proposing) ELSE UNCHANGED editVars
  /\ proposing' = Nil
  /\ UNCHANGED <<draftVars, timerVars, pauseVars>>

\* Neither of these two handlers asks whether the draft is paused.
ConfirmEdit(s) ==
  /\ RoomFree
  /\ EditConfirm(s)
  /\ UNCHANGED <<started, complete, phase, hover, timerVars, pauseVars, proposing>>

\* Spectators are not kept from rejecting.
RejectEdit(s) ==
  /\ RoomFree
  /\ EditReject(s)
  /\ UNCHANGED <<draftVars, timerVars, pauseVars, proposing>>

-----------------------------------------------------------------------------
(* Callbacks and goroutines beside the Run goroutine.                      *)

PhaseTimerFires ==
  /\ \E p \in PhaseIndex : TimerFires(p)
  /\ UNCHANGED <<draftVars, pauseVars, editVars, proposing>>

\* Faulty forms of TimerExpired: during a pause too; the next phase gets no timer.
TimerExpiredInPause(p) ==
  /\ RoomFree
  /\ fired[p] > 0
  /\ ~complete
  /\ fired' = [fired EXCEPT ![p] = @ - 1]
  /\ \E c \in AutoSelections : ApplySelection(c)
  /\ AdvancePhase
  /\ IF phase + 1 < TotalPhases
     THEN TimerStart(phase + 1, timer)
     ELSE UNCHANGED <<timer, orphans>>
  /\ UNCHANGED <<pauseVars, editVars, proposing>>

TimerExpiredStalls(p) ==
  /\ RoomFree
  /\ fired[p] > 0
  /\ ~paused
  /\ ~complete
  /\ fired' = [fired EXCEPT ![p] = @ - 1]
  /\ \E c \in AutoSelections : ApplySelection(c)
  /\ AdvancePhase
  /\ UNCHANGED <<timer, orphans, pauseVars, editVars, proposing>>

\* handleTimerExpired under r.mu.  It does not ask which phase the timer was for.
TimerExpired(p) ==
  /\ RoomFree
  /\ fired[p] > 0
  /\ ~paused
  /\ ~complete
  /\ fired' = [fired EXCEPT ![p] = @ - 1]
  /\ \E c \in AutoSelections : ApplySelection(c)
  /\ AdvancePhase
  /\ IF phase + 1 < TotalPhases
     THEN TimerStart(phase + 1, timer)
     ELSE UNCHANGED <<timer, orphans>>
  /\ UNCHANGED <<pauseVars, editVars, proposing>>

TimerExpiredIgnored(p) ==
  /\ RoomFree
  /\ fired[p] > 0
  /\ paused \/ complete
  /\ fired' = [fired EXCEPT ![p] = @ - 1]
  /\ UNCHANGED <<draftVars, timer, orphans, pauseVars, editVars, proposing>>

\* The steps of a countdown goroutine that leave the pause as it is.
CountdownGoroutine ==
  /\ \/ CountdownWaits
     \/ \E from \in Place : CountdownTicks(from)
     \/ CountdownReturns
     \/ CountdownStale
     \/ CountdownSteps
  /\ UNCHANGED <<draftVars, timerVars, editVars, proposing>>

\* Faulty form of ResumeEffects: the timer of the phase stays stopped.
ResumeEffectsNoTimer ==
  /\ EditClear
  /\ UNCHANGED <<draftVars, timerVars, editTimeouts, proposing>>

\* Both ways out of a pause drop the proposal and start the timer of the phase again.
ResumeEffects ==
  /\ EditClear
  /\ TimerStart(phase, timer)
  /\ UNCHANGED <<draftVars, fired, editTimeouts, proposing>>

CountdownResumes == CountdownEnds /\ ResumeEffects

AutoResume == AutoResumeEnds /\ ResumeEffects

AutoResumeTooLate ==
  /\ AutoResumeIgnored
  /\ UNCHANGED <<draftVars, timerVars, editVars, proposing>>

AutoResumeTimerFires ==
  /\ PauseTimerFires
  /\ UNCHANGED <<draftVars, timerVars, editVars, proposing>>

EditTimeout ==
  /\ EditTimerFires \/ EditTimesOut
  /\ UNCHANGED <<draftVars, timerVars, pauseVars, proposing>>

-----------------------------------------------------------------------------

Next ==
  \/ StartDraft
  \/ \E s \in Side, c \in Champion : SelectChampion(s, c)
  \/ \E s \in Side : LockIn(s)
  \/ \E s \in Side : PauseDraft(s)
  \/ \E s \in Side, ready \in BOOLEAN : ReadyToResume(s, ready)
  \/ \E e \in PendingEdit : ProposeEditCheck(e)
  \/ ProposeEditStore
  \/ \E s \in Side : ConfirmEdit(s)
  \/ \E s \in Side \cup {"spectator"} : RejectEdit(s)
  \/ PhaseTimerFires
  \/ \E p \in PhaseIndex : TimerExpired(p)
  \/ \E p \in PhaseIndex : TimerExpiredIgnored(p)
  \/ CountdownGoroutine
  \/ CountdownResumes
  \/ AutoResume
  \/ AutoResumeTooLate
  \/ AutoResumeTimerFires
  \/ EditTimeout

Spec == Init /\ [][Next]_vars

\* What the runtime does on its own: timers fire, their callbacks get the mutex they
\* wait for (Go's mutexes do not starve a waiter), goroutines are scheduled, and a
\* handler that began ends.  Players are never obliged to act.
Fairness ==
  /\ WF_vars(PhaseTimerFires)
  /\ WF_vars(\E p \in PhaseIndex : TimerExpired(p))
  /\ WF_vars(AutoResumeTimerFires)
  /\ WF_vars(AutoResume)
  /\ WF_vars(ProposeEditStore)

FairSpec == Spec /\ Fairness

-----------------------------------------------------------------------------
(* What is asked of a side from outside the draft's own messages.          *)

\* GetPendingActionForUser, for the client who acts for side s.
PendingAction(s) ==
  CASE ~InProgress -> "none"
    [] InProgress /\ paused /\ edit # Nil /\ edit.by # s -> "pending_edit"
    [] InProgress /\ paused /\ (edit = Nil \/ edit.by = s) ->
         IF s \in resumeReady THEN "none" ELSE "ready_to_resume"
    [] InProgress /\ ~paused -> IF s = Turn THEN CurrentPhase[2] ELSE "none"

-----------------------------------------------------------------------------
(* Safety.                                                                 *)

\* The four arrays are at every moment exactly what the phase table asks for up to the
\* current phase: no handler, expiry or edit ever skips, repeats or misfiles an entry
\* (applySelection and advancePhase are called together on every path).
BoardFollowsPhases ==
  /\ complete <=> phase = TotalPhases
  /\ \A k \in Kind : Len(board[k]) = CountOf(k, phase)

\* A finished draft has given each side as many bans and as many picks as the other, and
\* an entry for every phase (ProPlayPhases: five of each).
FinishedDraftIsFair ==
  complete =>
    /\ \A action \in ActionType : Len(board[<<"blue", action>>]) = Len(board[<<"red", action>>])
    /\ \A side \in Side : Len(board[<<side, "ban">>]) = Len(board[<<side, "pick">>])

\* A draft that is neither paused nor over always has something that will move it on
\* without any player: the timer of the phase, or an expiry that already waits for r.mu.
\* Stop, Pause and the two resumes never leave it with neither.
DraftIsDriven ==
  InProgress /\ ~paused => timer # {} \/ \E p \in PhaseIndex : fired[p] > 0

\* While the draft goes on, the timer that tm.timer points to is the one of the current
\* phase, no timer runs during a pause, and a timer that Start lost is of an earlier phase.
TimersKnowTheirPhase ==
  InProgress =>
    /\ timer \subseteq IF paused THEN {} ELSE {phase}
    /\ \A p \in orphans : p < phase

\* A resume countdown runs only in a pause, with both sides ready (SetResumeReady).
CountdownNeedsBothSides ==
  countdown > 0 => paused /\ resumeReady = Side

\* A resume countdown always has a goroutine that will count it down: closing and
\* replacing the cancel channel never silences the last one.
CountdownIsDriven ==
  countdown > 0 =>
    tickers["enter"] + tickers["listen"] + tickers["deaf"] + tickers["lock"] > 0

\* As long as no countdown runs, somebody is asked to go on: the lists of pending
\* actions (GetPendingDraftActionsForUser) never all stay empty in a draft that waits.
SomeoneIsAsked ==
  InProgress /\ countdown = 0 => \E s \in Side : PendingAction(s) # "none"

\* No champion is banned or picked twice ("Champion is already picked or banned",
\* handleSelectChampion; "Champion already used", ProposeEdit).
ChampionsUnique ==
  \A a, b \in Slots :
    board[a[1]][a[2]] = board[b[1]][b[2]] => a = b \/ board[a[1]][a[2]] = None

\* What a side has selected is still free when it is locked in: LockIn does not ask again.
HoversAreFree ==
  \A s \in Side : hover[s] # Nil => ~IsChampionUsed(hover[s])

\* An edit is pending only while the draft is paused ("Must pause to edit",
\* handleProposeEdit; both resumes clear any pending edit).
EditNeedsPause == edit # Nil => paused

\* Nothing moves the draft during a pause: not a locked selection, not an expiry that
\* had already fired when the pause began.
PauseHoldsDraft == [][paused => UNCHANGED <<started, complete, phase>>]_vars

\* An expiry acts on the phase its timer was started for.
ExpiryActsOnItsPhase ==
  [][\A p \in PhaseIndex : fired'[p] < fired[p] /\ phase' # phase => p = phase]_vars

-----------------------------------------------------------------------------
(* The room implements DraftSpec.                                          *)

\* Where the entry of phase i (1-based) is kept in its array.
Rank(i) == CountOf(Phases[i], i)

\* The arrays read in phase order.
Draft == [i \in 1 .. phase |-> board[Phases[i]][Rank(i)]]

Abstract == INSTANCE DraftSpec WITH Total <- TotalPhases, draft <- Draft, frozen <- paused

\* The room keeps DraftSpec's promises: entries are added one at a time in phase order
\* and never in a pause, an edit changes exactly one recorded entry, and a pause
\* neither begins nor ends once the draft is over.
ImplementsDraftSpec == Abstract!Spec

-----------------------------------------------------------------------------
(* Liveness.                                                               *)

\* Every pause ends, even when nobody asks for it (the five-minute limit of Pause).
PauseEnds == paused ~> ~paused

\* A started draft is completed by the clock alone, whatever the players do or omit,
\* if they stop pausing it (timer expiry of every phase in turn).
DraftCompletes == <>[]~paused => (started ~> complete)
=============================================================================

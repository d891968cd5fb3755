-------------------------- MODULE DraftRoomProofs --------------------------
(***************************************************************************)
(* Theorems about DraftRoom for every phase table, every set of champions  *)
(* and every bound.                                                        *)
(***************************************************************************)
EXTENDS DraftRoom, FiniteSetTheorems, TLAPS

\* The part of the invariant that says where the draft stands: the phase counter reaches
\* the end of the table exactly when the draft is complete, no timer runs before the
\* start, and a pause is a pause of a draft in progress.
Progress ==
  /\ complete <=> phase = TotalPhases
  /\ ~started => phase = 0 /\ timer = {} /\ orphans = {} /\ \A p \in PhaseIndex : fired[p] = 0
  /\ paused => InProgress

-----------------------------------------------------------------------------
(* Facts about the operators.                                              *)

\* While the draft is not complete, the current phase is an entry of the table.
LEMMA CurrentPhaseKind ==
  ASSUME DraftTypeOK, Progress, ~complete
  PROVE  /\ phase \in PhaseIndex
         /\ phase + 1 \in 1 .. TotalPhases
         /\ CurrentPhase \in Kind
         /\ Turn \in Side
  BY PhasesAssumption DEF DraftTypeOK, Progress, PhaseIndex, CurrentPhase, TotalPhases, Turn, Kind

\* Whatever the clock records is an entry of an array (getRandomAvailableChampion).
LEMMA AutoSelectionsAreEntries == AutoSelections \subseteq Entry
  BY DEF AutoSelections, Entry

\* Locking a selection in keeps the arrays arrays of entries, and lengthens one of them.
LEMMA ApplySelectionType ==
  ASSUME DraftTypeOK, CurrentPhase \in Kind, NEW c \in Entry, ApplySelection(c)
  PROVE  board' \in [Kind -> Seq(Entry)]
  BY DEF DraftTypeOK, ApplySelection

\* An edit keeps the arrays arrays of entries.
LEMMA ApplyEditType ==
  ASSUME DraftTypeOK, NEW k \in Kind, NEW i \in 1 .. TotalPhases, NEW c \in Entry,
         ApplyEdit(k, i, c)
  PROVE  board' \in [Kind -> Seq(Entry)]
  <1>1. CASE i <= Len(board[k])
    <2>1. board[k] \in Seq(Entry) /\ i \in DOMAIN board[k]
      BY <1>1, PhasesAssumption DEF DraftTypeOK, TotalPhases
    <2>2. [board[k] EXCEPT ![i] = c] \in Seq(Entry)
      BY <2>1
    <2>3. board' = [board EXCEPT ![k] = [board[k] EXCEPT ![i] = c]]
      BY <1>1 DEF ApplyEdit, DraftTypeOK
    <2> QED
      BY <2>2, <2>3 DEF DraftTypeOK
  <1>2. CASE ~(i <= Len(board[k]))
    BY <1>2 DEF ApplyEdit, DraftTypeOK
  <1> QED
    BY <1>1, <1>2

\* The record of a proposal has the fields its type says.
LEMMA PendingEditFields ==
  ASSUME NEW e \in PendingEdit
  PROVE  e.by \in Side /\ e.kind \in Kind /\ e.index \in 1 .. TotalPhases /\ e.champion \in Champion
  BY EditAssumption DEF PendingEdit

-----------------------------------------------------------------------------
(* Type correctness.                                                       *)

LEMMA InitTyped == Init => TypeOK /\ Progress
  <1> SUFFICES ASSUME Init PROVE TypeOK /\ Progress
    OBVIOUS
  <1> USE DEF Init, DraftInit, TimerInit, PauseInit, EditInit
  <1>0. TotalPhases \in Nat \ {0}
    BY PhasesAssumption DEF TotalPhases
  <1>1. DraftTypeOK
    <2>1. board \in [Kind -> Seq(Entry)]
      OBVIOUS
    <2>2. hover \in [Side -> Champion \cup {Nil}]
      OBVIOUS
    <2>3. started \in BOOLEAN /\ complete \in BOOLEAN
      OBVIOUS
    <2>4. phase \in 0 .. TotalPhases
      BY <1>0
    <2> QED
      BY <2>1, <2>2, <2>3, <2>4, Zenon DEF DraftTypeOK
  <1>2. TimerTypeOK
    BY MaxFiredAssumption DEF TimerTypeOK
  <1>3. PauseTypeOK
    <2>1. paused \in BOOLEAN /\ cancelOpen \in BOOLEAN /\ pauseTimer \in BOOLEAN
      OBVIOUS
    <2>2. countdown \in 0 .. CountdownFrom
      BY PauseAssumption
    <2>3. lostPauseTimers \in 0 .. MaxPauseTimers /\ autoResumes \in 0 .. MaxPauseTimers
      BY PauseAssumption
    <2>4. resumeReady \subseteq Side /\ tickers \in [Place -> Nat]
      OBVIOUS
    <2> QED
      BY <2>1, <2>2, <2>3, <2>4, Zenon DEF PauseTypeOK
  <1>4. EditTypeOK
    <2>1. editTimeouts \in 0 .. MaxEditTimeouts
      BY EditAssumption
    <2>2. edit \in PendingEdit \cup {Nil} /\ editTimer \in BOOLEAN
      BY Zenon
    <2> QED
      BY <2>1, <2>2, Zenon DEF EditTypeOK
  <1>5. Progress
    BY <1>0 DEF Progress
  <1> QED
    BY <1>1, <1>2, <1>3, <1>4, <1>5 DEF TypeOK

\* The steps of PauseManager by itself.
PauseStep ==
  \/ PauseBegin
  \/ CountdownCancel
  \/ \E s \in Side, ready \in BOOLEAN : ResumeReady(s, ready)
  \/ CountdownWaits
  \/ \E from \in Place : CountdownTicks(from)
  \/ CountdownReturns
  \/ CountdownStale
  \/ CountdownSteps
  \/ CountdownEnds
  \/ PauseTimerFires
  \/ AutoResumeEnds
  \/ AutoResumeIgnored

\* The steps of the pause, its countdown goroutines and its timer keep their types.
LEMMA PauseTypeStep ==
  ASSUME PauseTypeOK, PauseStep
  PROVE  PauseTypeOK'
  <1> USE PauseAssumption DEF PauseTypeOK
  <1>1. CASE PauseBegin
    BY <1>1 DEF PauseBegin
  <1>2. CASE CountdownCancel
    <2>1. paused' \in BOOLEAN /\ cancelOpen' \in BOOLEAN /\ pauseTimer' \in BOOLEAN
      BY <1>2 DEF CountdownCancel, CancelClosed, Place
    <2>2. countdown' \in 0 .. CountdownFrom
      BY <1>2 DEF CountdownCancel, CancelClosed, Place
    <2>3. lostPauseTimers' \in 0 .. MaxPauseTimers /\ autoResumes' \in 0 .. MaxPauseTimers
      BY <1>2 DEF CountdownCancel, CancelClosed, Place
    <2>4. resumeReady' \subseteq Side /\ tickers' \in [Place -> Nat]
      BY <1>2 DEF CountdownCancel, CancelClosed, Place
    <2> QED
      BY <2>1, <2>2, <2>3, <2>4, Zenon
  <1>3. CASE \E s \in Side, ready \in BOOLEAN : ResumeReady(s, ready)
    <2>1. paused' \in BOOLEAN /\ cancelOpen' \in BOOLEAN /\ pauseTimer' \in BOOLEAN
      BY <1>3 DEF ResumeReady, Place
    <2>2. countdown' \in 0 .. CountdownFrom
      BY <1>3 DEF ResumeReady, Place
    <2>3. lostPauseTimers' \in 0 .. MaxPauseTimers /\ autoResumes' \in 0 .. MaxPauseTimers
      BY <1>3 DEF ResumeReady, Place
    <2>4. resumeReady' \subseteq Side /\ tickers' \in [Place -> Nat]
      BY <1>3 DEF ResumeReady, Place
    <2> QED
      BY <2>1, <2>2, <2>3, <2>4, Zenon
  <1>4. CASE CountdownWaits
    BY <1>4 DEF CountdownWaits, Moved, Place
  <1>5. CASE \E from \in Place : CountdownTicks(from)
    BY <1>5 DEF CountdownTicks, Moved, Place
  <1>6. CASE CountdownReturns
    BY <1>6 DEF CountdownReturns, Place
  <1>7. CASE CountdownStale
    BY <1>7 DEF CountdownStale, Place
  <1>8. CASE CountdownSteps
    BY <1>8 DEF CountdownSteps, Moved, Place
  <1>9. CASE CountdownEnds
    <2>1. paused' \in BOOLEAN /\ cancelOpen' \in BOOLEAN /\ pauseTimer' \in BOOLEAN
      BY <1>9 DEF CountdownEnds, ResumeClears, Place
    <2>2. countdown' \in 0 .. CountdownFrom
      BY <1>9 DEF CountdownEnds, ResumeClears, Place
    <2>3. lostPauseTimers' \in 0 .. MaxPauseTimers /\ autoResumes' \in 0 .. MaxPauseTimers
      BY <1>9 DEF CountdownEnds, ResumeClears, Place
    <2>4. resumeReady' \subseteq Side /\ tickers' \in [Place -> Nat]
      BY <1>9 DEF CountdownEnds, ResumeClears, Place
    <2> QED
      BY <2>1, <2>2, <2>3, <2>4, Zenon
  <1>10. CASE PauseTimerFires
    <2>1. paused' \in BOOLEAN /\ cancelOpen' \in BOOLEAN /\ pauseTimer' \in BOOLEAN
      BY <1>10 DEF PauseTimerFires
    <2>2. countdown' \in 0 .. CountdownFrom
      BY <1>10 DEF PauseTimerFires
    <2>3. lostPauseTimers' \in 0 .. MaxPauseTimers /\ autoResumes' \in 0 .. MaxPauseTimers
      BY <1>10 DEF PauseTimerFires
    <2>4. resumeReady' \subseteq Side /\ tickers' \in [Place -> Nat]
      BY <1>10 DEF PauseTimerFires
    <2> QED
      BY <2>1, <2>2, <2>3, <2>4, Zenon
  <1>11. CASE AutoResumeEnds
    <2>1. paused' \in BOOLEAN /\ cancelOpen' \in BOOLEAN /\ pauseTimer' \in BOOLEAN
      BY <1>11 DEF AutoResumeEnds, ResumeClears, CancelClosed, Place
    <2>2. countdown' \in 0 .. CountdownFrom
      BY <1>11 DEF AutoResumeEnds, ResumeClears, CancelClosed, Place
    <2>3. lostPauseTimers' \in 0 .. MaxPauseTimers /\ autoResumes' \in 0 .. MaxPauseTimers
      BY <1>11 DEF AutoResumeEnds, ResumeClears, CancelClosed, Place
    <2>4. resumeReady' \subseteq Side /\ tickers' \in [Place -> Nat]
      BY <1>11 DEF AutoResumeEnds, ResumeClears, CancelClosed, Place
    <2> QED
      BY <2>1, <2>2, <2>3, <2>4, Zenon
  <1>12. CASE AutoResumeIgnored
    BY <1>12 DEF AutoResumeIgnored
  <1> QED
    BY <1>1, <1>2, <1>3, <1>4, <1>5, <1>6, <1>7, <1>8, <1>9, <1>10, <1>11, <1>12, Zenon
       DEF PauseStep

\* A countdown needs a pause and both sides: un-readying cancels it, both resumes and a
\* new pause set it to zero, and it only starts when the second side gets ready.
LEMMA CountdownNeedsStep ==
  ASSUME PauseTypeOK, CountdownNeedsBothSides, PauseStep
  PROVE  CountdownNeedsBothSides'
  <1> USE DEF PauseTypeOK, CountdownNeedsBothSides
  <1>1. CASE \E s \in Side, ready \in BOOLEAN : ResumeReady(s, ready)
    BY <1>1 DEF ResumeReady
  <1>2. CASE PauseBegin \/ CountdownCancel \/ CountdownEnds \/ AutoResumeEnds
    BY <1>2 DEF PauseBegin, CountdownCancel, CountdownEnds, AutoResumeEnds, ResumeClears
  <1>3. CASE CountdownSteps
    BY <1>3 DEF CountdownSteps
  <1>4. CASE \/ CountdownWaits \/ CountdownReturns \/ CountdownStale \/ PauseTimerFires
             \/ AutoResumeIgnored \/ \E from \in Place : CountdownTicks(from)
    BY <1>4 DEF CountdownWaits, CountdownReturns, CountdownStale, PauseTimerFires,
                AutoResumeIgnored, CountdownTicks
  <1> QED
    BY <1>1, <1>2, <1>3, <1>4, Zenon DEF PauseStep

\* A running countdown has a goroutine that will tick: the goroutine that counts goes
\* round the loop, and cancelling closes only channels of a countdown that is over.
LEMMA CountdownDrivenStep ==
  ASSUME PauseTypeOK, CountdownIsDriven, PauseStep
  PROVE  CountdownIsDriven'
  <1> USE DEF PauseTypeOK, CountdownIsDriven, Place
  <1>1. CASE \E s \in Side, ready \in BOOLEAN : ResumeReady(s, ready)
    BY <1>1 DEF ResumeReady
  <1>2. CASE PauseBegin \/ CountdownCancel \/ CountdownEnds \/ AutoResumeEnds
    BY <1>2 DEF PauseBegin, CountdownCancel, CountdownEnds, AutoResumeEnds, ResumeClears
  <1>3. CASE CountdownSteps
    BY <1>3 DEF CountdownSteps, Moved
  <1>4. CASE CountdownWaits
    BY <1>4 DEF CountdownWaits, Moved
  <1>5. CASE CountdownReturns \/ CountdownStale
    BY <1>5 DEF CountdownReturns, CountdownStale
  <1>6. CASE \E from \in Place : CountdownTicks(from)
    BY <1>6 DEF CountdownTicks, Moved
  <1>7. CASE PauseTimerFires \/ AutoResumeIgnored
    BY <1>7 DEF PauseTimerFires, AutoResumeIgnored
  <1> QED
    BY <1>1, <1>2, <1>3, <1>4, <1>5, <1>6, <1>7, Zenon DEF PauseStep

-----------------------------------------------------------------------------
(* Frames: which steps of the room reach which manager.                    *)

\* Only these handlers write the state of DraftStateManager.
LEMMA DraftFrame ==
  ASSUME [Next]_vars
  PROVE  \/ UNCHANGED draftVars
         \/ StartDraft
         \/ \E s \in Side, c \in Champion : SelectChampion(s, c)
         \/ \E s \in Side : LockIn(s)
         \/ \E s \in Side : ConfirmEdit(s)
         \/ \E p \in PhaseIndex : TimerExpired(p)
  BY Zenon DEF Next, vars, PauseDraft, ReadyToResume, ProposeEditCheck, ProposeEditStore,
     RejectEdit, EditReject, PhaseTimerFires, TimerExpiredIgnored, CountdownGoroutine, CountdownResumes,
     AutoResume, ResumeEffects, AutoResumeTooLate, AutoResumeTimerFires, EditTimeout

\* Only these steps write the state of TimerManager.
LEMMA TimerFrame ==
  ASSUME [Next]_vars
  PROVE  \/ UNCHANGED timerVars
         \/ StartDraft
         \/ \E s \in Side : LockIn(s)
         \/ \E s \in Side : PauseDraft(s)
         \/ PhaseTimerFires
         \/ \E p \in PhaseIndex : TimerExpired(p)
         \/ \E p \in PhaseIndex : TimerExpiredIgnored(p)
         \/ CountdownResumes
         \/ AutoResume
  BY Zenon DEF Next, vars, SelectChampion, ReadyToResume, ProposeEditCheck, ProposeEditStore,
     ConfirmEdit, EditConfirm, RejectEdit, EditReject, CountdownGoroutine, AutoResumeTooLate, AutoResumeTimerFires,
     EditTimeout

\* Only these steps write the state of PauseManager.
LEMMA PauseFrame ==
  ASSUME [Next]_vars
  PROVE  PauseStep \/ UNCHANGED pauseVars
  BY Zenon DEF PauseStep, PauseDraft, ReadyToResume, CountdownGoroutine, CountdownResumes,
     AutoResume, AutoResumeTooLate, AutoResumeTimerFires, Next, vars, StartDraft, SelectChampion, LockIn, ProposeEditCheck,
     ProposeEditStore, ConfirmEdit, EditConfirm, RejectEdit, EditReject, PhaseTimerFires, TimerExpired,
     TimerExpiredIgnored, EditTimeout

\* Only these steps write the state of EditManager.
LEMMA EditFrame ==
  ASSUME [Next]_vars
  PROVE  \/ UNCHANGED editVars
         \/ ProposeEditStore
         \/ \E s \in Side : ConfirmEdit(s)
         \/ \E s \in Side \cup {"spectator"} : RejectEdit(s)
         \/ CountdownResumes
         \/ AutoResume
         \/ EditTimeout
  BY Zenon DEF Next, vars, StartDraft, SelectChampion, LockIn, PauseDraft, ReadyToResume,
     ProposeEditCheck, PhaseTimerFires, TimerExpired, TimerExpiredIgnored,
     CountdownGoroutine, AutoResumeTooLate, AutoResumeTimerFires

-----------------------------------------------------------------------------
(* Type correctness of every step.                                         *)

LEMMA DraftTypeStep ==
  ASSUME TypeOK, Progress, CountdownNeedsBothSides, [Next]_vars
  PROVE  DraftTypeOK'
  <1> USE DEF TypeOK
  <1>0. TotalPhases \in Nat \ {0}
    BY PhasesAssumption DEF TotalPhases
  <1>1. CASE UNCHANGED draftVars
    BY <1>1 DEF draftVars, DraftTypeOK
  <1>2. CASE StartDraft
    BY <1>2 DEF StartDraft, DraftTypeOK
  <1>3. CASE \E s \in Side, c \in Champion : SelectChampion(s, c)
    BY <1>3 DEF SelectChampion, DraftTypeOK
  <1>4. ASSUME NEW c \in Entry, ~complete, ApplySelection(c), AdvancePhase
        PROVE  DraftTypeOK'
    <2>1. board' \in [Kind -> Seq(Entry)]
      BY <1>4, CurrentPhaseKind, ApplySelectionType
    <2>2. phase' \in 0 .. TotalPhases
      BY <1>0, <1>4, CurrentPhaseKind DEF AdvancePhase, PhaseIndex
    <2>3. started' \in BOOLEAN /\ complete' \in BOOLEAN
      BY <1>4 DEF AdvancePhase, DraftTypeOK
    <2>4. hover' \in [Side -> Champion \cup {Nil}]
      BY <1>4 DEF AdvancePhase
    <2> QED
      BY <2>1, <2>2, <2>3, <2>4, Zenon DEF DraftTypeOK
  <1>5. CASE \E s \in Side : LockIn(s)
    <2>1. PICK s \in Side : LockIn(s)
      BY <1>5
    <2>2. hover[s] \in Entry
      BY <2>1 DEF LockIn, DraftTypeOK, Entry
    <2> QED
      BY <2>1, <2>2, <1>4 DEF LockIn, InProgress
  <1>6. CASE \E s \in Side : ConfirmEdit(s)
    <2>1. board' \in [Kind -> Seq(Entry)]
      BY <1>6, ApplyEditType, PendingEditFields DEF ConfirmEdit, EditConfirm, EditTypeOK, Entry
    <2> QED
      BY <1>6, <2>1 DEF ConfirmEdit, EditConfirm, DraftTypeOK
  <1>7. CASE \E p \in PhaseIndex : TimerExpired(p)
    BY <1>7, <1>4, AutoSelectionsAreEntries DEF TimerExpired
  <1> QED
    BY <1>1, <1>2, <1>3, <1>5, <1>6, <1>7, DraftFrame

LEMMA TimerTypeStep ==
  ASSUME TypeOK, Progress, CountdownNeedsBothSides, [Next]_vars
  PROVE  TimerTypeOK'
  <1> USE MaxFiredAssumption DEF TypeOK, TimerTypeOK
  <1>0. phase \in 0 .. TotalPhases /\ TotalPhases \in Nat \ {0}
    BY PhasesAssumption DEF DraftTypeOK, TotalPhases
  <1>1. CASE UNCHANGED timerVars
    BY <1>1 DEF timerVars
  <1>2. CASE StartDraft
    BY <1>0, <1>2 DEF StartDraft, TimerStart, PhaseIndex
  <1>a. phase + 1 < TotalPhases => phase + 1 \in PhaseIndex
    BY <1>0 DEF PhaseIndex
  <1>3. CASE \E s \in Side : LockIn(s)
    <2>1. \/ TimerStart(phase + 1, {}) /\ phase + 1 < TotalPhases
          \/ TimerStop
      BY <1>3, Zenon DEF LockIn
    <2>2. UNCHANGED fired
      BY <1>3, Zenon DEF LockIn
    <2> QED
      BY <1>a, <2>1, <2>2 DEF TimerStart, TimerStop
  <1>4. CASE \E s \in Side : PauseDraft(s)
    BY <1>4 DEF PauseDraft, TimerStop
  <1>5. CASE PhaseTimerFires
    BY <1>5 DEF PhaseTimerFires, TimerFires
  <1>6. CASE \E p \in PhaseIndex : TimerExpired(p)
    <2>1. PICK p \in PhaseIndex : TimerExpired(p)
      BY <1>6
    <2>2. \/ TimerStart(phase + 1, timer) /\ phase + 1 < TotalPhases
          \/ UNCHANGED <<timer, orphans>>
      BY <2>1, Zenon DEF TimerExpired
    <2>3. fired[p] > 0 /\ fired' = [fired EXCEPT ![p] = @ - 1]
      BY <2>1, Zenon DEF TimerExpired
    <2>4. timer' \in SUBSET PhaseIndex /\ orphans' \in SUBSET PhaseIndex
      BY <1>a, <2>2 DEF TimerStart
    <2>5. fired' \in [PhaseIndex -> 0 .. MaxFired]
      BY <2>3
    <2> QED
      BY <2>4, <2>5
  <1>7. CASE \E p \in PhaseIndex : TimerExpiredIgnored(p)
    BY <1>7 DEF TimerExpiredIgnored
  <1>8. ASSUME paused, ResumeEffects
        PROVE  TimerTypeOK'
    <2>1. phase \in PhaseIndex
      BY <1>0, <1>8 DEF Progress, InProgress, PhaseIndex
    <2> QED
      BY <1>8, <2>1 DEF ResumeEffects, TimerStart
  <1>9. CASE CountdownResumes \/ AutoResume
    <2>1. paused
      BY <1>9 DEF CountdownResumes, AutoResume, AutoResumeEnds, CountdownEnds,
                  CountdownNeedsBothSides
    <2> QED
      BY <1>8, <1>9, <2>1, Zenon DEF CountdownResumes, AutoResume
  <1> QED
    BY <1>1, <1>2, <1>3, <1>4, <1>5, <1>6, <1>7, <1>9, TimerFrame

LEMMA EditTypeStep ==
  ASSUME TypeOK, [Next]_vars
  PROVE  EditTypeOK' /\ proposing' \in PendingEdit \cup {Nil}
  <1> USE EditAssumption DEF TypeOK, EditTypeOK, EditClear
  <1>1. edit' \in PendingEdit \cup {Nil}
    BY EditFrame, Zenon DEF editVars, ProposeEditStore, EditPropose, ConfirmEdit, EditConfirm, RejectEdit, EditReject,
       CountdownResumes, AutoResume, ResumeEffects, EditTimeout, EditTimerFires, EditTimesOut
  <1>2. editTimer' \in BOOLEAN
    BY EditFrame, Zenon DEF editVars, ProposeEditStore, EditPropose, ConfirmEdit, EditConfirm, RejectEdit, EditReject,
       CountdownResumes, AutoResume, ResumeEffects, EditTimeout, EditTimerFires, EditTimesOut
  <1>3. editTimeouts' \in 0 .. MaxEditTimeouts
    <2>1. CASE EditTimeout
      BY <2>1 DEF EditTimeout, EditTimerFires, EditTimesOut
    <2>2. CASE ~EditTimeout
      <3>1. UNCHANGED editTimeouts
        BY <2>2, EditFrame, Zenon DEF editVars, ProposeEditStore, EditPropose, ConfirmEdit, EditConfirm,
           RejectEdit, EditReject, CountdownResumes, AutoResume, ResumeEffects
      <3> QED
        BY <3>1
    <2> QED
      BY <2>1, <2>2
  <1>4. proposing' \in PendingEdit \cup {Nil}
    BY Zenon DEF Next, vars, StartDraft, SelectChampion, LockIn, PauseDraft, ReadyToResume,
       ProposeEditCheck, ProposeEditStore, ConfirmEdit, EditConfirm, RejectEdit, EditReject, PhaseTimerFires,
       TimerExpired, TimerExpiredIgnored, CountdownGoroutine, CountdownResumes, AutoResume,
       ResumeEffects, AutoResumeTooLate, AutoResumeTimerFires, EditTimeout
  <1> QED
    BY <1>1, <1>2, <1>3, <1>4, Zenon

LEMMA ProgressStep ==
  ASSUME TypeOK, Progress, CountdownNeedsBothSides, [Next]_vars
  PROVE  Progress'
  <1> USE DEF TypeOK, DraftTypeOK, Progress, InProgress
  <1>0. TotalPhases \in Nat \ {0}
    BY PhasesAssumption DEF TotalPhases
  \* The counter and the flag.
  <1>1. complete' <=> phase' = TotalPhases
    <2>1. CASE UNCHANGED <<complete, phase>>
      BY <2>1, Zenon
    <2>2. CASE ~complete /\ AdvancePhase
      <3>1. complete' <=> phase + 1 >= TotalPhases
        BY <2>2, Zenon DEF AdvancePhase
      <3>2. phase' = phase + 1 /\ phase \in 0 .. TotalPhases /\ phase # TotalPhases
        BY <2>2, Zenon DEF AdvancePhase
      <3>3. phase + 1 >= TotalPhases <=> phase' = TotalPhases
        BY <1>0, <3>2
      <3> QED
        BY <3>1, <3>3, Zenon
    <2> QED
      BY <2>1, <2>2, DraftFrame, Zenon DEF draftVars, StartDraft, SelectChampion, LockIn,
         ConfirmEdit, EditConfirm, TimerExpired
  \* The timers.
  <1>2. ~started' => phase' = 0 /\ timer' = {} /\ orphans' = {} /\ \A p \in PhaseIndex : fired'[p] = 0
    <2>1. started => started'
      BY DraftFrame, Zenon DEF draftVars, StartDraft, SelectChampion, LockIn, ConfirmEdit, EditConfirm,
         TimerExpired, AdvancePhase
    <2>2. CASE ~started /\ ~StartDraft
      <3>1. ~paused
        BY <2>2, Zenon
      <3>2. ~CountdownResumes /\ ~AutoResume
        <4>1. countdown = 1 => countdown > 0
          OBVIOUS
        <4> QED
          BY <3>1, <4>1, Zenon DEF CountdownResumes, CountdownEnds, AutoResume,
             AutoResumeEnds, CountdownNeedsBothSides
      <3>3. \A p \in PhaseIndex : ~TimerExpired(p) /\ ~TimerExpiredIgnored(p)
        BY <2>2 DEF TimerExpired, TimerExpiredIgnored
      <3>4. ~PhaseTimerFires
        BY <2>2, Zenon DEF PhaseTimerFires, TimerFires
      <3>5. \A s \in Side : ~LockIn(s) /\ ~PauseDraft(s)
        BY <2>2, Zenon DEF LockIn, PauseDraft
      <3>6. UNCHANGED timerVars
        BY <2>2, <3>2, <3>3, <3>4, <3>5, TimerFrame, Zenon
      <3>7. UNCHANGED phase
        BY <2>2, <3>3, <3>5, DraftFrame, Zenon DEF draftVars, SelectChampion, ConfirmEdit, EditConfirm
      <3> QED
        BY <2>2, <3>6, <3>7, Zenon DEF timerVars
    <2>3. CASE StartDraft
      BY <2>3, Zenon DEF StartDraft
    <2> QED
      BY <2>1, <2>2, <2>3, Zenon
  \* The pause.
  <1>3. paused' => InProgress'
    <2>1. paused' => paused \/ \E s \in Side : PauseDraft(s)
      BY Zenon DEF Next, vars, pauseVars, StartDraft, SelectChampion, LockIn, ReadyToResume,
         CountdownCancel, ResumeReady, ProposeEditCheck, ProposeEditStore, ConfirmEdit, EditConfirm,
         RejectEdit, EditReject, PhaseTimerFires, TimerExpired, TimerExpiredIgnored, CountdownGoroutine,
         CountdownWaits, CountdownTicks, CountdownReturns, CountdownStale, CountdownSteps,
         CountdownResumes, CountdownEnds, AutoResume, AutoResumeEnds, ResumeClears,
         AutoResumeTooLate, AutoResumeIgnored, AutoResumeTimerFires, PauseTimerFires,
         EditTimeout
    <2>2. CASE \E s \in Side : PauseDraft(s)
      BY <2>2 DEF PauseDraft, draftVars
    <2>3. CASE paused
      BY <2>3, DraftFrame, Zenon DEF draftVars, StartDraft, SelectChampion, LockIn,
         ConfirmEdit, EditConfirm, TimerExpired
    <2> QED
      BY <2>1, <2>2, <2>3, Zenon
  <1> QED
    BY <1>1, <1>2, <1>3, Zenon

\* The three facts together are inductive.
Inv == TypeOK /\ Progress /\ CountdownNeedsBothSides

LEMMA InvInit == Init => Inv
  <1> SUFFICES ASSUME Init PROVE CountdownNeedsBothSides
    BY InitTyped, Zenon DEF Inv
  <1> QED
    BY DEF Init, PauseInit, CountdownNeedsBothSides

LEMMA InvStep == Inv /\ [Next]_vars => Inv'
  <1> SUFFICES ASSUME Inv, [Next]_vars PROVE Inv'
    OBVIOUS
  <1>1. TypeOK /\ Progress /\ CountdownNeedsBothSides /\ PauseTypeOK
    BY Zenon DEF Inv, TypeOK
  <1>2. PauseTypeOK' /\ CountdownNeedsBothSides'
    <2>1. CASE PauseStep
      BY <1>1, <2>1, PauseTypeStep, CountdownNeedsStep
    <2>2. CASE UNCHANGED pauseVars
      BY <1>1, <2>2, Zenon DEF pauseVars, PauseTypeOK, CountdownNeedsBothSides
    <2> QED
      BY <2>1, <2>2, PauseFrame
  <1>3. DraftTypeOK' /\ TimerTypeOK' /\ EditTypeOK' /\ proposing' \in PendingEdit \cup {Nil}
    BY <1>1, DraftTypeStep, TimerTypeStep, EditTypeStep
  <1>4. Progress'
    BY <1>1, ProgressStep
  <1> QED
    BY <1>2, <1>3, <1>4, Zenon DEF Inv, TypeOK

\* Every variable of the room always has its type, for every table, every set of
\* champions and every bound.
THEOREM TypeCorrect == Spec => []TypeOK
  <1>1. Inv => TypeOK
    BY DEF Inv
  <1> QED
    BY <1>1, InvInit, InvStep, PTL DEF Spec

\* A resume countdown runs only in a pause, with both sides ready.
THEOREM CountdownConsent == Spec => []CountdownNeedsBothSides
  <1>1. Inv => CountdownNeedsBothSides
    BY DEF Inv
  <1> QED
    BY <1>1, InvInit, InvStep, PTL DEF Spec
-----------------------------------------------------------------------------
(* The clock of the draft.                                                 *)

\* What each step that touches the timers does to them, said once for both invariants.
LEMMA TimerCases ==
  ASSUME Inv, [Next]_vars
  PROVE  \/ UNCHANGED <<timerVars, started, complete, phase, paused>>
         \/ ~started /\ UNCHANGED <<phase, fired, paused>> /\ TimerStart(0, timer)
         \/ /\ InProgress /\ ~paused /\ AdvancePhase /\ UNCHANGED paused
            /\ \/ TimerStart(phase + 1, {})
               \/ TimerStart(phase + 1, timer)
               \/ complete'
         \/ UNCHANGED <<started, complete, phase>> /\ paused' /\ TimerStop
         \/ /\ UNCHANGED <<started, complete, phase, paused>>
            /\ \E p \in PhaseIndex : TimerFires(p)
         \/ /\ UNCHANGED <<timer, orphans, started, complete, phase, paused>>
            /\ paused \/ complete
         \/ /\ paused /\ ~paused' /\ UNCHANGED <<started, complete, phase>>
            /\ TimerStart(phase, timer)
  <1>0. Progress /\ CountdownNeedsBothSides /\ TypeOK
    BY Zenon DEF Inv
  <1>1. CASE StartDraft
    BY <1>1, Zenon DEF StartDraft, pauseVars
  <1>2. CASE \E s \in Side : LockIn(s)
    <2>1. InProgress /\ ~paused /\ AdvancePhase /\ UNCHANGED paused
      BY <1>2, Zenon DEF LockIn, pauseVars
    <2>2. (phase + 1 < TotalPhases /\ TimerStart(phase + 1, {})) \/ ~(phase + 1 < TotalPhases)
      BY <1>2, Zenon DEF LockIn
    <2>3. phase + 1 < TotalPhases \/ phase + 1 >= TotalPhases
      BY <1>0, PhasesAssumption DEF TypeOK, DraftTypeOK, TotalPhases
    <2> QED
      BY <2>1, <2>2, <2>3, Zenon DEF AdvancePhase
  <1>3. CASE \E s \in Side : PauseDraft(s)
    BY <1>3, Zenon DEF PauseDraft, PauseBegin, draftVars
  <1>4. CASE PhaseTimerFires
    BY <1>4, Zenon DEF PhaseTimerFires, draftVars, pauseVars
  <1>5. CASE \E p \in PhaseIndex : TimerExpired(p)
    <2>1. ~paused /\ ~complete /\ AdvancePhase /\ started /\ UNCHANGED paused
      <3>1. PICK p \in PhaseIndex : TimerExpired(p)
        BY <1>5
      <3>2. fired[p] # 0
        BY <3>1, <1>0 DEF TimerExpired, TypeOK, TimerTypeOK
      <3> QED
        BY <1>0, <3>1, <3>2, Zenon DEF TimerExpired, Progress, pauseVars
    <2>2. \/ phase + 1 < TotalPhases /\ TimerStart(phase + 1, timer)
          \/ ~(phase + 1 < TotalPhases)
      BY <1>5, Zenon DEF TimerExpired
    <2>3. phase + 1 < TotalPhases \/ phase + 1 >= TotalPhases
      BY <1>0, PhasesAssumption DEF TypeOK, DraftTypeOK, TotalPhases
    <2> QED
      BY <2>1, <2>2, <2>3, Zenon DEF AdvancePhase, InProgress
  <1>6. CASE \E p \in PhaseIndex : TimerExpiredIgnored(p)
    BY <1>6, Zenon DEF TimerExpiredIgnored, draftVars, pauseVars
  <1>7. CASE CountdownResumes \/ AutoResume
    <2>1. countdown = 1 => countdown > 0
      OBVIOUS
    <2> QED
      BY <1>0, <1>7, <2>1, Zenon DEF CountdownResumes, AutoResume, CountdownEnds,
         AutoResumeEnds, CountdownNeedsBothSides, ResumeEffects, ResumeClears,
         draftVars
  <1>8. ASSUME ~StartDraft, ~\E s \in Side : LockIn(s), ~\E s \in Side : PauseDraft(s),
               ~\E p \in PhaseIndex : TimerExpired(p), ~CountdownResumes, ~AutoResume
        PROVE  UNCHANGED <<started, complete, phase, paused>>
    BY <1>8, Zenon DEF Next, vars, draftVars, pauseVars, SelectChampion, ReadyToResume,
       CountdownCancel, ResumeReady, ProposeEditCheck, ProposeEditStore, ConfirmEdit, EditConfirm,
       RejectEdit, EditReject, PhaseTimerFires, TimerExpiredIgnored, CountdownGoroutine, CountdownWaits,
       CountdownTicks, CountdownReturns, CountdownStale, CountdownSteps, AutoResumeTooLate,
       AutoResumeIgnored, AutoResumeTimerFires, PauseTimerFires, EditTimeout
  <1> QED
    BY <1>1, <1>2, <1>3, <1>4, <1>5, <1>6, <1>7, <1>8, TimerFrame, Zenon

\* The timers keep their place in the draft: each new one is of the phase that begins,
\* and the one it replaces, if it still ran, is of a phase that is over.
LEMMA TimersStep ==
  ASSUME Inv, TimersKnowTheirPhase, [Next]_vars
  PROVE  TimersKnowTheirPhase'
  <1> USE DEF TimersKnowTheirPhase, InProgress
  <1>0. Progress /\ phase \in Nat
    BY PhasesAssumption DEF Inv, TypeOK, DraftTypeOK, TotalPhases
  <1>1. CASE UNCHANGED <<timerVars, started, complete, phase, paused>>
    BY <1>1, Zenon DEF timerVars
  <1>2. CASE ~started /\ UNCHANGED <<phase, fired, paused>> /\ TimerStart(0, timer)
    <2>1. phase' = 0 /\ timer' = {0} /\ orphans' = {} /\ ~paused'
      BY <1>0, <1>2 DEF Progress, TimerStart
    <2> QED
      BY <2>1
  <1>3. CASE /\ InProgress /\ ~paused /\ AdvancePhase /\ UNCHANGED paused
             /\ \/ TimerStart(phase + 1, {})
                \/ TimerStart(phase + 1, timer)
                \/ complete'
    <2>1. timer \subseteq {phase} /\ \A p \in orphans : p < phase
      BY <1>3, Zenon
    <2>2. phase' = phase + 1 /\ ~paused'
      BY <1>3, Zenon DEF AdvancePhase
    <2>3. CASE ~complete'
      <3>1. timer' = {phase'} /\ orphans' \subseteq orphans \cup timer
        BY <1>3, <2>2, <2>3 DEF TimerStart
      <3>2. \A p \in orphans' : p < phase'
        BY <1>0, <2>1, <2>2, <3>1 DEF Inv, TypeOK, TimerTypeOK, PhaseIndex
      <3> QED
        BY <2>2, <3>1, <3>2, Zenon
    <2> QED
      BY <2>3, Zenon
  <1>4. CASE UNCHANGED <<started, complete, phase>> /\ paused' /\ TimerStop
    BY <1>4, Zenon DEF TimerStop
  <1>5. CASE /\ UNCHANGED <<started, complete, phase, paused>>
             /\ \E p \in PhaseIndex : TimerFires(p)
    <2>1. timer' \subseteq timer /\ orphans' \subseteq orphans
      BY <1>5, Zenon DEF TimerFires
    <2> QED
      BY <1>5, <2>1, Zenon
  <1>6. CASE UNCHANGED <<timer, orphans, started, complete, phase, paused>>
    BY <1>6, Zenon
  <1>7. CASE /\ paused /\ ~paused' /\ UNCHANGED <<started, complete, phase>>
             /\ TimerStart(phase, timer)
    <2>1. CASE InProgress
      <3>1. timer' = {phase'} /\ orphans' = orphans
        BY <1>7, <2>1 DEF TimerStart
      <3> QED
        BY <1>7, <2>1, <3>1, Zenon
    <2> QED
      BY <1>7, <2>1, Zenon
  <1> QED
    BY <1>1, <1>2, <1>3, <1>4, <1>5, <1>6, <1>7, TimerCases, Zenon

\* Every step leaves a draft that goes on with a timer or with an expiry on its way.
LEMMA DrivenStep ==
  ASSUME Inv, DraftIsDriven, [Next]_vars
  PROVE  DraftIsDriven'
  <1> USE DEF DraftIsDriven, InProgress
  <1>0. Progress /\ TimerTypeOK
    BY DEF Inv, TypeOK
  <1>1. CASE UNCHANGED <<timerVars, started, complete, phase, paused>>
    BY <1>1, Zenon DEF timerVars
  <1>2. CASE \E p \in {0, phase, phase + 1}, running \in {{}, timer} : TimerStart(p, running)
    <2>1. timer' # {}
      BY <1>2 DEF TimerStart
    <2> QED
      BY <2>1, Zenon
  <1>3. CASE complete' \/ paused'
    BY <1>3, Zenon
  <1>4. CASE /\ UNCHANGED <<started, complete, phase, paused>>
             /\ \E p \in PhaseIndex : TimerFires(p)
    <2>1. PICK p \in PhaseIndex : TimerFires(p)
      BY <1>4
    <2>2. fired'[p] > 0
      BY <1>0, <2>1 DEF TimerFires, TimerTypeOK
    <2> QED
      BY <2>2, Zenon
  <1>5. CASE UNCHANGED <<timer, orphans, started, complete, phase, paused>> /\ (paused \/ complete)
    BY <1>5, Zenon
  <1> QED
    BY <1>1, <1>2, <1>3, <1>4, <1>5, TimerCases, Zenon DEF TimerStop

-----------------------------------------------------------------------------
(* The theorems about the clock, the countdown and the pause.              *)

\* A draft that goes on always has a timer of its current phase, or an expiry that has
\* already fired, so that it never waits for a player (DraftIsDriven).
THEOREM AlwaysDriven == Spec => []DraftIsDriven
  <1>1. Init => Inv /\ DraftIsDriven
    BY InvInit DEF Init, DraftInit, DraftIsDriven, InProgress
  <1>2. Inv /\ DraftIsDriven /\ [Next]_vars => Inv' /\ DraftIsDriven'
    BY InvStep, DrivenStep
  <1> QED
    BY <1>1, <1>2, PTL DEF Spec

\* The timer that the room can stop is the one of the current phase, none runs in a
\* pause, and a timer lost by Start is of an earlier phase (TimersKnowTheirPhase).
THEOREM TimersInPlace == Spec => []TimersKnowTheirPhase
  <1>1. Init => Inv /\ TimersKnowTheirPhase
    BY InvInit DEF Init, DraftInit, TimersKnowTheirPhase, InProgress
  <1>2. Inv /\ TimersKnowTheirPhase /\ [Next]_vars => Inv' /\ TimersKnowTheirPhase'
    BY InvStep, TimersStep
  <1> QED
    BY <1>1, <1>2, PTL DEF Spec

\* However often the countdown is cancelled, restarted and raced by the auto-resume, a
\* goroutine is left that will count it down (CountdownIsDriven).
THEOREM CountdownAlwaysDriven == Spec => []CountdownIsDriven
  <1>1. Init => Inv /\ CountdownIsDriven
    <2> SUFFICES ASSUME Init PROVE CountdownIsDriven
      BY InvInit
    <2> QED
      BY DEF Init, PauseInit, CountdownIsDriven
  <1>2. Inv /\ CountdownIsDriven /\ [Next]_vars => Inv' /\ CountdownIsDriven'
    <2> SUFFICES ASSUME Inv, CountdownIsDriven, [Next]_vars PROVE CountdownIsDriven'
      BY InvStep
    <2>1. PauseTypeOK
      BY DEF Inv, TypeOK
    <2>2. CASE PauseStep
      BY <2>1, <2>2, CountdownDrivenStep
    <2>3. CASE UNCHANGED pauseVars
      BY <2>3, Zenon DEF pauseVars, CountdownIsDriven
    <2> QED
      BY <2>2, <2>3, PauseFrame
  <1> QED
    BY <1>1, <1>2, PTL DEF Spec

\* In a pause nothing but an agreed edit touches the draft: no handler, and no expiry
\* that had fired before the pause, starts it, advances it or completes it.
THEOREM PauseHolds == Spec => PauseHoldsDraft
  <1>1. Inv /\ [Next]_vars => [paused => UNCHANGED <<started, complete, phase>>]_vars
    <2> SUFFICES ASSUME Inv, [Next]_vars, paused
                 PROVE  UNCHANGED <<started, complete, phase>>
      OBVIOUS
    <2>1. started
      BY Zenon DEF Inv, Progress, InProgress
    <2> QED
      BY <2>1, DraftFrame, Zenon DEF draftVars, StartDraft, SelectChampion, LockIn,
         ConfirmEdit, EditConfirm, TimerExpired
  <1> QED
    BY <1>1, InvInit, InvStep, PTL DEF Spec, PauseHoldsDraft

-----------------------------------------------------------------------------
(* Somebody can go on.                                                     *)

\* The second side that gets ready starts the countdown: a pause without a countdown is
\* one in which some side is not ready.
SomeSideIsAwaited == paused /\ countdown = 0 => resumeReady # Side

LEMMA AwaitedStep ==
  ASSUME PauseTypeOK, SomeSideIsAwaited, PauseStep
  PROVE  SomeSideIsAwaited'
  <1> USE DEF PauseTypeOK, SomeSideIsAwaited
  <1>1. CASE \E s \in Side, ready \in BOOLEAN : ResumeReady(s, ready)
    BY <1>1, PauseAssumption DEF ResumeReady
  <1>2. CASE PauseBegin \/ CountdownCancel \/ CountdownEnds \/ AutoResumeEnds
    BY <1>2 DEF PauseBegin, CountdownCancel, CountdownEnds, AutoResumeEnds, ResumeClears, Side
  <1>3. CASE CountdownSteps
    BY <1>3 DEF CountdownSteps
  <1>4. CASE \/ CountdownWaits \/ CountdownReturns \/ CountdownStale \/ PauseTimerFires
             \/ AutoResumeIgnored \/ \E from \in Place : CountdownTicks(from)
    BY <1>4 DEF CountdownWaits, CountdownReturns, CountdownStale, PauseTimerFires,
                AutoResumeIgnored, CountdownTicks
  <1> QED
    BY <1>1, <1>2, <1>3, <1>4, Zenon DEF PauseStep

\* A draft that waits always has a side with something to do (SomeoneIsAsked): the side
\* to move, the side that has to answer an edit, or one that is not ready to resume.
THEOREM AlwaysAsked == Spec => []SomeoneIsAsked
  <1>1. Init => Inv /\ SomeSideIsAwaited
    BY InvInit DEF Init, PauseInit, SomeSideIsAwaited
  <1>2. Inv /\ SomeSideIsAwaited /\ [Next]_vars => Inv' /\ SomeSideIsAwaited'
    <2> SUFFICES ASSUME Inv, SomeSideIsAwaited, [Next]_vars PROVE SomeSideIsAwaited'
      BY InvStep
    <2>1. PauseTypeOK
      BY DEF Inv, TypeOK
    <2>2. CASE PauseStep
      BY <2>1, <2>2, AwaitedStep
    <2>3. CASE UNCHANGED pauseVars
      BY <2>3, Zenon DEF pauseVars, SomeSideIsAwaited
    <2> QED
      BY <2>2, <2>3, PauseFrame
  <1>3. Inv /\ SomeSideIsAwaited => SomeoneIsAsked
    <2> SUFFICES ASSUME Inv, SomeSideIsAwaited, InProgress, countdown = 0
                 PROVE  \E s \in Side : PendingAction(s) # "none"
      BY DEF SomeoneIsAsked
    <2>1. /\ CurrentPhase \in Kind /\ Turn \in Side
          /\ paused \in BOOLEAN /\ resumeReady \subseteq Side
          /\ edit \in PendingEdit \cup {Nil}
      BY CurrentPhaseKind DEF Inv, TypeOK, PauseTypeOK, EditTypeOK, InProgress
    <2>2. CASE ~paused
      <3>1. PendingAction(Turn) = CurrentPhase[2] /\ CurrentPhase[2] # "none"
        BY <2>1, <2>2 DEF PendingAction, Kind, ActionType
      <3> QED
        BY <2>1, <3>1
    <2>3. CASE paused /\ edit # Nil
      <3>1. PICK s \in Side : s # edit.by
        BY DEF Side
      <3>2. PendingAction(s) = "pending_edit"
        BY <2>3, <3>1 DEF PendingAction
      <3> QED
        BY <3>2
    <2>4. CASE paused /\ edit = Nil
      <3>1. PICK s \in Side : s \notin resumeReady
        BY <2>1, <2>4 DEF SomeSideIsAwaited
      <3>2. PendingAction(s) = "ready_to_resume"
        BY <2>4, <3>1 DEF PendingAction
      <3> QED
        BY <3>2
    <2> QED
      BY <2>1, <2>2, <2>3, <2>4
  <1> QED
    BY <1>1, <1>2, <1>3, PTL DEF Spec
=============================================================================

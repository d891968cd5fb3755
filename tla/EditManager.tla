----------------------------- MODULE EditManager -----------------------------
(***************************************************************************)
(* EditManager (edit_manager.go): at most one proposal to replace a locked *)
(* champion, its 30 second timer, and the timer's callbacks that have      *)
(* fired and wait for em.mu.  A callback does not know which proposal it   *)
(* was started for.                                                        *)
(***************************************************************************)
EXTENDS DraftState

CONSTANTS EditChampion,     \* the champions that players propose in edits
          MaxEditTimeouts   \* bound on timeout callbacks waiting for em.mu

ASSUME EditAssumption == EditChampion \subseteq Champion /\ MaxEditTimeouts \in Nat

PendingEdit ==
  [by : Side, kind : Kind, index : 1 .. TotalPhases, champion : EditChampion]

ASSUME NilAssumption == Nil \notin PendingEdit

VARIABLES edit,         \* em.pendingEdit
          editTimer,    \* em.editTimeout is running
          editTimeouts  \* handleTimeout callbacks waiting for em.mu

editVars == <<edit, editTimer, editTimeouts>>

EditTypeOK ==
  /\ edit \in PendingEdit \cup {Nil}
  /\ editTimer \in BOOLEAN
  /\ editTimeouts \in 0 .. MaxEditTimeouts

EditInit ==
  /\ edit = Nil
  /\ editTimer = FALSE
  /\ editTimeouts = 0

\* ProposeEdit under em.mu: no other proposal, the slot is filled, the champion is free.
Proposable(e) ==
  /\ edit = Nil
  /\ e.index <= Len(board[e.kind])
  /\ ~IsChampionUsedExcept(e.champion, e.kind, e.index)

EditPropose(e) ==
  /\ edit' = e
  /\ editTimer' = TRUE
  /\ UNCHANGED editTimeouts

\* clearLocked
EditClear ==
  /\ edit' = Nil
  /\ editTimer' = FALSE

\* Confirming asks for a proposal of the other side, not for a pause.
EditConfirm(s) ==
  /\ edit # Nil
  /\ s # edit.by
  /\ ApplyEdit(edit.kind, edit.index, edit.champion)
  /\ EditClear
  /\ UNCHANGED editTimeouts

\* Rejecting is open to whoever is not of the proposing side.
EditReject(s) ==
  /\ edit # Nil
  /\ s # edit.by
  /\ EditClear
  /\ UNCHANGED editTimeouts

EditTimerFires ==
  /\ editTimer
  /\ editTimeouts < MaxEditTimeouts
  /\ editTimer' = FALSE
  /\ editTimeouts' = editTimeouts + 1
  /\ UNCHANGED edit

\* handleTimeout clears whatever proposal it finds.
EditTimesOut ==
  /\ editTimeouts > 0
  /\ editTimeouts' = editTimeouts - 1
  /\ IF edit = Nil THEN UNCHANGED <<edit, editTimer>> ELSE EditClear
=============================================================================

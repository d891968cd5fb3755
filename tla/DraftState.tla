----------------------------- MODULE DraftState -----------------------------
(***************************************************************************)
(* DraftStateManager (draft_state.go): the four arrays of the draft, the   *)
(* phase counter, and the champion each side has selected but not locked.  *)
(* The operators below are the parts that Room's handlers put together;    *)
(* they constrain only the variables declared here.                        *)
(***************************************************************************)
EXTENDS DraftPhases

VARIABLES started,   \* state.Started
          complete,  \* state.IsComplete
          phase,     \* state.CurrentPhase, the 0-based index into the table
          board,     \* BlueBans, RedBans, BluePicks, RedPicks, by their phase kind
          hover      \* currentHover: side -> selected champion or Nil

draftVars == <<started, complete, phase, board, hover>>

DraftTypeOK ==
  /\ started \in BOOLEAN
  /\ complete \in BOOLEAN
  /\ phase \in 0 .. TotalPhases
  /\ board \in [Kind -> Seq(Entry)]
  /\ hover \in [Side -> Champion \cup {Nil}]

DraftInit ==
  /\ started = FALSE
  /\ complete = FALSE
  /\ phase = 0
  /\ board = [k \in Kind |-> << >>]
  /\ hover = [s \in Side |-> Nil]

InProgress == started /\ ~complete

\* domain.GetPhase(CurrentPhase), which is not nil while the draft is in progress.
CurrentPhase == Phases[phase + 1]
Turn == CurrentPhase[1]

Slots == {ki \in Kind \X (1 .. TotalPhases) : ki[2] \in 1 .. Len(board[ki[1]])}

IsChampionUsed(c) == \E ki \in Slots : board[ki[1]][ki[2]] = c

\* The slot being edited is the one place where the champion may already be.
IsChampionUsedExcept(c, k, i) ==
  \E ki \in Slots : ki # <<k, i>> /\ board[ki[1]][ki[2]] = c

\* Faulty form of ApplySelection: the kind of the action is not looked at.
ApplySelectionMisfiled(c) == board' = [board EXCEPT ![<<Turn, "pick">>] = Append(@, c)]

ApplySelection(c) == board' = [board EXCEPT ![CurrentPhase] = Append(@, c)]

\* Faulty forms of AdvancePhase: complete one phase too soon; hover state not cleared.
AdvancePhaseEarly ==
  /\ phase' = phase + 1
  /\ hover' = [s \in Side |-> Nil]
  /\ complete' = (phase + 2 >= TotalPhases)
  /\ UNCHANGED started

AdvancePhaseKeepsHover ==
  /\ phase' = phase + 1
  /\ complete' = (phase + 1 >= TotalPhases)
  /\ UNCHANGED <<hover, started>>

\* advancePhase, except for the timer it starts when the draft goes on.
AdvancePhase ==
  /\ phase' = phase + 1
  /\ hover' = [s \in Side |-> Nil]
  /\ complete' = (phase + 1 >= TotalPhases)
  /\ UNCHANGED started

\* What the expired clock of the current phase may record: nothing for a ban; for a
\* pick an unused champion, or "None" when there is none or the repository fails.
AutoSelections ==
  IF CurrentPhase[2] = "ban"
  THEN {None}
  ELSE {None} \cup {c \in Champion : ~IsChampionUsed(c)}

\* Faulty form of ApplyEdit: the index is used in every array, not only the named one.
ApplyEditEverywhere(k, i, c) ==
  board' = [kk \in Kind |->
              IF i <= Len(board[kk]) THEN [board[kk] EXCEPT ![i] = c] ELSE board[kk]]

\* The handler of a confirmed edit replaces the entry in place.
ApplyEdit(k, i, c) ==
  board' = IF i <= Len(board[k]) THEN [board EXCEPT ![k][i] = c] ELSE board
=============================================================================

-------------------------- MODULE DraftBoardProofs --------------------------
(***************************************************************************)
(* Theorems about what the arrays of a draft hold, for every phase table:  *)
(* they follow the table, and without edits no champion is in them twice.  *)
(* Read in the order of the table, the four arrays are one list that grows *)
(* at its end and is otherwise changed one entry at a time: the room keeps *)
(* the promises of DraftSpec.                                              *)
(***************************************************************************)
EXTENDS DraftRoomProofs, SequenceTheorems

-----------------------------------------------------------------------------
(* Counting the phases of a kind.                                          *)

\* One more phase counts for its own kind and for no other.
LEMMA CountOfNext ==
  ASSUME NEW k \in Kind, NEW n \in PhaseIndex
  PROVE  /\ CountOf(k, n) \in Nat
         /\ CountOf(k, n + 1) = CountOf(k, n) + IF Phases[n + 1] = k THEN 1 ELSE 0
  <1> DEFINE S == {j \in 1 .. n : Phases[j] = k}
  <1>0. n \in Nat
    BY PhasesAssumption DEF PhaseIndex, TotalPhases
  <1>1. IsFiniteSet(S)
    BY <1>0, FS_Interval, FS_Subset
  <1>2. Cardinality(S) \in Nat
    BY <1>1, FS_CardinalityType
  <1>3. CASE Phases[n + 1] = k
    <2>1. {j \in 1 .. n + 1 : Phases[j] = k} = S \cup {n + 1}
      BY <1>0, <1>3
    <2>2. n + 1 \notin S
      BY <1>0
    <2>3. Cardinality(S \cup {n + 1}) = Cardinality(S) + 1
      BY <1>1, <2>2, FS_AddElement
    <2> QED
      BY <1>2, <1>3, <2>1, <2>3, Zenon DEF CountOf
  <1>4. CASE Phases[n + 1] # k
    <2>1. {j \in 1 .. n + 1 : Phases[j] = k} = S
      BY <1>0, <1>4
    <2>2. CountOf(k, n + 1) = CountOf(k, n) /\ CountOf(k, n) \in Nat
      BY <1>2, <2>1, Zenon DEF CountOf
    <2> QED
      BY <1>4, <2>2
  <1> QED
    BY <1>3, <1>4

LEMMA CountOfNone == ASSUME NEW k \in Kind PROVE CountOf(k, 0) = 0
  <1>1. {j \in 1 .. 0 : Phases[j] = k} = {}
    OBVIOUS
  <1> QED
    BY <1>1, FS_EmptySet, Zenon DEF CountOf

-----------------------------------------------------------------------------
(* The steps as the arrays see them.                                       *)

\* Every step leaves the arrays and the counter alone, or records one selection and
\* advances, or carries out the pending edit.
LEMMA BoardCases ==
  ASSUME Inv, [Next]_vars
  PROVE  \/ UNCHANGED <<complete, phase, board>>
         \/ /\ ~complete /\ AdvancePhase
            /\ \E c \in Entry :
                  /\ ApplySelection(c)
                  /\ c = None \/ ~IsChampionUsed(c) \/ \E s \in Side : hover[s] = c
         \/ /\ edit \in PendingEdit
            /\ ApplyEdit(edit.kind, edit.index, edit.champion)
            /\ UNCHANGED <<complete, phase, hover>>
  <1>0. TypeOK
    BY DEF Inv
  <1>1. CASE \E s \in Side : LockIn(s)
    <2>1. PICK s \in Side : LockIn(s)
      BY <1>1
    <2>2. hover[s] \in Entry
      BY <1>0, <2>1 DEF LockIn, TypeOK, DraftTypeOK, Entry
    <2> QED
      BY <2>1, <2>2, Zenon DEF LockIn, InProgress
  <1>2. CASE \E p \in PhaseIndex : TimerExpired(p)
    <2>1. ~complete /\ AdvancePhase /\ \E c \in AutoSelections : ApplySelection(c)
      BY <1>2, Zenon DEF TimerExpired
    <2>2. \A c \in AutoSelections : c \in Entry /\ (c = None \/ ~IsChampionUsed(c))
      BY DEF AutoSelections, Entry
    <2> QED
      BY <2>1, <2>2, Zenon
  <1>3. CASE \E s \in Side : ConfirmEdit(s)
    BY <1>0, <1>3, Zenon DEF ConfirmEdit, EditConfirm, TypeOK, EditTypeOK
  <1>4. CASE UNCHANGED draftVars \/ StartDraft \/ \E s \in Side, c \in Champion : SelectChampion(s, c)
    BY <1>4, Zenon DEF draftVars, StartDraft, SelectChampion
  <1> QED
    BY <1>1, <1>2, <1>3, <1>4, DraftFrame, Zenon

\* A selection goes to the end of the array of the current phase.
LEMMA SelectionLengthens ==
  ASSUME DraftTypeOK, CurrentPhase \in Kind, NEW c \in Entry, ApplySelection(c)
  PROVE  \A k \in Kind : Len(board'[k]) = Len(board[k]) + IF k = CurrentPhase THEN 1 ELSE 0
  <1> SUFFICES ASSUME NEW k \in Kind
               PROVE  Len(board'[k]) = Len(board[k]) + IF k = CurrentPhase THEN 1 ELSE 0
    OBVIOUS
  <1>1. board[k] \in Seq(Entry) /\ Len(board[k]) \in Nat
    BY DEF DraftTypeOK
  <1>2. board'[k] = IF k = CurrentPhase THEN Append(board[k], c) ELSE board[k]
    BY DEF DraftTypeOK, ApplySelection
  <1>3. Len(Append(board[k], c)) = Len(board[k]) + 1
    BY <1>1
  <1>4. CASE k = CurrentPhase
    <2>1. Len(board'[k]) = Len(board[k]) + 1
      BY <1>2, <1>3, <1>4, Zenon
    <2> QED
      BY <1>4, <2>1
  <1>5. CASE k # CurrentPhase
    <2>1. Len(board'[k]) = Len(board[k])
      BY <1>2, <1>5, Zenon
    <2> QED
      BY <1>1, <1>5, <2>1
  <1> QED
    BY <1>4, <1>5

\* An edit keeps every array as long as it is.
LEMMA EditKeepsLengths ==
  ASSUME DraftTypeOK, NEW e \in Kind, NEW i \in 1 .. TotalPhases, NEW c \in Entry,
         ApplyEdit(e, i, c)
  PROVE  \A k \in Kind : Len(board'[k]) = Len(board[k])
  <1> SUFFICES ASSUME NEW k \in Kind PROVE Len(board'[k]) = Len(board[k])
    OBVIOUS
  <1>1. board[k] \in Seq(Entry)
    BY DEF DraftTypeOK
  <1>2. board'[k] = board[k] \/ board'[k] = [board[k] EXCEPT ![i] = c]
    BY DEF DraftTypeOK, ApplyEdit
  <1> QED
    BY <1>1, <1>2

LEMMA BoardInit == Init => BoardFollowsPhases
  <1> SUFFICES ASSUME Init PROVE BoardFollowsPhases
    OBVIOUS
  <1>1. complete <=> phase = TotalPhases
    BY InitTyped, Zenon DEF Progress
  <1>2. \A k \in Kind : Len(board[k]) = CountOf(k, phase)
    BY CountOfNone DEF Init, DraftInit
  <1> QED
    BY <1>1, <1>2, Zenon DEF BoardFollowsPhases

LEMMA BoardStep ==
  ASSUME Inv, BoardFollowsPhases, [Next]_vars
  PROVE  BoardFollowsPhases'
  <1>0. TypeOK /\ DraftTypeOK /\ Progress /\ Progress'
    BY InvStep, Zenon DEF Inv, TypeOK
  <1>1. complete' <=> phase' = TotalPhases
    BY <1>0, Zenon DEF Progress
  <1>2. CASE UNCHANGED <<complete, phase, board>>
    BY <1>2, Zenon DEF BoardFollowsPhases
  <1>3. ASSUME ~complete, AdvancePhase, NEW c \in Entry, ApplySelection(c)
        PROVE  \A k \in Kind : Len(board'[k]) = CountOf(k, phase')
    <2> SUFFICES ASSUME NEW k \in Kind PROVE Len(board'[k]) = CountOf(k, phase')
      OBVIOUS
    <2>1. phase \in PhaseIndex /\ CurrentPhase \in Kind /\ CurrentPhase = Phases[phase + 1]
      BY <1>0, <1>3, CurrentPhaseKind DEF CurrentPhase
    <2>2. Len(board'[k]) = Len(board[k]) + IF k = CurrentPhase THEN 1 ELSE 0
      BY <1>0, <1>3, <2>1, SelectionLengthens
    <2>3. phase' = phase + 1 /\ Len(board[k]) = CountOf(k, phase)
      BY <1>3, Zenon DEF AdvancePhase, BoardFollowsPhases
    <2> QED
      BY <2>1, <2>2, <2>3, CountOfNext
  <1>4. CASE /\ edit \in PendingEdit
             /\ ApplyEdit(edit.kind, edit.index, edit.champion)
             /\ UNCHANGED <<complete, phase, hover>>
    <2>1. \A k \in Kind : Len(board'[k]) = Len(board[k])
      BY <1>0, <1>4, PendingEditFields, EditKeepsLengths DEF Entry
    <2> QED
      BY <1>4, <2>1, Zenon DEF BoardFollowsPhases
  <1> QED
    BY <1>1, <1>2, <1>3, <1>4, BoardCases, Zenon DEF BoardFollowsPhases

\* The four arrays are always exactly what the table asks for up to the current phase
\* (BoardFollowsPhases): no lock-in, expiry or edit skips, repeats or misfiles an entry.
THEOREM BoardInOrder == Spec => []BoardFollowsPhases
  <1>1. Inv /\ BoardFollowsPhases /\ [Next]_vars => Inv' /\ BoardFollowsPhases'
    BY InvStep, BoardStep
  <1> QED
    BY <1>1, InvInit, BoardInit, PTL DEF Spec

-----------------------------------------------------------------------------
(* A room whose players never edit.                                        *)

\* Without edits the selections stay free, and no champion is recorded twice.
Unedited == EditChampion = {} /\ Inv /\ HoversAreFree /\ ChampionsUnique

\* Recording None or a champion that is in no array keeps the champions apart.
LEMMA SelectionKeepsUnique ==
  ASSUME DraftTypeOK, CurrentPhase \in Kind, ChampionsUnique,
         NEW c \in Entry, ApplySelection(c), c = None \/ ~IsChampionUsed(c)
  PROVE  ChampionsUnique'
  <1> DEFINE L == Len(board[CurrentPhase])
             new == <<CurrentPhase, L + 1>>
             At(ki) == board[ki[1]][ki[2]]
  <1>1. \A ki \in Slots' : \/ ki = new /\ At(ki)' = c
                           \/ ki \in Slots /\ At(ki)' = At(ki)
    <2> SUFFICES ASSUME NEW k \in Kind, NEW i \in 1 .. TotalPhases, i \in 1 .. Len(board'[k])
                 PROVE  \/ k = CurrentPhase /\ i = L + 1 /\ board'[k][i] = c
                        \/ i \in 1 .. Len(board[k]) /\ board'[k][i] = board[k][i]
      BY DEF Slots
    <2>1. board[k] \in Seq(Entry)
      BY DEF DraftTypeOK
    <2>2. CASE k = CurrentPhase
      <3>1. board'[k] = Append(board[k], c)
        BY <2>2 DEF DraftTypeOK, ApplySelection
      <3> QED
        BY <2>1, <2>2, <3>1
    <2>3. CASE k # CurrentPhase
      <3>1. board'[k] = board[k]
        BY <2>3 DEF DraftTypeOK, ApplySelection
      <3> QED
        BY <3>1
    <2> QED
      BY <2>2, <2>3
  <1>2. c = None \/ \A ki \in Slots : At(ki) # c
    BY Zenon DEF IsChampionUsed
  <1>3. \A a, b \in Slots : At(a) = At(b) => a = b \/ At(a) = None
    BY Zenon DEF ChampionsUnique
  <1>4. \A a, b \in Slots' : At(a)' = At(b)' => a = b \/ At(a)' = None
    <2> HIDE DEF At, new, L
    <2> QED
      BY <1>1, <1>2, <1>3, Zenon
  <1> QED
    BY <1>4, Zenon DEF ChampionsUnique

LEMMA UneditedInit == EditChampion = {} /\ Init => Unedited
  <1> SUFFICES ASSUME EditChampion = {}, Init PROVE HoversAreFree /\ ChampionsUnique
    BY InvInit DEF Unedited
  <1>1. Slots = {}
    BY DEF Init, DraftInit, Slots
  <1>2. \A s \in Side : hover[s] = Nil
    BY DEF Init, DraftInit
  <1> QED
    BY <1>1, <1>2, Zenon DEF HoversAreFree, ChampionsUnique

LEMMA UneditedStep == Unedited /\ [Next]_vars => Unedited'
  <1> SUFFICES ASSUME Unedited, [Next]_vars PROVE HoversAreFree' /\ ChampionsUnique'
    BY InvStep, Zenon DEF Unedited
  <1>0. Inv /\ TypeOK /\ DraftTypeOK /\ Progress /\ HoversAreFree /\ ChampionsUnique
    BY Zenon DEF Unedited, Inv, TypeOK
  <1>1. edit \notin PendingEdit
    BY DEF Unedited, PendingEdit
  <1>2. ASSUME ~complete, AdvancePhase, NEW c \in Entry, ApplySelection(c),
               c = None \/ ~IsChampionUsed(c) \/ \E s \in Side : hover[s] = c
        PROVE  HoversAreFree' /\ ChampionsUnique'
    <2>1. c = None \/ ~IsChampionUsed(c)
      BY <1>0, <1>2, ChampionAssumption DEF HoversAreFree, Entry
    <2>2. HoversAreFree'
      BY <1>2 DEF AdvancePhase, HoversAreFree
    <2> QED
      BY <1>0, <1>2, <2>1, <2>2, CurrentPhaseKind, SelectionKeepsUnique
  <1>3. CASE UNCHANGED <<complete, phase, board>>
    <2>1. ChampionsUnique' /\ \A c : IsChampionUsed(c)' <=> IsChampionUsed(c)
      BY <1>0, <1>3, Zenon DEF ChampionsUnique, IsChampionUsed, Slots
    <2>2. CASE UNCHANGED hover
      BY <1>0, <2>1, <2>2, Zenon DEF HoversAreFree
    <2>3. CASE \E s \in Side, c \in Champion : SelectChampion(s, c)
      <3>1. PICK s \in Side, c \in Champion : SelectChampion(s, c)
        BY <2>3
      <3>2. ~IsChampionUsed(c) /\ hover' = [hover EXCEPT ![s] = c]
        BY <3>1, Zenon DEF SelectChampion
      <3>3. \A t \in Side : hover'[t] = hover[t] \/ hover'[t] = c
        BY <1>0, <3>2 DEF DraftTypeOK
      <3> QED
        BY <1>0, <2>1, <3>2, <3>3, Zenon DEF HoversAreFree
    <2>4. UNCHANGED hover \/ (\E s \in Side, c \in Champion : SelectChampion(s, c)) \/ phase' # phase
      <3>1. phase + 1 # phase
        BY <1>0 DEF DraftTypeOK
      <3> QED
        BY <3>1, DraftFrame, Zenon DEF draftVars, StartDraft, LockIn, ConfirmEdit, EditConfirm, TimerExpired,
           AdvancePhase
    <2> QED
      BY <1>3, <2>1, <2>2, <2>3, <2>4
  <1> QED
    BY <1>0, <1>1, <1>2, <1>3, BoardCases, Zenon

\* In a room whose players never propose an edit, no champion is banned or picked twice
\* (ChampionsUnique): "Champion is already picked or banned" in handleSelectChampion is
\* enough, although LockIn does not ask again.
THEOREM UniqueWithoutEdits == ASSUME EditChampion = {} PROVE Spec => []ChampionsUnique
  <1>1. Init => Unedited
    BY UneditedInit
  <1>2. Unedited => ChampionsUnique
    BY DEF Unedited
  <1> QED
    BY <1>1, <1>2, UneditedStep, PTL DEF Spec

\* In such a room a selection also stays free until it is locked in (HoversAreFree):
\* each change of turn clears both selections, so that no lock-in can take a champion
\* away from the other side's selection.
THEOREM HoversFreeWithoutEdits == ASSUME EditChampion = {} PROVE Spec => []HoversAreFree
  <1>1. Init => Unedited
    BY UneditedInit
  <1>2. Unedited => HoversAreFree
    BY DEF Unedited
  <1> QED
    BY <1>1, <1>2, UneditedStep, PTL DEF Spec

-----------------------------------------------------------------------------
(* The table of the server.                                                *)

\* The twenty phases of the server give each array five entries.
LEMMA FiveOfEach ==
  ASSUME Phases = ProPlayPhases
  PROVE  TotalPhases = 20 /\ \A k \in Kind : CountOf(k, 20) = 5
  <1>1. /\ Len(Phases) = 20
        /\ Phases[1] = <<"blue", "ban">> /\ Phases[2] = <<"red", "ban">>
        /\ Phases[3] = <<"blue", "ban">> /\ Phases[4] = <<"red", "ban">>
        /\ Phases[5] = <<"blue", "ban">> /\ Phases[6] = <<"red", "ban">>
        /\ Phases[7] = <<"blue", "pick">> /\ Phases[8] = <<"red", "pick">>
        /\ Phases[9] = <<"red", "pick">> /\ Phases[10] = <<"blue", "pick">>
        /\ Phases[11] = <<"blue", "pick">> /\ Phases[12] = <<"red", "pick">>
        /\ Phases[13] = <<"red", "ban">> /\ Phases[14] = <<"blue", "ban">>
        /\ Phases[15] = <<"red", "ban">> /\ Phases[16] = <<"blue", "ban">>
        /\ Phases[17] = <<"red", "pick">> /\ Phases[18] = <<"blue", "pick">>
        /\ Phases[19] = <<"blue", "pick">> /\ Phases[20] = <<"red", "pick">>
    BY DEF ProPlayPhases
  <1>2. ASSUME NEW k \in Kind PROVE CountOf(k, 20) = 5
    <2> DEFINE one(n) == IF Phases[n] = k THEN 1 ELSE 0
    <2>1. ASSUME NEW n \in 1 .. 20
          PROVE  CountOf(k, n) \in Nat /\ CountOf(k, n) = CountOf(k, n - 1) + one(n)
      <3>1. n - 1 \in PhaseIndex /\ (n - 1) + 1 = n
        BY <1>1 DEF PhaseIndex, TotalPhases
      <3>2. CountOf(k, n - 1) \in Nat /\ CountOf(k, (n - 1) + 1) = CountOf(k, n - 1) + one((n - 1) + 1)
        BY <3>1, CountOfNext
      <3> QED
        BY <3>1, <3>2
    <2>2. CountOf(k, 0) = 0
      BY CountOfNone
    <2>3. CASE k = <<"blue", "ban">>
      BY <1>1, <2>1, <2>2, <2>3
    <2>4. CASE k = <<"red", "ban">>
      BY <1>1, <2>1, <2>2, <2>4
    <2>5. CASE k = <<"blue", "pick">>
      BY <1>1, <2>1, <2>2, <2>5
    <2>6. CASE k = <<"red", "pick">>
      BY <1>1, <2>1, <2>2, <2>6
    <2> QED
      BY <2>3, <2>4, <2>5, <2>6 DEF Kind, Side, ActionType
  <1> QED
    BY <1>1, <1>2 DEF TotalPhases

\* With the server's table a finished draft is fair (FinishedDraftIsFair): five bans and
\* five picks of each side, whatever mixture of lock-ins, expiries and edits it came from.
THEOREM ProPlayIsFair == ASSUME Phases = ProPlayPhases PROVE Spec => []FinishedDraftIsFair
  <1>1. Inv /\ BoardFollowsPhases => FinishedDraftIsFair
    <2> SUFFICES ASSUME BoardFollowsPhases, complete PROVE FinishedDraftIsFair
      BY DEF FinishedDraftIsFair
    <2>1. \A k \in Kind : Len(board[k]) = 5
      BY FiveOfEach, Zenon DEF BoardFollowsPhases
    <2> QED
      BY <2>1 DEF FinishedDraftIsFair, Kind, Side, ActionType
  <1>2. Inv /\ BoardFollowsPhases /\ [Next]_vars => Inv' /\ BoardFollowsPhases'
    BY InvStep, BoardStep
  <1> QED
    BY <1>1, <1>2, InvInit, BoardInit, PTL DEF Spec

-----------------------------------------------------------------------------
(* The place of a phase in its array.                                      *)

\* The phases among the first n that fill the array k.
PhasesOf(k, n) == {j \in 1 .. n : Phases[j] = k}

LEMMA PhasesOfFinite ==
  ASSUME NEW k \in Kind, NEW n \in Nat
  PROVE  /\ IsFiniteSet(PhasesOf(k, n))
         /\ CountOf(k, n) = Cardinality(PhasesOf(k, n))
         /\ CountOf(k, n) \in Nat
  <1>1. IsFiniteSet(1 .. n) /\ PhasesOf(k, n) \subseteq 1 .. n
    BY FS_Interval DEF PhasesOf
  <1>2. IsFiniteSet(PhasesOf(k, n))
    BY <1>1, FS_Subset
  <1>3. CountOf(k, n) = Cardinality(PhasesOf(k, n))
    BY DEF CountOf, PhasesOf
  <1> QED
    BY <1>2, <1>3, FS_CardinalityType

\* A phase of the kind that comes later has a higher count.
LEMMA LaterCountsMore ==
  ASSUME NEW k \in Kind, NEW i \in Nat, NEW j \in Nat, i < j, Phases[j] = k
  PROVE  CountOf(k, i) < CountOf(k, j)
  <1>1. PhasesOf(k, i) \subseteq PhasesOf(k, j) /\ j \in PhasesOf(k, j) /\ j \notin PhasesOf(k, i)
    BY DEF PhasesOf
  <1>2. /\ IsFiniteSet(PhasesOf(k, j)) /\ IsFiniteSet(PhasesOf(k, i))
        /\ CountOf(k, j) = Cardinality(PhasesOf(k, j)) /\ CountOf(k, j) \in Nat
        /\ CountOf(k, i) = Cardinality(PhasesOf(k, i)) /\ CountOf(k, i) \in Nat
    BY PhasesOfFinite, Zenon
  <1>3. /\ Cardinality(PhasesOf(k, i)) <= Cardinality(PhasesOf(k, j))
        /\ Cardinality(PhasesOf(k, j)) = Cardinality(PhasesOf(k, i))
             => PhasesOf(k, j) = PhasesOf(k, i)
    BY <1>1, <1>2, FS_Subset
  <1>4. CountOf(k, i) # CountOf(k, j)
    BY <1>1, <1>2, <1>3, Zenon
  <1> QED
    BY <1>2, <1>3, <1>4

\* The count up to any phase is at most the count up to a later one.
LEMMA EarlierCountsLess ==
  ASSUME NEW k \in Kind, NEW i \in Nat, NEW n \in Nat, i <= n
  PROVE  CountOf(k, i) <= CountOf(k, n)
  <1>1. PhasesOf(k, i) \subseteq PhasesOf(k, n)
    BY DEF PhasesOf
  <1>2. Cardinality(PhasesOf(k, i)) <= Cardinality(PhasesOf(k, n))
    BY <1>1, PhasesOfFinite, FS_Subset
  <1> QED
    BY <1>2, PhasesOfFinite

\* The ranks of the first n phases of a kind are the numbers up to their count, each once.
LEMMA Ranks ==
  ASSUME NEW k \in Kind, NEW n \in Nat
  PROVE  /\ \A j \in PhasesOf(k, n) : Rank(j) \in 1 .. CountOf(k, n)
         /\ \A i, j \in PhasesOf(k, n) : Rank(i) = Rank(j) => i = j
         /\ \A r \in 1 .. CountOf(k, n) : \E j \in PhasesOf(k, n) : Rank(j) = r
  <1> DEFINE S == PhasesOf(k, n)
             m == CountOf(k, n)
             rank == [j \in S |-> Rank(j)]
  <1>0. /\ IsFiniteSet(S) /\ m = Cardinality(S) /\ m \in Nat
        /\ \A j \in S : j \in Nat /\ 1 <= j /\ j <= n /\ Phases[j] = k /\ Rank(j) = CountOf(k, j)
    BY PhasesOfFinite DEF PhasesOf, Rank
  <1>1. ASSUME NEW j \in S PROVE Rank(j) \in 1 .. m
    <2>1. CountOf(k, 0) < CountOf(k, j) /\ CountOf(k, j) <= m
      BY <1>0, LaterCountsMore, EarlierCountsLess
    <2>2. CountOf(k, 0) \in Nat /\ CountOf(k, j) \in Nat
      BY <1>0, PhasesOfFinite
    <2> HIDE DEF S, m
    <2> QED
      BY <1>0, <2>1, <2>2
  <1>2. ASSUME NEW i \in S, NEW j \in S, Rank(i) = Rank(j) PROVE i = j
    <2>1. CountOf(k, i) = CountOf(k, j) /\ CountOf(k, j) \in Nat
      BY <1>0, <1>2, PhasesOfFinite
    <2>2. ~(i < j) /\ ~(j < i)
      BY <1>0, <2>1, LaterCountsMore
    <2> HIDE DEF S
    <2> QED
      BY <1>0, <2>2
  <1>3. rank \in Injection(S, 1 .. m)
    <2> HIDE DEF S, m
    <2> QED
      BY <1>1, <1>2 DEF Injection, IsInjective
  <1>4. IsFiniteSet(1 .. m) /\ Cardinality(1 .. m) = m
    <2> HIDE DEF m
    <2>1. 1 \in Int /\ m \in Int
      BY <1>0
    <2>2. IsFiniteSet(1 .. m) /\ Cardinality(1 .. m) = IF 1 > m THEN 0 ELSE m - 1 + 1
      BY <2>1, FS_Interval
    <2> QED
      BY <1>0, <2>2
  <1>5. rank \in Surjection(S, 1 .. m)
    <2> HIDE DEF S, m, rank
    <2> QED
      BY <1>0, <1>3, <1>4, FS_Injection
  <1>6. \A r \in 1 .. m : \E j \in S : Rank(j) = r
    <2> HIDE DEF S, m
    <2> QED
      BY <1>5 DEF Surjection
  <1> QED
    BY <1>1, <1>2, <1>6, Zenon

-----------------------------------------------------------------------------
(* The arrays as one list.                                                 *)

\* Every phase that is over has its entry in the arrays, and Draft lists them.
LEMMA DraftIsList ==
  ASSUME DraftTypeOK, BoardFollowsPhases
  PROVE  /\ phase \in Nat /\ phase <= TotalPhases
         /\ \A i \in 1 .. phase : /\ Phases[i] \in Kind
                                  /\ Rank(i) \in 1 .. Len(board[Phases[i]])
                                  /\ Draft[i] = board[Phases[i]][Rank(i)]
         /\ Draft \in Seq(Entry)
         /\ Len(Draft) = phase
  <1>1. phase \in Nat /\ phase <= TotalPhases /\ TotalPhases \in Nat
    BY PhasesAssumption DEF DraftTypeOK, TotalPhases
  <1>2. ASSUME NEW i \in 1 .. phase
        PROVE  Phases[i] \in Kind /\ Rank(i) \in 1 .. Len(board[Phases[i]])
    <2>1. Phases[i] \in Kind
      BY <1>1, PhasesAssumption DEF TotalPhases
    <2>2. i \in PhasesOf(Phases[i], phase)
      BY DEF PhasesOf
    <2>3. Rank(i) \in 1 .. CountOf(Phases[i], phase)
      BY <1>1, <2>1, <2>2, Ranks
    <2>4. Len(board[Phases[i]]) = CountOf(Phases[i], phase)
      BY <2>1, Zenon DEF BoardFollowsPhases
    <2> QED
      BY <2>1, <2>3, <2>4
  <1>3. ASSUME NEW i \in 1 .. phase
        PROVE  Draft[i] = board[Phases[i]][Rank(i)] /\ Draft[i] \in Entry
    <2>1. Draft[i] = board[Phases[i]][Rank(i)]
      BY Zenon DEF Draft
    <2>2. board[Phases[i]] \in Seq(Entry)
      BY <1>2 DEF DraftTypeOK
    <2>3. board[Phases[i]][Rank(i)] \in Entry
      BY <1>2, <2>2, ElementOfSeq
    <2> QED
      BY <2>1, <2>3
  <1>4. DOMAIN Draft = 1 .. phase /\ Draft = [i \in 1 .. phase |-> Draft[i]]
    BY DEF Draft
  <1>5. Draft \in [1 .. phase -> Entry]
    <2> HIDE DEF Draft
    <2> QED
      BY <1>3, <1>4
  <1>6. Draft \in Seq(Entry) /\ Len(Draft) = phase
    BY <1>1, <1>5
  <1> QED
    BY <1>1, <1>2, <1>3, <1>6, Zenon

\* The same of the list after a step.
LEMMA DraftStaysList ==
  DraftTypeOK' /\ BoardFollowsPhases' => Draft' \in Seq(Entry) /\ Len(Draft') = phase'
  <1> DEFINE listed == DraftTypeOK /\ BoardFollowsPhases => Draft \in Seq(Entry) /\ Len(Draft) = phase
  <1>1. listed
    BY DraftIsList
  <1>2. listed'
    <2> HIDE DEF listed
    <2> QED
      BY <1>1, PTL
  <1> QED
    BY <1>2, Zenon

\* A selection is added at the end of the list.
LEMMA SelectionAppends ==
  ASSUME Inv, Inv', BoardFollowsPhases, BoardFollowsPhases',
         ~complete, AdvancePhase, NEW c \in Entry, ApplySelection(c)
  PROVE  Len(Draft) < TotalPhases /\ Draft' = Append(Draft, c)
  <1>0. DraftTypeOK /\ DraftTypeOK' /\ Progress
    BY Zenon DEF Inv, TypeOK
  <1>1. /\ phase \in PhaseIndex /\ phase + 1 \in 1 .. TotalPhases
        /\ CurrentPhase \in Kind /\ CurrentPhase = Phases[phase + 1]
    BY <1>0, CurrentPhaseKind DEF CurrentPhase
  <1>2. /\ Draft \in Seq(Entry) /\ Len(Draft) = phase /\ phase \in Nat
        /\ \A i \in 1 .. phase : /\ Phases[i] \in Kind
                                 /\ Rank(i) \in 1 .. Len(board[Phases[i]])
                                 /\ Draft[i] = board[Phases[i]][Rank(i)]
    BY <1>0, DraftIsList
  <1>3. /\ phase' = phase + 1
        /\ Draft' \in Seq(Entry) /\ Len(Draft') = phase'
        /\ \A i \in 1 .. phase' : Draft'[i] = board'[Phases[i]][Rank(i)]
    <2>1. phase' = phase + 1
      BY DEF AdvancePhase
    <2>2. \A i \in 1 .. phase' : Draft'[i] = board'[Phases[i]][Rank(i)]
      BY DEF Draft
    <2>3. Draft' \in Seq(Entry) /\ Len(Draft') = phase'
      BY <1>0, DraftStaysList, Zenon
    <2> QED
      BY <2>1, <2>2, <2>3
  <1>4. \A i \in 1 .. phase : Draft'[i] = Append(Draft, c)[i]
    <2> SUFFICES ASSUME NEW i \in 1 .. phase PROVE Draft'[i] = Draft[i]
      BY <1>2
    <2>1. board[Phases[i]] \in Seq(Entry)
      BY <1>0, <1>2 DEF DraftTypeOK
    <2>2. board'[Phases[i]] = IF Phases[i] = CurrentPhase
                              THEN Append(board[Phases[i]], c) ELSE board[Phases[i]]
      BY <1>0, <1>1, <1>2 DEF DraftTypeOK, ApplySelection
    <2>3. \A r \in 1 .. Len(board[Phases[i]]) : board'[Phases[i]][r] = board[Phases[i]][r]
      BY <2>1, <2>2
    <2>4. i \in 1 .. phase'
      BY <1>2, <1>3
    <2> QED
      BY <1>2, <1>3, <2>3, <2>4, Zenon
  <1>5. Draft'[phase + 1] = c
    <2> DEFINE k == CurrentPhase
    <2>1. Rank(phase + 1) = Len(board[k]) + 1
      <3>1. Rank(phase + 1) = CountOf(k, phase + 1)
        BY <1>1, Zenon DEF Rank
      <3>2. CountOf(k, phase + 1) = CountOf(k, phase) + 1
        BY <1>1, CountOfNext
      <3>3. Len(board[k]) = CountOf(k, phase)
        BY <1>1, Zenon DEF BoardFollowsPhases
      <3> QED
        BY <3>1, <3>2, <3>3
    <2>2. board'[k] = Append(board[k], c) /\ board[k] \in Seq(Entry)
      BY <1>0, <1>1 DEF DraftTypeOK, ApplySelection
    <2>3. board'[k][Len(board[k]) + 1] = c
      BY <2>2
    <2>4. phase + 1 \in 1 .. phase'
      BY <1>2, <1>3
    <2> QED
      BY <1>1, <1>3, <2>1, <2>3, <2>4, Zenon
  <1>6. /\ Append(Draft, c) \in Seq(Entry) /\ Len(Append(Draft, c)) = phase + 1
        /\ Append(Draft, c)[phase + 1] = c
    BY <1>2
  <1>7. \A i \in 1 .. Len(Draft') : Draft'[i] = Append(Draft, c)[i]
    <2> SUFFICES ASSUME NEW i \in 1 .. phase + 1 PROVE Draft'[i] = Append(Draft, c)[i]
      BY <1>3
    <2>1. i \in 1 .. phase \/ i = phase + 1
      BY <1>2
    <2> QED
      BY <1>4, <1>5, <1>6, <2>1, Zenon
  <1>8. Draft' = Append(Draft, c)
    BY <1>3, <1>6, <1>7, SeqEqual, Zenon
  <1>9. Len(Draft) < TotalPhases
    BY <1>1, <1>2, PhasesAssumption DEF TotalPhases
  <1> QED
    BY <1>8, <1>9

\* An edit of an entry that is there changes one element of the list.
LEMMA EditAmends ==
  ASSUME Inv, Inv', BoardFollowsPhases, BoardFollowsPhases', UNCHANGED phase,
         NEW k \in Kind, NEW r \in 1 .. Len(board[k]), NEW c \in Entry,
         board' = [board EXCEPT ![k][r] = c]
  PROVE  \E i \in 1 .. Len(Draft) : Draft' = [Draft EXCEPT ![i] = c]
  <1>0. DraftTypeOK /\ DraftTypeOK'
    BY Zenon DEF Inv, TypeOK
  <1>1. /\ Draft \in Seq(Entry) /\ Len(Draft) = phase /\ phase \in Nat
        /\ \A j \in 1 .. phase : /\ Phases[j] \in Kind
                                 /\ Rank(j) \in 1 .. Len(board[Phases[j]])
                                 /\ Draft[j] = board[Phases[j]][Rank(j)]
    BY <1>0, DraftIsList
  <1>2. /\ Draft' \in Seq(Entry) /\ Len(Draft') = phase
        /\ \A j \in 1 .. phase : Draft'[j] = board'[Phases[j]][Rank(j)]
    <2>1. \A j \in 1 .. phase : Draft'[j] = board'[Phases[j]][Rank(j)]
      BY DEF Draft
    <2>2. Draft' \in Seq(Entry) /\ Len(Draft') = phase
      BY <1>0, DraftStaysList, Zenon
    <2> QED
      BY <2>1, <2>2
  <1>3. PICK i \in PhasesOf(k, phase) : Rank(i) = r
    <2>1. r \in 1 .. CountOf(k, phase)
      BY Zenon DEF BoardFollowsPhases
    <2> QED
      BY <1>1, <2>1, Ranks
  <1>4. i \in 1 .. phase /\ Phases[i] = k
    BY DEF PhasesOf
  <1>5. ASSUME NEW j \in 1 .. phase
        PROVE  Draft'[j] = IF j = i THEN c ELSE Draft[j]
    <2>1. board[Phases[j]] \in Seq(Entry) /\ board[k] \in Seq(Entry)
      BY <1>0, <1>1 DEF DraftTypeOK
    <2>2. board' = [board EXCEPT ![k] = [board[k] EXCEPT ![r] = c]]
      BY <1>0 DEF DraftTypeOK
    <2>3. CASE j = i
      <3>1. board'[k][r] = c
        BY <1>0, <2>1, <2>2 DEF DraftTypeOK
      <3> QED
        BY <1>2, <1>3, <1>4, <2>3, <3>1, Zenon
    <2>4. CASE j # i /\ Phases[j] = k
      <3>1. Rank(j) # r
        <4>1. j \in PhasesOf(k, phase)
          BY <2>4 DEF PhasesOf
        <4> QED
          BY <1>1, <1>3, <2>4, <4>1, Ranks
      <3>2. board'[k][Rank(j)] = board[k][Rank(j)]
        BY <1>0, <1>1, <2>1, <2>2, <2>4, <3>1 DEF DraftTypeOK
      <3> QED
        BY <1>1, <1>2, <2>4, <3>2, Zenon
    <2>5. CASE Phases[j] # k
      <3>1. j # i /\ board'[Phases[j]] = board[Phases[j]]
        BY <1>0, <1>1, <1>4, <2>2, <2>5 DEF DraftTypeOK
      <3> QED
        BY <1>1, <1>2, <3>1, Zenon
    <2> QED
      BY <2>3, <2>4, <2>5, Zenon
  <1>6. /\ [Draft EXCEPT ![i] = c] \in Seq(Entry)
        /\ Len([Draft EXCEPT ![i] = c]) = phase
        /\ \A j \in 1 .. phase : [Draft EXCEPT ![i] = c][j] = IF j = i THEN c ELSE Draft[j]
    <2>1. i \in 1 .. Len(Draft) /\ Draft \in Seq(Entry)
      BY <1>1, <1>4
    <2>2. /\ [Draft EXCEPT ![i] = c] \in Seq(Entry)
          /\ Len([Draft EXCEPT ![i] = c]) = Len(Draft)
          /\ \A j \in 1 .. Len(Draft) : [Draft EXCEPT ![i] = c][j] = IF j = i THEN c ELSE Draft[j]
      BY <2>1, ExceptSeq
    <2> QED
      BY <1>1, <2>2, Zenon
  <1>7. \A j \in 1 .. Len(Draft') : Draft'[j] = [Draft EXCEPT ![i] = c][j]
    BY <1>2, <1>5, <1>6, Zenon
  <1>8. Draft' = [Draft EXCEPT ![i] = c]
    BY <1>2, <1>6, <1>7, SeqEqual, Zenon
  <1> QED
    BY <1>1, <1>4, <1>8, Zenon

-----------------------------------------------------------------------------
(* Every step of the room is a step of DraftSpec or none.                  *)

\* A step that changes the board or the counter is not one that pauses or resumes, and
\* the counter moves outside a pause only.
LEMMA DraftMovesApart ==
  ASSUME Inv, [Next]_vars
  PROVE  /\ phase' # phase => ~paused /\ UNCHANGED paused
         /\ board' # board => UNCHANGED paused
  <1>1. started \/ ~paused
    BY Zenon DEF Inv, Progress, InProgress
  <1>2. CASE \E s \in Side : LockIn(s)
    BY <1>2, Zenon DEF LockIn, pauseVars
  <1>3. CASE \E p \in PhaseIndex : TimerExpired(p)
    BY <1>3, Zenon DEF TimerExpired, pauseVars
  <1>4. CASE \E s \in Side : ConfirmEdit(s)
    BY <1>4, Zenon DEF ConfirmEdit, pauseVars
  <1>5. CASE UNCHANGED draftVars \/ StartDraft \/ \E s \in Side, c \in Champion : SelectChampion(s, c)
    BY <1>5, Zenon DEF draftVars, StartDraft, SelectChampion
  <1> QED
    BY <1>2, <1>3, <1>4, <1>5, DraftFrame, Zenon

\* The invariant that the mapping rests on.
Mapped == Inv /\ BoardFollowsPhases

LEMMA MappedInit == Init => Mapped /\ Abstract!Init
  <1> SUFFICES ASSUME Init PROVE Abstract!Init
    BY InvInit, BoardInit DEF Mapped
  <1>1. phase = 0 /\ paused = FALSE
    BY DEF Init, DraftInit, PauseInit
  <1>2. Draft = << >>
    <2>1. Draft \in Seq(Entry) /\ Len(Draft) = 0
      BY <1>1, InvInit, BoardInit, DraftIsList DEF Inv, TypeOK
    <2> QED
      BY <2>1, EmptySeq
  <1> QED
    BY <1>1, <1>2 DEF Abstract!Init

LEMMA MappedStep ==
  ASSUME Mapped, [Next]_vars
  PROVE  Mapped' /\ [Abstract!Next]_(Abstract!specVars)
  <1>0. /\ Mapped' /\ Inv /\ Inv' /\ BoardFollowsPhases /\ BoardFollowsPhases'
        /\ TypeOK /\ DraftTypeOK /\ Progress /\ Progress' /\ paused \in BOOLEAN /\ paused' \in BOOLEAN
    BY InvStep, BoardStep DEF Mapped, Inv, TypeOK, PauseTypeOK
  <1>1. phase \in Nat /\ phase <= TotalPhases /\ Len(Draft) = phase /\ TotalPhases \in Nat
    BY <1>0, DraftIsList, PhasesAssumption DEF TotalPhases
  \* The draft stands still: a pause begins or ends, or nothing that DraftSpec sees.
  <1>2. CASE UNCHANGED <<complete, phase, board>>
    <2>1. Draft' = Draft
      BY <1>2 DEF Draft
    <2>2. CASE paused' = paused
      BY <1>0, <2>1, <2>2, Zenon DEF Abstract!specVars
    <2>3. CASE paused' # paused
      <3>1. ~complete
        BY <1>0, <1>2, <2>3, Zenon DEF Progress, InProgress
      <3>2. Len(Draft) < TotalPhases
        BY <1>0, <1>1, <3>1 DEF Progress
      <3>3. paused' = ~paused
        BY <1>0, <2>3
      <3> QED
        BY <1>0, <2>1, <3>2, <3>3, Zenon DEF Abstract!Next, Abstract!Freeze
    <2> QED
      BY <1>0, <2>2, <2>3
  \* A selection is recorded.
  <1>3. ASSUME ~complete, AdvancePhase, NEW c \in Entry, ApplySelection(c)
        PROVE  [Abstract!Next]_(Abstract!specVars)
    <2>1. Len(Draft) < TotalPhases /\ Draft' = Append(Draft, c)
      BY <1>0, <1>3, SelectionAppends
    <2>2. phase' # phase
      BY <1>1, <1>3 DEF AdvancePhase
    <2>3. ~paused /\ UNCHANGED paused
      BY <1>0, <2>2, DraftMovesApart, Zenon
    <2>4. Abstract!Fill
      BY <2>1, <2>3, Zenon DEF Abstract!Fill, Entry
    <2> QED
      BY <2>4, Zenon DEF Abstract!Next
  \* An edit is carried out.
  <1>4. CASE /\ edit \in PendingEdit
             /\ ApplyEdit(edit.kind, edit.index, edit.champion)
             /\ UNCHANGED <<complete, phase, hover>>
             /\ board' # board
    <2>1. edit.kind \in Kind /\ edit.index \in 1 .. TotalPhases /\ edit.champion \in Champion
      BY <1>4, PendingEditFields
    <2>2. /\ edit.index <= Len(board[edit.kind])
          /\ board' = [board EXCEPT ![edit.kind][edit.index] = edit.champion]
      BY <1>4, Zenon DEF ApplyEdit
    <2>3. edit.index \in 1 .. Len(board[edit.kind])
      <3>1. board[edit.kind] \in Seq(Entry)
        BY <1>0, <2>1 DEF DraftTypeOK
      <3> QED
        BY <2>1, <2>2, <3>1
    <2>4. \E i \in 1 .. Len(Draft) : Draft' = [Draft EXCEPT ![i] = edit.champion]
      <3>1. edit.champion \in Entry /\ UNCHANGED phase
        BY <1>4, <2>1 DEF Entry
      <3> QED
        BY <1>0, <2>1, <2>2, <2>3, <3>1, EditAmends, Zenon
    <2>5. UNCHANGED paused
      BY <1>0, <1>4, DraftMovesApart, Zenon
    <2> QED
      BY <1>0, <2>1, <2>4, <2>5, Zenon DEF Abstract!Next, Abstract!Amend
  <1> QED
    BY <1>0, <1>2, <1>3, <1>4, BoardCases, Zenon

\* The room implements DraftSpec (ImplementsDraftSpec) whatever its phase table and its
\* champions: every handler, expiry and callback appends one entry outside a pause,
\* replaces one entry, pauses or resumes a draft that is not over, or changes nothing
\* of what the teams were promised.
THEOREM RoomImplementsSpec == Spec => ImplementsDraftSpec
  <1> QED
    BY MappedInit, MappedStep, PTL DEF Spec, ImplementsDraftSpec, Abstract!Spec
=============================================================================

----------------------------- MODULE LobbyProofs -----------------------------
(***************************************************************************)
(* The types of the lobby, for every set of users, every size of a team    *)
(* and whatever lineups matchmaking proposes; and what each way to change  *)
(* rows does to the captains.                                              *)
(***************************************************************************)
EXTENDS Lobby, SetLemmas

-----------------------------------------------------------------------------
(* Rows.                                                                   *)

LEMMA RowOfPlayer ==
  ASSUME TypeOK, NEW u \in Players
  PROVE  u \in User /\ player[u] \in PlayerRow /\ player[u] # Nil
  BY DEF TypeOK, Players, PlayersOf

\* The number of players is a number, so that it can be compared and given as order.
LEMMA PlayerCount ==
  /\ IsFiniteSet(Players)
  /\ Cardinality(Players) \in Nat
  <1>1. Players \subseteq User
    BY DEF Players, PlayersOf
  <1>2. IsFiniteSet(Players)
    BY <1>1, LobbyAssumption, FS_Subset
  <1> QED
    BY <1>2, FS_CardinalityType

\* Whoever is made or unmade captain keeps a well-formed row.
LEMMA RowWithCaptain ==
  ASSUME NEW r \in PlayerRow, NEW b \in BOOLEAN
  PROVE  [r EXCEPT !.captain = b] \in PlayerRow
  BY DEF PlayerRow

-----------------------------------------------------------------------------
(* Types.                                                                  *)

RowsOK(rows) == rows \in [User -> PlayerRow \cup {Nil}]

LEMMA NewRow ==
  ASSUME NEW s \in Side, Cardinality(Players) < MaxLobbyPlayers
  PROVE  [team |-> s, role |-> Nil, captain |-> Captains(player, s) = {},
          order |-> Cardinality(Players)] \in PlayerRow
  <1>1. Cardinality(Players) \in 0 .. MaxLobbyPlayers - 1
    BY PlayerCount, LobbyAssumption
  <1>2. (Captains(player, s) = {}) \in BOOLEAN
    OBVIOUS
  <1>3. \A n \in 0 .. MaxLobbyPlayers - 1, b \in BOOLEAN :
          [team |-> s, role |-> Nil, captain |-> b, order |-> n] \in PlayerRow
    BY DEF PlayerRow
  <1> QED
    BY <1>1, <1>2, <1>3, Zenon

LEMMA JoinTyped ==
  ASSUME TypeOK, NEW u \in User, JoinLobby(u)
  PROVE  RowsOK(player')
  <1> DEFINE row(s) == [team |-> s, role |-> Nil, captain |-> Captains(player, s) = {},
                        order |-> Cardinality(Players)]
  <1>1. PICK s \in SmallerSides : player' = [player EXCEPT ![u] = row(s)]
    BY DEF JoinLobby
  <1>2. row(s) \in PlayerRow
    BY NewRow DEF JoinLobby, SmallerSides
  <1> HIDE DEF row
  <1> QED
    BY <1>1, <1>2 DEF TypeOK, RowsOK

LEMMA LeaveTyped ==
  ASSUME TypeOK, NEW u \in User, LeaveLobby(u)
  PROVE  RowsOK(player')
  <1> DEFINE heirs == FirstOf(player, Team(player, player[u].team) \ {u})
  <1>1. CASE player' = [player EXCEPT ![u] = Nil]
    BY <1>1 DEF TypeOK, RowsOK
  <1>2. ASSUME NEW v \in heirs, player' = [player EXCEPT ![v].captain = TRUE, ![u] = Nil]
        PROVE  RowsOK(player')
    <2>1. v \in Players
      BY DEF FirstOf, Team, Players
    <2>2. [player[v] EXCEPT !.captain = TRUE] \in PlayerRow
      BY <2>1, RowOfPlayer, RowWithCaptain
    <2> QED
      BY <1>2, <2>2 DEF TypeOK, RowsOK
  <1> QED
    BY <1>1, <1>2 DEF LeaveLobby

LEMMA TakeTyped ==
  ASSUME TypeOK, NEW u \in User, TakeCaptain(u)
  PROVE  RowsOK(player')
  <1> DEFINE old == Captains(player, player[u].team)
  <1>1. PICK v \in IF old = {} THEN {u} ELSE old :
          player' = [player EXCEPT ![v].captain = FALSE, ![u].captain = TRUE]
    BY DEF TakeCaptain
  <1>2. v \in Players /\ u \in Players
    BY <1>1 DEF TakeCaptain, Captains, Team, Players
  <1>3. player[v] \in PlayerRow /\ player[u] \in PlayerRow
    BY <1>2, RowOfPlayer
  <1>4. /\ [player[v] EXCEPT !.captain = FALSE] \in PlayerRow
        /\ [player[u] EXCEPT !.captain = TRUE] \in PlayerRow
        /\ [[player[u] EXCEPT !.captain = FALSE] EXCEPT !.captain = TRUE] \in PlayerRow
    BY <1>3, RowWithCaptain
  <1>5. CASE v = u
    <2>1. player' = [player EXCEPT ![u] = [[player[u] EXCEPT !.captain = FALSE]
                                              EXCEPT !.captain = TRUE]]
      BY <1>1, <1>2, <1>3, <1>5 DEF TypeOK
    <2> QED
      BY <1>2, <1>4, <2>1 DEF TypeOK, RowsOK
  <1>6. CASE v # u
    <2>1. player' = [player EXCEPT ![v] = [player[v] EXCEPT !.captain = FALSE],
                                   ![u] = [player[u] EXCEPT !.captain = TRUE]]
      BY <1>1, <1>2, <1>6 DEF TypeOK
    <2> QED
      BY <1>2, <1>4, <2>1 DEF TypeOK, RowsOK
  <1> QED
    BY <1>5, <1>6

LEMMA PromoteTyped ==
  ASSUME TypeOK, NEW c \in User, NEW u \in User, PromoteCaptain(c, u)
  PROVE  RowsOK(player')
  <1>1. /\ c \in Players /\ u \in Players
        /\ player' = [player EXCEPT ![c].captain = FALSE, ![u].captain = TRUE]
    BY DEF PromoteCaptain, Teammates
  <1>2. player[c] \in PlayerRow /\ player[u] \in PlayerRow
    BY <1>1, RowOfPlayer
  <1>3. /\ [player[c] EXCEPT !.captain = FALSE] \in PlayerRow
        /\ [player[u] EXCEPT !.captain = TRUE] \in PlayerRow
        /\ [[player[u] EXCEPT !.captain = FALSE] EXCEPT !.captain = TRUE] \in PlayerRow
    BY <1>2, RowWithCaptain
  <1>4. CASE c = u
    <2>1. player' = [player EXCEPT ![u] = [[player[u] EXCEPT !.captain = FALSE]
                                              EXCEPT !.captain = TRUE]]
      BY <1>1, <1>2, <1>4 DEF TypeOK
    <2> QED
      BY <1>1, <1>3, <2>1 DEF TypeOK, RowsOK
  <1>5. CASE c # u
    <2>1. player' = [player EXCEPT ![c] = [player[c] EXCEPT !.captain = FALSE],
                                   ![u] = [player[u] EXCEPT !.captain = TRUE]]
      BY <1>1, <1>2, <1>5 DEF TypeOK
    <2> QED
      BY <1>1, <1>3, <2>1 DEF TypeOK, RowsOK
  <1> QED
    BY <1>4, <1>5

LEMMA KickTyped ==
  ASSUME TypeOK, NEW c \in User, NEW u \in User, KickPlayer(c, u)
  PROVE  RowsOK(player')
  BY DEF TypeOK, RowsOK, KickPlayer

LEMMA SwapPlayersTyped ==
  ASSUME TypeOK, NEW p, NEW q, SwapPlayers(p, q)
  PROVE  RowsOK(player')
  BY DEF TypeOK, RowsOK, SwapPlayers, Players, PlayersOf, PlayerRow

LEMMA SwapRolesTyped ==
  ASSUME TypeOK, NEW p, NEW q, SwapRoles(p, q)
  PROVE  RowsOK(player')
  BY DEF TypeOK, RowsOK, SwapRoles, Players, PlayersOf, PlayerRow

\* The rows of a lineup, before the captains are chosen.
LEMMA AssignedRows ==
  ASSUME TypeOK, NEW f \in Lineup
  PROVE  /\ RowsOK(Assigned(f))
         /\ PlayersOf(Assigned(f)) = Players
  <1>1. \A u \in DOMAIN f : f[u] \in Side \X Role
    BY LineupAssumption
  <1>2. ASSUME NEW u \in User
        PROVE  /\ Assigned(f)[u] \in PlayerRow \cup {Nil}
               /\ Assigned(f)[u] = Nil <=> player[u] = Nil
    <2>1. CASE u \in Players \cap DOMAIN f
      <3>1. player[u] \in PlayerRow /\ player[u] # Nil
        BY <2>1, RowOfPlayer
      <3>2. Assigned(f)[u] = [player[u] EXCEPT !.team = f[u][1], !.role = f[u][2]]
        BY <2>1 DEF Assigned
      <3>3. f[u][1] \in Side /\ f[u][2] \in Role
        BY <1>1, <2>1
      <3>4. Assigned(f)[u] \in PlayerRow
        BY <3>1, <3>2, <3>3 DEF PlayerRow
      <3> QED
        BY <3>1, <3>4, NilAssumption
    <2>2. CASE u \notin Players \cap DOMAIN f
      BY <2>2 DEF Assigned, TypeOK
    <2> QED
      BY <2>1, <2>2
  <1> QED
    BY <1>2 DEF RowsOK, Assigned, PlayersOf, Players

\* Choosing captains among typed rows keeps them typed.
LEMMA ResetTyped ==
  ASSUME NEW STATE rows, RowsOK(rows), PlayersOf(rows) = Players, ResetCaptains(rows)
  PROVE  RowsOK(player')
  <1>1. PICK b \in OrNil(FirstOf(rows, Team(rows, "blue"))),
             r \in OrNil(FirstOf(rows, Team(rows, "red"))) :
          player' = [u \in User |-> IF u \in Players
                                    THEN [rows[u] EXCEPT !.captain = (u \in {b, r})]
                                    ELSE Nil]
    BY Zenon DEF ResetCaptains
  <1>2. ASSUME NEW u \in Players
        PROVE  [rows[u] EXCEPT !.captain = (u \in {b, r})] \in PlayerRow
    <2>1. rows[u] \in PlayerRow
      BY DEF RowsOK, PlayersOf
    <2>2. (u \in {b, r}) \in BOOLEAN
      OBVIOUS
    <2>3. \A x \in PlayerRow, y \in BOOLEAN : [x EXCEPT !.captain = y] \in PlayerRow
      BY RowWithCaptain
    <2> QED
      BY <2>1, <2>2, <2>3, Zenon
  <1> QED
    BY <1>1, <1>2, Zenon DEF RowsOK

LEMMA ApplyTyped ==
  ASSUME TypeOK, NEW n, ApplyMatchOption(n)
  PROVE  RowsOK(player') /\ n \in Nat /\ options[n] \in Lineup
  <1>1. n \in Nat /\ options[n] \in Lineup
    BY DEF ApplyMatchOption, TypeOK
  <1>2. RowsOK(Assigned(options[n])) /\ PlayersOf(Assigned(options[n])) = Players
    BY <1>1, AssignedRows
  <1>3. ResetCaptains(Assigned(options[n]))
    BY DEF ApplyMatchOption
  <1> QED
    BY <1>1, <1>2, <1>3, ResetTyped

\* Whatever lists of options matchmaking gives, they are lineups of those present.
LEMMA OptionListsFit ==
  ASSUME NEW used, NEW os \in OptionLists(used)
  PROVE  /\ os \in Seq(Lineup)
         /\ \A n \in DOMAIN os : DOMAIN os[n] = Players
  <1> DEFINE fits == {f \in Lineup \ used : DOMAIN f = Players}
  <1>1. PICK n \in 0 .. MaxOptions : os \in [1 .. n -> fits]
    BY DEF OptionLists
  <1>2. os \in Seq(fits)
    BY <1>1, LobbyAssumption
  <1> QED
    BY <1>2

LEMMA GenerateTyped ==
  ASSUME TypeOK, GenerateMatchOptions
  PROVE  /\ RowsOK(player')
         /\ options' \in Seq(Lineup)
         /\ status' \in Status
         /\ selected' \in Nat \cup {Nil}
  BY OptionListsFit DEF GenerateMatchOptions, TypeOK, RowsOK, Status

LEMMA ProposeTyped ==
  ASSUME TypeOK, NEW c \in User, NEW type \in ActionType,
         NEW pair \in (User \X User) \cup {Nil}, NEW option \in Nat \cup {Nil},
         Propose(c, type, pair, option)
  PROVE  TypeOK'
  <1>1. player[c].team \in Side
    BY RowOfPlayer DEF Propose, IsCaptain, PlayerRow
  <1>2. pending' \in PendingAction
    BY <1>1 DEF Propose, PendingAction
  <1> QED
    BY <1>2 DEF Propose, TypeOK

\* What captains do alone and what they do together keeps the tables typed.
LEMMA ApplyKeepsTypes ==
  ASSUME TypeOK, NEW n, ApplyMatchOption(n)
  PROVE  /\ RowsOK(player')
         /\ options' \in Seq(Lineup)
         /\ status' \in Status
         /\ selected' \in Nat \cup {Nil}
  BY ApplyTyped DEF ApplyMatchOption, TypeOK, Status

LEMMA MakeRoomTyped ==
  ASSUME TypeOK, MakeRoom
  PROVE  /\ RowsOK(player')
         /\ options' \in Seq(Lineup)
         /\ status' \in Status
         /\ selected' \in Nat \cup {Nil}
  BY DEF MakeRoom, TypeOK, RowsOK, Status

LEMMA ExecuteTyped ==
  ASSUME TypeOK, ExecutePendingAction
  PROVE  /\ RowsOK(player')
         /\ options' \in Seq(Lineup)
         /\ status' \in Status
         /\ selected' \in Nat \cup {Nil}
  <1>1. CASE SwapPlayers(pending.pair[1], pending.pair[2])
    <2>1. RowsOK(player')
      BY <1>1, SwapPlayersTyped
    <2>2. UNCHANGED <<status, selected, options, room>>
      BY <1>1 DEF SwapPlayers
    <2> QED
      BY <2>1, <2>2 DEF TypeOK
  <1>2. CASE SwapRoles(pending.pair[1], pending.pair[2])
    <2>1. RowsOK(player')
      BY <1>2, SwapRolesTyped
    <2>2. UNCHANGED <<status, selected, options, room>>
      BY <1>2 DEF SwapRoles
    <2> QED
      BY <2>1, <2>2 DEF TypeOK
  <1>3. CASE GenerateMatchOptions
    BY <1>3, GenerateTyped
  <1>4. CASE ApplyMatchOption(pending.option)
    BY <1>4, ApplyKeepsTypes
  <1>5. CASE MakeRoom
    BY <1>5, MakeRoomTyped
  <1> QED
    BY <1>1, <1>2, <1>3, <1>4, <1>5 DEF ExecutePendingAction

LEMMA InitTyped == Init => TypeOK
  <1> SUFFICES ASSUME Init
               PROVE  TypeOK
    OBVIOUS
  <1> DEFINE first == [team |-> "blue", role |-> Nil, captain |-> TRUE, order |-> 0]
  <1>1. first \in PlayerRow
    BY LobbyAssumption DEF PlayerRow, Side
  <1>2. PICK creator \in User :
          player = [u \in User |-> IF u = creator THEN first ELSE Nil]
    BY DEF Init
  <1> HIDE DEF first
  <1>3. player \in [User -> PlayerRow \cup {Nil}]
    BY <1>1, <1>2
  <1>4. << >> \in Seq(Lineup)
    OBVIOUS
  <1>5. status \in Status /\ selected = Nil /\ options = << >> /\ pending = Nil
    BY DEF Init, Status
  <1> QED
    BY <1>3, <1>4, <1>5, Zenon DEF TypeOK

LEMMA StepTyped ==
  ASSUME TypeOK, [Next]_vars
  PROVE  TypeOK'
  <1> USE DEF RowsOK
  <1>1. CASE UNCHANGED vars
    BY <1>1 DEF vars, TypeOK
  <1>2. CASE PendingActionExpires
    BY <1>2 DEF PendingActionExpires, TypeOK
  <1>3. ASSUME NEW u \in User, JoinLobby(u)
        PROVE  TypeOK'
    BY <1>3, JoinTyped DEF JoinLobby, TypeOK
  <1>4. ASSUME NEW u \in User, LeaveLobby(u)
        PROVE  TypeOK'
    BY <1>4, LeaveTyped DEF LeaveLobby, TypeOK
  <1>5. ASSUME NEW u \in User, TakeCaptain(u)
        PROVE  TypeOK'
    BY <1>5, TakeTyped DEF TakeCaptain, TypeOK
  <1>6. ASSUME NEW u \in User, NEW v \in User, PromoteCaptain(u, v)
        PROVE  TypeOK'
    BY <1>6, PromoteTyped DEF PromoteCaptain, TypeOK
  <1>7. ASSUME NEW u \in User, NEW v \in User, KickPlayer(u, v)
        PROVE  TypeOK'
    BY <1>7, KickTyped DEF KickPlayer, TypeOK
  <1>8. ASSUME NEW u \in User, GenerateTeams(u)
        PROVE  TypeOK'
    BY <1>8, GenerateTyped DEF GenerateTeams, TypeOK
  <1>9. ASSUME NEW u \in User, LoadMoreTeams(u)
        PROVE  TypeOK'
    <2>1. PICK os \in OptionLists(Range(options)) : options' = options \o os
      BY <1>9 DEF LoadMoreTeams
    <2>2. options' \in Seq(Lineup)
      BY <2>1, OptionListsFit DEF TypeOK
    <2> QED
      BY <1>9, <2>2 DEF LoadMoreTeams, TypeOK
  <1>10. ASSUME NEW u \in User, NEW n, SelectMatchOption(u, n)
         PROVE  TypeOK'
    BY <1>10, ApplyKeepsTypes DEF SelectMatchOption, TypeOK
  <1>11. ASSUME NEW u \in User, StartDraft(u)
         PROVE  TypeOK'
    BY <1>11, MakeRoomTyped DEF StartDraft, TypeOK
  <1>12. ASSUME NEW u \in User, NEW p, NEW q, <<p, q>> \in Swappable, ProposeSwap(u, p, q)
         PROVE  TypeOK'
    <2>1. <<p, q>> \in User \X User
      BY <1>12, LobbyAssumption
    <2>2. PICK type \in ActionType : Propose(u, type, <<p, q>>, Nil)
      BY <1>12 DEF ProposeSwap, ActionType
    <2> QED
      BY <2>1, <2>2, ProposeTyped
  <1>13. ASSUME NEW u \in User, ProposeMatchmake(u)
         PROVE  TypeOK'
    BY <1>13, ProposeTyped DEF ProposeMatchmake, ActionType
  <1>14. ASSUME NEW u \in User, NEW n, ProposeSelectOption(u, n)
         PROVE  TypeOK'
    <2>1. n \in Nat
      BY <1>14 DEF ProposeSelectOption, TypeOK
    <2> QED
      BY <1>14, <2>1, ProposeTyped DEF ProposeSelectOption, ActionType
  <1>15. ASSUME NEW u \in User, ProposeStartDraft(u)
         PROVE  TypeOK'
    BY <1>15, ProposeTyped DEF ProposeStartDraft, ActionType
  <1>16. ASSUME NEW u \in User, ApprovePendingAction(u)
         PROVE  TypeOK'
    BY <1>16, ExecuteTyped DEF ApprovePendingAction, TypeOK
  <1>17. ASSUME NEW u \in User, CancelPendingAction(u)
         PROVE  TypeOK'
    BY <1>17 DEF CancelPendingAction, TypeOK
  <1>18. ASSUME NEW pq \in Swappable
         PROVE  pq = <<pq[1], pq[2]>>
    BY LobbyAssumption
  <1> QED
    BY <1>1, <1>2, <1>3, <1>4, <1>5, <1>6, <1>7, <1>8, <1>9, <1>10, <1>11, <1>12,
       <1>13, <1>14, <1>15, <1>16, <1>17, <1>18 DEF Next

\* Rows, options, selection and pending action keep their shape in every lobby.
THEOREM TypeCorrect == Spec => []TypeOK
  BY InitTyped, StepTyped, PTL DEF Spec

-----------------------------------------------------------------------------
(* Someone is always the first.                                            *)

\* Of some players, at least one has joined no later than the others.
LEMMA SomeoneIsFirst ==
  ASSUME NEW STATE rows, RowsOK(rows), NEW STATE S, S \subseteq PlayersOf(rows), S # {}
  PROVE  FirstOf(rows, S) # {}
  <1> DEFINE T == {rows[u].order : u \in S}
  <1>1. \A u \in S : rows[u].order \in 0 .. MaxLobbyPlayers - 1
    BY DEF RowsOK, PlayersOf, PlayerRow
  <1>2. T \subseteq Nat /\ T # {}
    BY <1>1, LobbyAssumption
  <1>3. PICK n \in T : \A m \in T : n <= m
    <2> HIDE DEF T
    <2> QED
      BY <1>2, LeastNatural
  <1>4. PICK u \in S : rows[u].order = n
    BY <1>3
  <1> QED
    BY <1>3, <1>4 DEF FirstOf

-----------------------------------------------------------------------------
(* Captains.                                                               *)

OneCaptain(rows) ==
  \A s \in Side : Team(rows, s) # {} => \E u \in User : Captains(rows, s) = {u}

LEMMA CaptainByRow ==
  \A rows, s, x : x \in Captains(rows, s) <=>
                    x \in User /\ rows[x] # Nil /\ rows[x].team = s /\ rows[x].captain
  BY Zenon DEF Captains, Team, PlayersOf

LEMMA MemberByRow ==
  \A rows, s, x : x \in Team(rows, s) <=> x \in User /\ rows[x] # Nil /\ rows[x].team = s
  BY DEF Team, PlayersOf

LEMMA OnlyCaptain ==
  ASSUME OneCaptain(player), NEW s \in Side, NEW c \in Captains(player, s)
  PROVE  Captains(player, s) = {c}
  BY DEF OneCaptain, Captains

LEMMA JoinKeepsCaptains ==
  ASSUME TypeOK, OneCaptain(player), NEW u \in User, JoinLobby(u)
  PROVE  OneCaptain(player')
  <1> DEFINE row(s) == [team |-> s, role |-> Nil, captain |-> Captains(player, s) = {},
                        order |-> Cardinality(Players)]
  <1>1. PICK s \in SmallerSides : player' = [player EXCEPT ![u] = row(s)]
    BY DEF JoinLobby
  <1>2. row(s) \in PlayerRow
    BY NewRow DEF JoinLobby, SmallerSides
  <1>3. row(s).team = s
    OBVIOUS
  <1>4. row(s).captain <=> Captains(player, s) = {}
    BY Zenon
  <1> HIDE DEF row
  <1>5. player[u] = Nil
    BY DEF JoinLobby, Players, PlayersOf
  <1>6. player'[u] = row(s) /\ row(s) # Nil
    BY <1>1, <1>2, NilAssumption DEF TypeOK
  <1>7. \A x \in User : x # u => player'[x] = player[x]
    BY <1>1 DEF TypeOK
  <1>8. ASSUME NEW t \in Side, Team(player', t) # {}
        PROVE  \E x \in User : Captains(player', t) = {x}
    <2>1. CASE t # s
      <3>1. Team(player', t) = Team(player, t)
        BY <1>3, <1>5, <1>6, <1>7, <2>1 DEF Team, PlayersOf
      <3>2. Captains(player', t) = Captains(player, t)
        BY <1>3, <1>5, <1>6, <1>7, <2>1, <3>1 DEF Captains, Team, PlayersOf
      <3> QED
        BY <1>8, <3>1, <3>2 DEF OneCaptain
    <2>2. CASE t = s /\ Captains(player, s) = {}
      <3>1. u \in Captains(player', s)
        BY <1>3, <1>4, <1>6, <2>2, CaptainByRow
      <3>2. \A x \in User : x # u => x \notin Captains(player', s)
        BY <1>7, <2>2, CaptainByRow
      <3>3. \A x \in Captains(player', s) : x \in User
        BY CaptainByRow
      <3> QED
        BY <2>2, <3>1, <3>2, <3>3
    <2>3. CASE t = s /\ Captains(player, s) # {}
      <3>1. u \notin Captains(player', s) /\ u \notin Captains(player, s)
        BY <1>4, <1>5, <1>6, <2>3, CaptainByRow
      <3>2. \A x : x # u => (x \in Captains(player', s) <=> x \in Captains(player, s))
        BY <1>7, CaptainByRow
      <3>3. Captains(player', s) = Captains(player, s)
        BY <3>1, <3>2
      <3>4. Team(player, s) # {}
        BY <2>3 DEF Captains
      <3> QED
        BY <2>3, <3>3, <3>4 DEF OneCaptain
    <2> QED
      BY <2>1, <2>2, <2>3
  <1> QED
    BY <1>8 DEF OneCaptain

\* One of a team becomes captain when the captain steps down or goes.
LEMMA SuccessionKeepsCaptains ==
  ASSUME NEW a, NEW b, OneCaptain(a),
         NEW s \in Side, NEW u \in User, NEW v \in Captains(a, s), u # v,
         u \in Team(a, s),
         u \in Captains(b, s),
         v \notin Captains(b, s),
         \A t \in Side : v \in Team(b, t) => t = s,
         \A x \in User : x # u /\ x # v => b[x] = a[x]
  PROVE  OneCaptain(b)
  <1>1. v \in User /\ v \in Team(a, s) /\ Captains(a, s) = {v}
    BY CaptainByRow, MemberByRow DEF OneCaptain
  <1>2. \A x : x # u => x \notin Captains(b, s)
    BY <1>1, CaptainByRow
  <1>3. Captains(b, s) = {u}
    BY <1>2
  <1>4. ASSUME NEW t \in Side, t # s
        PROVE  /\ \A x : x \in Captains(b, t) <=> x \in Captains(a, t)
               /\ \A x : x \in Team(b, t) <=> x \in Team(a, t)
    <2>1. /\ u \notin Team(a, t) /\ u \notin Team(b, t)
          /\ v \notin Team(a, t) /\ v \notin Team(b, t)
      BY <1>1, <1>4, MemberByRow, CaptainByRow
    <2>2. \A x : x \in Team(b, t) <=> x \in Team(a, t)
      BY <2>1, MemberByRow
    <2>3. \A x : x \in Captains(b, t) => x \in Team(b, t)
      BY CaptainByRow, MemberByRow
    <2>4. \A x : x \in Captains(a, t) => x \in Team(a, t)
      BY CaptainByRow, MemberByRow
    <2>5. \A x : x \in Captains(b, t) <=> x \in Captains(a, t)
      BY <2>1, <2>3, <2>4, CaptainByRow
    <2> QED
      BY <2>2, <2>5
  <1>5. ASSUME NEW t \in Side, t # s, Team(b, t) # {}
        PROVE  \E x \in User : Captains(b, t) = {x}
    <2>1. Team(a, t) = Team(b, t) /\ Captains(a, t) = Captains(b, t)
      BY <1>4, <1>5
    <2> QED
      BY <1>5, <2>1 DEF OneCaptain
  <1> QED
    BY <1>3, <1>5 DEF OneCaptain

\* A team whose captain stays keeps its captain.
LEMMA RemovalKeepsCaptains ==
  ASSUME NEW a, NEW b, OneCaptain(a), NEW u \in User, b[u] = Nil,
         \A t \in Side : u \notin Captains(a, t),
         \A x \in User : x # u => b[x] = a[x]
  PROVE  OneCaptain(b)
  <1>1. ASSUME NEW t \in Side, Team(b, t) # {}
        PROVE  \E x \in User : Captains(b, t) = {x}
    <2>1. \A x : x \in Captains(b, t) <=> x \in Captains(a, t)
      BY CaptainByRow
    <2>2. \A x : x \in Team(b, t) => x \in Team(a, t)
      BY MemberByRow
    <2>3. Captains(b, t) = Captains(a, t) /\ Team(a, t) # {}
      BY <1>1, <2>1, <2>2
    <2> QED
      BY <2>3 DEF OneCaptain
  <1> QED
    BY <1>1 DEF OneCaptain

\* What a teammate's handing over does to the rows.
LEMMA HandOverKeepsCaptains ==
  ASSUME TypeOK, OneCaptain(player), NEW u \in Players,
         NEW v \in Captains(player, player[u].team), u # v,
         player' = [player EXCEPT ![v].captain = FALSE, ![u].captain = TRUE]
  PROVE  OneCaptain(player')
  <1> DEFINE s == player[u].team
  <1>1. /\ u \in User /\ player[u] # Nil /\ player[u] \in PlayerRow /\ s \in Side
        /\ v \in User /\ v \in Players
    BY RowOfPlayer, CaptainByRow DEF Players, PlayersOf, PlayerRow, TypeOK
  <1>2. player[v] # Nil /\ player[v] \in PlayerRow /\ player[v].team = s
    BY <1>1, RowOfPlayer, CaptainByRow
  <1>3. /\ player'[u] = [player[u] EXCEPT !.captain = TRUE]
        /\ player'[v] = [player[v] EXCEPT !.captain = FALSE]
        /\ \A x \in User : x # u /\ x # v => player'[x] = player[x]
    BY <1>1 DEF TypeOK
  <1>4. player'[u] # Nil /\ player'[v] # Nil
    BY <1>1, <1>2, <1>3, RowWithCaptain, NilAssumption
  <1>5. /\ player'[u].team = s /\ player'[u].captain
        /\ player'[v].team = s /\ ~ player'[v].captain
    BY <1>1, <1>2, <1>3 DEF PlayerRow
  <1>6. /\ u \in Team(player, s)
        /\ u \in Captains(player', s)
        /\ v \notin Captains(player', s)
        /\ \A t \in Side : v \in Team(player', t) => t = s
    <2>1. u \in Team(player, s)
      BY <1>1, MemberByRow
    <2>2. u \in Captains(player', s)
      BY <1>1, <1>4, <1>5, CaptainByRow, Zenon
    <2>3. v \notin Captains(player', s)
      BY <1>5, CaptainByRow, Zenon
    <2>4. ASSUME NEW t \in Side, v \in Team(player', t)
          PROVE  t = s
      <3>1. player'[v].team = t
        BY <2>4, Zenon DEF Team
      <3> QED
        BY <1>5, <3>1, Zenon
    <2> QED
      BY <2>1, <2>2, <2>3, <2>4
  <1>7. s \in Side /\ u \in User /\ v \in Captains(player, s)
    BY <1>1
  <1>8. \A x \in User : x # u /\ x # v => player'[x] = player[x]
    BY <1>3
  <1> HIDE DEF s
  <1> QED
    BY <1>6, <1>7, <1>8, SuccessionKeepsCaptains

LEMMA TakeKeepsCaptains ==
  ASSUME TypeOK, OneCaptain(player), NEW u \in User, TakeCaptain(u)
  PROVE  OneCaptain(player')
  <1>1. u \in Players /\ player[u].team \in Side /\ u \in Team(player, player[u].team)
    BY RowOfPlayer DEF TakeCaptain, Team, Players, PlayerRow
  <1>2. Captains(player, player[u].team) # {}
    BY <1>1 DEF OneCaptain
  <1>3. PICK v \in Captains(player, player[u].team) :
          player' = [player EXCEPT ![v].captain = FALSE, ![u].captain = TRUE]
    BY <1>2 DEF TakeCaptain
  <1>4. u # v
    BY <1>1, CaptainByRow DEF TakeCaptain, IsCaptain
  <1> QED
    BY <1>1, <1>3, <1>4, HandOverKeepsCaptains

LEMMA PromoteKeepsCaptains ==
  ASSUME TypeOK, OneCaptain(player), NEW c \in User, NEW u \in User, PromoteCaptain(c, u)
  PROVE  OneCaptain(player')
  <1>1. /\ c \in Players /\ u \in Players /\ player[c].team = player[u].team
        /\ player' = [player EXCEPT ![c].captain = FALSE, ![u].captain = TRUE]
    BY DEF PromoteCaptain, Teammates
  <1>2. c \in Captains(player, player[u].team)
    BY <1>1, CaptainByRow DEF PromoteCaptain, IsCaptain, Players, PlayersOf
  <1>3. CASE c # u
    BY <1>1, <1>2, <1>3, HandOverKeepsCaptains
  <1>4. CASE c = u
    <2>1. player[u] \in PlayerRow /\ player[u].captain = TRUE
      <3>1. player[u] \in PlayerRow /\ player[u].captain \in BOOLEAN
        BY <1>1, RowOfPlayer DEF PlayerRow
      <3>2. player[u].captain
        BY <1>2, <1>4, CaptainByRow
      <3> QED
        BY <3>1, <3>2
    <2>2. [[player[u] EXCEPT !.captain = FALSE] EXCEPT !.captain = TRUE] = player[u]
      BY <2>1 DEF PlayerRow
    <2>3. player' = [player EXCEPT ![u] = [[player[u] EXCEPT !.captain = FALSE]
                                              EXCEPT !.captain = TRUE]]
      BY <1>1, <1>4 DEF TypeOK
    <2>4. player' = player
      BY <2>2, <2>3 DEF TypeOK
    <2> QED
      BY <2>4
  <1> QED
    BY <1>3, <1>4

LEMMA KickKeepsCaptains ==
  ASSUME TypeOK, OneCaptain(player), NEW c \in User, NEW u \in User, KickPlayer(c, u)
  PROVE  OneCaptain(player')
  <1>1. u \in Players /\ c \in Players /\ player[c].team = player[u].team
    BY DEF KickPlayer, Teammates
  <1>2. player[u].team \in Side /\ c \in Captains(player, player[u].team)
    BY <1>1, RowOfPlayer, CaptainByRow DEF KickPlayer, IsCaptain, PlayerRow
  <1>3. u \notin Captains(player, player[u].team)
    BY <1>2, OnlyCaptain DEF KickPlayer
  <1>4. \A t \in Side : u \notin Captains(player, t)
    BY <1>3, CaptainByRow
  <1>5. player'[u] = Nil /\ \A x \in User : x # u => player'[x] = player[x]
    BY DEF KickPlayer, TypeOK
  <1> QED
    BY <1>4, <1>5, RemovalKeepsCaptains

LEMMA LeaveKeepsCaptains ==
  ASSUME TypeOK, OneCaptain(player), NEW u \in User, LeaveLobby(u)
  PROVE  OneCaptain(player')
  <1> DEFINE s == player[u].team
             heirs == FirstOf(player, Team(player, s) \ {u})
  <1>1. u \in Players /\ s \in Side /\ u \in Team(player, s)
    BY RowOfPlayer, MemberByRow DEF LeaveLobby, PlayerRow
  <1>2. CASE ~ IsCaptain(u)
    <2>1. player' = [player EXCEPT ![u] = Nil]
      BY <1>2 DEF LeaveLobby
    <2>2. player'[u] = Nil /\ \A x \in User : x # u => player'[x] = player[x]
      BY <2>1 DEF TypeOK
    <2>3. \A t \in Side : u \notin Captains(player, t)
      BY <1>1, <1>2, CaptainByRow DEF IsCaptain
    <2> QED
      BY <2>2, <2>3, RemovalKeepsCaptains
  <1>3. CASE IsCaptain(u) /\ heirs # {}
    <2>1. PICK v \in heirs : player' = [player EXCEPT ![v].captain = TRUE, ![u] = Nil]
      BY <1>3 DEF LeaveLobby
    <2>2. v # u /\ v \in Team(player, s) /\ v \in User
      BY MemberByRow DEF FirstOf
    <2>3. player[v] \in PlayerRow /\ v \in Players
      BY <2>2, RowOfPlayer, MemberByRow DEF Players, PlayersOf
    <2>4. /\ player'[u] = Nil
          /\ player'[v] = [player[v] EXCEPT !.captain = TRUE]
          /\ \A x \in User : x # u /\ x # v => player'[x] = player[x]
      BY <2>1, <2>2 DEF TypeOK
    <2>5. player'[v] # Nil
      BY <2>3, <2>4, RowWithCaptain, NilAssumption
    <2>6. player'[v].team = s /\ player'[v].captain
      BY <2>2, <2>3, <2>4, MemberByRow DEF PlayerRow
    <2>7. u \in Captains(player, s)
      BY <1>1, <1>3, CaptainByRow, MemberByRow DEF IsCaptain
    <2>8. v \in Captains(player', s)
      BY <2>2, <2>5, <2>6, CaptainByRow, Zenon
    <2>9. u \notin Captains(player', s) /\ \A t \in Side : u \notin Team(player', t)
      BY <2>4, CaptainByRow, MemberByRow, Zenon
    <2> QED
      BY <1>1, <2>2, <2>4, <2>7, <2>8, <2>9, SuccessionKeepsCaptains
  <1>4. CASE IsCaptain(u) /\ heirs = {}
    <2>1. player' = [player EXCEPT ![u] = Nil]
      BY <1>4 DEF LeaveLobby
    <2>2. player'[u] = Nil /\ \A x \in User : x # u => player'[x] = player[x]
      BY <2>1 DEF TypeOK
    <2>3. Team(player, s) \ {u} = {}
      <3>1. Team(player, s) \ {u} \subseteq PlayersOf(player)
        BY DEF Team
      <3> QED
        BY <1>4, <3>1, SomeoneIsFirst DEF TypeOK, RowsOK
    <2>4. ASSUME NEW t \in Side, Team(player', t) # {}
          PROVE  \E x \in User : Captains(player', t) = {x}
      <3>1. t # s
        BY <2>2, <2>3, <2>4, MemberByRow
      <3>2. u \notin Team(player, t) /\ u \notin Team(player', t)
        BY <1>1, <2>2, <3>1, MemberByRow
      <3>3. \A x : x \in Captains(player', t) <=> x \in Captains(player, t)
        BY <2>2, <3>2, CaptainByRow, MemberByRow
      <3>4. Team(player', t) = Team(player, t)
        <4>1. \A x : x \in Team(player', t) <=> x \in Team(player, t)
          BY <2>2, <3>2, MemberByRow
        <4> QED
          BY <4>1
      <3>5. Captains(player', t) = Captains(player, t)
        BY <3>3
      <3> QED
        BY <2>4, <3>4, <3>5 DEF OneCaptain
    <2> QED
      BY <2>4 DEF OneCaptain
  <1> QED
    BY <1>2, <1>3, <1>4

-----------------------------------------------------------------------------
(* Swaps and new lineups.                                                  *)

\* If every row is that of some player before, as far as team and captain go, and the
\* players are mapped onto each other by it, the captains are too.
LEMMA RenamingKeepsCaptains ==
  ASSUME NEW a, NEW b, OneCaptain(a), NEW f \in [User -> User],
         \A x \in User : f[f[x]] = x,
         \A x \in User, s \in Side : x \in Team(b, s) <=> f[x] \in Team(a, s),
         \A x \in User, s \in Side : x \in Captains(b, s) <=> f[x] \in Captains(a, s)
  PROVE  OneCaptain(b) /\ \A s \in Side : Team(a, s) # {} => Team(b, s) # {}
  <1>1. ASSUME NEW s \in Side, Team(b, s) # {}
        PROVE  \E x \in User : Captains(b, s) = {x}
    <2>1. PICK y \in User : y \in Team(b, s)
      BY <1>1, MemberByRow
    <2>2. PICK c \in User : Captains(a, s) = {c}
      BY <2>1 DEF OneCaptain
    <2>3. f[c] \in User /\ f[f[c]] = c
      OBVIOUS
    <2>4. \A x \in User : f[x] = c <=> x = f[c]
      BY <2>3
    <2>5. \A x \in User : x \in Captains(b, s) <=> x = f[c]
      BY <2>2, <2>4
    <2>6. \A x \in Captains(b, s) : x \in User
      BY CaptainByRow
    <2>7. Captains(b, s) = {f[c]}
      BY <2>3, <2>5, <2>6
    <2> QED
      BY <2>3, <2>7
  <1>2. ASSUME NEW s \in Side, Team(a, s) # {}
        PROVE  Team(b, s) # {}
    <2>1. PICK y \in User : y \in Team(a, s)
      BY <1>2, MemberByRow
    <2>2. f[y] \in User /\ f[f[y]] = y
      OBVIOUS
    <2> QED
      BY <2>1, <2>2
  <1> QED
    BY <1>1, <1>2 DEF OneCaptain

\* The exchange of two users.
Exchange(p, q) == [x \in User |-> IF x = p THEN q ELSE IF x = q THEN p ELSE x]

\* After a swap every row is that of the other one, but for the place in the order.
LEMMA SwapPlayersRows ==
  ASSUME TypeOK, NEW p, NEW q, SwapPlayers(p, q), NEW f, f = Exchange(p, q)
  PROVE  /\ f \in [User -> User] /\ \A x \in User : f[f[x]] = x
         /\ \A x \in User :
              /\ player'[x] # Nil <=> player[f[x]] # Nil
              /\ player[x] # Nil <=> player[f[x]] # Nil
              /\ player[x] # Nil => /\ player'[x].team = player[f[x]].team
                                    /\ player'[x].role = player[f[x]].role
                                    /\ player'[x].captain = player[f[x]].captain
  <1>1. p \in Players /\ q \in Players /\ p \in User /\ q \in User
    BY DEF SwapPlayers, Players, PlayersOf
  <1> USE DEF Exchange
  <1>2. f \in [User -> User] /\ \A x \in User : f[f[x]] = x
    BY <1>1
  <1>3. ASSUME NEW x \in User
        PROVE  /\ player'[x] # Nil <=> player[f[x]] # Nil
               /\ player[x] # Nil <=> player[f[x]] # Nil
               /\ player[x] # Nil => /\ player'[x].team = player[f[x]].team
                                     /\ player'[x].role = player[f[x]].role
                                     /\ player'[x].captain = player[f[x]].captain
    <2>1. CASE x = p \/ x = q
      <3>1. player'[x] = [player[f[x]] EXCEPT !.order = player[x].order]
        BY <1>1, <2>1 DEF SwapPlayers, TypeOK
      <3>2. player[f[x]] \in PlayerRow /\ player[x] \in PlayerRow
        BY <1>1, <2>1, RowOfPlayer
      <3>3. player'[x] \in PlayerRow
        BY <3>1, <3>2 DEF PlayerRow
      <3>4. player'[x] # Nil /\ player[f[x]] # Nil /\ player[x] # Nil
        BY <3>2, <3>3, NilAssumption
      <3>5. /\ player'[x].team = player[f[x]].team
            /\ player'[x].role = player[f[x]].role
            /\ player'[x].captain = player[f[x]].captain
        BY <3>1, <3>2 DEF PlayerRow
      <3> QED
        BY <3>4, <3>5, Zenon
    <2>2. CASE x # p /\ x # q
      <3>1. player'[x] = player[x] /\ f[x] = x
        BY <1>1, <2>2 DEF SwapPlayers, TypeOK
      <3> QED
        BY <3>1, Zenon
    <2> QED
      BY <2>1, <2>2
  <1> QED
    BY <1>2, <1>3, Zenon

\* Who swaps takes the other's team and captaincy, and a row always stays a row.
LEMMA SwapPlayersKeeps ==
  ASSUME TypeOK, OneCaptain(player), NEW p, NEW q, SwapPlayers(p, q)
  PROVE  /\ OneCaptain(player')
         /\ PlayersOf(player') = Players
         /\ \A s \in Side : Team(player, s) # {} => Team(player', s) # {}
         /\ (\A u \in Players : player[u].role # Nil)
              => \A u \in Players : player'[u].role # Nil
  <1> DEFINE f == Exchange(p, q)
  <1>2. f \in [User -> User] /\ \A x \in User : f[f[x]] = x
    BY SwapPlayersRows
  <1>3. ASSUME NEW x \in User
        PROVE  /\ player'[x] # Nil <=> player[f[x]] # Nil
               /\ player[x] # Nil <=> player[f[x]] # Nil
               /\ player[x] # Nil => /\ player'[x].team = player[f[x]].team
                                     /\ player'[x].role = player[f[x]].role
                                     /\ player'[x].captain = player[f[x]].captain
    BY SwapPlayersRows
  <1>4. \A x \in User : f[x] \in User
    BY <1>2
  <1> HIDE DEF f
  <1>5. \A x \in User, s \in Side : x \in Team(player', s) <=> f[x] \in Team(player, s)
    BY <1>3, <1>4, MemberByRow
  <1>6. \A x \in User, s \in Side :
          x \in Captains(player', s) <=> f[x] \in Captains(player, s)
    BY <1>3, <1>4, CaptainByRow
  <1>7. OneCaptain(player') /\ \A s \in Side : Team(player, s) # {} => Team(player', s) # {}
    BY <1>2, <1>5, <1>6, RenamingKeepsCaptains
  <1>8. \A x \in User : player'[x] # Nil <=> player[x] # Nil
    BY <1>3
  <1>9. PlayersOf(player') = Players
    BY <1>8 DEF Players, PlayersOf
  <1>10. ASSUME NEW u \in Players, \A x \in Players : player[x].role # Nil
         PROVE  player'[u].role # Nil
    BY <1>3, <1>4, <1>10 DEF Players, PlayersOf
  <1> QED
    BY <1>7, <1>9, <1>10

LEMMA SwapRolesKeeps ==
  ASSUME TypeOK, OneCaptain(player), NEW p, NEW q, SwapRoles(p, q)
  PROVE  /\ OneCaptain(player')
         /\ PlayersOf(player') = Players
         /\ \A s \in Side : Team(player, s) # {} => Team(player', s) # {}
         /\ (\A u \in Players : player[u].role # Nil)
              => \A u \in Players : player'[u].role # Nil
  <1>1. p \in Players /\ q \in Players /\ p \in User /\ q \in User
    BY DEF SwapRoles, Players, PlayersOf
  <1>2. ASSUME NEW x \in User
        PROVE  /\ player'[x] # Nil <=> player[x] # Nil
               /\ player[x] # Nil => /\ player'[x].team = player[x].team
                                     /\ player'[x].captain = player[x].captain
                                     /\ player'[x].role \in {player[y].role : y \in Players}
    <2>1. CASE player[x] = Nil
      <3>1. x # p /\ x # q
        BY <1>1, <2>1 DEF Players, PlayersOf
      <3>2. player'[x] = player[x]
        BY <1>1, <3>1 DEF SwapRoles, TypeOK
      <3> QED
        BY <2>1, <3>2, Zenon
    <2>2. CASE player[x] # Nil
      <3>1. x \in Players
        BY <2>2 DEF Players, PlayersOf
      <3>2. PICK y \in Players : player'[x] = [player[x] EXCEPT !.role = player[y].role]
        <4>1. CASE x = p /\ x # q
          BY <1>1, <4>1 DEF SwapRoles, TypeOK
        <4>2. CASE x = q
          BY <1>1, <4>2 DEF SwapRoles, TypeOK
        <4>3. CASE x # p /\ x # q
          <5>1. player'[x] = player[x] /\ player[x] \in PlayerRow
            BY <1>1, <3>1, <4>3, RowOfPlayer DEF SwapRoles, TypeOK
          <5> QED
            BY <3>1, <5>1 DEF PlayerRow
        <4> QED
          BY <4>1, <4>2, <4>3
      <3>3. player[x] \in PlayerRow /\ player[y] \in PlayerRow
        BY <3>1, RowOfPlayer
      <3>4. player'[x] \in PlayerRow
        BY <3>2, <3>3 DEF PlayerRow
      <3>5. player'[x] # Nil
        BY <3>4, NilAssumption
      <3>6. /\ player'[x].team = player[x].team
            /\ player'[x].captain = player[x].captain
            /\ player'[x].role = player[y].role
        BY <3>2, <3>3 DEF PlayerRow
      <3> QED
        BY <2>2, <3>5, <3>6, Zenon
    <2> QED
      BY <2>1, <2>2
  <1>3. \A x \in User, s \in Side : x \in Team(player', s) <=> x \in Team(player, s)
    BY <1>2, MemberByRow
  <1>4. \A x \in User, s \in Side :
          x \in Captains(player', s) <=> x \in Captains(player, s)
    BY <1>2, CaptainByRow
  <1>5. OneCaptain(player') /\ \A s \in Side : Team(player, s) # {} => Team(player', s) # {}
    <2> DEFINE id == [x \in User |-> x]
    <2>1. id \in [User -> User] /\ \A x \in User : id[x] = x /\ id[id[x]] = x
      OBVIOUS
    <2> HIDE DEF id
    <2> QED
      BY <1>3, <1>4, <2>1, RenamingKeepsCaptains
  <1>6. PlayersOf(player') = Players
    BY <1>2 DEF Players, PlayersOf
  <1>7. ASSUME NEW u \in Players, \A x \in Players : player[x].role # Nil
        PROVE  player'[u].role # Nil
    BY <1>2, <1>7 DEF Players, PlayersOf
  <1> QED
    BY <1>5, <1>6, <1>7

\* The first of every team leads it, and nobody else does.
LEMMA ResetKeeps ==
  ASSUME NEW STATE rows, RowsOK(rows), PlayersOf(rows) = Players, ResetCaptains(rows)
  PROVE  /\ OneCaptain(player')
         /\ PlayersOf(player') = Players
         /\ \A s \in Side : Team(player', s) = Team(rows, s)
         /\ \A u \in Players : player'[u].role = rows[u].role
  <1> DEFINE first(s) == OrNil(FirstOf(rows, Team(rows, s)))
  <1>1. PICK b \in first("blue"), r \in first("red") :
          player' = [u \in User |-> IF u \in Players
                                    THEN [rows[u] EXCEPT !.captain = (u \in {b, r})]
                                    ELSE Nil]
    BY Zenon DEF ResetCaptains
  <1>2. ASSUME NEW s \in Side
        PROVE  /\ first(s) \subseteq Team(rows, s) \cup {Nil}
               /\ Team(rows, s) # {} => first(s) \subseteq Team(rows, s)
    <2>1. Team(rows, s) \subseteq PlayersOf(rows)
      BY DEF Team
    <2>2. Team(rows, s) # {} => FirstOf(rows, Team(rows, s)) # {}
      BY <2>1, SomeoneIsFirst
    <2>3. FirstOf(rows, Team(rows, s)) \subseteq Team(rows, s)
      BY DEF FirstOf
    <2> QED
      BY <2>2, <2>3 DEF OrNil
  <1>3. ASSUME NEW u \in User
        PROVE  /\ player'[u] # Nil <=> rows[u] # Nil
               /\ rows[u] # Nil => /\ player'[u].team = rows[u].team
                                   /\ player'[u].role = rows[u].role
                                   /\ player'[u].captain <=> u \in {b, r}
    <2>1. CASE rows[u] = Nil
      <3>1. u \notin Players
        BY <2>1 DEF PlayersOf
      <3> QED
        BY <1>1, <2>1, <3>1
    <2>2. CASE rows[u] # Nil
      <3>1. u \in Players /\ rows[u] \in PlayerRow
        BY <2>2 DEF PlayersOf, RowsOK
      <3> DEFINE leads == u \in {b, r}
      <3>2. player'[u] = [rows[u] EXCEPT !.captain = leads]
        BY <1>1, <3>1, Zenon
      <3>3. leads \in BOOLEAN
        OBVIOUS
      <3> HIDE DEF leads
      <3>4. player'[u] \in PlayerRow
        BY <3>1, <3>2, <3>3, RowWithCaptain
      <3>5. /\ player'[u].team = rows[u].team
            /\ player'[u].role = rows[u].role
            /\ player'[u].captain = leads
        BY <3>1, <3>2, <3>3 DEF PlayerRow
      <3>6. player'[u] # Nil
        BY <3>4, NilAssumption
      <3> QED
        BY <2>2, <3>5, <3>6, Zenon DEF leads
    <2> QED
      BY <2>1, <2>2
  <1> HIDE DEF first
  <1>4. \A s \in Side : \A x : x \in Team(player', s) <=> x \in Team(rows, s)
    BY <1>3, MemberByRow
  <1>5. ASSUME NEW s \in Side, Team(player', s) # {}
        PROVE  \E x \in User : Captains(player', s) = {x}
    <2> DEFINE c == IF s = "blue" THEN b ELSE r
               d == IF s = "blue" THEN r ELSE b
    <2>1. c \in Team(rows, s) /\ c \in User
      <3>1. Team(rows, s) # {}
        BY <1>4, <1>5
      <3>2. c \in first(s)
        BY DEF Side
      <3> QED
        BY <1>2, <3>1, <3>2, MemberByRow
    <2>2. d \notin Team(rows, s)
      <3>1. d \in first(OtherSide(s)) /\ OtherSide(s) \in Side /\ OtherSide(s) # s
        BY DEF Side, OtherSide
      <3>2. d \in Team(rows, OtherSide(s)) \cup {Nil}
        BY <1>2, <3>1
      <3> QED
        BY <3>1, <3>2, MemberByRow, NilAssumption
    <2>3. \A x : x \in {b, r} <=> x = c \/ x = d
      OBVIOUS
    <2> HIDE DEF c, d
    <2>4. \A x : x \in Captains(player', s) <=> x \in Team(rows, s) /\ x \in {b, r}
      BY <1>3, <1>4, CaptainByRow, MemberByRow
    <2>5. \A x : x \in Captains(player', s) <=> x = c
      BY <2>1, <2>2, <2>3, <2>4
    <2> QED
      BY <2>1, <2>5
  <1>6. PlayersOf(player') = Players
    BY <1>3 DEF PlayersOf
  <1>7. \A s \in Side : Team(player', s) = Team(rows, s)
    BY <1>4
  <1>8. \A u \in Players : player'[u].role = rows[u].role
    BY <1>3 DEF PlayersOf
  <1> QED
    BY <1>5, <1>6, <1>7, <1>8 DEF OneCaptain

\* A lineup of all players gives everyone a role and nobody an empty team.
LEMMA ApplyKeeps ==
  ASSUME TypeOK, OptionsFitPlayers, NEW n, ApplyMatchOption(n)
  PROVE  /\ OneCaptain(player')
         /\ PlayersOf(player') = Players
         /\ \A s \in Side : Team(player', s) # {}
         /\ \A u \in Players : player'[u].role # Nil
  <1> DEFINE f == options[n]
             rows == Assigned(f)
  <1>1. f \in Lineup /\ DOMAIN f = Players
    BY ApplyTyped DEF ApplyMatchOption, OptionsFitPlayers
  <1>2. RowsOK(rows) /\ PlayersOf(rows) = Players
    BY <1>1, AssignedRows
  <1>3. ResetCaptains(rows)
    BY DEF ApplyMatchOption
  <1>4. ASSUME NEW u \in Players
        PROVE  /\ u \in User
               /\ rows[u] # Nil
               /\ rows[u].team = f[u][1] /\ rows[u].role = f[u][2]
               /\ f[u] \in Side \X Role
    <2>1. u \in User /\ player[u] \in PlayerRow
      BY RowOfPlayer
    <2>2. rows[u] = [player[u] EXCEPT !.team = f[u][1], !.role = f[u][2]]
      BY <1>1, <2>1 DEF Assigned
    <2>3. f[u] \in Side \X Role
      BY <1>1, LineupAssumption
    <2>4. rows[u] # Nil
      BY <1>2 DEF PlayersOf
    <2>5. rows[u].team = f[u][1] /\ rows[u].role = f[u][2]
      BY <2>1, <2>2 DEF PlayerRow
    <2> QED
      BY <2>1, <2>3, <2>4, <2>5
  <1>5. ASSUME NEW s \in Side
        PROVE  Team(rows, s) # {}
    <2>1. PICK ro : ro \in Role
      BY LobbyAssumption
    <2>2. <<s, ro>> \in Range(f)
      BY <1>1, <2>1, LineupAssumption
    <2>3. PICK u \in Players : f[u] = <<s, ro>>
      BY <1>1, <2>2 DEF Range
    <2>4. rows[u].team = s
      BY <1>4, <2>3
    <2> HIDE DEF rows, f
    <2>5. u \in Team(rows, s)
      BY <1>4, <2>4, MemberByRow
    <2> QED
      BY <2>5
  <1> HIDE DEF rows, f
  <1>6. /\ OneCaptain(player')
        /\ PlayersOf(player') = Players
        /\ \A s \in Side : Team(player', s) = Team(rows, s)
        /\ \A u \in Players : player'[u].role = rows[u].role
    BY <1>2, <1>3, ResetKeeps
  <1>7. ASSUME NEW u \in Players
        PROVE  player'[u].role # Nil
    <2>1. player'[u].role = f[u][2] /\ f[u][2] \in Role
      BY <1>4, <1>6
    <2> QED
      BY <2>1, NilAssumption
  <1> QED
    BY <1>5, <1>6, <1>7
=============================================================================

-------------------------- MODULE LobbySafetyProofs --------------------------
(***************************************************************************)
(* What the lobby keeps through every request: one captain on every team   *)
(* with players, options that name those present, a complete room, even    *)
(* teams and every role taken twice.                                       *)
(***************************************************************************)
EXTENDS LobbyProofs

-----------------------------------------------------------------------------
(* The inductive invariant.                                                *)

\* Nothing has been proposed by matchmaking while players still come and go.
NothingYet ==
  status = "waiting_for_players" => options = << >> /\ selected = Nil /\ room = Nil

\* Once a lineup has been selected everyone has a role and no team is empty.
Placed(rows) ==
  /\ \A u \in PlayersOf(rows) : rows[u].role # Nil
  /\ \A s \in Side : Team(rows, s) # {}

IInv ==
  /\ TypeOK
  /\ OneCaptainPerTeam
  /\ OptionsFitPlayers
  /\ RoomIsComplete
  /\ NothingYet
  /\ selected # Nil => Placed(player)

LEMMA IInvCaptains == IInv => OneCaptain(player)
  BY DEF IInv, OneCaptainPerTeam, OneCaptain

\* While the lobby waits only the rows matter.
LEMMA WaitingKeepsIInv ==
  ASSUME IInv, TypeOK', OneCaptain(player'), status = "waiting_for_players",
         UNCHANGED <<status, selected, options, room>>
  PROVE  IInv'
  <1>1. options = << >> /\ selected = Nil /\ room = Nil
    BY DEF IInv, NothingYet
  <1>2. OneCaptainPerTeam'
    BY DEF OneCaptain, OneCaptainPerTeam
  <1>3. OptionsFitPlayers' /\ RoomIsComplete' /\ NothingYet' /\ selected' = Nil
    BY <1>1 DEF OptionsFitPlayers, RoomIsComplete, NothingYet
  <1> QED
    BY <1>2, <1>3 DEF IInv

\* Later the same players stay, and the room is not touched.
LEMMA StayingKeepsIInv ==
  ASSUME IInv, TypeOK', OneCaptain(player'), PlayersOf(player') = Players,
         \/ status' # "waiting_for_players"
         \/ UNCHANGED <<status, selected, options>>,
         \A n \in DOMAIN options' : DOMAIN options'[n] = Players,
         selected' # Nil => Placed(player'),
         room' = room
  PROVE  IInv'
  <1>1. Players' = Players
    BY DEF Players
  <1>2. OneCaptainPerTeam'
    BY DEF OneCaptain, OneCaptainPerTeam
  <1>3. OptionsFitPlayers'
    BY <1>1 DEF OptionsFitPlayers
  <1>4. RoomIsComplete'
    BY <1>1 DEF IInv, RoomIsComplete
  <1>5. NothingYet'
    BY DEF IInv, NothingYet
  <1> QED
    BY <1>2, <1>3, <1>4, <1>5 DEF IInv

\* Rows, options and selection are as before.
LEMMA FrameKeepsIInv ==
  ASSUME IInv, TypeOK', UNCHANGED <<status, selected, player, options, room>>
  PROVE  IInv'
  <1>1. OneCaptain(player') /\ PlayersOf(player') = Players
    BY IInvCaptains DEF Players
  <1>2. selected' # Nil => Placed(player')
    BY DEF IInv
  <1>3. \A n \in DOMAIN options' : DOMAIN options'[n] = Players
    BY DEF IInv, OptionsFitPlayers
  <1> QED
    BY <1>1, <1>2, <1>3, StayingKeepsIInv

\* Nobody's team or role changes with a captain.
LEMMA TakeKeepsRows ==
  ASSUME TypeOK, NEW u \in User, TakeCaptain(u)
  PROVE  \A x \in User :
           /\ player'[x] # Nil <=> player[x] # Nil
           /\ player[x] # Nil => /\ player'[x].team = player[x].team
                                 /\ player'[x].role = player[x].role
  <1>3. PICK v \in Players :
          player' = [player EXCEPT ![v].captain = FALSE, ![u].captain = TRUE]
    BY DEF TakeCaptain, Captains, Team, Players
  <1>4. u \in Players
    BY DEF TakeCaptain
  <1>5. ASSUME NEW x \in User
        PROVE  /\ player'[x] # Nil <=> player[x] # Nil
               /\ player[x] # Nil => /\ player'[x].team = player[x].team
                                     /\ player'[x].role = player[x].role
    <2>1. CASE x \in Players
      <3>1. player[x] \in PlayerRow /\ player[x] # Nil
        BY <2>1, RowOfPlayer
      <3>2. PICK y \in BOOLEAN : player'[x] = [player[x] EXCEPT !.captain = y]
        <4>1. CASE x = u
          BY <1>3, <1>4, <3>1, <4>1 DEF TypeOK, PlayerRow
        <4>2. CASE x # u /\ x = v
          BY <1>3, <1>4, <3>1, <4>2 DEF TypeOK, PlayerRow
        <4>3. CASE x # u /\ x # v
          <5>1. player'[x] = player[x]
            BY <1>3, <4>3 DEF TypeOK
          <5> QED
            BY <3>1, <5>1 DEF PlayerRow
        <4> QED
          BY <4>1, <4>2, <4>3
      <3>3. player'[x] \in PlayerRow
        BY <3>1, <3>2, RowWithCaptain
      <3>4. player'[x] # Nil
        BY <3>3, NilAssumption
      <3>5. player'[x].team = player[x].team /\ player'[x].role = player[x].role
        BY <3>1, <3>2 DEF PlayerRow
      <3> QED
        BY <3>1, <3>4, <3>5
    <2>2. CASE x \notin Players
      <3>1. x # u /\ x # v /\ player[x] = Nil
        BY <1>4, <2>2 DEF Players, PlayersOf
      <3>2. player'[x] = player[x]
        BY <1>3, <3>1 DEF TypeOK
      <3> QED
        BY <3>1, <3>2
    <2> QED
      BY <2>1, <2>2
  <1> QED
    BY <1>5

LEMMA TakeKeepsIInv ==
  ASSUME IInv, TypeOK', NEW u \in User, TakeCaptain(u)
  PROVE  IInv'
  <1>1. TypeOK /\ OneCaptain(player)
    BY IInvCaptains DEF IInv
  <1>2. OneCaptain(player')
    BY <1>1, TakeKeepsCaptains
  <1>5. \A x \in User :
          /\ player'[x] # Nil <=> player[x] # Nil
          /\ player[x] # Nil => /\ player'[x].team = player[x].team
                                /\ player'[x].role = player[x].role
    BY <1>1, TakeKeepsRows
  <1>6. PlayersOf(player') = Players
    BY <1>5 DEF Players, PlayersOf
  <1>7. ASSUME Placed(player)
        PROVE  Placed(player')
    <2>1. \A s \in Side : \A x : x \in Team(player', s) <=> x \in Team(player, s)
      BY <1>5, MemberByRow
    <2>2. \A x \in PlayersOf(player') : player'[x].role # Nil
      BY <1>5, <1>7 DEF Placed, PlayersOf
    <2> QED
      BY <1>7, <2>1, <2>2 DEF Placed
  <1>8. UNCHANGED <<status, selected, options, room>>
    BY DEF TakeCaptain
  <1>9. selected' # Nil => Placed(player')
    BY <1>7, <1>8 DEF IInv
  <1>10. \A n \in DOMAIN options' : DOMAIN options'[n] = Players
    BY <1>8 DEF IInv, OptionsFitPlayers
  <1> QED
    BY <1>2, <1>6, <1>8, <1>9, <1>10, StayingKeepsIInv

LEMMA GenerateKeepsIInv ==
  ASSUME IInv, TypeOK', GenerateMatchOptions
  PROVE  IInv'
  <1>1. PICK os \in OptionLists({}) : options' = os
    BY DEF GenerateMatchOptions
  <1>2. \A n \in DOMAIN options' : DOMAIN options'[n] = Players
    BY <1>1, OptionListsFit
  <1>3. status' # "waiting_for_players" /\ UNCHANGED <<selected, player, room>>
    BY DEF GenerateMatchOptions
  <1>4. OneCaptain(player') /\ PlayersOf(player') = Players
    BY <1>3, IInvCaptains DEF Players
  <1>5. selected' # Nil => Placed(player')
    BY <1>3 DEF IInv
  <1> QED
    BY <1>2, <1>3, <1>4, <1>5, StayingKeepsIInv

LEMMA LoadKeepsIInv ==
  ASSUME IInv, TypeOK', NEW c, LoadMoreTeams(c)
  PROVE  IInv'
  <1>1. PICK os \in OptionLists(Range(options)) : options' = options \o os
    BY DEF LoadMoreTeams
  <1>2. os \in Seq(Lineup) /\ options \in Seq(Lineup)
    BY OptionListsFit DEF IInv, TypeOK
  <1>3. ASSUME NEW n \in DOMAIN options'
        PROVE  DOMAIN options'[n] = Players
    <2>1. CASE n \in DOMAIN options
      <3>1. options'[n] = options[n]
        BY <1>1, <1>2, <2>1
      <3> QED
        BY <2>1, <3>1 DEF IInv, OptionsFitPlayers
    <2>2. CASE n \notin DOMAIN options
      <3>1. n - Len(options) \in DOMAIN os /\ options'[n] = os[n - Len(options)]
        BY <1>1, <1>2, <2>2
      <3> QED
        BY <3>1, OptionListsFit
    <2> QED
      BY <2>1, <2>2
  <1>4. status' # "waiting_for_players" /\ UNCHANGED <<selected, player, room>>
    BY DEF LoadMoreTeams
  <1>5. OneCaptain(player') /\ PlayersOf(player') = Players
    BY <1>4, IInvCaptains DEF Players
  <1>6. selected' # Nil => Placed(player')
    BY <1>4 DEF IInv
  <1> QED
    BY <1>3, <1>4, <1>5, <1>6, StayingKeepsIInv

LEMMA ApplyKeepsIInv ==
  ASSUME IInv, TypeOK', NEW n, ApplyMatchOption(n)
  PROVE  IInv'
  <1>1. /\ OneCaptain(player')
        /\ PlayersOf(player') = Players
        /\ \A s \in Side : Team(player', s) # {}
        /\ \A u \in Players : player'[u].role # Nil
    BY ApplyKeeps DEF IInv
  <1>2. Placed(player')
    BY <1>1 DEF Placed
  <1>3. status' # "waiting_for_players" /\ UNCHANGED <<options, room>>
    BY DEF ApplyMatchOption
  <1>4. \A k \in DOMAIN options' : DOMAIN options'[k] = Players
    BY <1>3 DEF IInv, OptionsFitPlayers
  <1> QED
    BY <1>1, <1>2, <1>3, <1>4, StayingKeepsIInv

\* What both kinds of swap come down to.
LEMMA SwapKeepsIInv ==
  ASSUME IInv, TypeOK', OneCaptain(player'), PlayersOf(player') = Players,
         \A s \in Side : Team(player, s) # {} => Team(player', s) # {},
         (\A u \in Players : player[u].role # Nil)
           => \A u \in Players : player'[u].role # Nil,
         UNCHANGED <<status, selected, options, room>>
  PROVE  IInv'
  <1>1. Placed(player) => Placed(player')
    BY DEF Placed, Players
  <1>2. selected' # Nil => Placed(player')
    BY <1>1 DEF IInv
  <1>3. \A n \in DOMAIN options' : DOMAIN options'[n] = Players
    BY DEF IInv, OptionsFitPlayers
  <1> QED
    BY <1>2, <1>3, StayingKeepsIInv

\* The room is made when everyone has a place and each team its captain.
LEMMA MakeRoomKeepsIInv ==
  ASSUME IInv, TypeOK', MakeRoom
  PROVE  IInv'
  <1>1. selected # Nil
    BY NilAssumption DEF MakeRoom, IInv, TypeOK
  <1>2. Placed(player) /\ OneCaptain(player)
    BY <1>1, IInvCaptains DEF IInv
  <1>3. {v \in Players : player[v].role # Nil} = Players
    BY <1>2 DEF Placed, Players
  <1>4. \A s \in Side : Captains(player, s) # {} /\ OrNil(Captains(player, s)) = Captains(player, s)
    BY <1>2 DEF Placed, OneCaptain, OrNil
  <1> DEFINE placeOf(u) == [team |-> player[u].team, role |-> player[u].role,
                            captain |-> player[u].captain]
  <1>5. PICK b \in Captains(player, "blue"), r \in Captains(player, "red") :
          room' = [seat |-> [s \in Side |-> IF s = "blue" THEN b ELSE r],
                   roster |-> [u \in Players |-> placeOf(u)]]
    <2>1. PICK b \in OrNil(Captains(player, "blue")), r \in OrNil(Captains(player, "red")) :
            room' = [seat |-> [s \in Side |-> IF s = "blue" THEN b ELSE r],
                     roster |-> [u \in {v \in Players : player[v].role # Nil} |-> placeOf(u)]]
      BY Zenon DEF MakeRoom
    <2>2. b \in Captains(player, "blue") /\ r \in Captains(player, "red")
      BY <1>4, <2>1 DEF Side
    <2> HIDE DEF placeOf
    <2> QED
      BY <1>3, <2>1, <2>2
  <1>6. ASSUME NEW s \in Side
        PROVE  /\ room'.seat[s] \in Players
               /\ room'.roster[room'.seat[s]].team = s
               /\ room'.roster[room'.seat[s]].captain
    <2> DEFINE c == IF s = "blue" THEN b ELSE r
    <2>1. c \in Captains(player, s)
      BY DEF Side
    <2>2. room'.seat[s] = c
      <3> HIDE DEF placeOf
      <3> QED
        BY <1>5
    <2> HIDE DEF c
    <2>3. c \in Players /\ player[c].team = s /\ player[c].captain
      BY <2>1, CaptainByRow DEF Players, PlayersOf
    <2>4. room'.roster[c] = placeOf(c)
      <3> HIDE DEF placeOf
      <3> QED
        BY <1>5, <2>3
    <2>5. placeOf(c).team = s /\ placeOf(c).captain
      BY <2>3
    <2> QED
      BY <2>2, <2>3, <2>4, <2>5, Zenon
  <1>7. DOMAIN room'.roster = Players
    <2> HIDE DEF placeOf
    <2> QED
      BY <1>5
  <1>8. UNCHANGED <<selected, player, options>> /\ status' # "waiting_for_players"
    BY DEF MakeRoom
  <1>9. Players' = Players
    BY <1>8 DEF Players, PlayersOf
  <1>10. RoomIsComplete'
    BY <1>6, <1>7, <1>9, Zenon DEF RoomIsComplete
  <1>11. OneCaptainPerTeam'
    BY <1>2, <1>8 DEF OneCaptain, OneCaptainPerTeam
  <1>12. OptionsFitPlayers' /\ NothingYet' /\ (selected # Nil => Placed(player))'
    BY <1>8, <1>9 DEF IInv, OptionsFitPlayers, NothingYet
  <1> QED
    BY <1>10, <1>11, <1>12 DEF IInv

LEMMA ExecuteKeepsIInv ==
  ASSUME IInv, TypeOK', ExecutePendingAction
  PROVE  IInv'
  <1> DEFINE p == pending.pair[1]
             q == pending.pair[2]
  <1>1. TypeOK /\ OneCaptain(player)
    BY IInvCaptains DEF IInv
  <1>2. CASE SwapPlayers(p, q)
    <2>1. UNCHANGED <<status, selected, options, room>>
      BY <1>2 DEF SwapPlayers
    <2> HIDE DEF p, q
    <2> QED
      BY <1>1, <1>2, <2>1, SwapPlayersKeeps, SwapKeepsIInv
  <1>3. CASE SwapRoles(p, q)
    <2>1. UNCHANGED <<status, selected, options, room>>
      BY <1>3 DEF SwapRoles
    <2> HIDE DEF p, q
    <2> QED
      BY <1>1, <1>3, <2>1, SwapRolesKeeps, SwapKeepsIInv
  <1>4. CASE GenerateMatchOptions
    BY <1>4, GenerateKeepsIInv
  <1>5. CASE ApplyMatchOption(pending.option)
    BY <1>5, ApplyKeepsIInv
  <1>6. CASE MakeRoom
    BY <1>6, MakeRoomKeepsIInv
  <1> QED
    BY <1>2, <1>3, <1>4, <1>5, <1>6 DEF ExecutePendingAction

LEMMA InitSafe == Init => IInv
  <1> SUFFICES ASSUME Init
               PROVE  IInv
    OBVIOUS
  <1> DEFINE first == [team |-> "blue", role |-> Nil, captain |-> TRUE, order |-> 0]
  <1>1. TypeOK
    BY InitTyped
  <1>2. PICK creator \in User :
          player = [u \in User |-> IF u = creator THEN first ELSE Nil]
    BY DEF Init
  <1>3. \A u \in User : u # creator => player[u] = Nil
    BY <1>2
  <1>4. player[creator].team = "blue" /\ player[creator].captain
    BY <1>2
  <1>5. creator \in Players
    <2>1. first \in PlayerRow
      BY LobbyAssumption DEF PlayerRow, Side
    <2> HIDE DEF first
    <2>2. player[creator] = first
      BY <1>2
    <2> QED
      BY <2>1, <2>2, NilAssumption DEF Players, PlayersOf
  <1>6. ASSUME NEW s \in Side, Team(player, s) # {}
        PROVE  \E u \in User : Captains(player, s) = {u}
    <2>1. creator \in Team(player, s)
      BY <1>3, <1>6, MemberByRow
    <2>2. \A x : x \in Captains(player, s) <=> x = creator
      BY <1>3, <1>4, <2>1, CaptainByRow, MemberByRow
    <2> QED
      BY <2>2
  <1>7. OneCaptainPerTeam
    BY <1>6 DEF OneCaptainPerTeam
  <1>8. options = << >> /\ selected = Nil /\ room = Nil
    BY DEF Init
  <1> QED
    BY <1>1, <1>7, <1>8 DEF IInv, OptionsFitPlayers, RoomIsComplete, NothingYet

LEMMA StepSafe ==
  ASSUME IInv, [Next]_vars
  PROVE  IInv'
  <1>1. TypeOK /\ OneCaptain(player)
    BY IInvCaptains DEF IInv
  <1>2. TypeOK'
    BY <1>1, StepTyped
  <1>3. CASE UNCHANGED vars
    BY <1>2, <1>3, FrameKeepsIInv DEF vars
  <1>4. CASE PendingActionExpires
    BY <1>2, <1>4, FrameKeepsIInv DEF PendingActionExpires
  <1>5. ASSUME NEW u \in User, JoinLobby(u)
        PROVE  IInv'
    BY <1>1, <1>2, <1>5, JoinKeepsCaptains, WaitingKeepsIInv DEF JoinLobby
  <1>6. ASSUME NEW u \in User, LeaveLobby(u)
        PROVE  IInv'
    BY <1>1, <1>2, <1>6, LeaveKeepsCaptains, WaitingKeepsIInv DEF LeaveLobby
  <1>7. ASSUME NEW u \in User, TakeCaptain(u)
        PROVE  IInv'
    BY <1>2, <1>7, TakeKeepsIInv
  <1>8. ASSUME NEW u \in User, NEW v \in User, PromoteCaptain(u, v)
        PROVE  IInv'
    BY <1>1, <1>2, <1>8, PromoteKeepsCaptains, WaitingKeepsIInv DEF PromoteCaptain
  <1>9. ASSUME NEW u \in User, NEW v \in User, KickPlayer(u, v)
        PROVE  IInv'
    BY <1>1, <1>2, <1>9, KickKeepsCaptains, WaitingKeepsIInv DEF KickPlayer
  <1>10. ASSUME NEW u \in User, GenerateTeams(u)
         PROVE  IInv'
    BY <1>2, <1>10, GenerateKeepsIInv DEF GenerateTeams
  <1>11. ASSUME NEW u \in User, LoadMoreTeams(u)
         PROVE  IInv'
    BY <1>2, <1>11, LoadKeepsIInv
  <1>12. ASSUME NEW u \in User, NEW n, SelectMatchOption(u, n)
         PROVE  IInv'
    BY <1>2, <1>12, ApplyKeepsIInv DEF SelectMatchOption
  <1>13. ASSUME NEW u \in User, StartDraft(u)
         PROVE  IInv'
    BY <1>2, <1>13, MakeRoomKeepsIInv DEF StartDraft
  <1>14. ASSUME NEW u \in User, NEW type, NEW pair, NEW option,
                Propose(u, type, pair, option)
         PROVE  IInv'
    BY <1>2, <1>14, FrameKeepsIInv DEF Propose
  <1>15. ASSUME NEW u \in User,
                \/ ProposeMatchmake(u)
                \/ ProposeStartDraft(u)
                \/ \E pq \in Swappable : ProposeSwap(u, pq[1], pq[2])
                \/ \E n \in 1 .. MaxOptions : ProposeSelectOption(u, n)
         PROVE  IInv'
    BY <1>14, <1>15
       DEF ProposeMatchmake, ProposeStartDraft, ProposeSwap, ProposeSelectOption
  <1>16. ASSUME NEW u \in User, ApprovePendingAction(u)
         PROVE  IInv'
    BY <1>2, <1>16, ExecuteKeepsIInv DEF ApprovePendingAction
  <1>17. ASSUME NEW u \in User, CancelPendingAction(u)
         PROVE  IInv'
    BY <1>2, <1>17, FrameKeepsIInv DEF CancelPendingAction
  <1> QED
    BY <1>3, <1>4, <1>5, <1>6, <1>7, <1>8, <1>9, <1>10, <1>11, <1>12, <1>13, <1>15,
       <1>16, <1>17 DEF Next

LEMMA LobbySafe == Spec => []IInv
  BY InitSafe, StepSafe, PTL DEF Spec

\* Joins, departures, kicks, promotions, swaps and lineups leave every team that has
\* players exactly one captain.
THEOREM LobbyOneCaptain == Spec => []OneCaptainPerTeam
  <1>1. IInv => OneCaptainPerTeam
    BY DEF IInv
  <1> QED
    BY <1>1, LobbySafe, PTL

\* No request leaves an option behind that names somebody who has gone, or leaves out
\* somebody who has come.
THEOREM LobbyOptionsFit == Spec => []OptionsFitPlayers
  <1>1. IInv => OptionsFitPlayers
    BY DEF IInv
  <1> QED
    BY <1>1, LobbySafe, PTL

\* Whatever was swapped between the selection of a lineup and the start of the draft,
\* the room has all players, and the right captain in each seat.
THEOREM LobbyRoomIsComplete == Spec => []RoomIsComplete
  <1>1. IInv => RoomIsComplete
    BY DEF IInv
  <1> QED
    BY <1>1, LobbySafe, PTL

-----------------------------------------------------------------------------
(* Counting players.                                                       *)

WithRole(rows, r) == {u \in PlayersOf(rows) : rows[u].role = r}

Even(rows) ==
  /\ Cardinality(Team(rows, "blue")) = Cardinality(Team(rows, "red"))
  /\ \A r \in Role : Cardinality(WithRole(rows, r)) = 2

LEMMA EvenTeams == TeamsStayEven <=> (selected # Nil => Even(player))
  BY DEF TeamsStayEven, Even, WithRole, Players

\* Users who are mapped onto each other are as many.
LEMMA ExchangeKeepsSize ==
  ASSUME NEW A, NEW B, A \subseteq User, B \subseteq User,
         NEW f \in [User -> User], \A x \in User : f[f[x]] = x,
         \A x \in User : x \in B <=> f[x] \in A
  PROVE  Cardinality(B) = Cardinality(A)
  <1> DEFINE g == [x \in B |-> f[x]]
  <1>1. \A x \in B : f[x] \in A
    OBVIOUS
  <1>2. \A y \in A : f[y] \in B /\ f[f[y]] = y
    OBVIOUS
  <1>3. \A x, y \in B : f[x] = f[y] => x = y
    <2> SUFFICES ASSUME NEW x \in B, NEW y \in B, f[x] = f[y] PROVE x = y
      OBVIOUS
    <2>1. f[f[x]] = x /\ f[f[y]] = y
      OBVIOUS
    <2> QED
      BY <2>1
  <1>4. g \in [B -> A] /\ \A x \in B : g[x] = f[x]
    BY <1>1
  <1> HIDE DEF g
  <1>5. g \in Bijection(B, A)
    BY <1>2, <1>3, <1>4 DEF Bijection, Injection, Surjection, IsInjective
  <1>6. ExistsBijection(B, A) /\ IsFiniteSet(B)
    BY <1>5, LobbyAssumption, FS_Subset DEF ExistsBijection
  <1> QED
    BY <1>6, FS_Bijection

\* Rows whose teams and whose roles are those of other users, each of them once, are as
\* even as before.
LEMMA ExchangeKeepsEven ==
  ASSUME NEW a, NEW b, Even(a),
         NEW f \in [User -> User], \A x \in User : f[f[x]] = x,
         NEW g \in [User -> User], \A x \in User : g[g[x]] = x,
         \A x \in User, s \in Side : x \in Team(b, s) <=> f[x] \in Team(a, s),
         \A x \in User, r \in Role : x \in WithRole(b, r) <=> g[x] \in WithRole(a, r)
  PROVE  Even(b)
  <1>1. \A s \in Side : Cardinality(Team(b, s)) = Cardinality(Team(a, s))
    <2> SUFFICES ASSUME NEW s \in Side PROVE Cardinality(Team(b, s)) = Cardinality(Team(a, s))
      OBVIOUS
    <2>1. Team(a, s) \subseteq User /\ Team(b, s) \subseteq User
      BY DEF Team, PlayersOf
    <2> QED
      BY <2>1, ExchangeKeepsSize
  <1>2. \A r \in Role : Cardinality(WithRole(b, r)) = Cardinality(WithRole(a, r))
    <2> SUFFICES ASSUME NEW r \in Role
                 PROVE  Cardinality(WithRole(b, r)) = Cardinality(WithRole(a, r))
      OBVIOUS
    <2>1. WithRole(a, r) \subseteq User /\ WithRole(b, r) \subseteq User
      BY DEF WithRole, PlayersOf
    <2> QED
      BY <2>1, ExchangeKeepsSize
  <1> QED
    BY <1>1, <1>2 DEF Even, Side

\* Every team of a lineup has as many players as there are roles, and every role two.
LEMMA LineupIsEven ==
  ASSUME NEW f \in Lineup, NEW rows, PlayersOf(rows) = DOMAIN f,
         \A u \in DOMAIN f : rows[u].team = f[u][1] /\ rows[u].role = f[u][2]
  PROVE  Even(rows)
  <1>1. /\ DOMAIN f \subseteq User /\ IsFiniteSet(DOMAIN f)
        /\ \A u \in DOMAIN f : f[u] \in Side \X Role
        /\ \A u, v \in DOMAIN f : f[u] = f[v] => u = v
        /\ \A s \in Side, r \in Role : \E u \in DOMAIN f : f[u] = <<s, r>>
    <2>1. /\ DOMAIN f \subseteq User /\ f \in [DOMAIN f -> Side \X Role]
          /\ IsInjective(f) /\ Range(f) = Side \X Role
      BY LineupAssumption
    <2>2. IsFiniteSet(DOMAIN f)
      BY <2>1, LobbyAssumption, FS_Subset
    <2>3. \A u \in DOMAIN f : f[u] \in Side \X Role
      BY <2>1
    <2>4. \A u, v \in DOMAIN f : f[u] = f[v] => u = v
      BY <2>1, Zenon DEF IsInjective
    <2>5. ASSUME NEW s \in Side, NEW r \in Role
          PROVE  \E u \in DOMAIN f : f[u] = <<s, r>>
      <3>1. <<s, r>> \in Range(f)
        BY <2>1
      <3> QED
        BY <3>1 DEF Range
    <2> QED
      BY <2>1, <2>2, <2>3, <2>4, <2>5
  <1>2. ASSUME NEW s \in Side
        PROVE  Cardinality(Team(rows, s)) = Cardinality(Role)
    <2> DEFINE T == Team(rows, s)
               g == [u \in T |-> f[u][2]]
    <2>1. T \subseteq DOMAIN f /\ \A u \in DOMAIN f : u \in T <=> f[u][1] = s
      BY DEF Team
    <2>2. ASSUME NEW u \in T PROVE f[u] = <<s, f[u][2]>> /\ f[u][2] \in Role
      BY <1>1, <2>1
    <2>3. ASSUME NEW r \in Role PROVE \E u \in T : f[u][2] = r
      <3>1. PICK u \in DOMAIN f : f[u] = <<s, r>>
        BY <1>1
      <3> QED
        BY <2>1, <3>1
    <2> HIDE DEF T
    <2>4. g \in [T -> Role] /\ \A u \in T : g[u] = f[u][2]
      BY <2>2
    <2>5. \A u, v \in T : f[u][2] = f[v][2] => u = v
      BY <1>1, <2>1, <2>2
    <2> HIDE DEF g
    <2>6. g \in Bijection(T, Role)
      BY <2>3, <2>4, <2>5 DEF Bijection, Injection, Surjection, IsInjective
    <2>7. ExistsBijection(T, Role) /\ IsFiniteSet(T)
      BY <1>1, <2>1, <2>6, FS_Subset DEF ExistsBijection
    <2>8. Cardinality(Role) = Cardinality(T)
      BY <2>7, FS_Bijection
    <2> QED
      BY <2>8 DEF T
  <1>3. ASSUME NEW r \in Role
        PROVE  Cardinality(WithRole(rows, r)) = 2
    <2>1. PICK a \in DOMAIN f : f[a] = <<"blue", r>>
      BY <1>1 DEF Side
    <2>2. PICK b \in DOMAIN f : f[b] = <<"red", r>>
      BY <1>1 DEF Side
    <2>3. a # b
      BY <2>1, <2>2
    <2>4. \A u \in DOMAIN f : f[u][2] = r <=> u = a \/ u = b
      BY <1>1, <2>1, <2>2 DEF Side
    <2>5. WithRole(rows, r) = {a} \cup {b}
      BY <2>4 DEF WithRole
    <2>6. IsFiniteSet({a}) /\ Cardinality({a}) = 1
      BY FS_Singleton
    <2> DEFINE A == {a}
    <2>7. Cardinality(A \cup {b}) = 2
      <3>1. IsFiniteSet(A) /\ Cardinality(A) = 1 /\ b \notin A
        BY <2>3, <2>6
      <3> HIDE DEF A
      <3>2. Cardinality(A \cup {b}) = Cardinality(A) + 1
        BY <3>1, FS_AddElement
      <3> QED
        BY <3>1, <3>2
    <2> QED
      BY <2>5, <2>7
  <1> QED
    BY <1>2, <1>3 DEF Even, Side

-----------------------------------------------------------------------------
(* The steps.                                                              *)

LEMMA RoleByRow ==
  \A rows, r, x : x \in WithRole(rows, r) <=> x \in User /\ rows[x] # Nil /\ rows[x].role = r
  BY DEF WithRole, PlayersOf

\* Once selected, a lineup of all players is what the rows say.
LEMMA ApplyIsEven ==
  ASSUME TypeOK, OptionsFitPlayers, NEW n, ApplyMatchOption(n)
  PROVE  Even(player')
  <1> DEFINE f == options[n]
             rows == Assigned(f)
  <1>1. f \in Lineup /\ DOMAIN f = Players
    BY ApplyTyped DEF ApplyMatchOption, OptionsFitPlayers
  <1>2. RowsOK(rows) /\ PlayersOf(rows) = Players /\ ResetCaptains(rows)
    BY <1>1, AssignedRows DEF ApplyMatchOption
  <1>3. ASSUME NEW u \in Players
        PROVE  rows[u].team = f[u][1] /\ rows[u].role = f[u][2] /\ f[u][1] \in Side
    <2>1. u \in User /\ player[u] \in PlayerRow
      BY RowOfPlayer
    <2>2. rows[u] = [player[u] EXCEPT !.team = f[u][1], !.role = f[u][2]]
      BY <1>1, <2>1 DEF Assigned
    <2>3. f[u] \in Side \X Role
      BY <1>1, LineupAssumption
    <2> QED
      BY <2>1, <2>2, <2>3 DEF PlayerRow
  <1> HIDE DEF rows, f
  <1>4. /\ PlayersOf(player') = Players
        /\ \A s \in Side : Team(player', s) = Team(rows, s)
        /\ \A u \in Players : player'[u].role = rows[u].role
    BY <1>2, ResetKeeps
  <1>5. ASSUME NEW u \in Players
        PROVE  player'[u].team = f[u][1] /\ player'[u].role = f[u][2]
    <2>1. u \in Team(rows, f[u][1])
      BY <1>2, <1>3 DEF Team
    <2>2. u \in Team(player', f[u][1])
      BY <1>3, <1>4, <2>1
    <2> QED
      BY <1>3, <1>4, <2>2 DEF Team
  <1> QED
    BY <1>1, <1>4, <1>5, LineupIsEven

LEMMA SwapPlayersKeepsEven ==
  ASSUME TypeOK, Even(player), NEW p, NEW q, SwapPlayers(p, q)
  PROVE  Even(player')
  <1> DEFINE f == Exchange(p, q)
  <1>1. /\ f \in [User -> User] /\ \A x \in User : f[f[x]] = x
        /\ \A x \in User :
             /\ player'[x] # Nil <=> player[f[x]] # Nil
             /\ player[x] # Nil <=> player[f[x]] # Nil
             /\ player[x] # Nil => /\ player'[x].team = player[f[x]].team
                                   /\ player'[x].role = player[f[x]].role
    BY SwapPlayersRows
  <1> HIDE DEF f
  <1>2. \A x \in User : f[x] \in User
    BY <1>1
  <1>3. \A x \in User, s \in Side : x \in Team(player', s) <=> f[x] \in Team(player, s)
    BY <1>1, <1>2, MemberByRow
  <1>4. \A x \in User, r \in Role : x \in WithRole(player', r) <=> f[x] \in WithRole(player, r)
    BY <1>1, <1>2, RoleByRow
  <1> QED
    BY <1>1, <1>3, <1>4, ExchangeKeepsEven

\* Even when the two are not on one team any more, the roles only change hands.
LEMMA SwapRolesKeepsEven ==
  ASSUME TypeOK, Even(player), NEW p, NEW q, SwapRoles(p, q)
  PROVE  Even(player')
  <1> DEFINE f == Exchange(p, q)
             id == [x \in User |-> x]
  <1>1. p \in Players /\ q \in Players /\ p \in User /\ q \in User
    BY DEF SwapRoles, Players, PlayersOf
  <1>2. f \in [User -> User] /\ \A x \in User : f[f[x]] = x /\ f[x] \in User
    BY <1>1 DEF Exchange
  <1>3. ASSUME NEW x \in User
        PROVE  /\ player'[x] # Nil <=> player[x] # Nil
               /\ player[x] # Nil <=> player[f[x]] # Nil
               /\ player[x] # Nil => /\ player'[x].team = player[x].team
                                     /\ player'[x].role = player[f[x]].role
    <2>1. CASE x = p \/ x = q
      <3>1. player[x] \in PlayerRow /\ player[f[x]] \in PlayerRow
        BY <1>1, <2>1, RowOfPlayer DEF Exchange
      <3>2. player'[x] = [player[x] EXCEPT !.role = player[f[x]].role]
        <4>1. CASE x = p /\ x # q
          BY <1>1, <4>1 DEF SwapRoles, TypeOK, Exchange
        <4>2. CASE x = q /\ x # p
          BY <1>1, <4>2 DEF SwapRoles, TypeOK, Exchange
        <4>3. CASE x = p /\ x = q
          <5>1. player'[x] = [[player[x] EXCEPT !.role = player[x].role]
                               EXCEPT !.role = player[x].role] /\ f[x] = x
            BY <1>1, <4>3 DEF SwapRoles, TypeOK, Exchange
          <5> QED
            BY <3>1, <5>1 DEF PlayerRow
        <4> QED
          BY <2>1, <4>1, <4>2, <4>3
      <3>3. player'[x] \in PlayerRow
        BY <3>1, <3>2 DEF PlayerRow
      <3>4. player'[x] # Nil /\ player[x] # Nil /\ player[f[x]] # Nil
        BY <3>1, <3>3, NilAssumption
      <3>5. player'[x].team = player[x].team /\ player'[x].role = player[f[x]].role
        BY <3>1, <3>2 DEF PlayerRow
      <3> QED
        BY <3>4, <3>5
    <2>2. CASE x # p /\ x # q
      <3>1. player'[x] = player[x] /\ f[x] = x
        BY <1>1, <2>2 DEF SwapRoles, TypeOK, Exchange
      <3> QED
        BY <3>1
    <2> QED
      BY <2>1, <2>2
  <1>4. id \in [User -> User] /\ \A x \in User : id[x] = x /\ id[id[x]] = x
    OBVIOUS
  <1> HIDE DEF f, id
  <1>5. \A x \in User, s \in Side : x \in Team(player', s) <=> id[x] \in Team(player, s)
    BY <1>3, <1>4, MemberByRow
  <1>6. \A x \in User, r \in Role : x \in WithRole(player', r) <=> f[x] \in WithRole(player, r)
    BY <1>2, <1>3, RoleByRow
  <1> QED
    BY <1>2, <1>4, <1>5, <1>6, ExchangeKeepsEven

LEMMA TakeKeepsEven ==
  ASSUME TypeOK, Even(player), NEW u \in User, TakeCaptain(u)
  PROVE  Even(player')
  <1> DEFINE id == [x \in User |-> x]
  <1>1. id \in [User -> User] /\ \A x \in User : id[x] = x /\ id[id[x]] = x
    OBVIOUS
  <1> HIDE DEF id
  <1>2. \A x \in User, s \in Side : x \in Team(player', s) <=> id[x] \in Team(player, s)
    BY <1>1, TakeKeepsRows, MemberByRow
  <1>3. \A x \in User, r \in Role : x \in WithRole(player', r) <=> id[x] \in WithRole(player, r)
    BY <1>1, TakeKeepsRows, RoleByRow
  <1> QED
    BY <1>1, <1>2, <1>3, ExchangeKeepsEven

\* What a step can do to the teams.
LEMMA TeamCases ==
  ASSUME [Next]_vars
  PROVE  \/ UNCHANGED <<selected, player>>
         \/ status = "waiting_for_players" /\ UNCHANGED selected
         \/ UNCHANGED selected /\ \E u \in User : TakeCaptain(u)
         \/ UNCHANGED selected /\ \E p, q : SwapPlayers(p, q) \/ SwapRoles(p, q)
         \/ \E n : ApplyMatchOption(n)
  <1>1. CASE \E u \in User : ApprovePendingAction(u)
    <2>1. ExecutePendingAction
      BY <1>1, Zenon DEF ApprovePendingAction
    <2>2. CASE \E p, q : SwapPlayers(p, q) \/ SwapRoles(p, q)
      <3>1. UNCHANGED selected
        BY <2>2, Zenon DEF SwapPlayers, SwapRoles
      <3> QED
        BY <2>2, <3>1, Zenon
    <2>3. CASE GenerateMatchOptions \/ MakeRoom
      BY <2>3, Zenon DEF GenerateMatchOptions, MakeRoom
    <2>4. CASE ApplyMatchOption(pending.option)
      BY <2>4, Zenon
    <2> QED
      BY <2>1, <2>2, <2>3, <2>4, Zenon DEF ExecutePendingAction
  <1>2. CASE \E u \in User : \/ JoinLobby(u) \/ LeaveLobby(u)
                            \/ \E v \in User : PromoteCaptain(u, v) \/ KickPlayer(u, v)
    BY <1>2, Zenon DEF JoinLobby, LeaveLobby, PromoteCaptain, KickPlayer
  <1>3. CASE \E u \in User : TakeCaptain(u)
    BY <1>3, Zenon DEF TakeCaptain
  <1>4. CASE \E u \in User : \/ GenerateTeams(u) \/ LoadMoreTeams(u) \/ StartDraft(u)
                            \/ CancelPendingAction(u) \/ PendingActionExpires
    BY <1>4, Zenon DEF GenerateTeams, GenerateMatchOptions, LoadMoreTeams, StartDraft, MakeRoom,
       CancelPendingAction, PendingActionExpires
  <1>5. CASE \E u \in User :
               \/ ProposeMatchmake(u) \/ ProposeStartDraft(u)
               \/ \E pq \in Swappable : ProposeSwap(u, pq[1], pq[2])
               \/ \E n \in 1 .. MaxOptions : ProposeSelectOption(u, n)
    BY <1>5, Zenon DEF ProposeMatchmake, ProposeStartDraft, ProposeSwap, ProposeSelectOption, Propose
  <1>6. CASE \E u \in User, n \in 1 .. MaxOptions : SelectMatchOption(u, n)
    BY <1>6, Zenon DEF SelectMatchOption
  <1>7. CASE UNCHANGED vars \/ PendingActionExpires
    BY <1>7, Zenon DEF vars, PendingActionExpires
  <1> QED
    BY <1>1, <1>2, <1>3, <1>4, <1>5, <1>6, <1>7, Zenon DEF Next

LEMMA TeamsStep ==
  ASSUME IInv, TeamsStayEven, [Next]_vars
  PROVE  TeamsStayEven'
  <1>1. TypeOK /\ OptionsFitPlayers /\ NothingYet /\ (selected # Nil => Even(player))
    BY EvenTeams DEF IInv
  <1> SUFFICES selected' # Nil => Even(player')
    BY DEF TeamsStayEven, Even, WithRole, Players
  <1>2. CASE UNCHANGED <<selected, player>>
    BY <1>1, <1>2
  <1>3. CASE status = "waiting_for_players" /\ UNCHANGED selected
    BY <1>1, <1>3 DEF NothingYet
  <1>4. CASE UNCHANGED selected /\ \E u \in User : TakeCaptain(u)
    BY <1>1, <1>4, TakeKeepsEven
  <1>5. CASE UNCHANGED selected /\ \E p, q : SwapPlayers(p, q) \/ SwapRoles(p, q)
    BY <1>1, <1>5, SwapPlayersKeepsEven, SwapRolesKeepsEven
  <1>6. CASE \E n : ApplyMatchOption(n)
    BY <1>1, <1>6, ApplyIsEven
  <1> QED
    BY <1>2, <1>3, <1>4, <1>5, <1>6, TeamCases

\* Whatever swaps are agreed on after a lineup was selected, before it or across another
\* selection, the teams have the same size and every role is taken twice
\* (TeamsStayEven), for any lobby size and any lineups that matchmaking proposes.
THEOREM LobbyTeamsEven == Spec => []TeamsStayEven
  <1>1. Init => TeamsStayEven
    BY DEF Init, TeamsStayEven
  <1> QED
    BY <1>1, InitSafe, StepSafe, TeamsStep, PTL DEF Spec
=============================================================================

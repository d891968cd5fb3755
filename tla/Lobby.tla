-------------------------------- MODULE Lobby --------------------------------
(***************************************************************************)
(* LobbyService (lobby_service.go): one lobby, from its creation to the    *)
(* room of its draft.  The variables are the rows of the database that     *)
(* belong to it; a request is one step, as if it ran in a transaction.     *)
(* Voting, and the flag IsReady, which no request reads, are left out.     *)
(***************************************************************************)
EXTENDS Naturals, Sequences, FiniteSets, Functions

Side == {"blue", "red"}
OtherSide(s) == IF s = "blue" THEN "red" ELSE "blue"

CONSTANTS User,
          Role,
          MaxLobbyPlayers,
          Lineup,      \* what matchmaking may propose: player -> <<team, role>>
          MaxOptions,  \* bound on the options of the lobby
          Swappable,   \* the pairs of players whose swap is proposed
          Nil

ASSUME LobbyAssumption ==
  /\ IsFiniteSet(User)
  /\ Role # {}
  /\ MaxLobbyPlayers \in Nat \ {0}
  /\ MaxOptions \in Nat
  /\ Swappable \subseteq User \X User

\* A lineup fills every role of both teams, each with another player.
ASSUME LineupAssumption ==
  \A f \in Lineup : /\ DOMAIN f \subseteq User
                    /\ f \in [DOMAIN f -> Side \X Role]
                    /\ IsInjective(f)
                    /\ Range(f) = Side \X Role

Status == {"waiting_for_players", "matchmaking", "team_selected", "drafting"}
PlayerRow == [team : Side, role : Role \cup {Nil}, captain : BOOLEAN,
              order : 0 .. MaxLobbyPlayers - 1]
ActionType == {"swap_players", "swap_roles", "matchmake", "select_option", "start_draft"}
PendingAction ==
  [type : ActionType, by : User, side : Side,
   pair : (User \X User) \cup {Nil}, option : Nat \cup {Nil}]

ASSUME NilAssumption ==
  Nil \notin User \cup Role \cup Nat \cup PlayerRow \cup PendingAction

VARIABLES status,    \* lobby.Status
          selected,  \* lobby.SelectedMatchOption
          player,    \* user -> lobby_players row, or Nil
          options,   \* match_options, by option number
          pending,   \* the pending action that has not expired, or Nil
          room       \* the last room made for the lobby, or Nil

vars == <<status, selected, player, options, pending, room>>

\* The operators below look at any table of rows, not only at the current one.
PlayersOf(rows) == {u \in User : rows[u] # Nil}
Team(rows, s) == {u \in PlayersOf(rows) : rows[u].team = s}
Captains(rows, s) == {u \in Team(rows, s) : rows[u].captain}
FirstOf(rows, S) == {u \in S : \A v \in S : rows[u].order <= rows[v].order}
OrNil(S) == IF S = {} THEN {Nil} ELSE S

Players == PlayersOf(player)
IsCaptain(u) == u \in Players /\ player[u].captain
LobbyFull == Cardinality(Players) = MaxLobbyPlayers

Init ==
  /\ status = "waiting_for_players"
  /\ selected = Nil
  /\ \E creator \in User :
       player = [u \in User |-> IF u = creator
                                THEN [team |-> "blue", role |-> Nil,
                                      captain |-> TRUE, order |-> 0]
                                ELSE Nil]
  /\ options = << >>
  /\ pending = Nil
  /\ room = Nil

-----------------------------------------------------------------------------
\* Membership and captains.

SmallerSides ==
  {s \in Side : Cardinality(Team(player, s)) <= Cardinality(Team(player, OtherSide(s)))}

\* Faulty form of JoinLobby: the newcomer is counted before the order is given.
JoinLobbyCountsItself(u) ==
  /\ status = "waiting_for_players"
  /\ u \notin Players
  /\ Cardinality(Players) < MaxLobbyPlayers
  /\ \E s \in SmallerSides :
       player' = [player EXCEPT ![u] = [team |-> s, role |-> Nil,
                                        captain |-> Captains(player, s) = {},
                                        order |-> Cardinality(Players) + 1]]
  /\ UNCHANGED <<status, selected, options, pending, room>>

JoinLobby(u) ==
  /\ status = "waiting_for_players"
  /\ u \notin Players
  /\ Cardinality(Players) < MaxLobbyPlayers
  /\ \E s \in SmallerSides :
       player' = [player EXCEPT ![u] = [team |-> s, role |-> Nil,
                                        captain |-> Captains(player, s) = {},
                                        order |-> Cardinality(Players)]]
  /\ UNCHANGED <<status, selected, options, pending, room>>

\* Faulty form of LeaveLobby: the successor is looked for in both teams.
LeaveLobbyToAnyone(u) ==
  /\ status = "waiting_for_players"
  /\ u \in Players
  /\ LET heirs == FirstOf(player, Players \ {u})
     IN IF IsCaptain(u) /\ heirs # {}
        THEN \E v \in heirs : player' = [player EXCEPT ![v].captain = TRUE, ![u] = Nil]
        ELSE player' = [player EXCEPT ![u] = Nil]
  /\ UNCHANGED <<status, selected, options, pending, room>>

\* A captain who leaves is succeeded by the first of the team to have joined.
LeaveLobby(u) ==
  /\ status = "waiting_for_players"
  /\ u \in Players
  /\ LET heirs == FirstOf(player, Team(player, player[u].team) \ {u})
     IN IF IsCaptain(u) /\ heirs # {}
        THEN \E v \in heirs : player' = [player EXCEPT ![v].captain = TRUE, ![u] = Nil]
        ELSE player' = [player EXCEPT ![u] = Nil]
  /\ UNCHANGED <<status, selected, options, pending, room>>

TakeCaptain(u) ==
  /\ status # "drafting"
  /\ u \in Players
  /\ ~IsCaptain(u)
  /\ LET old == Captains(player, player[u].team)
     IN \E v \in IF old = {} THEN {u} ELSE old :
          player' = [player EXCEPT ![v].captain = FALSE, ![u].captain = TRUE]
  /\ UNCHANGED <<status, selected, options, pending, room>>

Teammates(c, u) == c \in Players /\ u \in Players /\ player[c].team = player[u].team

PromoteCaptain(c, u) ==
  /\ status = "waiting_for_players"
  /\ IsCaptain(c)
  /\ Teammates(c, u)
  /\ player' = [player EXCEPT ![c].captain = FALSE, ![u].captain = TRUE]
  /\ UNCHANGED <<status, selected, options, pending, room>>

\* Faulty form of KickPlayer: the status of the lobby is not looked at.
KickPlayerAnyTime(c, u) ==
  /\ IsCaptain(c)
  /\ c # u
  /\ Teammates(c, u)
  /\ player' = [player EXCEPT ![u] = Nil]
  /\ UNCHANGED <<status, selected, options, pending, room>>

KickPlayer(c, u) ==
  /\ status = "waiting_for_players"
  /\ IsCaptain(c)
  /\ c # u
  /\ Teammates(c, u)
  /\ player' = [player EXCEPT ![u] = Nil]
  /\ UNCHANGED <<status, selected, options, pending, room>>

-----------------------------------------------------------------------------
\* What the actions of captains do, alone or after two consents.

\* Lists of different lineups of the present players, none of which is in use.
OptionLists(used) ==
  LET fits == {f \in Lineup \ used : DOMAIN f = Players}
  IN {os \in UNION {[1 .. n -> fits] : n \in 0 .. MaxOptions} : IsInjective(os)}

GenerateMatchOptions ==
  /\ LobbyFull
  /\ \E os \in OptionLists({}) : os # << >> /\ options' = os
  /\ status' = "matchmaking"
  /\ UNCHANGED <<selected, player, room>>

\* UpdateTeamAssignments writes the rows of those who are still in the lobby.
Assigned(f) ==
  [u \in User |-> IF u \in Players \cap DOMAIN f
                  THEN [player[u] EXCEPT !.team = f[u][1], !.role = f[u][2]]
                  ELSE player[u]]

\* resetCaptainsAfterTeamAssignment: on each team the first who joined leads.
ResetCaptains(rows) ==
  \E b \in OrNil(FirstOf(rows, Team(rows, "blue"))),
     r \in OrNil(FirstOf(rows, Team(rows, "red"))) :
    player' = [u \in User |-> IF u \in Players
                              THEN [rows[u] EXCEPT !.captain = (u \in {b, r})]
                              ELSE Nil]

ApplyMatchOption(n) ==
  /\ status = "matchmaking"
  /\ n \in DOMAIN options
  /\ ResetCaptains(Assigned(options[n]))
  /\ selected' = n
  /\ status' = "team_selected"
  /\ UNCHANGED <<options, room>>

\* Faulty form of MakeRoom: teams and roles are read from the selected option.
MakeRoomFromOption ==
  /\ status = "team_selected"
  /\ selected \in DOMAIN options
  /\ \E b \in OrNil(Captains(player, "blue")), r \in OrNil(Captains(player, "red")) :
       room' = [seat |-> [s \in Side |-> IF s = "blue" THEN b ELSE r],
                roster |-> [u \in Players |->
                              [team |-> options[selected][u][1],
                               role |-> options[selected][u][2],
                               captain |-> player[u].captain]]]
  /\ status' = "drafting"
  /\ UNCHANGED <<selected, player, options>>

\* The room's players are those of the lobby as they are now, not as in the option.
MakeRoom ==
  /\ status = "team_selected"
  /\ selected \in DOMAIN options
  /\ \E b \in OrNil(Captains(player, "blue")), r \in OrNil(Captains(player, "red")) :
       room' = [seat |-> [s \in Side |-> IF s = "blue" THEN b ELSE r],
                roster |-> [u \in {v \in Players : player[v].role # Nil} |->
                              [team |-> player[u].team, role |-> player[u].role,
                               captain |-> player[u].captain]]]
  /\ status' = "drafting"
  /\ UNCHANGED <<selected, player, options>>

\* Faulty form of SwapPlayers: the second team is read after the first was written.
SwapPlayersOneTeam(p, q) ==
  /\ {p, q} \subseteq Players
  /\ player' = [player EXCEPT ![p] = [player[q] EXCEPT !.order = player[p].order],
                              ![q] = [player[p] EXCEPT !.order = player[q].order,
                                                       !.team = player[q].team]]
  /\ UNCHANGED <<status, selected, options, room>>

\* Team, role and captaincy change hands; the captain's place stays with the team.
SwapPlayers(p, q) ==
  /\ {p, q} \subseteq Players
  /\ player' = [player EXCEPT ![p] = [player[q] EXCEPT !.order = player[p].order],
                              ![q] = [player[p] EXCEPT !.order = player[q].order]]
  /\ UNCHANGED <<status, selected, options, room>>

SwapRoles(p, q) ==
  /\ {p, q} \subseteq Players
  /\ player' = [player EXCEPT ![p].role = player[q].role, ![q].role = player[p].role]
  /\ UNCHANGED <<status, selected, options, room>>

-----------------------------------------------------------------------------
\* One captain alone.

GenerateTeams(c) ==
  /\ IsCaptain(c)
  /\ GenerateMatchOptions
  /\ UNCHANGED pending

LoadMoreTeams(c) ==
  /\ IsCaptain(c)
  /\ status = "matchmaking"
  /\ LobbyFull
  /\ \E os \in OptionLists(Range(options)) :
       Len(options) + Len(os) <= MaxOptions /\ options' = options \o os
  /\ UNCHANGED <<status, selected, player, pending, room>>

SelectMatchOption(c, n) == IsCaptain(c) /\ ApplyMatchOption(n) /\ UNCHANGED pending

StartDraft(c) == IsCaptain(c) /\ MakeRoom /\ UNCHANGED pending

-----------------------------------------------------------------------------
\* Two captains: one proposes, the other approves.

Propose(c, type, pair, option) ==
  /\ pending = Nil
  /\ IsCaptain(c)
  /\ pending' = [type |-> type, by |-> c, side |-> player[c].team,
                 pair |-> pair, option |-> option]
  /\ UNCHANGED <<status, selected, player, options, room>>

\* Roles are swapped inside a team, players between the teams.
ProposeSwap(c, p, q) ==
  /\ status # "drafting"
  /\ {p, q} \subseteq Players
  /\ Propose(c, IF Teammates(p, q) THEN "swap_roles" ELSE "swap_players", <<p, q>>, Nil)

ProposeMatchmake(c) ==
  /\ status = "waiting_for_players"
  /\ LobbyFull
  /\ Propose(c, "matchmake", Nil, Nil)

ProposeSelectOption(c, n) ==
  /\ status = "matchmaking"
  /\ n \in DOMAIN options
  /\ Propose(c, "select_option", Nil, n)

ProposeStartDraft(c) ==
  /\ status = "team_selected"
  /\ Propose(c, "start_draft", Nil, Nil)

\* What cannot be executed is not approved either, and stays pending.
ExecutePendingAction ==
  \/ pending.type = "swap_players" /\ SwapPlayers(pending.pair[1], pending.pair[2])
  \/ pending.type = "swap_roles" /\ SwapRoles(pending.pair[1], pending.pair[2])
  \/ /\ pending.type = "matchmake"
     /\ status = "waiting_for_players"
     /\ GenerateMatchOptions
  \/ pending.type = "select_option" /\ ApplyMatchOption(pending.option)
  \/ pending.type = "start_draft" /\ MakeRoom

\* The proposing side has approved by proposing, so that the other one is the second.
ApprovePendingAction(c) ==
  /\ pending # Nil
  /\ IsCaptain(c)
  /\ player[c].team # pending.side
  /\ ExecutePendingAction
  /\ pending' = Nil

CancelPendingAction(c) ==
  /\ pending # Nil
  /\ IsCaptain(c)
  /\ pending' = Nil
  /\ UNCHANGED <<status, selected, player, options, room>>

\* The five minutes of the pending action are over: no request finds it any more.
PendingActionExpires ==
  /\ pending # Nil
  /\ pending' = Nil
  /\ UNCHANGED <<status, selected, player, options, room>>

Next ==
  \/ PendingActionExpires
  \/ \E u \in User :
       \/ JoinLobby(u)
       \/ LeaveLobby(u)
       \/ TakeCaptain(u)
       \/ GenerateTeams(u)
       \/ LoadMoreTeams(u)
       \/ StartDraft(u)
       \/ ProposeMatchmake(u)
       \/ ProposeStartDraft(u)
       \/ ApprovePendingAction(u)
       \/ CancelPendingAction(u)
       \/ \E v \in User : PromoteCaptain(u, v) \/ KickPlayer(u, v)
       \/ \E pq \in Swappable : ProposeSwap(u, pq[1], pq[2])
       \/ \E n \in 1 .. MaxOptions : SelectMatchOption(u, n) \/ ProposeSelectOption(u, n)

Spec == Init /\ [][Next]_vars

-----------------------------------------------------------------------------
\* Every row, pending action and room has the shape that its table gives it.
TypeOK ==
  /\ status \in Status
  /\ selected \in Nat \cup {Nil}
  /\ player \in [User -> PlayerRow \cup {Nil}]
  /\ options \in Seq(Lineup)
  /\ pending \in PendingAction \cup {Nil}

\* A team with players has exactly one captain, through joins, leaves, kicks, swaps and
\* new lineups: with none nobody could approve for it, with two nobody would know who
\* does ("exactly one captain per team", resetCaptainsAfterTeamAssignment).
OneCaptainPerTeam ==
  \A s \in Side : Team(player, s) # {} => \E u \in User : Captains(player, s) = {u}

\* Every option that can still be selected names all players of the lobby: applying it
\* leaves nobody without a team of the match, whoever left and joined before.
OptionsFitPlayers == \A n \in DOMAIN options : DOMAIN options[n] = Players

\* Once a lineup has been selected the teams have the same size and every role is taken
\* twice in the lobby, whatever swaps were agreed on before and since.
TeamsStayEven ==
  selected # Nil =>
    /\ Cardinality(Team(player, "blue")) = Cardinality(Team(player, "red"))
    /\ \A r \in Role : Cardinality({u \in Players : player[u].role = r}) = 2

\* The captains' seats of the room are held by players of its roster, each on the side
\* of the seat, and everyone who is in the lobby has a place in the room.
RoomIsComplete ==
  room # Nil =>
    /\ DOMAIN room.roster = Players
    /\ \A s \in Side : /\ room.seat[s] \in DOMAIN room.roster
                       /\ room.roster[room.seat[s]].team = s
                       /\ room.roster[room.seat[s]].captain

\* Stated by ProposeSwap: swaps are "not during drafting or completed".
NoSwapInDraft == [][status = "drafting" => player' = player]_vars

\* Stated by ErrCannotApproveOwn: "cannot approve your own proposal".
NobodyApprovesOwn == [][\A c \in User : ApprovePendingAction(c) => c # pending.by]_vars
=============================================================================

------------------------------ MODULE LobbyLive ------------------------------
(***************************************************************************)
(* A full lobby while its teams are chosen: the handlers of handlers/      *)
(* lobby.go with the service and matchmaking below them, and the live      *)
(* object LobbyHub keeps beside the database.  Votes are kept in both      *)
(* places.  A captain's request is one step, a vote is several; members    *)
(* and captains, Lobby's subject, do not change here.                      *)
(***************************************************************************)
EXTENDS Matchmaking, LobbyHub, SequencesExt

CONSTANTS Here,        \* the lobby
          Captain,     \* the players who are captains
          VotingMode,     \* what the lobby may have
          VotingEnabled,  \* been created with
          Ballot,      \* the votes asked for: <<player, option number>>
          Request      \* the requests to vote that may be under way at once

\* How far a vote is, and whether it found a row to take back.
Work == [ballot : Ballot, at : {"write", "find", "toggle", "orphan"}, voted : BOOLEAN]

ASSUME LobbyLiveAssumption ==
  /\ Here \in Lobby
  /\ Captain \subseteq Player
  /\ VotingMode \subseteq {"majority", "unanimous", "captain_override"}
  /\ VotingEnabled \subseteq BOOLEAN
  /\ Ballot \subseteq Player \X (Nat \ {0})
  /\ IsFiniteSet(Ballot) /\ IsFiniteSet(Request)
  /\ Nil \notin Work \cup LiveObject(Ballot)

VARIABLES status,    \* lobby.Status
          selected,  \* lobby.SelectedMatchOption
          mode,      \* lobby.VotingMode
          enabled,   \* lobby.VotingEnabled
          votes,     \* ballot -> how many rows the table votes has of it
          request    \* request -> the vote it is about and how far it is, or Nil

dbVars == <<options, status, selected, mode, enabled, votes>>
vars == <<hubVars, left, live, dbVars, request>>

TypeOK ==
  /\ HubTypeOK(Ballot)
  /\ options \in Seq([lineup : BaseOptions, threshold : Int])
  /\ status \in {"waiting_for_players", "matchmaking", "team_selected", "drafting"}
  /\ selected \in Nat \cup {Nil}
  /\ mode \in VotingMode
  /\ enabled \in BOOLEAN
  /\ votes \in [Ballot -> 0 .. Cardinality(Request)]
  /\ request \in [Request -> Work \cup {Nil}]

\* A lobby that has its players, or its first options already.
Init ==
  /\ HubInit
  /\ \/ options = << >> /\ status = "waiting_for_players"
     \/ options \in FirstOptions /\ status = "matchmaking"
  /\ selected = Nil
  /\ mode \in VotingMode
  /\ enabled \in VotingEnabled
  /\ votes = [b \in Ballot |-> 0]
  /\ request = [q \in Request |-> Nil]

-----------------------------------------------------------------------------
\* The hub, which may delete an object that a request has just found.

RequestsGoOn ==
  /\ request' = [q \in Request |->
                   IF /\ request[q] # Nil /\ request[q].at = "toggle"
                      /\ live[Here] # Nil /\ live'[Here] = Nil
                   THEN [request[q] EXCEPT !.at = "orphan"] ELSE request[q]]
  /\ UNCHANGED dbVars

HubStep == HubNext /\ RequestsGoOn

-----------------------------------------------------------------------------
\* A vote: LobbyService.CastVote, then LobbyHub.BroadcastVoteToggle.

\* CastVote's checks, and its look at the vote there is.
ReadVote(q, b) ==
  /\ request[q] = Nil
  /\ left > 0
  /\ enabled
  /\ status = "matchmaking"
  /\ b[2] \in DOMAIN options
  /\ request' = [request EXCEPT ![q] = [ballot |-> b, at |-> "write", voted |-> votes[b] > 0]]
  /\ left' = left - 1
  /\ UNCHANGED <<hubVars, live, dbVars>>

\* Faulty form of CastVote: a second vote does not take the first one back.
WriteVoteAgain(q) ==
  /\ request[q] # Nil /\ request[q].at = "write"
  /\ votes' = [votes EXCEPT ![request[q].ballot] = @ + 1]
  /\ request' = [request EXCEPT ![q].at = "find"]
  /\ UNCHANGED <<hubVars, live, options, status, selected, mode, enabled, left>>

\* CastVote deletes the vote it saw, or creates one.
WriteVote(q) ==
  /\ request[q] # Nil /\ request[q].at = "write"
  /\ votes' = [votes EXCEPT ![request[q].ballot] = IF request[q].voted THEN 0 ELSE @ + 1]
  /\ request' = [request EXCEPT ![q].at = "find"]
  /\ UNCHANGED <<hubVars, live, options, status, selected, mode, enabled, left>>

\* GetLobbyState makes the object if there is none.
FindState(q) ==
  /\ request[q] # Nil /\ request[q].at = "find"
  /\ live' = [live EXCEPT ![Here] = LobbyState(Here)]
  /\ request' = [request EXCEPT ![q].at = "toggle"]
  /\ UNCHANGED <<hubVars, dbVars, left>>

\* Faulty form of ToggleVote: LobbyState.CastVote, which always adds.
ToggledOnce(voters, b) == voters \cup {b}

Toggled(voters, b) == IF b \in voters THEN voters \ {b} ELSE voters \cup {b}

\* ToggleVote, on the object that was found.
ToggleVote(q) ==
  /\ request[q] # Nil /\ request[q].at \in {"toggle", "orphan"}
  /\ live' = IF request[q].at = "orphan" THEN live
             ELSE [live EXCEPT ![Here].votes = Toggled(@, request[q].ballot)]
  /\ request' = [request EXCEPT ![q] = Nil]
  /\ UNCHANGED <<hubVars, dbVars, left>>

-----------------------------------------------------------------------------
\* The result of a vote.

TotalVotes == MapThenSumSet(LAMBDA b : votes[b], Ballot)

VoteCount(n) == MapThenSumSet(LAMBDA b : votes[b], {b \in Ballot : b[2] = n})

Counted == {b[2] : b \in {c \in Ballot : votes[c] > 0}}

Tally == [max : Nat, winner : Nat \cup {Nil}, tied : SUBSET Nat]

\* Faulty form of the count: ties go to whoever is counted last.
CountedToLast(a, n) ==
  IF VoteCount(n) >= a.max
  THEN [max |-> VoteCount(n), winner |-> n, tied |-> {n}] ELSE a

\* One turn of calculateVotingResult's loop over the map of counts.
CountedTo(a, n) ==
  IF VoteCount(n) > a.max
  THEN [max |-> VoteCount(n), winner |-> n, tied |-> {n}]
  ELSE IF VoteCount(n) = a.max THEN [a EXCEPT !.tied = @ \cup {n}] ELSE a

\* The winner, when the map is ranged over in the given order.
WinnerInOrder(order) ==
  LET t == FoldLeft(CountedTo, [max |-> 0, winner |-> Nil, tied |-> {}], order)
  IN IF Cardinality(t.tied) > 1 THEN Min(t.tied) ELSE t.winner

MostVotes == Max({0} \cup {VoteCount(n) : n \in Counted})

CanFinalize ==
  /\ TotalVotes > 0
  /\ IF mode = "unanimous"
     THEN MostVotes = TotalVotes /\ TotalVotes = Cardinality(Player)
     ELSE MostVotes > Cardinality(Player) \div 2

-----------------------------------------------------------------------------
\* The captains' requests.

AskedBy(u) ==
  /\ u \in Captain
  /\ left > 0
  /\ left' = left - 1
  /\ UNCHANGED <<hubVars, live, request, mode>>

\* Whatever the status, a lobby that is full is put back to matchmaking.
GenerateTeams(u) ==
  /\ AskedBy(u)
  /\ GenerateMatchOptions
  /\ status' = "matchmaking"
  /\ UNCHANGED <<selected, enabled, votes>>

LoadMoreTeams(u) ==
  /\ AskedBy(u)
  /\ status = "matchmaking"
  /\ GenerateMoreMatchOptions
  /\ UNCHANGED <<status, selected, enabled, votes>>

StartVoting(u) ==
  /\ AskedBy(u)
  /\ status = "matchmaking"
  /\ votes' = [b \in Ballot |-> 0]
  /\ enabled' = TRUE
  /\ UNCHANGED <<options, status, selected>>

\* Both SelectMatchOption and applyMatchOption.
Select(n) ==
  /\ status = "matchmaking"
  /\ n \in DOMAIN options
  /\ selected' = n
  /\ status' = "team_selected"

SelectOption(u, n) ==
  /\ AskedBy(u)
  /\ Select(n)
  /\ UNCHANGED <<options, enabled, votes>>

\* A forced option counts in captain_override only, where the criteria of the
\* vote do not.  VotingEnabled stays set: the change is not saved.
EndVoting(u, force) ==
  /\ AskedBy(u)
  /\ enabled
  /\ IF force # Nil /\ mode = "captain_override" THEN Select(force)
     ELSE /\ CanFinalize \/ mode = "captain_override"
          /\ Counted # {}
          /\ \E order \in SetToSeqs(Counted) : Select(WinnerInOrder(order))
  /\ votes' = [b \in Ballot |-> 0]
  /\ UNCHANGED <<options, enabled>>

CaptainStep(u) ==
  \/ GenerateTeams(u) \/ LoadMoreTeams(u) \/ StartVoting(u)
  \/ \E n \in DOMAIN options : SelectOption(u, n)
  \/ \E force \in {b[2] : b \in Ballot} \cup {Nil} : EndVoting(u, force)

VoteStep(q) ==
  \/ \E b \in Ballot : ReadVote(q, b)
  \/ WriteVote(q) \/ FindState(q) \/ ToggleVote(q)

Next ==
  \/ HubStep
  \/ \E q \in Request : VoteStep(q)
  \/ \E u \in Player : CaptainStep(u)

\* Nobody has to vote or to ask for anything.
Spec == Init /\ [][Next]_vars /\ HubFairness

-----------------------------------------------------------------------------
\* Properties.

\* The requests that have changed the rows of b and not yet the live votes.
Pending(b) ==
  {q \in Request : request[q] # Nil /\ request[q].ballot = b
                   /\ request[q].at \in {"find", "toggle", "orphan"}}

\* The live votes and the rows disagree about b, what is under way apart.
Differ(b) ==
  ((votes[b] > 0) # (live[Here] # Nil /\ b \in live[Here].votes))
    # (Cardinality(Pending(b)) % 2 = 1)

\* Live votes and database part ways in three cases only: the live object goes
\* (a last client who leaves, an object that is an orphan by the time of the
\* toggle), the rows are cleared at the start or the end of a vote, or the same
\* ballot is cast twice at once, so that CastVote writes by what it saw before
\* the other one wrote.  Otherwise every toggle is one in both places.
VotesDriftOnlyThen ==
  [][\A b \in Ballot : Differ(b) # Differ(b)' =>
       \/ live[Here] # Nil /\ live'[Here] = Nil
       \/ \E q \in Request : request[q] # Nil /\ request[q].at = "orphan"
       \/ request' = request /\ votes' # votes /\ \A c \in Ballot : votes'[c] = 0
       \/ \E q \in Request : /\ request[q] # Nil /\ request[q].at = "write"
                           /\ request[q].ballot = b
                           /\ request[q].voted # (votes[b] > 0)]_vars

\* The winner does not depend on the order in which Go ranges over the map of
\* counts: it is the lowest of the options with the most votes.
WinnerIsDefinite ==
  \A order \in SetToSeqs(Counted) :
    Counted # {} => WinnerInOrder(order) = Min({n \in Counted : VoteCount(n) = MostVotes})

\* "unanimous" is "100% required" (domain/vote.go): the vote can be finalized
\* when everybody has voted for the winner.
UnanimousMeansAll ==
  mode = "unanimous" /\ CanFinalize =>
    \A n \in Counted : VoteCount(n) = MostVotes =>
      \A u \in Player : <<u, n>> \in Ballot /\ votes[<<u, n>>] > 0
=============================================================================

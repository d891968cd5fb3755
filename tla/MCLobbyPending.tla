--------------------------- MODULE MCLobbyPending ---------------------------
(* LobbyPending with small tables: four players of two roles, two captains.  *)
EXTENDS LobbyPending, TLC

CONSTANTS p1, p2, p3, p4, top, mid

MCRate(mmr, comfort) == [mmr |-> mmr, comfort |-> comfort]

\* The most comfortable lineups are the least balanced ones.
MCProfile ==
  p1 :> (top :> MCRate(1100, 2) @@ mid :> MCRate(2050, 3)) @@
  p2 :> (top :> MCRate(2200, 3) @@ mid :> MCRate(1100, 5)) @@
  p3 :> (top :> MCRate(1050, 2) @@ mid :> MCRate(1950, 4)) @@
  p4 :> (top :> MCRate(1500, 5) @@ mid :> MCRate(1900, 5))

\* A tie, a lead, a change of mind and a double click are possible.
MCBallot == {<<p1, 1>>, <<p2, 2>>}

MCTeamOf == p1 :> "blue" @@ p3 :> "red"

MCProposal ==
  {[kind |-> k, option |-> Nil] : k \in {"swap", "matchmake", "start_draft"}}
  \cup {[kind |-> "select_option", option |-> 1]}
=============================================================================

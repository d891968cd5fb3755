----------------------------- MODULE MCLobbyLive -----------------------------
(* LobbyLive with two players of one role, who vote in a hurry. *)
EXTENDS LobbyLive, TLC

CONSTANTS p1, p2, top

MCRate(mmr, comfort) == [mmr |-> mmr, comfort |-> comfort]

MCProfile == p1 :> (top :> MCRate(1000, 3)) @@ p2 :> (top :> MCRate(1100, 3))

MCBallot == {<<p1, 1>>, <<p2, 1>>, <<p2, 2>>}
=============================================================================

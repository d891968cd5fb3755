------------------------------- MODULE MCLobby -------------------------------
(* Constants for the runs of Lobby: teams of two. *)
EXTENDS Lobby

CONSTANTS u1, u2, u3, u4

\* The players of blue top, blue mid, red top and red mid.
TwoPerTeam(a, b, c, d) ==
  [u \in {a, b, c, d} |->
     CASE u = a -> <<"blue", "top">>
       [] u = b -> <<"blue", "mid">>
       [] u = c -> <<"red", "top">>
       [] u = d -> <<"red", "mid">>]

\* u1 and u2 play together in the one and against each other in the other.
FewLineups == {TwoPerTeam(u1, u2, u3, u4), TwoPerTeam(u3, u1, u4, u2)}

SwapPairs == {<<u1, u2>>, <<u1, u3>>}

\* The players come in one order; who comes back comes back as the last of four.
Arrival(u) == CASE u = u1 -> 0 [] u = u2 -> 1 [] u = u3 -> 2 [] u = u4 -> 3

ComeBackLast == \A u \in Players : player[u].order \in {3, Arrival(u)}

\* A lobby whose draft has begun is not followed through a second matchmaking.
OneDraft == room # Nil => status = "drafting"
=============================================================================

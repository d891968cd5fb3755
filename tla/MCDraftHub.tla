----------------------------- MODULE MCDraftHub -----------------------------
(* Constants for the runs of DraftHub: a duel, open to everyone, and a team   *)
(* draft in which u1 is a captain and u2 does not play.                       *)
EXTENDS DraftHub, TLC

CONSTANTS c1, c2, u1, u2, duel, five

MCUserOf == (c1 :> u1) @@ (c2 :> u2)

MCRoomPlayer ==
  (duel :> [u \in User |-> Nil])
  @@ (five :> (u1 :> [team |-> "blue", captain |-> TRUE] @@ u2 :> Nil))
=============================================================================

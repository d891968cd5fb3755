---------------------------- MODULE MCDraftRoom ----------------------------
(* Constants for the runs of DraftRoom. *)
EXTENDS DraftRoom, TLC

CONSTANTS c1, c2, c3

\* One ban and two picks of the same side: the smallest table with an array of two.
ShortPhases == << <<"blue", "ban">>, <<"red", "pick">>, <<"red", "pick">> >>

TwoPhases == << <<"blue", "ban">>, <<"red", "pick">> >>

\* The full table is explored with at most one lost timer and one waiting callback.
FewStrays ==
  /\ Cardinality(orphans) <= 1
  /\ Cardinality({p \in PhaseIndex : fired[p] > 0}) <= 1

Champions == Permutations(Champion)
=============================================================================

----------------------------- MODULE DraftSpec -----------------------------
(***************************************************************************)
(* What a draft room promises its two teams, with no sockets, timers,      *)
(* locks or arrays: the draft is one list in the order of the phase table. *)
(* It grows by one entry at a time and never while the draft is paused; an *)
(* agreed edit changes one entry that exists; nothing is ever removed.     *)
(***************************************************************************)
EXTENDS Naturals, Sequences

CONSTANTS Champion,  \* the champions of the game
          None,      \* what a missed ban records
          Total      \* the length of the phase table

VARIABLES draft,     \* the champions recorded so far, in phase order
          frozen     \* the draft is paused

specVars == <<draft, frozen>>

Init == draft = << >> /\ frozen = FALSE

\* The side whose turn it is, or its clock, fills the next phase.
Fill ==
  /\ ~frozen
  /\ Len(draft) < Total
  /\ \E c \in Champion \cup {None} : draft' = Append(draft, c)
  /\ UNCHANGED frozen

\* One entry that was recorded before is replaced by a champion.
Amend ==
  /\ \E i \in 1 .. Len(draft), c \in Champion : draft' = [draft EXCEPT ![i] = c]
  /\ UNCHANGED frozen

\* A draft that is over is neither paused nor resumed.
Freeze ==
  /\ Len(draft) < Total
  /\ frozen' = ~frozen
  /\ UNCHANGED draft

Next == Fill \/ Amend \/ Freeze

Spec == Init /\ [][Next]_specVars
=============================================================================

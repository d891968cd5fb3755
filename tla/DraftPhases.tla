---------------------------- MODULE DraftPhases ----------------------------
(***************************************************************************)
(* The vocabulary of a champion draft: two sides, two kinds of action, and *)
(* the order in which the sides act.  A phase is the pair <<team, action>> *)
(* that domain.Phase carries; its position in the table is its index.  The *)
(* room is specified for any table; ProPlayPhases is the one that the      *)
(* server runs.                                                            *)
(***************************************************************************)
EXTENDS Naturals, Sequences, FiniteSets

Side == {"blue", "red"}
ActionType == {"ban", "pick"}

\* A phase, and also the name of the array (BlueBans, RedPicks, ...) it fills.
Kind == Side \X ActionType

CONSTANTS Phases,    \* the phase table, in order of play
          Champion,  \* the ids that championRepo knows
          None,      \* the id "None" of a skipped ban or an impossible pick
          Nil        \* the nil pointer: no hover, no pending edit, no proposal

ASSUME PhasesAssumption == Phases \in Seq(Kind) /\ Len(Phases) > 0
ASSUME ChampionAssumption == None \notin Champion /\ Nil \notin Champion /\ Nil # None

TotalPhases == Len(Phases)
PhaseIndex == 0 .. TotalPhases - 1

\* What an array of the draft may hold.
Entry == Champion \cup {None}

\* The table of the server.
ProPlayPhases ==
  LET B(action) == <<"blue", action>>
      R(action) == <<"red", action>>
  IN  << B("ban"), R("ban"), B("ban"), R("ban"), B("ban"), R("ban"),
         B("pick"), R("pick"), R("pick"), B("pick"), B("pick"), R("pick"),
         R("ban"), B("ban"), R("ban"), B("ban"),
         R("pick"), B("pick"), B("pick"), R("pick") >>

\* How many of the first n phases fill the array k.
CountOf(k, n) == Cardinality({j \in 1 .. n : Phases[j] = k})
=============================================================================

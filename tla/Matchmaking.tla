----------------------------- MODULE Matchmaking -----------------------------
(***************************************************************************)
(* MatchmakingService (matchmaking_service.go): the options offered to a   *)
(* full lobby.  An option is a lineup, who plays which role in which team; *)
(* the code's floats are scaled by 10000.  Two captains' requests do not   *)
(* interleave, and nobody edits a profile meanwhile.                       *)
(***************************************************************************)
EXTENDS Integers, Sequences, FiniteSets, FiniteSetsExt, Functions

CONSTANTS Player,
          Role,
          Profile,    \* player -> role -> [mmr, comfort]
          BatchSize,  \* the handlers ask for so many options
          InitialMmrThreshold, MmrThresholdIncrement, MaxMmrThreshold

ASSUME MatchmakingAssumption ==
  /\ IsFiniteSet(Player) /\ IsFiniteSet(Role)
  /\ Role # {} /\ Cardinality(Player) = 2 * Cardinality(Role)
  /\ Profile \in [Player -> [Role -> [mmr : Nat, comfort : 1 .. 5]]]
  /\ BatchSize \in Nat \ {0}
  /\ InitialMmrThreshold \in Nat
  /\ MmrThresholdIncrement \in Nat \ {0}
  /\ MaxMmrThreshold \in Nat

\* 100, 200, ... 500: the largest threshold is one of those that are tried.
ASSUME ThresholdAssumption ==
  /\ InitialMmrThreshold <= MaxMmrThreshold
  /\ (MaxMmrThreshold - InitialMmrThreshold) % MmrThresholdIncrement = 0

\* match_options, by option number: the lineup and UsedMmrThreshold.
VARIABLE options

BestEffort == -1

-----------------------------------------------------------------------------
\* Lineups and their scores.

ComfortPenalty(comfort) == 2 ^ (5 - comfort) - 1

Penalty(f) == MapThenSumSet(LAMBDA p : ComfortPenalty(Profile[p][f[p][2]].comfort), Player)

TeamMmr(f, side) ==
  MapThenSumSet(LAMBDA p : Profile[p][f[p][2]].mmr, {p \in Player : f[p][1] = side})

MmrDifference(f) ==
  LET d == TeamMmr(f, "blue") - TeamMmr(f, "red") IN IF d < 0 THEN -d ELSE d

Score(f) == 1000000 - 10000 * Penalty(f) - MmrDifference(f)

\* Once a split's lineup is chosen, scores below zero count as zero.
ScoreByComfort(f) == Max({0, Score(f)})

TeamSplits == kSubset(Cardinality(Role), Player)

RoleAssignments(team) == {r \in [team -> Role] : IsInjective(r)}

Lineups(blue) ==
  {[p \in Player |-> IF p \in blue THEN <<"blue", b[p]>> ELSE <<"red", r[p]>>] :
     b \in RoleAssignments(blue), r \in RoleAssignments(Player \ blue)}

\* The first of the best in the order of the permutations; which one that is
\* follows from the order in which the players were read.
FindBestRoleAssignment(blue) ==
  CHOOSE f \in Lineups(blue) : \A g \in Lineups(blue) : Score(g) <= Score(f)

BaseOptions == {FindBestRoleAssignment(blue) : blue \in TeamSplits}

\* What of a lineup the choice among the base options depends on.
Rating == [f \in BaseOptions |-> [score |-> ScoreByComfort(f), diff |-> MmrDifference(f)]]

-----------------------------------------------------------------------------
\* The batches.

\* Thresholds are tried upwards; the first that lets a lineup through is used.
Met(min) ==
  {t \in min .. MaxMmrThreshold :
     /\ (t - min) % MmrThresholdIncrement = 0
     /\ \E f \in BaseOptions : Rating[f].diff <= t}

UsedThreshold(min) == IF Met(min) = {} THEN BestEffort ELSE Min(Met(min))

Within(t) == {f \in BaseOptions : t = BestEffort \/ Rating[f].diff <= t}

\* Faulty form of the choice: the lineups stay in the order of the shuffle.
BestUnsorted(S, n) == {q \in [1 .. Min({n, Cardinality(S)}) -> S] : IsInjective(q)}

\* The best n lineups of S, best first; equals come in any order.
Best(S, n) ==
  LET Better(f) == {g \in S : Rating[g].score > Rating[f].score}
  IN {q \in [1 .. Min({n, Cardinality(S)}) -> {f \in S : Cardinality(Better(f)) < n}] :
        IsInjective(q) /\ \A i \in DOMAIN q : Better(q[i]) \subseteq {q[j] : j \in 1 .. i - 1}}

Offer(q, t) == [i \in DOMAIN q |-> [lineup |-> q[i], threshold |-> t]]

\* The first options: equals may come in any order.
FirstOptions ==
  LET t == UsedThreshold(InitialMmrThreshold)
  IN {Offer(q, t) : q \in Best(Within(t), BatchSize)}

\* Faulty form of the generation: the next threshold's lineups are let through.
GenerateMatchOptionsLoosely ==
  LET t == UsedThreshold(InitialMmrThreshold)
  IN \E q \in Best(Within(t + MmrThresholdIncrement), BatchSize) : options' = Offer(q, t)

\* All options are replaced.
GenerateMatchOptions == \E batch \in FirstOptions : options' = batch

Offered == {options[i].lineup : i \in DOMAIN options}

MaxThresholdUsed ==
  Max({InitialMmrThreshold} \cup {options[i].threshold : i \in DOMAIN options})

\* Faulty form of loading more: what is there already is offered again.
GenerateMoreMatchOptionsAgain ==
  LET t == UsedThreshold(MaxThresholdUsed + MmrThresholdIncrement)
  IN \E q \in Best(Within(t), BatchSize) : options' = options \o Offer(q, t)

\* The threshold grows by one increment, and what is not offered yet is appended.
GenerateMoreMatchOptions ==
  LET t == UsedThreshold(MaxThresholdUsed + MmrThresholdIncrement)
  IN \E q \in Best(Within(t) \ Offered, BatchSize) : options' = options \o Offer(q, t)

-----------------------------------------------------------------------------
\* Properties.

\* However often the captain loads more, no lineup is offered twice
\* (buildOptionHash, computeAssignmentHash): an option number stands for a
\* choice of its own, and votes are not split between equal options.
OptionsDiffer ==
  \A i, j \in DOMAIN options : options[i].lineup = options[j].lineup => i = j

\* UsedMmrThreshold, which the lobby shows, is honest: the option keeps to it,
\* and the first batch has not been given a threshold laxer than some lineup needs.
ThresholdIsHonest ==
  \A i \in DOMAIN options :
    LET t == options[i].threshold
        least == Min({Rating[f].diff : f \in BaseOptions})
    IN /\ t # BestEffort => Rating[options[i].lineup].diff <= t
       /\ i = 1 => IF t = BestEffort THEN least > MaxMmrThreshold
                   ELSE t = InitialMmrThreshold \/ least > t - MmrThresholdIncrement

\* Comfort first: whoever is offered a lineup is also offered every one that
\* meets the same threshold and scores better, though batches are cut off and
\* loaded one by one.
BestComfortOffered ==
  \A i \in DOMAIN options :
    \A f \in Within(options[i].threshold) :
      Rating[f].score > Rating[options[i].lineup].score => f \in Offered
=============================================================================

-------------------------- MODULE LobbyChoiceProofs --------------------------
(***************************************************************************)
(* What a lobby is offered and what it votes for, for any players, roles,  *)
(* profiles and votes: no lineup twice, honest thresholds, comfort first,  *)
(* and a winner that the order of Go's map does not change.                *)
(***************************************************************************)
EXTENDS LobbyLive, SetLemmas

-----------------------------------------------------------------------------
(* Lineups have scores and differences that can be compared.               *)

Lineup == [Player -> {"blue", "red"} \X Role]

LEMMA PenaltyIsNatural ==
  ASSUME NEW c \in 1 .. 5
  PROVE  ComfortPenalty(c) \in Nat
<1>1. 2^(5 - 1) = 16 /\ 2^(5 - 2) = 8 /\ 2^(5 - 3) = 4 /\ 2^(5 - 4) = 2 /\ 2^(5 - 5) = 1
  OBVIOUS
<1>2. c \in {1, 2, 3, 4, 5}
  OBVIOUS
<1>3. 2^(5 - c) \in {1, 2, 4, 8, 16}
  BY <1>1, <1>2, Zenon
<1> QED
  BY <1>3 DEF ComfortPenalty

LEMMA LineupIsScored ==
  ASSUME NEW f \in Lineup
  PROVE  /\ MmrDifference(f) \in Nat
         /\ Score(f) \in Int
         /\ Score(f) <= 1000000
<1> USE MatchmakingAssumption
<1>0. \A p \in Player : f[p][2] \in Role /\ Profile[p][f[p][2]] \in [mmr : Nat, comfort : 1 .. 5]
  BY DEF Lineup
<1>1. Penalty(f) \in Nat
  <2> DEFINE v == [p \in Player |-> ComfortPenalty(Profile[p][f[p][2]].comfort)]
  <2>1. \A p \in Player : v[p] \in Nat
    BY <1>0, PenaltyIsNatural
  <2> DEFINE a(fold, T) ==
               IF T = {} THEN 0
               ELSE ComfortPenalty(Profile[CHOOSE p \in T : TRUE][f[CHOOSE p \in T : TRUE][2]].comfort)
                    + fold[T \ {CHOOSE p \in T : TRUE}]
             b(fold, T) == IF T = {} THEN 0 ELSE v[CHOOSE p \in T : TRUE] + fold[T \ {CHOOSE p \in T : TRUE}]
             byLineup(fold) == fold = [T \in SUBSET Player |-> a(fold, T)]
             byValue(fold) == fold = [T \in SUBSET Player |-> b(fold, T)]
  <2>2. \A fold : byLineup(fold) <=> byValue(fold)
    <3>1. \A T \in SUBSET Player : T # {} =>
            v[CHOOSE p \in T : TRUE] = ComfortPenalty(Profile[CHOOSE p \in T : TRUE][f[CHOOSE p \in T : TRUE][2]].comfort)
      OBVIOUS
    <3>2. \A fold : \A T \in SUBSET Player : a(fold, T) = b(fold, T)
      <4> HIDE DEF v
      <4> QED
        BY <3>1
    <3> HIDE DEF a, b
    <3> QED
      BY <3>2
  <2>3. Penalty(f) = (CHOOSE fold : byLineup(fold))[Player]
    BY DEF Penalty, MapThenSumSet, MapThenFoldSet
  <2>4. SumOf(v, Player) = (CHOOSE fold : byValue(fold))[Player]
    BY DEF SumOf, MapThenSumSet, MapThenFoldSet
  <2>5. Penalty(f) = SumOf(v, Player)
    <3> HIDE DEF byLineup, byValue, v
    <3> QED
      BY <2>2, <2>3, <2>4
  <2> HIDE DEF v
  <2> QED
    BY <2>1, <2>5, SumOfNaturals
<1>2. ASSUME NEW side
      PROVE  TeamMmr(f, side) \in Nat
  <2> DEFINE v == [p \in Player |-> Profile[p][f[p][2]].mmr]
             T == {p \in Player : f[p][1] = side}
  <2>1. \A p \in T : v[p] \in Nat
    BY <1>0
  <2> DEFINE a(fold, U) ==
               IF U = {} THEN 0
               ELSE Profile[CHOOSE p \in U : TRUE][f[CHOOSE p \in U : TRUE][2]].mmr
                    + fold[U \ {CHOOSE p \in U : TRUE}]
             b(fold, U) == IF U = {} THEN 0 ELSE v[CHOOSE p \in U : TRUE] + fold[U \ {CHOOSE p \in U : TRUE}]
             byLineup(fold) == fold = [U \in SUBSET T |-> a(fold, U)]
             byValue(fold) == fold = [U \in SUBSET T |-> b(fold, U)]
  <2>2. \A fold : byLineup(fold) <=> byValue(fold)
    <3>1. \A U \in SUBSET T : U # {} =>
            v[CHOOSE p \in U : TRUE] = Profile[CHOOSE p \in U : TRUE][f[CHOOSE p \in U : TRUE][2]].mmr
      OBVIOUS
    <3>2. \A fold : \A U \in SUBSET T : a(fold, U) = b(fold, U)
      <4> HIDE DEF v
      <4> QED
        BY <3>1
    <3> HIDE DEF a, b
    <3> QED
      BY <3>2
  <2>3. TeamMmr(f, side) = (CHOOSE fold : byLineup(fold))[T]
    BY DEF TeamMmr, MapThenSumSet, MapThenFoldSet
  <2>4. SumOf(v, T) = (CHOOSE fold : byValue(fold))[T]
    BY DEF SumOf, MapThenSumSet, MapThenFoldSet
  <2>5. TeamMmr(f, side) = SumOf(v, T)
    <3> HIDE DEF byLineup, byValue, v, T
    <3> QED
      BY <2>2, <2>3, <2>4
  <2>6. IsFiniteSet(T)
    BY FS_Subset
  <2> HIDE DEF v, T
  <2> QED
    BY <2>1, <2>5, <2>6, SumOfNaturals
<1>3. MmrDifference(f) \in Nat
  BY <1>2 DEF MmrDifference
<1> QED
  BY <1>1, <1>3 DEF Score

-----------------------------------------------------------------------------
(* The base options: finitely many lineups, and at least one.              *)

LEMMA RolesForATeam ==
  ASSUME NEW team \in SUBSET Player, Cardinality(team) = Cardinality(Role)
  PROVE  RoleAssignments(team) # {}
<1>1. IsFiniteSet(team) /\ IsFiniteSet(Role)
  BY MatchmakingAssumption, FS_Subset
<1>2. ExistsBijection(team, Role)
  BY <1>1, FS_SameCardinalityBij
<1> QED
  BY <1>2 DEF RoleAssignments, ExistsBijection, Bijection, Injection

LEMMA LineupsAreTyped ==
  ASSUME NEW blue, NEW f \in Lineups(blue)
  PROVE  f \in Lineup
<1>1. PICK b \in RoleAssignments(blue), r \in RoleAssignments(Player \ blue) :
        f = [p \in Player |-> IF p \in blue THEN <<"blue", b[p]>> ELSE <<"red", r[p]>>]
  BY DEF Lineups
<1>2. b \in [blue -> Role] /\ r \in [Player \ blue -> Role]
  BY DEF RoleAssignments
<1> QED
  BY <1>1, <1>2 DEF Lineup

LEMMA LineupsOfASplit ==
  ASSUME NEW blue \in TeamSplits
  PROVE  Lineups(blue) \subseteq Lineup /\ Lineups(blue) # {}
<1>1. blue \in SUBSET Player /\ Cardinality(blue) = Cardinality(Role)
  BY DEF TeamSplits, kSubset
<1>2. Player \ blue \in SUBSET Player /\ Cardinality(Player \ blue) = Cardinality(Role)
  <2>1. Player \cap blue = blue
    BY <1>1
  <2>2. Cardinality(Player \ blue) = Cardinality(Player) - Cardinality(Player \cap blue)
    BY MatchmakingAssumption, FS_Difference
  <2>3. Cardinality(Role) \in Nat /\ Cardinality(Player) = 2 * Cardinality(Role)
    BY MatchmakingAssumption, FS_CardinalityType
  <2> QED
    BY <1>1, <2>1, <2>2, <2>3
<1>3. PICK b \in RoleAssignments(blue), r \in RoleAssignments(Player \ blue) : TRUE
  BY <1>1, <1>2, RolesForATeam
<1>4. [p \in Player |-> IF p \in blue THEN <<"blue", b[p]>> ELSE <<"red", r[p]>>] \in Lineups(blue)
  BY <1>3 DEF Lineups
<1> QED
  BY <1>4, LineupsAreTyped

\* Scores have a greatest possible value, so that some lineup is the best.
LEMMA BestRolesAreALineup ==
  ASSUME NEW blue \in TeamSplits
  PROVE  FindBestRoleAssignment(blue) \in Lineup
<1> DEFINE loss == {1000000 - Score(f) : f \in Lineups(blue)}
<1>1. loss \subseteq Nat /\ loss # {}
  <2>1. \A f \in Lineups(blue) : Score(f) \in Int /\ Score(f) <= 1000000
    BY LineupsOfASplit, LineupIsScored
  <2>2. \A f \in Lineups(blue) : 1000000 - Score(f) \in Nat
    BY <2>1
  <2> QED
    BY <2>2, LineupsOfASplit
<1>2. PICK x \in loss : \A y \in loss : x <= y
  <2> HIDE DEF loss
  <2> QED
    BY <1>1, LeastNatural
<1>3. PICK f \in Lineups(blue) : x = 1000000 - Score(f)
  BY <1>2
<1>4. \A g \in Lineups(blue) : Score(g) <= Score(f)
  <2>1. \A g \in Lineups(blue) : Score(g) \in Int /\ x <= 1000000 - Score(g)
    BY <1>2, LineupsOfASplit, LineupIsScored
  <2> QED
    BY <1>3, <2>1
<1>5. FindBestRoleAssignment(blue) \in Lineups(blue)
  BY <1>3, <1>4 DEF FindBestRoleAssignment
<1> QED
  BY <1>5, LineupsOfASplit

LEMMA SomeSplit == TeamSplits # {} /\ IsFiniteSet(TeamSplits)
<1> DEFINE k == Cardinality(Role)
<1>1. k \in Nat /\ Cardinality(Player) = 2 * k /\ IsFiniteSet(Player)
  BY MatchmakingAssumption, FS_CardinalityType
<1>2. PICK b : b \in Bijection(1 .. 2 * k, Player)
  BY <1>1, FS_CardinalityType DEF ExistsBijection
<1> HIDE DEF k
<1> DEFINE blue == {b[i] : i \in 1 .. k}
           c == [i \in 1 .. k |-> b[i]]
<1>3. 1 .. k \subseteq 1 .. 2 * k
  BY <1>1
<1>4. c \in Bijection(1 .. k, blue) /\ blue \subseteq Player
  BY <1>2, <1>3 DEF Bijection, Injection, Surjection, IsInjective
<1>5. IsFiniteSet(1 .. k) /\ Cardinality(1 .. k) = k
  <2>1. 1 \in Int /\ k \in Int
    BY <1>1
  <2>2. IsFiniteSet(1 .. k) /\ Cardinality(1 .. k) = IF 1 > k THEN 0 ELSE k - 1 + 1
    BY <2>1, FS_Interval
  <2> QED
    BY <1>1, <2>2
<1>6. Cardinality(blue) = k
  <2> HIDE DEF blue, c
  <2>1. ExistsBijection(1 .. k, blue)
    BY <1>4 DEF ExistsBijection
  <2> QED
    BY <1>5, <2>1, FS_Bijection
<1>7. blue \in TeamSplits
  BY <1>4, <1>6 DEF TeamSplits, kSubset, k
<1>8. TeamSplits \in SUBSET (SUBSET Player)
  BY DEF TeamSplits, kSubset
<1> QED
  BY <1>1, <1>7, <1>8, FS_SUBSET, FS_Subset

LEMMA BaseOptionsAreLineups ==
  /\ BaseOptions # {}
  /\ IsFiniteSet(BaseOptions)
  /\ \A f \in BaseOptions : f \in Lineup
<1> DEFINE best == [blue \in TeamSplits |-> FindBestRoleAssignment(blue)]
<1>1. best \in Surjection(TeamSplits, BaseOptions)
  BY DEF Surjection, BaseOptions
<1>2. IsFiniteSet(BaseOptions)
  <2> HIDE DEF best
  <2> QED
    BY <1>1, SomeSplit, FS_Surjection
<1> QED
  BY <1>2, SomeSplit, BestRolesAreALineup DEF BaseOptions

LEMMA DifferenceIsNatural ==
  \A f \in BaseOptions : Rating[f].diff \in Nat
  BY BaseOptionsAreLineups, LineupIsScored DEF Rating

-----------------------------------------------------------------------------
(* Thresholds.                                                             *)

LEMMA NoSmallMultiple ==
  ASSUME NEW d \in Nat \ {0}, NEW k \in Int, d * k \in 0 .. d - 1
  PROVE  k = 0
<1>1. CASE k >= 1
  <2>1. d * (k - 1) >= 0
    BY <1>1
  <2> QED
    BY <1>1, <2>1
<1>2. CASE k <= -1
  <2>1. d * ((0 - 1) - k) >= 0
    BY <1>2
  <2> QED
    BY <1>2, <2>1
<1> QED
  BY <1>1, <1>2

LEMMA MultipleBefore ==
  ASSUME NEW d \in Nat \ {0}, NEW x \in Int, x % d = 0
  PROVE  (x - d) % d = 0
<1> DEFINE k == x \div d
           q == (x - d) \div d
           r == (x - d) % d
<1> DEFINE Divides(y) == y = d * (y \div d) + (y % d) /\ y \div d \in Int /\ y % d \in 0 .. d - 1
<1>1. Divides(x) /\ Divides(x - d)
  <2>1. \A y \in Int : Divides(y)
    OBVIOUS
  <2>2. x - d \in Int
    OBVIOUS
  <2> HIDE DEF Divides
  <2> QED
    BY <2>1, <2>2
<1>2. x = d * k /\ k \in Int
  BY <1>1
<1>3. x - d = d * q + r /\ q \in Int /\ r \in 0 .. d - 1
  BY <1>1
<1> HIDE DEF k, q, r
<1>4. d * (k - 1 - q) = r
  BY <1>2, <1>3
<1>5. k - 1 - q = 0
  BY <1>2, <1>3, <1>4, NoSmallMultiple
<1> QED
  BY <1>2, <1>3, <1>4, <1>5 DEF r

LEMMA ThresholdUsed ==
  ASSUME NEW min \in Nat
  PROVE  \/ UsedThreshold(min) = BestEffort /\ Met(min) = {}
         \/ /\ UsedThreshold(min) \in Met(min) /\ UsedThreshold(min) \in Nat
            /\ \A t \in Met(min) : UsedThreshold(min) <= t
<1>1. Met(min) \subseteq Nat
  BY MatchmakingAssumption DEF Met
<1> QED
  BY <1>1, MinIsLeast DEF UsedThreshold

\* The first batch's threshold was not avoidable.
LEMMA FirstThreshold ==
  LET t == UsedThreshold(InitialMmrThreshold)
      least == Min({Rating[f].diff : f \in BaseOptions})
  IN IF t = BestEffort THEN least > MaxMmrThreshold
     ELSE t = InitialMmrThreshold \/ least > t - MmrThresholdIncrement
<1> DEFINE t == UsedThreshold(InitialMmrThreshold)
           diffs == {Rating[f].diff : f \in BaseOptions}
<1> USE MatchmakingAssumption
<1>1. diffs \subseteq Nat /\ diffs # {}
  BY DifferenceIsNatural, BaseOptionsAreLineups
<1>2. Min(diffs) \in diffs
  <2> HIDE DEF diffs
  <2> QED
    BY <1>1, MinIsLeast
<1>3. PICK f \in BaseOptions : Min(diffs) = Rating[f].diff
  BY <1>2
<1>4. Rating[f].diff \in Nat
  BY DifferenceIsNatural
<1>5. CASE t = BestEffort
  <2>1. Met(InitialMmrThreshold) = {}
    BY <1>5, ThresholdUsed DEF BestEffort
  <2>2. MaxMmrThreshold \in InitialMmrThreshold .. MaxMmrThreshold
    BY ThresholdAssumption
  <2>3. ~(Rating[f].diff <= MaxMmrThreshold)
    BY <2>1, <2>2, ThresholdAssumption DEF Met
  <2> QED
    BY <1>3, <1>4, <1>5, <2>3
<1>6. CASE t # BestEffort /\ t # InitialMmrThreshold
  <2> DEFINE u == t - MmrThresholdIncrement
  <2>1. /\ t \in Met(InitialMmrThreshold) /\ t \in Nat
        /\ \A v \in Met(InitialMmrThreshold) : t <= v
    BY <1>6, ThresholdUsed
  <2>2. /\ t \in InitialMmrThreshold .. MaxMmrThreshold
        /\ (t - InitialMmrThreshold) % MmrThresholdIncrement = 0
    BY <2>1 DEF Met
  <2> HIDE DEF t
  <2>3. t - InitialMmrThreshold >= MmrThresholdIncrement
    BY <1>6, <2>1, <2>2
  <2>4. (u - InitialMmrThreshold) % MmrThresholdIncrement = 0
    <3> DEFINE x == t - InitialMmrThreshold
    <3>1. x \in Int /\ x % MmrThresholdIncrement = 0
      BY <2>1, <2>2
    <3>2. x - MmrThresholdIncrement = u - InitialMmrThreshold
      BY <2>1
    <3> HIDE DEF x
    <3>3. (x - MmrThresholdIncrement) % MmrThresholdIncrement = 0
      BY <3>1, MultipleBefore
    <3> QED
      BY <3>2, <3>3
  <2>5. u \in InitialMmrThreshold .. MaxMmrThreshold /\ ~(t <= u)
    BY <2>1, <2>2, <2>3
  <2>6. ~(Rating[f].diff <= u)
    <3> HIDE DEF u
    <3> QED
      BY <2>1, <2>4, <2>5 DEF Met
  <2> QED
    BY <1>3, <1>4, <1>6, <2>1, <2>6 DEF t
<1> QED
  BY <1>5, <1>6

-----------------------------------------------------------------------------
(* Batches.                                                                *)

\* A batch has no lineup twice, is not empty without need, and has whatever is
\* better than one of its lineups.
LEMMA BestOfASet ==
  ASSUME NEW S \in SUBSET BaseOptions, NEW q \in Best(S, BatchSize)
  PROVE  /\ \E k \in Nat : q \in [1 .. k -> S] /\ (S # {} => k > 0)
         /\ \A i, j \in DOMAIN q : q[i] = q[j] => i = j
         /\ \A i \in DOMAIN q : \A g \in S :
              Rating[g].score > Rating[q[i]].score => \E j \in DOMAIN q : q[j] = g
<1> DEFINE k == Min({BatchSize, Cardinality(S)})
           Better(f) == {g \in S : Rating[g].score > Rating[f].score}
<1>1. k \in Nat /\ (S # {} => k > 0)
  <2>1. IsFiniteSet(S) /\ Cardinality(S) \in Nat
    BY BaseOptionsAreLineups, FS_Subset, FS_CardinalityType
  <2>2. BatchSize \in Nat \ {0}
    BY MatchmakingAssumption
  <2>3. S # {} => Cardinality(S) # 0
    BY <2>1, FS_EmptySet
  <2>4. k \in {BatchSize, Cardinality(S)}
    BY <2>1, <2>2, MinIsLeast
  <2> HIDE DEF k
  <2> QED
    BY <2>1, <2>2, <2>3, <2>4
<1>2. /\ q \in [1 .. k -> {f \in S : Cardinality(Better(f)) < BatchSize}]
      /\ IsInjective(q)
      /\ \A i \in DOMAIN q : Better(q[i]) \subseteq {q[j] : j \in 1 .. i - 1}
  BY DEF Best
<1> HIDE DEF k
<1>3. q \in [1 .. k -> S]
  BY <1>2
<1>4. ASSUME NEW i \in DOMAIN q, NEW g \in S, Rating[g].score > Rating[q[i]].score
      PROVE  \E j \in DOMAIN q : q[j] = g
  <2>1. g \in Better(q[i])
    BY <1>4
  <2>2. PICK j \in 1 .. i - 1 : g = q[j]
    <3> HIDE DEF Better
    <3> QED
      BY <1>2, <2>1
  <2>3. j \in 1 .. k
    BY <1>1, <1>3
  <2> QED
    BY <1>3, <2>2, <2>3
<1> QED
  BY <1>1, <1>2, <1>3, <1>4 DEF IsInjective

OptionRow == [lineup : BaseOptions, threshold : Nat \cup {BestEffort}]

OptionsInv ==
  options \in Seq(OptionRow) /\ OptionsDiffer /\ ThresholdIsHonest /\ BestComfortOffered

LEMMA WithinIsBase == \A t : Within(t) \in SUBSET BaseOptions
  BY DEF Within

LEMMA OfferedRows ==
  ASSUME NEW min \in Nat, NEW S \in SUBSET Within(UsedThreshold(min)),
         NEW q \in Best(S, BatchSize)
  PROVE  LET batch == Offer(q, UsedThreshold(min))
         IN /\ batch \in Seq(OptionRow)
            /\ S # {} => Len(batch) > 0
            /\ DOMAIN q = 1 .. Len(batch)
            /\ \A i \in 1 .. Len(batch) :
                 /\ batch[i].lineup = q[i] /\ q[i] \in S
                 /\ batch[i].threshold = UsedThreshold(min)
<1> DEFINE t == UsedThreshold(min)
<1>1. t \in Nat \cup {BestEffort}
  BY ThresholdUsed
<1> HIDE DEF t
<1>2. S \subseteq BaseOptions
  BY WithinIsBase
<1>3. PICK k \in Nat : q \in [1 .. k -> S] /\ (S # {} => k > 0)
  BY <1>2, BestOfASet
<1>4. Offer(q, t) = [i \in 1 .. k |-> [lineup |-> q[i], threshold |-> t]]
  BY <1>3 DEF Offer
<1>5. \A i \in 1 .. k : [lineup |-> q[i], threshold |-> t] \in OptionRow
  BY <1>1, <1>2, <1>3 DEF OptionRow
<1>6. Offer(q, t) \in Seq(OptionRow) /\ Len(Offer(q, t)) = k
  BY <1>4, <1>5
<1> QED
  BY <1>3, <1>4, <1>6 DEF t

LEMMA SomethingIsWithin == Within(UsedThreshold(InitialMmrThreshold)) # {}
  BY MatchmakingAssumption, ThresholdUsed, BaseOptionsAreLineups DEF Within, Met, BestEffort

IsFirstBatch == options \in FirstOptions

SomeOptions == OptionsInv /\ options # << >>

LEMMA FirstBatch == IsFirstBatch => SomeOptions
<1> DEFINE t == UsedThreshold(InitialMmrThreshold)
<1> SUFFICES ASSUME NEW q \in Best(Within(t), BatchSize), options = Offer(q, t)
             PROVE  SomeOptions
  BY DEF IsFirstBatch, FirstOptions
<1>1. /\ options \in Seq(OptionRow) /\ Len(options) > 0
      /\ DOMAIN q = 1 .. Len(options)
      /\ \A i \in 1 .. Len(options) :
           options[i].lineup = q[i] /\ q[i] \in Within(t) /\ options[i].threshold = t
  BY MatchmakingAssumption, OfferedRows, SomethingIsWithin
<1>2. /\ \A i, j \in DOMAIN q : q[i] = q[j] => i = j
      /\ \A i \in DOMAIN q : \A g \in Within(t) :
           Rating[g].score > Rating[q[i]].score => \E j \in DOMAIN q : q[j] = g
  BY WithinIsBase, BestOfASet
<1> HIDE DEF t
<1>3. OptionsDiffer
  BY <1>1, <1>2 DEF OptionsDiffer
<1>4. ThresholdIsHonest
  <2>1. \A i \in DOMAIN options : t # BestEffort => Rating[options[i].lineup].diff <= t
    BY <1>1 DEF Within
  <2> QED
    BY <1>1, <2>1, FirstThreshold DEF ThresholdIsHonest, t
<1>5. BestComfortOffered
  BY <1>1, <1>2 DEF BestComfortOffered, Offered
<1> QED
  BY <1>1, <1>3, <1>4, <1>5 DEF OptionsInv, SomeOptions

\* A whole new first batch.
LEMMA GenerateKeepsOptions ==
  ASSUME GenerateMatchOptions
  PROVE  SomeOptions'
<1>1. IsFirstBatch'
  BY DEF GenerateMatchOptions, IsFirstBatch
<1> QED
  BY <1>1, FirstBatch, PTL

LEMMA ThresholdsGrow ==
  ASSUME OptionsInv
  PROVE  MaxThresholdUsed + MmrThresholdIncrement \in Nat
<1> DEFINE used == {options[i].threshold : i \in DOMAIN options}
           f == [i \in DOMAIN options |-> options[i].threshold]
<1>1. options \in Seq(OptionRow)
  BY DEF OptionsInv
<1>2. used \subseteq Nat \cup {BestEffort}
  <2>1. \A i \in DOMAIN options : options[i].threshold \in Nat \cup {BestEffort}
    <3>1. \A i \in DOMAIN options : options[i] \in OptionRow
      BY <1>1
    <3> QED
      BY <3>1 DEF OptionRow
  <2> QED
    BY <2>1
<1>3. IsFiniteSet(used)
  <2>1. IsFiniteSet(DOMAIN options)
    BY <1>1, FS_Interval
  <2>2. f \in Surjection(DOMAIN options, used)
    BY DEF Surjection
  <2> HIDE DEF f, used
  <2> QED
    BY <2>1, <2>2, FS_Surjection
<1> HIDE DEF used
<1> DEFINE T == {InitialMmrThreshold} \cup used
<1>4. IsFiniteSet(T)
  BY <1>3, FS_AddElement
<1>5. T \subseteq Int /\ InitialMmrThreshold \in T
  BY <1>2, MatchmakingAssumption DEF BestEffort
<1>6. MaxThresholdUsed = Max(T)
  BY DEF MaxThresholdUsed, used
<1> HIDE DEF T
<1>7. Max(T) \in T /\ Max(T) >= InitialMmrThreshold
  BY <1>4, <1>5, MaxIsGreatest
<1>8. Max(T) \in Nat
  <2>1. InitialMmrThreshold \in Nat
    BY MatchmakingAssumption
  <2>2. Max(T) \in Int
    BY <1>5, <1>7
  <2> QED
    BY <1>7, <2>1, <2>2
<1> QED
  BY <1>6, <1>8, MatchmakingAssumption

\* Another batch: it has what the threshold lets through and is not there yet.
LEMMA LoadMoreKeepsOptions ==
  ASSUME SomeOptions, GenerateMoreMatchOptions
  PROVE  SomeOptions'
<1> DEFINE min == MaxThresholdUsed + MmrThresholdIncrement
           t == UsedThreshold(min)
           S == Within(t) \ Offered
<1>1. PICK q \in Best(S, BatchSize) : options' = options \o Offer(q, t)
  BY DEF GenerateMoreMatchOptions
<1> DEFINE batch == Offer(q, t)
<1>2. min \in Nat
  BY ThresholdsGrow DEF SomeOptions
<1>3. /\ batch \in Seq(OptionRow) /\ DOMAIN q = 1 .. Len(batch)
      /\ \A i \in 1 .. Len(batch) :
           batch[i].lineup = q[i] /\ q[i] \in S /\ batch[i].threshold = t
  <2>1. S \in SUBSET Within(t)
    OBVIOUS
  <2> HIDE DEF S, min
  <2> QED
    BY <1>2, <2>1, OfferedRows
<1>4. /\ \A i, j \in DOMAIN q : q[i] = q[j] => i = j
      /\ \A i \in DOMAIN q : \A g \in S :
           Rating[g].score > Rating[q[i]].score => \E j \in DOMAIN q : q[j] = g
  BY WithinIsBase, BestOfASet
<1>5. options \in Seq(OptionRow)
  BY DEF OptionsInv, SomeOptions
<1>6. /\ \A f \in S : f \in Within(t) /\ f \notin Offered
      /\ \A f \in Within(t) : f \in S \/ f \in Offered
  OBVIOUS
<1> HIDE DEF batch, S, t, min
<1>7. /\ options' \in Seq(OptionRow)
      /\ Len(options') = Len(options) + Len(batch)
      /\ \A i \in 1 .. Len(options) : options'[i] = options[i]
      /\ \A i \in 1 .. Len(batch) : options'[Len(options) + i] = batch[i]
  BY <1>1, <1>3, <1>5 DEF batch
<1>8. \A i \in DOMAIN options' :
        \/ i \in DOMAIN options /\ options'[i] = options[i]
        \/ \E j \in DOMAIN q : /\ i = Len(options) + j
                             /\ options'[i].lineup = q[j] /\ q[j] \in S
                             /\ options'[i].threshold = t
  <2> SUFFICES ASSUME NEW i \in 1 .. Len(options) + Len(batch), i \notin 1 .. Len(options)
               PROVE  \E j \in DOMAIN q : /\ i = Len(options) + j
                                         /\ options'[i].lineup = q[j] /\ q[j] \in S
                                         /\ options'[i].threshold = t
    BY <1>5, <1>7
  <2>1. i - Len(options) \in 1 .. Len(batch)
    BY <1>3, <1>5
  <2>2. i = Len(options) + (i - Len(options))
    BY <1>5
  <2> QED
    BY <1>3, <1>7, <2>1, <2>2
<1>9. \A f : f \in Offered' <=> f \in Offered \/ \E j \in DOMAIN q : f = q[j]
  <2>1. ASSUME NEW f, f \in Offered' PROVE f \in Offered \/ \E j \in DOMAIN q : f = q[j]
    <3>1. PICK i \in DOMAIN options' : f = options'[i].lineup
      BY <2>1 DEF Offered
    <3> QED
      BY <1>8, <3>1 DEF Offered
  <2>2. ASSUME NEW f, f \in Offered PROVE f \in Offered'
    <3>1. PICK i \in 1 .. Len(options) : f = options[i].lineup
      BY <1>5, <2>2 DEF Offered
    <3>2. i \in 1 .. Len(options')
      BY <1>3, <1>5, <1>7
    <3>3. i \in DOMAIN options'
      BY <1>7, <3>2
    <3> QED
      BY <1>7, <3>1, <3>3 DEF Offered
  <2>3. ASSUME NEW j \in DOMAIN q PROVE q[j] \in Offered'
    <3>1. Len(options) + j \in 1 .. Len(options')
      BY <1>3, <1>5, <1>7
    <3>2. Len(options) + j \in DOMAIN options'
      BY <1>7, <3>1
    <3> QED
      BY <1>3, <1>7, <3>2 DEF Offered
  <2> QED
    BY <2>1, <2>2, <2>3
<1>10. OptionsDiffer'
  <2> SUFFICES ASSUME NEW i \in DOMAIN options', NEW j \in DOMAIN options',
                      options'[i].lineup = options'[j].lineup
               PROVE  i = j
    BY DEF OptionsDiffer
  <2>1. \A n \in DOMAIN options : options[n].lineup \in Offered
    BY DEF Offered
  <2>2. \A m, n \in DOMAIN options : options[m].lineup = options[n].lineup => m = n
    BY DEF SomeOptions, OptionsInv, OptionsDiffer
  <2> QED
    BY <1>4, <1>6, <1>8, <2>1, <2>2
<1>11. ThresholdIsHonest'
  <2>1. ASSUME NEW i \in DOMAIN options', options'[i].threshold # BestEffort
        PROVE  Rating[options'[i].lineup].diff <= options'[i].threshold
    <3>1. CASE i \in DOMAIN options /\ options'[i] = options[i]
      BY <2>1, <3>1 DEF SomeOptions, OptionsInv, ThresholdIsHonest
    <3>2. CASE \E j \in DOMAIN q : /\ options'[i].lineup = q[j] /\ q[j] \in S
                                /\ options'[i].threshold = t
      BY <1>6, <2>1, <3>2 DEF Within
    <3> QED
      BY <1>8, <3>1, <3>2
  <2>2. 1 \in DOMAIN options /\ options'[1] = options[1]
    <3>1. 1 \in 1 .. Len(options)
      BY <1>5 DEF SomeOptions
    <3> QED
      BY <1>5, <1>7, <3>1
  <2> QED
    BY <2>1, <2>2 DEF SomeOptions, OptionsInv, ThresholdIsHonest
<1>12. BestComfortOffered'
  <2> SUFFICES ASSUME NEW i \in DOMAIN options', NEW f \in Within(options'[i].threshold),
                      Rating[f].score > Rating[options'[i].lineup].score
               PROVE  f \in Offered'
    BY DEF BestComfortOffered, Within, Rating
  <2>1. CASE i \in DOMAIN options /\ options'[i] = options[i]
    BY <1>9, <2>1 DEF SomeOptions, OptionsInv, BestComfortOffered
  <2>2. CASE \E j \in DOMAIN q : options'[i].lineup = q[j] /\ options'[i].threshold = t
    BY <1>4, <1>6, <1>9, <2>2
  <2> QED
    BY <1>8, <2>1, <2>2
<1> QED
  BY <1>3, <1>5, <1>7, <1>10, <1>11, <1>12 DEF SomeOptions, OptionsInv

-----------------------------------------------------------------------------
(* The result of a vote.                                                   *)

LEMMA CountsAreNatural ==
  ASSUME votes \in [Ballot -> Nat], NEW n
  PROVE  /\ VoteCount(n) \in Nat
         /\ \A b \in Ballot : b[2] = n => votes[b] <= VoteCount(n)
<1> DEFINE S == {b \in Ballot : b[2] = n}
<1>1. IsFiniteSet(S)
  BY LobbyLiveAssumption, FS_Subset
<1>2. \A b \in S : votes[b] \in Nat
  OBVIOUS
<1>3. VoteCount(n) = SumOf(votes, S)
  BY DEF VoteCount, SumOf
<1> HIDE DEF S
<1>4. SumOf(votes, S) \in Nat /\ \A b \in S : votes[b] <= SumOf(votes, S)
  BY <1>1, <1>2, SumOfNaturals
<1> QED
  BY <1>3, <1>4 DEF S

LEMMA CountedOptions ==
  ASSUME votes \in [Ballot -> Nat]
  PROVE  /\ IsFiniteSet(Counted)
         /\ Counted \subseteq Nat
         /\ \A n \in Counted : VoteCount(n) \in Nat /\ VoteCount(n) > 0
<1> DEFINE S == {c \in Ballot : votes[c] > 0}
           f == [c \in S |-> c[2]]
<1>1. f \in Surjection(S, Counted)
  BY DEF Counted, Surjection
<1>2. IsFiniteSet(S)
  BY LobbyLiveAssumption, FS_Subset
<1>3. IsFiniteSet(Counted)
  <2> HIDE DEF S, f
  <2> QED
    BY <1>1, <1>2, FS_Surjection
<1>4. Counted \subseteq Nat
  BY LobbyLiveAssumption DEF Counted
<1>5. ASSUME NEW n \in Counted PROVE VoteCount(n) \in Nat /\ VoteCount(n) > 0
  <2>1. PICK c \in Ballot : c[2] = n /\ votes[c] > 0
    BY DEF Counted
  <2>2. VoteCount(n) \in Nat /\ votes[c] <= VoteCount(n) /\ votes[c] \in Nat
    BY <2>1, CountsAreNatural
  <2> QED
    BY <2>1, <2>2
<1> QED
  BY <1>3, <1>4, <1>5

NoTally == [max |-> 0, winner |-> Nil, tied |-> {}]

\* What the loop knows once it has ranged over the options numbered T.
IsTally(a, order, T) ==
  /\ a \in Tally
  /\ \A n \in a.tied : VoteCount(n) = a.max /\ \E j \in T : n = order[j]
  /\ \A j \in T : VoteCount(order[j]) <= a.max
  /\ \A j \in T : VoteCount(order[j]) = a.max => order[j] \in a.tied
  /\ IF T = {} THEN a.max = 0 ELSE a.winner \in a.tied

LEMMA OneMoreCounted ==
  ASSUME NEW a, NEW order, NEW T, NEW x \in T, IsTally(a, order, T \ {x}),
         order[x] \in Nat, VoteCount(order[x]) \in Nat, VoteCount(order[x]) > 0,
         \A j \in T : VoteCount(order[j]) \in Nat
  PROVE  IsTally(CountedTo(a, order[x]), order, T)
<1> DEFINE n == order[x]
           c == VoteCount(n)
           b == CountedTo(a, n)
<1>1. /\ a \in Tally /\ a.max \in Nat /\ a.tied \subseteq Nat
      /\ \A m \in a.tied : VoteCount(m) = a.max /\ \E j \in T \ {x} : m = order[j]
      /\ \A j \in T \ {x} : VoteCount(order[j]) <= a.max
      /\ \A j \in T \ {x} : VoteCount(order[j]) = a.max => order[j] \in a.tied
      /\ IF T \ {x} = {} THEN a.max = 0 ELSE a.winner \in a.tied
  BY DEF IsTally, Tally
<1>2. n \in Nat /\ c \in Nat /\ c > 0 /\ T # {}
  OBVIOUS
<1>3. CASE c > a.max
  <2>1. b = [max |-> c, winner |-> n, tied |-> {n}]
    BY <1>3 DEF CountedTo
  <2>2. b \in Tally /\ b.max = c /\ b.winner = n /\ b.tied = {n}
    BY <1>2, <2>1 DEF Tally
  <2>3. \A j \in T : VoteCount(order[j]) <= c /\ (VoteCount(order[j]) = c => order[j] = n)
    BY <1>1, <1>2, <1>3
  <2> HIDE DEF b, c
  <2>4. \A m \in {n} : VoteCount(m) = c /\ \E j \in T : m = order[j]
    BY DEF c
  <2> HIDE DEF n
  <2> QED
    BY <1>2, <2>2, <2>3, <2>4 DEF IsTally, b, n
<1>4. CASE c = a.max
  <2>1. b = [a EXCEPT !.tied = @ \cup {n}]
    BY <1>2, <1>4 DEF CountedTo
  <2>2. b \in Tally /\ b.max = a.max /\ b.winner = a.winner /\ b.tied = a.tied \cup {n}
    BY <1>1, <1>2, <2>1 DEF Tally
  <2>3. a.winner \in a.tied
    BY <1>1, <1>2, <1>4
  <2>4. \A m \in a.tied \cup {n} : VoteCount(m) = a.max /\ \E j \in T : m = order[j]
    BY <1>1, <1>4
  <2>5. \A j \in T : VoteCount(order[j]) <= a.max
                     /\ (VoteCount(order[j]) = a.max => order[j] \in a.tied \cup {n})
    BY <1>1, <1>2, <1>4
  <2> HIDE DEF b, c, n
  <2> QED
    BY <1>2, <2>2, <2>3, <2>4, <2>5 DEF IsTally, b, n
<1>5. CASE c < a.max
  <2>1. b = a
    BY <1>1, <1>2, <1>5 DEF CountedTo
  <2>2. a.winner \in a.tied
    BY <1>1, <1>2, <1>5
  <2>3. \A m \in a.tied : VoteCount(m) = a.max /\ \E j \in T : m = order[j]
    BY <1>1
  <2>4. \A j \in T : VoteCount(order[j]) <= a.max
                     /\ (VoteCount(order[j]) = a.max => order[j] \in a.tied)
    BY <1>1, <1>2, <1>5
  <2> HIDE DEF b, c, n
  <2> QED
    BY <1>1, <1>2, <2>1, <2>2, <2>3, <2>4 DEF IsTally, b, n
<1> QED
  BY <1>1, <1>2, <1>3, <1>4, <1>5

LEMMA LoopCounts ==
  ASSUME votes \in [Ballot -> Nat], NEW order \in SetToSeqs(Counted)
  PROVE  IsTally(FoldLeft(CountedTo, NoTally, order), order, DOMAIN order)
<1> DEFINE D == DOMAIN order
<1>1. /\ D = 1 .. Cardinality(Counted) /\ order \in [D -> Counted]
      /\ IsFiniteSet(D) /\ D \subseteq Nat
  <2>1. Cardinality(Counted) \in Nat
    BY CountedOptions, FS_CardinalityType
  <2>2. D = 1 .. Cardinality(Counted) /\ order \in [D -> Counted]
    BY DEF SetToSeqs
  <2>3. IsFiniteSet(1 .. Cardinality(Counted))
    BY <2>1, FS_Interval
  <2> HIDE DEF D
  <2> QED
    BY <2>1, <2>2, <2>3
<1> HIDE DEF D
<1>2. \A i \in D : order[i] \in Nat /\ VoteCount(order[i]) \in Nat /\ VoteCount(order[i]) > 0
  BY <1>1, CountedOptions
<1>3. \A T \in SUBSET D : T # {} => Max(T) \in T
  <2> SUFFICES ASSUME NEW T \in SUBSET D, T # {} PROVE Max(T) \in T
    OBVIOUS
  <2>1. IsFiniteSet(T) /\ T \subseteq Int
    <3>1. IsFiniteSet(T)
      BY <1>1, FS_Subset
    <3>2. \A i \in T : i \in Int
      BY <1>1
    <3> QED
      BY <3>1, <3>2
  <2> QED
    BY <2>1, MaxIsGreatest
<1> DEFINE Counts(fold) ==
             fold = [T \in SUBSET D |->
                       IF T = {} THEN NoTally ELSE CountedTo(fold[T \ {Max(T)}], order[Max(T)])]
           loop == CHOOSE fold : Counts(fold)
           Good == {T \in SUBSET D : IsTally(loop[T], order, T)}
<1>4. FoldLeft(CountedTo, NoTally, order) = loop[D]
  BY DEF FoldLeft, MapThenFoldSet, D
<1>5. \E fold : Counts(fold)
  <2> DEFINE pick == [T \in SUBSET D |-> Max(T)]
             step == [p \in D \X Tally |-> CountedTo(p[2], order[p[1]])]
  <2>1. Picks(pick, D)
    BY <1>3 DEF Picks
  <2>2. step \in [D \X Tally -> Tally]
    <3> SUFFICES ASSUME NEW a \in Tally, NEW i \in D PROVE CountedTo(a, order[i]) \in Tally
      OBVIOUS
    <3> DEFINE n == order[i]
    <3>1. n \in Nat /\ VoteCount(n) \in Nat
      BY <1>2
    <3> HIDE DEF n
    <3>2. CountedTo(a, n) \in Tally
      BY <3>1 DEF CountedTo, Tally
    <3> QED
      BY <3>2 DEF n
  <2>3. NoTally \in Tally
    BY DEF NoTally, Tally
  <2>4. PICK fold \in [SUBSET D -> Tally] : IsFold(fold, D, NoTally, pick, step)
    <3> HIDE DEF pick, step
    <3> QED
      BY <1>1, <2>1, <2>2, <2>3, FoldExists
  <2>5. ASSUME NEW T \in SUBSET D, T # {}
        PROVE  step[<<pick[T], fold[T \ {pick[T]}]>>] = CountedTo(fold[T \ {Max(T)}], order[Max(T)])
    <3>1. pick[T] = Max(T) /\ Max(T) \in D
      BY <1>3, <2>5
    <3>2. fold[T \ {Max(T)}] \in Tally
      OBVIOUS
    <3> QED
      BY <3>1, <3>2
  <2>6. Counts(fold)
    <3> HIDE DEF pick, step
    <3> QED
      BY <2>4, <2>5 DEF IsFold
  <2> QED
    BY <2>6
<1>6. Counts(loop)
  BY <1>5
<1> HIDE DEF loop
<1>7. {} \in Good
  <2>1. loop[{}] = NoTally
    BY <1>6
  <2> QED
    BY <2>1 DEF IsTally, NoTally, Tally
<1>8. ASSUME NEW T \in SUBSET D, T # {}
      PROVE  \E x \in T : T \ {x} \in Good => T \in Good
  <2>1. Max(T) \in T
    BY <1>3, <1>8
  <2>2. loop[T] = CountedTo(loop[T \ {Max(T)}], order[Max(T)])
    BY <1>6, <1>8
  <2>3. ASSUME T \ {Max(T)} \in Good PROVE IsTally(loop[T], order, T)
    <3> DEFINE a == loop[T \ {Max(T)}]
               x == Max(T)
    <3>1. x \in T /\ IsTally(a, order, T \ {x})
      BY <2>1, <2>3
    <3>2. /\ order[x] \in Nat /\ VoteCount(order[x]) \in Nat /\ VoteCount(order[x]) > 0
          /\ \A j \in T : VoteCount(order[j]) \in Nat
      BY <1>2, <2>1
    <3>3. loop[T] = CountedTo(a, order[x])
      BY <2>2
    <3> HIDE DEF a, x
    <3> QED
      BY <3>1, <3>2, <3>3, OneMoreCounted
  <2> QED
    BY <2>1, <2>3
<1>9. D \in Good
  <2> HIDE DEF Good
  <2>1. IsFiniteSet(D)
    BY <1>1
  <2>2. SUBSET D \subseteq Good
    BY <1>7, <1>8, <2>1, SubsetsByInduction
  <2> QED
    BY <2>2
<1> QED
  BY <1>4, <1>9 DEF D

LEMMA LowestOfTheMostVoted ==
  ASSUME votes \in [Ballot -> Nat]
  PROVE  WinnerIsDefinite
<1> SUFFICES ASSUME NEW order \in SetToSeqs(Counted), Counted # {}
             PROVE  WinnerInOrder(order) = Min({n \in Counted : VoteCount(n) = MostVotes})
  BY DEF WinnerIsDefinite
<1> DEFINE t == FoldLeft(CountedTo, NoTally, order)
           most == {n \in Counted : VoteCount(n) = MostVotes}
<1>1. IsTally(t, order, DOMAIN order)
  BY LoopCounts
<1>2. WinnerInOrder(order) = IF Cardinality(t.tied) > 1 THEN Min(t.tied) ELSE t.winner
  BY DEF WinnerInOrder, NoTally
<1> HIDE DEF t
<1>3. /\ IsFiniteSet(Counted) /\ Counted \subseteq Nat
      /\ \A n \in Counted : VoteCount(n) \in Nat
  BY CountedOptions
<1>4. \A n : n \in Counted <=> \E j \in DOMAIN order : n = order[j]
  <2> DEFINE k == Cardinality(Counted)
  <2>1. k \in Nat
    BY <1>3, FS_CardinalityType
  <2>2. /\ order \in [1 .. k -> Counted]
        /\ \A i, j \in 1 .. k : i # j => order[i] # order[j]
    BY DEF SetToSeqs
  <2>3. IsFiniteSet(1 .. k) /\ Cardinality(1 .. k) = k
    <3> HIDE DEF k
    <3>1. IsFiniteSet(1 .. k) /\ Cardinality(1 .. k) = IF 1 > k THEN 0 ELSE k - 1 + 1
      BY <2>1, FS_Interval
    <3> QED
      BY <2>1, <3>1
  <2>4. order \in Injection(1 .. k, Counted)
    <3> HIDE DEF k
    <3> QED
      BY <2>2 DEF Injection, IsInjective
  <2>5. order \in Surjection(1 .. k, Counted)
    BY <1>3, <2>3, <2>4, FS_Injection
  <2> HIDE DEF k
  <2> QED
    BY <2>2, <2>5 DEF Surjection
<1>5. /\ t.max \in Nat /\ t.winner \in t.tied
      /\ \A n \in t.tied : n \in Counted /\ VoteCount(n) = t.max
      /\ \A n \in Counted : VoteCount(n) <= t.max
      /\ \A n \in Counted : VoteCount(n) = t.max => n \in t.tied
  <2>1. DOMAIN order # {}
    BY <1>4
  <2> QED
    BY <1>1, <1>4, <2>1 DEF IsTally, Tally
<1>6. MostVotes = t.max
  <2> DEFINE counts == {VoteCount(n) : n \in Counted}
             f == [n \in Counted |-> VoteCount(n)]
  <2>1. f \in Surjection(Counted, counts)
    BY DEF Surjection
  <2>2. IsFiniteSet(counts)
    <3> HIDE DEF counts, f
    <3> QED
      BY <1>3, <2>1, FS_Surjection
  <2>3. \A c \in counts : c \in Nat /\ c <= t.max
    BY <1>3, <1>5
  <2>4. t.max \in counts
    BY <1>5
  <2>5. MostVotes = Max({0} \cup counts)
    BY DEF MostVotes
  <2> HIDE DEF counts
  <2>6. IsFiniteSet({0} \cup counts) /\ {0} \cup counts \subseteq Int /\ {0} \cup counts # {}
    BY <2>2, <2>3, FS_AddElement
  <2>7. Max({0} \cup counts) \in {0} \cup counts /\ \A c \in {0} \cup counts : Max({0} \cup counts) >= c
    BY <2>6, MaxIsGreatest
  <2> QED
    BY <1>5, <2>3, <2>4, <2>5, <2>7
<1>7. most = t.tied
  BY <1>5, <1>6
<1>8. CASE Cardinality(t.tied) > 1
  BY <1>2, <1>7, <1>8
<1>9. CASE ~(Cardinality(t.tied) > 1)
  <2>1. IsFiniteSet(t.tied)
    <3>1. t.tied \subseteq Counted
      BY <1>5
    <3> QED
      BY <1>3, <3>1, FS_Subset
  <2>2. Cardinality(t.tied) = 1
    BY <1>5, <1>9, <2>1, FS_CardinalityType, FS_EmptySet
  <2>3. t.tied = {t.winner}
    BY <1>5, <2>1, <2>2, FS_Singleton
  <2>4. t.winner \in Nat
    BY <1>3, <1>5
  <2>5. Min({t.winner}) = t.winner
    BY <2>4, MinIsLeast
  <2> QED
    BY <1>2, <1>7, <1>9, <2>3, <2>5
<1> QED
  BY <1>8, <1>9
=============================================================================

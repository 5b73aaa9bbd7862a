----------------------------- MODULE QueryProofs -----------------------------
(***************************************************************************)
(* A query, from its candidates to the diagnosis of its result.  The fused *)
(* list keeps the better chunks and the gate judges the best score; only   *)
(* safe evidence is asked about; a diagnosis that says PASS is grounded,   *)
(* and one that blames a stage is right.  All for any chunks, scores,      *)
(* limits and cases.                                                       *)
(***************************************************************************)
EXTENDS GoldDiagnosis, LoopProofs, FiniteSetTheorems, SequenceTheorems

-----------------------------------------------------------------------------
(* THE ORDER OF A LIST.                                                    *)

(* Scores that can be compared, of ids that can.                           *)
Scored(S, score) == /\ IsFiniteSet(S) /\ S \subseteq Int
                    /\ \A s \in S : score[s] \in Int

LEMMA PlacesFollowTheOrder ==
  ASSUME NEW S, NEW score, Scored(S, score)
  PROVE  /\ \A s \in S : Place(S, score, s) \in 1..Cardinality(S)
         /\ \A s, t \in S : Better(score, s, t) => Place(S, score, s) < Place(S, score, t)
         /\ \A s, t \in S : Place(S, score, s) = Place(S, score, t) => s = t
  <1> DEFINE Above(s) == {t \in S : Better(score, t, s)}
  <1>1. \A s \in S : IsFiniteSet(Above(s)) /\ Cardinality(Above(s)) \in Nat
    <2> SUFFICES ASSUME NEW s \in S PROVE IsFiniteSet(Above(s)) /\ Cardinality(Above(s)) \in Nat
      OBVIOUS
    <2>1. Above(s) \in SUBSET S /\ IsFiniteSet(S)
      BY DEF Scored
    <2> HIDE DEF Above
    <2> QED BY <2>1, FS_Subset, FS_CardinalityType
  <1>2. ASSUME NEW s \in S PROVE Cardinality(Above(s)) < Cardinality(S)
    <2>1. s \notin Above(s) /\ Above(s) \in SUBSET S /\ IsFiniteSet(S)
      BY DEF Scored, Better
    <2> HIDE DEF Above
    <2>2. Cardinality(Above(s)) <= Cardinality(S) /\ Cardinality(S) # Cardinality(Above(s))
      BY <2>1, FS_Subset
    <2>3. Cardinality(S) \in Nat
      BY <2>1, FS_CardinalityType
    <2> QED BY <1>1, <2>2, <2>3
  <1>3. ASSUME NEW s \in S, NEW t \in S, Better(score, s, t)
        PROVE  Cardinality(Above(s)) < Cardinality(Above(t))
    <2>1. Above(s) \subseteq Above(t)
      <3> SUFFICES ASSUME NEW r \in S, Better(score, r, s) PROVE Better(score, r, t)
        OBVIOUS
      <3>1. /\ r \in Int /\ s \in Int /\ t \in Int /\ score[r] \in Int /\ score[s] \in Int
            /\ score[t] \in Int
        BY DEF Scored
      <3> QED BY <1>3, <3>1 DEF Better
    <2>2. s \in Above(t) /\ s \notin Above(s)
      BY <1>3 DEF Scored, Better
    <2>3. IsFiniteSet(Above(t)) /\ Cardinality(Above(t)) \in Nat /\ Cardinality(Above(s)) \in Nat
      BY <1>1
    <2> HIDE DEF Above
    <2>4. Cardinality(Above(s)) <= Cardinality(Above(t))
          /\ Cardinality(Above(t)) # Cardinality(Above(s))
      BY <2>1, <2>2, <2>3, FS_Subset
    <2> QED BY <2>3, <2>4
  <1>4. ASSUME NEW s \in S, NEW t \in S, s # t
        PROVE  Better(score, s, t) \/ Better(score, t, s)
    BY <1>4 DEF Scored, Better
  <1>5. \A s \in S : Place(S, score, s) = 1 + Cardinality(Above(s))
    BY DEF Place
  <1>6. Cardinality(S) \in Nat
    BY FS_CardinalityType DEF Scored
  <1> HIDE DEF Above
  <1>7. \A s \in S : Place(S, score, s) \in 1..Cardinality(S)
    BY <1>1, <1>2, <1>5, <1>6
  <1>8. \A s, t \in S : Better(score, s, t) => Place(S, score, s) < Place(S, score, t)
    BY <1>1, <1>3, <1>5
  <1>9. \A s, t \in S : Place(S, score, s) = Place(S, score, t) => s = t
    BY <1>1, <1>3, <1>4, <1>5
  <1> QED BY <1>7, <1>8, <1>9

(* Every place is taken: the best-first list is a list of the sources.     *)
LEMMA PlacesAreTaken ==
  ASSUME NEW S, NEW score, Scored(S, score), NEW i \in 1..Cardinality(S)
  PROVE  \E s \in S : Place(S, score, s) = i
  <1> DEFINE T == 1..Cardinality(S)
             f == [s \in S |-> Place(S, score, s)]
  <1>1. Cardinality(S) \in Nat /\ IsFiniteSet(S)
    BY FS_CardinalityType DEF Scored
  <1>2. IsFiniteSet(T) /\ Cardinality(T) = Cardinality(S)
    BY <1>1, FS_Interval
  <1>3. f \in Injection(S, T)
    <2>1. f \in [S -> T]
      BY PlacesFollowTheOrder
    <2>2. \A s, t \in S : f[s] = f[t] => s = t
      BY PlacesFollowTheOrder
    <2> HIDE DEF f, T
    <2> QED BY <2>1, <2>2 DEF Injection, IsInjective
  <1>4. f \in Surjection(S, T)
    <2> HIDE DEF f, T
    <2> QED BY <1>2, <1>3, FS_Injection
  <1>5. \E s \in S : f[s] = i
    <2> HIDE DEF f
    <2> QED BY <1>4 DEF Surjection
  <1> QED BY <1>5

LEMMA Shorter ==
  ASSUME NEW a, a \in Nat, NEW b, b \in Nat
  PROVE  Min({a, b}) = IF a <= b THEN a ELSE b
  <1> DEFINE m == IF a <= b THEN a ELSE b
  <1>1. m \in {a, b} /\ \A x \in {a, b} : m <= x
    OBVIOUS
  <1>2. \A n \in {a, b} : (\A x \in {a, b} : n <= x) => n = m
    OBVIOUS
  <1> QED BY <1>1, <1>2 DEF Min

(* What BestFirst returns.                                                 *)
LEMMA BestFirstList ==
  ASSUME NEW S, NEW score, Scored(S, score), NEW n, n \in Nat
  PROVE  LET list == BestFirst(S, score, n)
         IN  /\ list \in Seq(S) /\ Len(list) <= n
             /\ Len(list) = IF n <= Cardinality(S) THEN n ELSE Cardinality(S)
             /\ \A i \in 1..Len(list) : Place(S, score, list[i]) = i
  <1> DEFINE list == BestFirst(S, score, n)
             m == IF n <= Cardinality(S) THEN n ELSE Cardinality(S)
  <1>1. Cardinality(S) \in Nat
    BY FS_CardinalityType DEF Scored
  <1>2. list = [i \in 1..m |-> CHOOSE s \in S : Place(S, score, s) = i]
    BY <1>1, Shorter DEF BestFirst
  <1>3. ASSUME NEW i \in 1..m
        PROVE  list[i] \in S /\ Place(S, score, list[i]) = i
    <2>1. i \in 1..Cardinality(S)
      BY <1>1
    <2>2. \E s \in S : Place(S, score, s) = i
      BY <2>1, PlacesAreTaken
    <2>3. list[i] = CHOOSE s \in S : Place(S, score, s) = i
      BY <1>2
    <2> HIDE DEF list
    <2> QED BY <2>2, <2>3
  <1>4. m \in Nat /\ m <= n
    BY <1>1
  <1> HIDE DEF list, m
  <1>5. list \in [1..m -> S]
    BY <1>2, <1>3
  <1>6. list \in Seq(S) /\ Len(list) = m
    BY <1>4, <1>5
  <1> QED BY <1>3, <1>4, <1>6 DEF list, m

(* A source of the list is at its place; who is at a place within the      *)
(* length is in the list.                                                  *)
LEMMA RankIsPlace ==
  ASSUME NEW S, NEW score, Scored(S, score), NEW n, n \in Nat, NEW s, s \in S
  PROVE  LET list == BestFirst(S, score, n)
         IN  /\ s \in Range(list) <=> Place(S, score, s) <= Len(list)
             /\ s \in Range(list) => Rank(list, s) = Place(S, score, s)
                                     /\ Rank(list, s) \in 1..Len(list)
                                     /\ Rank(list, s) \in 1..Cardinality(S)
  <1> DEFINE list == BestFirst(S, score, n)
             p == Place(S, score, s)
  <1>1. /\ list \in Seq(S)
        /\ Len(list) = IF n <= Cardinality(S) THEN n ELSE Cardinality(S)
        /\ \A i \in 1..Len(list) : Place(S, score, list[i]) = i
    BY BestFirstList
  <1>2. p \in 1..Cardinality(S) /\ Cardinality(S) \in Nat
    BY PlacesFollowTheOrder, FS_CardinalityType DEF Scored
  <1>3. \A i \in 1..Len(list) : list[i] \in S /\ (list[i] = s <=> i = p)
    <2>1. \A i \in 1..Len(list) : list[i] \in S
      BY <1>1
    <2>2. \A t \in S : Place(S, score, t) = p => t = s
      BY PlacesFollowTheOrder
    <2> HIDE DEF list
    <2> QED BY <1>1, <2>1, <2>2
  <1>4. DOMAIN list = 1..Len(list) /\ Len(list) \in Nat
    <2> HIDE DEF list
    <2> QED BY <1>1
  <1> HIDE DEF list, p
  <1>5. s \in Range(list) <=> p <= Len(list)
    BY <1>2, <1>3, <1>4 DEF Range
  <1>6. ASSUME s \in Range(list) PROVE Rank(list, s) = p
    <2>1. p \in 1..Len(list)
      BY <1>2, <1>4, <1>5, <1>6
    <2> QED BY <1>3, <2>1 DEF Rank
  <1>7. p <= Len(list) => p \in 1..Len(list)
    BY <1>2, <1>4
  <1> QED BY <1>2, <1>5, <1>6, <1>7 DEF list, p

(* The better of two is before the other, and in the list if that is.      *)
LEMMA BetterIsBefore ==
  ASSUME NEW S, NEW score, Scored(S, score), NEW n, n \in Nat,
         NEW s, s \in S, NEW t, t \in S, Better(score, s, t),
         t \in Range(BestFirst(S, score, n))
  PROVE  Before(BestFirst(S, score, n), s, t)
  <1> DEFINE list == BestFirst(S, score, n)
  <1>1. Place(S, score, s) < Place(S, score, t)
        /\ Place(S, score, s) \in Int /\ Place(S, score, t) \in Int
    <2>1. Place(S, score, s) \in 1..Cardinality(S) /\ Place(S, score, t) \in 1..Cardinality(S)
          /\ Place(S, score, s) < Place(S, score, t)
      BY PlacesFollowTheOrder
    <2> QED BY <2>1
  <1>2. Len(list) \in Nat
    <2>1. list \in Seq(S)
      BY BestFirstList
    <2> HIDE DEF list
    <2> QED BY <2>1
  <1>3. Place(S, score, t) <= Len(list) /\ Rank(list, t) = Place(S, score, t)
    BY RankIsPlace
  <1>4. Place(S, score, s) <= Len(list)
    <2> HIDE DEF list
    <2> QED BY <1>1, <1>2, <1>3
  <1>5. s \in Range(list) /\ Rank(list, s) = Place(S, score, s)
    BY <1>4, RankIsPlace
  <1> HIDE DEF list
  <1>6. Before(list, s, t)
    BY <1>1, <1>3, <1>5 DEF Before
  <1> QED BY <1>6 DEF list

-----------------------------------------------------------------------------
(* FUSION.                                                                 *)

List == Seq(Sources)

(* A list of sources, each at a rank that the scale of Unit divides.       *)
Ranked(list) ==
    list \in List /\ \A s \in Range(list) : Rank(list, s) \in 1..Cardinality(Sources)

LEMMA ManySources == Cardinality(Sources) \in Nat /\ Sources \subseteq Int /\ IsFiniteSet(Sources)
  BY RankFusionAssumption, FS_CardinalityType

LEMMA RankInList ==
  ASSUME NEW list, list \in List, NEW s, s \in Range(list)
  PROVE  Rank(list, s) \in 1..Len(list) /\ list[Rank(list, s)] = s /\ s \in Sources
  <1>1. DOMAIN list = 1..Len(list)
    BY DEF List
  <1>2. \E i \in 1..Len(list) : list[i] = s
    BY <1>1 DEF Range
  <1>3. s \in Sources
    BY <1>2 DEF List
  <1> QED BY <1>2, <1>3 DEF Rank

LEMMA ContributionIsScore ==
  ASSUME NEW list, list \in List, NEW s
  PROVE  Contribution(list, s) \in Nat
  <1>1. CASE s \in Range(list)
    <2>1. Rank(list, s) \in 1..Len(list) /\ Len(list) \in Nat
      BY <1>1, RankInList DEF List
    <2>2. PICK k \in Nat \ {0} : k = RrfK + Rank(list, s)
      BY <2>1, RankFusionAssumption
    <2>3. Unit \div k \in Nat
      BY RankFusionAssumption
    <2> QED BY <1>1, <2>2, <2>3 DEF Contribution
  <1>2. CASE s \notin Range(list)
    BY <1>2 DEF Contribution
  <1> QED BY <1>1, <1>2

(* A worse rank is worth less, and every rank something.                   *)
LEMMA WorseRankIsLess ==
  ASSUME NEW a, a \in 1..Cardinality(Sources)
  PROVE  /\ Unit \div (RrfK + a) > 0
         /\ \A b \in 1..Cardinality(Sources) :
               a < b => Unit \div (RrfK + a) > Unit \div (RrfK + b)
  <1>1. \A r \in 1..Cardinality(Sources) :
           /\ RrfK + r \in Nat \ {0} /\ Unit \div (RrfK + r) \in Nat
           /\ Unit = (RrfK + r) * (Unit \div (RrfK + r))
    <2> SUFFICES ASSUME NEW r \in 1..Cardinality(Sources)
                 PROVE  /\ RrfK + r \in Nat \ {0} /\ Unit \div (RrfK + r) \in Nat
                        /\ Unit = (RrfK + r) * (Unit \div (RrfK + r))
      OBVIOUS
    <2>1. PICK k \in Nat \ {0} : k = RrfK + r
      BY RankFusionAssumption, ManySources
    <2>2. Unit % k = 0 /\ Unit \in Nat
      BY <2>1, RankFusionAssumption
    <2>3. Unit \div k \in Nat /\ Unit = k * (Unit \div k)
      BY <2>2
    <2> QED BY <2>1, <2>3
  <1>2. PICK k, x : k = RrfK + a /\ x = Unit \div (RrfK + a)
    OBVIOUS
  <1>3. k \in Nat \ {0} /\ x \in Nat /\ Unit = k * x /\ Unit \in Nat \ {0}
    BY <1>1, <1>2, RankFusionAssumption
  <1>4. x > 0
    <2>1. CASE x = 0
      BY <1>3, <2>1
    <2> QED BY <1>3, <2>1
  <1>5. ASSUME NEW b \in 1..Cardinality(Sources), a < b
        PROVE  x > Unit \div (RrfK + b)
    <2>1. PICK l, y : l = RrfK + b /\ y = Unit \div (RrfK + b)
      OBVIOUS
    <2>2. l \in Nat \ {0} /\ y \in Nat /\ Unit = l * y /\ k < l
      BY <1>1, <1>2, <1>5, <2>1, RankFusionAssumption, ManySources
    <2>3. CASE x <= y
      <3>1. k * x <= k * y
        BY <1>3, <2>2, <2>3
      <3>2. k * y < l * y
        BY <1>3, <1>4, <2>2, <2>3
      <3>3. k * x \in Nat /\ k * y \in Nat /\ l * y \in Nat
        BY <1>3, <2>2
      <3> QED BY <1>3, <2>2, <3>1, <3>2, <3>3
    <2> QED BY <1>3, <2>1, <2>2, <2>3
  <1> QED BY <1>2, <1>4, <1>5

LEMMA FusedScores ==
  ASSUME NEW dense, dense \in List, NEW sparse, sparse \in List
  PROVE  LET found == Range(dense) \cup Range(sparse)
         IN  /\ found \subseteq Sources
             /\ Scored(found, [s \in found |-> FusedScore(dense, sparse, s)])
  <1> DEFINE found == Range(dense) \cup Range(sparse)
  <1>1. found \subseteq Sources
    BY RankInList
  <1>2. IsFiniteSet(found) /\ found \subseteq Int
    BY <1>1, ManySources, FS_Subset
  <1>3. \A s \in found : FusedScore(dense, sparse, s) \in Int
    <2> SUFFICES ASSUME NEW s PROVE FusedScore(dense, sparse, s) \in Int
      OBVIOUS
    <2>1. Contribution(dense, s) \in Nat /\ Contribution(sparse, s) \in Nat
      BY ContributionIsScore
    <2> QED BY <2>1 DEF FusedScore
  <1> HIDE DEF found
  <1> QED BY <1>1, <1>2, <1>3 DEF Scored, found

LEMMA FuseKeepsTheBetter ==
  ASSUME NEW dense, Ranked(dense), NEW sparse, Ranked(sparse), NEW window, window \in Nat,
         NEW s, NEW t, t \in Range(Fuse(dense, sparse, window)),
         Dominates(dense, sparse, s, t)
  PROVE  Before(Fuse(dense, sparse, window), s, t)
  <1> DEFINE found == Range(dense) \cup Range(sparse)
             score == [r \in found |-> FusedScore(dense, sparse, r)]
  <1>1. dense \in List /\ sparse \in List
    BY DEF Ranked
  <1>2. Scored(found, score)
    BY <1>1, FusedScores
  <1>3. Fuse(dense, sparse, window) = BestFirst(found, score, window)
    BY DEF Fuse
  <1>4. t \in found
    <2>1. BestFirst(found, score, window) \in Seq(found)
      <3> HIDE DEF found, score
      <3> QED BY <1>2, BestFirstList
    <2>2. \A list : list \in Seq(found) => Range(list) \subseteq found
      <3> HIDE DEF found
      <3> QED BY DEF Range
    <2> HIDE DEF found, score
    <2> QED BY <1>3, <2>1, <2>2
  <1>5. s \in found
    BY DEF Dominates, Before
  <1>6. ASSUME NEW list, Ranked(list), t \in Range(list) => Before(list, s, t)
        PROVE  /\ Contribution(list, s) \in Nat /\ Contribution(list, t) \in Nat
               /\ Contribution(list, s) >= Contribution(list, t)
               /\ Before(list, s, t) => Contribution(list, s) > Contribution(list, t)
    <2>1. Contribution(list, s) \in Nat /\ Contribution(list, t) \in Nat
      BY <1>6, ContributionIsScore DEF Ranked
    <2>2. ASSUME Before(list, s, t) PROVE Contribution(list, s) > Contribution(list, t)
      <3>1. s \in Range(list) /\ Rank(list, s) \in 1..Cardinality(Sources)
        BY <1>6, <2>2 DEF Before, Ranked
      <3>2. CASE t \in Range(list)
        <4>1. Rank(list, s) < Rank(list, t) /\ Rank(list, t) \in 1..Cardinality(Sources)
          BY <1>6, <2>2, <3>2 DEF Before, Ranked
        <4> QED BY <3>1, <3>2, <4>1, WorseRankIsLess DEF Contribution
      <3>3. CASE t \notin Range(list)
        BY <3>1, <3>3, WorseRankIsLess DEF Contribution
      <3> QED BY <3>2, <3>3
    <2>3. CASE t \in Range(list)
      BY <1>6, <2>1, <2>2, <2>3
    <2>4. CASE t \notin Range(list)
      <3>1. Contribution(list, t) = 0
        BY <2>4 DEF Contribution
      <3> QED BY <2>1, <2>2, <3>1
    <2> QED BY <2>1, <2>2, <2>3, <2>4
  <1>7. FusedScore(dense, sparse, s) > FusedScore(dense, sparse, t)
    <2>1. /\ Contribution(dense, s) \in Nat /\ Contribution(dense, t) \in Nat
          /\ Contribution(dense, s) >= Contribution(dense, t)
          /\ Before(dense, s, t) => Contribution(dense, s) > Contribution(dense, t)
      BY <1>6 DEF Dominates
    <2>2. /\ Contribution(sparse, s) \in Nat /\ Contribution(sparse, t) \in Nat
          /\ Contribution(sparse, s) >= Contribution(sparse, t)
          /\ Before(sparse, s, t) => Contribution(sparse, s) > Contribution(sparse, t)
      BY <1>6 DEF Dominates
    <2>3. Before(dense, s, t) \/ Before(sparse, s, t)
      BY DEF Dominates
    <2> QED BY <2>1, <2>2, <2>3 DEF FusedScore
  <1>8. Better(score, s, t)
    <2> HIDE DEF found
    <2> QED BY <1>4, <1>5, <1>7 DEF Better
  <1> HIDE DEF found, score
  <1> QED BY <1>2, <1>3, <1>4, <1>5, <1>8, BetterIsBefore

-----------------------------------------------------------------------------
(* THE FILTER.                                                             *)

SafeList(texts, list) == \A s \in Range(list) : ~texts[s].unsafe

(* What the filter returns is safe, comes from the list, and is the list   *)
(* when there is nothing to remove.                                        *)
LEMMA SafeOnlyKeeps ==
  ASSUME NEW texts, NEW list, list \in List
  PROVE  /\ SafeOnly(texts, list) \in List
         /\ Range(SafeOnly(texts, list)) \subseteq Range(list)
         /\ SafeList(texts, SafeOnly(texts, list))
         /\ SafeList(texts, list) => SafeOnly(texts, list) = list
  <1> DEFINE n == Len(list)
             After(i, kept) == IF texts[list[i]].unsafe THEN kept ELSE Append(kept, list[i])
             Step == [x \in (1..n) \X List |-> After(x[1], x[2])]
             Defines(kept) == kept = [i \in 0..n |->
               IF i = 0 THEN <<>> ELSE After(i, kept[i - 1])]
  <1>1. n \in Nat /\ list \in [1..n -> Sources] /\ DOMAIN list = 1..n /\ <<>> \in List
    BY DEF List
  <1>2. \A i \in 1..n, kept \in List : After(i, kept) \in List
    BY <1>1 DEF List
  <1>3. \A i \in 1..n, kept \in List : Step[<<i, kept>>] = After(i, kept)
    <2> HIDE DEF After
    <2> QED OBVIOUS
  <1>4. Step \in LoopBody(n, List)
    <2> HIDE DEF After, n
    <2> QED BY <1>2 DEF LoopBody
  <1>5. PICK kept : IsLoop(kept, n, List, <<>>, Step)
    <2> HIDE DEF Step, n
    <2> QED BY <1>1, <1>4, LoopRuns
  <1>6. /\ kept \in [0..n -> List] /\ kept[0] = <<>>
        /\ \A i \in 1..n : kept[i - 1] \in List /\ kept[i] = After(i, kept[i - 1])
    <2> HIDE DEF Step, After, n
    <2> QED BY <1>3, <1>5 DEF IsLoop
  <1>7. Defines(kept)
    <2> HIDE DEF n, After
    <2>1. kept = [i \in 0..n |-> kept[i]]
      BY <1>6
    <2>2. \A i \in 0..n : kept[i] = IF i = 0 THEN <<>> ELSE After(i, kept[i - 1])
      BY <1>1, <1>6
    <2> QED BY <2>1, <2>2
  <1>8. ASSUME NEW other, Defines(other) PROVE other = kept
    <2>1. other = [i \in 0..n |-> other[i]] /\ other[0] = <<>>
      <3> HIDE DEF n, After
      <3>1. 0 \in 0..n
        BY <1>1
      <3> QED BY <1>8, <3>1
    <2>2. \A i \in 1..n : other[i] = After(i, other[i - 1])
      <3> HIDE DEF n, After
      <3>1. \A i \in 1..n : i \in 0..n /\ i # 0
        BY <1>1
      <3> QED BY <1>8, <3>1
    <2> HIDE DEF Step, After, n
    <2>3. Follows(other, n, List, <<>>, Step)
      BY <1>3, <2>1, <2>2 DEF Follows
    <2> QED BY <1>1, <1>5, <2>3, LoopIsUnique
  <1>9. SafeOnly(texts, list) = (CHOOSE other : Defines(other))[n]
    BY DEF SafeOnly
  <1>10. SafeOnly(texts, list) = kept[n]
    <2> HIDE DEF Defines
    <2> QED BY <1>7, <1>8, <1>9
  <1> DEFINE Good == {i \in 0..n :
               /\ kept[i] \in List
               /\ Range(kept[i]) \subseteq Range(list)
               /\ SafeList(texts, kept[i])
               /\ SafeList(texts, list) =>
                     Len(kept[i]) = i /\ \A j \in 1..i : kept[i][j] = list[j]}
  <1> HIDE DEF n
  <1>11. 0 \in Good
    <2>1. Range(<<>>) = {} /\ Len(<<>>) = 0
      BY DEF Range
    <2> QED BY <1>1, <1>6, <2>1 DEF SafeList
  <1>12. ASSUME NEW i \in 1..n, i - 1 \in Good PROVE i \in Good
    <2>1. PICK before : before \in List /\ before = kept[i - 1]
                        /\ kept[i] = After(i, before)
      BY <1>6
    <2>2. /\ Range(before) \subseteq Range(list) /\ SafeList(texts, before)
          /\ SafeList(texts, list) =>
                Len(before) = i - 1 /\ \A j \in 1..i - 1 : before[j] = list[j]
      BY <1>12, <2>1
    <2>3. list[i] \in Range(list) /\ list[i] \in Sources
      BY <1>1 DEF Range
    <2>4. CASE texts[list[i]].unsafe
      <3>1. kept[i] = before /\ ~SafeList(texts, list)
        BY <2>1, <2>3, <2>4 DEF SafeList
      <3> QED BY <2>1, <2>2, <3>1
    <2>5. CASE ~texts[list[i]].unsafe
      <3> DEFINE after == Append(before, list[i])
      <3>1. kept[i] = after
        BY <2>1, <2>5
      <3>2. /\ after \in List /\ Len(after) = Len(before) + 1 /\ Len(before) \in Nat
            /\ \A j \in 1..Len(before) : after[j] = before[j]
            /\ after[Len(before) + 1] = list[i]
            /\ DOMAIN after = 1..Len(before) + 1 /\ DOMAIN before = 1..Len(before)
        BY <2>1, <2>3 DEF List
      <3> HIDE DEF after
      <3>3. Range(after) = Range(before) \cup {list[i]}
        BY <3>2 DEF Range
      <3>4. Range(after) \subseteq Range(list) /\ SafeList(texts, after)
        BY <2>2, <2>3, <2>5, <3>3 DEF SafeList
      <3>5. ASSUME SafeList(texts, list)
            PROVE  Len(after) = i /\ \A j \in 1..i : after[j] = list[j]
        <4>1. Len(before) = i - 1 /\ \A j \in 1..i - 1 : before[j] = list[j]
          BY <2>2, <3>5
        <4>2. Len(after) = i
          BY <1>1, <3>2, <4>1
        <4> QED BY <1>1, <3>2, <4>1, <4>2
      <3>6. i \in 0..n
        BY <1>1
      <3> QED BY <3>1, <3>2, <3>4, <3>5, <3>6
    <2> QED BY <2>4, <2>5
  <1>13. n \in Good
    <2> HIDE DEF Good
    <2>1. \A i \in 1..n : i - 1 \in Good => i \in Good
      BY <1>12
    <2>2. 0..n \subseteq Good
      BY <1>1, <1>11, <2>1, EveryRound
    <2> QED BY <1>1, <2>2
  <1>14. ASSUME SafeList(texts, list) PROVE kept[n] = list
    <2>1. kept[n] \in List /\ Len(kept[n]) = n /\ \A j \in 1..n : kept[n][j] = list[j]
      BY <1>13, <1>14
    <2> QED BY <1>1, <2>1 DEF List, n
  <1> QED BY <1>10, <1>13, <1>14

-----------------------------------------------------------------------------
(* THE GATE.                                                               *)

(* What a search returns; the order of the debug list is left open.        *)
FoundType(debug) ==
    [mode : Modes, reranked : BOOLEAN, dense : List, sparse : List,
     denseScore : ScoreOf(Nat), sparseScore : ScoreOf(Nat), rerankScore : ScoreOf(Nat),
     fused : List, debug : {debug}, picked : List, window : List, candidates : List]
FoundOK(found) == found \in FoundType(found.debug)

LEMMA ScoreForIsScore ==
  ASSUME NEW found, FoundOK(found), NEW kind, NEW s, s \in Sources
  PROVE  ScoreFor(found, kind, s) \in Int
  <1>1. /\ found.rerankScore[s] * Unit \in Int /\ found.denseScore[s] * Unit \in Int
        /\ found.sparseScore[s] * Unit \in Int
    <2>1. /\ found.rerankScore[s] \in Nat /\ found.denseScore[s] \in Nat
          /\ found.sparseScore[s] \in Nat /\ Unit \in Nat
      BY RankFusionAssumption DEF FoundOK, FoundType, ScoreOf
    <2> QED BY <2>1
  <1>2. FusedScore(found.dense, found.sparse, s) \in Int
    <2>1. Contribution(found.dense, s) \in Nat /\ Contribution(found.sparse, s) \in Nat
      BY ContributionIsScore DEF FoundOK, FoundType
    <2> QED BY <2>1 DEF FusedScore
  <1> QED BY <1>1, <1>2 DEF ScoreFor

LEMMA TopScoreIsBest ==
  ASSUME NEW found, FoundOK(found), found.candidates # <<>>, NEW kind
  PROVE  LET ranked == Scores(found, kind)
         IN  /\ ranked # <<>>
             /\ \A s \in Range(found.candidates) :
                   ScoreFor(found, kind, s) \in Int /\ ScoreFor(found, kind, s) <= ranked[1]
             /\ Len(ranked) > 1 => ranked[1] - ranked[2] >= 0
  <1> DEFINE list == found.candidates
             n == Len(list)
             D == 1..n
             score == ScoresInRankOrder(found, kind)
             best == BestFirst(D, score, n)
             ranked == Scores(found, kind)
  <1>1. list \in List /\ n \in Nat /\ n >= 1 /\ DOMAIN list = D
    BY DEF FoundOK, FoundType, List
  <1>2. /\ DOMAIN score = D
        /\ \A i \in D : list[i] \in Sources /\ score[i] = ScoreFor(found, kind, list[i])
                        /\ score[i] \in Int
    <2>1. \A i \in D : list[i] \in Sources
      BY <1>1 DEF List
    <2>2. score = [i \in D |-> ScoreFor(found, kind, list[i])]
      BY <1>1 DEF ScoresInRankOrder
    <2> HIDE DEF score, D, list
    <2> QED BY <2>1, <2>2, ScoreForIsScore
  <1>3. Len(score) = n
    <2>1. score \in Seq(Int)
      <3>1. score = [i \in D |-> score[i]]
        BY <1>1 DEF ScoresInRankOrder
      <3> HIDE DEF score, n
      <3> QED BY <1>1, <1>2, <3>1
    <2> HIDE DEF score, n
    <2> QED BY <1>1, <1>2, <2>1
  <1>4. Scored(D, score) /\ Cardinality(D) = n
    <2>1. IsFiniteSet(D) /\ Cardinality(D) = n
      <3> HIDE DEF n
      <3> QED BY <1>1, FS_Interval
    <2> HIDE DEF score, n
    <2> QED BY <1>2, <2>1 DEF Scored
  <1>5. /\ best \in Seq(D) /\ Len(best) = n
        /\ \A i \in 1..n : Place(D, score, best[i]) = i
    <2> HIDE DEF score, n, D
    <2> QED BY <1>1, <1>4, BestFirstList
  <1>6. ranked = [i \in D |-> score[best[i]]]
    <2>1. DOMAIN best = D
      <3> HIDE DEF best
      <3> QED BY <1>1, <1>5
    <2>2. ranked = [i \in DOMAIN best |-> score[best[i]]]
      <3>1. BestFirst(DOMAIN score, score, Len(score)) = best
        BY <1>2, <1>3
      <3> HIDE DEF best, score
      <3> QED BY <3>1 DEF Scores, score
    <2> HIDE DEF best, score, D, ranked
    <2> QED BY <2>1, <2>2
  <1>7. \A i \in D : best[i] \in D
    <2> HIDE DEF best, score
    <2> QED BY <1>5
  <1>8. 1 \in D /\ (n > 1 => 2 \in D)
    <2> HIDE DEF n
    <2> QED BY <1>1
  <1> HIDE DEF best, score, ranked, D
  <1>9. \A j \in D : score[j] <= score[best[1]]
    <2> SUFFICES ASSUME NEW j \in D PROVE score[j] <= score[best[1]]
      OBVIOUS
    <2>1. Place(D, score, best[1]) = 1
      BY <1>1, <1>5
    <2>2. Place(D, score, j) \in 1..n
      BY <1>4, PlacesFollowTheOrder
    <2>3. ~Better(score, j, best[1])
      <3>1. CASE Better(score, j, best[1])
        <4>1. Place(D, score, j) < Place(D, score, best[1])
          BY <1>4, <1>7, <1>8, <3>1, PlacesFollowTheOrder
        <4> QED BY <2>1, <2>2, <4>1
      <3> QED BY <3>1
    <2>4. score[j] \in Int /\ score[best[1]] \in Int
      BY <1>2, <1>7, <1>8
    <2> QED BY <2>3, <2>4 DEF Better
  <1>10. ranked[1] = score[best[1]] /\ ranked # <<>> /\ Len(ranked) = n
    <2>1. ranked \in Seq(Int) /\ ranked[1] = score[best[1]] /\ DOMAIN ranked = 1..n
      <3>1. \A i \in D : score[best[i]] \in Int
        BY <1>2, <1>7
      <3> QED BY <1>1, <1>6, <1>8, <3>1 DEF D
    <2> HIDE DEF n
    <2> QED BY <1>1, <2>1
  <1>11. ASSUME NEW s \in Range(list)
         PROVE  ScoreFor(found, kind, s) \in Int /\ ScoreFor(found, kind, s) <= ranked[1]
    <2>1. PICK j \in D : s = list[j]
      BY <1>1 DEF Range
    <2> QED BY <1>2, <1>9, <1>10, <2>1
  <1>12. ASSUME n > 1 PROVE ranked[1] - ranked[2] >= 0
    <2>1. ranked[2] = score[best[2]] /\ best[2] \in D
      BY <1>6, <1>7, <1>8, <1>12
    <2> QED BY <1>2, <1>7, <1>8, <1>9, <1>10, <2>1
  <1> QED BY <1>10, <1>11, <1>12 DEF ranked

(* A question that is answered had evidence that states what it names.     *)
LEMMA AnsweredIsQualified ==
  ASSUME NEW texts, NEW found, NEW blocked,
         Assess(texts, found, blocked).decision # "NO_ANSWER"
  PROVE  /\ ~blocked
         /\ Len(found.candidates) # 0
         /\ Qualifiers \subseteq TextOf(texts, found.candidates, "context")
  <1>1. ~blocked
    BY DEF Assess, NoAnswer
  <1> DEFINE policy == SelectPolicy(texts, found.candidates)
             signals == Signals(texts, found)
  <1>2. Decide(policy, signals).decision # "NO_ANSWER"
    BY <1>1 DEF Assess
  <1>3. signals.count = Len(found.candidates)
        /\ (signals.qualified <=> Qualifiers \subseteq TextOf(texts, found.candidates, "context"))
    BY DEF Signals
  <1> HIDE DEF policy, signals
  <1>4. signals.count # 0 /\ signals.qualified
    <2>1. CASE signals.count = 0
      BY <1>2, <2>1 DEF Decide, NoAnswer
    <2>2. CASE signals.count # 0 /\ ~signals.qualified
      BY <1>2, <2>2 DEF Decide, NoAnswer
    <2> QED BY <2>1, <2>2
  <1> QED BY <1>1, <1>3, <1>4

-----------------------------------------------------------------------------
(* THE SEARCH.                                                             *)

LEMMA HeadOfList ==
  ASSUME NEW list, list \in List, NEW n, n \in Nat
  PROVE  SubSeq(list, 1, Min({n, Len(list)})) \in List
  <1>1. Len(list) \in Nat
    BY DEF List
  <1> DEFINE m == Min({n, Len(list)})
  <1>2. m = IF n <= Len(list) THEN n ELSE Len(list)
    BY <1>1, Shorter
  <1> HIDE DEF m
  <1>3. m \in Nat /\ m <= Len(list)
    BY <1>1, <1>2
  <1>4. \A i \in 1..m : list[i] \in Sources
    BY <1>1, <1>3 DEF List
  <1>5. SubSeq(list, 1, m) \in Seq(Sources)
    BY <1>3, <1>4, SubSeqProperties
  <1> QED BY <1>5 DEF List, m

LEMMA RangeOfList ==
  ASSUME NEW list, list \in List
  PROVE  Range(list) \subseteq Sources /\ IsFiniteSet(Range(list))
  <1>1. Range(list) \subseteq Sources
    BY RankInList
  <1> QED BY <1>1, ManySources, FS_Subset

(* The sources that a branch scored, best first.                           *)
LEMMA BranchIsRanked ==
  ASSUME NEW score, score \in ScoreOf(Nat)
  PROVE  Ranked(BestFirst({s \in Sources : score[s] > 0}, score, Cardinality(Sources)))
  <1> DEFINE S == {s \in Sources : score[s] > 0}
             n == Cardinality(Sources)
             list == BestFirst(S, score, n)
  <1>1. S \subseteq Sources /\ IsFiniteSet(S) /\ S \subseteq Int
        /\ Cardinality(S) \in Nat /\ Cardinality(S) <= n
    <2>1. S \subseteq Sources
      OBVIOUS
    <2> HIDE DEF S
    <2> QED BY <2>1, ManySources, FS_Subset, FS_CardinalityType
  <1>2. Scored(S, score)
    <2>1. \A s \in S : score[s] \in Int
      BY DEF ScoreOf
    <2> HIDE DEF S
    <2> QED BY <1>1, <2>1 DEF Scored
  <1>3. n \in Nat
    BY ManySources
  <1> HIDE DEF S, n
  <1>4. list \in Seq(S)
    BY <1>2, <1>3, BestFirstList
  <1>5. list \in List
    <2> HIDE DEF list
    <2>1. list \in Seq(Sources)
      BY <1>1, <1>4, SeqMonotonic
    <2> QED BY <2>1 DEF List
  <1>6. ASSUME NEW s \in Range(list) PROVE Rank(list, s) \in 1..n
    <2>1. s \in S
      <3> HIDE DEF list
      <3> QED BY <1>4, <1>6 DEF Range
    <2>2. Rank(list, s) \in 1..Cardinality(S)
      BY <1>2, <1>3, <2>1, RankIsPlace
    <2> HIDE DEF list
    <2> QED BY <1>1, <1>3, <2>2
  <1> HIDE DEF list
  <1>7. Ranked(list)
    BY <1>5, <1>6 DEF Ranked, n
  <1> QED BY <1>7 DEF list, S, n

LEMMA WindowIsList ==
  ASSUME NEW dense, Ranked(dense), NEW sparse, Ranked(sparse),
         NEW mode \in Modes, NEW window, window \in Nat
  PROVE  Window(mode, dense, sparse, window) \in List
  <1>1. dense \in List /\ sparse \in List
    BY DEF Ranked
  <1> DEFINE found == Range(dense) \cup Range(sparse)
             score == [s \in found |-> FusedScore(dense, sparse, s)]
  <1>2. Fuse(dense, sparse, window) \in List
    <2>1. found \subseteq Sources /\ Scored(found, score)
      BY <1>1, FusedScores
    <2>2. Fuse(dense, sparse, window) = BestFirst(found, score, window)
      BY DEF Fuse
    <2> HIDE DEF found, score
    <2>3. Fuse(dense, sparse, window) \in Seq(found)
      BY <2>1, <2>2, BestFirstList
    <2> QED BY <2>1, <2>3 DEF List
  <1>3. SubSeq(dense, 1, Min({window, Len(dense)})) \in List
        /\ SubSeq(sparse, 1, Min({window, Len(sparse)})) \in List
    BY <1>1, HeadOfList
  <1> QED BY <1>2, <1>3 DEF Window, Modes

LEMMA FinalIsList ==
  ASSUME NEW window, window \in List, NEW reranked, NEW score, score \in ScoreOf(Nat),
         NEW topK, topK \in Nat
  PROVE  FinalCandidates(window, reranked, score, topK, RerankLimit) \in List
  <1>1. SubSeq(window, 1, Min({topK, Len(window)})) \in List
    BY HeadOfList
  <1> DEFINE S == Range(SubSeq(window, 1, Min({MaxReranked, Len(window)})))
  <1>2. S \subseteq Sources /\ IsFiniteSet(S)
    BY RankFusionAssumption, HeadOfList, RangeOfList
  <1>3. Min({topK, RerankLimit}) \in Nat
    BY QueryAssumption, Shorter
  <1>4. Scored(S, score)
    <2> HIDE DEF S
    <2>1. \A s \in S : score[s] \in Int
      BY <1>2 DEF ScoreOf
    <2> QED BY <1>2, <2>1, ManySources DEF Scored
  <1>5. Rerank(window, score, Min({topK, RerankLimit})) \in List
    <2>1. Rerank(window, score, Min({topK, RerankLimit})) = BestFirst(S, score, Min({topK, RerankLimit}))
      BY DEF Rerank
    <2> HIDE DEF S
    <2>2. Rerank(window, score, Min({topK, RerankLimit})) \in Seq(S)
      BY <1>3, <1>4, <2>1, BestFirstList
    <2> QED BY <1>2, <2>2 DEF List
  <1> QED BY <1>1, <1>5 DEF FinalCandidates

-----------------------------------------------------------------------------
(* THE REQUEST.                                                            *)

RunOK ==
    /\ run = [pc |-> run.pc, unsafeQuestion |-> run.unsafeQuestion,
              retrievalOnly |-> run.retrievalOnly, topK |-> run.topK,
              fusionLimit |-> run.fusionLimit, found |-> run.found, blocked |-> run.blocked,
              gate |-> run.gate, prompt |-> run.prompt, asked |-> run.asked,
              outcome |-> run.outcome, answer |-> run.answer, sources |-> run.sources]
    /\ run.topK \in Nat /\ run.fusionLimit \in Nat
    /\ run.asked \in BOOLEAN /\ run.blocked \in BOOLEAN
    /\ FoundOK(run.found)

(* Before the filter nothing was asked or blocked; behind the gate there   *)
(* is evidence, all of it safe, that states what the question names.       *)
Asking ==
    /\ run.asked => run.pc \in {"packed", "done"}
    /\ run.pc \in {"submitted", "retrieved"} => ~run.blocked
    /\ run.pc \in {"retrieved", "gated", "packed"} \/ run.asked => ~run.unsafeQuestion
    /\ run.pc \in {"gated", "packed"} \/ run.asked =>
          /\ run.found.candidates # <<>>
          /\ SafeList(chunks, run.found.candidates)
          /\ Qualifiers \subseteq TextOf(chunks, run.found.candidates, "context")
    /\ run.asked => run.prompt \subseteq TextOf(chunks, run.found.candidates, "context")

QueryInv ==
    /\ chunks \in [Sources -> Contents] /\ RunOK
    /\ FusionKeepsTheBetter /\ Asking

LEMMA EmptyIsOK ==
  ASSUME NEW mode \in Modes, NEW reranked \in BOOLEAN
  PROVE  FoundOK(EmptyRetrieval(mode, reranked))
  <1>1. <<>> \in List /\ [s \in Sources |-> 0] \in ScoreOf(Nat)
    BY DEF List, ScoreOf
  <1> QED BY <1>1 DEF FoundOK, FoundType, EmptyRetrieval

LEMMA NewRunOK ==
  ASSUME run = NewRun, chunks \in [Sources -> Contents]
  PROVE  QueryInv
  <1>1. FoundOK(EmptyRetrieval("hybrid", FALSE))
    BY EmptyIsOK DEF Modes
  <1> QED BY <1>1 DEF NewRun, QueryInv, RunOK, FusionKeepsTheBetter, Asking

LEMMA QueryInitInv == QueryInit => QueryInv
  <1> SUFFICES ASSUME QueryInit PROVE QueryInv
    OBVIOUS
  <1>1. chunks \in [Sources -> Contents]
    BY QueryAssumption DEF QueryInit
  <1> QED BY <1>1, NewRunOK DEF QueryInit

LEMMA RespondInv == ASSUME Respond PROVE QueryInv'
  <1>1. chunks' \in [Sources -> Contents] /\ run' = NewRun
    BY QueryAssumption DEF Respond
  <1>2. FoundOK(EmptyRetrieval("hybrid", FALSE))
    BY EmptyIsOK DEF Modes
  <1> QED BY <1>1, <1>2 DEF NewRun, QueryInv, RunOK, FusionKeepsTheBetter, Asking

LEMMA SubmitInv ==
  ASSUME NEW mode \in Modes, NEW reranked \in BOOLEAN, NEW unsafe \in BOOLEAN,
         NEW only \in BOOLEAN, NEW set \in Settings,
         Submit(mode, reranked, set.topK, set.fusionLimit, unsafe, only)
  PROVE  QueryInv'
  <1>1. run' = [pc |-> "submitted", unsafeQuestion |-> unsafe, retrievalOnly |-> only,
                topK |-> set.topK, fusionLimit |-> set.fusionLimit,
                found |-> EmptyRetrieval(mode, reranked), blocked |-> FALSE,
                gate |-> NoAnswer("none", NoScore), prompt |-> {}, asked |-> FALSE,
                outcome |-> "none", answer |-> {}, sources |-> <<>>]
    BY DEF Submit, NewRun
  <1>2. set.topK \in Nat /\ set.fusionLimit \in Nat /\ FoundOK(EmptyRetrieval(mode, reranked))
    BY QueryAssumption, EmptyIsOK
  <1>3. EmptyRetrieval(mode, reranked).window = <<>> /\ Range(<<>>) = {}
    BY DEF EmptyRetrieval, Range
  <1>4. RunOK'
    BY <1>1, <1>2 DEF RunOK
  <1>5. FusionKeepsTheBetter'
    BY <1>1, <1>3 DEF FusionKeepsTheBetter
  <1>6. Asking'
    BY <1>1 DEF Asking
  <1> QED BY <1>4, <1>5, <1>6 DEF QueryInv, Submit

LEMMA RefuseQuestionInv == ASSUME QueryInv, RefuseQuestion PROVE QueryInv'
  <1> DEFINE found == [run.found EXCEPT !.reranked = FALSE]
  <1>1. /\ run'.pc = "done" /\ run'.found = found /\ run'.blocked = run.blocked
        /\ run'.asked = run.asked /\ run'.topK = run.topK /\ run'.fusionLimit = run.fusionLimit
        /\ run' = [pc |-> run'.pc, unsafeQuestion |-> run'.unsafeQuestion,
              retrievalOnly |-> run'.retrievalOnly, topK |-> run'.topK,
              fusionLimit |-> run'.fusionLimit, found |-> run'.found, blocked |-> run'.blocked,
              gate |-> run'.gate, prompt |-> run'.prompt, asked |-> run'.asked,
              outcome |-> run'.outcome, answer |-> run'.answer, sources |-> run'.sources]
    BY DEF QueryInv, RunOK, RefuseQuestion
  <1>2. /\ FoundOK(found) /\ found.mode = run.found.mode /\ found.window = run.found.window
        /\ found.dense = run.found.dense /\ found.sparse = run.found.sparse
    <2>1. PICK old : old = run.found /\ FoundOK(old)
      BY DEF QueryInv, RunOK
    <2>2. FoundOK([old EXCEPT !.reranked = FALSE])
      <3>1. [old EXCEPT !.reranked = FALSE] \in FoundType(old.debug)
        BY <2>1 DEF FoundOK, FoundType
      <3>2. [old EXCEPT !.reranked = FALSE].debug = old.debug
        BY <2>1 DEF FoundOK, FoundType
      <3> QED BY <3>1, <3>2 DEF FoundOK
    <2>3. /\ found.mode = old.mode /\ found.window = old.window
          /\ found.dense = old.dense /\ found.sparse = old.sparse
      BY <2>1 DEF FoundOK, FoundType
    <2> QED BY <2>1, <2>2, <2>3
  <1> HIDE DEF found
  <1>3. run.pc = "submitted" /\ ~run.asked
    BY DEF RefuseQuestion, QueryInv, Asking
  <1>4. RunOK'
    BY <1>1, <1>2 DEF QueryInv, RunOK
  <1>5. FusionKeepsTheBetter'
    BY <1>1, <1>2, <1>3 DEF QueryInv, FusionKeepsTheBetter
  <1>6. Asking'
    BY <1>1, <1>3 DEF Asking
  <1> QED BY <1>4, <1>5, <1>6 DEF QueryInv, RefuseQuestion

(* What the search returns for any scores of its branches.                 *)
LEMMA RetrievalFound ==
  ASSUME RunOK, NEW ds, ds \in ScoreOf(Nat), NEW ss, ss \in ScoreOf(Nat),
         NEW rs, rs \in ScoreOf(Nat)
  PROVE  LET found == Retrieval(ds, ss, rs)
         IN  /\ FoundOK(found) /\ found.mode = run.found.mode
             /\ found.mode = "hybrid" =>
                   \A t \in Range(found.window), s \in Sources :
                      Dominates(found.dense, found.sparse, s, t) => Before(found.window, s, t)
  <1> DEFINE dense  == BestFirst({s \in Sources : ds[s] > 0}, ds, Cardinality(Sources))
             sparse == BestFirst({s \in Sources : ss[s] > 0}, ss, Cardinality(Sources))
             width  == CandidateWindow(run.topK, run.fusionLimit)
             fused  == Window(run.found.mode, dense, sparse, width)
             picked == FinalCandidates(fused, run.found.reranked, rs, run.topK, RerankLimit)
             debug  == DebugOrder(fused, dense, sparse)
             found  == Retrieval(ds, ss, rs)
  <1>1. Ranked(dense) /\ Ranked(sparse)
    BY BranchIsRanked
  <1>2. width \in Nat
    <2> DEFINE limit == IF run.topK > run.fusionLimit THEN run.topK ELSE run.fusionLimit
    <2>1. limit \in Nat /\ WindowCap \in Nat
      BY RankFusionAssumption DEF RunOK
    <2>2. width = Min({limit, WindowCap})
      BY DEF CandidateWindow
    <2> HIDE DEF limit, width
    <2> QED BY <2>1, <2>2, Shorter
  <1>3. PICK old : old = run.found /\ FoundOK(old)
    BY DEF RunOK
  <1>4. found = [old EXCEPT !.dense = dense, !.sparse = sparse, !.denseScore = ds,
                            !.sparseScore = ss, !.rerankScore = rs,
                            !.fused = fused, !.window = fused,
                            !.picked = picked, !.candidates = picked, !.debug = debug]
    BY <1>3 DEF Retrieval
  <1> HIDE DEF dense, sparse, width, debug, found
  <1>5. fused \in List
    BY <1>1, <1>2, <1>3, WindowIsList DEF FoundOK, FoundType
  <1>6. picked \in List
    <2> HIDE DEF fused
    <2> QED BY <1>5, FinalIsList DEF RunOK
  <1>7. dense \in List /\ sparse \in List
    BY <1>1 DEF Ranked
  <1> HIDE DEF picked
  <1>8. /\ found.mode = run.found.mode /\ found.window = fused /\ found.dense = dense
        /\ found.sparse = sparse /\ found.debug = debug
    BY <1>3, <1>4 DEF FoundOK, FoundType
  <1>9. FoundOK(found)
    <2> HIDE DEF fused
    <2>1. found \in FoundType(debug)
      BY <1>3, <1>4, <1>5, <1>6, <1>7 DEF FoundOK, FoundType
    <2> QED BY <1>8, <2>1 DEF FoundOK
  <1>10. ASSUME found.mode = "hybrid", NEW t \in Range(found.window), NEW s \in Sources,
                Dominates(found.dense, found.sparse, s, t)
         PROVE  Before(found.window, s, t)
    <2>1. found.window = Fuse(dense, sparse, width)
      BY <1>8, <1>10 DEF Window
    <2> QED BY <1>1, <1>2, <1>8, <1>10, <2>1, FuseKeepsTheBetter
  <1> QED BY <1>8, <1>9, <1>10 DEF found

LEMMA SearchInv == ASSUME QueryInv, Search PROVE QueryInv'
  <1>1. PICK ds \in ScoreOf(IF run.found.mode = "bm25" THEN {0} ELSE 0..MaxScore),
             ss \in ScoreOf(IF run.found.mode = "dense" THEN {0} ELSE 0..MaxScore),
             rs \in ScoreOf(IF run.found.reranked THEN 1..MaxScore ELSE {0}) :
          LET found  == Retrieval(ds, ss, rs)
              scored == Branches(found.mode)
              ranks  == found.reranked /\ found.fused # <<>>
          IN  \/ /\ run' = [run EXCEPT !.pc = "retrieved", !.found = found]
                 /\ Traced(scored \cup (IF ranks THEN {"reranker"} ELSE {}))
              \/ /\ run' = [run EXCEPT !.pc = "done", !.outcome = "retrieval_failed",
                                       !.found = found]
                 /\ \/ Traced({})
                    \/ found.mode = "hybrid" /\ Traced({"dense_retrieval"})
                    \/ ranks /\ Traced(scored \cup {"reranker_running"})
    BY Zenon DEF Search
  <1>2. ds \in ScoreOf(Nat) /\ ss \in ScoreOf(Nat) /\ rs \in ScoreOf(Nat)
    <2>1. 0..MaxScore \subseteq Nat /\ 1..MaxScore \subseteq Nat /\ {0} \subseteq Nat
      BY QueryAssumption
    <2> QED BY <1>1, <2>1 DEF ScoreOf
  <1>3. run.pc = "submitted" /\ ~run.unsafeQuestion /\ RunOK /\ chunks' = chunks
        /\ ~run.asked /\ ~run.blocked
    BY DEF Search, QueryInv, Asking
  <1> DEFINE found == Retrieval(ds, ss, rs)
  <1>4. /\ FoundOK(found) /\ found.mode = run.found.mode
        /\ found.mode = "hybrid" =>
               \A t \in Range(found.window), s \in Sources :
                  Dominates(found.dense, found.sparse, s, t) => Before(found.window, s, t)
    BY <1>2, <1>3, RetrievalFound
  <1> HIDE DEF found
  <1>5. /\ run'.pc \in {"retrieved", "done"} /\ run'.found = found /\ RunOK'
        /\ run'.asked = run.asked /\ run'.blocked = run.blocked
        /\ run'.unsafeQuestion = run.unsafeQuestion
    BY <1>1, <1>3, <1>4 DEF RunOK, found
  <1>6. FusionKeepsTheBetter'
    BY <1>4, <1>5 DEF FusionKeepsTheBetter
  <1>7. Asking'
    BY <1>3, <1>5 DEF Asking
  <1> QED BY <1>3, <1>5, <1>6, <1>7 DEF QueryInv

LEMMA SelectEvidenceInv == ASSUME QueryInv, SelectEvidence PROVE QueryInv'
  <1> DEFINE found   == Filtered(run.found)
             blocked == \E s \in Range(run.found.picked) \cup Range(run.found.window) :
                           chunks[s].unsafe
             gate    == Assess(chunks, found, blocked /\ found.candidates = <<>>)
             refused == gate.decision = "NO_ANSWER"
  <1>1. /\ run.pc = "retrieved" /\ chunks' = chunks /\ RunOK
        /\ ~run.asked /\ ~run.blocked /\ ~run.unsafeQuestion
    BY DEF SelectEvidence, QueryInv, Asking
  <1> DEFINE pc == IF refused \/ run.retrievalOnly THEN "done" ELSE "gated"
  <1>2. /\ run' = [run EXCEPT !.found = found, !.blocked = blocked, !.gate = gate, !.pc = pc,
                !.outcome = IF refused THEN "no_answer"
                            ELSE IF run.retrievalOnly THEN "answered" ELSE @,
                !.sources = IF run.retrievalOnly /\ ~refused THEN found.candidates ELSE @]
        /\ pc \in {"done", "gated"} /\ (pc = "gated" => ~refused)
    BY Zenon DEF SelectEvidence
  <1>3. PICK old : old = run.found /\ FoundOK(old)
    BY <1>1 DEF RunOK
  <1>4. found = [old EXCEPT !.window = SafeOnly(chunks, old.window),
                            !.candidates = SafeOnly(chunks, old.candidates)]
    BY <1>3 DEF Filtered
  <1>5. /\ SafeOnly(chunks, old.window) \in List /\ SafeOnly(chunks, old.candidates) \in List
        /\ SafeList(chunks, SafeOnly(chunks, old.candidates))
        /\ SafeList(chunks, old.window) => SafeOnly(chunks, old.window) = old.window
    BY <1>3, SafeOnlyKeeps DEF FoundOK, FoundType
  <1> HIDE DEF found
  <1>6. /\ found.mode = old.mode /\ found.dense = old.dense /\ found.sparse = old.sparse
        /\ found.window = SafeOnly(chunks, old.window) /\ found.debug = old.debug
        /\ found.candidates = SafeOnly(chunks, old.candidates)
    BY <1>3, <1>4 DEF FoundOK, FoundType
  <1>7. FoundOK(found)
    <2>1. found \in FoundType(old.debug)
      BY <1>3, <1>4, <1>5 DEF FoundOK, FoundType
    <2> QED BY <1>6, <2>1 DEF FoundOK
  <1>8. ~blocked => found.window = old.window
    BY <1>3, <1>5, <1>6 DEF SafeList
  <1>9. ~refused => /\ found.candidates # <<>>
                    /\ Qualifiers \subseteq TextOf(chunks, found.candidates, "context")
    <2>1. ASSUME ~refused
          PROVE  /\ Len(found.candidates) # 0
                 /\ Qualifiers \subseteq TextOf(chunks, found.candidates, "context")
      BY <2>1, AnsweredIsQualified
    <2>2. Len(<<>>) = 0
      OBVIOUS
    <2> HIDE DEF refused
    <2> QED BY <2>1, <2>2
  <1>10. blocked \in BOOLEAN
    OBVIOUS
  <1> HIDE DEF blocked, gate, refused, pc
  <1>11. /\ run'.pc = pc /\ run'.found = found /\ run'.blocked = blocked
         /\ run'.asked = run.asked /\ run'.unsafeQuestion = run.unsafeQuestion /\ RunOK'
    BY <1>1, <1>2, <1>7, <1>10 DEF RunOK
  <1>12. FusionKeepsTheBetter'
    <2>1. ASSUME found.mode = "hybrid", ~blocked, NEW t \in Range(found.window),
                 NEW s \in Sources, Dominates(found.dense, found.sparse, s, t)
          PROVE  Before(found.window, s, t)
      BY <1>1, <1>3, <1>6, <1>8, <2>1 DEF QueryInv, FusionKeepsTheBetter
    <2> QED BY <1>11, <2>1 DEF FusionKeepsTheBetter
  <1>13. Asking'
    BY <1>1, <1>2, <1>5, <1>6, <1>9, <1>11 DEF Asking, SafeList
  <1> QED BY <1>1, <1>11, <1>12, <1>13 DEF QueryInv

LEMMA PackPromptInv == ASSUME QueryInv, PackPrompt PROVE QueryInv'
  <1>1. PICK excerpt \in [Range(run.found.candidates) -> UNION {Excerpts(s) : s \in Sources}] :
          /\ \A s \in DOMAIN excerpt : excerpt[s] \in Excerpts(s)
          /\ run' = [run EXCEPT !.pc = "packed", !.asked = TRUE,
                                !.prompt = UNION {excerpt[s] : s \in DOMAIN excerpt}]
    BY DEF PackPrompt
  <1>2. run.pc = "gated" /\ chunks' = chunks /\ RunOK
    BY DEF PackPrompt, QueryInv
  <1> DEFINE prompt == UNION {excerpt[s] : s \in DOMAIN excerpt}
  <1>3. /\ run'.pc = "packed" /\ run'.asked = TRUE /\ run'.prompt = prompt
        /\ run'.found = run.found /\ run'.blocked = run.blocked
        /\ run'.unsafeQuestion = run.unsafeQuestion /\ RunOK'
    BY <1>1, <1>2 DEF RunOK
  <1>4. prompt \subseteq TextOf(chunks, run.found.candidates, "context")
    <2>1. ASSUME NEW s \in Range(run.found.candidates) PROVE excerpt[s] \subseteq chunks[s].context
      <3>1. s \in Sources
        BY <1>2, RankInList DEF RunOK, FoundOK, FoundType
      <3>2. chunks[s].child \subseteq chunks[s].context
        BY <3>1, QueryAssumption DEF QueryInv
      <3> QED BY <1>1, <3>2 DEF Excerpts
    <2> QED BY <2>1 DEF TextOf
  <1> HIDE DEF prompt
  <1>5. FusionKeepsTheBetter'
    BY <1>2, <1>3 DEF QueryInv, FusionKeepsTheBetter
  <1>6. Asking'
    BY <1>2, <1>3, <1>4 DEF QueryInv, Asking
  <1> QED BY <1>2, <1>3, <1>5, <1>6 DEF QueryInv

LEMMA GenerateInv == ASSUME QueryInv, Generate \/ GenerationFails PROVE QueryInv'
  <1>1. run.pc = "packed" /\ chunks' = chunks /\ RunOK
    BY DEF Generate, GenerationFails, QueryInv
  <1>2. /\ run'.pc = "done" /\ run'.asked = run.asked /\ run'.prompt = run.prompt
        /\ run'.found = run.found /\ run'.blocked = run.blocked
        /\ run'.unsafeQuestion = run.unsafeQuestion /\ RunOK'
    <2>1. CASE Generate
      BY <1>1, <2>1 DEF RunOK, Generate
    <2>2. CASE GenerationFails
      BY <1>1, <2>2 DEF RunOK, GenerationFails
    <2> QED BY <2>1, <2>2
  <1>3. FusionKeepsTheBetter'
    BY <1>1, <1>2 DEF QueryInv, FusionKeepsTheBetter
  <1>4. Asking'
    BY <1>1, <1>2 DEF QueryInv, Asking
  <1> QED BY <1>1, <1>2, <1>3, <1>4 DEF QueryInv

LEMMA QueryStepInv == QueryInv /\ [QueryNext]_queryVars => QueryInv'
  <1> SUFFICES ASSUME QueryInv, [QueryNext]_queryVars PROVE QueryInv'
    OBVIOUS
  <1>1. CASE \E mode \in Modes, reranked, unsafe, only \in BOOLEAN, set \in Settings :
               Submit(mode, reranked, set.topK, set.fusionLimit, unsafe, only)
    BY <1>1, SubmitInv
  <1>2. CASE RefuseQuestion
    BY <1>2, RefuseQuestionInv
  <1>3. CASE Search
    BY <1>3, SearchInv
  <1>4. CASE SelectEvidence
    BY <1>4, SelectEvidenceInv
  <1>5. CASE PackPrompt
    BY <1>5, PackPromptInv
  <1>6. CASE Generate \/ GenerationFails
    BY <1>6, GenerateInv
  <1>7. CASE Respond
    BY <1>7, RespondInv
  <1>8. CASE UNCHANGED queryVars
    BY <1>8 DEF queryVars, QueryInv, RunOK, FusionKeepsTheBetter, Asking
  <1> QED BY <1>1, <1>2, <1>3, <1>4, <1>5, <1>6, <1>7, <1>8 DEF QueryNext

LEMMA QueryAlways == QuerySpec => []QueryInv
  BY QueryInitInv, QueryStepInv, PTL DEF QuerySpec

(* RetrievalService._fuse, for any number of sources, any scores and every *)
(* rrf_k: of two sources, the one that no branch ranks below the other and *)
(* some branch ranks above it is not behind it in the window, and not left *)
(* out of a window that holds it.                                          *)
THEOREM TheBetterIsKept == QuerySpec => []FusionKeepsTheBetter
  <1>1. QueryInv => FusionKeepsTheBetter
    BY DEF QueryInv
  <1> QED BY <1>1, QueryAlways, PTL

(* build_answerability_signals: the score that is compared with the        *)
(* threshold is the best one of the candidates, in whatever order they     *)
(* come and whichever score the policy looks at, and the margin to the     *)
(* second is not negative.                                                 *)
THEOREM BestScoreIsJudged == QuerySpec => []GateSeesTheBestScore
  <1>1. ASSUME QueryInv PROVE GateSeesTheBestScore
    <2> DEFINE signals == Signals(chunks, run.found)
               kind == ScoreKind(run.found)
               ranked == Scores(run.found, kind)
    <2>1. SUFFICES ASSUME run.found.candidates # <<>>
                   PROVE  /\ signals.margin >= 0
                          /\ \A s \in Range(run.found.candidates) :
                                ScoreFor(run.found, signals.kind, s) <= signals.top
      BY DEF GateSeesTheBestScore
    <2>2. /\ ranked # <<>>
          /\ \A s \in Range(run.found.candidates) : ScoreFor(run.found, kind, s) <= ranked[1]
          /\ Len(ranked) > 1 => ranked[1] - ranked[2] >= 0
      BY <1>1, <2>1, TopScoreIsBest DEF QueryInv, RunOK
    <2>3. /\ signals.kind = kind
          /\ signals.top = IF ranked = <<>> THEN NoScore ELSE ranked[1]
          /\ signals.margin = IF Len(ranked) > 1 THEN ranked[1] - ranked[2] ELSE 0
      BY DEF Signals
    <2> HIDE DEF signals, kind, ranked
    <2> QED BY <2>2, <2>3
  <1> QED BY <1>1, QueryAlways, PTL

(* QueryService.execute, for every corpus whose sections state what their  *)
(* chunks state: the model is asked only behind both gates, and what it is *)
(* told is stated by the safe sources that the caller is shown.            *)
THEOREM OnlySafeEvidenceIsAsked == QuerySpec => []AskedOnlyOverSafeEvidence
  <1>1. QueryInv => AskedOnlyOverSafeEvidence
    BY DEF QueryInv, Asking, AskedOnlyOverSafeEvidence, SafeList
  <1> QED BY <1>1, QueryAlways, PTL

-----------------------------------------------------------------------------
(* THE TRACE.                                                              *)

(* A stage has nothing to hand on but what the one before it handed on.    *)
Flows(found) ==
    /\ found.candidates # <<>> => found.picked # <<>>
    /\ found.picked # <<>> => found.fused # <<>>
    /\ found.fused # <<>> /\ found.mode = "dense" => found.dense # <<>>
    /\ found.fused # <<>> /\ found.mode = "bm25" => found.sparse # <<>>

SearchTraced ==
    /\ Branches(run.found.mode) \subseteq events
    /\ run.found.reranked /\ run.found.fused # <<>> => "reranker" \in events

(* What a run has passed is in its trace, unless it leaves none; the trace *)
(* tells of a prompt only if there was one; an answered run shows the      *)
(* candidates as its sources.                                              *)
TraceInv ==
    /\ run.retrievalOnly \in BOOLEAN /\ Flows(run.found)
    /\ run.pc \in {"retrieved", "gated", "packed"} \/ run.asked =>
          run.retrievalOnly \/ SearchTraced
    /\ run.pc \in {"gated", "packed"} \/ run.asked =>
          ~run.retrievalOnly /\ "evidence_selection" \in events
    /\ "prompt_build" \in events => run.asked
    /\ run.pc = "packed" => run.asked
    /\ run.pc = "done" /\ run.asked => run.outcome \in {"answered", "llm_failed"}
    /\ run.pc = "done" /\ run.outcome = "answered" =>
          run.sources = run.found.candidates /\ (run.retrievalOnly \/ run.asked)

LEMMA HeadOfNothing ==
  ASSUME NEW n, n \in Nat
  PROVE  SubSeq(<<>>, 1, Min({n, Len(<<>>)})) = <<>>
  <1>1. Min({n, 0}) = 0
    BY Shorter
  <1> QED BY <1>1

LEMMA NewRunTraced == ASSUME run = NewRun, events = {} PROVE TraceInv
  BY DEF NewRun, EmptyRetrieval, TraceInv, Flows

LEMMA SubmitTraced ==
  ASSUME NEW mode \in Modes, NEW reranked \in BOOLEAN, NEW unsafe \in BOOLEAN,
         NEW only \in BOOLEAN, NEW set \in Settings,
         Submit(mode, reranked, set.topK, set.fusionLimit, unsafe, only)
  PROVE  TraceInv'
  <1>1. run' = [pc |-> "submitted", unsafeQuestion |-> unsafe, retrievalOnly |-> only,
                topK |-> set.topK, fusionLimit |-> set.fusionLimit,
                found |-> EmptyRetrieval(mode, reranked), blocked |-> FALSE,
                gate |-> NoAnswer("none", NoScore), prompt |-> {}, asked |-> FALSE,
                outcome |-> "none", answer |-> {}, sources |-> <<>>] /\ events' = {}
    BY DEF Submit, NewRun
  <1> QED BY <1>1 DEF EmptyRetrieval, TraceInv, Flows

LEMMA RefuseQuestionTraced == ASSUME QueryInv, TraceInv, RefuseQuestion PROVE TraceInv'
  <1>1. /\ run.pc = "submitted" /\ ~run.asked /\ events' = events
        /\ run' = [run EXCEPT !.pc = "done", !.outcome = "no_answer",
                              !.found.reranked = FALSE,
                              !.gate = NoAnswer("SECURITY_POLICY", NoScore)]
    BY DEF RefuseQuestion, QueryInv, Asking
  <1>2. PICK old : old = run.found /\ FoundOK(old)
    BY DEF QueryInv, RunOK
  <1>3. /\ run'.pc = "done" /\ run'.outcome = "no_answer" /\ run'.asked = run.asked
        /\ run'.retrievalOnly = run.retrievalOnly
        /\ run'.found = [old EXCEPT !.reranked = FALSE]
    BY <1>1, <1>2 DEF QueryInv, RunOK
  <1>4. Flows(run'.found)
    <2>1. Flows(old)
      BY <1>2 DEF TraceInv
    <2> QED BY <1>2, <1>3, <2>1 DEF Flows, FoundOK, FoundType
  <1> QED BY <1>1, <1>3, <1>4 DEF TraceInv

(* Each list of a search is cut from the one before it.                    *)
LEMMA RetrievalFlows ==
  ASSUME RunOK, NEW ds, NEW ss, NEW rs
  PROVE  Flows(Retrieval(ds, ss, rs)) /\ Retrieval(ds, ss, rs).mode \in Modes
  <1> DEFINE dense  == BestFirst({s \in Sources : ds[s] > 0}, ds, Cardinality(Sources))
             sparse == BestFirst({s \in Sources : ss[s] > 0}, ss, Cardinality(Sources))
             width  == CandidateWindow(run.topK, run.fusionLimit)
             fused  == Window(run.found.mode, dense, sparse, width)
             picked == FinalCandidates(fused, run.found.reranked, rs, run.topK, RerankLimit)
             debug  == DebugOrder(fused, dense, sparse)
             found  == Retrieval(ds, ss, rs)
  <1>1. width \in Nat
    <2> DEFINE limit == IF run.topK > run.fusionLimit THEN run.topK ELSE run.fusionLimit
    <2>1. limit \in Nat /\ WindowCap \in Nat
      BY RankFusionAssumption DEF RunOK
    <2>2. width = Min({limit, WindowCap})
      BY DEF CandidateWindow
    <2> HIDE DEF limit, width
    <2> QED BY <2>1, <2>2, Shorter
  <1>2. PICK old : old = run.found /\ FoundOK(old)
    BY DEF RunOK
  <1>3. found = [old EXCEPT !.dense = dense, !.sparse = sparse, !.denseScore = ds,
                            !.sparseScore = ss, !.rerankScore = rs,
                            !.fused = fused, !.window = fused,
                            !.picked = picked, !.candidates = picked, !.debug = debug]
    BY <1>2 DEF Retrieval
  <1> HIDE DEF dense, sparse, width, debug, found
  <1>4. picked # <<>> => fused # <<>>
    <2> HIDE DEF fused
    <2>1. fused = <<>> => picked = SubSeq(<<>>, 1, Min({run.topK, Len(<<>>)}))
      BY DEF FinalCandidates
    <2> HIDE DEF picked
    <2> QED BY <2>1, HeadOfNothing DEF RunOK
  <1>5. /\ old.mode = "dense" /\ dense = <<>> => fused = <<>>
        /\ old.mode = "bm25" /\ sparse = <<>> => fused = <<>>
    BY <1>1, <1>2, HeadOfNothing DEF Window
  <1> HIDE DEF fused, picked
  <1>6. /\ found.mode = old.mode /\ found.dense = dense /\ found.sparse = sparse
        /\ found.fused = fused /\ found.picked = picked /\ found.candidates = picked
    BY <1>2, <1>3 DEF FoundOK, FoundType
  <1>7. Flows(found)
    BY <1>4, <1>5, <1>6 DEF Flows
  <1>8. found.mode \in Modes
    BY <1>2, <1>6 DEF FoundOK, FoundType
  <1> QED BY <1>7, <1>8 DEF found

LEMMA SearchIsTraced == ASSUME QueryInv, TraceInv, Search PROVE TraceInv'
  <1>1. PICK ds, ss, rs :
          LET found  == Retrieval(ds, ss, rs)
              scored == Branches(found.mode)
              ranks  == found.reranked /\ found.fused # <<>>
          IN  \/ /\ run' = [run EXCEPT !.pc = "retrieved", !.found = found]
                 /\ Traced(scored \cup (IF ranks THEN {"reranker"} ELSE {}))
              \/ /\ run' = [run EXCEPT !.pc = "done", !.outcome = "retrieval_failed",
                                       !.found = found]
                 /\ \/ Traced({})
                    \/ found.mode = "hybrid" /\ Traced({"dense_retrieval"})
                    \/ ranks /\ Traced(scored \cup {"reranker_running"})
    BY Zenon DEF Search
  <1> DEFINE found == Retrieval(ds, ss, rs)
  <1>2. /\ RunOK /\ ~run.asked /\ "prompt_build" \notin events
        /\ Flows(found) /\ found.mode \in Modes
    BY RetrievalFlows DEF Search, QueryInv, Asking, TraceInv
  <1>3. "prompt_build" \notin Branches(found.mode)
    <2> HIDE DEF found
    <2> QED BY <1>2 DEF Branches, Modes
  <1> HIDE DEF found
  <1>4. CASE /\ run' = [run EXCEPT !.pc = "retrieved", !.found = found]
             /\ Traced(Branches(found.mode) \cup
                         (IF found.reranked /\ found.fused # <<>> THEN {"reranker"} ELSE {}))
    <2>1. /\ run'.pc = "retrieved" /\ run'.found = found /\ run'.asked = run.asked
          /\ run'.retrievalOnly = run.retrievalOnly
      BY <1>2, <1>4 DEF RunOK
    <2>2. run.retrievalOnly \/ SearchTraced'
      BY <1>4, <2>1 DEF Traced, SearchTraced
    <2>3. "prompt_build" \notin events'
      BY <1>2, <1>3, <1>4 DEF Traced
    <2> QED BY <1>2, <2>1, <2>2, <2>3 DEF TraceInv
  <1>5. CASE /\ run' = [run EXCEPT !.pc = "done", !.outcome = "retrieval_failed",
                                   !.found = found]
             /\ \E stages : Traced(stages) /\ "prompt_build" \notin stages
    <2>1. /\ run'.pc = "done" /\ run'.outcome = "retrieval_failed" /\ run'.found = found
          /\ run'.asked = run.asked /\ run'.retrievalOnly = run.retrievalOnly
      BY <1>2, <1>5 DEF RunOK
    <2>2. "prompt_build" \notin events'
      BY <1>2, <1>5 DEF Traced
    <2> QED BY <1>2, <2>1, <2>2 DEF TraceInv
  <1>6. /\ "prompt_build" \notin {} /\ "prompt_build" \notin {"dense_retrieval"}
        /\ "prompt_build" \notin Branches(found.mode) \cup {"reranker_running"}
    BY <1>3
  <1> QED BY <1>1, <1>4, <1>5, <1>6 DEF found

LEMMA SelectEvidenceTraced == ASSUME QueryInv, TraceInv, SelectEvidence PROVE TraceInv'
  <1> DEFINE found   == Filtered(run.found)
             blocked == \E s \in Range(run.found.picked) \cup Range(run.found.window) :
                           chunks[s].unsafe
             gate    == Assess(chunks, found, blocked /\ found.candidates = <<>>)
             refused == gate.decision = "NO_ANSWER"
             pc      == IF refused \/ run.retrievalOnly THEN "done" ELSE "gated"
  <1>1. /\ run' = [run EXCEPT !.found = found, !.blocked = blocked, !.gate = gate, !.pc = pc,
                !.outcome = IF refused THEN "no_answer"
                            ELSE IF run.retrievalOnly THEN "answered" ELSE @,
                !.sources = IF run.retrievalOnly /\ ~refused THEN found.candidates ELSE @]
        /\ Traced({"evidence_selection"} \cup (IF refused THEN {"prompt_skipped"} ELSE {}))
    BY Zenon DEF SelectEvidence
  <1>2. run.pc = "retrieved" /\ RunOK /\ ~run.asked
    BY DEF SelectEvidence, QueryInv, Asking
  <1>3. PICK old : old = run.found /\ FoundOK(old)
    BY <1>2 DEF RunOK
  <1>4. /\ found = [old EXCEPT !.window = SafeOnly(chunks, old.window),
                               !.candidates = SafeOnly(chunks, old.candidates)]
        /\ old.candidates = <<>> => SafeOnly(chunks, old.candidates) = <<>>
    <2>1. Range(<<>>) = {} /\ <<>> \in List
      BY DEF Range, List
    <2>2. SafeOnly(chunks, <<>>) = <<>>
      BY <2>1, SafeOnlyKeeps DEF SafeList
    <2> QED BY <1>3, <2>2 DEF Filtered
  <1> HIDE DEF found, blocked, gate, refused, pc
  <1>5. /\ found.mode = old.mode /\ found.dense = old.dense /\ found.sparse = old.sparse
        /\ found.fused = old.fused /\ found.picked = old.picked
        /\ found.reranked = old.reranked
        /\ found.candidates = SafeOnly(chunks, old.candidates)
    BY <1>3, <1>4 DEF FoundOK, FoundType
  <1>6. Flows(found)
    BY <1>3, <1>4, <1>5 DEF TraceInv, Flows
  <1>7. /\ run'.pc = pc /\ run'.found = found /\ run'.asked = run.asked
        /\ run'.retrievalOnly = run.retrievalOnly
        /\ run'.outcome = IF refused THEN "no_answer"
                          ELSE IF run.retrievalOnly THEN "answered" ELSE run.outcome
        /\ run'.sources = IF run.retrievalOnly /\ ~refused THEN found.candidates ELSE run.sources
    BY <1>1, <1>2 DEF RunOK
  <1>8. /\ pc \in {"done", "gated"}
        /\ pc = "done" => refused \/ run.retrievalOnly
        /\ pc = "gated" => ~run.retrievalOnly
    BY DEF pc
  <1>9. /\ events \subseteq events' /\ "prompt_build" \notin events'
        /\ ~run.retrievalOnly => "evidence_selection" \in events'
    BY <1>1, <1>2 DEF Traced, TraceInv
  <1>10. run.retrievalOnly \/ SearchTraced'
    BY <1>2, <1>3, <1>5, <1>7, <1>9 DEF TraceInv, SearchTraced
  <1> QED BY <1>2, <1>6, <1>7, <1>8, <1>9, <1>10 DEF TraceInv

LEMMA PackPromptTraced == ASSUME QueryInv, TraceInv, PackPrompt PROVE TraceInv'
  <1>1. PICK prompt : run' = [run EXCEPT !.pc = "packed", !.asked = TRUE, !.prompt = prompt]
    BY DEF PackPrompt
  <1>2. /\ run'.pc = "packed" /\ run'.asked /\ run'.found = run.found
        /\ run'.retrievalOnly = run.retrievalOnly
    BY <1>1 DEF QueryInv, RunOK
  <1>3. run.pc = "gated" /\ events \subseteq events'
    BY DEF PackPrompt, Traced
  <1> QED BY <1>2, <1>3 DEF TraceInv, SearchTraced

LEMMA GenerateTraced ==
  ASSUME QueryInv, TraceInv, Generate \/ GenerationFails PROVE TraceInv'
  <1>1. run.pc = "packed" /\ events' = events /\ RunOK
    BY DEF Generate, GenerationFails, QueryInv
  <1>2. /\ run'.pc = "done" /\ run'.asked = run.asked /\ run'.found = run.found
        /\ run'.retrievalOnly = run.retrievalOnly
        /\ \/ run'.outcome = "answered" /\ run'.sources = run.found.candidates
           \/ run'.outcome = "llm_failed"
    <2>1. CASE Generate
      BY <1>1, <2>1 DEF RunOK, Generate
    <2>2. CASE GenerationFails
      BY <1>1, <2>2 DEF RunOK, GenerationFails
    <2> QED BY <2>1, <2>2
  <1> QED BY <1>1, <1>2 DEF TraceInv, SearchTraced

LEMMA TraceStep == QueryInv /\ TraceInv /\ [QueryNext]_queryVars => TraceInv'
  <1> SUFFICES ASSUME QueryInv, TraceInv, [QueryNext]_queryVars PROVE TraceInv'
    OBVIOUS
  <1>1. CASE \E mode \in Modes, reranked, unsafe, only \in BOOLEAN, set \in Settings :
               Submit(mode, reranked, set.topK, set.fusionLimit, unsafe, only)
    BY <1>1, SubmitTraced
  <1>2. CASE RefuseQuestion
    BY <1>2, RefuseQuestionTraced
  <1>3. CASE Search
    BY <1>3, SearchIsTraced
  <1>4. CASE SelectEvidence
    BY <1>4, SelectEvidenceTraced
  <1>5. CASE PackPrompt
    BY <1>5, PackPromptTraced
  <1>6. CASE Generate \/ GenerationFails
    BY <1>6, GenerateTraced
  <1>7. CASE Respond
    <2>1. run' = NewRun /\ events' = {}
      BY <1>7 DEF Respond
    <2> QED BY <2>1 DEF NewRun, EmptyRetrieval, TraceInv, Flows
  <1>8. CASE UNCHANGED queryVars
    BY <1>8 DEF queryVars, TraceInv, SearchTraced
  <1> QED BY <1>1, <1>2, <1>3, <1>4, <1>5, <1>6, <1>7, <1>8 DEF QueryNext

LEMMA TraceAlways == QuerySpec => [](QueryInv /\ TraceInv)
  <1>1. QueryInit => TraceInv
    BY NewRunTraced DEF QueryInit
  <1> QED BY <1>1, QueryInitInv, QueryStepInv, TraceStep, PTL DEF QuerySpec

-----------------------------------------------------------------------------
(* THE DIAGNOSIS.                                                          *)

(* cause is that of the first test that holds; no test holds.              *)
Names(tests, cause) ==
    \E i \in 1..Len(tests) : /\ tests[i][1] /\ cause = tests[i][2]
                             /\ \A k \in 1..i - 1 : ~tests[k][1]
Silent(tests) == \A i \in 1..Len(tests) : ~tests[i][1]

LEMMA FirstCauseIsNamed ==
  ASSUME NEW S, NEW tests \in Seq(S), NEW n \in 1..Len(tests), tests[n][1]
  PROVE  Names(tests, FirstCause(tests))
  <1> DEFINE T == {i \in DOMAIN tests : tests[i][1]}
  <1>1. DOMAIN tests = 1..Len(tests) /\ T \subseteq Nat /\ n \in T
    OBVIOUS
  <1> HIDE DEF T
  <1>2. PICK i \in T : \A m \in T : i <= m
    BY <1>1, NatLeast
  <1>3. Min(T) \in T /\ \A m \in T : Min(T) <= m
    BY <1>2 DEF Min
  <1>4. FirstCause(tests) = tests[Min(T)][2]
    BY DEF FirstCause, T
  <1>5. Min(T) \in 1..Len(tests) /\ tests[Min(T)][1]
    BY <1>1, <1>3 DEF T
  <1>6. ASSUME NEW k \in 1..Min(T) - 1 PROVE ~tests[k][1]
    <2>1. k \in 1..Len(tests) /\ ~(Min(T) <= k)
      BY <1>5
    <2> QED BY <1>1, <1>3, <2>1 DEF T
  <1> QED BY <1>4, <1>5, <1>6 DEF Names

(* A cause named by two lists is named by the first, or the first is       *)
(* silent and the second names it.                                         *)
LEMMA NamedByOne ==
  ASSUME NEW S, NEW a \in Seq(S), NEW T, NEW b \in Seq(T), NEW cause, Names(a \o b, cause)
  PROVE  Names(a, cause) \/ (Silent(a) /\ Names(b, cause))
  <1>1. PICK i \in 1..Len(a \o b) :
           /\ (a \o b)[i][1] /\ cause = (a \o b)[i][2]
           /\ \A k \in 1..i - 1 : ~(a \o b)[k][1]
    BY DEF Names
  <1>2. /\ a \o b \in Seq(S \cup T) /\ Len(a \o b) = Len(a) + Len(b)
        /\ Len(a) \in Nat /\ Len(b) \in Nat
        /\ \A k \in 1..Len(a) : (a \o b)[k] = a[k]
        /\ \A k \in 1..Len(b) : (a \o b)[Len(a) + k] = b[k]
    <2>1. a \in Seq(S \cup T) /\ b \in Seq(S \cup T)
      OBVIOUS
    <2> QED BY <2>1
  <1> DEFINE ab == a \o b
  <1> HIDE DEF ab
  <1>3. CASE i <= Len(a)
    <2>1. i \in 1..Len(a) /\ a[i][1] /\ cause = a[i][2]
      BY <1>1, <1>2, <1>3
    <2>2. \A k \in 1..i - 1 : ~a[k][1]
      BY <1>1, <1>2, <1>3
    <2> QED BY <2>1, <2>2 DEF Names
  <1>4. CASE i > Len(a)
    <2>1. i - Len(a) \in 1..Len(b) /\ ab[i] = b[i - Len(a)]
      <3>1. i - Len(a) \in 1..Len(b) /\ i = Len(a) + (i - Len(a))
        BY <1>1, <1>2, <1>4
      <3> QED BY <1>2, <3>1 DEF ab
    <2>2. \A k \in 1..Len(a) : ~a[k][1]
      BY <1>1, <1>2, <1>4
    <2>3. ASSUME NEW k \in 1..i - Len(a) - 1 PROVE ~b[k][1]
      <3>1. k \in 1..Len(b) /\ Len(a) + k \in 1..i - 1
        BY <1>2, <2>1
      <3> QED BY <1>1, <1>2, <3>1
    <2>4. b[i - Len(a)][1] /\ cause = b[i - Len(a)][2]
      BY <1>1, <2>1 DEF ab
    <2> QED BY <2>1, <2>2, <2>3, <2>4 DEF Names, Silent
  <1> QED BY <1>1, <1>2, <1>3, <1>4

(* The lists of tests are lists.                                           *)
LEMMA SmallLists ==
  ASSUME NEW a, NEW b, NEW c, NEW d, NEW e
  PROVE  /\ <<a, b, c>> \in Seq({a, b, c}) /\ Len(<<a, b, c>>) = 3
         /\ <<a, b, c, d>> \in Seq({a, b, c, d}) /\ Len(<<a, b, c, d>>) = 4
         /\ <<a, b, c, d, e>> \in Seq({a, b, c, d, e}) /\ Len(<<a, b, c, d, e>>) = 5
  OBVIOUS

LEMMA TestLists ==
  ASSUME NEW gold, NEW facts, NEW rows
  PROVE  /\ \E S : FactTests(gold, facts) \in Seq(S)
         /\ \E S : RankTests(rows) \in Seq(S)
         /\ \E S : ChunkTests(rows) \in Seq(S)
         /\ \E S : OutcomeTests \in Seq(S)
  <1>1. \E S : RankTests(rows) \in Seq(S)
    <2>1. \A a, b, c : \E S : <<a, b, c>> \in Seq(S)
      BY SmallLists
    <2> QED BY <2>1, Zenon DEF RankTests
  <1>2. \E S : ChunkTests(rows) \in Seq(S)
    <2>1. \A a, b, c, d, e : \E S : <<a, b, c, d, e>> \in Seq(S)
      BY SmallLists
    <2> QED BY <2>1, Zenon DEF ChunkTests
  <1>3. \E S : OutcomeTests \in Seq(S)
    <2>1. \A a, b, c, d : \E S : <<a, b, c, d>> \in Seq(S)
      BY SmallLists
    <2> QED BY <2>1, Zenon DEF OutcomeTests
  <1>4. \E S : FactTests(gold, facts) \in Seq(S)
    <2>1. \E a, b, c, d, e, f, g, h, i, j :
             FactTests(gold, facts) = <<a, b, c, d, e, f, g, h, i, j>>
      <3> DEFINE t == FactTests(gold, facts)
      <3> WITNESS t[1], t[2], t[3], t[4], t[5], t[6], t[7], t[8], t[9], t[10]
      <3> QED BY DEF FactTests
    <2>2. PICK a, b, c, d, e, f, g, h, i, j :
             FactTests(gold, facts) = <<a, b, c, d, e, f, g, h, i, j>>
      BY <2>1
    <2> WITNESS {a, b, c, d, e, f, g, h, i, j}
    <2> QED BY <2>2
  <1> QED BY <1>1, <1>2, <1>3, <1>4

LEMMA SilentBoth ==
  ASSUME NEW S, NEW a \in Seq(S), NEW T, NEW b \in Seq(T), Silent(a \o b)
  PROVE  Silent(a) /\ Silent(b)
  <1>1. /\ Len(a \o b) = Len(a) + Len(b) /\ Len(a) \in Nat /\ Len(b) \in Nat
        /\ \A k \in 1..Len(a) : (a \o b)[k] = a[k]
        /\ \A k \in 1..Len(b) : (a \o b)[Len(a) + k] = b[k]
    <2>1. a \in Seq(S \cup T) /\ b \in Seq(S \cup T)
      OBVIOUS
    <2> QED BY <2>1
  <1>2. ASSUME NEW k \in 1..Len(a) PROVE ~a[k][1]
    <2>1. k \in 1..Len(a \o b)
      BY <1>1
    <2> QED BY <1>1, <2>1 DEF Silent
  <1>3. ASSUME NEW k \in 1..Len(b) PROVE ~b[k][1]
    <2>1. Len(a) + k \in 1..Len(a \o b)
      BY <1>1
    <2> QED BY <1>1, <2>1 DEF Silent
  <1> QED BY <1>2, <1>3 DEF Silent

(* The tests before those of the outcome.                                  *)
LossTests(gold, facts) ==
    IF facts # {} THEN FactTests(gold, facts)
    ELSE RankTests(Journey(gold)) \o ChunkTests(Journey(gold))

(* A cause comes from the losses, or there is none and it comes from the   *)
(* outcome, or neither and it comes from the answer.                       *)
LEMMA LossComesFirst ==
  ASSUME NEW gold, NEW facts, NEW T, NEW answer \in Seq(T), NEW n \in 1..Len(answer),
         answer[n][1], NEW cause, cause = FirstLoss(gold, facts, answer)
  PROVE  \/ Names(LossTests(gold, facts), cause)
         \/ Silent(LossTests(gold, facts)) /\ Names(OutcomeTests, cause)
         \/ Silent(LossTests(gold, facts)) /\ Silent(OutcomeTests) /\ Names(answer, cause)
  <1> DEFINE losses == LossTests(gold, facts)
  <1>1. PICK S : losses \in Seq(S)
    <2>1. PICK A, B, C : /\ FactTests(gold, facts) \in Seq(A)
                         /\ RankTests(Journey(gold)) \in Seq(B)
                         /\ ChunkTests(Journey(gold)) \in Seq(C)
      BY TestLists
    <2>2. RankTests(Journey(gold)) \o ChunkTests(Journey(gold)) \in Seq(B \cup C)
      <3>1. RankTests(Journey(gold)) \in Seq(B \cup C)
            /\ ChunkTests(Journey(gold)) \in Seq(B \cup C)
        BY <2>1
      <3> QED BY <3>1
    <2> QED BY <2>1, <2>2 DEF LossTests
  <1>2. PICK O : OutcomeTests \in Seq(O)
    BY TestLists
  <1>3. losses \o OutcomeTests \in Seq(S \cup O)
    <2>1. losses \in Seq(S \cup O) /\ OutcomeTests \in Seq(S \cup O)
      BY <1>1, <1>2
    <2> HIDE DEF losses
    <2> QED BY <2>1
  <1>4. cause = FirstCause((losses \o OutcomeTests) \o answer)
    BY DEF FirstLoss, LossTests
  <1> HIDE DEF losses
  <1>5. Names((losses \o OutcomeTests) \o answer, cause)
    <2> DEFINE front == losses \o OutcomeTests
    <2> HIDE DEF front
    <2>1. front \in Seq(S \cup O)
      BY <1>3 DEF front
    <2>2. /\ front \o answer \in Seq(S \cup O \cup T)
          /\ Len(front) \in Nat /\ Len(front \o answer) = Len(front) + Len(answer)
          /\ (front \o answer)[Len(front) + n] = answer[n]
      <3>1. front \in Seq(S \cup O \cup T) /\ answer \in Seq(S \cup O \cup T)
        BY <2>1
      <3> QED BY <3>1
    <2>3. Len(front) + n \in 1..Len(front \o answer)
      BY <2>2
    <2>4. Names(front \o answer, FirstCause(front \o answer))
      BY <2>2, <2>3, FirstCauseIsNamed
    <2> QED BY <1>4, <2>4 DEF front
  <1>6. \/ Names(losses \o OutcomeTests, cause)
        \/ Silent(losses \o OutcomeTests) /\ Names(answer, cause)
    BY <1>3, <1>5, NamedByOne
  <1>7. Names(losses \o OutcomeTests, cause) =>
           Names(losses, cause) \/ (Silent(losses) /\ Names(OutcomeTests, cause))
    BY <1>1, <1>2, NamedByOne
  <1>8. Silent(losses \o OutcomeTests) => Silent(losses) /\ Silent(OutcomeTests)
    BY <1>1, <1>2, SilentBoth
  <1> QED BY <1>6, <1>7, <1>8 DEF losses

(* The tests of the ranks passed: what the mode found states every fact.   *)
RanksKeep(facts) ==
    LET text == StageText
    IN  /\ ObservedMode = "dense" => facts \subseteq text.dense
        /\ ObservedMode = "bm25" => facts \subseteq text.bm25
        /\ ObservedMode = "hybrid" => facts \subseteq text.rrf

(* What a cause says of the facts.                                         *)
LEMMA FactsAreLost ==
  ASSUME NEW gold, NEW facts, NEW cause, Names(FactTests(gold, facts), cause)
  PROVE  LET text == StageText
         IN  /\ cause # "PASS"
             /\ cause = "FUSION_LOSS" =>
                   /\ ObservedMode = "hybrid" /\ ~(facts \subseteq text.rrf)
                   /\ facts \subseteq text.dense \cup text.bm25
             /\ cause = "RERANKER_LOSS" =>
                   RerankerOn /\ ~(facts \subseteq text.reranker) /\ RanksKeep(facts)
             /\ cause \in {"EVIDENCE_SAFETY_BLOCK", "EVIDENCE_SELECTION_LOSS"} =>
                   /\ ~(facts \subseteq text.evidence) /\ RanksKeep(facts)
                   /\ HasResult /\ RerankerOn => facts \subseteq text.reranker
             /\ cause = "PROMPT_CONSTRUCTION_LOSS" =>
                   facts \subseteq text.evidence /\ ~(facts \subseteq text.prompt)
             /\ cause = "GENERATION_CLAIM_MISMATCH" =>
                   facts \subseteq text.prompt /\ ~(facts \subseteq text.final)
  <1> DEFINE text  == StageText
             tests == FactTests(gold, facts)
             lost(stage) == ~(facts \subseteq text[stage])
             mode  == ObservedMode
             miss  == ~(facts \subseteq UNION {chunks[s].child : s \in UNION gold})
  <1>1. /\ tests[1] = <<miss, "DATASET_GOLD_INVALID">>
        /\ tests[2] = <<mode \in {"dense", "bm25"} /\ lost(mode), "RETRIEVAL_MISS">>
        /\ tests[3] = <<mode = "hybrid" /\ lost("rrf") /\ ~(facts \subseteq text.dense \cup text.bm25),
                        "RETRIEVAL_MISS">>
        /\ tests[4] = <<mode = "hybrid" /\ lost("rrf"), "FUSION_LOSS">>
        /\ tests[5] = <<HasResult /\ RerankerOn /\ lost("reranker"), "RERANKER_LOSS">>
        /\ tests[6] = <<lost("evidence") /\ SafetyBlocked, "EVIDENCE_SAFETY_BLOCK">>
        /\ tests[7] = <<lost("evidence"), "EVIDENCE_SELECTION_LOSS">>
        /\ tests[8] = <<ActualDecision = "NO_ANSWER", "ANSWERABILITY_FALSE_NEGATIVE">>
        /\ tests[9] = <<lost("prompt"), "PROMPT_CONSTRUCTION_LOSS">>
        /\ tests[10] = <<lost("final"), "GENERATION_CLAIM_MISMATCH">>
        /\ Len(tests) = 10
    BY DEF FactTests, Lost
  <1> HIDE DEF text, tests, mode, miss
  <1>2. PICK i \in 1..10 : /\ tests[i][1] /\ cause = tests[i][2]
                           /\ \A k \in 1..i - 1 : ~tests[k][1]
    BY <1>1 DEF Names, tests
  <1>3. RanksKeep(facts) <=> ~(mode \in {"dense", "bm25"} /\ lost(mode))
                             /\ ~(mode = "hybrid" /\ lost("rrf"))
    BY DEF RanksKeep, mode, text
  <1>4. /\ cause # "PASS"
        /\ cause = "FUSION_LOSS" => i = 4
        /\ cause = "RERANKER_LOSS" => i = 5
        /\ cause \in {"EVIDENCE_SAFETY_BLOCK", "EVIDENCE_SELECTION_LOSS"} => i \in {6, 7}
        /\ cause = "PROMPT_CONSTRUCTION_LOSS" => i = 9
        /\ cause = "GENERATION_CLAIM_MISMATCH" => i = 10
    BY <1>1, <1>2
  <1>5. /\ i = 4 => ~tests[3][1]
        /\ i \in {5, 6, 7} => ~tests[2][1] /\ ~tests[4][1]
        /\ i \in {6, 7} => ~tests[5][1]
        /\ i = 9 => ~tests[7][1]
        /\ i = 10 => ~tests[9][1]
    BY <1>2
  <1>6. i = 4 => /\ mode = "hybrid" /\ lost("rrf")
                 /\ facts \subseteq text.dense \cup text.bm25
    BY <1>1, <1>2, <1>5
  <1>7. i = 5 => HasResult /\ RerankerOn /\ lost("reranker") /\ RanksKeep(facts)
    BY <1>1, <1>2, <1>3, <1>5
  <1>8. i \in {6, 7} => /\ lost("evidence") /\ RanksKeep(facts)
                        /\ ~(HasResult /\ RerankerOn /\ lost("reranker"))
    BY <1>1, <1>2, <1>3, <1>5
  <1>9. /\ i = 9 => lost("prompt") /\ ~lost("evidence")
        /\ i = 10 => lost("final") /\ ~lost("prompt")
    BY <1>1, <1>2, <1>5
  <1> QED BY <1>4, <1>6, <1>7, <1>8, <1>9 DEF text, mode

LEMMA FactsAreKept ==
  ASSUME NEW gold, NEW facts, Silent(FactTests(gold, facts))
  PROVE  LET text == StageText
         IN  /\ facts \subseteq text.evidence /\ facts \subseteq text.prompt
             /\ facts \subseteq text.final
  <1> DEFINE tests == FactTests(gold, facts)
  <1>1. /\ tests[7] = <<Lost(StageText, facts, "evidence"), "EVIDENCE_SELECTION_LOSS">>
        /\ tests[9] = <<Lost(StageText, facts, "prompt"), "PROMPT_CONSTRUCTION_LOSS">>
        /\ tests[10] = <<Lost(StageText, facts, "final"), "GENERATION_CLAIM_MISMATCH">>
        /\ Len(tests) = 10
    BY DEF FactTests
  <1>2. ~tests[7][1] /\ ~tests[9][1] /\ ~tests[10][1]
    BY <1>1 DEF Silent
  <1> HIDE DEF tests
  <1>3. /\ ~Lost(StageText, facts, "evidence") /\ ~Lost(StageText, facts, "prompt")
        /\ ~Lost(StageText, facts, "final")
    BY <1>1, <1>2
  <1> QED BY <1>3 DEF Lost

(* Without facts: a trusted chunk is lost, or each row keeps one.          *)
LEMMA RowsAreLost ==
  ASSUME NEW gold, NEW cause
  PROVE  /\ Names(LossTests(gold, {}), cause) => cause # "PASS"
         /\ Silent(LossTests(gold, {})) => ~Misses(Journey(gold), "evidence")
  <1> DEFINE rows == Journey(gold)
             ranks == RankTests(rows)
             rest == ChunkTests(rows)
  <1>1. /\ LossTests(gold, {}) = ranks \o rest
        /\ \E A : ranks \in Seq(A)
        /\ \E B : rest \in Seq(B)
    BY TestLists DEF LossTests
  <1> HIDE DEF rows
  <1>2. /\ Len(ranks) = 3 /\ ranks[1][2] = "RETRIEVAL_MISS" /\ ranks[2][2] = "RETRIEVAL_MISS"
        /\ ranks[3][2] = "FUSION_LOSS"
    BY DEF RankTests
  <1>3. /\ Len(rest) = 5 /\ rest[1][2] = "RERANKER_LOSS" /\ rest[2][2] = "EVIDENCE_SAFETY_BLOCK"
        /\ rest[3] = <<Misses(rows, "evidence"), "EVIDENCE_SELECTION_LOSS">>
        /\ rest[4][2] = "ANSWERABILITY_FALSE_NEGATIVE"
        /\ rest[5][2] = "PROMPT_CONSTRUCTION_LOSS"
    BY DEF ChunkTests
  <1> HIDE DEF ranks, rest
  <1>4. Names(ranks, cause) => cause # "PASS"
    BY <1>2 DEF Names
  <1>5. Names(rest, cause) => cause # "PASS"
    BY <1>3 DEF Names
  <1>6. Silent(rest) => ~Misses(rows, "evidence")
    BY <1>3 DEF Silent
  <1>7. Names(ranks \o rest, cause) => Names(ranks, cause) \/ Names(rest, cause)
    BY <1>1, NamedByOne
  <1>8. Silent(ranks \o rest) => Silent(rest)
    BY <1>1, SilentBoth
  <1> QED BY <1>1, <1>4, <1>5, <1>6, <1>7, <1>8 DEF rows

(* The tests of the outcome: PASS is the verdict on a retrieval-only run.  *)
LEMMA OutcomeIsNamed ==
  ASSUME NEW cause
  PROVE  /\ Names(OutcomeTests, cause) =>
               /\ cause \in {"GENERATION_DEPENDENCY_FAILURE", "REVIEW_REQUIRED", "PASS"}
               /\ cause = "PASS" => run.retrievalOnly
         /\ Silent(OutcomeTests) => Error # "llm" /\ PromptObserved
  <1> DEFINE tests == OutcomeTests
  <1>1. /\ tests[1] = <<Error = "llm", "GENERATION_DEPENDENCY_FAILURE">>
        /\ tests[2] = <<Error = "pipeline", "REVIEW_REQUIRED">>
        /\ tests[3] = <<Error = "RETRIEVAL_ONLY", "PASS">>
        /\ tests[4] = <<~PromptObserved, "REVIEW_REQUIRED">>
        /\ Len(tests) = 4
    BY DEF OutcomeTests
  <1>2. (tests[1][1] <=> Error = "llm") /\ (tests[4][1] <=> ~PromptObserved)
    BY DEF OutcomeTests
  <1> HIDE DEF tests
  <1>3. Error = "RETRIEVAL_ONLY" => run.retrievalOnly
    BY DEF Error
  <1>4. Names(tests, cause) =>
           /\ cause \in {"GENERATION_DEPENDENCY_FAILURE", "REVIEW_REQUIRED", "PASS"}
           /\ cause = "PASS" => Error = "RETRIEVAL_ONLY"
    BY <1>1 DEF Names
  <1>5. Silent(tests) => Error # "llm" /\ PromptObserved
    <2>1. Silent(tests) => ~tests[1][1] /\ ~tests[4][1]
      BY <1>1 DEF Silent
    <2> QED BY <1>2, <2>1
  <1> QED BY <1>3, <1>4, <1>5 DEF tests

(* The first text is taken if it is not empty.                             *)
LEMMA FirstTextIsTaken ==
  ASSUME NEW texts, 1 \in DOMAIN texts, DOMAIN texts \subseteq Nat \ {0},
         NEW list, list = texts[1].list, list # <<>>, NEW part, part = texts[1].part
  PROVE  FirstText(texts) = TextOf(chunks, list, part)
  <1> DEFINE full == {i \in DOMAIN texts : texts[i].list # <<>>}
  <1>1. 1 \in full /\ \A i \in full : i \in Nat /\ 1 <= i
    OBVIOUS
  <1> HIDE DEF full
  <1>2. Min(full) \in full /\ \A i \in full : Min(full) <= i
    BY <1>1 DEF Min
  <1>3. Min(full) = 1 /\ full # {}
    BY <1>1, <1>2
  <1> QED BY <1>3 DEF FirstText, full

(* The sources of a run that has a result.                                 *)
LEMMA EvidenceIsTheSources ==
  ASSUME HasResult
  PROVE  EvidenceText = TextOf(chunks, run.sources, "context")
  <1> DEFINE texts == <<Kept(run.sources, "context")>>
  <1>1. texts[1].list = run.sources /\ texts[1].part = "context"
    BY DEF Kept
  <1>2. DOMAIN texts = {1}
    OBVIOUS
  <1>3. EvidenceText = FirstText(texts)
    BY DEF EvidenceText
  <1> HIDE DEF texts
  <1>4. CASE run.sources # <<>>
    BY <1>1, <1>2, <1>3, <1>4, FirstTextIsTaken
  <1>5. CASE run.sources = <<>>
    <2>1. {i \in DOMAIN texts : texts[i].list # <<>>} = {}
      BY <1>1, <1>2, <1>5
    <2>2. TextOf(chunks, <<>>, "context") = {}
      BY DEF TextOf, Range
    <2> QED BY <1>3, <1>5, <2>1, <2>2 DEF FirstText
  <1> QED BY <1>4, <1>5

(* Of an answered run, the trace has the text of each list that is not     *)
(* empty, and the result the rest.                                         *)
LEMMA TextsAreTraced ==
  ASSUME QueryInv, TraceInv, Diagnosed, run.outcome = "answered", ~run.retrievalOnly
  PROVE  LET text  == StageText
             found == run.found
         IN  /\ HasResult /\ ObservedMode = found.mode /\ (RerankerOn <=> found.reranked)
             /\ found.mode \in {"dense", "hybrid"} /\ found.dense # <<>> =>
                   text.dense = TextOf(chunks, found.dense, "child")
             /\ found.mode \in {"bm25", "hybrid"} /\ found.sparse # <<>> =>
                   text.bm25 = TextOf(chunks, found.sparse, "child")
             /\ found.mode = "hybrid" => text.rrf = TextOf(chunks, found.fused, "child")
             /\ found.reranked => text.reranker = TextOf(chunks, found.picked, "child")
             /\ text.evidence = TextOf(chunks, found.candidates, "context")
             /\ text.prompt = run.prompt /\ text.final = run.answer
  <1> DEFINE text == StageText
             found == run.found
  <1>1. HasResult /\ ObservedMode = found.mode /\ (RerankerOn <=> found.reranked)
    BY DEF HasResult, ObservedMode, RerankerOn
  <1>2. /\ run.asked /\ SearchTraced /\ run.sources = found.candidates
        /\ found.candidates # <<>> /\ found.picked # <<>> /\ found.fused # <<>>
    BY DEF Diagnosed, TraceInv, Flows, QueryInv, Asking
  <1>3. text.prompt = run.prompt /\ text.final = run.answer /\ text.evidence = EvidenceText
    BY DEF StageText, PromptText
  <1>4. EvidenceText = TextOf(chunks, found.candidates, "context")
    BY <1>1, <1>2, EvidenceIsTheSources
  <1> DEFINE window == Kept(found.window, "context")
             debug == Kept(found.debug, "child")
  <1>5. ASSUME found.mode \in {"dense", "hybrid"}, found.dense # <<>>
        PROVE  text.dense = TextOf(chunks, found.dense, "child")
    <2> DEFINE texts == <<Seen("dense_retrieval", found.dense), window, debug>>
    <2>1. "dense_retrieval" \in events
      BY <1>2, <1>5 DEF SearchTraced, Branches
    <2>2. /\ 1 \in DOMAIN texts /\ DOMAIN texts \subseteq Nat \ {0}
          /\ texts[1].list = found.dense /\ texts[1].part = "child"
      BY <2>1 DEF Seen
    <2>3. text.dense = FirstText(texts)
      BY DEF StageText
    <2> HIDE DEF texts, text
    <2> QED BY <1>5, <2>2, <2>3, FirstTextIsTaken
  <1>6. ASSUME found.mode \in {"bm25", "hybrid"}, found.sparse # <<>>
        PROVE  text.bm25 = TextOf(chunks, found.sparse, "child")
    <2> DEFINE texts == <<Seen("sparse_retrieval", found.sparse), window, debug>>
    <2>1. "sparse_retrieval" \in events
      BY <1>2, <1>6 DEF SearchTraced, Branches
    <2>2. /\ 1 \in DOMAIN texts /\ DOMAIN texts \subseteq Nat \ {0}
          /\ texts[1].list = found.sparse /\ texts[1].part = "child"
      BY <2>1 DEF Seen
    <2>3. text.bm25 = FirstText(texts)
      BY DEF StageText
    <2> HIDE DEF texts, text
    <2> QED BY <1>6, <2>2, <2>3, FirstTextIsTaken
  <1>7. ASSUME found.mode = "hybrid" PROVE text.rrf = TextOf(chunks, found.fused, "child")
    <2> DEFINE texts == <<Seen("rrf_fusion", found.fused), window>>
    <2>1. "rrf_fusion" \in events
      BY <1>2, <1>7 DEF SearchTraced, Branches
    <2>2. /\ 1 \in DOMAIN texts /\ DOMAIN texts \subseteq Nat \ {0}
          /\ texts[1].list = found.fused /\ texts[1].part = "child"
      BY <2>1 DEF Seen
    <2>3. text.rrf = FirstText(texts)
      BY DEF StageText
    <2> HIDE DEF texts, text
    <2> QED BY <1>2, <2>2, <2>3, FirstTextIsTaken
  <1>8. ASSUME found.reranked PROVE text.reranker = TextOf(chunks, found.picked, "child")
    <2> DEFINE texts == <<Seen("reranker", found.picked), Kept(found.candidates, "context")>>
    <2>1. "reranker" \in events
      BY <1>2, <1>8 DEF SearchTraced
    <2>2. /\ 1 \in DOMAIN texts /\ DOMAIN texts \subseteq Nat \ {0}
          /\ texts[1].list = found.picked /\ texts[1].part = "child"
      BY <2>1 DEF Seen
    <2>3. text.reranker = FirstText(texts)
      BY <1>1, <1>8 DEF StageText
    <2> HIDE DEF texts, text
    <2> QED BY <1>2, <2>2, <2>3, FirstTextIsTaken
  <1> QED BY <1>1, <1>3, <1>4, <1>5, <1>6, <1>7, <1>8

(* What the answer is judged by: the lists end with a test that holds.     *)
Judges(answer) == \E T : answer \in Seq(T) /\ \E n \in 1..Len(answer) : answer[n][1]

(* A cause that passes the losses: nothing is lost.                        *)
LEMMA PassedLosses ==
  ASSUME QueryInv, TraceInv, Diagnosed, ~run.retrievalOnly,
         NEW gold, gold # {}, NEW facts, NEW answer, Judges(answer),
         FirstLoss(gold, facts, answer) = "PASS"
  PROVE  /\ run.outcome = "answered"
         /\ facts \subseteq run.prompt /\ facts \subseteq run.answer
         /\ facts \subseteq TextOf(chunks, run.sources, "context")
         /\ facts = {} => (UNION gold) \cap Range(run.sources) # {}
  <1>1. /\ Silent(LossTests(gold, facts)) /\ Silent(OutcomeTests)
    <2>1. PICK T : answer \in Seq(T) /\ \E n \in 1..Len(answer) : answer[n][1]
      BY DEF Judges
    <2>2. ~Names(LossTests(gold, facts), "PASS")
      BY FactsAreLost, RowsAreLost DEF LossTests
    <2>3. ~Names(OutcomeTests, "PASS")
      BY OutcomeIsNamed
    <2> QED BY <2>1, <2>2, <2>3, LossComesFirst
  <1>2. Error # "llm" /\ PromptObserved
    BY <1>1, OutcomeIsNamed
  <1>3. run.asked /\ run.outcome = "answered" /\ run.sources = run.found.candidates
    <2>1. run.asked /\ run.outcome \in {"answered", "llm_failed"}
      BY <1>2 DEF PromptObserved, TraceInv, Diagnosed
    <2>2. run.outcome = "llm_failed" => Error = "llm"
      BY DEF Error
    <2> QED BY <1>2, <2>1, <2>2 DEF TraceInv, Diagnosed
  <1>4. CASE facts # {}
    <2>1. Silent(FactTests(gold, facts))
      BY <1>1, <1>4 DEF LossTests
    <2>2. facts \subseteq EvidenceText /\ facts \subseteq run.prompt /\ facts \subseteq run.answer
      BY <2>1, FactsAreKept DEF StageText, PromptText
    <2> QED BY <1>3, <1>4, <2>2, EvidenceIsTheSources DEF HasResult
  <1>5. CASE facts = {}
    <2>1. ~Misses(Journey(gold), "evidence")
      BY <1>1, <1>5, RowsAreLost
    <2>2. PICK accepted \in gold : TRUE
      OBVIOUS
    <2>3. \E row \in Journey(gold) : row.evidence = (accepted \cap EvidenceIds # {})
      <3> DEFINE at(list) == Followed(accepted) \cap Range(list) # {}
                 row == [dense    |-> at(run.found.dense),
                         bm25     |-> at(run.found.sparse),
                         rrf      |-> at(run.found.fused),
                         reranker |-> at(run.found.picked),
                         evidence |-> accepted \cap EvidenceIds # {},
                         prompt   |-> accepted \cap Range(run.found.candidates) # {}]
      <3>1. row \in Journey(gold)
        BY <2>2, Zenon DEF Journey
      <3>2. row.evidence = (accepted \cap EvidenceIds # {})
        OBVIOUS
      <3> HIDE DEF row
      <3> QED BY <3>1, <3>2
    <2>4. accepted \cap EvidenceIds # {}
      BY <2>1, <2>3 DEF Misses
    <2>5. EvidenceIds = Range(run.sources)
      BY <1>3 DEF EvidenceIds, TraceInv
    <2> QED BY <1>3, <1>5, <2>4, <2>5
  <1> QED BY <1>4, <1>5

(* The tests of an answer blame it only when it leaves out a fact, or      *)
(* fails a claim.                                                          *)
AnswerToBlame(cause, facts, claims) ==
    /\ cause \in {"PASS", "CORRECT_BUT_UNGROUNDED", "GENERATION_CLAIM_MISMATCH", "REVIEW_REQUIRED"}
    /\ cause = "GENERATION_CLAIM_MISMATCH" /\ run.outcome = "answered" =>
          ~(facts \subseteq run.answer) \/ ~claims

LEMMA ClaimsJudge ==
  ASSUME NEW case, case.expected = "ANSWERED", NEW facts
  PROVE  /\ Judges(ClaimTests(case))
         /\ \A cause : Names(ClaimTests(case), cause) =>
               AnswerToBlame(cause, facts, ClaimsPass(case))
  <1> DEFINE tests == ClaimTests(case)
             told == ActualDecision = "ANSWERED" /\ case.claims \subseteq run.answer
  <1>1. /\ tests[1] = <<Verdict(case) = "PASS", "PASS">>
        /\ tests[2] = <<told, "CORRECT_BUT_UNGROUNDED">>
        /\ tests[3] = <<ActualDecision = "ANSWERED", "GENERATION_CLAIM_MISMATCH">>
        /\ tests[4] = <<TRUE, "REVIEW_REQUIRED">>
        /\ tests[1][1] <=> Verdict(case) = "PASS"
        /\ tests[3][1] <=> ActualDecision = "ANSWERED"
        /\ tests[4][1] /\ Len(tests) = 4
    BY DEF ClaimTests
  <1>2. \E T : tests \in Seq(T)
    <2>1. \A a, b, c, d : \E S : <<a, b, c, d>> \in Seq(S)
      BY SmallLists
    <2> QED BY <2>1, Zenon DEF ClaimTests
  <1>3. Verdict(case) # "PASS" /\ ActualDecision = "ANSWERED" => ~ClaimsPass(case)
    BY DEF Verdict
  <1> HIDE DEF tests, told
  <1>4. ASSUME NEW cause, Names(tests, cause) PROVE AnswerToBlame(cause, facts, ClaimsPass(case))
    <2>1. PICK i \in 1..4 : /\ tests[i][1] /\ cause = tests[i][2]
                            /\ \A k \in 1..i - 1 : ~tests[k][1]
      BY <1>1, <1>4 DEF Names
    <2>2. /\ cause \in {"PASS", "CORRECT_BUT_UNGROUNDED", "GENERATION_CLAIM_MISMATCH",
                        "REVIEW_REQUIRED"}
          /\ cause = "GENERATION_CLAIM_MISMATCH" => i = 3
      BY <1>1, <2>1
    <2>3. i = 3 => tests[3][1] /\ ~tests[1][1]
      BY <2>1
    <2> QED BY <1>1, <1>3, <2>2, <2>3 DEF AnswerToBlame
  <1>5. Judges(tests)
    <2>1. 4 \in 1..Len(tests) /\ tests[4][1]
      BY <1>1
    <2> QED BY <1>2, <2>1, Zenon DEF Judges
  <1> QED BY <1>4, <1>5 DEF tests

(* The same for the check of an expected answer.                           *)
LEMMA CheckJudges ==
  ASSUME NEW facts, NEW alike \in BOOLEAN, NEW answer,
         answer = << <<CheckAnswer(facts, alike) = "PASS", "PASS">>,
                     <<CheckAnswer(facts, alike) = "REVIEW_REQUIRED", "REVIEW_REQUIRED">>,
                     <<TRUE, "GENERATION_CLAIM_MISMATCH">> >>
  PROVE  /\ Judges(answer)
         /\ \A cause : Names(answer, cause) => AnswerToBlame(cause, facts, TRUE)
  <1> DEFINE check == CheckAnswer(facts, alike)
  <1>1. /\ answer[1] = <<check = "PASS", "PASS">>
        /\ answer[2] = <<check = "REVIEW_REQUIRED", "REVIEW_REQUIRED">>
        /\ answer[3] = <<TRUE, "GENERATION_CLAIM_MISMATCH">>
        /\ answer[1][1] <=> check = "PASS"
        /\ answer[2][1] <=> check = "REVIEW_REQUIRED"
        /\ answer[3][1] /\ Len(answer) = 3
    OBVIOUS
  <1>2. \E T : answer \in Seq(T)
    <2>1. \A a, b, c : \E S : <<a, b, c>> \in Seq(S)
      BY SmallLists
    <2> QED BY <2>1, Zenon
  <1>3. check \notin {"PASS", "REVIEW_REQUIRED"} /\ run.outcome = "answered" =>
           ~(facts \subseteq run.answer)
    BY DEF CheckAnswer
  <1> HIDE DEF check
  <1>4. ASSUME NEW cause, Names(answer, cause) PROVE AnswerToBlame(cause, facts, TRUE)
    <2>1. PICK i \in 1..3 : /\ answer[i][1] /\ cause = answer[i][2]
                            /\ \A k \in 1..i - 1 : ~answer[k][1]
      BY <1>1, <1>4 DEF Names
    <2>2. /\ cause \in {"PASS", "GENERATION_CLAIM_MISMATCH", "REVIEW_REQUIRED"}
          /\ cause = "GENERATION_CLAIM_MISMATCH" => i = 3
      BY <1>1, <2>1
    <2>3. i = 3 => ~answer[1][1] /\ ~answer[2][1]
      BY <2>1
    <2> QED BY <1>1, <1>3, <2>2, <2>3 DEF AnswerToBlame
  <1>5. Judges(answer)
    <2>1. 3 \in 1..Len(answer) /\ answer[3][1]
      BY <1>1
    <2> QED BY <1>2, <2>1, Zenon DEF Judges
  <1> QED BY <1>4, <1>5

(* A diagnosis refuses what it was asked, or names the first loss.         *)
LEMMA DiagnosisIsALoss ==
  ASSUME NEW d \in Diagnoses
  PROVE  \/ d.cause \in {"DATASET_GOLD_INVALID", "REVIEW_REQUIRED"}
         \/ \E gold, answer :
               /\ gold # {} /\ d.chunks = UNION gold /\ Judges(answer)
               /\ d.cause = FirstLoss(gold, d.facts, answer)
               /\ d.cause = "PASS" => ~run.retrievalOnly
               /\ Names(answer, d.cause) => AnswerToBlame(d.cause, d.facts, d.claims)
  <1>1. ASSUME NEW case \in Cases, case.expected = "ANSWERED",
               d = [facts |-> case.facts, chunks |-> UNION Gold(case),
                    cause |-> RootCause(case), claims |-> ClaimsPass(case)],
               d.cause \notin {"DATASET_GOLD_INVALID", "REVIEW_REQUIRED"}
        PROVE  \E gold, answer :
                  /\ gold # {} /\ d.chunks = UNION gold /\ Judges(answer)
                  /\ d.cause = FirstLoss(gold, d.facts, answer)
                  /\ d.cause = "PASS" => ~run.retrievalOnly
                  /\ Names(answer, d.cause) => AnswerToBlame(d.cause, d.facts, d.claims)
    <2>1. /\ d.facts = case.facts /\ d.chunks = UNION Gold(case) /\ d.cause = RootCause(case)
          /\ d.claims = ClaimsPass(case)
      BY <1>1
    <2>2. d.cause = Attribute(case) /\ (d.cause = "PASS" => ~run.retrievalOnly)
      BY <1>1, <2>1 DEF RootCause
    <2>3. case.locators # {} /\ d.cause = FirstLoss(Gold(case), case.facts, ClaimTests(case))
      BY <1>1, <2>2 DEF Attribute
    <2>4. Gold(case) # {}
      BY <2>3 DEF Gold
    <2>5. /\ Judges(ClaimTests(case))
          /\ Names(ClaimTests(case), d.cause) => AnswerToBlame(d.cause, d.facts, d.claims)
      BY <1>1, <2>1, ClaimsJudge
    <2> QED BY <2>1, <2>2, <2>3, <2>4, <2>5
  <1>2. ASSUME NEW picked, ~run.retrievalOnly, NEW facts, NEW alike \in BOOLEAN,
               d = [facts |-> facts, chunks |-> picked,
                    cause |-> TrustedCause(picked, facts, alike), claims |-> TRUE],
               d.cause # "DATASET_GOLD_INVALID"
        PROVE  \E gold, answer :
                  /\ gold # {} /\ d.chunks = UNION gold /\ Judges(answer)
                  /\ d.cause = FirstLoss(gold, d.facts, answer)
                  /\ d.cause = "PASS" => ~run.retrievalOnly
                  /\ Names(answer, d.cause) => AnswerToBlame(d.cause, d.facts, d.claims)
    <2> DEFINE check == CheckAnswer(facts, alike)
               answer == << <<check = "PASS", "PASS">>,
                            <<check = "REVIEW_REQUIRED", "REVIEW_REQUIRED">>,
                            <<TRUE, "GENERATION_CLAIM_MISMATCH">> >>
               gold == {{s} : s \in picked}
    <2>1. /\ d.facts = facts /\ d.chunks = picked /\ d.cause = TrustedCause(picked, facts, alike)
          /\ d.claims = TRUE
      BY <1>2
    <2>2. picked # {} /\ d.cause = FirstLoss(gold, facts, answer)
      BY <1>2, <2>1 DEF TrustedCause
    <2>3. gold # {} /\ d.chunks = UNION gold
      BY <2>1, <2>2
    <2>4. Judges(answer) /\ \A cause : Names(answer, cause) => AnswerToBlame(cause, facts, TRUE)
      BY CheckJudges
    <2> HIDE DEF answer, gold
    <2> QED BY <1>2, <2>1, <2>2, <2>3, <2>4
  <1>3. \/ \E case \in Cases :
              /\ case.expected = "ANSWERED"
              /\ d = [facts |-> case.facts, chunks |-> UNION Gold(case),
                      cause |-> RootCause(case), claims |-> ClaimsPass(case)]
        \/ ~run.retrievalOnly /\ \E picked, facts : \E alike \in BOOLEAN :
              d = [facts |-> facts, chunks |-> picked,
                   cause |-> TrustedCause(picked, facts, alike), claims |-> TRUE]
    BY DEF Diagnoses
  <1> QED BY <1>1, <1>2, <1>3

(* Two lists one behind the other state what either states.                *)
LEMMA BothTexts ==
  ASSUME NEW a, a \in List, NEW b, b \in List, NEW part
  PROVE  TextOf(chunks, a \o b, part) = TextOf(chunks, a, part) \cup TextOf(chunks, b, part)
  <1>1. Range(a \o b) = Range(a) \cup Range(b)
    <2>1. /\ Len(a \o b) = Len(a) + Len(b) /\ Len(a) \in Nat /\ Len(b) \in Nat
          /\ a \o b \in Seq(Sources)
          /\ \A k \in 1..Len(a) : (a \o b)[k] = a[k]
          /\ \A k \in 1..Len(b) : (a \o b)[Len(a) + k] = b[k]
      BY DEF List
    <2>2. DOMAIN (a \o b) = 1..Len(a \o b) /\ DOMAIN a = 1..Len(a) /\ DOMAIN b = 1..Len(b)
      BY <2>1 DEF List
    <2> DEFINE ab == a \o b
    <2> HIDE DEF ab
    <2>3. ASSUME NEW s \in Range(ab) PROVE s \in Range(a) \cup Range(b)
      <3>1. PICK k \in 1..Len(ab) : ab[k] = s
        BY <2>2, <2>3 DEF Range, ab
      <3>2. CASE k <= Len(a)
        <4>1. k \in 1..Len(a) /\ a[k] = s
          BY <2>1, <3>1, <3>2 DEF ab
        <4> QED BY <2>2, <4>1 DEF Range
      <3>3. CASE k > Len(a)
        <4>1. k - Len(a) \in 1..Len(b) /\ k = Len(a) + (k - Len(a))
          BY <2>1, <3>1, <3>3 DEF ab
        <4>2. b[k - Len(a)] = s
          BY <2>1, <3>1, <4>1 DEF ab
        <4> QED BY <2>2, <4>1, <4>2 DEF Range
      <3> QED BY <2>1, <3>1, <3>2, <3>3
    <2>4. ASSUME NEW s \in Range(a) PROVE s \in Range(ab)
      <3>1. PICK k \in 1..Len(a) : a[k] = s
        BY <2>2, <2>4 DEF Range
      <3>2. k \in 1..Len(ab) /\ ab[k] = s
        BY <2>1, <3>1 DEF ab
      <3> QED BY <2>2, <3>2 DEF Range, ab
    <2>5. ASSUME NEW s \in Range(b) PROVE s \in Range(ab)
      <3>1. PICK k \in 1..Len(b) : b[k] = s
        BY <2>2, <2>5 DEF Range
      <3>2. Len(a) + k \in 1..Len(ab) /\ ab[Len(a) + k] = s
        BY <2>1, <3>1 DEF ab
      <3> QED BY <2>2, <3>2 DEF Range, ab
    <2> QED BY <2>3, <2>4, <2>5 DEF ab
  <1> QED BY <1>1 DEF TextOf

(* GoldDiagnosticService, for any corpus, cases and run: a diagnosis that  *)
(* says PASS is about an answered question, whose answer and prompt state  *)
(* each required fact and whose sources state it too, or hold a trusted    *)
(* chunk where no fact is required.                                        *)
THEOREM PassIsGrounded == QuerySpec => []PassMeansGrounded
  <1>1. ASSUME QueryInv, TraceInv PROVE PassMeansGrounded
    <2> SUFFICES ASSUME Diagnosed, NEW d \in Diagnoses, d.cause = "PASS"
                 PROVE  /\ run.outcome = "answered" /\ ~run.retrievalOnly
                        /\ d.facts \subseteq run.prompt \cap run.answer
                        /\ d.facts \subseteq TextOf(chunks, run.sources, "context")
                        /\ d.facts = {} => d.chunks \cap Range(run.sources) # {}
      BY DEF PassMeansGrounded
    <2>1. PICK gold, answer :
             /\ gold # {} /\ d.chunks = UNION gold /\ Judges(answer)
             /\ d.cause = FirstLoss(gold, d.facts, answer) /\ ~run.retrievalOnly
      BY DiagnosisIsALoss
    <2> QED BY <1>1, <2>1, PassedLosses
  <1> QED BY <1>1, TraceAlways, PTL

(* The same for a blame: of an answered run, with something in each branch *)
(* of its mode, the stage that a diagnosis names got every required fact   *)
(* from the stages before it, and did not hand them all on, or else the    *)
(* answer fails a claim.                                                   *)
THEOREM BlameIsDeserved == QuerySpec => []BlamedStageLostTheFact
  <1>1. ASSUME QueryInv, TraceInv PROVE BlamedStageLostTheFact
    <2> SUFFICES ASSUME Diagnosed, run.outcome = "answered", ~run.retrievalOnly,
                        run.found.mode = "hybrid" =>
                           run.found.dense # <<>> /\ run.found.sparse # <<>>,
                        NEW d \in Diagnoses, d.facts # {}, StageOf(d.cause) > 0
                 PROVE  /\ d.facts \subseteq Left[StageOf(d.cause) - 1]
                        /\ ~(d.facts \subseteq Left[StageOf(d.cause)]) \/ ~d.claims
      BY DEF BlamedStageLostTheFact
    <2> DEFINE text     == StageText
               found    == run.found
               branches == TextOf(chunks, found.dense \o found.sparse, "child")
               fused    == IF found.mode = "hybrid" THEN TextOf(chunks, found.fused, "child")
                           ELSE branches
               picked   == IF found.reranked THEN TextOf(chunks, found.picked, "child") ELSE fused
    <2>1. PICK gold, answer :
             /\ Judges(answer) /\ d.cause = FirstLoss(gold, d.facts, answer)
             /\ Names(answer, d.cause) => AnswerToBlame(d.cause, d.facts, d.claims)
      BY DiagnosisIsALoss DEF StageOf
    <2>2. /\ Left[1] = branches /\ Left[2] = fused /\ Left[3] = picked
          /\ Left[4] = TextOf(chunks, found.candidates, "context")
          /\ Left[5] = run.prompt /\ Left[6] = run.answer
      BY DEF Left
    <2>3. /\ HasResult /\ ObservedMode = found.mode /\ (RerankerOn <=> found.reranked)
          /\ found.mode \in {"dense", "hybrid"} /\ found.dense # <<>> =>
                text.dense = TextOf(chunks, found.dense, "child")
          /\ found.mode \in {"bm25", "hybrid"} /\ found.sparse # <<>> =>
                text.bm25 = TextOf(chunks, found.sparse, "child")
          /\ found.mode = "hybrid" => text.rrf = TextOf(chunks, found.fused, "child")
          /\ found.reranked => text.reranker = TextOf(chunks, found.picked, "child")
          /\ text.evidence = Left[4] /\ text.prompt = Left[5] /\ text.final = Left[6]
      BY <1>1, <2>2, TextsAreTraced
    <2>4. branches = TextOf(chunks, found.dense, "child") \cup TextOf(chunks, found.sparse, "child")
      <3>1. found.dense \in List /\ found.sparse \in List
        BY <1>1 DEF QueryInv, RunOK, FoundOK, FoundType
      <3> QED BY <3>1, BothTexts
    <2>5. /\ found.mode = "hybrid" \/ found.mode = "dense" \/ found.mode = "bm25"
          /\ found.mode = "dense" => found.dense # <<>>
          /\ found.mode = "bm25" => found.sparse # <<>>
      <3>1. found.mode \in Modes
        BY <1>1 DEF QueryInv, RunOK, FoundOK, FoundType
      <3>2. found.fused # <<>>
        BY <1>1 DEF TraceInv, Flows, QueryInv, Asking, Diagnosed
      <3> QED BY <1>1, <3>1, <3>2 DEF TraceInv, Flows, Modes
    <2> HIDE DEF text, branches
    <2>6. RanksKeep(d.facts) => d.facts \subseteq fused
      BY <2>3, <2>4, <2>5 DEF RanksKeep, text
    <2>7. \/ Names(FactTests(gold, d.facts), d.cause)
          \/ Silent(FactTests(gold, d.facts)) /\ Names(answer, d.cause)
      <3>1. PICK T : answer \in Seq(T) /\ \E n \in 1..Len(answer) : answer[n][1]
        BY <2>1 DEF Judges
      <3>2. ~Names(OutcomeTests, d.cause)
        BY OutcomeIsNamed DEF StageOf
      <3> QED BY <2>1, <3>1, <3>2, LossComesFirst DEF LossTests
    <2>8. CASE Silent(FactTests(gold, d.facts)) /\ Names(answer, d.cause)
      <3>1. d.cause = "GENERATION_CLAIM_MISMATCH" /\ StageOf(d.cause) = 6
        BY <2>1, <2>8 DEF AnswerToBlame, StageOf
      <3>2. d.facts \subseteq text.prompt
        BY <2>8, FactsAreKept DEF text
      <3> QED BY <2>1, <2>2, <2>3, <2>8, <3>1, <3>2 DEF AnswerToBlame
    <2>9. CASE Names(FactTests(gold, d.facts), d.cause)
      <3> DEFINE facts == d.facts
                 cause == d.cause
      <3>1. /\ cause = "FUSION_LOSS" =>
                  /\ ObservedMode = "hybrid" /\ ~(facts \subseteq text.rrf)
                  /\ facts \subseteq text.dense \cup text.bm25
            /\ cause = "RERANKER_LOSS" =>
                  RerankerOn /\ ~(facts \subseteq text.reranker) /\ RanksKeep(facts)
            /\ cause \in {"EVIDENCE_SAFETY_BLOCK", "EVIDENCE_SELECTION_LOSS"} =>
                  /\ ~(facts \subseteq text.evidence) /\ RanksKeep(facts)
                  /\ HasResult /\ RerankerOn => facts \subseteq text.reranker
            /\ cause = "PROMPT_CONSTRUCTION_LOSS" =>
                  facts \subseteq text.evidence /\ ~(facts \subseteq text.prompt)
            /\ cause = "GENERATION_CLAIM_MISMATCH" =>
                  facts \subseteq text.prompt /\ ~(facts \subseteq text.final)
        BY <2>9, FactsAreLost DEF text
      <3> HIDE DEF facts, cause
      <3>2. CASE cause = "FUSION_LOSS"
        <4>1. StageOf(cause) = 2
          BY <3>2 DEF StageOf
        <4>2. facts \subseteq branches /\ ~(facts \subseteq fused)
          BY <2>3, <2>4, <3>1, <3>2
        <4> QED BY <2>2, <4>1, <4>2 DEF facts, cause
      <3>3. CASE cause = "RERANKER_LOSS"
        <4>1. StageOf(cause) = 3
          BY <3>3 DEF StageOf
        <4>2. facts \subseteq fused /\ ~(facts \subseteq picked)
          BY <2>3, <2>6, <3>1, <3>3 DEF facts
        <4> QED BY <2>2, <4>1, <4>2 DEF facts, cause
      <3>4. CASE cause \in {"EVIDENCE_SAFETY_BLOCK", "EVIDENCE_SELECTION_LOSS"}
        <4>1. StageOf(cause) = 4
          BY <3>4 DEF StageOf
        <4>2. facts \subseteq picked /\ ~(facts \subseteq Left[4])
          BY <2>3, <2>6, <3>1, <3>4 DEF facts
        <4> QED BY <2>2, <4>1, <4>2 DEF facts, cause
      <3>5. CASE cause = "PROMPT_CONSTRUCTION_LOSS"
        <4>1. StageOf(cause) = 5
          BY <3>5 DEF StageOf
        <4> QED BY <2>3, <3>1, <3>5, <4>1 DEF facts, cause
      <3>6. CASE cause = "GENERATION_CLAIM_MISMATCH"
        <4>1. StageOf(cause) = 6
          BY <3>6 DEF StageOf
        <4> QED BY <2>3, <3>1, <3>6, <4>1 DEF facts, cause
      <3>7. cause \in {"FUSION_LOSS", "RERANKER_LOSS", "EVIDENCE_SAFETY_BLOCK",
                       "EVIDENCE_SELECTION_LOSS", "PROMPT_CONSTRUCTION_LOSS",
                       "GENERATION_CLAIM_MISMATCH"}
        BY DEF StageOf, cause
      <3> QED BY <3>2, <3>3, <3>4, <3>5, <3>6, <3>7
    <2> QED BY <2>7, <2>8, <2>9
  <1> QED BY <1>1, TraceAlways, PTL
=============================================================================

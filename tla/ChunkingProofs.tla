--------------------------- MODULE ChunkingProofs ---------------------------
(***************************************************************************)
(* Theorems about how a document is cut, for any uploads, markers, sizes   *)
(* and overlaps.  What an operator of Chunking computes is stated for any  *)
(* text first; the invariant of the specification only has to say which    *)
(* operator a part of the state was computed by.                           *)
(***************************************************************************)
EXTENDS Chunking, LoopProofs, FiniteSetTheorems, SequenceTheorems

-----------------------------------------------------------------------------
(* NUMBERS AND LISTS.                                                      *)

LEMMA LargestOf ==
  ASSUME NEW a \in Int, NEW b \in Int, NEW S, S \subseteq a..b, S # {}
  PROVE  Max(S) \in S /\ \A x \in S : x <= Max(S)
  <1> DEFINE T == {b - x : x \in S}
  <1>0. \A x \in S : x \in Int /\ b - x \in Nat
    OBVIOUS
  <1>1. T \subseteq Nat /\ T # {}
    BY <1>0
  <1>2. PICK t \in T : \A u \in T : t <= u
    <2> HIDE DEF T
    <2> QED BY <1>1, NatLeast
  <1>3. PICK m \in S : t = b - m
    BY <1>2
  <1>4. \A x \in S : m >= x
    <2> SUFFICES ASSUME NEW x \in S PROVE m >= x
      OBVIOUS
    <2>1. t <= b - x
      BY <1>2
    <2> QED BY <1>0, <1>3, <2>1
  <1>5. Max(S) \in S /\ \A x \in S : Max(S) >= x
    BY <1>4 DEF Max
  <1> QED BY <1>5

LEMMA SmallestOf ==
  ASSUME NEW a \in Int, NEW b \in Int, NEW S, S \subseteq a..b, S # {}
  PROVE  Min(S) \in S /\ \A x \in S : Min(S) <= x
  <1> DEFINE T == {x - a : x \in S}
  <1>0. \A x \in S : x \in Int /\ x - a \in Nat
    OBVIOUS
  <1>1. T \subseteq Nat /\ T # {}
    BY <1>0
  <1>2. PICK t \in T : \A u \in T : t <= u
    <2> HIDE DEF T
    <2> QED BY <1>1, NatLeast
  <1>3. PICK m \in S : t = m - a
    BY <1>2
  <1>4. \A x \in S : m <= x
    <2> SUFFICES ASSUME NEW x \in S PROVE m <= x
      OBVIOUS
    <2>1. t <= x - a
      BY <1>2
    <2> QED BY <1>0, <1>3, <2>1
  <1> QED BY <1>4 DEF Min

(* InOrder lists a finite set of numbers, each once, the smaller first.    *)
Lists(list, S) ==
    /\ DOMAIN list = 1..Len(list) /\ Len(list) \in Nat
    /\ \A k \in 1..Len(list) : list[k] \in S
    /\ \A k, m \in 1..Len(list) : k < m => list[k] < list[m]
    /\ \A i \in S : \E k \in 1..Len(list) : list[k] = i

LEMMA InOrderLists ==
  ASSUME NEW S, S \subseteq Int, IsFiniteSet(S)
  PROVE  Lists(InOrder(S), S)
  <1> DEFINE Upto(i) == {j \in S : j <= i}
             c == Cardinality(S)
             f == [i \in S |-> Cardinality(Upto(i))]
             list == InOrder(S)
  <1>1. ASSUME NEW i \in S
        PROVE  IsFiniteSet(Upto(i)) /\ f[i] \in 1..c /\ c \in Nat
    <2>1. Upto(i) \in SUBSET S /\ i \in Upto(i)
      OBVIOUS
    <2>2. f[i] = Cardinality(Upto(i))
      OBVIOUS
    <2> HIDE DEF Upto, f
    <2>3. IsFiniteSet(Upto(i)) /\ Cardinality(Upto(i)) <= Cardinality(S) /\ Cardinality(S) \in Nat
      BY <2>1, FS_Subset, FS_CardinalityType
    <2>4. Cardinality(Upto(i)) \in Nat /\ Cardinality(Upto(i)) # 0
      BY <2>1, <2>3, FS_CardinalityType, FS_EmptySet
    <2> QED BY <2>2, <2>3, <2>4
  <1>2. ASSUME NEW i \in S, NEW j \in S, i < j
        PROVE  f[i] < f[j]
    <2>1. Upto(i) \in SUBSET Upto(j) /\ j \in Upto(j) /\ j \notin Upto(i)
      <3>1. i \in Int /\ j \in Int /\ \A x \in S : x \in Int
        OBVIOUS
      <3>2. \A x \in S : x <= i => x <= j
        BY <1>2, <3>1
      <3>3. j <= j /\ ~(j <= i)
        BY <1>2, <3>1
      <3> QED BY <3>2, <3>3
    <2>2. f[i] = Cardinality(Upto(i)) /\ f[j] = Cardinality(Upto(j))
      OBVIOUS
    <2>3. IsFiniteSet(Upto(j)) /\ f[i] \in 1..c /\ f[j] \in 1..c
      BY <1>1
    <2> HIDE DEF Upto, f
    <2>4. /\ Cardinality(Upto(i)) <= Cardinality(Upto(j))
          /\ Cardinality(Upto(i)) # Cardinality(Upto(j))
      BY <2>1, <2>3, FS_Subset
    <2> QED BY <2>2, <2>3, <2>4
  <1>3. c \in Nat /\ IsFiniteSet(1..c) /\ Cardinality(1..c) = c
    BY FS_CardinalityType, FS_Interval
  <1> DEFINE T == 1..c
  <1>4. f \in Injection(S, T)
    <2>1. f \in [S -> T]
      BY <1>1
    <2>2. ASSUME NEW i \in S, NEW j \in S, f[i] = f[j] PROVE i = j
      <3>1. i \in Int /\ j \in Int /\ f[i] \in Int /\ f[j] \in Int
        BY <1>1
      <3>2. ~(i < j) /\ ~(j < i)
        <4> HIDE DEF f
        <4> QED BY <1>2, <2>2, <3>1
      <3> QED BY <3>1, <3>2
    <2> HIDE DEF f, T
    <2> QED BY <2>1, <2>2 DEF Injection, IsInjective
  <1>5. f \in Surjection(S, T)
    <2>1. IsFiniteSet(T) /\ Cardinality(S) = Cardinality(T)
      BY <1>3
    <2> HIDE DEF f, T, c
    <2> QED BY <1>4, <2>1, FS_Injection
  <1>6. /\ \A i \in S : f[i] = Cardinality({j \in S : j <= i})
        /\ list = [k \in 1..c |-> CHOOSE i \in S : Cardinality({j \in S : j <= i}) = k]
    BY DEF InOrder
  <1> HIDE DEF f
  <1>7. ASSUME NEW k \in 1..c
        PROVE  list[k] \in S /\ f[list[k]] = k
    <2>1. \E i \in S : f[i] = k
      BY <1>5, <1>7 DEF Surjection
    <2>2. \E i \in S : Cardinality({j \in S : j <= i}) = k
      BY <1>6, <2>1
    <2>3. list[k] = CHOOSE i \in S : Cardinality({j \in S : j <= i}) = k
      BY <1>6, <1>7
    <2> HIDE DEF list
    <2>4. list[k] \in S /\ Cardinality({j \in S : j <= list[k]}) = k
      BY <2>2, <2>3
    <2> QED BY <1>6, <2>4
  <1> HIDE DEF list
  <1>8. list \in Seq(S) /\ Len(list) = c /\ DOMAIN list = 1..c
    <2>1. list \in [1..c -> S]
      BY <1>6, <1>7
    <2> QED BY <2>1, <1>3
  <1>9. ASSUME NEW k \in 1..c, NEW m \in 1..c, k < m PROVE list[k] < list[m]
    <2>1. list[k] \in S /\ list[m] \in S /\ f[list[k]] = k /\ f[list[m]] = m
      BY <1>7
    <2>2. ~(list[m] < list[k]) /\ list[m] # list[k]
      <3>1. ~(f[list[m]] < f[list[k]])
        BY <2>1, <1>9, <1>3
      <3> QED BY <1>2, <2>1, <3>1, <1>9, <1>3
    <2>3. list[k] \in Int /\ list[m] \in Int
      BY <2>1
    <2> QED BY <2>2, <2>3
  <1>10. ASSUME NEW i \in S PROVE \E k \in 1..c : list[k] = i
    <2>1. f[i] \in 1..c
      BY <1>1
    <2>2. list[f[i]] \in S /\ f[list[f[i]]] = f[i]
      BY <1>7, <2>1
    <2>3. list[f[i]] = i
      BY <1>4, <2>2 DEF Injection, IsInjective
    <2> QED BY <2>1, <2>3
  <1>11. Lists(list, S)
    BY <1>3, <1>7, <1>8, <1>9, <1>10 DEF Lists
  <1> QED BY <1>11 DEF list

(* FlattenSeq: end[p] is where the part p ends in the flat sequence.       *)
EndsAt(end, seqs) ==
    /\ end \in [0..Len(seqs) -> Nat] /\ end[0] = 0
    /\ \A p \in 1..Len(seqs) : end[p] = end[p - 1] + Len(seqs[p])

IsFlat(flat, end, seqs) ==
    /\ EndsAt(end, seqs) /\ Len(flat) = end[Len(seqs)]
    /\ \A p \in 1..Len(seqs) : \A j \in 1..Len(seqs[p]) :
          end[p - 1] + j \in 1..Len(flat) /\ flat[end[p - 1] + j] = seqs[p][j]
    /\ \A i \in 1..Len(flat) : \E p \in 1..Len(seqs) : \E j \in 1..Len(seqs[p]) :
          i = end[p - 1] + j

LEMMA TwoLists ==
  ASSUME NEW S, NEW a, a \in Seq(S), NEW b, b \in Seq(S)
  PROVE  /\ a \o b \in Seq(S) /\ Len(a \o b) = Len(a) + Len(b)
         /\ \A i \in 1..Len(a) : (a \o b)[i] = a[i]
         /\ \A j \in 1..Len(b) : (a \o b)[Len(a) + j] = b[j]
         /\ Len(a) \in Nat /\ Len(b) \in Nat
  OBVIOUS

LEMMA NothingBefore == ASSUME NEW S, NEW b, b \in Seq(S) PROVE << >> \o b = b
  OBVIOUS

(* What FlattenSeq appends up to a part.                                   *)
Flattens(flatten, seqs) ==
    flatten = [i \in 1..Len(seqs) |-> IF i = 1 THEN seqs[i] ELSE flatten[i - 1] \o seqs[i]]

LEMMA FlattensStepwise ==
  ASSUME NEW S, NEW seqs, seqs \in Seq(Seq(S)), Len(seqs) # 0
  PROVE  \E flatten : /\ FlattenSeq(seqs) = flatten[Len(seqs)]
                      /\ flatten \in [1..Len(seqs) -> Seq(S)] /\ flatten[1] = seqs[1]
                      /\ \A i \in 2..Len(seqs) : flatten[i] = flatten[i - 1] \o seqs[i]
  <1> DEFINE n == Len(seqs)
             States == Seq(S)
             Step == [x \in (1..n) \X States |-> x[2] \o seqs[x[1]]]
  <1>1. n \in Nat /\ n # 0 /\ 1 \in 1..n /\ \A i \in 1..n : seqs[i] \in States
    OBVIOUS
  <1>2. \A i \in 1..n : \A s \in States : Step[<<i, s>>] = s \o seqs[i] /\ s \o seqs[i] \in States
    <2> SUFFICES ASSUME NEW i \in 1..n, NEW s \in States
                 PROVE  Step[<<i, s>>] = s \o seqs[i] /\ s \o seqs[i] \in States
      OBVIOUS
    <2>1. s \o seqs[i] \in Seq(S)
      BY <1>1, TwoLists
    <2> QED BY <2>1
  <1>3. \E g : IsLoop(g, n, States, << >>, Step)
    <2>1. << >> \in States
      OBVIOUS
    <2>2. Step \in LoopBody(n, States)
      <3>1. \A x \in (1..n) \X States : x[2] \o seqs[x[1]] \in States
        <4> SUFFICES ASSUME NEW i \in 1..n, NEW s \in States PROVE s \o seqs[i] \in States
          OBVIOUS
        <4> QED BY <1>2
      <3> QED BY <3>1 DEF LoopBody
    <2> HIDE DEF Step, States, n
    <2> QED BY <1>1, <2>1, <2>2, LoopRuns
  <1>4. PICK g : IsLoop(g, n, States, << >>, Step)
    BY <1>3
  <1> HIDE DEF Step
  <1>5. \A i \in 1..n : g[i] \in States /\ g[i - 1] \in States /\ g[i] = g[i - 1] \o seqs[i]
    <2> HIDE DEF States
    <2> SUFFICES ASSUME NEW i \in 1..n
                 PROVE  g[i] \in States /\ g[i - 1] \in States /\ g[i] = g[i - 1] \o seqs[i]
      OBVIOUS
    <2>1. g[i - 1] \in States /\ g[i] = Step[<<i, g[i - 1]>>]
      BY <1>4 DEF IsLoop
    <2> QED BY <1>2, <2>1
  <1>6. g[1] = seqs[1]
    <2>1. g[0] = << >> /\ seqs[1] \in Seq(S)
      BY <1>1, <1>4 DEF IsLoop
    <2>2. g[1] = g[0] \o seqs[1]
      <3>1. PICK i \in 1..n : i = 1
        BY <1>1
      <3>2. g[i] = g[i - 1] \o seqs[i]
        BY <1>5
      <3>3. i - 1 = 0
        BY <3>1
      <3> QED BY <3>1, <3>2, <3>3
    <2> QED BY <2>1, <2>2, NothingBefore
  <1> DEFINE h == [i \in 1..n |-> g[i]]
  <1>7. Flattens(h, seqs)
    <2>1. \A i \in 1..n : h[i] = IF i = 1 THEN seqs[i] ELSE h[i - 1] \o seqs[i]
      <3> SUFFICES ASSUME NEW i \in 1..n
                   PROVE  h[i] = IF i = 1 THEN seqs[i] ELSE h[i - 1] \o seqs[i]
        OBVIOUS
      <3>1. CASE i = 1
        BY <1>6, <3>1
      <3>2. CASE i # 1
        <4>1. i - 1 \in 1..n
          BY <3>2
        <4> QED BY <1>5, <3>2, <4>1
      <3> QED BY <3>1, <3>2
    <2>2. h = [i \in 1..n |-> h[i]]
      OBVIOUS
    <2> HIDE DEF h
    <2> QED BY <2>1, <2>2 DEF Flattens
  <1> DEFINE F == CHOOSE flatten : Flattens(flatten, seqs)
  <1>8. FlattenSeq(seqs) = F[n]
    BY <1>1 DEF FlattenSeq, Flattens
  <1>9. Flattens(F, seqs)
    <2> HIDE DEF h
    <2> QED BY <1>7
  <1> HIDE DEF F, h
  <1>10. F[1] = seqs[1] /\ \A i \in 2..n : F[i] = F[i - 1] \o seqs[i]
    <2>1. \A i \in 1..n : F[i] = IF i = 1 THEN seqs[i] ELSE F[i - 1] \o seqs[i]
      BY <1>9 DEF Flattens
    <2>2. \A i \in 2..n : i \in 1..n /\ i # 1
      BY <1>1
    <2> QED BY <1>1, <2>1, <2>2
  <1> DEFINE Good == {i \in 0..n : i # 0 => F[i] \in States}
  <1>11. 0..n \subseteq Good
    <2>1. 0 \in Good
      BY <1>1
    <2>2. ASSUME NEW i \in 1..n, i - 1 \in Good PROVE i \in Good
      <3>1. CASE i = 1
        BY <1>1, <1>10, <3>1
      <3>2. CASE i # 1
        <4>1. i \in 2..n /\ i - 1 # 0 /\ F[i - 1] \in States
          BY <2>2, <3>2
        <4>2. F[i - 1] \o seqs[i] \in Seq(S)
          BY <1>1, <4>1, TwoLists
        <4>3. F[i] = F[i - 1] \o seqs[i]
          BY <1>10, <4>1
        <4>4. F[i] \in States /\ i \in 0..n
          <5>1. F[i] \in Seq(S)
            BY <4>2, <4>3
          <5> QED BY <1>1, <5>1
        <4> QED BY <4>4
      <3> QED BY <3>1, <3>2
    <2> HIDE DEF Good
    <2> QED BY <1>1, <2>1, <2>2, EveryRound
  <1>12. F \in [1..n -> States]
    <2>1. \A i \in 1..n : F[i] \in States
      BY <1>11
    <2>2. F = [i \in 1..n |-> F[i]]
      <3>1. DOMAIN F = 1..n
        BY <1>9 DEF Flattens
      <3> QED BY <1>9, <3>1 DEF Flattens
    <2> QED BY <2>1, <2>2
  <1> QED BY <1>8, <1>10, <1>12

LEMMA FlatList ==
  ASSUME NEW S, NEW seqs, seqs \in Seq(Seq(S))
  PROVE  FlattenSeq(seqs) \in Seq(S) /\ \E end : IsFlat(FlattenSeq(seqs), end, seqs)
  <1> DEFINE n == Len(seqs)
  <1>1. n \in Nat /\ \A i \in 1..n : seqs[i] \in Seq(S) /\ Len(seqs[i]) \in Nat
    OBVIOUS
  <1>2. CASE n = 0
    <2>1. FlattenSeq(seqs) = seqs /\ seqs = << >>
      BY <1>2 DEF FlattenSeq
    <2>2. IsFlat(<< >>, [i \in 0..0 |-> 0], << >>)
      BY DEF IsFlat, EndsAt
    <2> QED BY <2>1, <2>2
  <1>3. CASE n # 0
    <2>1. PICK F : /\ FlattenSeq(seqs) = F[n]
                   /\ F \in [1..n -> Seq(S)] /\ F[1] = seqs[1]
                   /\ \A i \in 2..n : F[i] = F[i - 1] \o seqs[i]
      BY <1>3, FlattensStepwise
    <2> DEFINE end == [i \in 0..n |-> IF i = 0 THEN 0 ELSE Len(F[i])]
    <2>2. \A i \in 1..n : F[i] \in Seq(S) /\ end[i] = Len(F[i]) /\ end[i] \in Nat
      <3> SUFFICES ASSUME NEW i \in 1..n
                   PROVE  F[i] \in Seq(S) /\ end[i] = Len(F[i]) /\ end[i] \in Nat
        OBVIOUS
      <3>1. F[i] \in Seq(S)
        BY ONLY <2>1, i \in 1..n
      <3>2. i \in 0..n /\ i # 0
        BY ONLY <1>1, i \in 1..n
      <3>3. Len(F[i]) \in Nat
        BY <3>1
      <3> QED BY <3>1, <3>2, <3>3
    <2>3. end[0] = 0 /\ end \in [0..n -> Nat] /\ \A i \in 1..n : end[i - 1] \in Nat
      BY <1>1, <2>2
    <2> HIDE DEF end
    <2>4. ASSUME NEW p \in 1..n
          PROVE  /\ end[p] = end[p - 1] + Len(seqs[p])
                 /\ \A j \in 1..Len(seqs[p]) : F[p][end[p - 1] + j] = seqs[p][j]
                 /\ p # 1 => \A i \in 1..end[p - 1] : F[p][i] = F[p - 1][i]
      <3>1. CASE p = 1
        <4>1. end[p - 1] = 0 /\ \A j \in 1..Len(seqs[p]) : end[p - 1] + j = j
          BY <2>3, <3>1
        <4> QED BY <1>1, <2>1, <2>2, <3>1, <4>1
      <3>2. CASE p # 1
        <4>1. p \in 2..n /\ p - 1 \in 1..n
          BY <3>2
        <4>2. PICK a, b : a = F[p - 1] /\ b = seqs[p]
          OBVIOUS
        <4>3. a \in Seq(S) /\ b \in Seq(S) /\ F[p] = a \o b /\ end[p - 1] = Len(a)
              /\ end[p] = Len(a \o b)
          BY <1>1, <2>1, <2>2, <4>1, <4>2
        <4>4. /\ Len(a \o b) = Len(a) + Len(b)
              /\ \A i \in 1..Len(a) : (a \o b)[i] = a[i]
              /\ \A j \in 1..Len(b) : (a \o b)[Len(a) + j] = b[j]
          BY <4>3, TwoLists
        <4> QED BY <4>2, <4>3, <4>4
      <3> QED BY <3>1, <3>2
    <2> DEFINE Good == {q \in 0..n :
                  /\ \A p \in 1..q : \A j \in 1..Len(seqs[p]) :
                        end[p - 1] + j \in 1..end[q] /\ F[q][end[p - 1] + j] = seqs[p][j]
                  /\ \A i \in 1..end[q] : \E p \in 1..q : \E j \in 1..Len(seqs[p]) :
                        i = end[p - 1] + j}
    <2>5. 0 \in Good
      BY <1>1, <2>3
    <2>6. ASSUME NEW q \in 1..n, q - 1 \in Good PROVE q \in Good
      <3>1. /\ end[q] \in Nat /\ end[q - 1] \in Nat /\ Len(seqs[q]) \in Nat
            /\ end[q] = end[q - 1] + Len(seqs[q])
        BY <1>1, <2>2, <2>3, <2>4
      <3>2. ASSUME NEW p \in 1..q, NEW j \in 1..Len(seqs[p])
            PROVE  end[p - 1] + j \in 1..end[q] /\ F[q][end[p - 1] + j] = seqs[p][j]
        <4>1. CASE p = q
          <5>1. PICK e, l : e = end[q - 1] /\ l = Len(seqs[q])
            OBVIOUS
          <5>2. e \in Nat /\ l \in Nat /\ end[q] = e + l /\ j \in 1..l
            BY ONLY <3>1, <4>1, <5>1, j \in 1..Len(seqs[p])
          <5>3. e + j \in 1..end[q]
            BY ONLY <5>2
          <5>4. F[q][e + j] = seqs[q][j]
            BY <2>4, <4>1, <5>1
          <5> QED BY ONLY <4>1, <5>1, <5>3, <5>4
        <4>2. CASE p # q
          <5>1. p \in 1..q - 1 /\ q # 1
            BY <4>2
          <5>2. end[p - 1] + j \in 1..end[q - 1] /\ F[q - 1][end[p - 1] + j] = seqs[p][j]
            BY <2>6, <5>1
          <5>3. F[q][end[p - 1] + j] = F[q - 1][end[p - 1] + j]
            BY <2>4, <5>1, <5>2
          <5>4. PICK x, e, f, l : /\ x = end[p - 1] + j /\ e = end[q - 1]
                                  /\ f = end[q] /\ l = Len(seqs[q])
            OBVIOUS
          <5>5. x \in 1..e /\ e \in Nat /\ l \in Nat /\ f = e + l
            BY ONLY <3>1, <5>2, <5>4
          <5>6. x \in 1..f
            BY ONLY <5>5
          <5> QED BY ONLY <5>2, <5>3, <5>4, <5>6
        <4> QED BY <4>1, <4>2
      <3>3. ASSUME NEW i \in 1..end[q]
            PROVE  \E p \in 1..q : \E j \in 1..Len(seqs[p]) : i = end[p - 1] + j
        <4>1. CASE i <= end[q - 1]
          <5>1. i \in 1..end[q - 1]
            BY <3>1, <4>1
          <5>2. PICK p \in 1..q - 1 : \E j \in 1..Len(seqs[p]) : i = end[p - 1] + j
            BY <2>6, <5>1
          <5> QED BY <5>2
        <4>2. CASE ~(i <= end[q - 1])
          <5>1. i - end[q - 1] \in 1..Len(seqs[q]) /\ i = end[q - 1] + (i - end[q - 1])
            BY <3>1, <4>2
          <5> QED BY <5>1
        <4> QED BY <4>1, <4>2
      <3> QED BY <3>2, <3>3
    <2>7. n \in Good
      <3> HIDE DEF Good
      <3>1. 0..n \subseteq Good
        BY <1>1, <2>5, <2>6, EveryRound
      <3> QED BY <1>1, <3>1
    <2>8. F[n] \in Seq(S) /\ Len(F[n]) = end[n]
      BY <1>1, <1>3, <2>2
    <2>9. EndsAt(end, seqs)
      BY <2>3, <2>4 DEF EndsAt
    <2>10. IsFlat(F[n], end, seqs)
      BY <2>7, <2>8, <2>9 DEF IsFlat
    <2> QED BY <2>1, <2>8, <2>10
  <1> QED BY <1>2, <1>3

-----------------------------------------------------------------------------
(* THE TEXT OF THE PAGES.                                                  *)

(* White space only inside, and never twice in a row.                      *)
Tidy(text) ==
    /\ text \in Seq(Characters) /\ Len(text) \in Nat \ {0}
    /\ text[1] \notin White /\ text[Len(text)] \notin White
    /\ \A i \in 1..Len(text) - 1 : text[i] \notin White \/ text[i + 1] \notin White

(* What normalize_page_text returns: the white space is single spaces.     *)
Clean(text) == Tidy(text) /\ \A i \in 1..Len(text) : text[i] \in White => text[i] = Space

LEMMA PositionsAreFinite ==
  ASSUME NEW n, n \in Nat, NEW S, S \subseteq 1..n
  PROVE  IsFiniteSet(S) /\ S \subseteq Int
  <1>1. IsFiniteSet(1..n) /\ S \in SUBSET (1..n) /\ S \subseteq Int
    BY FS_Interval
  <1> QED BY <1>1, FS_Subset

LEMMA PositionsInOrder ==
  ASSUME NEW n, n \in Nat, NEW S, S \subseteq 1..n
  PROVE  Lists(InOrder(S), S)
  BY PositionsAreFinite, InOrderLists

LEMMA SomeText == ASSUME NEW S, NEW t, t \in Seq(S) PROVE t # << >> <=> Len(t) # 0
  OBVIOUS

LEMMA NormalizedIsClean ==
  ASSUME NEW text, text \in Seq(Characters)
  PROVE  /\ Normalized(text) \in Seq(Characters)
         /\ Normalized(text) # << >> => Clean(Normalized(text))
  <1> DEFINE kept == {i \in DOMAIN text : text[i] \notin White \/
                         (/\ i > 1 /\ text[i - 1] \notin White
                          /\ \E k \in i..Len(text) : text[k] \notin White)}
             at == InOrder(kept)
             t == Normalized(text)
  <1>1. /\ Len(text) \in Nat
        /\ DOMAIN text = 1..Len(text)
        /\ \A i \in 1..Len(text) : text[i] \in Characters
    OBVIOUS
  <1>2. kept \subseteq 1..Len(text)
    BY <1>1
  <1>3. t = [k \in DOMAIN at |-> IF text[at[k]] \in White THEN Space ELSE text[at[k]]]
    BY DEF Normalized
  <1>4. Lists(at, kept)
    <2> HIDE DEF kept
    <2>1. Len(text) \in Nat
      BY <1>1
    <2> QED BY <1>2, <2>1, PositionsInOrder
  <1>5. \A i \in kept : /\ i \in 1..Len(text)
                        /\ text[i] \in White => /\ i > 1 /\ text[i - 1] \notin White
                                                /\ \E k \in i..Len(text) : text[k] \notin White
    BY <1>1
  <1>6. \A i \in 1..Len(text) : text[i] \notin White => i \in kept
    BY <1>1
  <1> HIDE DEF kept, at, t
  <1>7. /\ DOMAIN at = 1..Len(at) /\ Len(at) \in Nat
        /\ \A k \in 1..Len(at) : at[k] \in kept /\ at[k] \in 1..Len(text)
        /\ \A k, m \in 1..Len(at) : k < m => at[k] < at[m]
        /\ \A i \in kept : \E k \in 1..Len(at) : at[k] = i
    BY <1>2, <1>4 DEF Lists
  <1>8. /\ t \in Seq(Characters) /\ Len(t) = Len(at)
        /\ \A k \in 1..Len(at) : t[k] = IF text[at[k]] \in White THEN Space ELSE text[at[k]]
    <2>1. \A k \in 1..Len(at) :
             (IF text[at[k]] \in White THEN Space ELSE text[at[k]]) \in Characters
      <3> SUFFICES ASSUME NEW k \in 1..Len(at)
                   PROVE  (IF text[at[k]] \in White THEN Space ELSE text[at[k]]) \in Characters
        OBVIOUS
      <3>1. at[k] \in 1..Len(text)
        BY <1>7
      <3>2. text[at[k]] \in Characters
        BY <1>1, <3>1
      <3>3. Space \in Characters
        BY ChunkingAssumption DEF White
      <3> QED BY <3>2, <3>3
    <2>2. t \in [1..Len(at) -> Characters]
      BY <1>3, <1>7, <2>1
    <2>3. t \in Seq(Characters) /\ Len(t) = Len(at)
      BY <1>7, <2>2
    <2> QED BY <1>3, <1>7, <2>3
  <1>9. \A k \in 1..Len(at) : /\ t[k] \in White <=> text[at[k]] \in White
                              /\ t[k] \in White => t[k] = Space
    BY <1>8 DEF White
  (* A kept white character has the character before it kept, too.         *)
  <1>10. ASSUME NEW k \in 1..Len(at), t[k] \in White
         PROVE  \E m \in 1..Len(at) : at[m] = at[k] - 1 /\ t[m] \notin White /\ m < k
    <2>1. at[k] > 1 /\ text[at[k] - 1] \notin White /\ at[k] \in 1..Len(text)
      BY <1>5, <1>7, <1>9, <1>10
    <2>2. at[k] - 1 \in 1..Len(text)
      BY <1>1, <2>1
    <2>3. PICK m \in 1..Len(at) : at[m] = at[k] - 1
      BY <1>6, <1>7, <2>1, <2>2
    <2>4. t[m] \notin White
      BY <1>9, <2>1, <2>3
    <2>5. m < k
      <3>1. ~(k < m) /\ k # m
        BY <1>7, <2>1, <2>3
      <3> QED BY <1>7, <3>1
    <2> QED BY <2>3, <2>4, <2>5
  <1>11. ASSUME t # << >> PROVE Clean(t)
    <2>1. Len(t) \in Nat \ {0}
      BY <1>7, <1>8, <1>11, SomeText
    <2>2. t[1] \notin White
      <3>1. 1 \in 1..Len(at) /\ ~\E m \in 1..Len(at) : m < 1
        <4>1. Len(t) = Len(at)
          BY <1>8
        <4> QED BY <2>1, <4>1
      <3> QED BY <1>10, <3>1, <1>8
    <2>3. t[Len(t)] \notin White
      <3> PICK n : n = Len(t)
        OBVIOUS
      <3>1. SUFFICES ASSUME t[n] \in White PROVE FALSE
        OBVIOUS
      <3>2. n = Len(at) /\ n \in 1..Len(at) /\ at[n] \in 1..Len(text)
        <4>1. Len(t) = Len(at)
          BY <1>8
        <4>2. n = Len(at) /\ n \in 1..Len(at)
          BY <2>1, <4>1
        <4> QED BY <1>7, <4>2
      <3>3. PICK k \in at[n]..Len(text) : text[k] \notin White
        BY <1>5, <1>7, <1>9, <3>1, <3>2
      <3>4. k \in 1..Len(text) /\ k # at[n] /\ k \in kept
        <4>1. k \in 1..Len(text)
          BY <1>1, <3>2, <3>3
        <4> QED BY <1>6, <1>9, <3>1, <3>2, <3>3, <4>1
      <3>5. PICK m \in 1..Len(at) : at[m] = k
        BY <1>7, <3>4
      <3>6. m < n \/ m = n
        BY <1>7, <3>2
      <3>7. at[m] <= at[n]
        BY <1>7, <3>2, <3>6
      <3> QED BY <1>1, <3>2, <3>3, <3>4, <3>5, <3>7
    <2>4. ASSUME NEW i \in 1..Len(t) - 1 PROVE t[i] \notin White \/ t[i + 1] \notin White
      <3>1. SUFFICES ASSUME t[i] \in White, t[i + 1] \in White PROVE FALSE
        OBVIOUS
      <3>2. i \in 1..Len(at) /\ i + 1 \in 1..Len(at)
        <4>1. Len(t) = Len(at)
          BY <1>8
        <4> QED BY <2>1, <4>1
      <3>3. PICK m \in 1..Len(at) : at[m] = at[i + 1] - 1 /\ t[m] \notin White /\ m < i + 1
        BY <1>10, <3>1, <3>2
      <3>4. m < i
        BY <3>1, <3>2, <3>3
      <3>5. at[m] < at[i] /\ at[i] < at[i + 1]
        BY <1>7, <3>2, <3>4
      <3>6. at[m] \in Int /\ at[i] \in Int /\ at[i + 1] \in Int
        BY <1>7, <3>2
      <3> QED BY <3>3, <3>5, <3>6
    <2>5. \A i \in 1..Len(t) : t[i] \in White => t[i] = Space
      BY <1>8, <1>9
    <2> QED BY <1>8, <2>1, <2>2, <2>3, <2>4, <2>5 DEF Clean, Tidy
  <1> QED BY <1>8, <1>11 DEF t

Page == [number : Nat, text : Seq(Characters)]

(* Pages with text, in the order of their numbers.                         *)
Numbered(pages) ==
    /\ pages \in Seq(Page) /\ Len(pages) \in Nat
    /\ \A p \in 1..Len(pages) : Clean(pages[p].text)
    /\ \A p, q \in 1..Len(pages) : p < q => pages[p].number < pages[q].number

LEMMA PagesAreNumbered ==
  ASSUME NEW raw, raw \in Seq(Seq(Characters))
  PROVE  Numbered(NormalizedPages(raw))
  <1> DEFINE S == {p \in DOMAIN raw : Normalized(raw[p]) # << >>}
             kept == InOrder(S)
             pages == NormalizedPages(raw)
  <1>1. /\ Len(raw) \in Nat
        /\ DOMAIN raw = 1..Len(raw)
        /\ \A p \in 1..Len(raw) : raw[p] \in Seq(Characters)
    OBVIOUS
  <1>2. S \subseteq 1..Len(raw)
    BY <1>1
  <1>3. \A p \in S : Normalized(raw[p]) # << >>
    OBVIOUS
  <1>4. pages = [k \in DOMAIN kept |-> [number |-> kept[k], text |-> Normalized(raw[kept[k]])]]
    BY DEF NormalizedPages
  <1> HIDE DEF S
  <1>6. /\ DOMAIN kept = 1..Len(kept) /\ Len(kept) \in Nat
        /\ \A k \in 1..Len(kept) : kept[k] \in S
        /\ \A k, m \in 1..Len(kept) : k < m => kept[k] < kept[m]
    <2>1. Lists(kept, S)
      <3>1. Len(raw) \in Nat
        BY <1>1
      <3> QED BY <1>2, <3>1, PositionsInOrder
    <2> HIDE DEF kept
    <2> QED BY <2>1 DEF Lists
  <1> HIDE DEF kept, pages
  <1>7. ASSUME NEW k \in 1..Len(kept)
        PROVE  /\ kept[k] \in Nat /\ Normalized(raw[kept[k]]) \in Seq(Characters)
               /\ Clean(Normalized(raw[kept[k]]))
    <2>1. kept[k] \in 1..Len(raw) /\ raw[kept[k]] \in Seq(Characters)
          /\ Normalized(raw[kept[k]]) # << >>
      BY <1>1, <1>2, <1>3, <1>6
    <2> QED BY <2>1, NormalizedIsClean
  <1>8. \A k \in 1..Len(kept) : [number |-> kept[k], text |-> Normalized(raw[kept[k]])] \in Page
    BY <1>7 DEF Page
  <1>9. pages \in [1..Len(kept) -> Page]
    BY <1>4, <1>6, <1>8
  <1>10. pages \in Seq(Page) /\ Len(pages) = Len(kept)
    BY <1>6, <1>9
  <1>11. \A k \in 1..Len(kept) : pages[k].number = kept[k]
                                 /\ pages[k].text = Normalized(raw[kept[k]])
    BY <1>4, <1>6
  <1>12. Numbered(pages)
    BY <1>6, <1>7, <1>10, <1>11 DEF Numbered
  <1> QED BY <1>12 DEF pages

-----------------------------------------------------------------------------
(* THE JOINED TEXT.                                                        *)

LEMMA PageFacts ==
  ASSUME NEW pages, Numbered(pages), NEW p, p \in 1..Len(pages)
  PROVE  /\ pages[p] \in Page /\ pages[p].text \in Seq(Characters) /\ pages[p].number \in Nat
         /\ Len(pages[p].text) \in Nat \ {0} /\ Tidy(pages[p].text)
  <1>1. pages[p] \in Page /\ Clean(pages[p].text)
    BY DEF Numbered
  <1> QED BY <1>1 DEF Page, Clean, Tidy

(* _page_boundaries: cursor[p] is its cursor after the page p.             *)
Moves(cursor, pages) ==
    /\ cursor \in [0..Len(pages) -> Nat] /\ cursor[0] = 1
    /\ \A p \in 1..Len(pages) : cursor[p] = cursor[p - 1] + Len(pages[p].text) + 1

LEMMA CursorLoop ==
  ASSUME NEW pages, Numbered(pages)
  PROVE  \E cursor : /\ Moves(cursor, pages)
                     /\ Boundaries(pages) = [p \in 1..Len(pages) |->
                           [first |-> cursor[p - 1], last |-> cursor[p] - 2,
                            number |-> pages[p].number]]
  <1> DEFINE n == Len(pages)
             Step == [x \in (1..n) \X Nat |-> x[2] + Len(pages[x[1]].text) + 1]
             Defines(cursor) == cursor = [p \in 0..n |->
                IF p = 0 THEN 1 ELSE cursor[p - 1] + Len(pages[p].text) + 1]
  <1>1. n \in Nat /\ DOMAIN pages = 1..n
    BY DEF Numbered
  <1>2. \A i \in 1..n, s \in Nat : /\ Step[<<i, s>>] = s + Len(pages[i].text) + 1
                                   /\ s + Len(pages[i].text) + 1 \in Nat
    BY PageFacts
  <1>3. \E g : IsLoop(g, n, Nat, 1, Step)
    <2>1. Step \in LoopBody(n, Nat)
      BY PageFacts DEF LoopBody
    <2> HIDE DEF Step, n
    <2> QED BY <1>1, <2>1, LoopRuns
  <1>4. PICK g : IsLoop(g, n, Nat, 1, Step)
    BY <1>3
  <1> HIDE DEF Step
  <1>5. Moves(g, pages)
    BY <1>2, <1>4 DEF IsLoop, Moves
  <1>6. Defines(g)
    BY <1>1, <1>5 DEF Moves
  <1> DEFINE c == CHOOSE cursor : Defines(cursor)
  <1>7. Boundaries(pages) = [p \in 1..n |-> [first |-> c[p - 1], last |-> c[p] - 2,
                                             number |-> pages[p].number]]
    BY <1>1 DEF Boundaries
  <1>8. Defines(c)
    <2> HIDE DEF Defines
    <2> QED BY <1>6
  <1> HIDE DEF c
  <1>9. c[0] = 1 /\ \A p \in 1..n : c[p] = c[p - 1] + Len(pages[p].text) + 1
    BY <1>1, <1>8
  <1> DEFINE Good == {p \in 0..n : c[p] = g[p]}
  <1>10. 0..n \subseteq Good
    <2>1. 0 \in Good
      BY <1>1, <1>5, <1>9 DEF Moves
    <2>2. ASSUME NEW p \in 1..n, p - 1 \in Good PROVE p \in Good
      BY <1>1, <1>5, <1>9, <2>2 DEF Moves
    <2> HIDE DEF Good
    <2> QED BY <1>1, <2>1, <2>2, EveryRound
  <1>11. \A p \in 1..n : c[p] = g[p] /\ c[p - 1] = g[p - 1]
    BY <1>1, <1>10
  <1>12. Boundaries(pages) = [p \in 1..n |-> [first |-> g[p - 1], last |-> g[p] - 2,
                                              number |-> pages[p].number]]
    BY <1>7, <1>11
  <1> QED BY <1>5, <1>12

(* The places of the pages in the joined text.                             *)
Placed(pages, bounds, text) ==
    /\ text \in Seq(Characters) /\ Len(text) \in Nat
    /\ DOMAIN bounds = 1..Len(pages)
    /\ bounds[1].first = 1 /\ bounds[Len(pages)].last = Len(text)
    /\ \A p \in 1..Len(pages) :
          /\ bounds[p].first \in 1..Len(text) /\ bounds[p].last \in 1..Len(text)
          /\ bounds[p].last = bounds[p].first + Len(pages[p].text) - 1
          /\ bounds[p].number = pages[p].number
          /\ \A j \in 1..Len(pages[p].text) : text[bounds[p].first + j - 1] = pages[p].text[j]
    /\ \A p \in 1..Len(pages) - 1 : /\ bounds[p + 1].first = bounds[p].last + 2
                                    /\ text[bounds[p].last + 1] = "\n"

LEMMA PagesArePlaced ==
  ASSUME NEW pages, Numbered(pages), Len(pages) # 0
  PROVE  Placed(pages, Boundaries(pages), Joined(pages))
  <1> DEFINE n == Len(pages)
             L(p) == Len(pages[p].text)
             seqs == [p \in 1..n |-> IF p = 1 THEN pages[p].text ELSE <<"\n">> \o pages[p].text]
             text == Joined(pages)
             bounds == Boundaries(pages)
  <1>1. n \in Nat \ {0} /\ DOMAIN pages = 1..n
    BY DEF Numbered
  <1>2. PICK cursor : /\ Moves(cursor, pages)
                      /\ bounds = [p \in 1..n |-> [first |-> cursor[p - 1], last |-> cursor[p] - 2,
                                                   number |-> pages[p].number]]
    BY CursorLoop
  <1>3. \A p \in 1..n : L(p) \in Nat \ {0} /\ pages[p].text \in Seq(Characters)
    BY PageFacts
  <1>4. ASSUME NEW p \in 1..n
        PROVE  /\ seqs[p] \in Seq(Characters)
               /\ p = 1 => seqs[p] = pages[p].text
               /\ p # 1 => /\ Len(seqs[p]) = L(p) + 1 /\ seqs[p][1] = "\n"
                           /\ \A j \in 1..L(p) : seqs[p][1 + j] = pages[p].text[j]
    <2>1. PICK a, b : a = <<"\n">> /\ b = pages[p].text
      OBVIOUS
    <2>2. a \in Seq(Characters) /\ b \in Seq(Characters) /\ Len(a) = 1 /\ a[1] = "\n"
      <3>1. "\n" \in Characters
        BY ChunkingAssumption DEF White
      <3> QED BY <1>3, <2>1, <3>1
    <2>3. /\ a \o b \in Seq(Characters) /\ Len(a \o b) = Len(a) + Len(b)
          /\ \A i \in 1..Len(a) : (a \o b)[i] = a[i]
          /\ \A j \in 1..Len(b) : (a \o b)[Len(a) + j] = b[j]
      BY <2>2, TwoLists
    <2>4. seqs[p] = IF p = 1 THEN b ELSE a \o b
      BY <2>1
    <2> HIDE DEF seqs
    <2> QED BY <1>3, <2>1, <2>2, <2>3, <2>4
  <1>5. text = FlattenSeq(seqs)
    BY <1>1 DEF Joined
  <1>6. seqs \in Seq(Seq(Characters)) /\ Len(seqs) = n
    <2>1. seqs = [p \in 1..n |-> seqs[p]]
      OBVIOUS
    <2> HIDE DEF seqs
    <2>2. seqs \in [1..n -> Seq(Characters)]
      BY <1>4, <2>1
    <2> QED BY <1>1, <2>2
  <1> HIDE DEF seqs, text, bounds
  <1>7. text \in Seq(Characters) /\ \E end : IsFlat(text, end, seqs)
    BY <1>5, <1>6, FlatList
  <1>8. PICK end : IsFlat(text, end, seqs)
    BY <1>7
  <1>9. /\ end \in [0..n -> Nat] /\ end[0] = 0 /\ Len(text) = end[n]
        /\ \A p \in 1..n : end[p] = end[p - 1] + Len(seqs[p])
        /\ \A p \in 1..n : \A j \in 1..Len(seqs[p]) :
              end[p - 1] + j \in 1..Len(text) /\ text[end[p - 1] + j] = seqs[p][j]
    BY <1>6, <1>8 DEF IsFlat, EndsAt
  <1> DEFINE Good == {p \in 0..n : cursor[p] = IF p = 0 THEN 1 ELSE end[p] + 2}
  <1>10. 0..n \subseteq Good
    <2>1. 0 \in Good
      BY <1>1, <1>2 DEF Moves
    <2>2. ASSUME NEW p \in 1..n, p - 1 \in Good PROVE p \in Good
      <3>0. p - 1 \in 0..n /\ p \in 0..n /\ p # 0
        BY <1>1
      <3>1. /\ end[p] = end[p - 1] + Len(seqs[p]) /\ end[p - 1] \in Nat
            /\ cursor[p] = cursor[p - 1] + L(p) + 1 /\ L(p) \in Nat
        <4>1. cursor[p] = cursor[p - 1] + L(p) + 1
          BY <1>2 DEF Moves
        <4>2. L(p) \in Nat
          BY <1>3
        <4> QED BY <1>9, <3>0, <4>1, <4>2
      <3>2. CASE p = 1
        <4>1. Len(seqs[p]) = L(p) /\ p - 1 = 0
          BY <1>4, <3>2
        <4> QED BY <1>2, <1>9, <2>2, <3>1, <3>2, <4>1
      <3>3. CASE p # 1
        <4>1. Len(seqs[p]) = L(p) + 1 /\ p - 1 # 0
          BY <1>4, <3>3
        <4>2. cursor[p - 1] = end[p - 1] + 2
          BY <2>2, <4>1
        <4>3. cursor[p] = end[p] + 2
          <5>1. PICK l, e, m : l = L(p) /\ e = end[p - 1] /\ m = Len(seqs[p])
            OBVIOUS
          <5>2. l \in Nat /\ e \in Nat /\ m = l + 1 /\ end[p] = e + m /\ cursor[p] = (e + 2) + l + 1
            BY <3>1, <4>1, <4>2, <5>1
          <5> QED BY <5>2
        <4> QED BY <3>0, <4>3
      <3> QED BY <3>2, <3>3
    <2> HIDE DEF Good
    <2> QED BY <1>1, <2>1, <2>2, EveryRound
  <1>11. ASSUME NEW p \in 1..n
         PROVE  /\ bounds[p].first = IF p = 1 THEN 1 ELSE end[p - 1] + 2
                /\ bounds[p].last = end[p] /\ bounds[p].number = pages[p].number
                /\ end[p] \in Nat /\ end[p - 1] \in Nat
                /\ end[p] = bounds[p].first + L(p) - 1
    <2>1. /\ bounds[p].first = cursor[p - 1] /\ bounds[p].last = cursor[p] - 2
          /\ bounds[p].number = pages[p].number
      BY <1>2
    <2>2. p \in Good /\ p - 1 \in Good
      BY <1>1, <1>10
    <2>3. end[p] \in Nat /\ end[p - 1] \in Nat /\ end[p] = end[p - 1] + Len(seqs[p]) /\ L(p) \in Nat
      BY <1>3, <1>9, SMTT(20)
    <2>4. CASE p = 1
      <3>1. Len(seqs[p]) = L(p) /\ p - 1 = 0
        BY <1>4, <2>4
      <3>2. PICK l, e : l = L(p) /\ e = end[p]
        OBVIOUS
      <3>3. end[p - 1] = 0 /\ e = 0 + l /\ l \in Nat /\ e \in Nat
        BY ONLY <1>9, <2>3, <3>1, <3>2
      <3>4. cursor[p - 1] = 1 /\ cursor[p] = e + 2
        BY <2>2, <2>4, <3>1, <3>2
      <3>5. e = 1 + l - 1 /\ (e + 2) - 2 = e
        BY ONLY <3>3
      <3> QED BY ONLY <2>1, <2>3, <2>4, <3>2, <3>3, <3>4, <3>5
    <2>5. CASE p # 1
      <3>1. Len(seqs[p]) = L(p) + 1 /\ p - 1 # 0
        BY <1>4, <2>5
      <3>2. cursor[p - 1] = end[p - 1] + 2 /\ cursor[p] = end[p] + 2
        BY <2>2, <3>1
      <3>3. PICK l, e, m : l = L(p) /\ e = end[p - 1] /\ m = Len(seqs[p])
        OBVIOUS
      <3>4. l \in Nat /\ e \in Nat /\ m = l + 1 /\ end[p] = e + m /\ cursor[p] = end[p] + 2
            /\ cursor[p - 1] = e + 2
        BY <2>3, <3>1, <3>2, <3>3
      <3>5. end[p] = (e + 2) + l - 1 /\ end[p] + 2 - 2 = end[p]
        BY <3>4
      <3> QED BY <2>1, <2>3, <2>5, <3>3, <3>4, <3>5
    <2> QED BY <2>4, <2>5
  <1>12. ASSUME NEW p \in 1..n, NEW j \in 1..L(p)
         PROVE  /\ bounds[p].first + j - 1 \in 1..Len(text)
                /\ text[bounds[p].first + j - 1] = pages[p].text[j]
    <2>1. L(p) \in Nat /\ end[p - 1] \in Nat
      BY <1>3, <1>11
    <2>2. CASE p = 1
      <3>1. j \in 1..Len(seqs[p]) /\ seqs[p][j] = pages[p].text[j] /\ end[p - 1] = 0
        BY <1>4, <1>9, <2>2
      <3>2. bounds[p].first + j - 1 = end[p - 1] + j
        BY <1>11, <2>2, <3>1
      <3> QED BY <1>9, <3>1, <3>2
    <2>3. CASE p # 1
      <3>1. 1 + j \in 1..Len(seqs[p]) /\ seqs[p][1 + j] = pages[p].text[j]
        BY <1>4, <2>1, <2>3
      <3>2. bounds[p].first + j - 1 = end[p - 1] + (1 + j)
        <4>1. bounds[p].first = end[p - 1] + 2
          BY <1>11, <2>3
        <4>2. PICK e \in Nat : e = end[p - 1]
          BY <2>1
        <4>3. (e + 2) + j - 1 = e + (1 + j)
          OBVIOUS
        <4> QED BY <4>1, <4>2, <4>3
      <3> QED BY <1>9, <3>1, <3>2
    <2> QED BY <2>2, <2>3
  <1>13. ASSUME NEW p \in 1..n - 1
         PROVE  bounds[p + 1].first = bounds[p].last + 2 /\ text[bounds[p].last + 1] = "\n"
    <2>1. p \in 1..n /\ p + 1 \in 1..n /\ p + 1 # 1 /\ (p + 1) - 1 = p
      BY <1>1
    <2>2. bounds[p + 1].first = end[p] + 2 /\ bounds[p].last = end[p]
      BY <1>11, <2>1
    <2>3. Len(seqs[p + 1]) = L(p + 1) + 1 /\ L(p + 1) \in Nat /\ seqs[p + 1][1] = "\n"
      BY <1>3, <1>4, <2>1
    <2>4. 1 \in 1..Len(seqs[p + 1])
      BY <2>3
    <2>5. text[end[(p + 1) - 1] + 1] = seqs[p + 1][1]
      BY <1>9, <2>1, <2>4
    <2> QED BY <2>1, <2>2, <2>3, <2>5
  <1>14. ASSUME NEW p \in 1..n
         PROVE  bounds[p].first \in 1..Len(text) /\ bounds[p].last \in 1..Len(text)
    <2>1. L(p) \in Nat \ {0}
      BY <1>3
    <2>2. 1 \in 1..L(p) /\ L(p) \in 1..L(p)
      BY <2>1
    <2>3. bounds[p].first + 1 - 1 \in 1..Len(text) /\ bounds[p].first + L(p) - 1 \in 1..Len(text)
      BY <1>12, <2>2
    <2>4. bounds[p].first \in Int
      BY <1>11
    <2> QED BY <1>11, <2>1, <2>3, <2>4
  <1>15. bounds[1].first = 1 /\ bounds[n].last = Len(text) /\ Len(text) \in Nat
         /\ DOMAIN bounds = 1..n
    <2>1. 1 \in 1..n /\ n \in 1..n
      BY <1>1
    <2>2. bounds[1].first = 1 /\ bounds[n].last = end[n] /\ end[n] \in Nat
      BY <1>11, <2>1
    <2> QED BY <1>2, <1>9, <2>2
  <1>16. Placed(pages, bounds, text)
    BY <1>7, <1>11, <1>12, <1>13, <1>14, <1>15 DEF Placed
  <1> QED BY <1>16 DEF bounds, text

LEMMA PlaceFacts ==
  ASSUME NEW pages, Numbered(pages), NEW bounds, NEW text, Placed(pages, bounds, text),
         NEW p, p \in 1..Len(pages)
  PROVE  /\ bounds[p].first \in 1..Len(text) /\ bounds[p].last \in 1..Len(text)
         /\ bounds[p].first <= bounds[p].last /\ Len(text) \in Nat
         /\ bounds[p].last - bounds[p].first = Len(pages[p].text) - 1
         /\ bounds[p].number = pages[p].number /\ bounds[p].number \in Nat
  <1>1. /\ bounds[p].first \in 1..Len(text) /\ bounds[p].last \in 1..Len(text)
        /\ bounds[p].last = bounds[p].first + Len(pages[p].text) - 1
        /\ bounds[p].number = pages[p].number /\ Len(text) \in Nat
    BY DEF Placed
  <1>2. PICK l : l = Len(pages[p].text)
    OBVIOUS
  <1>3. l \in Nat \ {0} /\ pages[p].number \in Nat
    BY <1>2, PageFacts
  <1>4. PICK f \in Nat : f = bounds[p].first
    BY <1>1
  <1>5. f + l - 1 >= f /\ (f + l - 1) - f = l - 1
    BY <1>3
  <1> QED BY <1>1, <1>2, <1>3, <1>4, <1>5

(* Two pages have the line break between them.                             *)
LEMMA PagesApart ==
  ASSUME NEW pages, Numbered(pages), NEW bounds, NEW text, Placed(pages, bounds, text),
         NEW p, p \in 1..Len(pages), NEW q, q \in 1..Len(pages), p < q
  PROVE  bounds[p].last + 1 < bounds[q].first
  <1> DEFINE n == Len(pages)
             Good == {k \in 0..n : p < k => bounds[p].last + 1 < bounds[k].first}
  <1>1. n \in Nat
    BY DEF Numbered
  <1>2. 0 \in Good
    BY <1>1
  <1>3. ASSUME NEW k \in 1..n, k - 1 \in Good PROVE k \in Good
    <2>1. SUFFICES ASSUME p < k PROVE bounds[p].last + 1 < bounds[k].first
      BY <1>1
    <2>2. k - 1 \in 1..n - 1 /\ k - 1 \in 1..n /\ (k - 1) + 1 = k
      BY <1>1, <2>1
    <2>3. bounds[(k - 1) + 1].first = bounds[k - 1].last + 2
      BY <2>2 DEF Placed
    <2>4. /\ bounds[p].last \in Int /\ bounds[k].first \in Int /\ bounds[k - 1].first \in Int
          /\ bounds[k - 1].last \in Int /\ bounds[k - 1].first <= bounds[k - 1].last
      <3>1. PICK m \in 1..n : m = k - 1
        BY <2>2
      <3>2. bounds[m].first \in 1..Len(text) /\ bounds[m].last \in 1..Len(text)
            /\ bounds[m].first <= bounds[m].last
        BY PlaceFacts
      <3>3. bounds[p].last \in 1..Len(text)
        BY PlaceFacts
      <3>4. bounds[k].first \in 1..Len(text)
        BY PlaceFacts
      <3> QED BY <3>1, <3>2, <3>3, <3>4
    <2>5. CASE p = k - 1
      BY <2>2, <2>3, <2>4, <2>5
    <2>6. CASE p # k - 1
      <3>1. bounds[p].last + 1 < bounds[k - 1].first
        BY <1>3, <2>1, <2>6
      <3>2. PICK a, b, c, d : /\ a = bounds[p].last /\ b = bounds[k - 1].first
                              /\ c = bounds[k - 1].last /\ d = bounds[k].first
        OBVIOUS
      <3>3. /\ a \in Int /\ b \in Int /\ c \in Int /\ d \in Int
            /\ b <= c /\ d = c + 2 /\ a + 1 < b
        BY ONLY <2>2, <2>3, <2>4, <3>1, <3>2
      <3>4. a + 1 < d
        BY ONLY <3>3
      <3> QED BY ONLY <3>2, <3>4
    <2> QED BY <2>5, <2>6
  <1>4. 0..n \subseteq Good
    <2> HIDE DEF Good
    <2> QED BY <1>1, <1>2, <1>3, EveryRound
  <1> QED BY <1>1, <1>4

(* A position is on a page, or between two.                                *)
LEMMA PageOrBreak ==
  ASSUME NEW pages, Numbered(pages), Len(pages) # 0, NEW bounds, NEW text,
         Placed(pages, bounds, text), NEW i, i \in 1..Len(text)
  PROVE  \/ \E p \in 1..Len(pages) : Within(i, bounds[p])
         \/ text[i] = "\n" /\ \E p \in 1..Len(pages) - 1 : i = bounds[p].last + 1
  <1> DEFINE n == Len(pages)
             Reach == {p \in 1..n : i <= bounds[p].last}
  <1>1. n \in Nat /\ Len(text) \in Nat /\ bounds[n].last = Len(text) /\ bounds[1].first = 1
    BY DEF Numbered, Placed
  <1>3. n # 0
    OBVIOUS
  <1>4. QED
    <2>1. n \in Reach /\ Reach \subseteq Nat
      BY <1>1, <1>3
    <2>2. PICK p \in Reach : \A q \in Reach : p <= q
      <3> HIDE DEF Reach
      <3> QED BY <2>1, NatLeast
    <2>3. /\ p \in 1..n /\ i <= bounds[p].last
          /\ bounds[p].first \in Int /\ bounds[p].last \in Int /\ i \in Int
      BY <2>2, PlaceFacts
    <2>4. CASE bounds[p].first <= i
      BY <2>3, <2>4 DEF Within
    <2>5. CASE ~(bounds[p].first <= i)
      <3>1. p # 1
        BY <1>1, <2>5
      <3>2. p - 1 \in 1..n - 1 /\ p - 1 \in 1..n /\ (p - 1) + 1 = p
        BY <1>1, <2>3, <3>1
      <3>3. p - 1 \notin Reach
        BY <2>2, <2>3, <3>2
      <3>4. bounds[p - 1].last < i
        <4>1. bounds[p - 1].last \in Int
          BY <3>2, PlaceFacts
        <4> QED BY <2>3, <3>2, <3>3, <4>1
      <3>5. /\ bounds[(p - 1) + 1].first = bounds[p - 1].last + 2
            /\ text[bounds[p - 1].last + 1] = "\n"
        BY <3>2 DEF Placed
      <3>6. bounds[p - 1].last \in Int
        BY <3>2, PlaceFacts
      <3>7. i = bounds[p - 1].last + 1
        <4>1. PICK a, b : a = bounds[p].first /\ b = bounds[p - 1].last
          OBVIOUS
        <4>2. a \in Int /\ b \in Int /\ i \in Int /\ a = b + 2 /\ b < i /\ ~(a <= i)
          BY ONLY <2>3, <2>5, <3>2, <3>4, <3>5, <3>6, <4>1
        <4>3. i = b + 1
          BY ONLY <4>2
        <4> QED BY ONLY <4>1, <4>3
      <3> QED BY <3>2, <3>5, <3>7
    <2> QED BY <2>4, <2>5

LEMMA OnThePage ==
  ASSUME NEW pages, Numbered(pages), NEW bounds, NEW text, Placed(pages, bounds, text),
         NEW p, p \in 1..Len(pages), NEW f, f = bounds[p].first, NEW i, Within(i, bounds[p])
  PROVE  /\ i - f + 1 \in 1..Len(pages[p].text) /\ i \in 1..Len(text)
         /\ text[i] = pages[p].text[i - f + 1]
  <1>1. PICK l, n : l = bounds[p].last /\ n = Len(pages[p].text)
    OBVIOUS
  <1>2. f \in 1..Len(text) /\ l \in 1..Len(text) /\ l - f = n - 1 /\ Len(text) \in Nat
    BY <1>1, PlaceFacts
  <1>3. n \in Nat
    BY <1>1, PageFacts
  <1>4. i \in f..l
    BY <1>1 DEF Within
  <1>5. i - f + 1 \in 1..n /\ i \in 1..Len(text) /\ f + (i - f + 1) - 1 = i
    <2>1. PICK t : t = Len(text)
      OBVIOUS
    <2>2. f \in 1..t /\ l \in 1..t /\ l - f = n - 1 /\ t \in Nat
      BY ONLY <1>2, <2>1
    <2>3. i - f + 1 \in 1..n /\ i \in 1..t /\ f + (i - f + 1) - 1 = i
      BY ONLY <2>2, <1>3, <1>4
    <2> QED BY ONLY <2>1, <2>3
  <1>6. text[f + (i - f + 1) - 1] = pages[p].text[i - f + 1]
    BY <1>1, <1>5 DEF Placed
  <1> QED BY <1>1, <1>5, <1>6

(* Both ends of a page are no white space.                                 *)
LEMMA PageEnds ==
  ASSUME NEW pages, Numbered(pages), NEW bounds, NEW text, Placed(pages, bounds, text),
         NEW p, p \in 1..Len(pages)
  PROVE  text[bounds[p].first] \notin White /\ text[bounds[p].last] \notin White
  <1>1. PICK f, l, m : f = bounds[p].first /\ l = bounds[p].last /\ m = Len(pages[p].text)
    OBVIOUS
  <1>2. f \in Int /\ l \in Int /\ m \in Int /\ f <= l /\ l - f = m - 1
    BY <1>1, PlaceFacts, PageFacts
  <1>3. Within(f, bounds[p]) /\ Within(l, bounds[p]) /\ f - f + 1 = 1 /\ l - f + 1 = m
    BY <1>1, <1>2 DEF Within
  <1>4. text[f] = pages[p].text[f - f + 1] /\ text[l] = pages[p].text[l - f + 1]
    <2>1. PICK i : i = f
      OBVIOUS
    <2>2. text[i] = pages[p].text[i - f + 1]
      <3>1. Within(i, bounds[p])
        BY <1>3, <2>1
      <3> QED BY <1>1, <3>1, OnThePage
    <2>3. text[l] = pages[p].text[l - f + 1]
      BY <1>1, <1>3, OnThePage
    <2> QED BY <2>1, <2>2, <2>3
  <1>5. pages[p].text[1] \notin White /\ pages[p].text[m] \notin White
    BY <1>1, PageFacts DEF Tidy
  <1> QED BY <1>1, <1>3, <1>4, <1>5

LEMMA JoinedIsTidy ==
  ASSUME NEW pages, Numbered(pages), Len(pages) # 0, NEW bounds, NEW text,
         Placed(pages, bounds, text)
  PROVE  Tidy(text)
  <1> DEFINE n == Len(pages)
  <1>1. n \in 1..n /\ 1 \in 1..n /\ n \in Nat
    BY DEF Numbered
  <1>2. bounds[1].first = 1 /\ bounds[n].last = Len(text) /\ text \in Seq(Characters)
    BY DEF Placed
  <1>3. \A p \in 1..n : text[bounds[p].first] \notin White /\ text[bounds[p].last] \notin White
    BY PageEnds
  <1>4. Len(text) \in Nat \ {0} /\ text[1] \notin White /\ text[Len(text)] \notin White
    <2>1. bounds[n].last \in 1..Len(text) /\ Len(text) \in Nat
      BY <1>1, PlaceFacts
    <2> QED BY <1>1, <1>2, <1>3, <2>1
  <1>5. ASSUME NEW i \in 1..Len(text) - 1
        PROVE  text[i] \notin White \/ text[i + 1] \notin White
    <2>1. i \in 1..Len(text) /\ i + 1 \in 1..Len(text)
      BY <1>4
    <2>2. CASE \E p \in 1..Len(pages) - 1 : i = bounds[p].last + 1
      <3>1. PICK p \in 1..n - 1 : i = bounds[p].last + 1
        BY <2>2
      <3>2. p \in 1..n /\ p + 1 \in 1..n
        BY <1>1
      <3>3. bounds[p + 1].first = bounds[p].last + 2 /\ bounds[p].last \in Int
        BY <3>2, PlaceFacts DEF Placed
      <3>4. i + 1 = bounds[p + 1].first
        BY <3>1, <3>3
      <3> QED BY <1>3, <3>2, <3>4
    <2>3. CASE \E p \in 1..n : Within(i, bounds[p])
      <3>1. PICK p \in 1..n : Within(i, bounds[p])
        BY <2>3
      <3>2. PICK f, l, m : f = bounds[p].first /\ l = bounds[p].last /\ m = Len(pages[p].text)
        OBVIOUS
      <3>3. f \in Int /\ l \in Int /\ m \in Nat /\ l - f = m - 1 /\ i \in f..l
        BY <3>1, <3>2, PlaceFacts, PageFacts DEF Within
      <3>4. CASE i = l
        BY <1>3, <3>2, <3>4
      <3>5. CASE i # l
        <4>1. Within(i + 1, bounds[p])
          BY <3>2, <3>3, <3>5 DEF Within
        <4>2. text[i] = pages[p].text[i - f + 1] /\ text[i + 1] = pages[p].text[(i + 1) - f + 1]
          <5>1. text[i] = pages[p].text[i - f + 1]
            BY <3>1, <3>2, OnThePage
          <5>2. PICK x : x = i + 1
            OBVIOUS
          <5>3. text[x] = pages[p].text[x - f + 1]
            BY <3>2, <4>1, <5>2, OnThePage
          <5> QED BY <5>1, <5>2, <5>3
        <4>3. i - f + 1 \in 1..m - 1 /\ (i + 1) - f + 1 = (i - f + 1) + 1
          BY <3>3, <3>5
        <4>4. \A j \in 1..m - 1 : pages[p].text[j] \notin White \/ pages[p].text[j + 1] \notin White
          BY <3>2, PageFacts DEF Tidy
        <4> QED BY <4>2, <4>3, <4>4
      <3> QED BY <3>4, <3>5
    <2> QED BY <2>1, <2>2, <2>3, PageOrBreak
  <1> QED BY <1>2, <1>4, <1>5 DEF Tidy

-----------------------------------------------------------------------------
(* THE SECTIONS OF A DOCUMENT WITHOUT MARKERS.                             *)

Span == [first : Nat, last : Nat]

(* A part of the text that begins and ends with a word, of max at most.    *)
Piece(span, text, max) ==
    /\ span \in Span /\ span.first \in 1..Len(text) /\ span.last \in 1..Len(text)
    /\ span.first <= span.last /\ span.last - span.first < max
    /\ text[span.first] \notin White /\ text[span.last] \notin White

(* A part of the text is cut into pieces: they are disjoint and in order,  *)
(* and no word is between two of them.                                     *)
Covered(i, spans) == \E k \in 1..Len(spans) : Within(i, spans[k])
Cuts(spans, text, from, upto, max) ==
    /\ spans \in Seq(Span) /\ Len(spans) \in Nat
    /\ \A k \in 1..Len(spans) : /\ Piece(spans[k], text, max)
                                /\ from <= spans[k].first /\ spans[k].last <= upto
    /\ \A k, m \in 1..Len(spans) : k < m => spans[k].last < spans[m].first
    /\ \A i \in from..upto : text[i] \notin White => Covered(i, spans)

LEMMA WindowIsPiece ==
  ASSUME NEW text, Clean(text), NEW max, max \in Nat \ {0},
         NEW first, first \in 1..Len(text), text[first] \notin White
  PROVE  Piece(Window(text, first, max), text, max) /\ Window(text, first, max).first = first
  <1> PICK n : n = Len(text)
    OBVIOUS
  <1> DEFINE spaces == {i \in first + 1..first + max : i <= n /\ text[i] = Space}
             w == Window(text, first, max)
  <1>1. /\ n \in Nat \ {0} /\ text[n] \notin White
        /\ \A i \in 1..n - 1 : text[i] \notin White \/ text[i + 1] \notin White
        /\ \A i \in 1..n : text[i] \in White => text[i] = Space
    BY DEF Clean, Tidy
  <1>2. Space \in White
    BY DEF White
  <1>3. w = IF first + max > n THEN [first |-> first, last |-> n]
            ELSE IF spaces # {} THEN [first |-> first, last |-> Max(spaces) - 1]
            ELSE [first |-> first, last |-> first + max - 1]
    BY DEF Window
  <1>4. PICK last : last = IF first + max > n THEN n
                           ELSE IF spaces # {} THEN Max(spaces) - 1 ELSE first + max - 1
    OBVIOUS
  <1>5. w = [first |-> first, last |-> last]
    BY <1>3, <1>4
  <1>6. last \in 1..n /\ first <= last /\ last - first < max /\ text[last] \notin White
    <2>1. CASE first + max > n
      BY <1>1, <1>4, <2>1
    <2>2. CASE ~(first + max > n) /\ spaces # {}
      <3>1. spaces \subseteq first + 1..first + max /\ first + 1 \in Int /\ first + max \in Int
        OBVIOUS
      <3>2. Max(spaces) \in spaces
        <4> HIDE DEF spaces
        <4> QED BY <2>2, <3>1, LargestOf
      <3>3. PICK m : m = Max(spaces)
        OBVIOUS
      <3>4. m \in first + 1..first + max /\ m <= n /\ text[m] \in White
        BY <1>2, <3>2, <3>3
      <3>5. last = m - 1 /\ m - 1 \in 1..n - 1 /\ (m - 1) + 1 = m
        BY <1>1, <1>4, <2>2, <3>3, <3>4
      <3>6. text[m - 1] \notin White
        BY <1>1, <3>4, <3>5
      <3> QED BY <1>1, <3>4, <3>5, <3>6
    <2>3. CASE ~(first + max > n) /\ spaces = {}
      <3>1. last = first + max - 1 /\ last \in 1..n /\ first <= last /\ last - first < max
        BY <1>1, <1>4, <2>3
      <3>2. CASE last = first
        BY <3>1, <3>2
      <3>3. CASE last # first
        <4>1. last \in first + 1..first + max /\ last <= n
          BY <1>1, <3>1, <3>3
        <4>2. text[last] # Space
          BY <2>3, <4>1
        <4> QED BY <1>1, <3>1, <4>2
      <3> QED BY <3>1, <3>2, <3>3
    <2> QED BY <2>1, <2>2, <2>3
  <1>7. first \in Nat /\ last \in Nat
    BY <1>1, <1>6
  <1> HIDE DEF w
  <1> QED BY <1>5, <1>6, <1>7 DEF Piece, Span, w

LEMMA AfterIsNext ==
  ASSUME NEW text, Clean(text), NEW span, span.last \in 1..Len(text)
  PROVE  /\ After(text, span) \in span.last + 1..Len(text) + 1
         /\ After(text, span) <= Len(text) => text[After(text, span)] \notin White
         /\ \A i \in span.last + 1..After(text, span) - 1 : text[i] \in White
  <1> PICK n : n = Len(text)
    OBVIOUS
  <1> DEFINE rest == {i \in span.last + 1..n : text[i] # Space}
  <1>1. PICK l : l = span.last
    OBVIOUS
  <1>2. n \in Nat /\ l \in 1..n /\ \A i \in 1..n : text[i] \in White => text[i] = Space
    BY <1>1 DEF Clean, Tidy
  <1>3. Space \in White
    BY DEF White
  <1>4. PICK a : a = After(text, span)
    OBVIOUS
  <1>5. a = IF rest = {} THEN n + 1 ELSE Min(rest)
    BY <1>4 DEF After
  <1>6. rest = {i \in l + 1..n : text[i] # Space}
    BY <1>1
  <1>7. a \in l + 1..n + 1 /\ (a <= n => text[a] # Space)
        /\ \A i \in l + 1..a - 1 : i \in 1..n /\ text[i] = Space
    <2>1. CASE rest = {}
      <3>1. a = n + 1 /\ a - 1 = n
        BY <1>2, <1>5, <2>1
      <3>2. \A i \in l + 1..n : text[i] = Space /\ i \in 1..n
        BY <1>2, <1>6, <2>1
      <3> QED BY <1>2, <3>1, <3>2
    <2>2. CASE rest # {}
      <3>1. rest \subseteq l + 1..n /\ l + 1 \in Int /\ n \in Int
        BY <1>2, <1>6
      <3>2. a \in rest /\ \A i \in rest : a <= i
        <4> HIDE DEF rest
        <4> QED BY <1>5, <2>2, <3>1, SmallestOf
      <3>3. a \in l + 1..n /\ text[a] # Space
        BY <1>6, <3>2
      <3>4. \A i \in l + 1..a - 1 : i \in l + 1..n /\ ~(a <= i) /\ i \in 1..n
        BY <1>2, <3>3
      <3>5. \A i \in l + 1..a - 1 : i \in 1..n /\ text[i] = Space
        BY <1>6, <3>2, <3>4
      <3> QED BY <1>2, <3>3, <3>5
    <2> QED BY <2>1, <2>2
  <1>8. a <= n => text[a] \notin White
    <2>1. a <= n => a \in 1..n
      BY <1>2, <1>7
    <2> QED BY <1>2, <1>7, <2>1
  <1> QED BY <1>1, <1>3, <1>4, <1>7, <1>8

(* _bounded_text_spans: start[k] is its start after k rounds.              *)
Starting(start, text, max) ==
    /\ start \in [0..Len(text) -> 1..Len(text) + 1] /\ start[0] = 1
    /\ \A k \in 0..Len(text) : start[k] <= Len(text) => text[start[k]] \notin White
    /\ \A k \in 1..Len(text) :
          /\ start[k] = After(text, Window(text, start[k - 1], max))
          /\ start[k - 1] > Len(text) => start[k] > Len(text)
    /\ TextSpans(text, max) = [k \in 1..Min({k \in 0..Len(text) : start[k] > Len(text)}) |->
                                 Window(text, start[k - 1], max)]

LEMMA StartLoop ==
  ASSUME NEW text, Clean(text), NEW max, max \in Nat \ {0}
  PROVE  \E start : Starting(start, text, max)
  <1> DEFINE n == Len(text)
             States == {a \in 1..n + 1 : a <= n => text[a] \notin White}
             Next(s) == After(text, Window(text, s, max))
             Step == [x \in (1..n) \X States |-> Next(x[2])]
             Defines(start) == start = [k \in 0..n |->
                IF k = 0 THEN 1 ELSE After(text, Window(text, start[k - 1], max))]
  <1>1. n \in Nat \ {0} /\ text[1] \notin White
    BY DEF Clean, Tidy
  <1>2. 1 \in States
    BY <1>1
  <1>3. ASSUME NEW s \in States
        PROVE  Next(s) \in States /\ (s > n => Next(s) > n)
    <2>1. s \in 1..n + 1 /\ (s <= n => text[s] \notin White)
      OBVIOUS
    <2>2. PICK w : w = Window(text, s, max)
      OBVIOUS
    <2>3. w.last \in 1..n
      <3>1. CASE s <= n
        <4>1. s \in 1..n /\ text[s] \notin White
          BY <1>1, <2>1, <3>1
        <4> QED BY <2>2, <4>1, WindowIsPiece DEF Piece
      <3>2. CASE ~(s <= n)
        <4>1. s + max > n
          BY <1>1, <2>1, <3>2
        <4> QED BY <1>1, <2>2, <4>1 DEF Window
      <3> QED BY <3>1, <3>2
    <2>4. PICK a : a = After(text, w)
      OBVIOUS
    <2>5. PICK l : l = w.last
      OBVIOUS
    <2>6. l \in 1..n /\ a \in l + 1..n + 1 /\ (a <= n => text[a] \notin White)
      BY <2>3, <2>4, <2>5, AfterIsNext
    <2>7. a \in States
      BY <1>1, <2>6
    <2>8. s > n => a > n
      <3>1. SUFFICES ASSUME s > n PROVE a > n
        OBVIOUS
      <3>2. s + max > n
        BY <1>1, <2>1, <3>1
      <3>3. l = n
        BY <2>2, <2>5, <3>2 DEF Window
      <3> QED BY <1>1, <2>6, <3>3
    <2> QED BY <2>2, <2>4, <2>7, <2>8
  <1>4. \E g : IsLoop(g, n, States, 1, Step)
    <2>1. Step \in LoopBody(n, States)
      <3> HIDE DEF Next, States
      <3> QED BY <1>3 DEF LoopBody
    <2> HIDE DEF Step, n, States
    <2> QED BY <1>1, <1>2, <2>1, LoopRuns
  <1>5. PICK g : IsLoop(g, n, States, 1, Step)
    BY <1>4
  <1>6. \A k \in 1..n : g[k - 1] \in States /\ g[k] = Next(g[k - 1])
    <2> HIDE DEF Next, States
    <2> QED BY <1>5 DEF IsLoop
  <1>7. g \in [0..n -> States] /\ g[0] = 1
    BY <1>5 DEF IsLoop
  <1>8. Defines(g)
    <2>1. g = [k \in 0..n |-> g[k]]
      BY <1>7
    <2>2. \A k \in 0..n : k # 0 => k \in 1..n
      BY <1>1
    <2>3. \A k \in 0..n : g[k] = IF k = 0 THEN 1 ELSE After(text, Window(text, g[k - 1], max))
      BY <1>6, <1>7, <2>2
    <2> QED BY <2>1, <2>3
  <1> DEFINE c == CHOOSE start : Defines(start)
  <1>9. TextSpans(text, max) = [k \in 1..Min({k \in 0..n : c[k] > n}) |->
                                  Window(text, c[k - 1], max)]
    BY DEF TextSpans
  <1>10. Defines(c)
    <2> HIDE DEF Defines
    <2> QED BY <1>8
  <1> HIDE DEF c
  <1>11. c = [k \in 0..n |-> c[k]] /\ c[0] = 1 /\ \A k \in 1..n : c[k] = Next(c[k - 1])
    <2>1. \A k \in 1..n : k \in 0..n /\ k # 0
      BY <1>1
    <2>2. 0 \in 0..n
      BY <1>1
    <2> QED BY <1>10, <2>1, <2>2
  <1> DEFINE Good == {k \in 0..n : c[k] \in States}
  <1>12. 0..n \subseteq Good
    <2> HIDE DEF Next, States
    <2>1. 0 \in Good
      BY <1>1, <1>2, <1>11
    <2>2. ASSUME NEW k \in 1..n, k - 1 \in Good PROVE k \in Good
      <3>1. c[k - 1] \in States /\ c[k] = Next(c[k - 1]) /\ k \in 0..n
        <4>1. c[k - 1] \in States
          BY <2>2
        <4>2. c[k] = Next(c[k - 1])
          BY <1>11
        <4>3. k \in 0..n
          BY <1>1
        <4> QED BY <4>1, <4>2, <4>3
      <3>2. Next(c[k - 1]) \in States
        BY <1>3, <3>1
      <3> QED BY <3>1, <3>2
    <2> HIDE DEF Good
    <2> QED BY <1>1, <2>1, <2>2, EveryRound
  <1>13. \A k \in 0..n : c[k] \in States
    BY <1>12
  <1>14. Starting(c, text, max)
    <2>1. \A k \in 0..n : c[k] \in 1..n + 1 /\ (c[k] <= n => text[c[k]] \notin White)
      BY <1>13
    <2>2. c \in [0..n -> 1..n + 1]
      BY <1>11, <2>1
    <2>3. \A k \in 1..n : c[k - 1] \in States
      BY <1>1, <1>13
    <2>4. \A k \in 1..n : c[k - 1] > n => c[k] > n
      <3> HIDE DEF States, Next
      <3> QED BY <1>3, <1>11, <2>3
    <2> QED BY <1>9, <1>11, <2>1, <2>2, <2>4 DEF Starting
  <1> QED BY <1>14

LEMMA TextSpansCut ==
  ASSUME NEW text, Clean(text), NEW max, max \in Nat \ {0}
  PROVE  Cuts(TextSpans(text, max), text, 1, Len(text), max) /\ Len(TextSpans(text, max)) # 0
  <1> PICK n : n = Len(text)
    OBVIOUS
  <1>1. n \in Nat \ {0}
    BY DEF Clean, Tidy
  <1>2. PICK start : Starting(start, text, max)
    BY StartLoop
  <1>3. /\ start \in [0..n -> 1..n + 1] /\ start[0] = 1
        /\ \A k \in 0..n : start[k] <= n => text[start[k]] \notin White
        /\ \A k \in 1..n : /\ start[k] = After(text, Window(text, start[k - 1], max))
                           /\ start[k - 1] > n => start[k] > n
    BY <1>2 DEF Starting
  <1> DEFINE spans == TextSpans(text, max)
             late == {k \in 0..n : start[k] > n}
  <1>4. PICK rounds : rounds = Min(late)
    OBVIOUS
  <1>5. spans = [k \in 1..rounds |-> Window(text, start[k - 1], max)]
    BY <1>2, <1>4 DEF Starting
  <1>6. \A k \in 0..n : start[k] \in 1..n + 1 /\ start[k] \in Int
    <2>1. \A k \in 0..n : start[k] \in 1..n + 1
      BY <1>3
    <2> QED BY <1>1, <2>1
  (* A round before the end of the text: its window, where the next is.    *)
  <1>7. ASSUME NEW k \in 1..n, start[k - 1] <= n
        PROVE  \E w : /\ w = Window(text, start[k - 1], max) /\ Piece(w, text, max)
                      /\ w.first = start[k - 1] /\ start[k] \in w.last + 1..n + 1
                      /\ \A i \in w.last + 1..start[k] - 1 : text[i] \in White
    <2>1. PICK a, b, w : a = start[k - 1] /\ b = start[k] /\ w = Window(text, a, max)
      OBVIOUS
    <2>2. k - 1 \in 0..n
      BY <1>1
    <2>3. a \in 1..n /\ text[a] \notin White
      <3>1. a \in 1..n + 1 /\ a <= n /\ text[a] \notin White
        BY <1>3, <1>6, <1>7, <2>1, <2>2
      <3> QED BY <1>1, <3>1
    <2>4. Piece(w, text, max) /\ w.first = a
      <3>1. Piece(Window(text, a, max), text, max) /\ Window(text, a, max).first = a
        <4>1. a \in 1..Len(text) /\ text[a] \notin White
          BY <2>3
        <4> HIDE DEF spans, late
        <4> QED BY ONLY <4>1, Clean(text), max \in Nat \ {0}, WindowIsPiece
      <3> QED BY <2>1, <3>1
    <2>5. b = After(text, w) /\ w.last \in 1..Len(text)
      <3>1. w.last \in 1..Len(text)
        BY <2>4 DEF Piece
      <3> QED BY <1>3, <2>1, <3>1
    <2>6. b \in w.last + 1..n + 1 /\ \A i \in w.last + 1..b - 1 : text[i] \in White
      BY <2>5, AfterIsNext
    <2> QED BY <2>1, <2>4, <2>6
  <1>8. ASSUME NEW k \in 1..n, start[k - 1] <= n PROVE start[k - 1] < start[k]
    <2>1. PICK w : Piece(w, text, max) /\ w.first = start[k - 1] /\ start[k] \in w.last + 1..n + 1
      BY <1>7, <1>8
    <2>2. PICK f, l : f = w.first /\ l = w.last
      OBVIOUS
    <2>3. f \in Int /\ l \in Int /\ f <= l /\ start[k] \in l + 1..n + 1
      BY <2>1, <2>2 DEF Piece
    <2> QED BY <2>1, <2>2, <2>3
  <1>9. ASSUME NEW k \in 1..n PROVE start[k - 1] <= start[k]
    <2>1. k - 1 \in 0..n /\ k \in 0..n
      BY <1>1
    <2>2. PICK a, b : a = start[k - 1] /\ b = start[k]
      OBVIOUS
    <2>3. a \in 1..n + 1 /\ b \in 1..n + 1 /\ (a > n => b > n)
      BY <1>3, <1>6, <2>1, <2>2
    <2>4. a <= n => a < b
      BY <1>8, <2>2
    <2> QED BY <1>1, <2>2, <2>3, <2>4
  (* Every round takes the start a character further.                      *)
  <1> DEFINE Good == {k \in 0..n : start[k] >= k + 1}
  <1>10. 0..n \subseteq Good
    <2>1. 0 \in Good
      BY <1>1, <1>3
    <2>2. ASSUME NEW k \in 1..n, k - 1 \in Good PROVE k \in Good
      <3>1. PICK a, b : a = start[k - 1] /\ b = start[k]
        OBVIOUS
      <3>2. k - 1 \in 0..n /\ k \in 0..n
        BY <1>1
      <3>3. a \in 1..n + 1 /\ b \in 1..n + 1 /\ (a > n => b > n) /\ a >= k
        BY <1>3, <1>6, <2>2, <3>1, <3>2
      <3>4. a <= n => a < b
        BY <1>8, <3>1
      <3>5. b >= k + 1
        BY <1>1, <3>3, <3>4
      <3> QED BY <3>1, <3>2, <3>5
    <2> HIDE DEF Good
    <2> QED BY <1>1, <2>1, <2>2, EveryRound
  <1>11. /\ rounds \in 1..n /\ start[rounds] > n
         /\ \A k \in 0..rounds - 1 : k \in 0..n /\ start[k] <= n
    <2>1. n \in late
      <3>1. n \in 0..n
        BY <1>1
      <3>2. start[n] >= n + 1 /\ start[n] \in Int
        BY <1>6, <1>10, <3>1
      <3> QED BY <1>1, <3>1, <3>2
    <2>2. late \subseteq 0..n /\ 0 \in Int /\ n \in Int
      BY <1>1
    <2>3. rounds \in late /\ \A k \in late : rounds <= k
      <3> HIDE DEF late
      <3> QED BY <1>4, <2>1, <2>2, SmallestOf
    <2>4. rounds \in 0..n /\ start[rounds] > n
      BY <2>3
    <2>5. rounds # 0
      BY <1>1, <1>3, <2>4
    <2>6. \A k \in 0..rounds - 1 : k \in 0..n /\ ~(rounds <= k)
      BY <1>1, <2>4
    <2>7. \A k \in 0..rounds - 1 : k \in 0..n /\ ~(start[k] > n)
      BY <2>3, <2>6
    <2> QED BY <1>1, <1>6, <2>4, <2>5, <2>7
  <1> HIDE DEF late, spans, Good
  <1>12. ASSUME NEW k \in 1..rounds
         PROVE  /\ Piece(spans[k], text, max) /\ spans[k].first = start[k - 1]
                /\ start[k] \in spans[k].last + 1..n + 1
                /\ \A i \in spans[k].last + 1..start[k] - 1 : text[i] \in White
    <2>1. k \in 1..n /\ k - 1 \in 0..rounds - 1
      BY <1>1, <1>11
    <2>2. start[k - 1] <= n
      BY <1>11, <2>1
    <2>3. spans[k] = Window(text, start[k - 1], max)
      BY <1>5
    <2> QED BY <1>7, <2>1, <2>2, <2>3
  <1>13. spans \in Seq(Span) /\ Len(spans) = rounds /\ rounds \in Nat \ {0}
    <2>1. \A k \in 1..rounds : spans[k] \in Span
      BY <1>12 DEF Piece
    <2>2. spans = [k \in 1..rounds |-> spans[k]]
      BY <1>5
    <2>3. rounds \in Nat \ {0}
      BY <1>1, <1>11
    <2>4. spans \in [1..rounds -> Span]
      BY <2>1, <2>2
    <2> QED BY <2>3, <2>4
  <1>14. ASSUME NEW k \in 1..rounds, NEW m \in 1..rounds, k < m
         PROVE  spans[k].last < spans[m].first
    <2> DEFINE Beyond == {j \in 0..n : j >= k => start[j] >= start[k]}
    <2>1. 0..n \subseteq Beyond
      <3>1. 0 \in Beyond
        BY <1>1
      <3>2. ASSUME NEW j \in 1..n, j - 1 \in Beyond PROVE j \in Beyond
        <4>1. j \in 0..n /\ j - 1 \in 0..n /\ k \in 0..n
          BY <1>1, <1>11
        <4>2. PICK a, b, c : a = start[j - 1] /\ b = start[j] /\ c = start[k]
          OBVIOUS
        <4>3. a \in Int /\ b \in Int /\ c \in Int /\ a <= b
          BY <1>6, <1>9, <4>1, <4>2
        <4>4. j - 1 >= k => a >= c
          BY <3>2, <4>2
        <4>5. j = k => b = c
          BY <4>2
        <4>6. j >= k => b >= c
          BY <4>3, <4>4, <4>5
        <4> QED BY <4>1, <4>2, <4>6
      <3> HIDE DEF Beyond
      <3> QED BY <1>1, <3>1, <3>2, EveryRound
    <2>2. m - 1 \in 0..n /\ m - 1 >= k /\ k \in 0..n
      BY <1>1, <1>11, <1>14
    <2>3. start[m - 1] >= start[k]
      BY <2>1, <2>2
    <2>4. PICK a, b, l : a = start[m - 1] /\ b = start[k] /\ l = spans[k].last
      OBVIOUS
    <2>5. a \in Int /\ b \in Int /\ l \in Int /\ b \in l + 1..n + 1 /\ a >= b
          /\ spans[m].first = a
      <3>1. a \in Int /\ b \in Int
        BY <1>6, <2>2, <2>4
      <3>2. l \in Int
        BY <1>12, <2>4 DEF Piece
      <3>3. b \in l + 1..n + 1
        BY <1>12, <2>4
      <3>4. spans[m].first = a
        BY <1>12, <2>4
      <3> QED BY <2>3, <2>4, <3>1, <3>2, <3>3, <3>4
    <2> QED BY <2>4, <2>5
  <1>15. ASSUME NEW i \in 1..n, text[i] \notin White
         PROVE  Covered(i, spans)
    <2> DEFINE passed == {k \in 0..rounds : start[k] > i}
    <2>1. rounds \in passed /\ passed \subseteq Nat
      BY <1>1, <1>6, <1>11
    <2>2. PICK k \in passed : \A m \in passed : k <= m
      <3> HIDE DEF passed
      <3> QED BY <2>1, NatLeast
    <2>3. k \in 0..rounds /\ start[k] > i
      BY <2>2
    <2>4. k # 0
      BY <1>3, <2>3
    <2>5. k \in 1..rounds /\ k - 1 \in 0..rounds /\ ~(k <= k - 1) /\ k - 1 \in 0..n
      BY <1>1, <1>11, <2>3, <2>4
    <2>6. ~(start[k - 1] > i)
      BY <2>2, <2>5
    <2>7. PICK f, l, a : f = spans[k].first /\ l = spans[k].last /\ a = start[k]
      OBVIOUS
    <2>8. f \in Int /\ l \in Int /\ f <= i /\ a \in l + 1..n + 1 /\ a > i
      <3>1. f \in Int /\ l \in Int /\ f = start[k - 1] /\ a \in l + 1..n + 1
        BY <1>12, <2>5, <2>7 DEF Piece
      <3> QED BY <2>3, <2>6, <2>7, <3>1
    <2>9. \A j \in l + 1..a - 1 : text[j] \in White
      BY <1>12, <2>5, <2>7
    <2>10. i \in f..l
      <3>1. i \notin l + 1..a - 1
        BY <1>15, <2>9
      <3> QED BY <2>8, <3>1
    <2> QED BY <1>13, <2>5, <2>7, <2>10 DEF Covered, Within
  <1>16. \A k \in 1..rounds : 1 <= spans[k].first /\ spans[k].last <= n
    BY <1>12 DEF Piece
  <1>17. \A k \in 1..rounds : Piece(spans[k], text, max)
    BY <1>12
  <1>18. Cuts(spans, text, 1, n, max) /\ Len(spans) # 0
    BY <1>13, <1>14, <1>15, <1>16, <1>17 DEF Cuts
  <1> QED BY <1>18 DEF spans

(* The spans of c are those of a and then those of b.                      *)
Follow(c, a, b) ==
    /\ c \in Seq(Span) /\ Len(c) = Len(a) + Len(b)
    /\ \A k \in 1..Len(a) : c[k] = a[k]
    /\ \A k \in 1..Len(b) : c[Len(a) + k] = b[k]

LEMMA CutsFollow ==
  ASSUME NEW text, NEW max, NEW from, from \in Int, NEW mid, mid \in Int,
         NEW next, next \in Int, NEW upto, upto \in Int, mid < next, mid <= upto, from <= next,
         NEW a, Cuts(a, text, from, mid, max), NEW b, Cuts(b, text, next, upto, max),
         NEW c, Follow(c, a, b), \A i \in mid + 1..next - 1 : text[i] \in White
  PROVE  Cuts(c, text, from, upto, max)
  <1> PICK la, lb : la = Len(a) /\ lb = Len(b)
    OBVIOUS
  <1>1. /\ la \in Nat /\ lb \in Nat /\ Len(c) = la + lb /\ c \in Seq(Span)
        /\ \A k \in 1..la : c[k] = a[k]
        /\ \A k \in 1..lb : c[la + k] = b[k]
    BY DEF Cuts, Follow
  <1>2. ASSUME NEW k \in 1..la + lb
        PROVE  \/ k \in 1..la /\ c[k] = a[k]
               \/ \E j \in 1..lb : k = la + j /\ c[k] = b[j]
    <2>1. CASE k <= la
      BY <1>1, <2>1
    <2>2. CASE ~(k <= la)
      <3>1. k - la \in 1..lb /\ k = la + (k - la)
        BY <1>1, <2>2
      <3> QED BY <1>1, <3>1
    <2> QED BY <2>1, <2>2
  <1>3. ASSUME NEW k \in 1..la
        PROVE  /\ Piece(a[k], text, max) /\ a[k].first \in Int /\ a[k].last \in Int
               /\ from <= a[k].first /\ a[k].last <= mid
    BY DEF Cuts, Piece
  <1>4. ASSUME NEW k \in 1..lb
        PROVE  /\ Piece(b[k], text, max) /\ b[k].first \in Int /\ b[k].last \in Int
               /\ next <= b[k].first /\ b[k].last <= upto
    BY DEF Cuts, Piece
  <1>5. ASSUME NEW k \in 1..la + lb
        PROVE  Piece(c[k], text, max) /\ from <= c[k].first /\ c[k].last <= upto
    <2>1. CASE k \in 1..la /\ c[k] = a[k]
      BY <1>3, <2>1
    <2>2. CASE \E j \in 1..lb : k = la + j /\ c[k] = b[j]
      BY <1>4, <2>2
    <2> QED BY <1>2, <2>1, <2>2
  <1>6. ASSUME NEW k \in 1..la + lb, NEW m \in 1..la + lb, k < m
        PROVE  c[k].last < c[m].first
    <2>1. CASE m \in 1..la /\ c[m] = a[m]
      <3>1. k \in 1..la
        BY <1>1, <1>6, <2>1
      <3>2. \A x, y \in 1..la : x < y => a[x].last < a[y].first
        BY DEF Cuts
      <3> QED BY <1>1, <1>6, <2>1, <3>1, <3>2
    <2>2. CASE \E j \in 1..lb : m = la + j /\ c[m] = b[j]
      <3>1. PICK j \in 1..lb : m = la + j /\ c[m] = b[j]
        BY <2>2
      <3>2. CASE k \in 1..la /\ c[k] = a[k]
        <4>1. PICK x, y : x = a[k].last /\ y = b[j].first
          OBVIOUS
        <4>2. x \in Int /\ x <= mid
          BY <1>3, <3>2, <4>1
        <4>3. y \in Int /\ next <= y
          BY <1>4, <4>1
        <4> QED BY <3>1, <3>2, <4>1, <4>2, <4>3
      <3>3. CASE \E i \in 1..lb : k = la + i /\ c[k] = b[i]
        <4>1. PICK i \in 1..lb : k = la + i /\ c[k] = b[i]
          BY <3>3
        <4>2. i < j
          BY <1>1, <1>6, <3>1, <4>1
        <4>3. \A x, y \in 1..lb : x < y => b[x].last < b[y].first
          BY DEF Cuts
        <4> QED BY <3>1, <4>1, <4>2, <4>3
      <3> QED BY <1>2, <3>2, <3>3
    <2> QED BY <1>2, <2>1, <2>2
  <1>7. ASSUME NEW i \in from..upto, text[i] \notin White PROVE Covered(i, c)
    <2>1. CASE i <= mid
      <3>1. Covered(i, a)
        BY <1>7, <2>1 DEF Cuts
      <3>2. PICK k \in 1..la : Within(i, a[k])
        BY <3>1 DEF Covered
      <3>3. k \in 1..la + lb
        BY <1>1
      <3> QED BY <1>1, <3>2, <3>3 DEF Covered
    <2>2. CASE ~(i <= mid)
      <3>1. i \in next..upto
        <4>1. i \notin mid + 1..next - 1
          BY <1>7
        <4> QED BY <2>2, <4>1
      <3>2. Covered(i, b)
        BY <1>7, <3>1 DEF Cuts
      <3>3. PICK k \in 1..lb : Within(i, b[k])
        BY <3>2 DEF Covered
      <3>4. la + k \in 1..la + lb
        BY <1>1
      <3> QED BY <1>1, <3>3, <3>4 DEF Covered
    <2> QED BY <2>1, <2>2
  <1> QED BY <1>1, <1>5, <1>6, <1>7 DEF Cuts

(* The spans of a page, at its place in the text.                          *)
LEMMA ShiftedCuts ==
  ASSUME NEW text, NEW page, NEW max, NEW f, f \in 1..Len(text), Len(text) \in Nat,
         NEW n, n = Len(page), n \in Nat, f + n - 1 <= Len(text),
         \A j \in 1..n : text[f + j - 1] = page[j],
         NEW spans, Cuts(spans, page, 1, n, max)
  PROVE  Cuts(Shifted(spans, f - 1), text, f, f + n - 1, max)
  <1> PICK s : s = Len(spans)
    OBVIOUS
  <1> DEFINE c == Shifted(spans, f - 1)
  <1>1. s \in Nat /\ spans \in Seq(Span) /\ DOMAIN spans = 1..s
    BY DEF Cuts
  <1>2. c = [k \in 1..s |-> [first |-> spans[k].first + (f - 1), last |-> spans[k].last + (f - 1)]]
    BY <1>1 DEF Shifted
  <1> HIDE DEF c
  <1>3. ASSUME NEW k \in 1..s
        PROVE  /\ c[k].first = spans[k].first + (f - 1) /\ c[k].last = spans[k].last + (f - 1)
               /\ spans[k].first \in Int /\ spans[k].last \in Int /\ c[k] \in Span
               /\ Piece(c[k], text, max) /\ f <= c[k].first /\ c[k].last <= f + n - 1
    <2>1. PICK a, b : a = spans[k].first /\ b = spans[k].last
      OBVIOUS
    <2>2. Piece(spans[k], page, max)
      BY DEF Cuts
    <2>3. /\ a \in 1..n /\ b \in 1..n /\ a <= b /\ b - a < max
          /\ page[a] \notin White /\ page[b] \notin White
      BY <2>1, <2>2 DEF Piece
    <2>4. c[k] = [first |-> a + (f - 1), last |-> b + (f - 1)]
      BY <1>2, <2>1
    <2>5. /\ a + (f - 1) = f + a - 1 /\ b + (f - 1) = f + b - 1
          /\ a + (f - 1) \in 1..Len(text) /\ b + (f - 1) \in 1..Len(text)
          /\ a + (f - 1) <= b + (f - 1) /\ (b + (f - 1)) - (a + (f - 1)) = b - a
          /\ f <= a + (f - 1) /\ b + (f - 1) <= f + n - 1
      BY <2>3
    <2>6. text[a + (f - 1)] \notin White /\ text[b + (f - 1)] \notin White
      BY <2>3, <2>5
    <2>7. a + (f - 1) \in Nat /\ b + (f - 1) \in Nat
      BY <2>5
    <2>8. c[k] \in Span
      BY <2>4, <2>7 DEF Span
    <2>9. Piece(c[k], text, max)
      BY <2>3, <2>4, <2>5, <2>6, <2>8 DEF Piece
    <2>10. c[k].first = a + (f - 1) /\ c[k].last = b + (f - 1)
      BY <2>4
    <2>11. a \in Int /\ b \in Int
      BY <2>3
    <2> QED BY <2>1, <2>5, <2>8, <2>9, <2>10, <2>11
  <1>4. c \in Seq(Span) /\ Len(c) = s
    <2>1. c = [k \in 1..s |-> c[k]]
      BY <1>2
    <2>2. c \in [1..s -> Span]
      BY <1>3, <2>1
    <2>3. s \in Nat
      BY <1>1
    <2> QED BY <2>2, <2>3
  <1>5. ASSUME NEW k \in 1..s, NEW m \in 1..s, k < m
        PROVE  c[k].last < c[m].first
    <2>1. spans[k].last < spans[m].first
      BY <1>5 DEF Cuts
    <2>2. PICK a, b : a = spans[k].last /\ b = spans[m].first
      OBVIOUS
    <2>3. a \in Int /\ b \in Int /\ c[k].last = a + (f - 1) /\ c[m].first = b + (f - 1)
      BY <1>3, <2>2
    <2> QED BY <2>1, <2>2, <2>3
  <1>6. ASSUME NEW i \in f..f + n - 1, text[i] \notin White PROVE Covered(i, c)
    <2>1. PICK j : j = i - f + 1
      OBVIOUS
    <2>2. j \in 1..n /\ i = f + j - 1
      BY <2>1
    <2>3. page[j] \notin White
      BY <1>6, <2>2
    <2>4. Covered(j, spans)
      BY <2>2, <2>3 DEF Cuts
    <2>5. PICK k \in 1..s : Within(j, spans[k])
      BY <2>4 DEF Covered
    <2>6. PICK a, b : a = spans[k].first /\ b = spans[k].last
      OBVIOUS
    <2>7. a \in Int /\ b \in Int /\ c[k].first = a + (f - 1) /\ c[k].last = b + (f - 1)
          /\ j \in a..b
      BY <1>3, <2>5, <2>6 DEF Within
    <2>8. i \in c[k].first..c[k].last
      <3>1. i \in a + (f - 1)..b + (f - 1)
        BY <2>2, <2>7
      <3> QED BY <2>7, <3>1
    <2> QED BY <1>4, <2>8 DEF Covered, Within
  <1>7. Cuts(c, text, f, f + n - 1, max)
    BY <1>1, <1>3, <1>4, <1>5, <1>6 DEF Cuts
  <1> QED BY <1>7 DEF c

(* The last span is made longer.                                           *)
LEMMA CutsLonger ==
  ASSUME NEW text, NEW max, NEW mid, mid \in Int, NEW upto, upto \in Int, mid <= upto,
         NEW a, Cuts(a, text, 1, mid, max), NEW n, n = Len(a), n # 0, a[n].last = mid,
         Piece([first |-> a[n].first, last |-> upto], text, max)
  PROVE  /\ Cuts([a EXCEPT ![n].last = upto], text, 1, upto, max)
         /\ [a EXCEPT ![n].last = upto][n].last = upto
         /\ Len([a EXCEPT ![n].last = upto]) = n
  <1> DEFINE c == [a EXCEPT ![n].last = upto]
             x == [first |-> a[n].first, last |-> upto]
  <1>1. a \in Seq(Span) /\ n \in Nat \ {0} /\ n \in 1..n
    BY DEF Cuts
  <1>2. x \in Span /\ x = [a[n] EXCEPT !.last = upto]
    <2>1. a[n] \in Span
      BY <1>1
    <2> QED BY <2>1 DEF Span, Piece
  <1>3. /\ c \in Seq(Span) /\ Len(c) = n /\ c[n] = x
        /\ \A k \in 1..n : k # n => c[k] = a[k]
    <2>1. c = [a EXCEPT ![n] = x]
      BY <1>2
    <2> HIDE DEF c, x
    <2> QED BY <1>1, <1>2, <2>1
  <1>4. x.first = a[n].first /\ x.last = upto /\ Piece(x, text, max) /\ x.first \in Int
    BY DEF Piece
  <1> HIDE DEF c, x
  <1>5. ASSUME NEW k \in 1..n
        PROVE  /\ Piece(a[k], text, max) /\ a[k].first \in Int /\ a[k].last \in Int
               /\ 1 <= a[k].first /\ a[k].last <= mid
    BY DEF Cuts, Piece
  <1>6. ASSUME NEW k \in 1..n
        PROVE  Piece(c[k], text, max) /\ 1 <= c[k].first /\ c[k].last <= upto
               /\ c[k].first = a[k].first
    <2>1. CASE k = n
      BY <1>1, <1>3, <1>4, <1>5, <2>1
    <2>2. CASE k # n
      BY <1>3, <1>5, <2>2
    <2> QED BY <2>1, <2>2
  <1>7. ASSUME NEW k \in 1..n, NEW m \in 1..n, k < m
        PROVE  c[k].last < c[m].first
    <2>1. k # n
      BY <1>1, <1>7
    <2>2. a[k].last < a[m].first
      BY <1>7 DEF Cuts
    <2> QED BY <1>3, <1>6, <2>1, <2>2
  <1>8. ASSUME NEW i \in 1..upto, text[i] \notin White PROVE Covered(i, c)
    <2>1. CASE i <= mid
      <3>1. Covered(i, a)
        BY <1>8, <2>1 DEF Cuts
      <3>2. PICK k \in 1..n : Within(i, a[k])
        BY <3>1 DEF Covered
      <3>3. Within(i, c[k])
        <4>1. CASE k = n
          <5>1. PICK f : f = a[n].first
            OBVIOUS
          <5>2. i \in f..mid /\ f \in Int /\ c[n].first = f /\ c[n].last = upto
            BY <1>3, <1>4, <3>2, <4>1, <5>1 DEF Within
          <5> QED BY <4>1, <5>2 DEF Within
        <4>2. CASE k # n
          BY <1>3, <3>2, <4>2
        <4> QED BY <4>1, <4>2
      <3> QED BY <1>3, <3>3 DEF Covered
    <2>2. CASE ~(i <= mid)
      <3>1. PICK f : f = a[n].first
        OBVIOUS
      <3>2. f \in Int /\ f <= mid /\ c[n].first = f /\ c[n].last = upto
        <4>1. a[n].first <= a[n].last
          BY <1>1, <1>5 DEF Piece
        <4> QED BY <1>3, <1>4, <3>1, <4>1
      <3>3. Within(i, c[n])
        BY <2>2, <3>2 DEF Within
      <3> QED BY <1>1, <1>3, <3>3 DEF Covered
    <2> QED BY <2>1, <2>2
  <1>9. Cuts(c, text, 1, upto, max) /\ c[n].last = upto /\ Len(c) = n
    BY <1>1, <1>3, <1>4, <1>6, <1>7, <1>8 DEF Cuts
  <1> QED BY <1>9 DEF c

(* What _bounded_parent_spans has after the pages up to a position.        *)
Acc == {acc \in [open : BOOLEAN, spans : Seq(Span)] : acc.open => Len(acc.spans) # 0}
Sectioned(acc, text, upto, max) ==
    /\ Cuts(acc.spans, text, 1, upto, max)
    /\ acc.open => Len(acc.spans) # 0 /\ acc.spans[Len(acc.spans)].last = upto

LEMMA OneMore ==
  ASSUME NEW a, a \in Seq(Span), NEW x, x \in Span
  PROVE  /\ Append(a, x) \in Seq(Span) /\ Len(Append(a, x)) = Len(a) + 1 /\ Len(a) \in Nat
         /\ \A k \in 1..Len(a) : Append(a, x)[k] = a[k]
         /\ Append(a, x)[Len(a) + 1] = x
  OBVIOUS

LEMMA LastLonger ==
  ASSUME NEW a, a \in Seq(Span), NEW n, n = Len(a), n # 0, NEW upto, upto \in Nat
  PROVE  [a EXCEPT ![n].last = upto] \in Seq(Span) /\ Len([a EXCEPT ![n].last = upto]) = n
  <1>1. n \in Nat \ {0} /\ n \in 1..n /\ a[n] \in Span
    OBVIOUS
  <1>2. [a[n] EXCEPT !.last = upto] \in Span
    BY <1>1 DEF Span
  <1>3. PICK x : x = [a[n] EXCEPT !.last = upto]
    OBVIOUS
  <1>4. [a EXCEPT ![n].last = upto] = [a EXCEPT ![n] = x]
    BY <1>3
  <1>5. x \in Span
    BY <1>2, <1>3
  <1> QED BY <1>1, <1>4, <1>5

LEMMA PageIsSectioned ==
  ASSUME NEW pages, Numbered(pages), NEW bounds, NEW text, Placed(pages, bounds, text),
         NEW max, max \in Nat \ {0}, NEW p, p \in 1..Len(pages), NEW acc, acc \in Acc,
         NEW mid, mid = IF p = 1 THEN 0 ELSE bounds[p - 1].last
  PROVE  /\ AddPage(acc, pages[p].text, bounds[p], max) \in Acc
         /\ Sectioned(acc, text, mid, max) =>
               Sectioned(AddPage(acc, pages[p].text, bounds[p], max), text, bounds[p].last, max)
  <1>1. PICK t, page, f, l, n : /\ t = pages[p].text /\ page = bounds[p]
                                /\ f = page.first /\ l = page.last /\ n = Len(t)
    OBVIOUS
  <1>2. /\ f \in 1..Len(text) /\ l \in 1..Len(text) /\ f <= l /\ l - f = n - 1 /\ n \in Nat \ {0}
        /\ Len(text) \in Nat /\ Clean(t) /\ f \in Nat /\ l \in Nat
    <2>1. Clean(t)
      BY <1>1 DEF Numbered
    <2>2. n \in Nat \ {0}
      BY <1>1, PageFacts
    <2>3. f \in 1..Len(text) /\ l \in 1..Len(text) /\ f <= l /\ l - f = n - 1 /\ Len(text) \in Nat
      BY <1>1, PlaceFacts
    <2> QED BY <2>1, <2>2, <2>3
  <1>3. text[f] \notin White /\ text[l] \notin White
    BY <1>1, PageEnds
  <1>4. /\ mid \in Int /\ mid < f /\ mid <= l
        /\ \A i \in mid + 1..f - 1 : text[i] \in White
    <2>1. CASE p = 1
      <3>1. mid = 0 /\ f = 1
        BY <1>1, <2>1 DEF Placed
      <3> QED BY <1>2, <3>1
    <2>2. CASE p # 1
      <3>1. Len(pages) \in Nat
        BY DEF Numbered
      <3>2. p - 1 \in 1..Len(pages) - 1 /\ p - 1 \in 1..Len(pages) /\ (p - 1) + 1 = p
        BY <2>2, <3>1
      <3>3. PICK q : q = p - 1
        OBVIOUS
      <3>4. mid = bounds[q].last /\ bounds[q + 1].first = bounds[q].last + 2
            /\ text[bounds[q].last + 1] = "\n"
        BY <2>2, <3>2, <3>3 DEF Placed
      <3>5. bounds[q].last \in 1..Len(text)
        BY <3>2, <3>3, PlaceFacts
      <3>6. mid \in 1..Len(text) /\ f = mid + 2 /\ text[mid + 1] \in White
        BY <1>1, <3>2, <3>3, <3>4, <3>5 DEF White
      <3>7. \A i \in mid + 1..f - 1 : i = mid + 1
        BY ONLY <1>2, <3>6
      <3> QED BY ONLY <1>2, <3>6, <3>7
    <2> QED BY <2>1, <2>2
  <1>5. PICK a, s : a = acc.spans /\ s = Len(a)
    OBVIOUS
  <1>6. a \in Seq(Span) /\ s \in Nat /\ acc.open \in BOOLEAN /\ (acc.open => s # 0)
        /\ acc = [open |-> acc.open, spans |-> a]
    BY <1>5 DEF Acc
  <1> DEFINE next == AddPage(acc, t, page, max)
  <1>7. CASE n > max
    <2>1. PICK b, c : b = Shifted(TextSpans(t, max), f - 1) /\ c = a \o b
      OBVIOUS
    <2>2. next = [open |-> FALSE, spans |-> c]
      BY <1>1, <1>5, <1>7, <2>1 DEF AddPage
    <2>3. Cuts(TextSpans(t, max), t, 1, n, max)
      BY <1>1, <1>2, TextSpansCut
    <2>4. Cuts(b, text, f, l, max)
      <3>1. f + n - 1 = l /\ f + n - 1 <= Len(text)
        BY <1>2
      <3>2. \A j \in 1..n : text[f + j - 1] = t[j]
        BY <1>1 DEF Placed
      <3>3. PICK spans : spans = TextSpans(t, max)
        OBVIOUS
      <3>4. Cuts(Shifted(spans, f - 1), text, f, f + n - 1, max)
        BY ONLY <1>1, <1>2, <2>3, <3>1, <3>2, <3>3, ShiftedCuts
      <3> QED BY <2>1, <3>1, <3>3, <3>4
    <2>5. b \in Seq(Span)
      BY <2>4 DEF Cuts
    <2>6. Follow(c, a, b)
      <3>1. /\ c \in Seq(Span) /\ Len(c) = Len(a) + Len(b)
            /\ \A i \in 1..Len(a) : c[i] = a[i]
            /\ \A j \in 1..Len(b) : c[Len(a) + j] = b[j]
        BY <1>6, <2>1, <2>5, TwoLists
      <3> QED BY <3>1 DEF Follow
    <2>7. next \in Acc
      BY <2>2, <2>6 DEF Acc, Follow
    <2>8. ASSUME Cuts(a, text, 1, mid, max) PROVE Cuts(c, text, 1, l, max)
      BY ONLY <1>2, <1>4, <2>4, <2>6, <2>8, CutsFollow
    <2> HIDE DEF next
    <2> QED BY <1>1, <1>5, <2>2, <2>7, <2>8 DEF Sectioned, next
  <1>8. CASE ~(n > max) /\ acc.open /\ l - a[s].first + 1 <= max
    <2>1. PICK c : c = [a EXCEPT ![s].last = l]
      OBVIOUS
    <2>2. next = [open |-> TRUE, spans |-> c]
      <3>1. next = [acc EXCEPT !.spans[s].last = l]
        BY <1>1, <1>5, <1>8 DEF AddPage
      <3>2. acc.open = TRUE
        BY <1>6, <1>8
      <3>3. next = [acc EXCEPT !.spans = c]
        <4>1. next = [acc EXCEPT !.spans = [acc.spans EXCEPT ![s].last = l]]
          BY <3>1
        <4> HIDE DEF next
        <4> QED BY <1>5, <2>1, <4>1
      <3> HIDE DEF next
      <3> QED BY <1>6, <3>2, <3>3
    <2>3. c \in Seq(Span) /\ Len(c) = s
      BY <1>2, <1>5, <1>6, <1>8, <2>1, LastLonger
    <2>4. next \in Acc
      BY <1>6, <1>8, <2>2, <2>3 DEF Acc
    <2>5. ASSUME Cuts(a, text, 1, mid, max), a[s].last = mid
          PROVE  Cuts(c, text, 1, l, max) /\ c[s].last = l
      <3>1. PICK g : g = a[s].first
        OBVIOUS
      <3>2. Piece(a[s], text, max)
        <4>1. s \in 1..s
          BY <1>6, <1>8
        <4> QED BY <1>5, <2>5, <4>1 DEF Cuts
      <3>3. g \in 1..Len(text) /\ text[g] \notin White /\ g <= mid /\ g \in Nat
        BY <2>5, <3>1, <3>2 DEF Piece, Span
      <3>4. g <= l /\ l - g < max
        <4>1. max \in Int /\ l - g + 1 <= max
          BY <1>8, <3>1
        <4> QED BY <1>2, <1>4, <3>3, <4>1
      <3>5. Piece([first |-> g, last |-> l], text, max)
        BY <1>2, <1>3, <3>3, <3>4 DEF Piece, Span
      <3>6. s # 0 /\ Piece([first |-> a[s].first, last |-> l], text, max) /\ l \in Int
        BY <1>2, <1>6, <1>8, <3>1, <3>5
      <3> QED BY ONLY <1>4, <1>5, <2>1, <2>5, <3>6, CutsLonger
    <2> HIDE DEF next
    <2> QED BY <1>1, <1>5, <1>8, <2>2, <2>3, <2>4, <2>5 DEF Sectioned, next
  <1>9. CASE ~(n > max) /\ ~(acc.open /\ l - a[s].first + 1 <= max)
    <2>1. PICK x, b, c : x = [first |-> f, last |-> l] /\ b = <<x>> /\ c = Append(a, x)
      OBVIOUS
    <2>2. next = [open |-> TRUE, spans |-> c]
      BY <1>1, <1>5, <1>9, <2>1 DEF AddPage
    <2>3. Piece(x, text, max)
      <3>1. l - f < max
        BY <1>2, <1>9
      <3> QED BY <1>2, <1>3, <2>1, <3>1 DEF Piece, Span
    <2>4. x \in Span /\ b \in Seq(Span) /\ Len(b) = 1 /\ b[1] = x
      BY <2>1, <2>3 DEF Piece
    <2>5. Cuts(b, text, f, l, max)
      <3>1. \A k \in 1..1 : k = 1
        OBVIOUS
      <3>2. \A k \in 1..Len(b) : Piece(b[k], text, max) /\ f <= b[k].first /\ b[k].last <= l
        BY <1>2, <2>1, <2>3, <2>4, <3>1
      <3>3. \A k, m \in 1..Len(b) : k < m => b[k].last < b[m].first
        <4>1. \A k, m \in 1..1 : ~(k < m)
          OBVIOUS
        <4> QED BY <2>4, <4>1
      <3>4. \A i \in f..l : Covered(i, b)
        BY <2>1, <2>4 DEF Covered, Within
      <3> QED BY <2>4, <3>2, <3>3, <3>4 DEF Cuts
    <2>6. Follow(c, a, b)
      <3>1. /\ c \in Seq(Span) /\ Len(c) = s + 1
            /\ \A k \in 1..s : c[k] = a[k]
            /\ c[s + 1] = x
        BY <1>5, <1>6, <2>1, <2>4, OneMore
      <3>2. \A k \in 1..1 : c[s + k] = b[k]
        BY <2>4, <3>1
      <3> QED BY <1>5, <2>4, <3>1, <3>2 DEF Follow
    <2>7. Len(c) = s + 1 /\ Len(c) # 0 /\ c[Len(c)].last = l /\ c \in Seq(Span)
      <3>1. Len(c) = s + 1 /\ c[s + 1] = x /\ c \in Seq(Span)
        BY <1>5, <1>6, <2>1, <2>4, OneMore
      <3>2. s + 1 # 0 /\ x.last = l
        BY <1>6, <2>1
      <3> QED BY <3>1, <3>2
    <2>8. next \in Acc
      BY <2>2, <2>7 DEF Acc
    <2>9. ASSUME Cuts(a, text, 1, mid, max) PROVE Cuts(c, text, 1, l, max)
      BY ONLY <1>2, <1>4, <2>5, <2>6, <2>9, CutsFollow
    <2> HIDE DEF next
    <2> QED BY <1>1, <1>5, <2>2, <2>7, <2>8, <2>9 DEF Sectioned, next
  <1> QED BY <1>1, <1>7, <1>8, <1>9

LEMMA FirstIsFirst ==
  ASSUME NEW text, Tidy(text), NEW max, NEW spans, Cuts(spans, text, 1, Len(text), max)
  PROVE  Len(spans) # 0 /\ spans[1].first = 1
  <1> PICK n, s : n = Len(text) /\ s = Len(spans)
    OBVIOUS
  <1>1. n \in Nat \ {0} /\ text[1] \notin White /\ s \in Nat
    BY DEF Tidy, Cuts
  <1>2. Covered(1, spans)
    <2>1. 1 \in 1..n
      BY <1>1
    <2> QED BY <1>1, <2>1 DEF Cuts
  <1>3. PICK k \in 1..s : Within(1, spans[k])
    BY <1>2 DEF Covered
  <1>4. \A j \in 1..s : /\ spans[j].first \in Int /\ spans[j].last \in Int
                        /\ 1 <= spans[j].first /\ spans[j].first <= spans[j].last
    BY DEF Cuts, Piece
  <1>5. spans[k].first = 1
    <2>1. PICK f, l : f = spans[k].first /\ l = spans[k].last
      OBVIOUS
    <2>2. f \in Int /\ 1 <= f /\ 1 \in f..l
      BY <1>3, <1>4, <2>1 DEF Within
    <2> QED BY <2>1, <2>2
  <1>6. k = 1
    <2>1. SUFFICES ASSUME k # 1 PROVE FALSE
      OBVIOUS
    <2>2. 1 \in 1..s /\ 1 < k
      BY <1>1, <2>1
    <2>3. spans[1].last < spans[k].first
      BY <2>2 DEF Cuts
    <2>4. PICK a, b : a = spans[1].first /\ b = spans[1].last
      OBVIOUS
    <2>5. a \in Int /\ b \in Int /\ 1 <= a /\ a <= b /\ b < 1
      BY <1>4, <1>5, <2>2, <2>3, <2>4
    <2> QED BY <2>5
  <1> QED BY <1>1, <1>3, <1>5, <1>6

(* The whole text of the pages is cut.                                     *)
LEMMA ParentSpansCut ==
  ASSUME NEW pages, Numbered(pages), Len(pages) # 0, NEW max, max \in Nat \ {0}
  PROVE  /\ Cuts(ParentSpans(pages, max), Joined(pages), 1, Len(Joined(pages)), max)
         /\ Len(ParentSpans(pages, max)) # 0 /\ ParentSpans(pages, max)[1].first = 1
  <1> PICK n, bounds, text : n = Len(pages) /\ bounds = Boundaries(pages) /\ text = Joined(pages)
    OBVIOUS
  <1>1. n \in Nat \ {0} /\ Placed(pages, bounds, text) /\ Tidy(text)
    <2>1. Placed(pages, bounds, text)
      BY PagesArePlaced
    <2> QED BY <2>1, JoinedIsTidy DEF Numbered
  <1> DEFINE start == [open |-> FALSE, spans |-> << >>]
             NextAcc(p, acc) == AddPage(acc, pages[p].text, bounds[p], max)
             Step == [x \in (1..n) \X Acc |-> NextAcc(x[1], x[2])]
             Defines(after) == after = [p \in 0..n |->
                IF p = 0 THEN start ELSE AddPage(after[p - 1], pages[p].text, bounds[p], max)]
  <1>2. ASSUME NEW p \in 1..n, NEW acc \in Acc
        PROVE  /\ NextAcc(p, acc) \in Acc
               /\ Sectioned(acc, text, IF p = 1 THEN 0 ELSE bounds[p - 1].last, max) =>
                     Sectioned(NextAcc(p, acc), text, bounds[p].last, max)
    <2>1. PICK mid : mid = IF p = 1 THEN 0 ELSE bounds[p - 1].last
      OBVIOUS
    <2>2. /\ AddPage(acc, pages[p].text, bounds[p], max) \in Acc
          /\ Sectioned(acc, text, mid, max) =>
                Sectioned(AddPage(acc, pages[p].text, bounds[p], max), text, bounds[p].last, max)
      BY <1>1, <2>1, PageIsSectioned
    <2> QED BY <2>1, <2>2
  <1>3. start \in Acc
    BY DEF Acc
  <1>4. \E g : IsLoop(g, n, Acc, start, Step)
    <2>1. Step \in LoopBody(n, Acc)
      <3> HIDE DEF NextAcc
      <3> QED BY <1>2 DEF LoopBody
    <2> HIDE DEF Step, start
    <2> QED BY <1>1, <1>3, <2>1, LoopRuns
  <1>5. PICK g : IsLoop(g, n, Acc, start, Step)
    BY <1>4
  <1>6. \A p \in 1..n : g[p - 1] \in Acc /\ g[p] = NextAcc(p, g[p - 1])
    <2> HIDE DEF NextAcc, start
    <2> QED BY <1>5 DEF IsLoop
  <1>7. g \in [0..n -> Acc] /\ g[0] = start
    <2> HIDE DEF start, Step
    <2> QED BY <1>5 DEF IsLoop
  <1>8. Defines(g)
    <2> HIDE DEF start
    <2>1. g = [p \in 0..n |-> g[p]]
      BY <1>7
    <2>2. \A p \in 0..n : p # 0 => p \in 1..n
      BY <1>1
    <2>3. \A p \in 0..n : g[p] = IF p = 0 THEN start
                                 ELSE AddPage(g[p - 1], pages[p].text, bounds[p], max)
      BY <1>6, <1>7, <2>2
    <2> QED BY <2>1, <2>3
  <1> DEFINE c == CHOOSE after : Defines(after)
  <1>9. ParentSpans(pages, max) = c[n].spans
    BY DEF ParentSpans
  <1>10. Defines(c)
    <2> HIDE DEF Defines
    <2> QED BY <1>8
  <1> HIDE DEF c
  <1>11. c[0] = start /\ \A p \in 1..n : c[p] = NextAcc(p, c[p - 1])
    <2>1. \A p \in 1..n : p \in 0..n /\ p # 0
      BY <1>1
    <2>2. 0 \in 0..n
      BY <1>1
    <2> HIDE DEF start
    <2> QED BY <1>10, <2>1, <2>2
  <1> DEFINE Upto(p) == IF p = 0 THEN 0 ELSE bounds[p].last
             Good == {p \in 0..n : c[p] \in Acc /\ Sectioned(c[p], text, Upto(p), max)}
  <1>12. 0..n \subseteq Good
    <2>1. 0 \in Good
      <3>1. Sectioned(start, text, 0, max)
        <4>1. Cuts(<< >>, text, 1, 0, max)
          BY DEF Cuts
        <4> QED BY <4>1 DEF Sectioned
      <3>2. 0 \in 0..n
        BY <1>1
      <3> HIDE DEF start
      <3> QED BY <1>3, <1>11, <3>1, <3>2
    <2>2. ASSUME NEW p \in 1..n, p - 1 \in Good PROVE p \in Good
      <3>1. c[p - 1] \in Acc /\ Sectioned(c[p - 1], text, Upto(p - 1), max)
        BY <2>2
      <3>2. p \in 0..n /\ p # 0 /\ (p - 1 = 0 <=> p = 1)
        BY <1>1
      <3>3. Upto(p - 1) = IF p = 1 THEN 0 ELSE bounds[p - 1].last
        BY <3>2
      <3>4. NextAcc(p, c[p - 1]) \in Acc
            /\ Sectioned(NextAcc(p, c[p - 1]), text, bounds[p].last, max)
        <4> HIDE DEF NextAcc, Upto
        <4> QED BY <1>2, <3>1, <3>3
      <3>5. c[p] = NextAcc(p, c[p - 1])
        BY <1>11
      <3> HIDE DEF NextAcc
      <3> QED BY <3>2, <3>4, <3>5
    <2> HIDE DEF Good
    <2> QED BY <1>1, <2>1, <2>2, EveryRound
  <1>13. Sectioned(c[n], text, bounds[n].last, max)
    <2>1. n \in 0..n /\ n # 0
      BY <1>1
    <2> QED BY <1>12, <2>1
  <1>14. bounds[n].last = Len(text)
    BY <1>1 DEF Placed
  <1>15. Cuts(ParentSpans(pages, max), text, 1, Len(text), max)
    BY <1>9, <1>13, <1>14 DEF Sectioned
  <1>16. Len(ParentSpans(pages, max)) # 0 /\ ParentSpans(pages, max)[1].first = 1
    BY ONLY <1>1, <1>15, FirstIsFirst
  <1> QED BY <1>15, <1>16

-----------------------------------------------------------------------------
(* THE SECTIONS, WITH AND WITHOUT MARKERS.                                 *)

(* A section is empty if its marker is where the next one is.              *)
IsSection(span, text) ==
    /\ span \in Span /\ span.first \in 1..Len(text) /\ span.last \in span.first - 1..Len(text)
    /\ span.first <= span.last =>
          text[span.first] \notin White /\ text[span.last] \notin White

Sections(spans, text) ==
    /\ spans \in Seq(Span) /\ Len(spans) \in Nat \ {0}
    /\ \A k \in 1..Len(spans) : IsSection(spans[k], text)
    /\ \A k, m \in 1..Len(spans) : k < m => spans[k].last < spans[m].first
    /\ \A i \in spans[1].first..Len(text) : text[i] \notin White => Covered(i, spans)

LEMMA PiecesAreSections ==
  ASSUME NEW text, Tidy(text), NEW max, NEW spans, Cuts(spans, text, 1, Len(text), max)
  PROVE  Sections(spans, text)
  <1>1. Len(spans) # 0 /\ spans[1].first = 1
    BY FirstIsFirst
  <1>2. ASSUME NEW k \in 1..Len(spans) PROVE IsSection(spans[k], text)
    <2>1. PICK span, a, b : span = spans[k] /\ a = span.first /\ b = span.last
      OBVIOUS
    <2>2. Piece(span, text, max)
      BY <2>1 DEF Cuts
    <2>3. a \in 1..Len(text) /\ b \in 1..Len(text) /\ a <= b
      BY <2>1, <2>2 DEF Piece
    <2>4. b \in a - 1..Len(text)
      BY <2>3
    <2> QED BY <2>1, <2>2, <2>3, <2>4 DEF Piece, IsSection
  <1> QED BY <1>1, <1>2 DEF Sections, Cuts

(* Markers as the profiles have them: none begins with white space.        *)
AreMarkers(markers) ==
    /\ markers \in Seq(Seq(Characters)) /\ Len(markers) \in Nat
    /\ \A k \in 1..Len(markers) : markers[k] # << >> /\ markers[k][1] \notin White

LEMMA MarkerIsFound ==
  ASSUME NEW text, Tidy(text), NEW markers, AreMarkers(markers), MarkersUsable(text, markers),
         NEW k, k \in 1..Len(markers), NEW at, at = Positions(text, markers)
  PROVE  /\ at[k] \in 1..Len(text) /\ text[at[k]] \notin White
         /\ k > 1 => at[k - 1] <= at[k]
  <1> PICK n, m, t : n = Len(markers[k]) /\ m = markers[k] /\ t = Len(text)
    OBVIOUS
  <1>1. DOMAIN markers = 1..Len(markers)
    BY DEF AreMarkers
  <1>2. m \in Seq(Characters) /\ m # << >> /\ m[1] \notin White
    BY DEF AreMarkers
  <1>3. n \in Nat \ {0} /\ t \in Nat
    BY <1>2, SomeText DEF Tidy
  <1> DEFINE found == {i \in 1..t - n + 1 : \A j \in 1..n : text[i + j - 1] = m[j]}
  <1>4. at = [l \in DOMAIN markers |->
                 IF {i \in 1..Len(text) - Len(markers[l]) + 1 :
                        \A j \in 1..Len(markers[l]) : text[i + j - 1] = markers[l][j]} = {}
                 THEN 0
                 ELSE Min({i \in 1..Len(text) - Len(markers[l]) + 1 :
                        \A j \in 1..Len(markers[l]) : text[i + j - 1] = markers[l][j]})]
    BY DEF Positions
  <1>5. at[k] = (IF found = {} THEN 0 ELSE Min(found)) /\ DOMAIN at = 1..Len(markers)
    BY <1>1, <1>4
  <1>6. at[k] # 0 /\ (k > 1 => at[k - 1] <= at[k])
    BY <1>5 DEF MarkersUsable
  <1>7. at[k] \in found
    <2>1. found \subseteq 1..t - n + 1 /\ 1 \in Int /\ t - n + 1 \in Int
      <3>1. found \subseteq 1..t - n + 1
        OBVIOUS
      <3>2. t - n + 1 \in Int
        BY ONLY <1>3
      <3> HIDE DEF found
      <3> QED BY <3>1, <3>2
    <2> HIDE DEF found
    <2>2. found # {} /\ at[k] = Min(found)
      BY <1>5, <1>6
    <2> QED BY <2>1, <2>2, SmallestOf
  <1>8. PICK i \in 1..t - n + 1 : i = at[k] /\ \A j \in 1..n : text[i + j - 1] = m[j]
    BY <1>7
  <1>9. i \in 1..t /\ 1 \in 1..n /\ i + 1 - 1 = i
    BY ONLY i \in 1..t - n + 1, <1>3
  <1>10. text[i + 1 - 1] = m[1]
    BY <1>8, <1>9
  <1> QED BY <1>2, <1>6, <1>8, <1>9, <1>10

LEMMA TrimmedIsSection ==
  ASSUME NEW text, Len(text) \in Nat, NEW a, a \in 1..Len(text), text[a] \notin White,
         NEW e, e \in a - 1..Len(text), NEW s, s = Trimmed(text, [first |-> a, last |-> e])
  PROVE  /\ IsSection(s, text) /\ s.first = a /\ s.last <= e
         /\ \A i \in a..e : text[i] \notin White => Within(i, s)
  <1> PICK n : n = Len(text)
    OBVIOUS
  <1> DEFINE kept == {i \in a..e : text[i] \notin White}
  <1>1. s = [first |-> a, last |-> IF kept = {} THEN a - 1 ELSE Max(kept)]
    BY DEF Trimmed
  <1>2. PICK l : l = IF kept = {} THEN a - 1 ELSE Max(kept)
    OBVIOUS
  <1>3. s = [first |-> a, last |-> l]
    BY <1>1, <1>2
  <1>4. CASE kept = {}
    <2>1. l = a - 1 /\ l \in a - 1..n /\ ~(a <= l) /\ l <= e /\ l \in Nat /\ a \in Nat
      BY <1>2, <1>4
    <2>2. \A i \in a..e : text[i] \in White
      BY <1>4
    <2>3. s \in Span
      BY <1>3, <2>1 DEF Span
    <2> QED BY <1>3, <2>1, <2>2, <2>3 DEF IsSection
  <1>5. CASE kept # {}
    <2>1. kept \subseteq a..e /\ a \in Int /\ e \in Int
      OBVIOUS
    <2>2. l \in kept /\ \A i \in kept : i <= l
      <3> HIDE DEF kept
      <3> QED BY <1>2, <1>5, <2>1, LargestOf
    <2>3. l \in a..e /\ text[l] \notin White /\ l \in a - 1..n /\ l \in Nat /\ a \in Nat
      BY <2>2
    <2>4. \A i \in a..e : text[i] \notin White => i \in a..l
      <3>1. \A i \in a..e : text[i] \notin White => i <= l
        BY <2>2
      <3> QED BY <2>3, <3>1
    <2>5. s \in Span
      BY <1>3, <2>3 DEF Span
    <2> HIDE DEF kept
    <2>6. IsSection(s, text) /\ s.first = a /\ s.last <= e
      BY <1>3, <2>3, <2>5 DEF IsSection
    <2> QED BY <1>3, <2>4, <2>6 DEF Within
  <1> QED BY <1>4, <1>5

LEMMA MarkedAreSections ==
  ASSUME NEW text, Tidy(text), NEW markers, AreMarkers(markers), MarkersUsable(text, markers),
         Len(markers) # 0
  PROVE  Sections(MarkedSpans(text, markers), text)
  <1> PICK n, t, at, spans : /\ n = Len(markers) /\ t = Len(text)
                             /\ at = Positions(text, markers)
                             /\ spans = MarkedSpans(text, markers)
    OBVIOUS
  <1>1. n \in Nat \ {0} /\ t \in Nat \ {0} /\ DOMAIN markers = 1..n
    BY DEF AreMarkers, Tidy
  <1>2. \A k \in 1..n : at[k] \in 1..t /\ text[at[k]] \notin White
    BY MarkerIsFound
  <1>3. \A k \in 1..n : k > 1 => at[k - 1] <= at[k]
    BY MarkerIsFound
  <1>4. Len(at) = n
    <2>1. at = [k \in 1..n |-> at[k]]
      BY <1>1 DEF Positions
    <2>2. at \in [1..n -> 1..t]
      BY <1>2, <2>1
    <2> QED BY <1>1, <2>2
  <1> DEFINE End(k) == IF k < n THEN at[k + 1] - 1 ELSE t
  <1>5. spans = [k \in 1..n |-> Trimmed(text, [first |-> at[k], last |-> End(k)])]
    BY <1>1, <1>4 DEF MarkedSpans
  <1>6. ASSUME NEW k \in 1..n PROVE End(k) \in at[k] - 1..t
    <2>1. at[k] \in 1..t
      BY <1>2
    <2>2. CASE k < n
      <3>1. PICK m : m = k + 1
        OBVIOUS
      <3>2. m \in 1..n /\ m > 1 /\ m - 1 = k
        BY <1>1, <2>2, <3>1
      <3>3. at[m] \in 1..t /\ at[k] <= at[m]
        BY <1>2, <1>3, <3>2
      <3> QED BY <1>1, <2>1, <2>2, <3>1, <3>3
    <2>3. CASE ~(k < n)
      BY <1>1, <2>1, <2>3
    <2> QED BY <2>2, <2>3
  <1>7. ASSUME NEW k \in 1..n
        PROVE  /\ IsSection(spans[k], text) /\ spans[k].first = at[k] /\ spans[k].last <= End(k)
               /\ \A i \in at[k]..End(k) : text[i] \notin White => Within(i, spans[k])
    <2>1. PICK a, e, s : a = at[k] /\ e = End(k) /\ s = spans[k]
      OBVIOUS
    <2>2. a \in 1..t /\ text[a] \notin White /\ e \in a - 1..t
      <3> HIDE DEF End
      <3> QED BY <1>2, <1>6, <2>1
    <2>3. s = Trimmed(text, [first |-> a, last |-> e])
      BY <1>5, <2>1
    <2>4. /\ IsSection(s, text) /\ s.first = a /\ s.last <= e
          /\ \A i \in a..e : text[i] \notin White => Within(i, s)
      BY ONLY t = Len(text), <1>1, <2>2, <2>3, TrimmedIsSection
    <2> HIDE DEF End
    <2> QED BY <2>1, <2>4
  <1>8. spans \in Seq(Span) /\ Len(spans) = n
    <2>1. spans = [k \in 1..n |-> spans[k]]
      BY <1>5
    <2>2. \A k \in 1..n : spans[k] \in Span
      BY <1>7 DEF IsSection
    <2>3. spans \in [1..n -> Span] /\ n \in Nat
      BY <1>1, <2>1, <2>2
    <2> QED BY ONLY <2>3
  <1>9. ASSUME NEW k \in 1..n, NEW m \in 1..n, k < m
        PROVE  spans[k].last < spans[m].first
    <2> DEFINE Beyond == {j \in 0..n : j > k => at[k + 1] <= at[j]}
    <2>1. 0..n \subseteq Beyond
      <3>1. 0 \in Beyond
        BY <1>1
      <3>2. ASSUME NEW j \in 1..n, j - 1 \in Beyond PROVE j \in Beyond
        <4>1. SUFFICES ASSUME j > k PROVE at[k + 1] <= at[j]
          BY <1>1
        <4>2. CASE j = k + 1
          <5>1. at[j] \in Int
            BY <1>2
          <5> QED BY <4>2, <5>1
        <4>3. CASE j # k + 1
          <5>1. j - 1 > k /\ j > 1 /\ k + 1 \in 1..n /\ j - 1 \in 1..n
            BY <1>1, <4>1, <4>3
          <5>2. PICK a, b, c : a = at[k + 1] /\ b = at[j - 1] /\ c = at[j]
            OBVIOUS
          <5>3. a \in Int /\ b \in Int /\ c \in Int /\ b <= c
            BY <1>2, <1>3, <5>1, <5>2
          <5>4. a <= b
            BY <3>2, <5>1, <5>2
          <5> QED BY <5>2, <5>3, <5>4
        <4> QED BY <4>2, <4>3
      <3> HIDE DEF Beyond
      <3> QED BY <1>1, <3>1, <3>2, EveryRound
    <2>2. m \in 0..n /\ m > k /\ k < n /\ k + 1 \in 1..n
      BY <1>1, <1>9
    <2>3. PICK a, b, l : a = at[k + 1] /\ b = at[m] /\ l = spans[k].last
      OBVIOUS
    <2>4. a <= b /\ a \in Int /\ b \in Int
      BY <1>2, <2>1, <2>2, <2>3
    <2>5. l \in Int /\ l <= a - 1
      <3>1. l <= End(k) /\ End(k) = a - 1
        BY <1>7, <2>2, <2>3
      <3>2. l \in Int
        BY <1>7, <2>3 DEF IsSection, Span
      <3> QED BY <3>1, <3>2
    <2>6. spans[m].first = b
      BY <1>7, <2>3
    <2> QED BY <2>3, <2>4, <2>5, <2>6
  <1>10. ASSUME NEW i \in spans[1].first..t, text[i] \notin White PROVE Covered(i, spans)
    <2> DEFINE begun == {k \in 1..n : at[k] <= i}
    <2>1. 1 \in begun
      <3>1. 1 \in 1..n
        BY <1>1
      <3>2. spans[1].first = at[1] /\ at[1] \in 1..t
        BY <1>2, <1>7, <3>1
      <3> QED BY <3>1, <3>2
    <2>2. begun \subseteq 1..n /\ 1 \in Int /\ n \in Int
      BY <1>1
    <2>3. PICK k : k \in begun /\ \A m \in begun : m <= k
      <3> HIDE DEF begun
      <3> QED BY <2>1, <2>2, LargestOf
    <2>4. k \in 1..n /\ at[k] <= i /\ at[k] \in 1..t /\ i \in Int
      <3>1. i \in Int
        OBVIOUS
      <3> QED BY <1>2, <2>3, <3>1
    <2>5. i \in at[k]..End(k)
      <3>1. CASE k < n
        <4>1. k + 1 \in 1..n /\ ~(k + 1 <= k)
          BY <1>1, <2>4, <3>1
        <4>2. k + 1 \notin begun
          BY <2>3, <4>1
        <4>3. PICK b : b = at[k + 1]
          OBVIOUS
        <4>4. b \in Int /\ ~(b <= i)
          BY <1>2, <4>1, <4>2, <4>3
        <4>5. End(k) = b - 1
          BY <3>1, <4>3
        <4> HIDE DEF End
        <4> QED BY <2>4, <4>4, <4>5
      <3>2. CASE ~(k < n)
        BY <2>4, <3>2
      <3> QED BY <3>1, <3>2
    <2>6. Within(i, spans[k])
      <3> HIDE DEF End
      <3> QED BY <1>7, <1>10, <2>4, <2>5
    <2> QED BY <1>8, <2>4, <2>6 DEF Covered
  <1>11. \A k \in 1..n : IsSection(spans[k], text)
    BY <1>7
  <1>12. Sections(spans, text)
    BY <1>1, <1>8, <1>9, <1>10, <1>11 DEF Sections
  <1> QED BY <1>12

-----------------------------------------------------------------------------
(* THE CHUNKS OF A SECTION.                                                *)

(* Its sentences; an empty section has none.                               *)
LEMMA SentencesCut ==
  ASSUME NEW text, Tidy(text), NEW section, IsSection(section, text)
  PROVE  Cuts(Sentences(text, section), text, section.first, section.last, Len(text))
  <1> PICK n, a, b, sents : /\ n = Len(text) /\ a = section.first /\ b = section.last
                            /\ sents = Sentences(text, section)
    OBVIOUS
  <1> DEFINE cuts == {i \in a + 1..b : text[i] \in White /\ text[i - 1] = "."}
             E == {i \in a..b : i + 1 \in cuts \/ i = b}
             ends == InOrder(E)
  <1>1. /\ n \in Nat \ {0} /\ a \in 1..n /\ b \in a - 1..n
        /\ a <= b => text[a] \notin White /\ text[b] \notin White
        /\ \A i \in 1..n - 1 : text[i] \notin White \/ text[i + 1] \notin White
    BY DEF IsSection, Tidy
  <1>2. sents = [k \in DOMAIN ends |-> [first |-> IF k = 1 THEN a ELSE ends[k - 1] + 2,
                                        last |-> ends[k]]]
    BY DEF Sentences
  <1>3. \A i \in E : i \in a..b /\ (i = b \/ (i + 1 \in a + 1..b /\ text[i + 1] \in White))
    OBVIOUS
  <1>4. a <= b => b \in E
    BY <1>1
  <1>5. E \subseteq 1..n
    <2>1. \A i \in a..b : i \in 1..n
      BY <1>1
    <2> QED BY <2>1
  <1> HIDE DEF E
  <1>6. Lists(ends, E)
    <2>1. n \in Nat
      BY <1>1
    <2> QED BY <1>5, <2>1, PositionsInOrder
  <1> HIDE DEF ends
  <1> PICK m : m = Len(ends)
    OBVIOUS
  <1>7. /\ DOMAIN ends = 1..m /\ m \in Nat
        /\ \A k \in 1..m : ends[k] \in E
        /\ \A k, j \in 1..m : k < j => ends[k] < ends[j]
        /\ \A i \in E : \E k \in 1..m : ends[k] = i
    BY <1>6 DEF Lists
  (* The characters at the end of a sentence and behind it.                *)
  <1>8. ASSUME NEW k \in 1..m
        PROVE  /\ ends[k] \in a..b /\ a <= b /\ text[ends[k]] \notin White
               /\ ends[k] # b => /\ text[ends[k] + 1] \in White /\ ends[k] + 2 \in a..b
                                 /\ text[ends[k] + 2] \notin White
    <2>1. PICK i : i = ends[k]
      OBVIOUS
    <2>2. i \in a..b /\ (i = b \/ (i + 1 \in a + 1..b /\ text[i + 1] \in White))
      BY <1>3, <1>7, <2>1
    <2>3. a <= b /\ text[b] \notin White
      BY <1>1, <2>2
    <2>4. CASE i = b
      BY <2>1, <2>2, <2>3, <2>4
    <2>5. CASE i # b
      <3>1. i + 1 \in a + 1..b /\ text[i + 1] \in White /\ i + 1 # b
        BY <2>2, <2>3, <2>5
      <3>2. i \in 1..n - 1 /\ i + 1 \in 1..n - 1 /\ (i + 1) + 1 = i + 2 /\ i + 2 \in a..b
        BY ONLY <1>1, <2>2, <3>1
      <3>3. text[i] \notin White /\ text[i + 2] \notin White
        BY <1>1, <3>1, <3>2
      <3> QED BY <2>1, <2>2, <2>3, <3>1, <3>2, <3>3
    <2> QED BY <2>4, <2>5
  <1>9. ASSUME NEW k \in 1..m, k # 1
        PROVE  k - 1 \in 1..m /\ ends[k - 1] < ends[k] /\ ends[k - 1] # b
    <2>1. k - 1 \in 1..m /\ k - 1 < k
      BY <1>7, <1>9
    <2>2. ends[k - 1] < ends[k]
      BY <1>7, <2>1
    <2>3. PICK x, y : x = ends[k - 1] /\ y = ends[k]
      OBVIOUS
    <2>4. x \in a..b /\ y \in a..b /\ x < y
      BY <1>8, <2>1, <2>2, <2>3
    <2>5. x # b
      BY <1>1, <2>4
    <2> QED BY <2>1, <2>2, <2>3, <2>5
  <1>10. ASSUME NEW k \in 1..m
         PROVE  /\ sents[k] = [first |-> sents[k].first, last |-> sents[k].last]
                /\ sents[k].last = ends[k] /\ sents[k].first \in a..b /\ sents[k].first <= ends[k]
                /\ text[sents[k].first] \notin White
                /\ k = 1 => sents[k].first = a
                /\ k # 1 => sents[k].first = ends[k - 1] + 2
    <2>1. sents[k] = [first |-> IF k = 1 THEN a ELSE ends[k - 1] + 2, last |-> ends[k]]
      BY <1>2, <1>7
    <2>2. PICK y : y = ends[k]
      OBVIOUS
    <2>3. y \in a..b /\ a <= b /\ text[y] \notin White
      BY <1>8, <2>2
    <2>4. sents[k] = [first |-> sents[k].first, last |-> sents[k].last]
      <3>1. PICK u : u = IF k = 1 THEN a ELSE ends[k - 1] + 2
        OBVIOUS
      <3>2. sents[k] = [first |-> u, last |-> y]
        BY <2>1, <2>2, <3>1
      <3> QED BY ONLY <3>2
    <2>5. CASE k = 1
      <3>1. sents[k].first = a /\ sents[k].last = y /\ a \in a..b /\ text[a] \notin White /\ a <= y
        BY <1>1, <2>1, <2>2, <2>3, <2>5
      <3> QED BY <2>2, <2>3, <2>5, <2>4, <3>1
    <2>6. CASE k # 1
      <3>1. PICK x : x = ends[k - 1]
        OBVIOUS
      <3>2. /\ x \in a..b /\ x < y /\ text[x + 1] \in White /\ x + 2 \in a..b
            /\ text[x + 2] \notin White
        BY <1>8, <1>9, <2>2, <2>6, <3>1
      <3>3. y # x + 1
        BY <2>3, <3>2
      <3>4. x + 2 <= y
        BY <1>1, <2>3, <3>2, <3>3
      <3>5. sents[k].first = x + 2 /\ sents[k].last = y
        BY <2>1, <2>2, <2>6, <3>1
      <3> QED BY <2>2, <2>6, <2>4, <3>1, <3>2, <3>4, <3>5
    <2> QED BY <2>5, <2>6
  <1>11. ASSUME NEW k \in 1..m
         PROVE  Piece(sents[k], text, n) /\ a <= sents[k].first /\ sents[k].last <= b
    <2>1. PICK f, l, s : f = sents[k].first /\ l = sents[k].last /\ s = sents[k]
      OBVIOUS
    <2>2. f \in a..b /\ l \in a..b /\ f <= l /\ text[f] \notin White /\ text[l] \notin White
          /\ l = ends[k]
      BY <1>8, <1>10, <2>1
    <2>3. s = [first |-> f, last |-> l]
      BY <1>10, <2>1
    <2>4. f \in 1..n /\ l \in 1..n /\ l - f < n /\ f \in Nat /\ l \in Nat /\ a <= f /\ l <= b
      BY ONLY <1>1, <2>2
    <2>5. s \in Span
      BY <2>3, <2>4 DEF Span
    <2> QED BY <2>1, <2>2, <2>4, <2>5 DEF Piece
  <1>12. sents \in Seq(Span) /\ Len(sents) = m
    <2>1. sents = [k \in 1..m |-> sents[k]]
      BY <1>2, <1>7
    <2>2. \A k \in 1..m : sents[k] \in Span
      BY <1>11 DEF Piece
    <2>3. sents \in [1..m -> Span] /\ m \in Nat
      BY <1>7, <2>1, <2>2
    <2> QED BY ONLY <2>3
  <1>13. ASSUME NEW k \in 1..m, NEW j \in 1..m, k < j
         PROVE  sents[k].last < sents[j].first
    <2>1. j # 1 /\ j - 1 \in 1..m /\ (k = j - 1 \/ k < j - 1)
      BY <1>7, <1>13
    <2>2. PICK x, y : x = ends[k] /\ y = ends[j - 1]
      OBVIOUS
    <2>3. x \in a..b /\ y \in a..b
      BY <1>8, <2>1, <2>2
    <2>4. x <= y
      <3>1. CASE k = j - 1
        BY <2>2, <2>3, <3>1
      <3>2. CASE k < j - 1
        <4>1. ends[k] < ends[j - 1]
          BY <1>7, <2>1, <3>2
        <4> QED BY <2>2, <2>3, <4>1
      <3> QED BY <2>1, <3>1, <3>2
    <2>5. sents[k].last = x /\ sents[j].first = y + 2
      BY <1>10, <2>1, <2>2
    <2> QED BY <2>3, <2>4, <2>5
  <1>14. ASSUME NEW i \in a..b, text[i] \notin White PROVE Covered(i, sents)
    <2> DEFINE late == {k \in 1..m : i <= ends[k]}
    <2>1. late # {}
      <3>1. a <= b
        BY <1>1
      <3>2. PICK k \in 1..m : ends[k] = b
        BY <1>4, <1>7, <3>1
      <3>3. i <= b
        BY <1>1
      <3> QED BY <3>2, <3>3
    <2>2. late \subseteq Nat
      BY <1>7
    <2>3. PICK k \in late : \A j \in late : k <= j
      <3> HIDE DEF late
      <3> QED BY <2>1, <2>2, NatLeast
    <2>4. k \in 1..m /\ i <= ends[k]
      BY <2>3
    <2>5. PICK f, y : f = sents[k].first /\ y = ends[k]
      OBVIOUS
    <2>6. y \in a..b /\ f \in a..b /\ i <= y /\ sents[k].last = y
      BY <1>8, <1>10, <2>4, <2>5
    <2>7. f <= i
      <3>1. CASE k = 1
        <4>1. f = a
          BY <1>10, <2>4, <2>5, <3>1
        <4> QED BY <1>1, <4>1
      <3>2. CASE k # 1
        <4>1. PICK x : x = ends[k - 1]
          OBVIOUS
        <4>2. k - 1 \in 1..m /\ ~(k <= k - 1)
          BY <1>7, <2>4, <3>2
        <4>3. k - 1 \notin late
          BY <2>3, <4>2
        <4>4. ~(i <= x) /\ x \in a..b /\ text[x + 1] \in White
          BY <1>8, <1>9, <2>4, <3>2, <4>1, <4>2, <4>3
        <4>5. f = x + 2
          BY <1>10, <2>4, <2>5, <3>2, <4>1
        <4>6. i # x + 1
          BY <1>14, <4>4
        <4> QED BY <1>1, <4>4, <4>5, <4>6
      <3> QED BY <3>1, <3>2
    <2>8. Within(i, sents[k])
      BY <2>5, <2>6, <2>7 DEF Within
    <2> QED BY <1>12, <2>4, <2>8 DEF Covered
  <1>15. Cuts(sents, text, a, b, n)
    BY <1>7, <1>11, <1>12, <1>13, <1>14 DEF Cuts
  <1> QED BY <1>15

(* The chunks of n sentences overlap, and leave none out.                  *)
AreSizes(s) == s.size \in Nat \ {0} /\ s.overlap \in 0..s.size - 1

LEMMA TimesTyped == ASSUME NEW a \in Nat, NEW b \in Nat PROVE a * b \in Nat
  OBVIOUS

LEMMA TimesOneMore == ASSUME NEW a \in Nat, NEW b \in Nat \ {0} PROVE a * b = a * (b - 1) + a
  OBVIOUS

LEMMA TimesLarger == ASSUME NEW a \in Nat \ {0}, NEW b \in Nat PROVE a * b >= b
  <1> DEFINE Good == {k \in 0..b : a * k >= k}
  <1>1. 0 \in Good
    OBVIOUS
  <1>2. ASSUME NEW k \in 1..b, k - 1 \in Good PROVE k \in Good
    <2>1. k \in Nat \ {0} /\ k - 1 \in Nat
      OBVIOUS
    <2>2. PICK x, y : x = a * (k - 1) /\ y = a * k
      OBVIOUS
    <2>3. x \in Nat /\ y = x + a /\ x >= k - 1
      BY <1>2, <2>1, <2>2, TimesTyped, TimesOneMore
    <2>4. y >= k
      BY <2>3
    <2> QED BY <2>2, <2>4
  <1>3. 0..b \subseteq Good
    <2> HIDE DEF Good
    <2> QED BY <1>1, <1>2, EveryRound
  <1> QED BY <1>3

LEMMA StartsCover ==
  ASSUME NEW n, n \in Nat, NEW s, AreSizes(s), NEW S, S = Starts(n, s)
  PROVE  /\ S \subseteq 1..n
         /\ \A j \in 1..n : \E x \in S : x <= j /\ j <= x + s.size - 1
  <1> PICK size, overlap, step : size = s.size /\ overlap = s.overlap /\ step = size - overlap
    OBVIOUS
  <1>1. size \in Nat \ {0} /\ overlap \in Nat /\ step \in Nat \ {0} /\ step + overlap = size
    BY DEF AreSizes
  <1>2. S = {x \in {1 + step * k : k \in 0..n - 1} : x = 1 \/ x + overlap <= n}
    BY DEF Starts
  <1>3. \A k \in 0..n - 1 : step * k \in Nat
    BY <1>1, TimesTyped
  <1>4. S \subseteq 1..n
    <2> SUFFICES ASSUME NEW x \in S PROVE x \in 1..n
      OBVIOUS
    <2>1. PICK k \in 0..n - 1 : x = 1 + step * k
      BY <1>2
    <2>2. PICK y : y = step * k
      OBVIOUS
    <2>3. y \in Nat /\ x = 1 + y
      BY <1>3, <2>1, <2>2
    <2>4. x = 1 \/ x + overlap <= n
      BY <1>2
    <2> QED BY <1>1, <2>3, <2>4
  <1>5. ASSUME NEW j \in 1..n PROVE \E x \in S : x <= j /\ j <= x + size - 1
    <2> DEFINE reach == {k \in 0..n - 1 : j <= step * k + size}
    <2>1. n - 1 \in reach
      <3>1. PICK y : y = step * (n - 1)
        OBVIOUS
      <3>2. n - 1 \in Nat /\ y >= n - 1 /\ y \in Nat
        <4>1. n - 1 \in Nat
          OBVIOUS
        <4> QED BY <1>1, <3>1, <4>1, TimesLarger, TimesTyped
      <3>3. j <= y + size
        BY <1>1, <3>2
      <3> QED BY <3>1, <3>2, <3>3
    <2>2. reach \subseteq Nat
      OBVIOUS
    <2>3. PICK k \in reach : \A m \in reach : k <= m
      <3> HIDE DEF reach
      <3> QED BY <2>1, <2>2, NatLeast
    <2>4. PICK y : y = step * k
      OBVIOUS
    <2>5. k \in 0..n - 1 /\ y \in Nat /\ j <= y + size
      BY <1>3, <2>3, <2>4
    <2>6. CASE k = 0
      <3>1. y = 0
        BY <1>1, <2>4, <2>6
      <3>2. 1 \in S
        BY <1>2, <2>4, <2>5, <3>1
      <3>3. 1 <= j /\ j <= 1 + size - 1
        BY <1>1, <2>5, <3>1
      <3> QED BY <3>2, <3>3
    <2>7. CASE k # 0
      <3>1. PICK z : z = step * (k - 1)
        OBVIOUS
      <3>2. k \in Nat \ {0} /\ k - 1 \in 0..n - 1 /\ ~(k <= k - 1)
        BY <2>5, <2>7
      <3>3. z \in Nat /\ y = z + step
        BY <1>1, <1>3, <2>4, <3>1, <3>2, TimesOneMore
      <3>4. ~(j <= z + size)
        BY <2>3, <3>1, <3>2
      <3>5. 1 + y + overlap <= n /\ 1 + y <= j /\ j <= (1 + y) + size - 1
        BY <1>1, <2>5, <3>3, <3>4
      <3>6. 1 + y \in S
        BY <1>2, <2>4, <2>5, <3>5
      <3> QED BY <3>5, <3>6
    <2> QED BY <2>6, <2>7
  <1> QED BY <1>4, <1>5

(* The pages of a span are those from the page of its first character to   *)
(* the page of its last.                                                   *)
IsPageOf(i, number, pages, bounds) ==
    \E p \in 1..Len(pages) : Within(i, bounds[p]) /\ bounds[p].number = number

LEMMA WordIsOnPage ==
  ASSUME NEW pages, Numbered(pages), Len(pages) # 0, NEW bounds, NEW text,
         Placed(pages, bounds, text), NEW i, i \in 1..Len(text), text[i] \notin White
  PROVE  \E p \in 1..Len(pages) : Within(i, bounds[p])
  <1>1. text[i] # "\n"
    BY DEF White
  <1> QED BY <1>1, PageOrBreak

LEMMA PagesOfSpan ==
  ASSUME NEW pages, Numbered(pages), Len(pages) # 0, NEW bounds, NEW text,
         Placed(pages, bounds, text), NEW span, NEW max, Piece(span, text, max),
         NEW S, S = Pages(bounds, span)
  PROVE  /\ IsPageOf(span.first, Min(S), pages, bounds)
         /\ IsPageOf(span.last, Max(S), pages, bounds)
         /\ Min(S) \in Nat /\ Max(S) \in Nat
  <1> PICK n, a, b : n = Len(pages) /\ a = span.first /\ b = span.last
    OBVIOUS
  <1>1. /\ a \in 1..Len(text) /\ b \in 1..Len(text) /\ a <= b
        /\ text[a] \notin White /\ text[b] \notin White
    BY DEF Piece
  <1>2. PICK p \in 1..n : Within(a, bounds[p])
    BY <1>1, WordIsOnPage
  <1>3. PICK q \in 1..n : Within(b, bounds[q])
    BY <1>1, WordIsOnPage
  <1>4. DOMAIN bounds = 1..n /\ n \in Nat
    BY DEF Placed, Numbered
  <1>5. \A r \in 1..n : /\ bounds[r].first \in 1..Len(text) /\ bounds[r].last \in 1..Len(text)
                        /\ bounds[r].first <= bounds[r].last
                        /\ bounds[r].number = pages[r].number /\ bounds[r].number \in Nat
    BY PlaceFacts
  <1>6. S = {bounds[r].number : r \in {r \in 1..n : a <= bounds[r].last /\ b >= bounds[r].first}}
    BY <1>4 DEF Pages
  <1>7. \A r, t \in 1..n : r < t => bounds[r].last + 1 < bounds[t].first
    BY PagesApart
  <1>8. \A r, t \in 1..n : r < t => bounds[r].number < bounds[t].number
    <2>1. \A r, t \in 1..n : r < t => pages[r].number < pages[t].number
      BY DEF Numbered
    <2> QED BY <1>5, <2>1
  <1>9. ASSUME NEW r \in 1..n, a <= bounds[r].last, b >= bounds[r].first
        PROVE  bounds[p].number <= bounds[r].number /\ bounds[r].number <= bounds[q].number
    <2>1. PICK f, l, u, v : /\ f = bounds[r].first /\ l = bounds[r].last
                            /\ u = bounds[p].first /\ v = bounds[q].last
      OBVIOUS
    <2>2. f \in Int /\ l \in Int /\ u \in Int /\ v \in Int /\ u <= a /\ b <= v /\ a <= l /\ f <= b
          /\ a \in Int /\ b \in Int
      <3>1. f \in Int /\ l \in Int
        BY <1>5, <2>1
      <3>2. u \in Int /\ v \in Int
        BY <1>5, <2>1
      <3>3. u <= a
        BY <1>2, <2>1 DEF Within
      <3>4. b <= v
        BY <1>3, <2>1 DEF Within
      <3>5. a <= l /\ f <= b
        BY <1>1, <1>9, <2>1, <3>1
      <3>6. a \in Int /\ b \in Int
        BY <1>1
      <3> QED BY <3>1, <3>2, <3>3, <3>4, <3>5, <3>6
    <2>3. ~(r < p)
      <3>1. SUFFICES ASSUME r < p PROVE FALSE
        OBVIOUS
      <3>2. l + 1 < u
        BY <1>7, <2>1, <3>1
      <3> QED BY <2>2, <3>2
    <2>4. ~(q < r)
      <3>1. SUFFICES ASSUME q < r PROVE FALSE
        OBVIOUS
      <3>2. v + 1 < f
        BY <1>7, <2>1, <3>1
      <3> QED BY <2>2, <3>2
    <2>5. bounds[p].number <= bounds[r].number
      <3>1. CASE p = r
        BY <1>5, <3>1
      <3>2. CASE p < r
        BY <1>5, <1>8, <3>2
      <3> QED BY <2>3, <3>1, <3>2
    <2>6. bounds[r].number <= bounds[q].number
      <3>1. CASE q = r
        BY <1>5, <3>1
      <3>2. CASE r < q
        BY <1>5, <1>8, <3>2
      <3> QED BY <2>4, <3>1, <3>2
    <2> QED BY <2>5, <2>6
  <1>10. PICK x, y : x = bounds[p].number /\ y = bounds[q].number
    OBVIOUS
  <1>11. x \in Nat /\ y \in Nat /\ x \in S /\ y \in S
    <2>1. x \in Nat /\ y \in Nat
      BY <1>5, <1>10
    <2>2. a <= bounds[p].last /\ b >= bounds[p].first
      <3>1. PICK f, l : f = bounds[p].first /\ l = bounds[p].last
        OBVIOUS
      <3>2. f \in Int /\ l \in Int /\ a \in f..l
        BY <1>2, <1>5, <3>1 DEF Within
      <3> QED BY <1>1, <3>1, <3>2
    <2>3. a <= bounds[q].last /\ b >= bounds[q].first
      <3>1. PICK f, l : f = bounds[q].first /\ l = bounds[q].last
        OBVIOUS
      <3>2. f \in Int /\ l \in Int /\ b \in f..l
        BY <1>3, <1>5, <3>1 DEF Within
      <3> QED BY <1>1, <3>1, <3>2
    <2> QED BY <1>6, <1>10, <2>1, <2>2, <2>3
  <1>12. S \subseteq x..y
    <2>1. \A r \in 1..n : a <= bounds[r].last /\ b >= bounds[r].first => bounds[r].number \in x..y
      <3> SUFFICES ASSUME NEW r \in 1..n, a <= bounds[r].last, b >= bounds[r].first
                   PROVE  bounds[r].number \in x..y
        OBVIOUS
      <3>1. bounds[r].number \in Nat /\ x <= bounds[r].number /\ bounds[r].number <= y
        BY <1>5, <1>9, <1>10
      <3> QED BY <1>11, <3>1
    <2> QED BY <1>6, <2>1
  <1>13. x \in Int /\ y \in Int /\ S # {}
    BY ONLY <1>11
  <1>14. Min(S) = x
    <2>1. Min(S) \in S /\ \A z \in S : Min(S) <= z
      BY ONLY <1>12, <1>13, SmallestOf
    <2>2. Min(S) \in x..y /\ Min(S) <= x
      BY <1>11, <1>12, <2>1
    <2> QED BY ONLY <1>11, <2>2
  <1>15. Max(S) = y
    <2>1. Max(S) \in S /\ \A z \in S : z <= Max(S)
      BY ONLY <1>12, <1>13, LargestOf
    <2>2. Max(S) \in x..y /\ y <= Max(S)
      BY <1>11, <1>12, <2>1
    <2> QED BY ONLY <1>11, <2>2
  <1> QED BY <1>2, <1>3, <1>10, <1>11, <1>14, <1>15 DEF IsPageOf

Chunk == [parent : Nat, span : Span, page_start : Nat, page_end : Nat]

IsChunk(chunk, pages, bounds, text, section) ==
    /\ chunk \in Chunk /\ Piece(chunk.span, text, Len(text))
    /\ section.first <= chunk.span.first /\ chunk.span.last <= section.last
    /\ IsPageOf(chunk.span.first, chunk.page_start, pages, bounds)
    /\ IsPageOf(chunk.span.last, chunk.page_end, pages, bounds)

(* The chunks of a section hold every word of it.                          *)
InAChunk(i, chunks) == \E c \in 1..Len(chunks) : Within(i, chunks[c].span)
AreChunks(chunks, parent, pages, bounds, text, section) ==
    /\ chunks \in Seq(Chunk) /\ Len(chunks) \in Nat
    /\ \A c \in 1..Len(chunks) : /\ IsChunk(chunks[c], pages, bounds, text, section)
                                 /\ chunks[c].parent = parent
    /\ \A i \in section.first..section.last : text[i] \notin White => InAChunk(i, chunks)

LEMMA ChunksOfSection ==
  ASSUME NEW pages, Numbered(pages), Len(pages) # 0, NEW bounds, NEW text,
         Placed(pages, bounds, text), NEW section, IsSection(section, text),
         NEW parent, parent \in Nat, NEW s, AreSizes(s)
  PROVE  AreChunks(ChunksOf(text, bounds, parent, section, s), parent, pages, bounds, text,
                   section)
  <1> PICK sents, n, chunks : /\ sents = Sentences(text, section) /\ n = Len(sents)
                              /\ chunks = ChunksOf(text, bounds, parent, section, s)
    OBVIOUS
  <1> DEFINE S == Starts(n, s)
             starts == InOrder(S)
             Top(x) == Min({x + s.size - 1, n})
             SpanAt(x) == [first |-> sents[x].first, last |-> sents[Top(x)].last]
             ChunkAt(x) == [parent |-> parent, span |-> SpanAt(x),
                            page_start |-> Min(Pages(bounds, SpanAt(x))),
                            page_end |-> Max(Pages(bounds, SpanAt(x)))]
  <1>1. PICK a, b, t : a = section.first /\ b = section.last /\ t = Len(text)
    OBVIOUS
  <1>2. Cuts(sents, text, a, b, t)
    <2>1. Tidy(text)
      BY JoinedIsTidy
    <2> QED BY <1>1, <2>1, SentencesCut
  <1>3. /\ n \in Nat
        /\ \A k \in 1..n : /\ Piece(sents[k], text, t)
                           /\ a <= sents[k].first /\ sents[k].last <= b
        /\ \A k, m \in 1..n : k < m => sents[k].last < sents[m].first
        /\ \A i \in a..b : text[i] \notin White => Covered(i, sents)
    BY <1>2 DEF Cuts
  <1>4. S \subseteq 1..n /\ \A j \in 1..n : \E x \in S : x <= j /\ j <= x + s.size - 1
    BY <1>3, StartsCover
  <1>5. chunks = [k \in DOMAIN starts |-> ChunkAt(starts[k])]
    BY DEF ChunksOf
  <1> HIDE DEF S
  <1>6. Lists(starts, S)
    BY <1>3, <1>4, PositionsInOrder
  <1> HIDE DEF starts
  <1> PICK m : m = Len(starts)
    OBVIOUS
  <1>7. /\ DOMAIN starts = 1..m /\ m \in Nat
        /\ \A k \in 1..m : starts[k] \in S /\ starts[k] \in 1..n
        /\ \A x \in S : \E k \in 1..m : starts[k] = x
    BY <1>4, <1>6 DEF Lists
  <1>8. ASSUME NEW x \in 1..n
        PROVE  /\ Top(x) \in x..n
               /\ \A j \in x..n : j <= x + s.size - 1 => j <= Top(x)
    <2>1. PICK y, T : y = x + s.size - 1 /\ T = {y, n}
      OBVIOUS
    <2>2. y \in x..y /\ y \in Int
      BY <2>1 DEF AreSizes
    <2>3. T \subseteq x..y + n /\ T # {} /\ y + n \in Int /\ x \in Int
      BY ONLY x \in 1..n, <1>3, <2>1, <2>2
    <2>4. Min(T) \in T /\ \A z \in T : Min(T) <= z
      BY ONLY <2>3, SmallestOf
    <2>5. Top(x) = Min(T)
      BY <2>1
    <2> HIDE DEF Top
    <2>6. PICK l : l = Top(x)
      OBVIOUS
    <2>7. (l = y \/ l = n) /\ l <= y /\ l <= n
      BY <2>1, <2>4, <2>5, <2>6
    <2>8. l \in x..n /\ \A j \in x..n : j <= y => j <= l
      BY ONLY x \in 1..n, <1>3, <2>2, <2>7
    <2> QED BY <2>1, <2>6, <2>8
  <1> HIDE DEF Top
  (* From the first character of a sentence to the last of a later one.    *)
  <1>9. ASSUME NEW x \in 1..n, NEW y \in x..n
        PROVE  sents[x].first <= sents[y].first /\ sents[x].last <= sents[y].last
    <2>1. PICK f, l, g, r : /\ f = sents[x].first /\ l = sents[x].last
                            /\ g = sents[y].first /\ r = sents[y].last
      OBVIOUS
    <2>2. y \in 1..n
      BY <1>3
    <2>3. f \in Int /\ l \in Int /\ f <= l
      BY <1>3, <2>1 DEF Piece, Span
    <2>4. g \in Int /\ r \in Int /\ g <= r
      BY <1>3, <2>1, <2>2 DEF Piece, Span
    <2>5. CASE x = y
      BY <2>1, <2>3, <2>4, <2>5
    <2>6. CASE x # y
      <3>1. l < g
        <4>1. x < y
          BY <2>6
        <4> QED BY <1>3, <2>1, <2>2, <4>1
      <3> QED BY <2>1, <2>3, <2>4, <3>1
    <2> QED BY <2>5, <2>6
  <1>10. ASSUME NEW x \in 1..n
         PROVE  /\ Piece(SpanAt(x), text, t) /\ a <= SpanAt(x).first /\ SpanAt(x).last <= b
                /\ \A j \in x..n : j <= x + s.size - 1 =>
                      \A i : Within(i, sents[j]) => Within(i, SpanAt(x))
    <2>1. PICK y, f, l, span : /\ y = Top(x) /\ f = sents[x].first /\ l = sents[y].last
                               /\ span = SpanAt(x)
      OBVIOUS
    <2>2. y \in x..n /\ y \in 1..n
      BY <1>3, <1>8, <2>1
    <2>3. Piece(sents[x], text, t) /\ a <= sents[x].first
      BY <1>3
    <2>4. Piece(sents[y], text, t) /\ sents[y].last <= b
      BY <1>3, <2>2
    <2>5. f \in 1..t /\ f \in Nat /\ text[f] \notin White /\ a <= f
      BY <1>1, <2>1, <2>3 DEF Piece, Span
    <2>6. l \in 1..t /\ l \in Nat /\ text[l] \notin White /\ l <= b
      BY <1>1, <2>1, <2>4 DEF Piece, Span
    <2>7. f <= l
      <3>1. PICK g : g = sents[x].last
        OBVIOUS
      <3>2. g \in Int /\ f <= g
        BY <2>1, <2>3, <3>1 DEF Piece, Span
      <3>3. g <= l
        BY <1>9, <2>1, <2>2, <3>1
      <3> QED BY <2>5, <2>6, <3>2, <3>3
    <2>8. span = [first |-> f, last |-> l]
      BY <2>1
    <2>9. Piece(span, text, t) /\ a <= span.first /\ span.last <= b
      <3>1. span \in Span
        BY <2>5, <2>6, <2>8 DEF Span
      <3>2. l - f < t
        <4>1. t \in Nat
          BY <1>1 DEF Placed
        <4> QED BY ONLY <2>5, <2>6, <4>1
      <3>3. span.first = f /\ span.last = l
        BY <2>8
      <3> QED BY <1>1, <2>5, <2>6, <2>7, <3>1, <3>2, <3>3 DEF Piece
    <2>10. ASSUME NEW j \in x..n, j <= x + s.size - 1, NEW i, Within(i, sents[j])
           PROVE  Within(i, span)
      <3>1. j <= y
        BY <1>8, <2>1, <2>10
      <3>2. j \in 1..n /\ y \in j..n
        BY <1>3, <2>2, <3>1
      <3>3. PICK g, r : g = sents[j].first /\ r = sents[j].last
        OBVIOUS
      <3>4. g \in Int /\ r \in Int /\ i \in g..r
        <4>1. Piece(sents[j], text, t)
          BY <1>3, <3>2
        <4>2. g \in Int /\ r \in Int
          BY <3>3, <4>1 DEF Piece, Span
        <4>3. i \in g..r
          BY <2>10, <3>3 DEF Within
        <4> QED BY <4>2, <4>3
      <3>5. f <= g
        BY <1>9, <2>1, <3>3
      <3>6. r <= l
        BY <1>9, <2>1, <3>2, <3>3
      <3> QED BY <2>5, <2>6, <2>8, <3>4, <3>5, <3>6 DEF Within
    <2> HIDE DEF SpanAt
    <2> QED BY <2>1, <2>9, <2>10
  <1>11. ASSUME NEW x \in 1..n
         PROVE  IsChunk(ChunkAt(x), pages, bounds, text, section) /\ ChunkAt(x).parent = parent
                /\ ChunkAt(x).span = SpanAt(x)
    <2>1. PICK span, c : span = SpanAt(x) /\ c = ChunkAt(x)
      OBVIOUS
    <2>2. Piece(span, text, t) /\ a <= span.first /\ span.last <= b
      <3> HIDE DEF SpanAt
      <3> QED BY <1>10, <2>1
    <2>3. PICK P : P = Pages(bounds, span)
      OBVIOUS
    <2>4. /\ IsPageOf(span.first, Min(P), pages, bounds)
          /\ IsPageOf(span.last, Max(P), pages, bounds)
          /\ Min(P) \in Nat /\ Max(P) \in Nat
      BY <2>2, <2>3, PagesOfSpan
    <2>5. c = [parent |-> parent, span |-> span, page_start |-> Min(P), page_end |-> Max(P)]
      BY <2>1, <2>3
    <2>6. span \in Span
      BY <2>2 DEF Piece
    <2> HIDE DEF ChunkAt, SpanAt
    <2>7. c \in Chunk
      BY <2>4, <2>5, <2>6 DEF Chunk
    <2> QED BY <1>1, <2>1, <2>2, <2>4, <2>5, <2>7 DEF IsChunk
  <1> HIDE DEF ChunkAt
  <1>12. ASSUME NEW k \in 1..m
         PROVE  /\ IsChunk(chunks[k], pages, bounds, text, section) /\ chunks[k].parent = parent
                /\ chunks[k].span = SpanAt(starts[k])
    <2>1. starts[k] \in 1..n /\ chunks[k] = ChunkAt(starts[k])
      BY <1>5, <1>7
    <2> HIDE DEF SpanAt
    <2> QED BY <1>11, <2>1
  <1>13. chunks \in Seq(Chunk) /\ Len(chunks) = m
    <2>1. chunks = [k \in 1..m |-> chunks[k]]
      BY <1>5, <1>7
    <2>2. \A k \in 1..m : chunks[k] \in Chunk
      BY <1>12 DEF IsChunk
    <2>3. chunks \in [1..m -> Chunk] /\ m \in Nat
      BY <1>7, <2>1, <2>2
    <2> QED BY ONLY <2>3
  <1>14. ASSUME NEW i \in a..b, text[i] \notin White PROVE InAChunk(i, chunks)
    <2>1. Covered(i, sents)
      BY <1>3, <1>14
    <2>2. PICK j \in 1..n : Within(i, sents[j])
      BY <2>1 DEF Covered
    <2>3. PICK x \in S : x <= j /\ j <= x + s.size - 1
      BY <1>4
    <2>4. PICK k \in 1..m : starts[k] = x
      BY <1>7
    <2>5. x \in 1..n /\ j \in x..n
      BY <1>4, <2>3
    <2>6. Within(i, SpanAt(x))
      <3> HIDE DEF SpanAt
      <3> QED BY <1>10, <2>2, <2>3, <2>5
    <2>7. Within(i, chunks[k].span)
      <3> HIDE DEF SpanAt
      <3> QED BY <1>12, <2>4, <2>6
    <2> QED BY <1>13, <2>7 DEF InAChunk
  <1>15. AreChunks(chunks, parent, pages, bounds, text, section)
    BY <1>1, <1>7, <1>12, <1>13, <1>14 DEF AreChunks
  <1> QED BY <1>15

-----------------------------------------------------------------------------
(* THE CHUNKS OF A DOCUMENT.                                               *)

InChunkOf(i, k, chunks) ==
    \E c \in 1..Len(chunks) : chunks[c].parent = k /\ Within(i, chunks[c].span)

AllChunks(chunks, sections, pages, bounds, text) ==
    /\ chunks \in Seq(Chunk) /\ Len(chunks) \in Nat \ {0}
    /\ \A c \in 1..Len(chunks) :
          /\ IsPageOf(chunks[c].span.first, chunks[c].page_start, pages, bounds)
          /\ IsPageOf(chunks[c].span.last, chunks[c].page_end, pages, bounds)
    /\ \A k \in 1..Len(sections) : \A i : Within(i, sections[k]) /\ text[i] \notin White =>
          InChunkOf(i, k, chunks)

LEMMA DocumentIsChunked ==
  ASSUME NEW pages, Numbered(pages), Len(pages) # 0, NEW bounds, NEW text,
         Placed(pages, bounds, text), NEW sections, Sections(sections, text),
         NEW s, AreSizes(s)
  PROVE  AllChunks(FlattenSeq([k \in DOMAIN sections |->
                                 ChunksOf(text, bounds, k, sections[k], s)]),
                   sections, pages, bounds, text)
  <1> DEFINE parts == [k \in DOMAIN sections |-> ChunksOf(text, bounds, k, sections[k], s)]
  <1> PICK n, chunks : n = Len(sections) /\ chunks = FlattenSeq(parts)
    OBVIOUS
  <1>1. /\ DOMAIN sections = 1..n /\ n \in Nat \ {0}
        /\ \A k \in 1..n : IsSection(sections[k], text)
        /\ \A i \in sections[1].first..Len(text) : text[i] \notin White => Covered(i, sections)
    BY DEF Sections
  <1>2. ASSUME NEW k \in 1..n
        PROVE  /\ parts[k] = ChunksOf(text, bounds, k, sections[k], s)
               /\ AreChunks(parts[k], k, pages, bounds, text, sections[k])
    <2>1. parts[k] = ChunksOf(text, bounds, k, sections[k], s)
      BY <1>1
    <2>2. PICK section : section = sections[k]
      OBVIOUS
    <2>3. IsSection(section, text) /\ k \in Nat
      BY <1>1, <2>2
    <2>4. AreChunks(ChunksOf(text, bounds, k, section, s), k, pages, bounds, text, section)
      BY <2>3, ChunksOfSection
    <2> HIDE DEF parts
    <2> QED BY <2>1, <2>2, <2>4
  <1>3. parts \in Seq(Seq(Chunk)) /\ Len(parts) = n
    <2>1. parts = [k \in 1..n |-> parts[k]]
      BY <1>1
    <2> HIDE DEF parts
    <2>2. \A k \in 1..n : parts[k] \in Seq(Chunk)
      BY <1>2 DEF AreChunks
    <2>3. parts \in [1..n -> Seq(Chunk)] /\ n \in Nat
      BY <1>1, <2>1, <2>2
    <2> QED BY ONLY <2>3
  <1> HIDE DEF parts
  <1>4. chunks \in Seq(Chunk) /\ \E end : IsFlat(chunks, end, parts)
    BY <1>3, FlatList
  <1>5. PICK end : IsFlat(chunks, end, parts)
    BY <1>4
  <1>6. /\ \A k \in 1..n : \A j \in 1..Len(parts[k]) :
              end[k - 1] + j \in 1..Len(chunks) /\ chunks[end[k - 1] + j] = parts[k][j]
        /\ \A i \in 1..Len(chunks) : \E k \in 1..n : \E j \in 1..Len(parts[k]) :
              i = end[k - 1] + j
    BY <1>3, <1>5 DEF IsFlat
  <1>7. ASSUME NEW c \in 1..Len(chunks)
        PROVE  /\ IsPageOf(chunks[c].span.first, chunks[c].page_start, pages, bounds)
               /\ IsPageOf(chunks[c].span.last, chunks[c].page_end, pages, bounds)
    <2>1. PICK k \in 1..n : \E j \in 1..Len(parts[k]) : c = end[k - 1] + j
      BY <1>6
    <2>2. PICK j \in 1..Len(parts[k]) : c = end[k - 1] + j
      BY <2>1
    <2>3. chunks[c] = parts[k][j]
      BY <1>6, <2>2
    <2>4. IsChunk(parts[k][j], pages, bounds, text, sections[k])
      BY <1>2 DEF AreChunks
    <2> QED BY <2>3, <2>4 DEF IsChunk
  <1>8. ASSUME NEW k \in 1..n, NEW i, Within(i, sections[k]), text[i] \notin White
        PROVE  InChunkOf(i, k, chunks)
    <2>1. InAChunk(i, parts[k])
      BY <1>2, <1>8 DEF AreChunks, Within
    <2>2. PICK j \in 1..Len(parts[k]) : Within(i, parts[k][j].span)
      BY <2>1 DEF InAChunk
    <2>3. parts[k][j].parent = k
      BY <1>2 DEF AreChunks
    <2>4. end[k - 1] + j \in 1..Len(chunks) /\ chunks[end[k - 1] + j] = parts[k][j]
      BY <1>6
    <2> QED BY <2>2, <2>3, <2>4 DEF InChunkOf
  (* The text ends with a word, which is in a section.                     *)
  <1>9. Len(chunks) \in Nat \ {0}
    <2>1. PICK t : t = Len(text)
      OBVIOUS
    <2>2. Tidy(text)
      BY JoinedIsTidy
    <2>3. t \in Nat \ {0} /\ text[t] \notin White
      BY <2>1, <2>2 DEF Tidy
    <2>4. sections[1].first \in 1..t
      <3>1. 1 \in 1..n
        BY <1>1
      <3> QED BY <1>1, <2>1, <3>1 DEF IsSection
    <2>5. t \in sections[1].first..t
      BY <2>3, <2>4
    <2>6. PICK k \in 1..n : Within(t, sections[k])
      BY <1>1, <2>1, <2>3, <2>5 DEF Covered
    <2>7. InChunkOf(t, k, chunks)
      BY <1>8, <2>3, <2>6
    <2>8. \E c \in 1..Len(chunks) : TRUE
      BY <2>7 DEF InChunkOf
    <2>9. Len(chunks) \in Nat
      BY <1>4
    <2> QED BY <2>8, <2>9
  <1>10. AllChunks(chunks, sections, pages, bounds, text)
    BY <1>4, <1>7, <1>8, <1>9 DEF AllChunks
  <1> QED BY <1>10 DEF parts

-----------------------------------------------------------------------------
(* THE INVARIANT: what each part of the state was computed from.           *)

Stages == {"none", "accepted", "unreadable", "parse_failed", "parsed", "sections", "chunked",
           "chunking_failed"}

UploadType ==
    upload \in [pc : Stages, raw : Seq(Seq(Characters)),
                requested : {"none", "auto", "generic_v1"} \cup DOMAIN Markers,
                markers : Seq(Seq(Characters)), pages : Seq(Page), max : Nat \ {0},
                sentences : SentenceSets \cup {NoUpload.sentences},
                sections : Seq(Span), chunks : Seq(Chunk)]

(* Markers that AUTO chose are in the text it searched.                    *)
MarkersChosen ==
    /\ AreMarkers(upload.markers)
    /\ upload.requested = "auto" /\ upload.markers # << >> =>
          MarkersUsable(SearchedText(upload.raw), upload.markers)

PagesExtracted ==
    upload.pc \in {"parsed", "sections", "chunked", "chunking_failed"} =>
        upload.pages = NormalizedPages(upload.raw) /\ upload.pages # << >>

SectionsCut ==
    upload.pc \in {"sections", "chunked"} =>
        IF upload.markers = << >> THEN upload.sections = ParentSpans(upload.pages, upload.max)
        ELSE /\ MarkersUsable(Joined(upload.pages), upload.markers)
             /\ upload.sections = MarkedSpans(Joined(upload.pages), upload.markers)

ChunksCut ==
    upload.pc = "chunked" =>
        upload.chunks = FlattenSeq([k \in DOMAIN upload.sections |->
                            ChunksOf(Joined(upload.pages), Boundaries(upload.pages), k,
                                     upload.sections[k], upload.sentences)])

AutoIsAdvisory == upload.requested = "auto" => upload.pc # "chunking_failed"

ChunkingInv ==
    UploadType /\ MarkersChosen /\ PagesExtracted /\ SectionsCut /\ ChunksCut /\ AutoIsAdvisory

LEMMA PickedMarkers ==
  ASSUME NEW profile, profile \in DOMAIN Markers
  PROVE  AreMarkers(Markers[profile])
  <1> PICK m : m = Markers[profile]
    OBVIOUS
  <1>1. m \in Seq(Seq(Characters))
        /\ \A k \in DOMAIN m : m[k] # << >> /\ m[k][1] \notin White
    BY ChunkingAssumption
  <1>2. Len(m) \in Nat /\ DOMAIN m = 1..Len(m)
    BY <1>1
  <1> QED BY <1>1, <1>2 DEF AreMarkers

LEMMA NoMarkers == AreMarkers(<< >>)
  <1>1. << >> \in Seq(Seq(Characters)) /\ Len(<< >>) = 0
    OBVIOUS
  <1> QED BY <1>1 DEF AreMarkers

LEMMA ResolvedMarkers ==
  ASSUME NEW raw, NEW requested, requested \in {"auto", "generic_v1"} \cup DOMAIN Markers,
         NEW readable, NEW markers, markers = Resolved(raw, requested, readable)
  PROVE  /\ AreMarkers(markers)
         /\ requested = "auto" /\ markers # << >> => MarkersUsable(SearchedText(raw), markers)
  <1> DEFINE found == {k \in DOMAIN Candidates :
                        /\ readable /\ SearchedText(raw) # << >>
                        /\ MarkersUsable(SearchedText(raw), Markers[Candidates[k]])}
  <1>1. markers = IF requested = "generic_v1" THEN << >>
                  ELSE IF requested # "auto" THEN Markers[requested]
                  ELSE IF found = {} THEN << >> ELSE Markers[Candidates[Min(found)]]
    BY DEF Resolved
  <1>2. CASE requested # "generic_v1" /\ requested # "auto"
    BY <1>1, <1>2, PickedMarkers
  <1>3. CASE requested # "generic_v1" /\ requested = "auto" /\ found # {}
    <2>1. Candidates \in Seq(DOMAIN Markers)
      BY ChunkingAssumption
    <2>2. PICK n : n = Len(Candidates)
      OBVIOUS
    <2>3. DOMAIN Candidates = 1..n /\ n \in Nat /\ \A k \in 1..n : Candidates[k] \in DOMAIN Markers
      BY <2>1, <2>2
    <2>4. found \subseteq 1..n /\ 1 \in Int /\ n \in Int
      BY <2>3
    <2>5. Min(found) \in found
      <3> HIDE DEF found
      <3> QED BY <1>3, <2>4, SmallestOf
    <2>6. PICK k \in 1..n : /\ k = Min(found)
                            /\ MarkersUsable(SearchedText(raw), Markers[Candidates[k]])
      BY <2>3, <2>5
    <2>7. markers = Markers[Candidates[k]]
      <3> HIDE DEF found
      <3> QED BY <1>1, <1>3, <2>6
    <2>8. AreMarkers(Markers[Candidates[k]])
      BY <2>3, PickedMarkers
    <2> QED BY <2>6, <2>7, <2>8
  <1>4. CASE markers = << >>
    BY <1>4, NoMarkers
  <1> HIDE DEF found
  <1> QED BY <1>1, <1>2, <1>3, <1>4

(* What the state says of the document once its pages are there.           *)
LEMMA ExtractedText ==
  ASSUME NEW raw, raw \in Seq(Seq(Characters)), NEW pages, pages = NormalizedPages(raw),
         pages # << >>
  PROVE  /\ Numbered(pages) /\ Len(pages) # 0 /\ pages \in Seq(Page)
         /\ Placed(pages, Boundaries(pages), Joined(pages)) /\ Tidy(Joined(pages))
         /\ SearchedText(raw) = Joined(pages)
  <1>1. Numbered(pages)
    BY PagesAreNumbered
  <1>2. pages \in Seq(Page)
    BY <1>1 DEF Numbered
  <1>3. Len(pages) # 0
    BY <1>2, SomeText
  <1>4. Placed(pages, Boundaries(pages), Joined(pages))
    BY <1>1, <1>3, PagesArePlaced
  <1>5. Tidy(Joined(pages))
    BY <1>1, <1>3, <1>4, JoinedIsTidy
  <1> QED BY <1>1, <1>2, <1>3, <1>4, <1>5 DEF SearchedText

LEMMA DocumentIsSectioned ==
  ASSUME NEW pages, Numbered(pages), Len(pages) # 0, Tidy(Joined(pages)),
         NEW max, max \in Nat \ {0}, NEW markers, AreMarkers(markers), NEW sections,
         IF markers = << >> THEN sections = ParentSpans(pages, max)
         ELSE /\ MarkersUsable(Joined(pages), markers)
              /\ sections = MarkedSpans(Joined(pages), markers)
  PROVE  /\ Sections(sections, Joined(pages))
         /\ markers = << >> =>
               /\ Cuts(sections, Joined(pages), 1, Len(Joined(pages)), max)
               /\ sections[1].first = 1
  <1>1. CASE markers = << >>
    <2>1. sections = ParentSpans(pages, max)
      BY <1>1
    <2>2. /\ Cuts(sections, Joined(pages), 1, Len(Joined(pages)), max)
          /\ sections[1].first = 1
      BY <2>1, ParentSpansCut
    <2> QED BY <2>2, PiecesAreSections
  <1>2. CASE markers # << >>
    <2>1. Len(markers) # 0
      BY <1>2, SomeText DEF AreMarkers
    <2> QED BY <1>2, <2>1, MarkedAreSections
  <1> QED BY <1>1, <1>2

LEMMA NoUploadTyped == NoUpload.sentences = [size |-> 1, overlap |-> 0]
  BY DEF NoUpload

LEMMA SizesOfUpload == ASSUME UploadType PROVE AreSizes(upload.sentences)
  <1>1. upload.sentences \in SentenceSets \cup {NoUpload.sentences}
    BY DEF UploadType
  <1>2. \A s \in SentenceSets : AreSizes(s)
    BY ChunkingAssumption DEF AreSizes
  <1>3. AreSizes([size |-> 1, overlap |-> 0])
    BY DEF AreSizes
  <1> QED BY <1>1, <1>2, <1>3, NoUploadTyped

LEMMA NoUploadFits ==
  ASSUME upload = NoUpload
  PROVE  ChunkingInv
  <1>1. UploadType
    <2>1. /\ << >> \in Seq(Seq(Characters)) /\ << >> \in Seq(Page) /\ << >> \in Seq(Span)
          /\ << >> \in Seq(Chunk)
      OBVIOUS
    <2> QED BY <2>1 DEF UploadType, NoUpload, Stages
  <1>2. /\ upload.markers = << >> /\ upload.pc = "none" /\ upload.requested = "none"
    BY DEF NoUpload
  <1> QED BY <1>1, <1>2, NoMarkers DEF ChunkingInv, MarkersChosen, PagesExtracted, SectionsCut,
                                       ChunksCut, AutoIsAdvisory

LEMMA PrepareKeepsInv ==
  ASSUME ChunkingInv, NEW raw \in Uploads,
         NEW requested \in {"auto", "generic_v1"} \cup DOMAIN Markers,
         NEW readable \in BOOLEAN, NEW max \in MaxSizes, NEW s \in SentenceSets,
         PrepareUpload(raw, requested, readable, max, s)
  PROVE  ChunkingInv'
  <1>1. PICK markers : markers = Resolved(raw, requested, readable)
    OBVIOUS
  <1>2. upload' = [pc |-> IF readable THEN "accepted" ELSE "unreadable", raw |-> raw,
                   requested |-> requested, markers |-> markers, pages |-> << >>, max |-> max,
                   sentences |-> s, sections |-> << >>, chunks |-> << >>]
    BY <1>1 DEF PrepareUpload, NoUpload
  <1>3. /\ AreMarkers(markers)
        /\ requested = "auto" /\ markers # << >> => MarkersUsable(SearchedText(raw), markers)
    BY <1>1, ResolvedMarkers
  <1>4. /\ upload'.pc \in {"accepted", "unreadable"} /\ upload'.markers = markers
        /\ upload'.requested = requested /\ upload'.raw = raw
    BY <1>2
  <1>5. UploadType'
    <2>1. /\ << >> \in Seq(Page) /\ << >> \in Seq(Span) /\ << >> \in Seq(Chunk)
      OBVIOUS
    <2>2. raw \in Seq(Seq(Characters)) /\ max \in Nat \ {0}
      BY ChunkingAssumption
    <2>3. markers \in Seq(Seq(Characters))
      BY <1>3 DEF AreMarkers
    <2> QED BY <1>2, <2>1, <2>2, <2>3 DEF UploadType, Stages
  <1> QED BY <1>3, <1>4, <1>5 DEF ChunkingInv, MarkersChosen, PagesExtracted, SectionsCut,
                                  ChunksCut, AutoIsAdvisory

LEMMA ParseKeepsInv ==
  ASSUME ChunkingInv, ParsePages
  PROVE  ChunkingInv'
  <1>1. PICK pages : pages = IF upload.pc = "accepted" THEN NormalizedPages(upload.raw) ELSE << >>
    OBVIOUS
  <1>2. upload' = [upload EXCEPT !.pc = IF pages = << >> THEN "parse_failed" ELSE "parsed",
                                 !.pages = pages]
    BY <1>1 DEF ParsePages
  <1>3. UploadType /\ upload.raw \in Seq(Seq(Characters))
    BY DEF ChunkingInv, UploadType
  <1>4. /\ upload'.pc = (IF pages = << >> THEN "parse_failed" ELSE "parsed")
        /\ upload'.pages = pages /\ upload'.raw = upload.raw
        /\ upload'.markers = upload.markers /\ upload'.requested = upload.requested
    BY <1>2, <1>3 DEF UploadType
  <1>5. pages \in Seq(Page)
    <2>1. << >> \in Seq(Page)
      OBVIOUS
    <2>2. pages # << >> => pages = NormalizedPages(upload.raw)
      BY <1>1
    <2> QED BY <1>3, <2>1, <2>2, PagesAreNumbered DEF Numbered
  <1>6. UploadType'
    BY <1>2, <1>3, <1>5 DEF UploadType, Stages
  <1>7. pages # << >> => pages = NormalizedPages(upload.raw)
    BY <1>1
  <1> QED BY <1>4, <1>6, <1>7 DEF ChunkingInv, MarkersChosen, PagesExtracted, SectionsCut,
                                  ChunksCut, AutoIsAdvisory

LEMMA SectionizeKeepsInv ==
  ASSUME ChunkingInv, Sectionize
  PROVE  ChunkingInv'
  <1>1. PICK raw, pages, text, markers, max :
              /\ raw = upload.raw /\ pages = upload.pages /\ text = Joined(pages)
              /\ markers = upload.markers /\ max = upload.max
    OBVIOUS
  <1>2. UploadType /\ upload.pc = "parsed"
    BY DEF ChunkingInv, Sectionize
  <1>3. /\ raw \in Seq(Seq(Characters)) /\ max \in Nat \ {0} /\ AreMarkers(markers)
        /\ pages = NormalizedPages(raw) /\ pages # << >>
    BY <1>1, <1>2 DEF ChunkingInv, UploadType, MarkersChosen, PagesExtracted
  <1>4. /\ Numbered(pages) /\ Len(pages) # 0 /\ Tidy(Joined(pages))
        /\ SearchedText(raw) = text
    BY <1>1, <1>3, ExtractedText
  <1>5. CASE markers # << >> /\ ~MarkersUsable(text, markers)
    <2>1. upload' = [upload EXCEPT !.pc = "chunking_failed"]
      BY <1>1, <1>5 DEF Sectionize
    <2>2. /\ upload'.pc = "chunking_failed" /\ upload'.pages = upload.pages
          /\ upload'.raw = upload.raw /\ upload'.markers = upload.markers
          /\ upload'.requested = upload.requested
      BY <1>2, <2>1 DEF UploadType
    <2>3. UploadType'
      BY <1>2, <2>1 DEF UploadType, Stages
    <2>4. upload.requested # "auto"
      BY <1>1, <1>4, <1>5 DEF ChunkingInv, MarkersChosen
    <2>5. MarkersChosen' /\ PagesExtracted'
      BY <1>2, <2>2 DEF ChunkingInv, MarkersChosen, PagesExtracted
    <2> QED BY <2>2, <2>3, <2>4, <2>5 DEF ChunkingInv, SectionsCut, ChunksCut, AutoIsAdvisory
  <1>6. CASE ~(markers # << >> /\ ~MarkersUsable(text, markers))
    <2>1. PICK sections : sections = IF markers = << >> THEN ParentSpans(pages, max)
                                     ELSE MarkedSpans(text, markers)
      OBVIOUS
    <2>2. upload' = [upload EXCEPT !.pc = "sections", !.sections = sections]
      BY <1>1, <1>6, <2>1 DEF Sectionize
    <2>3. IF markers = << >> THEN sections = ParentSpans(pages, max)
          ELSE MarkersUsable(text, markers) /\ sections = MarkedSpans(text, markers)
      BY <1>6, <2>1
    <2>4. Sections(sections, Joined(pages))
      BY ONLY <1>1, <1>3, <1>4, <2>3, DocumentIsSectioned
    <2>5. sections \in Seq(Span)
      BY <2>4 DEF Sections
    <2>6. /\ upload'.pc = "sections" /\ upload'.pages = upload.pages
          /\ upload'.raw = upload.raw /\ upload'.markers = upload.markers
          /\ upload'.requested = upload.requested /\ upload'.max = upload.max
          /\ upload'.sections = sections
      BY <1>2, <2>2 DEF UploadType
    <2>7. UploadType'
      BY <1>2, <2>2, <2>5 DEF UploadType, Stages
    <2>8. MarkersChosen' /\ PagesExtracted'
      BY <1>2, <2>6 DEF ChunkingInv, MarkersChosen, PagesExtracted
    <2>9. SectionsCut'
      BY <1>1, <2>3, <2>6 DEF SectionsCut
    <2> QED BY <2>6, <2>7, <2>8, <2>9 DEF ChunkingInv, ChunksCut, AutoIsAdvisory
  <1> QED BY <1>5, <1>6

LEMMA ChunkKeepsInv ==
  ASSUME ChunkingInv, ChunkSections
  PROVE  ChunkingInv'
  <1>1. PICK raw, pages, text, bounds, sections, s :
              /\ raw = upload.raw /\ pages = upload.pages /\ text = Joined(pages)
              /\ bounds = Boundaries(pages) /\ sections = upload.sections
              /\ s = upload.sentences
    OBVIOUS
  <1>2. UploadType /\ upload.pc = "sections"
    BY DEF ChunkingInv, ChunkSections
  <1>3. /\ raw \in Seq(Seq(Characters)) /\ upload.max \in Nat \ {0} /\ AreMarkers(upload.markers)
        /\ pages = NormalizedPages(raw) /\ pages # << >>
        /\ IF upload.markers = << >> THEN sections = ParentSpans(pages, upload.max)
           ELSE /\ MarkersUsable(Joined(pages), upload.markers)
                /\ sections = MarkedSpans(Joined(pages), upload.markers)
    BY <1>1, <1>2 DEF ChunkingInv, UploadType, MarkersChosen, PagesExtracted, SectionsCut
  <1>4. /\ Numbered(pages) /\ Len(pages) # 0 /\ Tidy(Joined(pages))
        /\ Placed(pages, bounds, text)
    BY <1>1, <1>3, ExtractedText
  <1>5. Sections(sections, text)
    BY ONLY <1>1, <1>3, <1>4, DocumentIsSectioned
  <1>6. PICK chunks : chunks = FlattenSeq([k \in DOMAIN sections |->
                                   ChunksOf(text, bounds, k, sections[k], s)])
    OBVIOUS
  <1>7. AreSizes(s)
    BY <1>1, <1>2, SizesOfUpload
  <1>8. AllChunks(chunks, sections, pages, bounds, text)
    BY ONLY <1>4, <1>5, <1>6, <1>7, DocumentIsChunked
  <1>9. chunks \in Seq(Chunk) /\ chunks # << >>
    <2>1. chunks \in Seq(Chunk) /\ Len(chunks) # 0
      BY <1>8 DEF AllChunks
    <2> QED BY <2>1, SomeText
  <1>10. upload' = [upload EXCEPT !.pc = "chunked", !.chunks = chunks]
    BY <1>1, <1>6, <1>9 DEF ChunkSections
  <1>11. /\ upload'.pc = "chunked" /\ upload'.pages = upload.pages
         /\ upload'.raw = upload.raw /\ upload'.markers = upload.markers
         /\ upload'.requested = upload.requested /\ upload'.max = upload.max
         /\ upload'.sections = upload.sections /\ upload'.chunks = chunks
         /\ upload'.sentences = upload.sentences
    BY <1>2, <1>10 DEF UploadType
  <1>12. UploadType'
    BY <1>2, <1>9, <1>10 DEF UploadType, Stages
  <1>13. MarkersChosen' /\ PagesExtracted'
    BY <1>2, <1>11 DEF ChunkingInv, MarkersChosen, PagesExtracted
  <1>14. SectionsCut'
    BY <1>2, <1>11 DEF ChunkingInv, SectionsCut
  <1>15. ChunksCut'
    BY <1>1, <1>6, <1>11 DEF ChunksCut
  <1> QED BY <1>11, <1>12, <1>13, <1>14, <1>15 DEF ChunkingInv, AutoIsAdvisory

LEMMA DoneKeepsInv ==
  ASSUME ChunkingDone
  PROVE  ChunkingInv'
  <1>1. upload' = NoUpload
    BY DEF ChunkingDone
  <1>2. UploadType'
    <2>1. /\ << >> \in Seq(Seq(Characters)) /\ << >> \in Seq(Page) /\ << >> \in Seq(Span)
          /\ << >> \in Seq(Chunk)
      OBVIOUS
    <2> QED BY <1>1, <2>1 DEF UploadType, NoUpload, Stages
  <1>3. /\ upload'.markers = << >> /\ upload'.pc = "none" /\ upload'.requested = "none"
    BY <1>1 DEF NoUpload
  <1> QED BY <1>2, <1>3, NoMarkers DEF ChunkingInv, MarkersChosen, PagesExtracted, SectionsCut,
                                       ChunksCut, AutoIsAdvisory

(* Whatever a document is cut into was computed from its extracted pages,  *)
(* by the resolved markers, and AUTO has not failed it: an invariant.      *)
THEOREM DocumentIsCutFromItsPages == ChunkingSpec => []ChunkingInv
  <1>1. ChunkingInit => ChunkingInv
    BY NoUploadFits DEF ChunkingInit
  <1>2. ChunkingInv /\ [ChunkingNext]_upload => ChunkingInv'
    <2> SUFFICES ASSUME ChunkingInv, [ChunkingNext]_upload PROVE ChunkingInv'
      OBVIOUS
    <2>1. CASE \E raw \in Uploads, requested \in {"auto", "generic_v1"} \cup DOMAIN Markers,
                  readable \in BOOLEAN, max \in MaxSizes, s \in SentenceSets :
                  PrepareUpload(raw, requested, readable, max, s)
      BY <2>1, PrepareKeepsInv
    <2>2. CASE ParsePages
      BY <2>2, ParseKeepsInv
    <2>3. CASE Sectionize
      BY <2>3, SectionizeKeepsInv
    <2>4. CASE ChunkSections
      BY <2>4, ChunkKeepsInv
    <2>5. CASE ChunkingDone
      BY <2>5, DoneKeepsInv
    <2>6. CASE UNCHANGED upload
      BY <2>6 DEF ChunkingInv, UploadType, MarkersChosen, PagesExtracted, SectionsCut, ChunksCut,
                  AutoIsAdvisory
    <2> QED BY <2>1, <2>2, <2>3, <2>4, <2>5, <2>6 DEF ChunkingNext
  <1> QED BY <1>1, <1>2, PTL DEF ChunkingSpec

(* A chunked document, in the terms of the lemmas above.                   *)
LEMMA ChunkedDocument ==
  ASSUME ChunkingInv, upload.pc = "chunked", NEW pages, pages = upload.pages,
         NEW text, text = Joined(pages), NEW bounds, bounds = Boundaries(pages)
  PROVE  /\ Numbered(pages) /\ Len(pages) # 0 /\ Placed(pages, bounds, text) /\ Tidy(text)
         /\ Sections(upload.sections, text)
         /\ AllChunks(upload.chunks, upload.sections, pages, bounds, text)
         /\ upload.markers = << >> =>
               /\ Cuts(upload.sections, text, 1, Len(text), upload.max)
               /\ upload.sections[1].first = 1
  <1>1. UploadType
    BY DEF ChunkingInv
  <1>2. PICK raw, sections, s : /\ raw = upload.raw /\ sections = upload.sections
                                /\ s = upload.sentences
    OBVIOUS
  <1>3. /\ raw \in Seq(Seq(Characters)) /\ upload.max \in Nat \ {0} /\ AreMarkers(upload.markers)
        /\ pages = NormalizedPages(raw) /\ pages # << >>
        /\ IF upload.markers = << >> THEN sections = ParentSpans(pages, upload.max)
           ELSE /\ MarkersUsable(Joined(pages), upload.markers)
                /\ sections = MarkedSpans(Joined(pages), upload.markers)
    BY <1>2 DEF ChunkingInv, UploadType, MarkersChosen, PagesExtracted, SectionsCut
  <1>4. /\ Numbered(pages) /\ Len(pages) # 0 /\ Tidy(Joined(pages))
        /\ Placed(pages, bounds, text)
    BY <1>3, ExtractedText
  <1>5. /\ Sections(sections, Joined(pages))
        /\ upload.markers = << >> =>
               /\ Cuts(sections, Joined(pages), 1, Len(Joined(pages)), upload.max)
               /\ sections[1].first = 1
    BY ONLY <1>3, <1>4, DocumentIsSectioned
  <1>6. AreSizes(s)
    BY <1>1, <1>2, SizesOfUpload
  <1>7. AllChunks(FlattenSeq([k \in DOMAIN sections |->
                                 ChunksOf(text, bounds, k, sections[k], s)]),
                  sections, pages, bounds, text)
    BY ONLY text = Joined(pages), <1>4, <1>5, <1>6, DocumentIsChunked
  <1>8. upload.chunks = FlattenSeq([k \in DOMAIN sections |->
                                       ChunksOf(text, bounds, k, sections[k], s)])
    BY <1>2 DEF ChunkingInv, ChunksCut
  <1> QED BY <1>2, <1>4, <1>5, <1>7, <1>8

LEMMA NoWordIsLost ==
  ASSUME ChunkingInv
  PROVE  EveryWordIsIndexed
  <1>1. upload.requested = "auto" => upload.pc # "chunking_failed"
    BY DEF ChunkingInv, AutoIsAdvisory
  <1>2. ASSUME upload.pc = "chunked"
        PROVE  /\ \A i \in Words : i >= upload.sections[1].first =>
                     \E k \in DOMAIN upload.sections :
                        /\ \A j \in DOMAIN upload.sections :
                              Within(i, upload.sections[j]) <=> j = k
                        /\ \E c \in DOMAIN upload.chunks :
                              upload.chunks[c].parent = k /\ Within(i, upload.chunks[c].span)
               /\ upload.markers = << >> =>
                     /\ upload.sections[1].first = 1
                     /\ \A k \in DOMAIN upload.sections :
                           upload.sections[k].last - upload.sections[k].first < upload.max
    <2>1. PICK text, sections, chunks, n : /\ text = Joined(upload.pages)
                                           /\ sections = upload.sections
                                           /\ chunks = upload.chunks /\ n = Len(sections)
      OBVIOUS
    <2>2. PICK bounds : bounds = Boundaries(upload.pages)
      OBVIOUS
    <2>3. /\ Tidy(text) /\ Sections(sections, text)
          /\ AllChunks(chunks, sections, upload.pages, bounds, text)
          /\ upload.markers = << >> =>
                Cuts(sections, text, 1, Len(text), upload.max) /\ sections[1].first = 1
      BY <1>2, <2>1, <2>2, ChunkedDocument
    <2>4. /\ DOMAIN sections = 1..n /\ n \in Nat \ {0}
          /\ \A k \in 1..n : sections[k] \in Span
          /\ \A k, m \in 1..n : k < m => sections[k].last < sections[m].first
          /\ \A i \in sections[1].first..Len(text) : text[i] \notin White => Covered(i, sections)
      <3>1. /\ sections \in Seq(Span) /\ n \in Nat \ {0}
            /\ \A k, m \in 1..n : k < m => sections[k].last < sections[m].first
            /\ \A i \in sections[1].first..Len(text) :
                  text[i] \notin White => Covered(i, sections)
        BY ONLY <2>1, <2>3 DEF Sections
      <3>2. DOMAIN sections = 1..n /\ \A k \in 1..n : sections[k] \in Span
        BY ONLY <2>1, <3>1
      <3> QED BY ONLY <3>1, <3>2
    <2>5. DOMAIN chunks = 1..Len(chunks)
      BY <2>3 DEF AllChunks
    <2>6. ASSUME NEW i \in Words, i >= sections[1].first
          PROVE  \E k \in 1..n : /\ \A j \in 1..n : Within(i, sections[j]) <=> j = k
                                 /\ \E c \in 1..Len(chunks) :
                                       chunks[c].parent = k /\ Within(i, chunks[c].span)
      <3>1. i \in 1..Len(text) /\ text[i] \notin White /\ Len(text) \in Nat
        BY <2>1, <2>3 DEF Words, Tidy
      <3>2. sections[1].first \in Nat
        <4>1. 1 \in 1..n
          BY <2>4
        <4> QED BY <2>4, <4>1 DEF Span
      <3>3. PICK k \in 1..n : Within(i, sections[k])
        <4>1. i \in sections[1].first..Len(text)
          BY <2>6, <3>1, <3>2
        <4> QED BY <2>1, <2>4, <3>1, <4>1 DEF Covered
      <3>4. ASSUME NEW j \in 1..n, Within(i, sections[j]) PROVE j = k
        <4>1. PICK a, b, c, d : /\ a = sections[j].first /\ b = sections[j].last
                                /\ c = sections[k].first /\ d = sections[k].last
          OBVIOUS
        <4>2. a \in Nat /\ b \in Nat /\ c \in Nat /\ d \in Nat
          BY <2>4, <4>1 DEF Span
        <4>3. i \in a..b /\ i \in c..d
          BY <3>3, <3>4, <4>1 DEF Within
        <4>4. j < k => b < c
          BY <2>4, <4>1
        <4>5. k < j => d < a
          BY <2>4, <4>1
        <4>6. ~(j < k) /\ ~(k < j)
          BY ONLY <4>2, <4>3, <4>4, <4>5
        <4> QED BY ONLY j \in 1..n, k \in 1..n, <4>6
      <3>5. InChunkOf(i, k, chunks)
        BY <2>1, <2>3, <3>1, <3>3 DEF AllChunks
      <3> QED BY <3>3, <3>4, <3>5 DEF InChunkOf
    <2>7. ASSUME upload.markers = << >>, NEW k \in 1..n
          PROVE  sections[k].last - sections[k].first < upload.max
      BY <2>1, <2>3, <2>7 DEF Cuts, Piece
    <2>8. \A i \in Words : i >= upload.sections[1].first =>
             \E k \in DOMAIN upload.sections :
                /\ \A j \in DOMAIN upload.sections : Within(i, upload.sections[j]) <=> j = k
                /\ \E c \in DOMAIN upload.chunks :
                      upload.chunks[c].parent = k /\ Within(i, upload.chunks[c].span)
      BY ONLY <2>1, <2>4, <2>5, <2>6
    <2>9. ASSUME upload.markers = << >>
          PROVE  /\ upload.sections[1].first = 1
                 /\ \A k \in DOMAIN upload.sections :
                       upload.sections[k].last - upload.sections[k].first < upload.max
      BY ONLY <2>1, <2>3, <2>4, <2>7, <2>9
    <2> QED BY ONLY <2>8, <2>9
  <1> QED BY <1>1, <1>2 DEF EveryWordIsIndexed

LEMMA PageOfPosition ==
  ASSUME NEW pages, Numbered(pages), NEW bounds, NEW text, Placed(pages, bounds, text),
         NEW i, NEW number, IsPageOf(i, number, pages, bounds)
  PROVE  number = bounds[CHOOSE p \in DOMAIN bounds : Within(i, bounds[p])].number
  <1>1. DOMAIN bounds = 1..Len(pages)
    BY DEF Placed
  <1>2. PICK p \in 1..Len(pages) : Within(i, bounds[p]) /\ bounds[p].number = number
    BY DEF IsPageOf
  <1>3. PICK q : q = CHOOSE r \in DOMAIN bounds : Within(i, bounds[r])
    OBVIOUS
  <1>4. q \in 1..Len(pages) /\ Within(i, bounds[q])
    BY <1>1, <1>2, <1>3
  <1>5. p = q
    <2>1. PICK a, b, c, d : /\ a = bounds[p].first /\ b = bounds[p].last
                            /\ c = bounds[q].first /\ d = bounds[q].last
      OBVIOUS
    <2>2. a \in 1..Len(text) /\ b \in 1..Len(text)
      BY <1>2, <2>1, PlaceFacts
    <2>3. c \in 1..Len(text) /\ d \in 1..Len(text)
      BY <1>4, <2>1, PlaceFacts
    <2>4. i \in a..b /\ i \in c..d
      BY <1>2, <1>4, <2>1 DEF Within
    <2>5. p < q => b + 1 < c
      BY <1>4, <2>1, PagesApart
    <2>6. q < p => d + 1 < a
      BY <1>4, <2>1, PagesApart
    <2>7. ~(p < q) /\ ~(q < p)
      BY ONLY <2>2, <2>3, <2>4, <2>5, <2>6
    <2> QED BY ONLY p \in 1..Len(pages), <1>4, <2>7
  <1> QED BY <1>2, <1>3, <1>5

LEMMA PagesAreRight ==
  ASSUME ChunkingInv
  PROVE  ChunkCitesItsPages
  <1>1. ASSUME upload.pc = "chunked", NEW c \in DOMAIN upload.chunks,
               NEW chunk, chunk = upload.chunks[c],
               NEW bounds, bounds = Boundaries(upload.pages)
        PROVE  /\ chunk.page_start =
                     bounds[CHOOSE p \in DOMAIN bounds : Within(chunk.span.first, bounds[p])].number
               /\ chunk.page_end =
                     bounds[CHOOSE p \in DOMAIN bounds : Within(chunk.span.last, bounds[p])].number
    <2>1. PICK pages, text, chunks : /\ pages = upload.pages /\ text = Joined(pages)
                                     /\ chunks = upload.chunks
      OBVIOUS
    <2>2. /\ Numbered(pages) /\ Placed(pages, bounds, text)
          /\ AllChunks(chunks, upload.sections, pages, bounds, text)
      BY <1>1, <2>1, ChunkedDocument
    <2>3. c \in 1..Len(chunks)
      BY <1>1, <2>1, <2>2 DEF AllChunks
    <2>4. /\ IsPageOf(chunk.span.first, chunk.page_start, pages, bounds)
          /\ IsPageOf(chunk.span.last, chunk.page_end, pages, bounds)
      BY <1>1, <2>1, <2>2, <2>3 DEF AllChunks
    <2>5. PICK a, b, x, y : /\ a = chunk.span.first /\ b = chunk.span.last
                            /\ x = chunk.page_start /\ y = chunk.page_end
      OBVIOUS
    <2>6. x = bounds[CHOOSE p \in DOMAIN bounds : Within(a, bounds[p])].number
      BY <2>2, <2>4, <2>5, PageOfPosition
    <2>7. y = bounds[CHOOSE p \in DOMAIN bounds : Within(b, bounds[p])].number
      BY <2>2, <2>4, <2>5, PageOfPosition
    <2> QED BY <2>5, <2>6, <2>7
  <1> QED BY <1>1 DEF ChunkCitesItsPages

(* _bounded_parent_spans, sectionize_pages, chunk_parent_section: no word  *)
(* behind the first marker is left out of the index, or in two sections,   *)
(* and AUTO fails no document, whatever the texts, the markers, the sizes  *)
(* and the overlap.                                                        *)
THEOREM WordsAreIndexed == ChunkingSpec => []EveryWordIsIndexed
  BY DocumentIsCutFromItsPages, NoWordIsLost, PTL

(* _page_range_for_span: the pages a chunk cites are those its first and   *)
(* its last character are on, also when a page without text was left out.  *)
THEOREM CitedPagesAreRight == ChunkingSpec => []ChunkCitesItsPages
  BY DocumentIsCutFromItsPages, PagesAreRight, PTL
=============================================================================

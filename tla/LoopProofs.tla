----------------------------- MODULE LoopProofs -----------------------------
(***************************************************************************)
(* What a loop over 1..n computes.  The models write a loop as a function  *)
(* defined by recursion, whose value at i is the state after i rounds; the *)
(* facts here say that there is one, and what holds after every round.     *)
(***************************************************************************)
EXTENDS Integers, Sequences, WellFoundedInduction, TLAPS

(* A set of natural numbers has a least element.                           *)
LEMMA NatLeast ==
  ASSUME NEW T, T \subseteq Nat, T # {}
  PROVE  \E n \in T : \A m \in T : n <= m
  <1> DEFINE R == OpToRel(<, Nat)
  <1>1. \E n \in T : \A m \in T : ~(<<m, n>> \in R)
    <2>1. IsWellFoundedOn(R, Nat)
      BY NatLessThanWellFounded
    <2> HIDE DEF R
    <2> QED BY <2>1, WFMin
  <1>2. \A m, n \in Nat : m < n => <<m, n>> \in R
    BY DEF OpToRel
  <1> HIDE DEF R
  <1>3. PICK n \in T : \A m \in T : ~(<<m, n>> \in R)
    BY <1>1
  <1>4. ASSUME NEW m \in T PROVE n <= m
    <2>1. m \in Nat /\ n \in Nat /\ ~(m < n)
      BY <1>2, <1>3
    <2> QED BY <2>1
  <1> QED BY <1>4

(* What holds before the first round, and after a round if it did before,  *)
(* holds after every round.  Good is the set of the rounds.                *)
LEMMA EveryRound ==
  ASSUME NEW n \in Nat, NEW Good, 0 \in Good,
         \A i \in 1..n : i - 1 \in Good => i \in Good
  PROVE  0..n \subseteq Good
  <1> DEFINE Bad == {i \in 0..n : i \notin Good}
  <1>1. SUFFICES ASSUME Bad # {} PROVE FALSE
    OBVIOUS
  <1>2. PICK k \in Bad : \A m \in Bad : k <= m
    <2>1. Bad \subseteq Nat
      OBVIOUS
    <2> HIDE DEF Bad
    <2> QED BY <1>1, <2>1, NatLeast
  <1>3. k \in 1..n /\ k - 1 \in 0..n /\ ~(k <= k - 1)
    BY <1>2
  <1> QED BY <1>2, <1>3

(* A loop that leaves start after no round, and Step[<<i, g]>>] after      *)
(* round i if it left g before.                                            *)
LoopBody(n, States) == [(1..n) \X States -> States]
IsLoop(g, n, States, start, Step) ==
    /\ g \in [0..n -> States] /\ g[0] = start
    /\ \A i \in 1..n : g[i - 1] \in States /\ g[i] = Step[<<i, g[i - 1]>>]

LEMMA LoopRuns ==
  ASSUME NEW n, n \in Nat, NEW States, NEW start, start \in States,
         NEW Step, Step \in LoopBody(n, States)
  PROVE  \E g : IsLoop(g, n, States, start, Step)
  <1> USE DEF LoopBody
  <1> DEFINE Runs(g, k) == /\ g \in [0..k -> States] /\ g[0] = start
                           /\ \A i \in 1..k : g[i] = Step[<<i, g[i - 1]>>]
             Good == {k \in 0..n : \E g : Runs(g, k)}
  <1>1. 0 \in Good
    <2>1. Runs([i \in 0..0 |-> start], 0)
      OBVIOUS
    <2> HIDE DEF Runs
    <2> QED BY <2>1
  <1>2. ASSUME NEW k \in 1..n, k - 1 \in Good PROVE k \in Good
    <2>1. PICK g : Runs(g, k - 1)
      BY <1>2
    <2> DEFINE h == [i \in 0..k |-> IF i = k THEN Step[<<k, g[k - 1]>>] ELSE g[i]]
    <2>2. g[k - 1] \in States /\ k - 1 \in 0..k - 1
      BY <2>1
    <2>3. Step[<<k, g[k - 1]>>] \in States
      BY <2>2
    <2>4. h \in [0..k -> States] /\ h[0] = start
      BY <2>1, <2>3
    <2>5. ASSUME NEW i \in 1..k PROVE h[i] = Step[<<i, h[i - 1]>>]
      <3>1. i \in 0..k /\ i - 1 \in 0..k /\ i - 1 # k
        OBVIOUS
      <3>2. h[i - 1] = g[i - 1]
        BY <3>1
      <3>3. CASE i = k
        BY <3>1, <3>2, <3>3
      <3>4. CASE i # k
        <4>1. i \in 1..k - 1
          BY <3>4
        <4> QED BY <2>1, <3>1, <3>2, <3>4, <4>1
      <3> QED BY <3>3, <3>4
    <2>6. Runs(h, k)
      BY <2>4, <2>5
    <2> HIDE DEF Runs, h
    <2> QED BY <2>6
  <1>3. n \in Good
    <2> HIDE DEF Good
    <2>1. \A i \in 1..n : i - 1 \in Good => i \in Good
      BY <1>2
    <2>2. 0..n \subseteq Good
      BY <1>1, <2>1, EveryRound
    <2> QED BY <2>2
  <1>4. PICK g : Runs(g, n)
    BY <1>3
  <1>5. \A i \in 1..n : i - 1 \in 0..n
    OBVIOUS
  <1> QED BY <1>4, <1>5 DEF IsLoop

(* There is one such loop only: whatever is computed by the same body.     *)
Follows(h, n, States, start, Step) ==
    /\ h = [i \in 0..n |-> h[i]] /\ h[0] = start
    /\ \A i \in 1..n : h[i - 1] \in States => h[i] = Step[<<i, h[i - 1]>>]

LEMMA LoopIsUnique ==
  ASSUME NEW n, n \in Nat, NEW States, NEW start, NEW Step,
         NEW g, IsLoop(g, n, States, start, Step),
         NEW h, Follows(h, n, States, start, Step)
  PROVE  h = g
  <1> DEFINE Good == {i \in 0..n : h[i] = g[i]}
  <1>1. g \in [0..n -> States] /\ 0 \in Good
    BY DEF IsLoop, Follows
  <1>2. ASSUME NEW i \in 1..n, i - 1 \in Good PROVE i \in Good
    <2>1. g[i - 1] \in States /\ g[i] = Step[<<i, g[i - 1]>>]
      BY DEF IsLoop
    <2>2. h[i - 1] = g[i - 1]
      BY <1>2
    <2>3. h[i] = Step[<<i, h[i - 1]>>]
      BY <2>1, <2>2 DEF Follows
    <2> QED BY <2>1, <2>2, <2>3
  <1>3. 0..n \subseteq Good
    <2> HIDE DEF Good
    <2> QED BY <1>1, <1>2, EveryRound
  <1>4. \A i \in 0..n : h[i] = g[i]
    BY <1>3
  <1>5. h = [i \in 0..n |-> h[i]]
    BY DEF Follows
  <1> QED BY <1>1, <1>4, <1>5
=============================================================================

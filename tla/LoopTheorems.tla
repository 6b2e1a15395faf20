---------------------------- MODULE LoopTheorems ----------------------------
(***************************************************************************)
(* Loops.  A recursive function f[i \in 0 .. n] models a loop of the code: *)
(* f[i] is the state after i rounds.  Such a definition says what f is     *)
(* only if a function with its equation exists, which LoopTrace shows;     *)
(* RoundInduction then proves what holds after every round.  Induction is  *)
(* stated for sets, since the provers do not instantiate predicates.       *)
(***************************************************************************)
EXTENDS Integers, FiniteSetsExt, WellFoundedInduction, TLAPS

(* A set of natural numbers has a least one: the process at which          *)
(* findNextReady stops, the first clear bit of the frame bitmap, the first *)
(* block of the heap that fits.                                            *)
LEMMA MinInSet ==
    ASSUME NEW S \in SUBSET Nat, S # {}
    PROVE  Min(S) \in S /\ \A y \in S : Min(S) <= y
<1> DEFINE Less == OpToRel(<, Nat)
<1>0. Less = {ss \in Nat \X Nat : ss[1] < ss[2]}
  BY DEF OpToRel
<1>1. IsWellFoundedOn(Less, Nat)
  BY NatLessThanWellFounded
<1> HIDE DEF Less
<1>2. PICK x \in S : \A y \in S : ~(<<y, x>> \in Less)
  BY <1>1, WFMin, Zenon
<1>3. \A y \in S : x <= y
  <2> SUFFICES ASSUME NEW y \in S PROVE x <= y
    OBVIOUS
  <2>1. x \in Nat /\ y \in Nat
    OBVIOUS
  <2>2. y < x => <<y, x>> \in Less
    BY <2>1, <1>0
  <2>3. QED
    BY <1>2, <2>1, <2>2
<1>4. QED
  BY <1>3 DEF Min

(* Quotient and remainder. *)
LEMMA DivMod ==
    ASSUME NEW x \in Nat, NEW w \in Nat \ {0}
    PROVE  /\ x \div w \in Nat /\ x % w \in 0 .. w - 1
           /\ x = w * (x \div w) + (x % w)
OBVIOUS

(* Division keeps the order: pages and their page tables, entries and      *)
(* their clusters.                                                         *)
LEMMA QuotientOrder ==
    ASSUME NEW k \in Nat \ {0}, NEW a \in Nat, NEW b \in Nat, a <= b
    PROVE  a \div k \in 0 .. b \div k
<1>1. /\ a \div k \in Nat /\ b \div k \in Nat
      /\ a = k * (a \div k) + (a % k) /\ b = k * (b \div k) + (b % k)
      /\ a % k \in 0 .. k - 1 /\ b % k \in 0 .. k - 1
  BY DivMod
<1>2. ASSUME NEW q \in Nat, NEW p \in Nat, NEW c \in 0 .. k - 1, NEW d \in 0 .. k - 1,
             k * q + c <= k * p + d
      PROVE  q <= p
  <2> SUFFICES ASSUME p + 1 <= q PROVE FALSE
    OBVIOUS
  <2>1. k * (p + 1) <= k * q
    OBVIOUS
  <2>2. k * (p + 1) = k * p + k
    OBVIOUS
  <2>3. k * p \in Nat /\ k * q \in Nat
    OBVIOUS
  <2>4. QED
    BY <1>2, <2>1, <2>2, <2>3
<1>3. k * (a \div k) + (a % k) <= k * (b \div k) + (b % k)
  BY <1>1
<1> DEFINE q == a \div k
           p == b \div k
           c == a % k
           d == b % k
<1>5. q \in Nat /\ p \in Nat /\ c \in 0 .. k - 1 /\ d \in 0 .. k - 1
      /\ k * q + c <= k * p + d
  BY <1>1, <1>3
<1>6. q <= p
  <2> HIDE DEF q, p, c, d
  <2>1. QED
    BY <1>2, <1>5
<1>7. QED
  BY <1>1, <1>6

(* Induction over the rounds of a loop, stated for the set S of the rounds *)
(* about which the claim holds.                                            *)
LEMMA RoundInduction ==
    ASSUME NEW n \in Nat, NEW S, 0 \in S,
           \A i \in 1 .. n : i - 1 \in S => i \in S
    PROVE  0 .. n \subseteq S
<1> DEFINE bad == (0 .. n) \ S
<1> SUFFICES ASSUME bad # {} PROVE FALSE
  OBVIOUS
<1>1. Min(bad) \in bad /\ \A y \in bad : Min(bad) <= y
  <2>1. bad \in SUBSET Nat
    OBVIOUS
  <2> HIDE DEF bad
  <2>2. QED
    BY <2>1, MinInSet
<1>2. PICK m \in bad : \A y \in bad : m <= y
  BY <1>1
<1>3. m \in 1 .. n
  BY <1>2
<1>4. m - 1 \in 0 .. n /\ ~(m <= m - 1)
  BY <1>3
<1>5. m - 1 \in S
  BY <1>2, <1>4
<1>6. QED
  BY <1>2, <1>3, <1>5

(* g holds the values that a loop of n rounds goes through. *)
IsTrace(g, n, X, x0, step) ==
    /\ g \in [0 .. n -> X]
    /\ g[0] = x0
    /\ \A i \in 1 .. n : g[i] = step[<<g[i - 1], i>>]

(* A loop of n rounds, each of which takes a value of X to another, has a  *)
(* trace, as the loops of sbrk, mapDevice, the ELF loader and the heap do. *)
(* What a round does is a function, as no prover here takes an operator.   *)
LEMMA LoopTrace ==
    ASSUME NEW n \in Nat, NEW X, NEW x0 \in X,
           NEW step \in [X \X (1 .. n) -> X]
    PROVE  \E g : IsTrace(g, n, X, x0, step)
<1> DEFINE S == {k \in 0 .. n : \E g : IsTrace(g, k, X, x0, step)}
<1>1. 0 \in S
  <2>1. IsTrace([i \in 0 .. 0 |-> x0], 0, X, x0, step)
    BY DEF IsTrace
  <2>2. QED
    BY <2>1
<1>2. ASSUME NEW k \in 1 .. n, k - 1 \in S PROVE k \in S
  <2>1. PICK g : IsTrace(g, k - 1, X, x0, step)
    BY <1>2
  <2>2. /\ g \in [0 .. k - 1 -> X] /\ g[0] = x0
        /\ \A i \in 1 .. k - 1 : g[i] = step[<<g[i - 1], i>>]
    BY <2>1 DEF IsTrace
  <2> DEFINE h == [i \in 0 .. k |-> IF i = k THEN step[<<g[k - 1], k>>] ELSE g[i]]
  <2>3. k - 1 \in 0 .. k - 1 /\ k \in 1 .. n
    OBVIOUS
  <2>4. step[<<g[k - 1], k>>] \in X
    BY <2>2, <2>3
  <2>5. h \in [0 .. k -> X]
    BY <2>2, <2>4
  <2>6. h[0] = x0
    BY <2>2
  <2>7. \A i \in 1 .. k : h[i] = step[<<h[i - 1], i>>]
    BY <2>2
  <2>8. IsTrace(h, k, X, x0, step)
    BY <2>5, <2>6, <2>7 DEF IsTrace
  <2>9. QED
    BY <2>8
<1> HIDE DEF S
<1>3. 0 .. n \subseteq S
  BY <1>1, <1>2, RoundInduction
<1>4. n \in S
  BY <1>3
<1>5. QED
  BY <1>4 DEF S
=============================================================================

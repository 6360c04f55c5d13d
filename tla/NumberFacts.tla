---------------------------- MODULE NumberFacts ----------------------------
(***************************************************************************)
(* The least and the greatest element of a set of natural numbers, and     *)
(* what CHOOSE picks when it asks for one. The least-number principle is   *)
(* taken from the library's theorem that finite sets are well-founded by   *)
(* inclusion: a number is as good as the interval that ends at it. From it *)
(* follow induction, said of a set, and that recursion defines a function. *)
(***************************************************************************)
EXTENDS Integers, FiniteSetTheorems, TLAPS

\* A set of natural numbers that is not empty has a least element.
LEMMA LeastNumber ==
  ASSUME NEW T \in SUBSET Nat, T # {}
  PROVE  \E m \in T : \A n \in T : m <= n
<1> DEFINE F == {0..n : n \in T}
<1>1. \A n \in Nat : 0..n \in FiniteSubsetsOf(Nat)
  BY FS_Interval DEF FiniteSubsetsOf
<1>2. F \subseteq FiniteSubsetsOf(Nat) /\ F # {}
  BY <1>1
<1> HIDE DEF F
<1>3. PICK s \in F : \A t \in F : ~ (<<t, s>> \in StrictSubsetOrdering(Nat))
  BY <1>2, FS_StrictSubsetOrderingWellFounded, WFMin, Zenon
<1>4. PICK m \in T : s = 0..m
  BY <1>3 DEF F
<1>5. ASSUME NEW n \in T, n < m PROVE FALSE
  <2>1. 0..n \in F
    BY DEF F
  <2>2. (0..n) \subseteq (0..m) /\ (0..n) # (0..m) /\ (0..n) \subseteq Nat /\ (0..m) \subseteq Nat
    BY <1>5
  <2>3. <<0..n, 0..m>> \in StrictSubsetOrdering(Nat)
    BY <2>2 DEF StrictSubsetOrdering
  <2> QED BY <1>3, <1>4, <2>1, <2>3
<1> QED BY <1>5

\* One that has a bound has a greatest element.
LEMMA GreatestNumber ==
  ASSUME NEW T \in SUBSET Nat, T # {}, NEW b \in Nat, \A n \in T : n <= b
  PROVE  \E m \in T : \A n \in T : n <= m
<1> DEFINE U == {b - n : n \in T}
<1>1. \A n \in T : n \in Nat /\ b - n \in Nat
  OBVIOUS
<1>2. U \in SUBSET Nat /\ U # {}
  BY <1>1
<1> HIDE DEF U
<1>3. PICK k \in U : \A n \in U : k <= n
  BY <1>2, LeastNumber
<1>4. PICK m \in T : k = b - m
  BY <1>3 DEF U
<1>5. ASSUME NEW n \in T PROVE n <= m
  <2>1. b - n \in U
    BY DEF U
  <2> QED BY <1>1, <1>3, <1>4, <2>1
<1> QED BY <1>5

\* What CHOOSE picks, of a set with a bound and of any set.
LEMMA ChosenGreatest ==
  ASSUME NEW T \in SUBSET Nat, T # {}, NEW b \in Nat, \A n \in T : n <= b
  PROVE  /\ (CHOOSE m \in T : \A n \in T : n <= m) \in T
         /\ \A n \in T : n <= (CHOOSE m \in T : \A k \in T : k <= m)
<1>1. \E m \in T : \A n \in T : n <= m
  BY GreatestNumber
<1> QED BY <1>1, Zenon

LEMMA ChosenLeast ==
  ASSUME NEW T \in SUBSET Nat, T # {}
  PROVE  /\ (CHOOSE m \in T : \A n \in T : m <= n) \in T
         /\ \A n \in T : (CHOOSE m \in T : \A k \in T : m <= k) <= n
<1>1. \E m \in T : \A n \in T : m <= n
  BY LeastNumber
<1> QED BY <1>1, Zenon

\* Induction, said of a set: what holds of 0 and is passed on holds of all.
LEMMA Induction ==
  ASSUME NEW T \in SUBSET Nat, 0 \in T, \A n \in T : n + 1 \in T
  PROVE  T = Nat
<1> SUFFICES ASSUME Nat \ T # {} PROVE FALSE
  OBVIOUS
<1>1. PICK m \in Nat \ T : \A n \in Nat \ T : m <= n
  BY LeastNumber
<1>2. m - 1 \in Nat /\ m - 1 < m /\ m = (m - 1) + 1
  BY <1>1
<1>3. m - 1 \in T
  BY <1>1, <1>2
<1> QED BY <1>1, <1>2, <1>3

\* The functions that begin with b and go on by the steps g, up to N.
Unfolded(S, b, g, N) ==
  {f \in [0..N -> S] : f[0] = b /\ \A n \in 1..N : f[n] = g[n][f[n - 1]]}

\* Recursion: there is a function that begins with b and goes on by the steps g,
\* up to any number. The functions up to two numbers agree, so each is found by
\* adding one value to the one before.
LEMMA Recursion ==
  ASSUME NEW S, NEW b \in S, NEW g \in [Nat -> [S -> S]], NEW N \in Nat
  PROVE  Unfolded(S, b, g, N) # {}
<1> DEFINE T == {n \in Nat : \E f \in [0..n -> S] : f[0] = b /\ \A m \in 1..n : f[m] = g[m][f[m - 1]]}
<1>1. 0 \in T
  <2> DEFINE f == [m \in 0..0 |-> b]
  <2>1. f \in [0..0 -> S] /\ f[0] = b /\ \A m \in 1..0 : f[m] = g[m][f[m - 1]]
    OBVIOUS
  <2> HIDE DEF f
  <2> QED BY <2>1
<1>2. ASSUME NEW n \in T PROVE n + 1 \in T
  <2>1. PICK f \in [0..n -> S] : f[0] = b /\ \A m \in 1..n : f[m] = g[m][f[m - 1]]
    OBVIOUS
  <2>2. n \in Nat /\ n + 1 \in Nat
    OBVIOUS
  <2> HIDE DEF T
  <2> DEFINE h == [m \in 0..(n + 1) |-> IF m = n + 1 THEN g[n + 1][f[n]] ELSE f[m]]
  <2>3. f[n] \in S /\ g[n + 1] \in [S -> S] /\ g[n + 1][f[n]] \in S
    BY <2>2
  <2>4. \A m \in 0..(n + 1) : m # n + 1 => m \in 0..n /\ f[m] \in S
    BY <2>2
  <2>5. h \in [0..(n + 1) -> S]
    BY <2>3, <2>4
  <2>6. h[n + 1] = g[n + 1][f[n]] /\ \A m \in 0..n : h[m] = f[m]
    BY <2>2
  <2> HIDE DEF h
  <2>7. ASSUME NEW m \in 1..(n + 1) PROVE h[m] = g[m][h[m - 1]]
    <3>1. m - 1 \in 0..n /\ (m = n + 1 => m - 1 = n) /\ (m # n + 1 => m \in 1..n /\ m \in 0..n)
      BY <2>2
    <3> QED BY <2>1, <2>6, <3>1
  <2>8. h[0] = b
    BY <2>1, <2>2, <2>6
  <2> QED BY <2>2, <2>5, <2>7, <2>8 DEF T
<1>3. T = Nat
  <2> HIDE DEF T
  <2>1. T \in SUBSET Nat
    BY DEF T
  <2> QED BY <1>1, <1>2, <2>1, Induction
<1> QED BY <1>3 DEF Unfolded
=============================================================================

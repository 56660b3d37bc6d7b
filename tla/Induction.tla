----------------------------- MODULE Induction ------------------------------
(***************************************************************************)
(* Induction without operator parameters: what has to be shown for all     *)
(* numbers is written as a set of numbers.  And what FlattenSeq of the     *)
(* community modules, which is defined by recursion, returns.              *)
(***************************************************************************)
EXTENDS Integers, SequencesExt, SequenceTheorems, FiniteSetTheorems, TLAPS

(***************************************************************************)
(* Every set of natural numbers that is not empty has a least element: the *)
(* intervals 0..n, n in the set, are well-founded under strict inclusion.  *)
(***************************************************************************)
LEMMA LeastNat ==
  ASSUME NEW T \in SUBSET Nat, T # {}
  PROVE  \E m \in T : \A k \in T : m <= k
<1> DEFINE Upto(n) == 0..n
           U == {Upto(n) : n \in T}
           R == StrictSubsetOrdering(Nat)
<1>1. IsWellFoundedOn(R, FiniteSubsetsOf(Nat))
  BY FS_StrictSubsetOrderingWellFounded
<1>2. U \subseteq FiniteSubsetsOf(Nat) /\ U # {}
  <2>1. \A n \in T : Upto(n) \in SUBSET Nat /\ IsFiniteSet(Upto(n))
    BY FS_Interval
  <2>2. QED
    BY <2>1 DEF FiniteSubsetsOf
<1>3. PICK x \in U : \A y \in U : <<y, x>> \notin R
  <2> HIDE DEF U, R
  <2> QED
    BY <1>1, <1>2, WFMin
<1>4. PICK m \in T : x = Upto(m)
  OBVIOUS
<1>5. ASSUME NEW k \in T, k < m PROVE FALSE
  <2>1. /\ Upto(k) \subseteq Upto(m) /\ Upto(k) # Upto(m)
        /\ Upto(k) \in SUBSET Nat /\ Upto(m) \in SUBSET Nat
    <3>1. m \in Upto(m) /\ m \notin Upto(k)
      BY <1>5
    <3>2. QED
      BY <1>5, <3>1
  <2>2. <<Upto(k), Upto(m)>> \in R
    BY <2>1 DEF StrictSubsetOrdering
  <2>3. QED
    BY <1>3, <1>4, <2>2
<1>6. QED
  BY <1>5

\* A set with 0, and with n + 1 if with n, has all natural numbers.
LEMMA NatInduct ==
  ASSUME NEW S, 0 \in S, \A n \in Nat : n \in S => n + 1 \in S
  PROVE  \A n \in Nat : n \in S
<1>1. SUFFICES ASSUME Nat \ S # {} PROVE FALSE
  OBVIOUS
<1>2. PICK m \in Nat \ S : \A k \in Nat \ S : m <= k
  BY <1>1, LeastNat
<1>3. m # 0 /\ m - 1 \in Nat /\ m - 1 < m
  BY <1>2
<1>4. m - 1 \in S
  BY <1>2, <1>3
<1>5. (m - 1) + 1 \in S
  BY <1>3, <1>4
<1>6. QED
  BY <1>2, <1>5

\* Min of a set of natural numbers is its least element.
LEMMA MinNat ==
  ASSUME NEW T \in SUBSET Nat, T # {}
  PROVE  Min(T) \in T /\ \A k \in T : Min(T) <= k
BY LeastNat DEF Min

\* The concatenation of sequences of elements of S is one.
LEMMA FlattenType ==
  ASSUME NEW S, NEW s \in Seq(Seq(S))
  PROVE  FlattenSeq(s) \in Seq(S)
<1> DEFINE E(m, f) == [i \in 1..m |-> IF i = 1 THEN s[i] ELSE f[i - 1] \o s[i]]
           P(m) == m <= Len(s) => \E f \in [1..m -> Seq(S)] : f = E(m, f)
           F == CHOOSE f : f = E(Len(s), f)
           Good(m) == m <= Len(s) => m = 0 \/ F[m] \in Seq(S)
<1>1. Len(s) \in Nat /\ \A i \in 1..Len(s) : s[i] \in Seq(S)
  BY ElementOfSeq
<1>2. P(0)
  <2> SUFFICES \E f \in [1..0 -> Seq(S)] : f = E(0, f)
    OBVIOUS
  <2> DEFINE f == [i \in 1..0 |-> <<>>]
  <2>1. \A i \in 1..0 : FALSE
    OBVIOUS
  <2>2. f \in [1..0 -> Seq(S)] /\ f = E(0, f)
    BY <2>1
  <2>3. QED
    BY <2>2
<1>3. ASSUME NEW m \in Nat, P(m) PROVE P(m + 1)
  <2> SUFFICES ASSUME m + 1 <= Len(s)
               PROVE  \E f \in [1..(m + 1) -> Seq(S)] : f = E(m + 1, f)
    OBVIOUS
  <2>1. PICK f \in [1..m -> Seq(S)] : f = E(m, f)
    <3>1. m <= Len(s)
      BY <1>1
    <3>2. QED
      BY <1>3, <3>1
  <2> DEFINE g == E(m + 1, f)
  <2>2. \A i \in 1..m : f[i] = IF i = 1 THEN s[i] ELSE f[i - 1] \o s[i]
    BY <2>1
  <2>3. ASSUME NEW i \in 1..m PROVE g[i] = f[i]
    <3>1. i \in 1..(m + 1)
      OBVIOUS
    <3>2. g[i] = IF i = 1 THEN s[i] ELSE f[i - 1] \o s[i]
      BY <3>1
    <3>3. QED
      BY <2>2, <3>2
  <2>4. ASSUME NEW i \in 1..(m + 1) PROVE g[i] \in Seq(S)
    <3>1. s[i] \in Seq(S)
      BY <1>1
    <3>2. CASE i # 1
      <4>1. i - 1 \in 1..m
        BY <3>2
      <4>2. g[i] = IF i = 1 THEN s[i] ELSE f[i - 1] \o s[i]
        OBVIOUS
      <4>3. QED
        BY <2>1, <3>1, <3>2, <4>1, <4>2, ConcatProperties
    <3>3. QED
      BY <3>1, <3>2
  <2>5. g \in [1..(m + 1) -> Seq(S)]
    BY <2>4
  <2>6. \A i \in 1..(m + 1) : g[i] = E(m + 1, g)[i]
    <3> SUFFICES ASSUME NEW i \in 1..(m + 1)
                 PROVE  g[i] = IF i = 1 THEN s[i] ELSE g[i - 1] \o s[i]
      OBVIOUS
    <3>1. i # 1 => i - 1 \in 1..m
      OBVIOUS
    <3>2. g[i] = IF i = 1 THEN s[i] ELSE f[i - 1] \o s[i]
      OBVIOUS
    <3>3. QED
      BY <2>3, <3>1, <3>2
  <2>7. g = E(m + 1, g)
    BY <2>6
  <2>8. QED
    BY <2>5, <2>7
<1>4. \A m \in Nat : P(m)
  <2> DEFINE T == {m \in Nat : P(m)}
  <2> HIDE DEF P
  <2>1. 0 \in T /\ \A m \in Nat : m \in T => m + 1 \in T
    BY <1>2, <1>3
  <2>2. \A m \in Nat : m \in T
    <3> HIDE DEF T
    <3> QED
      BY <2>1, NatInduct
  <2>3. QED
    BY <2>2
<1>5. \E f : f = E(Len(s), f)
  <2>1. P(Len(s))
    <3> HIDE DEF P
    <3> QED
      BY <1>1, <1>4
  <2>2. Len(s) <= Len(s)
    BY <1>1
  <2>3. QED
    BY <2>1, <2>2
<1>6. F = E(Len(s), F)
  <2> HIDE DEF E
  <2> QED
    BY <1>5
<1>7. \A i \in 1..Len(s) : F[i] = IF i = 1 THEN s[i] ELSE F[i - 1] \o s[i]
  <2> HIDE DEF F
  <2> QED
    BY <1>6
<1>8. \A m \in Nat : Good(m)
  <2> HIDE DEF F
  <2>1. ASSUME NEW m \in Nat, Good(m) PROVE Good(m + 1)
    <3> SUFFICES ASSUME m + 1 <= Len(s) PROVE F[m + 1] \in Seq(S)
      OBVIOUS
    <3>1. m + 1 \in 1..Len(s) /\ s[m + 1] \in Seq(S)
      BY <1>1
    <3>2. CASE m = 0
      BY <1>7, <3>1, <3>2
    <3>3. CASE m # 0
      <4>1. F[m] \in Seq(S) /\ (m + 1) - 1 = m
        BY <1>1, <2>1, <3>3
      <4>2. F[m + 1] = F[m] \o s[m + 1]
        <5>1. F[m + 1] = IF m + 1 = 1 THEN s[m + 1] ELSE F[(m + 1) - 1] \o s[m + 1]
          BY <1>7, <3>1
        <5>2. m + 1 # 1
          BY <3>3
        <5>3. QED
          BY <4>1, <5>1, <5>2, Zenon
      <4>3. QED
        BY <3>1, <4>1, <4>2, ConcatProperties
    <3>4. QED
      BY <3>2, <3>3
  <2> DEFINE T == {m \in Nat : Good(m)}
  <2> HIDE DEF Good
  <2>2. Good(0)
    BY DEF Good
  <2>3. 0 \in T /\ \A m \in Nat : m \in T => m + 1 \in T
    BY <2>1, <2>2
  <2>4. \A m \in Nat : m \in T
    <3> HIDE DEF T
    <3> QED
      BY <2>3, NatInduct
  <2>5. QED
    BY <2>4
<1>9. CASE Len(s) = 0
  <2>1. s = <<>> /\ FlattenSeq(s) = s
    BY <1>9, EmptySeq DEF FlattenSeq
  <2>2. QED
    BY <2>1, EmptySeq
<1>10. CASE Len(s) # 0
  <2>1. FlattenSeq(s) = F[Len(s)]
    BY <1>10 DEF FlattenSeq
  <2>2. Good(Len(s)) /\ Len(s) <= Len(s)
    <3> HIDE DEF Good
    <3> QED
      BY <1>1, <1>8
  <2>3. QED
    BY <1>10, <2>1, <2>2
<1>11. QED
  BY <1>9, <1>10

(***************************************************************************)
(* Recursion from the right.  Entry k of X is a sequence of its own,       *)
(* piece[k], and behind it an entry further right, next[k]; the entry      *)
(* behind the last is empty.                                               *)
(***************************************************************************)
Unfolds(X, m, L, piece, next) ==
  \A k \in m..(L + 1) : X[k] = IF k > L THEN <<>> ELSE piece[k] \o X[next[k]]

\* Such a function exists.
LEMMA BackwardExists ==
  ASSUME NEW S, NEW L \in Nat, NEW piece \in [1..L -> Seq(S)], NEW next \in [1..L -> Nat],
         \A k \in 1..L : k < next[k] /\ next[k] <= L + 1
  PROVE  \E X \in [1..(L + 1) -> Seq(S)] : Unfolds(X, 1, L, piece, next)
<1> DEFINE D(m) == m..(L + 1)
           Q(m) == \E X \in [D(m) -> Seq(S)] : Unfolds(X, m, L, piece, next)
           T == {n \in Nat : n <= L => Q(L + 1 - n)}
<1>1. Q(L + 1)
  <2> DEFINE X == [k \in D(L + 1) |-> <<>>]
  <2>1. \A k \in D(L + 1) : k = L + 1 /\ k > L
    OBVIOUS
  <2>2. X \in [D(L + 1) -> Seq(S)] /\ Unfolds(X, L + 1, L, piece, next)
    BY <2>1 DEF Unfolds
  <2>3. QED
    BY <2>2
<1>2. ASSUME NEW m \in 1..L, Q(m + 1) PROVE Q(m)
  <2>1. PICK X \in [D(m + 1) -> Seq(S)] : Unfolds(X, m + 1, L, piece, next)
    BY <1>2
  <2> DEFINE Y == [k \in D(m) |-> IF k = m THEN piece[m] \o X[next[m]] ELSE X[k]]
  <2>2. next[m] \in D(m + 1) /\ piece[m] \in Seq(S) /\ X[next[m]] \in Seq(S)
    BY <2>1
  <2>3. piece[m] \o X[next[m]] \in Seq(S)
    BY <2>2, ConcatProperties
  <2>4. \A k \in D(m) : k = m \/ k \in D(m + 1)
    OBVIOUS
  <2>5. Y \in [D(m) -> Seq(S)]
    BY <2>1, <2>3, <2>4
  <2>6. \A k \in D(m + 1) : k \in D(m) /\ k # m /\ Y[k] = X[k]
    OBVIOUS
  <2>7. Y[m] = piece[m] \o Y[next[m]] /\ ~(m > L)
    <3>1. m \in D(m)
      OBVIOUS
    <3>2. Y[m] = piece[m] \o X[next[m]]
      BY <3>1
    <3>3. Y[next[m]] = X[next[m]]
      BY <2>2, <2>6
    <3>4. Y[m] = piece[m] \o Y[next[m]]
      <4> HIDE DEF Y
      <4>1. QED
        BY ONLY <3>2, <3>3
    <3>5. ~(m > L)
      OBVIOUS
    <3>6. QED
      BY ONLY <3>4, <3>5
  <2>8. ASSUME NEW k \in D(m + 1)
        PROVE  Y[k] = IF k > L THEN <<>> ELSE piece[k] \o Y[next[k]]
    <3>1. X[k] = IF k > L THEN <<>> ELSE piece[k] \o X[next[k]]
      BY <2>1 DEF Unfolds
    <3>2. k <= L => next[k] \in D(m + 1)
      <4>1. k <= L => k \in 1..L
        OBVIOUS
      <4>2. QED
        BY <4>1
    <3>3. Y[k] = X[k] /\ (k <= L => Y[next[k]] = X[next[k]])
      BY <2>6, <3>2
    <3>4. k > L \/ k <= L
      OBVIOUS
    <3> HIDE DEF Y, D
    <3>5. QED
      BY <3>1, <3>3, <3>4, Zenon
  <2> HIDE DEF Y
  <2>9. Unfolds(Y, m, L, piece, next)
    BY <2>4, <2>7, <2>8 DEF Unfolds
  <2>10. QED
    BY <2>5, <2>9
<1> HIDE DEF Q
<1>3. 0 \in T
  BY <1>1
<1>4. ASSUME NEW n \in Nat, n \in T PROVE n + 1 \in T
  <2> SUFFICES ASSUME n + 1 <= L PROVE Q(L + 1 - (n + 1))
    OBVIOUS
  <2>1. Q(L + 1 - n)
    BY <1>4
  <2> DEFINE m == L + 1 - (n + 1)
  <2>2. m \in 1..L /\ m + 1 = L + 1 - n
    OBVIOUS
  <2> HIDE DEF m
  <2>3. Q(m)
    BY <1>2, <2>1, <2>2
  <2>4. QED
    BY <2>3 DEF m
<1>5. \A n \in Nat : n \in T
  <2> HIDE DEF T
  <2> QED
    BY <1>3, <1>4, NatInduct
<1>6. Q(1)
  <2>1. L \in T
    BY <1>5
  <2>2. L + 1 - L = 1 /\ L <= L
    OBVIOUS
  <2>3. QED
    BY <2>1, <2>2
<1>7. QED
  BY <1>6 DEF Q

\* Whatever unfolds so has sequences of S for entries.
LEMMA BackwardType ==
  ASSUME NEW S, NEW L \in Nat, NEW piece \in [1..L -> Seq(S)], NEW next \in [1..L -> Nat],
         \A k \in 1..L : k < next[k] /\ next[k] <= L + 1,
         NEW X, Unfolds(X, 1, L, piece, next)
  PROVE  \A k \in 1..(L + 1) : X[k] \in Seq(S)
<1> DEFINE Good(m) == \A k \in m..(L + 1) : X[k] \in Seq(S)
           T == {n \in Nat : n <= L => Good(L + 1 - n)}
<1>0. \A k \in 1..(L + 1) : X[k] = IF k > L THEN <<>> ELSE piece[k] \o X[next[k]]
  BY DEF Unfolds
<1>1. Good(L + 1)
  <2>1. L + 1 \in 1..(L + 1) /\ L + 1 > L /\ \A k \in (L + 1)..(L + 1) : k = L + 1
    OBVIOUS
  <2>2. X[L + 1] = <<>> /\ <<>> \in Seq(S)
    BY <1>0, <2>1
  <2>3. QED
    BY <2>1, <2>2
<1>2. ASSUME NEW m \in 1..L, Good(m + 1) PROVE Good(m)
  <2>1. X[m] = piece[m] \o X[next[m]]
    <3>1. m \in 1..(L + 1) /\ ~(m > L)
      OBVIOUS
    <3>2. QED
      BY <1>0, <3>1
  <2>2. next[m] \in (m + 1)..(L + 1)
    OBVIOUS
  <2>3. X[next[m]] \in Seq(S) /\ piece[m] \in Seq(S)
    BY <1>2, <2>2
  <2>4. X[m] \in Seq(S)
    BY <2>1, <2>3, ConcatProperties
  <2>5. \A k \in m..(L + 1) : k = m \/ k \in (m + 1)..(L + 1)
    OBVIOUS
  <2>6. QED
    BY <1>2, <2>4, <2>5
<1> HIDE DEF Good
<1>3. 0 \in T
  BY <1>1
<1>4. ASSUME NEW n \in Nat, n \in T PROVE n + 1 \in T
  <2> SUFFICES ASSUME n + 1 <= L PROVE Good(L + 1 - (n + 1))
    OBVIOUS
  <2>1. Good(L + 1 - n)
    BY <1>4
  <2> DEFINE m == L + 1 - (n + 1)
  <2>2. m \in 1..L /\ m + 1 = L + 1 - n
    OBVIOUS
  <2> HIDE DEF m
  <2>3. Good(m)
    BY <1>2, <2>1, <2>2
  <2>4. QED
    BY <2>3 DEF m
<1>5. \A n \in Nat : n \in T
  <2> HIDE DEF T
  <2> QED
    BY <1>3, <1>4, NatInduct
<1>6. Good(1)
  <2>1. L \in T
    BY <1>5
  <2>2. L + 1 - L = 1 /\ L <= L
    OBVIOUS
  <2>3. QED
    BY <2>1, <2>2
<1>7. QED
  BY <1>6 DEF Good
=============================================================================

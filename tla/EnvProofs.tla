----------------------------- MODULE EnvProofs -----------------------------
(***************************************************************************)
(* Proofs about module Env: its invariants, and that the array implements  *)
(* the function of module EnvMap, for every set of names and values, every *)
(* inherited environment and every list of arguments.                      *)
(***************************************************************************)
EXTENDS Env, TLAPS

-----------------------------------------------------------------------------
(***************************************************************************)
(* The array.                                                              *)
(***************************************************************************)
\* In an array without duplicates the first place of a name is its place.
LEMMA OnlyPlace ==
  ASSUME NEW e \in Seq(Binding), Distinct(e), NEW k \in 1..Len(e)
  PROVE  /\ FirstPlace(e, e[k].name) = k
         /\ Lookup(e, e[k].name) = e[k].value
<1> DEFINE n == e[k].name
<1>1. \A l \in Places(e, n) : l = k
  BY DEF Places, Distinct
<1>2. k \in Places(e, n)
  BY DEF Places
<1>3. \A l \in Places(e, n) : k <= l
  BY <1>1
<1>4. FirstPlace(e, n) \in Places(e, n)
  BY <1>2, <1>3 DEF FirstPlace
<1> QED
  BY <1>1, <1>2, <1>4 DEF Lookup

\* get_env_value finds exactly what the array holds (get_env_value).
LEMMA LookupFinds ==
  ASSUME NEW e \in Seq(Binding), Distinct(e), NEW n \in Name, NEW v \in Value
  PROVE  Lookup(e, n) = v <=> \E k \in 1..Len(e) : e[k] = Bind(n, v)
<1>1. CASE Places(e, n) = {}
  <2>1. Lookup(e, n) = Unset /\ Unset # v
    BY <1>1, ValuesAssumption DEF Lookup, Unset
  <2>2. ~ \E k \in 1..Len(e) : e[k] = Bind(n, v)
    BY <1>1 DEF Places, Bind
  <2> QED
    BY <2>1, <2>2
<1>2. CASE Places(e, n) # {}
  <2>1. PICK k \in 1..Len(e) : e[k].name = n
    BY <1>2 DEF Places
  <2>2. Lookup(e, n) = e[k].value
    BY <2>1, OnlyPlace
  <2>3. e[k] \in Binding
    OBVIOUS
  <2>4. e[k] = Bind(n, v) <=> e[k].value = v
    BY <2>1, <2>3 DEF Binding, Bind
  <2>5. \A l \in 1..Len(e) : e[l] = Bind(n, v) => l = k
    BY <2>1 DEF Distinct, Bind
  <2> QED
    BY <2>2, <2>4, <2>5
<1> QED
  BY <1>1, <1>2

\* What get_env_value returns is a value or nothing.
LEMMA LookupType ==
  ASSUME NEW e \in Seq(Binding), Distinct(e), NEW n \in Name
  PROVE  /\ Lookup(e, n) \in Value \cup {Unset}
         /\ Places(e, n) = {} => Lookup(e, n) = Unset
<1>1. CASE Places(e, n) = {}
  BY <1>1 DEF Lookup
<1>2. CASE Places(e, n) # {}
  <2>1. PICK k \in 1..Len(e) : e[k].name = n
    BY <1>2 DEF Places
  <2>2. e[k] \in Binding
    OBVIOUS
  <2> QED
    BY <1>2, <2>1, <2>2, OnlyPlace DEF Binding
<1> QED
  BY <1>1, <1>2

\* Two arrays that bind a name alike look it up alike.
LEMMA LookupSame ==
  ASSUME NEW e \in Seq(Binding), Distinct(e), NEW f \in Seq(Binding), Distinct(f),
         NEW n \in Name,
         \A v \in Value : (\E k \in 1..Len(e) : e[k] = Bind(n, v))
                            <=> (\E k \in 1..Len(f) : f[k] = Bind(n, v))
  PROVE  Lookup(e, n) = Lookup(f, n)
<1>1. \A v \in Value : Lookup(e, n) = v <=> Lookup(f, n) = v
  BY LookupFinds
<1>2. Lookup(e, n) \in Value \cup {Unset} /\ Lookup(f, n) \in Value \cup {Unset}
  BY LookupType
<1> QED
  BY <1>1, <1>2

\* update_env binds the name it is given and no other, without a duplicate.
LEMMA UpdatedBinds ==
  ASSUME NEW e \in Seq(Binding), Distinct(e), NEW n \in Name, NEW v \in Value
  PROVE  /\ Updated(e, n, v) \in Seq(Binding)
         /\ Distinct(Updated(e, n, v))
         /\ \A m \in Name : Lookup(Updated(e, n, v), m) = IF m = n THEN v ELSE Lookup(e, m)
<1> DEFINE u == Updated(e, n, v)
<1>b. Bind(n, v) \in Binding /\ Bind(n, v).name = n
  BY DEF Binding, Bind
<1>1. CASE Places(e, n) = {}
  <2>1. u = Append(e, Bind(n, v))
    BY <1>1 DEF Updated
  <2>2. /\ u \in Seq(Binding) /\ Len(u) = Len(e) + 1
        /\ u[Len(e) + 1] = Bind(n, v)
        /\ \A k \in 1..Len(e) : u[k] = e[k]
    BY <2>1, <1>b
  <2>3. \A k \in 1..Len(e) : e[k].name # n
    BY <1>1 DEF Places
  <2>4. Distinct(u)
    BY <2>2, <2>3, <1>b DEF Distinct
  <2>5. Lookup(u, n) = v
    BY <2>2, <2>4, LookupFinds
  <2>6. ASSUME NEW m \in Name, m # n PROVE Lookup(u, m) = Lookup(e, m)
    <3>1. \A w \in Value : Bind(m, w) # Bind(n, v)
      BY <2>6 DEF Bind
    <3>2. \A w \in Value : (\E k \in 1..Len(e) : e[k] = Bind(m, w))
                            <=> (\E k \in 1..Len(u) : u[k] = Bind(m, w))
      BY <3>1, <2>2
    <3> QED
      BY <3>2, <2>2, <2>4, LookupSame
  <2> QED
    BY <2>2, <2>4, <2>5, <2>6
<1>2. CASE Places(e, n) # {}
  <2>1. PICK p \in 1..Len(e) : e[p].name = n
    BY <1>2 DEF Places
  <2>2. u = [e EXCEPT ![p] = Bind(n, v)]
    BY <1>2, <2>1, OnlyPlace DEF Updated
  <2>3. /\ u \in Seq(Binding) /\ Len(u) = Len(e)
        /\ u[p] = Bind(n, v)
        /\ \A k \in 1..Len(e) : k # p => u[k] = e[k]
    BY <2>2, <1>b
  <2>4. \A k \in 1..Len(e) : u[k].name = e[k].name
    BY <2>1, <2>3, <1>b
  <2>5. Distinct(u)
    BY <2>3, <2>4 DEF Distinct
  <2>6. Lookup(u, n) = v
    BY <2>3, <2>5, LookupFinds
  <2>7. ASSUME NEW m \in Name, m # n PROVE Lookup(u, m) = Lookup(e, m)
    <3>1. \A w \in Value : Bind(m, w) # u[p] /\ Bind(m, w) # e[p]
      BY <2>7, <2>1, <2>3 DEF Bind
    <3>2. \A w \in Value : (\E k \in 1..Len(e) : e[k] = Bind(m, w))
                            <=> (\E k \in 1..Len(u) : u[k] = Bind(m, w))
      BY <3>1, <2>3
    <3> QED
      BY <3>2, <2>3, <2>5, LookupSame
  <2> QED
    BY <2>3, <2>5, <2>6, <2>7
<1> QED
  BY <1>1, <1>2

\* find_and_remove_var takes out the name it is given and no other.
LEMMA RemovedUnbinds ==
  ASSUME NEW e \in Seq(Binding), Distinct(e), NEW n \in Name
  PROVE  /\ Removed(e, n) \in Seq(Binding)
         /\ Distinct(Removed(e, n))
         /\ \A m \in Name : Lookup(Removed(e, n), m) = IF m = n THEN Unset ELSE Lookup(e, m)
<1> DEFINE r == Removed(e, n)
<1>1. CASE Places(e, n) = {}
  BY <1>1, LookupType DEF Removed
<1>2. CASE Places(e, n) # {}
  <2>1. PICK p \in 1..Len(e) : e[p].name = n
    BY <1>2 DEF Places
  <2>2. r = [m \in 1..(Len(e) - 1) |-> IF m < p THEN e[m] ELSE e[m + 1]]
    BY <1>2, <2>1, OnlyPlace DEF Removed, Shifted
  <2>3. Len(e) - 1 \in Nat
    OBVIOUS
  <2>4. /\ r \in Seq(Binding) /\ Len(r) = Len(e) - 1
        /\ \A k \in 1..(Len(e) - 1) : r[k] = IF k < p THEN e[k] ELSE e[k + 1]
    BY <2>2, <2>3
  <2>5. Distinct(r)
    BY <2>4 DEF Distinct
  <2>6. \A k \in 1..Len(r) : r[k].name # n
    BY <2>1, <2>4 DEF Distinct
  <2>7. Lookup(r, n) = Unset
    BY <2>6 DEF Lookup, Places
  <2>8. ASSUME NEW m \in Name, m # n PROVE Lookup(r, m) = Lookup(e, m)
    <3>1. ASSUME NEW w \in Value, NEW k \in 1..Len(e), e[k] = Bind(m, w)
          PROVE  \E l \in 1..Len(r) : r[l] = Bind(m, w)
      <4>1. k # p
        BY <3>1, <2>1, <2>8 DEF Bind
      <4>2. CASE k < p
        BY <4>2, <3>1, <2>4
      <4>3. CASE k > p
        <5>1. k - 1 \in 1..Len(r) /\ r[k - 1] = e[k]
          BY <4>3, <2>4
        <5> QED
          BY <5>1, <3>1
      <4> QED
        BY <4>1, <4>2, <4>3
    <3>2. ASSUME NEW w \in Value, NEW k \in 1..Len(r), r[k] = Bind(m, w)
          PROVE  \E l \in 1..Len(e) : e[l] = Bind(m, w)
      <4>1. k \in 1..Len(e) /\ k + 1 \in 1..Len(e)
        BY <2>4
      <4> QED
        BY <4>1, <3>2, <2>4
    <3> QED
      BY <3>1, <3>2, <2>4, <2>5, LookupSame
  <2> QED
    BY <2>4, <2>5, <2>7, <2>8
<1> QED
  BY <1>1, <1>2

-----------------------------------------------------------------------------
(***************************************************************************)
(* The sort.                                                               *)
(***************************************************************************)
\* The order of ft_strcmp is total and transitive.
LEMMA Order ==
  ASSUME NEW a \in Binding, NEW b \in Binding, NEW c \in Binding
  PROVE  /\ After(a, b) => ~After(b, a)
         /\ ~After(a, b) /\ ~After(b, c) => ~After(a, c)
<1>1. /\ a.name \in Nat /\ b.name \in Nat /\ c.name \in Nat
      /\ a.value \in Nat /\ b.value \in Nat /\ c.value \in Nat
  BY NamesAssumption, ValuesAssumption DEF Binding
<1> QED
  BY <1>1 DEF After

\* The array l with places p and p + 1 swapped.
Swapped(l, p) == [l EXCEPT ![p] = l[p + 1], ![p + 1] = l[p]]

\* A swap keeps the strings of the array (swap_if_needed).
LEMMA SwapKeeps ==
  ASSUME NEW l \in Seq(Binding), NEW p \in 1..(Len(l) - 1), Distinct(l)
  PROVE  LET m == Swapped(l, p) IN
         /\ m \in Seq(Binding) /\ Len(m) = Len(l)
         /\ m[p] = l[p + 1] /\ m[p + 1] = l[p]
         /\ \A k \in 1..Len(l) : k # p /\ k # p + 1 => m[k] = l[k]
         /\ Distinct(m)
         /\ \A b \in Binding : (\E k \in 1..Len(m) : m[k] = b) <=> (\E k \in 1..Len(l) : l[k] = b)
<1> DEFINE m == Swapped(l, p)
<1>1. p \in 1..Len(l) /\ p + 1 \in 1..Len(l) /\ p # p + 1
  OBVIOUS
<1>2. m \in Seq(Binding) /\ Len(m) = Len(l)
  BY <1>1 DEF Swapped
<1>3. m[p] = l[p + 1] /\ m[p + 1] = l[p]
  BY <1>1 DEF Swapped
<1>4. \A k \in 1..Len(l) : k # p /\ k # p + 1 => m[k] = l[k]
  BY <1>1 DEF Swapped
<1> HIDE DEF m
<1>5. Distinct(m)
  BY <1>1, <1>2, <1>3, <1>4 DEF Distinct
<1>6. \A b \in Binding : (\E k \in 1..Len(m) : m[k] = b) <=> (\E k \in 1..Len(l) : l[k] = b)
  BY <1>1, <1>2, <1>3, <1>4
<1> QED
  BY <1>2, <1>3, <1>4, <1>5, <1>6 DEF m

Inv == TypeOK /\ NoDuplicates /\ SortInv

\* The inner loop of bubble_sort_env keeps the invariant of the sort.
LEMMA CompareKeeps == Inv /\ Compare => TypeOK' /\ SortInv'
<1> SUFFICES ASSUME Inv, Compare PROVE TypeOK' /\ SortInv'
  OBVIOUS
<1> DEFINE p == j + 1
<1>1. /\ call = "sort" /\ list \in Seq(Binding) /\ i \in Nat /\ j \in Nat
      /\ env \in Seq(Binding)
      /\ i < Count - 1 /\ j < Count - i - 1 /\ Count \in Nat
      /\ call' = call /\ env' = env /\ i' = i /\ j' = p
  BY DEF Inv, TypeOK, Compare, Count
<1>2. /\ SameStrings /\ NoSwap
      /\ \A k \in 1..j : ~After(list[k], list[p])
      /\ \A k, l \in 1..Count : (k < l /\ l > Count - i) => ~After(list[k], list[l])
  BY <1>1 DEF Inv, SortInv, Greatest, Settled
<1>3. p \in 1..(Count - 1) /\ p \in 1..Count /\ p + 1 \in 1..Count /\ p = j + 1
  BY <1>1
<1>4. \A k \in 1..Count : list[k] \in Binding
  BY <1>1 DEF Count
<1>5. CASE After(list[p], list[p + 1])
  <2>1. list' = Swapped(list, p)
    BY <1>1, <1>5 DEF Compare, Swapped
  <2>2. swapped' = TRUE
    BY <1>1, <1>5 DEF Compare
  <2>3. /\ list' \in Seq(Binding) /\ Len(list') = Len(list)
        /\ list'[p] = list[p + 1] /\ list'[p + 1] = list[p]
        /\ \A k \in 1..Len(list) : k # p /\ k # p + 1 => list'[k] = list[k]
        /\ Distinct(list')
        /\ \A b \in Binding : (\E k \in 1..Len(list') : list'[k] = b)
                               <=> (\E k \in 1..Len(list) : list[k] = b)
    <3>1. p \in 1..(Len(list) - 1) /\ Distinct(list)
      BY <1>2, <1>3 DEF Count, SameStrings
    <3> HIDE DEF p
    <3> QED
      BY <1>1, <2>1, <3>1, SwapKeeps, ZenonT(60)
  <2>4. SameStrings'
    BY <1>1, <1>2, <2>3 DEF SameStrings, Count
  <2>5. Greatest'
    <3> SUFFICES ASSUME NEW k \in 1..p PROVE ~After(list'[k], list[p])
      BY <1>1, <2>3 DEF Greatest
    <3>1. CASE k = p
      BY <3>1, <1>5, <1>3, <1>4, <2>3, Order
    <3>2. CASE k \in 1..j
      <4>1. k \in 1..Len(list) /\ k # p /\ k # p + 1
        BY <3>2, <1>1, <1>3 DEF Count
      <4>2. list'[k] = list[k]
        BY <4>1, <2>3
      <4> QED
        BY <3>2, <4>2, <1>2
    <3> QED
      BY <3>1, <3>2, <1>1
  <2>6. Settled'
    <3> SUFFICES ASSUME NEW k \in 1..Count, NEW l \in 1..Count, k < l, l > Count - i
                 PROVE  ~After(list'[k], list'[l])
      BY <1>1, <2>3 DEF Settled, Count
    <3>1. l # p /\ l # p + 1 /\ p < l /\ p + 1 < l
      BY <1>1, <1>3
    <3>2. list'[l] = list[l]
      BY <2>3, <3>1 DEF Count
    <3>3. list'[k] = list[k] \/ list'[k] = list[p] \/ list'[k] = list[p + 1]
      BY <2>3 DEF Count
    <3> QED
      BY <3>1, <3>2, <3>3, <1>2, <1>3
  <2>7. TypeOK'
    <3>1. j' \in Nat
      BY <1>1
    <3> QED
      BY <1>1, <3>1, <2>2, <2>3 DEF Inv, TypeOK, Compare
  <2>8. NoSwap'
    BY <2>2 DEF NoSwap
  <2>9. i' < Count' - 1 /\ j' <= Count' - i' - 1 /\ ~(i' >= Count' - 1)
    BY <1>1, <2>3 DEF Count
  <2> QED
    BY <2>4, <2>5, <2>6, <2>7, <2>8, <2>9 DEF SortInv
<1>6. CASE ~After(list[p], list[p + 1])
  <2>1. list' = list
    BY <1>1, <1>6 DEF Compare
  <2>2. swapped' = swapped
    BY <1>1, <1>6 DEF Compare
  <2>3. Count' = Count
    BY <2>1 DEF Count
  <2>4. Greatest'
    <3> SUFFICES ASSUME NEW k \in 1..p PROVE ~After(list[k], list[p + 1])
      BY <1>1, <2>1 DEF Greatest
    <3>1. CASE k = p
      BY <3>1, <1>6
    <3>2. CASE k \in 1..j
      BY <3>2, <1>1, <1>2, <1>3, <1>4, <1>6, Order
    <3> QED
      BY <3>1, <3>2, <1>1
  <2>5. NoSwap'
    <3> SUFFICES ASSUME ~swapped, NEW k \in 1..p PROVE ~After(list[k], list[k + 1])
      BY <1>1, <2>1, <2>2 DEF NoSwap, InOrder
    <3>1. CASE k = p
      BY <3>1, <1>6
    <3>2. CASE k \in 1..j
      BY <3>2, <1>2 DEF NoSwap, InOrder
    <3> QED
      BY <3>1, <3>2, <1>1
  <2>6. Settled'
    BY <1>1, <1>2, <2>1, <2>3 DEF Settled
  <2>7. TypeOK'
    <3>1. j' \in Nat
      BY <1>1
    <3> QED
      BY <1>1, <3>1, <2>1, <2>2 DEF Inv, TypeOK, Compare
  <2>8. SameStrings'
    BY <1>1, <1>2, <2>1, <2>3 DEF SameStrings
  <2>9. i' < Count' - 1 /\ j' <= Count' - i' - 1 /\ ~(i' >= Count' - 1)
    BY <1>1, <2>3
  <2> QED
    BY <2>4, <2>5, <2>6, <2>7, <2>8, <2>9 DEF SortInv
<1> QED
  BY <1>5, <1>6

\* So does its end: another string is in place, or all of them are.
LEMMA NextPassKeeps == Inv /\ NextPass => TypeOK' /\ SortInv'
<1> SUFFICES ASSUME Inv, NextPass PROVE TypeOK' /\ SortInv'
  OBVIOUS
<1>1. /\ call = "sort" /\ list \in Seq(Binding) /\ i \in Nat /\ j \in Nat
      /\ i < Count - 1 /\ j = Count - i - 1 /\ Count \in Nat
      /\ call' = call /\ env' = env /\ list' = list /\ j' = 0
  BY DEF Inv, TypeOK, NextPass, Count
<1>2. /\ SameStrings /\ NoSwap
      /\ \A k \in 1..j : ~After(list[k], list[j + 1])
      /\ \A k, l \in 1..Count : (k < l /\ l > Count - i) => ~After(list[k], list[l])
  BY <1>1 DEF Inv, SortInv, Greatest, Settled
<1>3. Count' = Count /\ SameStrings'
  BY <1>1, <1>2 DEF SameStrings, Count
<1>4. (swapped /\ i' = i + 1) \/ (~swapped /\ i' = Count - 1)
  BY Zenon DEF NextPass
<1>5. i' \in Nat
  BY <1>1, <1>4
<1>6. TypeOK'
  <2>1. /\ UNCHANGED <<env, cwd, call, args, status, list, out>>
        /\ swapped' = FALSE
    BY Zenon DEF NextPass
  <2> QED
    BY <1>1, <1>5, <2>1 DEF Inv, TypeOK
<1>7. Greatest' /\ NoSwap'
  BY <1>1 DEF Greatest, NoSwap
<1>8. CASE i' = i + 1
  <2>1. Settled'
    <3> SUFFICES ASSUME NEW k \in 1..Count, NEW l \in 1..Count, k < l, l > Count - (i + 1)
                 PROVE  ~After(list[k], list[l])
      BY <1>1, <1>3, <1>8 DEF Settled
    <3>1. CASE l = j + 1
      BY <3>1, <1>1, <1>2
    <3>2. CASE l > Count - i
      BY <3>2, <1>2
    <3> QED
      BY <3>1, <3>2, <1>1
  <2>2. i' >= Count - 1 => Sorted'
    <3> SUFFICES ASSUME i + 1 >= Count - 1, NEW k \in 1..(Count - 1)
                 PROVE  ~After(list[k], list[k + 1])
      BY <1>1, <1>3, <1>8 DEF InOrder, Sorted
    <3>1. k \in 1..Count /\ k + 1 \in 1..Count /\ (k + 1 = j + 1 \/ k + 1 > Count - i)
      BY <1>1
    <3>2. CASE k + 1 = j + 1
      BY <3>1, <3>2, <1>1, <1>2
    <3>3. CASE k + 1 > Count - i
      BY <3>1, <3>3, <1>2
    <3> QED
      BY <3>1, <3>2, <3>3
  <2>3. i' < Count' - 1 => j' <= Count' - i' - 1
    <3>1. i' < Count - 1 => 0 <= Count - i' - 1
      BY <1>1, <1>8
    <3> QED
      BY <1>1, <1>3, <3>1
  <2> QED
    BY <1>3, <1>6, <1>7, <2>1, <2>2, <2>3 DEF SortInv
<1>9. CASE ~swapped /\ i' = Count - 1
  <2>1. Sorted'
    <3> SUFFICES ASSUME NEW k \in 1..(Count - 1) PROVE ~After(list[k], list[k + 1])
      BY <1>1, <1>3 DEF InOrder, Sorted
    <3>1. CASE k <= j
      BY <3>1, <1>1, <1>2, <1>9 DEF InOrder, NoSwap
    <3>2. CASE k > j
      <4>1. k \in 1..Count /\ k + 1 \in 1..Count /\ k + 1 > Count - i
        BY <3>2, <1>1
      <4> QED
        BY <4>1, <1>2
    <3> QED
      BY <3>1, <3>2, <1>1
  <2>2. ~(i' < Count' - 1)
    BY <1>1, <1>3, <1>9
  <2> QED
    BY <1>3, <1>6, <2>1, <2>2 DEF SortInv
<1> QED
  BY <1>4, <1>8, <1>9

-----------------------------------------------------------------------------
(***************************************************************************)
(* The invariant.                                                          *)
(***************************************************************************)
\* An assignment, export or cd leaves an array without duplicates.
LEMMA SetKeeps ==
  ASSUME Inv, NEW n \in Name, NEW v \in Value
  PROVE  Updated(env, n, v) \in Seq(Binding) /\ Distinct(Updated(env, n, v))
BY UpdatedBinds DEF Inv, TypeOK, NoDuplicates

\* What cd can leave in the environment: OLDPWD, PWD, both or none updated.
CdEnvs(v) == LET e == Updated(env, OLDPWD, cwd) IN
             {env, e, Updated(env, PWD, v), Updated(e, PWD, v)}

\* cd leaves one of these arrays, or does nothing (perform_chdir_and_update).
LEMMA CdDoes ==
  ASSUME NEW v \in Value \cup {Unset}, Cd(v)
  PROVE  /\ call = "none" /\ call' = "none" /\ status' \in {0, 1} /\ out' = <<>>
         /\ UNCHANGED <<args, sort>>
         /\ \/ UNCHANGED <<env, cwd>>
            \/ v \in Dir /\ cwd' = v /\ env' \in CdEnvs(v)
BY DEF Cd, CdEnvs, Return, Idle

\* A target of cd is a value or nothing.
LEMMA CdTargets == Inv => CdTarget \subseteq Value \cup {Unset}
<1> SUFFICES ASSUME Inv PROVE CdTarget \subseteq Value \cup {Unset}
  OBVIOUS
<1>1. env \in Seq(Binding) /\ Distinct(env)
  BY DEF Inv, TypeOK, NoDuplicates
<1>2. Lookup(env, HOME) \in Value \cup {Unset} /\ Lookup(env, OLDPWD) \in Value \cup {Unset}
  BY <1>1, LookupType, NamesAssumption
<1> QED
  BY <1>2 DEF CdTarget

\* The arrays cd can leave are arrays without duplicates.
LEMMA CdKeeps ==
  ASSUME Inv, NEW v \in Dir, NEW e \in CdEnvs(v)
  PROVE  e \in Seq(Binding) /\ Distinct(e)
<1> DEFINE o == Updated(env, OLDPWD, cwd)
<1>1. env \in Seq(Binding) /\ Distinct(env) /\ cwd \in Value /\ v \in Value
      /\ OLDPWD \in Name /\ PWD \in Name
  BY NamesAssumption, ValuesAssumption DEF Inv, TypeOK, NoDuplicates
<1>2. o \in Seq(Binding) /\ Distinct(o)
  BY <1>1, UpdatedBinds
<1>3. \A f \in {env, o} : Updated(f, PWD, v) \in Seq(Binding) /\ Distinct(Updated(f, PWD, v))
  BY <1>1, <1>2, UpdatedBinds
<1> QED
  BY <1>1, <1>2, <1>3 DEF CdEnvs

\* Every step of the shell keeps the invariant.
THEOREM InvStep == Inv /\ [Next]_vars => Inv'
<1> SUFFICES ASSUME Inv, [Next]_vars PROVE Inv'
  OBVIOUS
<1> USE DEF Inv, NoDuplicates
<1>0. /\ env \in Seq(Binding) /\ Distinct(env) /\ args \in Seq(Arg) /\ status \in {0, 1}
  BY DEF TypeOK
<1>1. CASE Call
  BY <1>1, ArgsAssumption DEF Call, Idle, TypeOK, SortInv, sort
<1>2. CASE Export
  <2>1. CASE Return(1) /\ UNCHANGED sort
    BY <1>2, <2>1 DEF Export, Return, TypeOK, SortInv, sort
  <2>2. CASE call' = "sort" /\ list' = env /\ i' = 0 /\ j' = 0 /\ swapped' = FALSE
             /\ UNCHANGED status
    <3>0. UNCHANGED <<env, cwd, args, status>> /\ out' = <<>>
      BY <1>2, <2>2 DEF Export
    <3>a. swapped' \in BOOLEAN
      BY <2>2
    <3>1. TypeOK' /\ NoDuplicates'
      BY <1>0, <2>2, <3>0, <3>a DEF TypeOK
    <3>2. env' = env /\ Count' = Len(env) /\ Len(env) \in Nat
      BY <1>0, <1>2, <2>2 DEF Export, Count
    <3>3. SameStrings'
      BY <1>0, <2>2, <3>2 DEF SameStrings
    <3>4. Greatest' /\ NoSwap' /\ Settled'
      BY <2>2, <3>2 DEF Greatest, NoSwap, Settled
    <3>5. i' >= Count' - 1 => Sorted'
      BY <2>2, <3>2 DEF Sorted
    <3>6. i' < Count' - 1 => j' <= Count' - i' - 1
      BY <2>2, <3>2
    <3> QED
      BY <3>1, <3>3, <3>4, <3>5, <3>6 DEF SortInv
  <2> QED
    BY <1>2, <2>1, <2>2 DEF Export
<1>3. ASSUME NEW v \in CdTarget, Cd(v) PROVE Inv'
  <2>1. v \in Value \cup {Unset}
    BY CdTargets
  <2>2. UNCHANGED <<env, cwd>> \/ (v \in Dir /\ cwd' = v /\ env' \in CdEnvs(v))
    BY <1>3, <2>1, CdDoes
  <2>3. env' \in Seq(Binding) /\ Distinct(env') /\ cwd' \in Dir
    BY <2>2, <1>0, CdKeeps DEF TypeOK
  <2>4. call' = "none" /\ status' \in {0, 1} /\ out' = <<>> /\ UNCHANGED <<args, sort>>
    BY <1>3, <2>1, CdDoes
  <2> QED
    BY <2>3, <2>4 DEF TypeOK, SortInv, sort
<1>4. CASE ExportArg
  <2>1. /\ args # <<>> /\ args' = Tail(args) /\ Head(args) \in Arg
        /\ call = "export" /\ UNCHANGED <<cwd, call, sort, out>>
    BY <1>0, <1>4 DEF ExportArg, NextArg
  <2>2. env' = env \/ env' = Updated(env, Head(args).name, Head(args).value)
    BY <1>4 DEF ExportArg
  <2>3. env' \in Seq(Binding) /\ Distinct(env')
    BY <1>0, <2>1, <2>2, SetKeeps DEF Arg
  <2>4. status' \in {0, 1}
    BY <1>0, <1>4 DEF ExportArg
  <2> QED
    BY <1>0, <2>1, <2>3, <2>4 DEF TypeOK, SortInv, sort
<1>5. CASE UnsetArg
  <2>1. /\ args # <<>> /\ args' = Tail(args) /\ Head(args) \in Arg
        /\ call = "unset" /\ UNCHANGED <<cwd, call, sort, out>>
    BY <1>0, <1>5 DEF UnsetArg, NextArg
  <2>2. env' = env \/ env' = Removed(env, Head(args).name)
    BY <1>5 DEF UnsetArg
  <2>3. env' \in Seq(Binding) /\ Distinct(env')
    BY <1>0, <2>1, <2>2, RemovedUnbinds DEF Arg
  <2>4. status' \in {0, 1}
    BY <1>0, <1>5 DEF UnsetArg
  <2> QED
    BY <1>0, <2>1, <2>3, <2>4 DEF TypeOK, SortInv, sort
<1>6. CASE AssignToken
  <2>1. /\ args # <<>> /\ (args' = Tail(args) \/ args' = <<>>) /\ Head(args) \in Arg
        /\ call = "assign" /\ UNCHANGED <<cwd, call, status, sort, out>>
    BY <1>0, <1>6 DEF AssignToken, NextArg
  <2>2. env' = env \/ env' = Updated(env, Head(args).name, Head(args).value)
    BY <1>6 DEF AssignToken
  <2>3. env' \in Seq(Binding) /\ Distinct(env')
    BY <1>0, <2>1, <2>2, SetKeeps DEF Arg
  <2>4. Tail(args) \in Seq(Arg) /\ <<>> \in Seq(Arg)
    BY <1>0, <2>1
  <2> QED
    BY <1>0, <2>1, <2>3, <2>4 DEF TypeOK, SortInv, sort
<1>7. CASE ArgsDone
  BY <1>7 DEF ArgsDone, Return, TypeOK, SortInv, sort
<1>8. CASE Compare
  <2>1. env' = env
    BY <1>8 DEF Compare
  <2> QED
    BY <1>0, <1>8, <2>1, CompareKeeps
<1>9. CASE NextPass
  <2>1. env' = env
    BY <1>9 DEF NextPass
  <2> QED
    BY <1>0, <1>9, <2>1, NextPassKeeps
<1>10. CASE PrintSorted
  <2>1. /\ UNCHANGED <<env, cwd, args>> /\ out' = list /\ list' = <<>>
        /\ i' = 0 /\ j' = 0 /\ call' = "none" /\ status' = 0
    BY <1>10 DEF PrintSorted, Return
  <2>2. swapped' \in BOOLEAN
    BY <1>10 DEF PrintSorted
  <2> QED
    BY <1>0, <2>1, <2>2 DEF TypeOK, SortInv
<1>11. CASE UNCHANGED vars
  <2>1. UNCHANGED <<env, cwd, call, args, status, list, i, j, swapped, out>>
    BY <1>11 DEF vars, sort
  <2>2. TypeOK' /\ NoDuplicates'
    BY <2>1 DEF TypeOK
  <2>3. SortInv'
    BY <2>1 DEF SortInv, SameStrings, Greatest, Settled, NoSwap, Sorted, InOrder, Count
  <2> QED
    BY <2>2, <2>3
<1> QED
  BY <1>1, <1>2, <1>3, <1>4, <1>5, <1>6, <1>7, <1>8, <1>9, <1>10, <1>11 DEF Next, Step

\* The shell starts in the invariant (init_shell).
THEOREM InvInit == Init => Inv
<1> SUFFICES ASSUME Init PROVE Inv
  OBVIOUS
<1>1. env \in Seq(Binding) /\ Distinct(env)
  BY InheritedAssumption DEF Init
<1>2. swapped \in BOOLEAN
  BY DEF Init
<1> QED
  BY <1>1, <1>2 DEF Init, Inv, TypeOK, NoDuplicates, SortInv

\* The invariant holds at every step, whatever builtins are called.
THEOREM Invariance == Spec => []Inv
<1> QED
  BY InvInit, InvStep, PTL DEF Spec

\* Every variable keeps its type.
THEOREM TypeCorrect == Spec => []TypeOK
<1>1. Inv => TypeOK
  BY DEF Inv
<1> QED
  BY Invariance, <1>1, PTL

\* No sequence of builtins binds a name twice.
THEOREM NamesOnce == Spec => []NoDuplicates
<1>1. Inv => NoDuplicates
  BY DEF Inv
<1> QED
  BY Invariance, <1>1, PTL

\* The bubble sort with its early exit sorts, and loses no string.
THEOREM SortRight == Spec => []SortInv
<1>1. Inv => SortInv
  BY DEF Inv
<1> QED
  BY Invariance, <1>1, PTL

-----------------------------------------------------------------------------
(***************************************************************************)
(* The array implements the function of module EnvMap.                     *)
(***************************************************************************)
\* What get_env_value answers is a value for each name, or nothing.
LEMMA MapType == Inv => Map \in [Name -> Value \cup {Unset}]
<1> SUFFICES ASSUME Inv, NEW n \in Name PROVE Lookup(env, n) \in Value \cup {Unset}
  BY DEF Map
<1> QED
  BY LookupType DEF Inv, TypeOK, NoDuplicates

\* update_env changes one name of the function.
LEMMA MapUpdated ==
  ASSUME NEW e \in Seq(Binding), Distinct(e), NEW n \in Name, NEW v \in Value
  PROVE  [m \in Name |-> Lookup(Updated(e, n, v), m)]
           = [[m \in Name |-> Lookup(e, m)] EXCEPT ![n] = v]
<1>1. \A m \in Name : Lookup(Updated(e, n, v), m) = IF m = n THEN v ELSE Lookup(e, m)
  BY UpdatedBinds
<1> DEFINE u == Updated(e, n, v)
<1> HIDE DEF u
<1>2. \A m \in Name : Lookup(u, m) = IF m = n THEN v ELSE Lookup(e, m)
  BY <1>1 DEF u
<1>3. [m \in Name |-> Lookup(u, m)] = [[m \in Name |-> Lookup(e, m)] EXCEPT ![n] = v]
  BY <1>2
<1> QED
  BY <1>3 DEF u

\* unset takes one name out of the function.
LEMMA MapRemoved ==
  ASSUME NEW e \in Seq(Binding), Distinct(e), NEW n \in Name
  PROVE  [m \in Name |-> Lookup(Removed(e, n), m)]
           = [[m \in Name |-> Lookup(e, m)] EXCEPT ![n] = Unset]
<1>1. \A m \in Name : Lookup(Removed(e, n), m) = IF m = n THEN Unset ELSE Lookup(e, m)
  BY RemovedUnbinds
<1> DEFINE r == Removed(e, n)
<1> HIDE DEF r
<1>2. \A m \in Name : Lookup(r, m) = IF m = n THEN Unset ELSE Lookup(e, m)
  BY <1>1 DEF r
<1>3. [m \in Name |-> Lookup(r, m)] = [[m \in Name |-> Lookup(e, m)] EXCEPT ![n] = Unset]
  BY <1>2
<1> QED
  BY <1>3 DEF r

\* The four outcomes of cd are those the function allows.
LEMMA MapCd ==
  ASSUME Inv, NEW v \in Dir, env' \in CdEnvs(v)
  PROVE  \E o \in {Map[OLDPWD], cwd}, p \in {Map[PWD], v} :
           Map' = [Map EXCEPT ![OLDPWD] = o, ![PWD] = p]
<1> DEFINE e == Updated(env, OLDPWD, cwd)
<1>1. env \in Seq(Binding) /\ Distinct(env) /\ cwd \in Value /\ v \in Value
      /\ OLDPWD \in Name /\ PWD \in Name /\ PWD # OLDPWD
  BY NamesAssumption, ValuesAssumption DEF Inv, TypeOK, NoDuplicates
<1>2. /\ e \in Seq(Binding) /\ Distinct(e)
      /\ \A m \in Name : Lookup(e, m) = IF m = OLDPWD THEN cwd ELSE Lookup(env, m)
  BY <1>1, UpdatedBinds
<1>3. \A m \in Name : Lookup(Updated(env, PWD, v), m) = IF m = PWD THEN v ELSE Lookup(env, m)
  BY <1>1, UpdatedBinds
<1>4. Map' = [m \in Name |-> Lookup(env', m)] /\ Map = [m \in Name |-> Lookup(env, m)]
  BY DEF Map
<1>5. env' \in {env, e, Updated(env, PWD, v), Updated(e, PWD, v)}
  BY DEF CdEnvs
<1> HIDE DEF e
<1>e. \A m \in Name : Lookup(Updated(e, PWD, v), m) = IF m = PWD THEN v ELSE Lookup(e, m)
  BY <1>1, <1>2, UpdatedBinds
<1>6. CASE env' = env
  BY <1>6, <1>4, <1>1
<1>7. CASE env' = e
  <2>1. Map' = [Map EXCEPT ![OLDPWD] = cwd, ![PWD] = Map[PWD]]
    BY <1>7, <1>4, <1>1, <1>2
  <2> QED
    BY <2>1
<1>8. CASE env' = Updated(env, PWD, v)
  <2>1. Map' = [Map EXCEPT ![OLDPWD] = Map[OLDPWD], ![PWD] = v]
    BY <1>8, <1>4, <1>1, <1>3
  <2> QED
    BY <2>1
<1>9. CASE env' = Updated(e, PWD, v)
  <2>1. Map' = [Map EXCEPT ![OLDPWD] = cwd, ![PWD] = v]
    BY <1>9, <1>4, <1>1, <1>2, <1>e
  <2> QED
    BY <2>1
<1> QED
  BY <1>5, <1>6, <1>7, <1>8, <1>9

\* What export prints is the environment, in order, each variable once.
LEMMA ListsMap == Inv /\ PrintSorted => M!Listing(list, Map)
<1> SUFFICES ASSUME Inv, PrintSorted PROVE M!Listing(list, Map)
  OBVIOUS
<1>1. /\ list \in Seq(Binding) /\ env \in Seq(Binding) /\ Distinct(env)
      /\ SameStrings /\ Sorted
  BY DEF Inv, TypeOK, NoDuplicates, SortInv, PrintSorted
<1>2. \A k \in 1..(Len(list) - 1) : ~After(list[k], list[k + 1])
  BY <1>1 DEF Sorted, InOrder, Count
<1>3. \A k, l \in 1..Len(list) : list[k].name = list[l].name => k = l
  BY <1>1 DEF SameStrings, Distinct
<1>4. ASSUME NEW b \in Binding
      PROVE  (\E k \in 1..Len(list) : list[k] = b) <=> Map[b.name] = b.value
  <2>1. b.name \in Name /\ b.value \in Value /\ b = Bind(b.name, b.value)
    BY DEF Binding, Bind
  <2>2. Lookup(env, b.name) = b.value <=> \E k \in 1..Len(env) : env[k] = b
    BY <2>1, <1>1, LookupFinds
  <2>3. Map[b.name] = Lookup(env, b.name)
    BY <2>1 DEF Map
  <2>4. (\E k \in 1..Len(list) : list[k] = b) <=> (\E k \in 1..Len(env) : env[k] = b)
    BY <1>1 DEF SameStrings, Count
  <2> QED
    BY <2>2, <2>3, <2>4
<1> QED
  BY <1>1, <1>2, <1>3, <1>4 DEF M!Listing, M!After, After, M!Binding, Binding

\* Every step of the array is a step of the function, or changes nothing of it.
THEOREM MapStep == Inv /\ [Next]_vars => [M!Next]_M!vars
<1> SUFFICES ASSUME Inv, [Next]_vars PROVE [M!Next]_M!vars
  OBVIOUS
<1>0. /\ env \in Seq(Binding) /\ Distinct(env) /\ args \in Seq(Arg)
  BY DEF Inv, TypeOK, NoDuplicates
<1>m. env' = env => Map' = Map
  BY DEF Map
<1>1. CASE Call
  <2>1. M!Call
    BY <1>1, <1>m DEF Call, Idle, M!Call
  <2> QED
    BY <2>1 DEF M!Next
<1>2. CASE Export
  <2>1. M!Sort \/ M!Fail
    BY <1>2, <1>m DEF Export, Idle, Return, M!Sort, M!Fail
  <2> QED
    BY <2>1 DEF M!Next
<1>3. ASSUME NEW v \in CdTarget, Cd(v) PROVE [M!Next]_M!vars
  <2>1. v \in Value \cup {Unset}
    BY CdTargets
  <2>2. call = "none" /\ UNCHANGED <<call, args>> /\ out' = <<>>
    BY <1>3, <2>1, CdDoes
  <2>3. CASE UNCHANGED <<env, cwd>>
    <3>1. M!Fail
      BY <2>2, <2>3, <1>m DEF M!Fail
    <3> QED
      BY <3>1 DEF M!Next
  <2>4. CASE v \in Dir /\ cwd' = v /\ env' \in CdEnvs(v)
    <3>1. \E o \in {Map[OLDPWD], cwd}, p \in {Map[PWD], v} :
            Map' = [Map EXCEPT ![OLDPWD] = o, ![PWD] = p]
      BY <2>4, MapCd
    <3>2. M!Cd
      BY <3>1, <2>2, <2>4 DEF M!Cd
    <3> QED
      BY <3>2 DEF M!Next
  <2> QED
    BY <1>3, <2>1, <2>3, <2>4, CdDoes
<1>4. CASE ExportArg
  <2>1. /\ args # <<>> /\ args' = Tail(args) /\ Head(args) \in Arg
        /\ call = "export" /\ UNCHANGED <<cwd, call, out>>
    BY <1>0, <1>4 DEF ExportArg, NextArg, sort
  <2>2. CASE Head(args).kind = "set"
    <3>1. env' = env \/ env' = Updated(env, Head(args).name, Head(args).value)
      BY <1>4, <2>2 DEF ExportArg
    <3>2. Map' \in {Map, [Map EXCEPT ![Head(args).name] = Head(args).value]}
      BY <1>0, <1>m, <2>1, <3>1, MapUpdated DEF Map, Arg
    <3>3. M!Set
      BY <2>1, <2>2, <3>2 DEF M!Set
    <3> QED
      BY <3>3 DEF M!Next
  <2>3. CASE Head(args).kind # "set"
    <3>1. env' = env
      BY <1>4, <2>3 DEF ExportArg
    <3>2. M!Skip
      BY <1>m, <2>1, <2>3, <3>1 DEF M!Skip
    <3> QED
      BY <3>2 DEF M!Next
  <2> QED
    BY <2>2, <2>3
<1>5. CASE UnsetArg
  <2>1. /\ args # <<>> /\ args' = Tail(args) /\ Head(args) \in Arg
        /\ call = "unset" /\ UNCHANGED <<cwd, call, out>>
    BY <1>0, <1>5 DEF UnsetArg, NextArg, sort
  <2>2. CASE Head(args).kind = "bare"
    <3>1. env' = Removed(env, Head(args).name)
      BY <1>5, <2>2 DEF UnsetArg
    <3>2. Map' = [Map EXCEPT ![Head(args).name] = Unset]
      BY <1>0, <2>1, <3>1, MapRemoved DEF Map, Arg
    <3>3. M!Remove
      BY <2>1, <2>2, <3>2 DEF M!Remove, M!Unset, Unset
    <3> QED
      BY <3>3 DEF M!Next
  <2>3. CASE Head(args).kind # "bare"
    <3>1. env' = env
      BY <1>5, <2>3 DEF UnsetArg
    <3>2. M!Skip
      BY <1>m, <2>1, <2>3, <3>1 DEF M!Skip
    <3> QED
      BY <3>2 DEF M!Next
  <2> QED
    BY <2>2, <2>3
<1>6. CASE AssignToken
  <2>1. /\ args # <<>> /\ Head(args) \in Arg
        /\ call = "assign" /\ UNCHANGED <<cwd, call, out>>
    BY <1>0, <1>6 DEF AssignToken, sort
  <2>2. CASE Head(args).kind = "set"
    <3>1. /\ args' = Tail(args)
          /\ env' = env \/ env' = Updated(env, Head(args).name, Head(args).value)
      BY <1>6, <2>2 DEF AssignToken, NextArg
    <3>2. Map' \in {Map, [Map EXCEPT ![Head(args).name] = Head(args).value]}
      BY <1>0, <1>m, <2>1, <3>1, MapUpdated DEF Map, Arg
    <3>3. M!Set
      BY <2>1, <2>2, <3>1, <3>2 DEF M!Set
    <3> QED
      BY <3>3 DEF M!Next
  <2>3. CASE Head(args).kind # "set"
    <3>1. env' = env /\ args' = <<>>
      BY <1>6, <2>3 DEF AssignToken
    <3>2. M!Skip
      BY <1>m, <2>1, <2>3, <3>1 DEF M!Skip
    <3> QED
      BY <3>2 DEF M!Next
  <2> QED
    BY <2>2, <2>3
<1>7. CASE ArgsDone
  <2>1. M!Done
    BY <1>7, <1>m DEF ArgsDone, Return, M!Done
  <2> QED
    BY <2>1 DEF M!Next
<1>8. CASE Compare \/ NextPass \/ UNCHANGED vars
  <2>1. UNCHANGED <<env, cwd, call, args, out>>
    BY <1>8 DEF Compare, NextPass, vars
  <2> QED
    BY <1>m, <2>1 DEF M!vars
<1>9. CASE PrintSorted
  <2>1. M!Listing(list, Map)
    BY <1>9, ListsMap
  <2>2. /\ call = "sort" /\ call' = "none" /\ out' = list
        /\ UNCHANGED <<env, cwd, args>>
    BY <1>9 DEF PrintSorted, Return
  <2>3. M!List
    BY <1>m, <2>1, <2>2 DEF M!List
  <2> QED
    BY <2>3 DEF M!Next
<1> QED
  BY <1>1, <1>2, <1>3, <1>4, <1>5, <1>6, <1>7, <1>8, <1>9 DEF Next, Step

\* The array implements the function from names to values: each builtin
\* changes the names it should and no other, and export lists them in order.
THEOREM Implements == Spec => Refines
<1>1. Init => M!Init
  <2> SUFFICES ASSUME Init PROVE M!Init
    OBVIOUS
  <2>1. Map \in [Name -> Value \cup {Unset}]
    BY InvInit, MapType
  <2> QED
    BY <2>1 DEF Init, M!Init, M!Unset, Unset
<1> QED
  BY <1>1, Invariance, MapStep, PTL DEF Spec, Refines, M!Spec
=============================================================================

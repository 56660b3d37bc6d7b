---------------------------- MODULE ParserProofs ----------------------------
(***************************************************************************)
(* The parser's properties, for lines of any length and any set of lines:  *)
(* what its functions take out of the list, and what init_yggdrasil and    *)
(* make_yggdrasil make of what is left, up to the tree that execute_ast    *)
(* gets, numbered in pre-order.                                            *)
(***************************************************************************)
EXTENDS Parser, Induction

-----------------------------------------------------------------------------
(***************************************************************************)
(* The nodes reached along the pointers f.                                 *)
(***************************************************************************)
Pointers == [Node -> Node \cup {Nil}]

Rising(f) == \A n \in Node : f[n] # Nil => n < f[n]

LEMMA NoNode == Nil \notin Node /\ Node \subseteq Nat
BY NodeAssumption DEF Nil

LEMMA ReachIn ==
  ASSUME NEW f \in Pointers, NEW k \in Node
  PROVE  k \in Reach(f, k) /\ Reach(f, k) \subseteq Node
BY DEF Reach

LEMMA ReachOn ==
  ASSUME NEW f \in Pointers, NEW k \in Node, NEW n \in Reach(f, k), f[n] # Nil
  PROVE  f[n] \in Reach(f, k) /\ f[n] \in Node
<1>1. n \in Node /\ f[n] \in Node
  BY DEF Reach, Pointers
<1>2. SUFFICES ASSUME NEW S \in SUBSET Node, k \in S, \A m \in S : f[m] = Nil \/ f[m] \in S
               PROVE  f[n] \in S
  BY <1>1 DEF Reach
<1>3. n \in S
  BY <1>2 DEF Reach
<1> QED
  BY <1>2, <1>3

\* What holds of k and of what follows a node it holds of, holds of them all.
LEMMA ReachLeast ==
  ASSUME NEW f, NEW k, NEW S, k \in S, k \in Node,
         \A m \in S : m \in Node /\ f[m] # Nil => f[m] \in S /\ f[m] \in Node
  PROVE  Reach(f, k) \subseteq S
<1> DEFINE R == S \cap Node
<1>1. R \in SUBSET Node /\ k \in R /\ \A m \in R : f[m] = Nil \/ f[m] \in R
  OBVIOUS
<1>2. \A n \in Reach(f, k) : n \in R
  BY <1>1 DEF Reach
<1> QED
  BY <1>2

LEMMA ReachFrom ==
  ASSUME NEW f \in Pointers, NEW k \in Node, NEW n \in Reach(f, k)
  PROVE  Reach(f, n) \subseteq Reach(f, k)
<1>1. n \in Node
  BY ReachIn
<1>2. \A m \in Reach(f, k) : f[m] # Nil => f[m] \in Reach(f, k) /\ f[m] \in Node
  BY ReachOn
<1> QED
  BY <1>1, <1>2, ReachLeast

LEMMA ReachUnfold ==
  ASSUME NEW f \in Pointers, NEW k \in Node
  PROVE  Reach(f, k) = {k} \cup (IF f[k] = Nil THEN {} ELSE Reach(f, f[k]))
<1>1. CASE f[k] = Nil
  <2>1. Reach(f, k) \subseteq {k}
    BY <1>1, ReachLeast
  <2> QED
    BY <1>1, <2>1, ReachIn
<1>2. CASE f[k] # Nil
  <2> DEFINE S == {k} \cup Reach(f, f[k])
  <2>1. f[k] \in Node /\ f[k] \in Reach(f, k)
    BY <1>2, ReachIn, ReachOn
  <2>2. f[k] \in Reach(f, f[k])
    BY <2>1, ReachIn
  <2>3. \A m \in Reach(f, f[k]) : f[m] # Nil => f[m] \in Reach(f, f[k]) /\ f[m] \in Node
    BY <2>1, ReachOn
  <2>4. Reach(f, k) \subseteq S
    <3>1. \A m \in S : m \in Node /\ f[m] # Nil => f[m] \in S /\ f[m] \in Node
      BY <2>1, <2>2, <2>3
    <3> HIDE DEF S
    <3>2. k \in S
      BY DEF S
    <3> QED
      BY <3>1, <3>2, ReachLeast
  <2>5. S \subseteq Reach(f, k)
    BY <2>1, ReachIn, ReachFrom
  <2> QED
    BY <1>2, <2>4, <2>5
<1> QED
  BY <1>1, <1>2

\* Of two nodes one is reached from the other.
LEMMA ReachLinear ==
  ASSUME NEW f \in Pointers, NEW k \in Node, NEW m \in Reach(f, k), NEW n \in Reach(f, k)
  PROVE  m \in Reach(f, n) \/ n \in Reach(f, m)
<1> DEFINE S == {x \in Node : x \in Reach(f, n) \/ n \in Reach(f, x)}
<1>1. n \in Node
  BY ReachIn
<1>2. k \in S
  OBVIOUS
<1>3. ASSUME NEW x \in S, f[x] # Nil
      PROVE  f[x] \in S /\ f[x] \in Node
  <2>1. f[x] \in Node
    BY <1>3 DEF Pointers
  <2>2. CASE x \in Reach(f, n)
    BY <1>1, <1>3, <2>1, <2>2, ReachOn
  <2>3. CASE n \in Reach(f, x)
    <3>1. n = x \/ n \in Reach(f, f[x])
      BY <1>3, <2>3, ReachUnfold
    <3>2. n = x => f[x] \in Reach(f, n)
      BY <1>1, <1>3, ReachIn, ReachOn
    <3> QED
      BY <2>1, <3>1, <3>2
  <2> QED
    BY <1>3, <2>2, <2>3
<1>4. \A x \in S : x \in Node /\ f[x] # Nil => f[x] \in S /\ f[x] \in Node
  BY <1>3
<1> HIDE DEF S
<1>5. Reach(f, k) \subseteq S
  BY <1>2, <1>4, ReachLeast
<1> QED
  BY <1>5 DEF S

LEMMA ReachUp ==
  ASSUME NEW f \in Pointers, NEW k \in Node, Rising(f), NEW n \in Reach(f, k)
  PROVE  k <= n
<1> DEFINE S == {x \in Node : k <= x}
<1>1. k \in S
  BY NoNode
<1>2. \A x \in S : x \in Node /\ f[x] # Nil => f[x] \in S /\ f[x] \in Node
  <2> SUFFICES ASSUME NEW x \in S, f[x] # Nil
               PROVE  f[x] \in S /\ f[x] \in Node
    OBVIOUS
  <2>1. f[x] \in Node /\ x < f[x]
    BY DEF Rising, Pointers
  <2>2. k \in Nat /\ x \in Nat /\ f[x] \in Nat /\ k <= x
    BY <2>1, NoNode
  <2> QED
    BY <2>1, <2>2
<1> HIDE DEF S
<1>3. Reach(f, k) \subseteq S
  BY <1>1, <1>2, ReachLeast
<1> QED
  BY <1>3 DEF S

\* Rising pointers reach the nodes in their order.
LEMMA ReachOrder ==
  ASSUME NEW f \in Pointers, NEW k \in Node, Rising(f),
         NEW m \in Reach(f, k), NEW n \in Reach(f, k)
  PROVE  /\ n \in Reach(f, m) <=> m <= n
         /\ m < n => f[m] # Nil /\ f[m] <= n /\ n \in Reach(f, f[m])
         /\ f[m] # Nil /\ f[m] = f[n] => m = n
<1>1. m \in Node /\ n \in Node /\ m \in Nat /\ n \in Nat
  BY ReachIn, NoNode
<1>2. n \in Reach(f, m) => m <= n
  BY <1>1, ReachUp
<1>3. m \in Reach(f, n) => n <= m
  BY <1>1, ReachUp
<1>4. m = n => n \in Reach(f, m)
  BY <1>1, ReachIn
<1>5. n \in Reach(f, m) <=> m <= n
  BY <1>1, <1>2, <1>3, <1>4, ReachLinear
<1>6. ASSUME NEW x \in Reach(f, k), NEW y \in Reach(f, k), y \in Reach(f, x), x < y
      PROVE  f[x] # Nil /\ f[x] <= y /\ y \in Reach(f, f[x]) /\ f[x] \in Nat
  <2>1. x \in Node /\ y \in Node /\ x \in Nat /\ y \in Nat
    BY ReachIn, NoNode
  <2>2. f[x] # Nil /\ y \in Reach(f, f[x])
    BY <1>6, <2>1, ReachUnfold
  <2>3. f[x] \in Node /\ f[x] \in Nat
    BY <2>1, <2>2, NoNode DEF Pointers
  <2> QED
    BY <2>2, <2>3, ReachUp
<1>7. m < n => f[m] # Nil /\ f[m] <= n /\ n \in Reach(f, f[m])
  BY <1>1, <1>5, <1>6
<1>8. ASSUME f[m] # Nil, f[m] = f[n], m # n
      PROVE  FALSE
  <2>1. f[m] \in Nat /\ m < f[m] /\ n < f[m]
    BY <1>1, <1>8, NoNode DEF Rising, Pointers
  <2>2. CASE n \in Reach(f, m)
    BY <1>1, <1>5, <1>7, <1>8, <2>1, <2>2
  <2>3. CASE m \in Reach(f, n)
    BY <1>1, <1>3, <1>6, <1>8, <2>1, <2>3
  <2> QED
    BY <2>2, <2>3, ReachLinear
<1> QED
  BY <1>5, <1>7, <1>8

LEMMA ReachBefore ==
  ASSUME NEW f \in Pointers, NEW k \in Node, NEW n \in Reach(f, k), n # k
  PROVE  \E m \in Reach(f, k) : f[m] = n
<1> SUFFICES ASSUME \A m \in Reach(f, k) : f[m] # n
             PROVE  FALSE
  OBVIOUS
<1> DEFINE S == Reach(f, k) \ {n}
<1>1. k \in S
  BY ReachIn
<1>2. \A m \in S : m \in Node /\ f[m] # Nil => f[m] \in S /\ f[m] \in Node
  BY ReachOn
<1>3. n \notin S
  OBVIOUS
<1> HIDE DEF S
<1> QED
  BY <1>1, <1>2, <1>3, ReachLeast

\* A set of nodes reached has a first one.
LEMMA ReachFirst ==
  ASSUME NEW f \in Pointers, NEW k \in Node, NEW T \in SUBSET Reach(f, k), T # {}
  PROVE  \E n \in T : T \subseteq Reach(f, n)
<1> SUFFICES ASSUME \A n \in T : ~(T \subseteq Reach(f, n))
             PROVE  FALSE
  OBVIOUS
<1> DEFINE S == {m \in Node : T \subseteq Reach(f, m)}
<1>1. k \in S
  OBVIOUS
<1>2. ASSUME NEW m \in S, m \in Node, f[m] # Nil
      PROVE  f[m] \in S /\ f[m] \in Node
  <2>1. m \notin T
    OBVIOUS
  <2>2. Reach(f, m) = {m} \cup Reach(f, f[m])
    BY <1>2, ReachUnfold
  <2>3. f[m] \in Node
    BY <1>2 DEF Pointers
  <2> QED
    BY <2>1, <2>2, <2>3
<1>3. \A m \in S : m \in Node /\ f[m] # Nil => f[m] \in S /\ f[m] \in Node
  BY <1>2
<1>4. S \cap T = {}
  OBVIOUS
<1> HIDE DEF S
<1>5. Reach(f, k) \subseteq S
  BY <1>1, <1>3, ReachLeast
<1> QED
  BY <1>4, <1>5

\* A node other than p taken for the one after p changes only what p reaches.
LEMMA ReachSame ==
  ASSUME NEW f \in Pointers, NEW k \in Node, NEW p \in Node \ Reach(f, k), NEW d \in Node \cup {Nil}
  PROVE  Reach([f EXCEPT ![p] = d], k) = Reach(f, k)
<1> DEFINE g == [f EXCEPT ![p] = d]
<1>1. g \in Pointers /\ \A m \in Node \ {p} : g[m] = f[m]
  BY DEF Pointers
<1> HIDE DEF g
<1>2. \A m \in Reach(f, k) : m \in Node /\ g[m] # Nil => g[m] \in Reach(f, k) /\ g[m] \in Node
  BY <1>1, ReachOn
<1>3. Reach(g, k) \subseteq Reach(f, k)
  BY <1>2, ReachIn, ReachLeast
<1>4. \A m \in Reach(g, k) : m \in Node /\ f[m] # Nil => f[m] \in Reach(g, k) /\ f[m] \in Node
  BY <1>1, <1>3, ReachOn
<1>5. Reach(f, k) \subseteq Reach(g, k)
  BY <1>1, <1>4, ReachIn, ReachLeast
<1> QED
  BY <1>3, <1>5 DEF g

\* The node after p is taken out of what reaches p.
LEMMA ReachCut ==
  ASSUME NEW f \in Pointers, NEW k \in Node, Rising(f), NEW p \in Reach(f, k), f[p] # Nil
  PROVE  Reach([f EXCEPT ![p] = f[f[p]]], k) = Reach(f, k) \ {f[p]}
<1> DEFINE c == f[p]
           g == [f EXCEPT ![p] = f[c]]
           S == Reach(f, k) \ {c}
           T == Reach(g, k) \cup {c}
<1>1. p \in Node /\ c \in Node /\ c \in Reach(f, k) /\ p < c /\ c # Nil
  BY ReachIn, ReachOn DEF Rising
<1>2. k # c
  <2>1. k <= p /\ k \in Nat /\ p \in Nat /\ c \in Nat
    BY <1>1, ReachUp, NoNode
  <2> QED
    BY <1>1, <2>1
<1>3. g \in Pointers /\ g[p] = f[c] /\ \A m \in Node \ {p} : g[m] = f[m]
  BY <1>1 DEF Pointers
<1>4. f[c] # Nil => f[c] # c /\ f[c] \in Reach(f, k) /\ f[c] \in Node
  <2>1. c \in Nat /\ (f[c] # Nil => c < f[c])
    BY <1>1, NoNode DEF Rising
  <2> HIDE DEF c
  <2> QED
    BY <1>1, <2>1, ReachOn
<1>5. \A m \in Reach(f, k) : f[m] = c => m = p
  BY <1>1, ReachOrder
<1> HIDE DEF c, g
<1>6. \A m \in S : m \in Node /\ g[m] # Nil => g[m] \in S /\ g[m] \in Node
  BY <1>1, <1>3, <1>4, <1>5, ReachOn
<1>7. k \in S
  BY <1>2, ReachIn
<1>8. Reach(g, k) \subseteq S
  <2> HIDE DEF S
  <2> QED
    BY <1>6, <1>7, ReachLeast
<1>9. k \in Reach(g, k)
  BY <1>3, ReachIn
<1>10. p \in Reach(g, k)
  <2>1. SUFFICES ASSUME p \notin Reach(g, k) PROVE FALSE
    OBVIOUS
  <2>2. \A m \in Reach(g, k) : m \in Node /\ f[m] # Nil => f[m] \in Reach(g, k) /\ f[m] \in Node
    BY <1>3, <2>1, ReachOn
  <2>3. Reach(f, k) \subseteq Reach(g, k)
    BY <1>9, <2>2, ReachLeast
  <2> QED
    BY <2>1, <2>3
<1>11. \A m \in T : m \in Node /\ f[m] # Nil => f[m] \in T /\ f[m] \in Node
  <2>1. f[p] = c
    BY DEF c
  <2>2. f[c] # Nil => f[c] \in Reach(g, k) /\ f[c] \in Node
    BY <1>3, <1>10, ReachOn
  <2>3. \A m \in Reach(g, k) : m # p /\ f[m] # Nil => f[m] \in Reach(g, k) /\ f[m] \in Node
    <3> SUFFICES ASSUME NEW m \in Reach(g, k), m # p, f[m] # Nil
                 PROVE  f[m] \in Reach(g, k) /\ f[m] \in Node
      OBVIOUS
    <3>1. m \in Node
      BY <1>3, ReachIn
    <3>2. g[m] = f[m]
      BY <1>3, <3>1
    <3> QED
      BY <1>3, <3>2, ReachOn
  <2> QED
    BY <1>1, <2>1, <2>2, <2>3
<1>12. Reach(f, k) \subseteq T
  <2>1. k \in T
    BY <1>9
  <2> HIDE DEF T
  <2> QED
    BY <1>11, <2>1, ReachLeast
<1> QED
  BY <1>8, <1>12 DEF c, g

-----------------------------------------------------------------------------
(***************************************************************************)
(* The inductive invariant.                                                *)
(***************************************************************************)
Building == {"typealize", "merge", "assign", "args", "attach", "notfound", "init"}
Call == [t : Node, e : Node \cup {Nil}]

Types ==
  /\ ids \in TokenIds
  /\ pc \in Building \cup {"readline", "make", "execute", "crashed"}
  /\ text \in [Node -> Text] /\ glued \in [Node -> BOOLEAN] /\ next \in Pointers
  /\ id \in [Node -> Nat] /\ type \in [Node -> Kind] /\ rank \in [Node -> {RankC, RankB, RankS}]
  /\ at \in Node \cup {Nil} /\ cmd \in Node \cup {Nil}
  /\ used \in SUBSET Node /\ left \in Pointers /\ right \in Pointers
  /\ root \in Node \cup {Nil} /\ calls \in Seq(Call)

\* The list is in the order of the line, and it ends.
Ordered == Rising(next) /\ \E b \in Nat : 1..b \subseteq Node /\ \A n \in Node : next[n] <= b

\* An operator keeps its rank, and no other token gets it.
Ranked ==
  \A n \in Node : /\ rank[n] = RankS <=> text[n] \in Operator
                  /\ rank[n] # RankS <=> type[n] \in {"command", "word", "assign"}

Named ==
  /\ pc # "readline" => First \in Node
  /\ pc \notin {"readline", "typealize"} => id = ids /\ Ranked

\* No node is made before init_yggdrasil.
Bare == pc \in Building => used = {} /\ left = Blank(Nil) /\ right = Blank(Nil)

\* Two tokens of the list side by side that are no operators.
Pair(a) == a \in Tokens /\ next[a] # Nil /\ rank[a] # RankS /\ rank[next[a]] # RankS

\* The tokens handler_args_file has still to look at, in the list or not.
Ahead == From(at) \cup (IF pc = "attach" THEN {cmd} \ {Nil} ELSE {})

\* Of each such pair the second one still has its turn to be taken: it follows
\* one of them that is no operator.
Taking ==
  pc \in {"args", "attach"} =>
    \A a \in Node : Pair(a) => \E y \in Ahead : rank[y] # RankS /\ next[y] = next[a]

\* cmd_handler_args is not behind the tokens still ahead: the ones before the
\* token it looks at are no longer in the list.
Following ==
  pc = "attach" /\ cmd # Nil =>
    /\ next[cmd] \in From(at) \cup {Nil}
    /\ cmd \in From(at) \/ \A m \in From(at) \cap Tokens : next[cmd] <= m

\* When the handlers are done every token is an operator or next to two.
Apart == pc \in {"notfound", "init", "make", "execute"} => \A a \in Node : ~Pair(a)

\* An operand waiting for its call has nothing between it and eof.
Idle(c) == rank[c.t] # RankS /\ next[c.t] = c.e

\* make_yggdrasil goes back from operator to operator: the tokens from its eof
\* on have their nodes, and there is no operator between the two.
Spine(c) ==
  /\ c.e # Nil => c.t < c.e /\ rank[c.e] = RankS /\ c.e \in Tokens
  /\ used = {c.t} \cup {n \in Tokens : c.e # Nil /\ c.e <= n}
  /\ \A n \in Tokens : rank[n] = RankS => n <= c.t \/ (c.e # Nil /\ c.e <= n)

Growing ==
  /\ root \in Tokens /\ used \subseteq Tokens
  /\ \A i \in 1..Len(calls) : calls[i].t \in used
  /\ \A i \in 2..Len(calls) : Idle(calls[i])
  /\ IF calls # <<>> /\ rank[calls[1].t] = RankS
     THEN Spine(calls[1]) /\ left[calls[1].t] = Nil /\ right[calls[1].t] = Nil
     ELSE used = Tokens /\ (calls # <<>> => Idle(calls[1]))

\* The tree so far: left operands before their operator, right ones after it.
\* A left operand is the operator before, or the first token.
Hanging ==
  /\ \A n \in Node : n \notin used \/ rank[n] # RankS => left[n] = Nil /\ right[n] = Nil
  /\ \A n \in Node : left[n] # Nil => left[n] \in Tokens /\ left[n] < n
  /\ \A n \in Node : right[n] # Nil =>
        right[n] \in Tokens /\ rank[right[n]] # RankS /\ next[n] = right[n]
  /\ \A n \in Node : left[n] # Nil =>
        /\ \A m \in Tokens : rank[m] = RankS => m <= left[n] \/ n <= m
        /\ rank[left[n]] # RankS => left[n] = First
  /\ used \subseteq Under(root)

\* The finished tree.
Finished == used = Tokens /\ root \in Tokens /\ Hanging

\* With one id for all tokens, the first call is for the first token, or the
\* next step is a crash.
Doomed ==
  \/ calls = <<>> /\ next[First] = Nil
  \/ calls # <<>> /\ calls[1].t # First /\ next[First] # Nil
  \/ calls = <<[t |-> First, e |-> Nil]>> /\ used = {First} /\ First \in Greatest

Whole == Distinct \/ next[First] = Nil

IInv ==
  /\ Types /\ Ordered /\ Named /\ Bare
  /\ Distinct => Taking /\ Following /\ Apart
  /\ pc = "make" /\ Whole => Growing /\ Hanging
  /\ pc = "make" /\ Alike => Doomed
  /\ pc = "execute" => Finished
  /\ OneTokenLives /\ TreeNeverCrashes /\ TreeIsTheList /\ RightIsLeaf

-----------------------------------------------------------------------------
(***************************************************************************)
(* What the list's functions give in a state of the invariant.             *)
(***************************************************************************)
LEMMA GreatestOf ==
  ASSUME NEW T \in SUBSET Nat, T # {}, NEW b \in Nat, \A n \in T : n <= b
  PROVE  \E m \in T : \A n \in T : n <= m
<1> DEFINE U == {b - n : n \in T}
<1>1. U \in SUBSET Nat /\ U # {}
  <2>1. \A n \in T : b - n \in Nat
    OBVIOUS
  <2> QED
    BY <2>1
<1>2. PICK u \in U : \A v \in U : u <= v
  BY <1>1, LeastNat
<1>3. PICK m \in T : u = b - m
  BY <1>2
<1>4. ASSUME NEW n \in T PROVE n <= m
  <2>1. b - n \in U
    OBVIOUS
  <2> QED
    BY <1>2, <1>3, <2>1
<1> QED
  BY <1>3, <1>4

LEMMA Live ==
  ASSUME Types, First \in Node
  PROVE  /\ Tokens = Reach(next, First) /\ Tokens \subseteq Node /\ First \in Tokens
         /\ \A n \in Tokens : next[n] # Nil => next[n] \in Tokens
BY ReachIn, ReachOn, NoNode DEF Tokens, From, Types, First, Nil

\* The list is in order.
LEMMA InOrder ==
  ASSUME Types, First \in Node, Ordered
  PROVE  /\ \A n \in Tokens : First <= n /\ n \in Nat
         /\ \A m, n \in Tokens : m < n => next[m] # Nil /\ next[m] <= n
         /\ \A m, n \in Tokens : next[m] # Nil /\ next[m] = next[n] => m = n
         /\ \A n \in Tokens : After(n) = {m \in Tokens : n < m}
<1>1. next \in Pointers /\ Rising(next)
  BY DEF Types, Ordered
<1>2. Tokens = Reach(next, First) /\ Tokens \subseteq Node
  BY Live
<1>3. \A n \in Tokens : First <= n /\ n \in Nat
  BY <1>1, <1>2, ReachUp, NoNode
<1>4. \A m, n \in Tokens : m < n => next[m] # Nil /\ next[m] <= n /\ n \in Reach(next, next[m])
  BY <1>1, <1>2, ReachOrder
<1>5. \A m, n \in Tokens : next[m] # Nil /\ next[m] = next[n] => m = n
  BY <1>1, <1>2, ReachOrder
<1>6. ASSUME NEW n \in Tokens
      PROVE  After(n) = {m \in Tokens : n < m}
  <2>1. n \in Node /\ n \in Nat
    BY <1>2, <1>3
  <2>2. CASE next[n] = Nil
    BY <1>4, <2>1, <2>2 DEF After, From
  <2>3. CASE next[n] # Nil
    <3>1. next[n] \in Tokens /\ n < next[n] /\ next[n] \in Node
      BY <1>1, <1>2, <2>1, <2>3, Live DEF Rising
    <3>2. After(n) = Reach(next, next[n])
      BY <2>3 DEF After, From
    <3>3. Reach(next, next[n]) \subseteq Tokens
      BY <1>1, <1>2, <3>1, ReachFrom
    <3>4. \A m \in Reach(next, next[n]) : next[n] <= m
      BY <1>1, <3>1, ReachUp
    <3>5. \A m \in Reach(next, next[n]) : n < m
      <4> TAKE m \in Reach(next, next[n])
      <4>1. m \in Nat /\ next[n] \in Nat /\ next[n] <= m
        BY <1>3, <3>1, <3>3, <3>4
      <4> QED
        BY <2>1, <3>1, <4>1
    <3> QED
      BY <1>4, <3>2, <3>3, <3>5
  <2> QED
    BY <2>2, <2>3
<1> QED
  BY <1>3, <1>4, <1>5, <1>6

\* Some of the tokens are the last of them.
LEMMA LastOf ==
  ASSUME Types, First \in Node, Ordered, NEW T \in SUBSET Tokens, T # {}
  PROVE  \E m \in T : T \cap After(m) = {}
<1>1. PICK b \in Nat : 1..b \subseteq Node /\ \A n \in Node : next[n] <= b
  BY DEF Ordered
<1>2. ASSUME NEW n \in Tokens PROVE n <= b + 1 /\ n \in Nat
  <2>1. n \in Nat
    BY InOrder
  <2>2. CASE n = First
    BY <1>1, <2>2 DEF First
  <2>3. CASE n # First
    <3>1. PICK m \in Tokens : next[m] = n
      BY <2>3, Live, ReachBefore DEF Types
    <3> QED
      BY <1>1, <2>1, <3>1, Live
  <2> QED
    BY <2>2, <2>3
<1>3. T \in SUBSET Nat /\ \A n \in T : n <= b + 1
  BY <1>2
<1>4. PICK m \in T : \A n \in T : n <= m
  <2>1. b + 1 \in Nat
    OBVIOUS
  <2> QED
    BY <1>3, <2>1, GreatestOf
<1>5. After(m) = {n \in Tokens : m < n}
  BY InOrder
<1>6. \A n \in T : n \in Nat /\ ~(m < n)
  BY <1>2, <1>4
<1> QED
  BY <1>5, <1>6

\* With one id for all tokens no token has a previous one.
LEMMA PrevAlike ==
  ASSUME Types, Alike, id = ids, NEW k \in Node, NEW f \in Node
  PROVE  Prev(k, f) = Nil
BY NoNode DEF Prev, Alike

\* With distinct ids it is the one before it in the list.
LEMMA PrevDistinct ==
  ASSUME Types, Ordered, Distinct, id = ids, NEW k \in Node, NEW f \in Node
  PROVE  /\ Prev(k, f) = Nil <=> k = f \/ k \notin Reach(next, f)
         /\ Prev(k, f) # Nil => Prev(k, f) \in Reach(next, f) /\ next[Prev(k, f)] = k
<1> DEFINE I == {n \in From(f) : next[n] # Nil /\ id[next[n]] = id[k]}
<1>1. next \in Pointers /\ Rising(next) /\ k # Nil /\ f # Nil
  BY NoNode DEF Types, Ordered
<1>2. From(f) = Reach(next, f) /\ Reach(next, f) \subseteq Node
  BY <1>1, ReachIn DEF From
<1>3. I = {n \in Reach(next, f) : next[n] = k}
  BY <1>1, <1>2 DEF Distinct, Pointers
<1>4. id[k] = id[f] <=> k = f
  BY DEF Distinct
<1>5. \A m, n \in I : m = n
  BY <1>1, <1>3, ReachOrder
<1>6. \A n \in I : I \subseteq From(n)
  <2> TAKE n \in I
  <2>1. n \in Node /\ n # Nil
    BY <1>2, NoNode
  <2>2. n \in From(n)
    BY <1>1, <2>1, ReachIn DEF From
  <2> QED
    BY <1>5, <2>2
<1>7. I # {} => (CHOOSE n \in I : I \subseteq From(n)) \in I
  <2> HIDE DEF I
  <2> QED
    BY <1>6
<1>8. Prev(k, f) = IF k = f \/ I = {} THEN Nil ELSE CHOOSE n \in I : I \subseteq From(n)
  BY <1>1, <1>4 DEF Prev
<1>9. I = {} <=> \A n \in Reach(next, f) : next[n] # k
  BY <1>3
<1>10. k # f => (k \in Reach(next, f) <=> I # {})
  BY <1>1, <1>9, ReachBefore, ReachOn
<1>11. I # {} => (CHOOSE n \in I : I \subseteq From(n)) # Nil
  BY <1>2, <1>3, <1>7, NoNode
<1> QED
  <2> HIDE DEF I
  <2>1. I # {} => (CHOOSE n \in I : I \subseteq From(n)) \in Reach(next, f)
                  /\ next[CHOOSE n \in I : I \subseteq From(n)] = k
    BY <1>3, <1>7
  <2> QED
    BY <1>8, <1>10, <1>11, <2>1

LEMMA OneOrMore ==
  ASSUME Types
  PROVE  Alike \/ Distinct
BY IdAssumption DEF Types, Alike, Distinct

\* A token found before another one is in the list, just before it.
LEMMA PrevFound ==
  ASSUME Types, Ordered, id = ids, NEW k \in Node, NEW f \in Node
  PROVE  /\ Prev(k, f) \in Node \cup {Nil}
         /\ Prev(k, f) # Nil => Distinct /\ Prev(k, f) \in Reach(next, f) /\ next[Prev(k, f)] = k
<1>1. CASE Alike
  BY <1>1, PrevAlike
<1>2. CASE Distinct
  BY <1>2, PrevDistinct, ReachIn DEF Types
<1> QED
  BY <1>1, <1>2, OneOrMore

\* Taking k out of the list keeps it in order.
LEMMA RemovedIn ==
  ASSUME Types, Ordered, id = ids, NEW k \in Node, NEW f \in Node, Prev(k, f) # Nil
  PROVE  /\ Removed(k, f) = [next EXCEPT ![Prev(k, f)] = next[k]]
         /\ Removed(k, f) \in Pointers /\ Rising(Removed(k, f))
         /\ \E b \in Nat : 1..b \subseteq Node /\ \A n \in Node : Removed(k, f)[n] <= b
<1> DEFINE p == Prev(k, f)
<1>1. p \in Node /\ next[p] = k /\ next \in Pointers /\ Rising(next)
  BY PrevFound DEF Types, Ordered
<1>2. p < k /\ p \in Nat /\ k \in Nat /\ k # Nil /\ next[k] \in Nat /\ (next[k] # Nil => k < next[k])
  <2>1. k \in Nat /\ p \in Nat /\ k # Nil
    BY <1>1, NoNode
  <2>2. next[k] \in Nat
    <3>1. next[k] \in Node \cup {0}
      BY <1>1 DEF Pointers, Nil
    <3> HIDE DEF p
    <3>2. \A z \in Node \cup {0} : z \in Nat
      BY NoNode
    <3> QED
      BY <3>1, <3>2, Zenon
  <2> HIDE DEF p
  <2> QED
    BY <1>1, <2>1, <2>2 DEF Rising
<1>3. Removed(k, f) = [next EXCEPT ![p] = next[k]]
  BY DEF Removed
<1> HIDE DEF p
<1>4. Removed(k, f) \in Pointers
  BY <1>1, <1>3 DEF Pointers
<1>5. Rising(Removed(k, f))
  BY <1>1, <1>2, <1>3 DEF Rising, Pointers
<1>6. PICK b \in Nat : 1..b \subseteq Node /\ \A n \in Node : next[n] <= b
  BY DEF Ordered
<1>7. \A n \in Node : Removed(k, f)[n] <= b
  BY <1>1, <1>3, <1>6 DEF Pointers
<1> QED
  BY <1>3, <1>4, <1>5, <1>6, <1>7 DEF p

-----------------------------------------------------------------------------
(***************************************************************************)
(* Every step keeps the list in order and the tokens' fields in their      *)
(* types.                                                                  *)
(***************************************************************************)
Base == Types /\ Ordered /\ Named /\ Bare

\* What the functions after typealize may rely on.
LEMMA Started ==
  ASSUME Base, pc \notin {"readline", "typealize"}
  PROVE  First \in Node /\ id = ids /\ Ranked
BY DEF Base, Named

LEMMA BaseInit ==
  ASSUME Init
  PROVE  Base
<1>1. Types
  BY DEF Init, Types, Blank, Pointers, Text, Kind, Building, Nil
<1>2. Ordered
  <2>1. \A n \in Node : next[n] = 0
    BY DEF Init, Blank, Nil
  <2>2. Rising(next) /\ \A n \in Node : next[n] <= 0
    BY <2>1 DEF Rising, Nil
  <2> QED
    BY <2>2 DEF Ordered
<1> QED
  BY <1>1, <1>2 DEF Init, Base, Named, Bare, Building

LEMMA BaseSplit ==
  ASSUME Base, Split, UNCHANGED ids
  PROVE  Base'
<1>1. PICK l \in Lines :
         /\ text' = [n \in Node |-> IF n \in 1..Len(l) THEN l[n].text ELSE "word"]
         /\ glued' = [n \in Node |-> n \in 1..Len(l) /\ l[n].glued]
         /\ next' = [n \in Node |-> IF n < Len(l) THEN n + 1 ELSE Nil]
  BY DEF Split
<1>2. l # <<>> /\ l \in Seq(Lexeme) /\ 1..Len(l) \subseteq Node /\ Len(l) \in Nat
  BY LinesAssumption
<1>3. Len(l) >= 1 /\ First \in Node
  BY <1>2 DEF First
<1>4. \A n \in 1..Len(l) : l[n].text \in Text /\ l[n].glued \in BOOLEAN
  <2>1. \A n \in 1..Len(l) : l[n] \in Lexeme
    BY <1>2
  <2> QED
    BY <2>1 DEF Lexeme
<1>5. text' \in [Node -> Text] /\ glued' \in [Node -> BOOLEAN]
  BY <1>1, <1>4 DEF Text
<1>6. \A n \in Node : n < Len(l) => n + 1 \in Node /\ n < n + 1 /\ n + 1 <= Len(l)
  BY <1>2, NoNode, NodeAssumption
<1>7. next' \in Pointers /\ Rising(next') /\ \A n \in Node : next'[n] <= Len(l)
  BY <1>1, <1>2, <1>6 DEF Pointers, Rising, Nil
<1>8. id' \in [Node -> Nat]
  BY NoNode DEF Split
<1>9. Types'
  BY <1>5, <1>7, <1>8 DEF Split, Base, Types, Blank, Kind, RankC, Building, Pointers
<1> QED
  BY <1>2, <1>3, <1>7, <1>9 DEF Split, Base, Ordered, Named, Bare

LEMMA RankedText ==
  ASSUME NEW x \in Text
  PROVE  /\ RankOf(x) \in {RankC, RankB, RankS} /\ TypeOf(x) \in Kind
         /\ RankOf(x) = RankS <=> x \in Operator
         /\ RankOf(x) # RankS <=> TypeOf(x) \in {"command", "word", "assign"}
BY DEF Text, Operator, RankOf, TypeOf, RankC, RankB, RankS, Kind, RedirKind

LEMMA BaseTypealize ==
  ASSUME Base, Typealize, UNCHANGED ids
  PROVE  Base'
<1>1. First \in Node
  BY DEF Base, Named, Typealize
<1>2. at' \in Node
  <2>1. Tokens \subseteq Node /\ Tokens # {}
    BY <1>1, Live DEF Base
  <2>2. PICK m \in Tokens : Tokens \cap After(m) = {}
    BY <1>1, <2>1, LastOf DEF Base
  <2>3. next[m] = Nil
    <3> SUFFICES ASSUME next[m] # Nil PROVE FALSE
      OBVIOUS
    <3>1. next[m] \in Tokens /\ next[m] \in Node
      BY <1>1, <2>1, Live DEF Base
    <3>2. next[m] \in After(m)
      BY <3>1, ReachIn DEF After, From, Base, Types
    <3> QED
      BY <2>2, <3>1, <3>2
  <2> QED
    BY <2>1, <2>3 DEF Typealize
<1>3. \A n \in Node : text[n] \in Text
  BY DEF Base, Types
<1>4. type' \in [Node -> Kind] /\ rank' \in [Node -> {RankC, RankB, RankS}] /\ Ranked'
  BY <1>3, RankedText DEF Typealize, Ranked
<1>5. ids \in [Node -> Nat]
  BY IdAssumption DEF Base, Types
<1>6. Types'
  BY <1>2, <1>4, <1>5 DEF Base, Types, Typealize, ygg, Building
<1> QED
  BY <1>1, <1>4, <1>6 DEF Base, Ordered, Named, Bare, Typealize, ygg, Building

LEMMA MergedIn ==
  ASSUME Base, pc = "merge"
  PROVE  Merged \in Node
<1>1. First \in Node /\ id = ids
  BY Started
<1>2. CASE at = Nil
  BY <1>1, <1>2 DEF Merged, MergesFirst, Prev
<1>3. CASE at # Nil
  <2>1. at \in Node
    BY <1>3 DEF Base, Types
  <2>2. Prev(at, First) \in Node \cup {Nil}
    BY <1>1, <2>1, PrevFound DEF Base
  <2> QED
    BY <1>1, <2>2 DEF Merged, MergesFirst
<1> QED
  BY <1>2, <1>3

\* A merge keeps operators apart from other texts.
LEMMA JoinKeeps ==
  ASSUME Base, id = ids, Ranked, NEW t \in Node, Join(t)
  PROVE  /\ next' \in Pointers /\ Rising(next') /\ \E b \in Nat : 1..b \subseteq Node /\ \A n \in Node : next'[n] <= b
         /\ text' \in [Node -> Text] /\ \A n \in Node : text'[n] \in Operator <=> text[n] \in Operator
<1>1. CASE ~Joins(t)
  BY <1>1 DEF Join, Base, Types, Ordered
<1>2. CASE Joins(t)
  <2>1. next[t] \in Node /\ Prev(next[t], t) # Nil
    BY <1>2 DEF Joins, Base, Types, Pointers
  <2>2. next' = Removed(next[t], t)
    BY <1>2 DEF Join
  <2>3. PICK x \in {"cmd", "builtin", "word", "assign"} :
          text' = [text EXCEPT ![t] = IF @ \in Operator \cup {"assign", "open"} THEN @ ELSE x]
    BY <1>2 DEF Join
  <2>4. text \in [Node -> Text]
    BY DEF Base, Types
  <2>5. x \in Text /\ x \notin Operator
    BY <2>3 DEF Text, Operator
  <2>6. text' \in [Node -> Text]
    BY <2>3, <2>4, <2>5
  <2>7. \A n \in Node : text'[n] \in Operator <=> text[n] \in Operator
    BY <2>3, <2>4, <2>5
  <2> QED
    BY <2>1, <2>2, <2>6, <2>7, RemovedIn DEF Base
<1> QED
  BY <1>1, <1>2

LEMMA BaseMerge ==
  ASSUME Base, Merge, UNCHANGED ids
  PROVE  Base'
<1>1. First \in Node /\ id = ids /\ Ranked
  BY Started DEF Merge
<1>2. Merged \in Node
  BY MergedIn DEF Merge
<1>3. /\ next' \in Pointers /\ Rising(next') /\ \E b \in Nat : 1..b \subseteq Node /\ \A n \in Node : next'[n] <= b
      /\ text' \in [Node -> Text] /\ \A n \in Node : text'[n] \in Operator <=> text[n] \in Operator
  BY <1>1, <1>2, JoinKeeps DEF Merge
<1>4. pc' \in {"merge", "readline", "assign"}
  BY DEF Merge
<1>5. Ranked'
  BY <1>1, <1>3 DEF Ranked, Merge
<1>6. Types'
  BY <1>2, <1>3, <1>4 DEF Base, Types, Merge, ygg, Building
<1> QED
  BY <1>1, <1>3, <1>4, <1>5, <1>6 DEF Base, Ordered, Named, Bare, Merge, ygg, Building

LEMMA BaseAssign ==
  ASSUME Base, Assign, UNCHANGED ids
  PROVE  Base'
<1>1. First \in Node /\ id = ids /\ Ranked
  BY Started DEF Assign
<1>2. ASSUME NEW n \in Node
      PROVE  type'[n] = type[n] \/ (type'[n] = "assign" /\ text[n] = "assign")
  <2>1. n \in Tokens => n \in From(n)
    BY ReachIn, NoNode DEF From, Base, Types
  <2>2. type'[n] = IF n \in Tokens /\ (\A m \in Tokens : n \in From(m) => text[m] = "assign")
                   THEN "assign" ELSE type[n]
    BY DEF Assign
  <2> DEFINE Heads == n \in Tokens /\ (\A m \in Tokens : n \in From(m) => text[m] = "assign")
  <2>3. Heads => text[n] = "assign"
    BY <2>1
  <2> HIDE DEF Heads
  <2>4. type'[n] = IF Heads THEN "assign" ELSE type[n]
    BY <2>2 DEF Heads
  <2> QED
    BY <2>3, <2>4
<1>3. type' \in [Node -> Kind]
  BY DEF Assign, Base, Types, Kind
<1>4. \A n \in Node : text[n] = "assign" => rank[n] # RankS
  BY <1>1 DEF Ranked, Operator
<1>5. Ranked'
  BY <1>1, <1>2, <1>4 DEF Ranked, Assign
<1>6. Types'
  BY <1>1, <1>3 DEF Base, Types, Assign, ygg, Building
<1> QED
  BY <1>1, <1>5, <1>6 DEF Base, Ordered, Named, Bare, Assign, ygg, Building

\* The handlers take out what they find just after a token of the list.
LEMMA TakeKeeps ==
  ASSUME Base, id = ids, First \in Node, NEW k \in Node,
         next' = next \/ (next[k] # Nil /\ Prev(next[k], First) # Nil /\ next' = Removed(next[k], First))
  PROVE  next' \in Pointers /\ Rising(next') /\ \E b \in Nat : 1..b \subseteq Node /\ \A n \in Node : next'[n] <= b
<1>1. next[k] # Nil => next[k] \in Node
  BY DEF Base, Types, Pointers
<1> QED
  <2>1. CASE next' = next
    BY <2>1 DEF Base, Types, Ordered
  <2>2. CASE next[k] # Nil /\ Prev(next[k], First) # Nil /\ next' = Removed(next[k], First)
    BY <1>1, <2>2, RemovedIn DEF Base
  <2> QED
    BY <2>1, <2>2

LEMMA BaseHandle ==
  ASSUME Base, HandleToken, UNCHANGED ids
  PROVE  Base'
<1>1. First \in Node /\ id = ids /\ Ranked
  BY Started DEF HandleToken
<1>2. at \in Node /\ at' \in Node \cup {Nil}
  BY DEF HandleToken, Base, Types, Pointers
<1>3. next' = next \/ (next[at] # Nil /\ Prev(next[at], First) # Nil /\ next' = Removed(next[at], First))
  <2>1. TakeFile(at) \/ UNCHANGED next
    BY DEF HandleToken
  <2> QED
    BY <2>1, Zenon DEF TakeFile
<1>4. next' \in Pointers /\ Rising(next') /\ \E b \in Nat : 1..b \subseteq Node /\ \A n \in Node : next'[n] <= b
  BY <1>1, <1>2, <1>3, TakeKeeps
<1>5. Types' /\ pc' \in {"args", "attach"}
  BY <1>2, <1>4 DEF Base, Types, HandleToken, TakeFile, ygg, Building
<1> QED
  BY <1>1, <1>4, <1>5 DEF Base, Ordered, Named, Bare, Ranked, HandleToken, ygg, Building

LEMMA BaseAttach ==
  ASSUME Base, AttachArg, UNCHANGED ids
  PROVE  Base'
<1>1. First \in Node /\ id = ids /\ Ranked
  BY Started DEF AttachArg, Attaching
<1>2. cmd \in Node
  BY DEF AttachArg, Attaching, Base, Types
<1>3. next[cmd] # Nil /\ Prev(next[cmd], First) # Nil /\ next' = Removed(next[cmd], First)
  BY DEF AttachArg, Takes
<1>4. next' \in Pointers /\ Rising(next') /\ \E b \in Nat : 1..b \subseteq Node /\ \A n \in Node : next'[n] <= b
  BY <1>1, <1>2, <1>3, TakeKeeps
<1>5. cmd' \in Node \cup {Nil}
  BY <1>2, <1>4 DEF AttachArg, Pointers
<1>6. Types' /\ pc' = "attach"
  BY <1>4, <1>5 DEF Base, Types, AttachArg, Attaching, ygg
<1> QED
  BY <1>1, <1>4, <1>6 DEF Base, Ordered, Named, Bare, Ranked, AttachArg, ygg, Building

\* The steps that leave the list alone, up to the call of init_yggdrasil.
LEMMA BaseQuiet ==
  ASSUME Base, UNCHANGED ids,
         MergeCrash \/ NextCmd \/ Attached \/ HandlerDone \/ CmdNotFound
  PROVE  Base'
<1>1. First \in Node /\ id = ids /\ Ranked
  BY Started DEF MergeCrash, NextCmd, Attached, Attaching, HandlerDone, CmdNotFound
<1>2. CASE MergeCrash
  BY <1>1, <1>2 DEF Base, Types, Ordered, Named, Bare, Ranked, MergeCrash, list, ygg, Building
<1>3. CASE NextCmd
  <2>1. cmd' \in Node \cup {Nil}
    BY <1>3 DEF NextCmd, Attaching, Base, Types, Pointers
  <2> QED
    BY <1>1, <1>3, <2>1 DEF Base, Types, Ordered, Named, Bare, Ranked, NextCmd, list, ygg, Building
<1>4. CASE Attached \/ HandlerDone
  BY <1>1, <1>4 DEF Base, Types, Ordered, Named, Bare, Ranked, Attached, HandlerDone, list, ygg, Building
<1>5. CASE CmdNotFound
  <2>1. type' \in [Node -> Kind] /\ rank' \in [Node -> {RankC, RankB, RankS}]
    BY <1>5 DEF CmdNotFound, Base, Types, Kind
  <2>2. \A n \in Node : Plain(n) => type[n] \in {"command", "word"} /\ rank[n] # RankS
    BY <1>1 DEF Plain, Ranked
  <2>3. \A n \in Node : type'[n] = type[n] \/ (Plain(n) /\ type'[n] \in {"command", "word"})
    <3> TAKE n \in Node
    <3>1. type'[n] = IF ~Plain(n) THEN type[n] ELSE IF Found(n) THEN "command" ELSE "word"
      BY <1>5 DEF CmdNotFound
    <3> QED
      BY <3>1
  <2>4. \A n \in Node : rank'[n] = rank[n] \/ (Plain(n) /\ rank'[n] = RankB)
    <3> TAKE n \in Node
    <3>1. rank'[n] = IF Plain(n) /\ type[n] = "word" /\ Found(n) THEN RankB ELSE rank[n]
      BY <1>5 DEF CmdNotFound
    <3> QED
      BY <3>1
  <2>5. Ranked'
    BY <1>1, <1>5, <2>2, <2>3, <2>4 DEF Ranked, CmdNotFound, RankB, RankS
  <2>6. Types'
    BY <1>5, <2>1 DEF Base, Types, CmdNotFound, ygg, Building
  <2> QED
    BY <1>1, <1>5, <2>5, <2>6 DEF Base, Ordered, Named, Bare, CmdNotFound, ygg, Building
<1> QED
  BY <1>2, <1>3, <1>4, <1>5

-----------------------------------------------------------------------------
(***************************************************************************)
(* The searches of make_yggdrasil.                                         *)
(***************************************************************************)
\* What Nearest finds is reached, its rank is not above t's, and no token that
\* is reached has a higher one that is not.
LEMMA NearestFinds ==
  ASSUME Types, NEW f \in Pointers, NEW t \in Node
  PROVE  /\ Nearest(f, t) \in Node \cup {Nil}
         /\ Nearest(f, t) # Nil =>
              /\ f[t] # Nil /\ Nearest(f, t) \in Reach(f, f[t])
              /\ rank[Nearest(f, t)] <= rank[t]
              /\ \A m \in Reach(f, f[t]) : rank[m] <= rank[t] =>
                   /\ rank[m] <= rank[Nearest(f, t)]
                   /\ rank[m] = rank[Nearest(f, t)] => m \in Reach(f, Nearest(f, t))
         /\ Nearest(f, t) = Nil => f[t] = Nil \/ \A m \in Reach(f, f[t]) : ~(rank[m] <= rank[t])
<1> DEFINE c == IF f[t] = Nil THEN {} ELSE Reach(f, f[t])
           I == {n \in c : rank[n] <= rank[t]}
           top == {n \in I : \A m \in I : rank[m] <= rank[n]}
           N == CHOOSE n \in top : top \subseteq Reach(f, n)
<1>1. Nearest(f, t) = IF I = {} THEN Nil ELSE N
  BY DEF Nearest
<1>2. c \subseteq Node /\ (f[t] = Nil => c = {}) /\ (f[t] # Nil => c = Reach(f, f[t]))
  BY ReachIn DEF Pointers
<1>3. \A n \in Node : rank[n] \in {3, 4, 6}
  BY DEF Types, RankC, RankB, RankS
<1>4. ASSUME I # {}
      PROVE  N \in top /\ top \subseteq Reach(f, N)
  <2>1. \A n \in I : rank[n] \in {3, 4, 6}
    BY <1>2, <1>3
  <2>2. top # {}
    <3> HIDE DEF I
    <3>1. CASE \E n \in I : rank[n] = 6
      BY <2>1, <3>1
    <3>2. CASE (\E n \in I : rank[n] = 4) /\ ~\E n \in I : rank[n] = 6
      BY <2>1, <3>2
    <3>3. CASE ~(\E n \in I : rank[n] = 4) /\ ~\E n \in I : rank[n] = 6
      BY <1>4, <2>1, <3>3
    <3> QED
      BY <3>1, <3>2, <3>3
  <2>3. f[t] \in Node /\ c = Reach(f, f[t])
    BY <1>4, <1>2 DEF Pointers
  <2>4. top \subseteq Reach(f, f[t])
    BY <2>3
  <2> HIDE DEF top, c
  <2>5. \E n \in top : top \subseteq Reach(f, n)
    BY <2>2, <2>3, <2>4, ReachFirst
  <2> QED
    BY <2>5
<1>5. CASE I = {}
  BY <1>1, <1>2, <1>5
<1>6. CASE I # {}
  <2> HIDE DEF N
  <2>1. Nearest(f, t) = N /\ N \in top /\ top \subseteq Reach(f, N)
    BY <1>1, <1>4, <1>6
  <2>2. N \in c /\ rank[N] <= rank[t] /\ \A m \in I : rank[m] <= rank[N]
    BY <2>1
  <2>3. f[t] # Nil /\ c = Reach(f, f[t]) /\ N \in Node /\ N # Nil
    BY <1>2, <2>2, NoNode
  <2>4. ASSUME NEW m \in Reach(f, f[t]), rank[m] <= rank[t]
        PROVE  rank[m] <= rank[N] /\ (rank[m] = rank[N] => m \in Reach(f, N))
    <3>1. m \in I
      BY <2>3, <2>4
    <3>2. rank[m] = rank[N] => m \in top
      BY <2>2, <3>1
    <3> QED
      BY <2>1, <2>2, <3>1, <3>2
  <2> QED
    BY <2>1, <2>2, <2>3, <2>4
<1> QED
  BY <1>5, <1>6

\* Back from t.
Back == [n \in Node |-> Prev(n, First)]

\* Forward from t, up to eof.
UpTo(e) == [n \in Node |-> IF next[n] = e THEN Nil ELSE next[n]]

LEMMA Ways ==
  ASSUME Base, First \in Node, id = ids, NEW e \in Node \cup {Nil}
  PROVE  Back \in Pointers /\ UpTo(e) \in Pointers
<1>1. \A n \in Node : Prev(n, First) \in Node \cup {Nil}
  BY PrevFound DEF Base
<1> QED
  BY <1>1 DEF Back, UpTo, Pointers, Base, Types

\* The operands found are tokens of the list.
LEMMA FoundIn ==
  ASSUME Base, First \in Node, id = ids, NEW t \in Node, NEW e \in Node \cup {Nil}
  PROVE  /\ FindLeft(t) \in Tokens \cup {Nil}
         /\ FindRight(t, e) \in Node \cup {Nil}
         /\ t \in Tokens => FindRight(t, e) \in Tokens \cup {Nil}
<1>1. Tokens = Reach(next, First) /\ Tokens \subseteq Node
      /\ \A n \in Tokens : next[n] # Nil => next[n] \in Tokens
  BY Live DEF Base
<1>2. Back \in Pointers /\ UpTo(e) \in Pointers
  BY Ways
<1>3. \A n \in Node : Back[n] # Nil => Back[n] \in Tokens
  BY <1>1, PrevFound DEF Back, Base
<1>4. FindLeft(t) \in Tokens \cup {Nil}
  <2>1. FindLeft(t) = IF t = First THEN Nil ELSE Nearest(Back, t)
    BY DEF FindLeft, Back
  <2>2. Nearest(Back, t) # Nil => Back[t] # Nil /\ Nearest(Back, t) \in Reach(Back, Back[t])
    BY <1>2, NearestFinds DEF Base
  <2>3. Back[t] # Nil => Reach(Back, Back[t]) \subseteq Tokens
    <3>1. \A m \in Tokens : m \in Node /\ Back[m] # Nil => Back[m] \in Tokens /\ Back[m] \in Node
      BY <1>1, <1>3
    <3> HIDE DEF Tokens
    <3> QED
      BY <1>1, <1>3, <3>1, ReachLeast
  <2> QED
    BY <2>1, <2>2, <2>3
<1>5. FindRight(t, e) = IF t = e THEN Nil ELSE Nearest(UpTo(e), t)
  BY DEF FindRight, UpTo
<1>6. ASSUME t \in Tokens
      PROVE  FindRight(t, e) \in Tokens \cup {Nil}
  <2>1. \A n \in Tokens : UpTo(e)[n] # Nil => UpTo(e)[n] \in Tokens /\ UpTo(e)[n] \in Node
    BY <1>1 DEF UpTo
  <2>2. Nearest(UpTo(e), t) # Nil => UpTo(e)[t] # Nil /\ Nearest(UpTo(e), t) \in Reach(UpTo(e), UpTo(e)[t])
    BY <1>2, NearestFinds DEF Base
  <2>3. UpTo(e)[t] # Nil => Reach(UpTo(e), UpTo(e)[t]) \subseteq Tokens
    <3> HIDE DEF UpTo, Tokens
    <3> QED
      BY <1>1, <1>6, <2>1, ReachLeast
  <2> QED
    BY <1>5, <2>2, <2>3
<1>7. FindRight(t, e) \in Node \cup {Nil}
  BY <1>2, <1>5, NearestFinds DEF Base
<1> QED
  BY <1>4, <1>6, <1>7

\* With distinct ids the way back from t meets every token before t, in order.
LEMMA BackReach ==
  ASSUME Base, First \in Node, id = ids, Distinct, NEW t \in Tokens, t # First
  PROVE  /\ Back[t] # Nil /\ Reach(Back, Back[t]) = {m \in Tokens : m < t}
         /\ \A n \in Tokens : Reach(Back, n) = {m \in Tokens : m <= n}
<1>1. Tokens = Reach(next, First) /\ Tokens \subseteq Node /\ First \in Tokens
      /\ \A n \in Tokens : next[n] # Nil => next[n] \in Tokens
  BY Live DEF Base
<1>2. Back \in Pointers /\ next \in Pointers /\ Rising(next)
  BY Ways DEF Base, Types, Ordered
<1>3. \A n \in Tokens : n \in Nat /\ First <= n
  BY InOrder DEF Base
<1>4. \A m, n \in Tokens : m < n => next[m] # Nil /\ next[m] <= n
  BY InOrder DEF Base
<1>5. ASSUME NEW n \in Tokens
      PROVE  /\ n = First => Back[n] = Nil
             /\ n # First => Back[n] \in Tokens /\ next[Back[n]] = n /\ Back[n] < n
  <2>1. Back[n] = Prev(n, First)
    BY <1>1 DEF Back
  <2>2. n = First => Back[n] = Nil
    BY <1>1, <2>1, PrevDistinct DEF Base
  <2>3. n # First => Back[n] # Nil
    BY <1>1, <2>1, PrevDistinct DEF Base
  <2>4. Back[n] # Nil => Back[n] \in Tokens /\ next[Back[n]] = n
    BY <1>1, <2>1, PrevDistinct DEF Base
  <2>5. Back[n] \in Tokens /\ next[Back[n]] = n => Back[n] < n
    BY <1>1, <1>2, NoNode DEF Rising
  <2> QED
    BY <2>2, <2>3, <2>4, <2>5
<1>6. ASSUME NEW n \in Tokens
      PROVE  Reach(Back, n) = {m \in Tokens : m <= n}
  <2> DEFINE S == {m \in Tokens : m <= n}
  <2>1. Reach(Back, n) \subseteq S
    <3>1. n \in S /\ n \in Node
      BY <1>1, <1>3
    <3>2. ASSUME NEW m \in S, Back[m] # Nil
          PROVE  m \in Node /\ Back[m] \in S /\ Back[m] \in Node
      <4>1. m \in Tokens /\ m <= n
        OBVIOUS
      <4>2. Back[m] \in Tokens /\ Back[m] < m
        BY <1>5, <3>2, <4>1
      <4> QED
        BY <1>1, <1>3, <4>1, <4>2
    <3>3. \A m \in S : m \in Node /\ Back[m] # Nil => Back[m] \in S /\ Back[m] \in Node
      BY <3>2
    <3> HIDE DEF S
    <3> QED
      BY <3>1, <3>3, ReachLeast
  <2>2. ASSUME NEW m \in S, m \notin Reach(Back, n)
        PROVE  FALSE
    <3> DEFINE U == {x \in Tokens : x <= n => x \notin Reach(Back, n)}
    <3>1. m \in Tokens /\ m \in U /\ m \in Node /\ m <= n
      BY <1>1, <2>2
    <3>2. ASSUME NEW x \in U, next[x] # Nil
          PROVE  next[x] \in U /\ next[x] \in Node
      <4>1. x \in Tokens /\ next[x] \in Tokens /\ next[x] \in Node /\ x < next[x]
        BY <1>1, <1>2, <3>2 DEF Rising
      <4>2. SUFFICES ASSUME next[x] <= n, next[x] \in Reach(Back, n) PROVE FALSE
        BY <4>1
      <4>3. next[x] # First
        BY <1>3, <4>1
      <4>4. Back[next[x]] \in Tokens /\ next[Back[next[x]]] = next[x]
        BY <1>5, <4>1, <4>3
      <4>5. Back[next[x]] = x
        BY <3>2, <4>1, <4>4, InOrder DEF Base
      <4>6. x # Nil
        BY <1>1, <4>1, NoNode
      <4>7. x \in Reach(Back, n)
        BY <1>1, <1>2, <4>2, <4>5, <4>6, ReachOn
      <4>8. x <= n
        BY <1>3, <4>1, <4>2
      <4> QED
        BY <4>7, <4>8
    <3>3. \A x \in U : x \in Node /\ next[x] # Nil => next[x] \in U /\ next[x] \in Node
      BY <3>2
    <3>4. n \in Reach(next, m)
      BY <1>1, <1>2, <3>1, ReachOrder
    <3>5. n \in Reach(Back, n) /\ n <= n
      BY <1>1, <1>2, <1>3, ReachIn
    <3>6. n \notin U
      BY <3>5
    <3> HIDE DEF U
    <3> QED
      BY <3>1, <3>3, <3>4, <3>6, ReachLeast
  <2> QED
    BY <2>1, <2>2
<1>7. Back[t] \in Tokens /\ next[Back[t]] = t /\ Back[t] < t
  BY <1>5
<1>8. ASSUME NEW m \in Tokens
      PROVE  m <= Back[t] <=> m < t
  <2>1. m \in Nat /\ Back[t] \in Nat /\ t \in Nat
    BY <1>3, <1>7
  <2>2. Back[t] < m => t <= m
    BY <1>4, <1>7
  <2> QED
    BY <1>7, <2>1, <2>2
<1>9. Reach(Back, Back[t]) = {m \in Tokens : m < t}
  BY <1>6, <1>7, <1>8
<1> QED
  BY <1>1, <1>6, <1>7, <1>9, NoNode

-----------------------------------------------------------------------------
(***************************************************************************)
(* The calls still to run.                                                 *)
(***************************************************************************)
\* The calls after a step: for the left operand, for the right one, and the
\* ones that were waiting.
Queued(q, c, l, r, t, e) ==
  /\ q \in Seq(Call) /\ Len(q) \in Nat
  /\ q # <<>> => q[1] \in Call /\ 1 \in 1..Len(q)
  /\ \A i \in 1..Len(q) :
       \/ i = 1 /\ l # Nil /\ q[i] = [t |-> l, e |-> t]
       \/ r # Nil /\ q[i] = [t |-> r, e |-> e]
       \/ \E j \in 2..Len(c) : q[i] = c[j]
  /\ \A i \in 2..Len(q) :
       \/ r # Nil /\ q[i] = [t |-> r, e |-> e]
       \/ \E j \in 2..Len(c) : q[i] = c[j]
  /\ l # Nil => q # <<>> /\ q[1] = [t |-> l, e |-> t]

LEMMA NextCalls ==
  ASSUME NEW c \in Seq(Call), c # <<>>, NEW l \in Node \cup {Nil}, NEW r \in Node \cup {Nil},
         NEW t \in Node, NEW e \in Node \cup {Nil},
         NEW q, q = Calling(l, t) \o Calling(r, e) \o Tail(c)
  PROVE  Queued(q, c, l, r, t, e)
<1> DEFINE A == Calling(l, t)
           B == Calling(r, e)
           T == Tail(c)
<1>1. A \in Seq(Call) /\ B \in Seq(Call) /\ T \in Seq(Call)
  <2>1. \A k \in Node, f \in Node \cup {Nil} : [t |-> k, e |-> f] \in Call
    BY DEF Call
  <2>2. T \in Seq(Call)
    <3> HIDE DEF Call
    <3> QED
      OBVIOUS
  <2> HIDE DEF Call, T
  <2>3. l = Nil => A = <<>>
    BY DEF Calling
  <2>4. l # Nil => A \in Seq(Call)
    BY <2>1 DEF Calling
  <2>5. r = Nil => B = <<>>
    BY DEF Calling
  <2>6. r # Nil => B \in Seq(Call)
    BY <2>1 DEF Calling
  <2>7. <<>> \in Seq(Call)
    OBVIOUS
  <2> QED
    BY <2>2, <2>3, <2>4, <2>5, <2>6, <2>7
<1>2. /\ Len(A) = (IF l = Nil THEN 0 ELSE 1)
      /\ l # Nil => A[1] = [t |-> l, e |-> t]
      /\ Len(B) = (IF r = Nil THEN 0 ELSE 1)
      /\ r # Nil => B[1] = [t |-> r, e |-> e]
  BY DEF Calling
<1>3. Len(T) = Len(c) - 1 /\ Len(c) \in Nat /\ \A i \in 1..Len(T) : T[i] = c[i + 1]
  OBVIOUS
<1>4. q = A \o B \o T
  OBVIOUS
<1> DEFINE D == A \o B
<1> HIDE DEF A, B, T, Call
<1>41. D \in Seq(Call) /\ Len(D) = Len(A) + Len(B) /\ Len(D) \in Nat
       /\ \A i \in 1..Len(D) : D[i] = IF i <= Len(A) THEN A[i] ELSE B[i - Len(A)]
  BY <1>1, ConcatProperties
<1> HIDE DEF D
<1>42. q = D \o T
  BY <1>4 DEF D
<1>43. q \in Seq(Call) /\ Len(q) = Len(D) + Len(T)
       /\ \A i \in 1..Len(q) : q[i] = IF i <= Len(D) THEN D[i] ELSE T[i - Len(D)]
  <2> DEFINE Q == D \o T
  <2>1. Q \in Seq(Call) /\ Len(Q) = Len(D) + Len(T)
        /\ \A i \in 1..(Len(D) + Len(T)) : Q[i] = IF i <= Len(D) THEN D[i] ELSE T[i - Len(D)]
    <3>1. T \in Seq(Call) /\ D \in Seq(Call)
      BY <1>1, <1>41
    <3> QED
      BY <3>1, ConcatProperties
  <2>2. q = Q
    BY <1>42
  <2> HIDE DEF Q
  <2> QED
    BY <2>1, <2>2
<1>5. q \in Seq(Call) /\ Len(q) = Len(A) + Len(B) + Len(T)
  BY <1>41, <1>43
<1>6. \A i \in 1..Len(q) : q[i] = IF i <= Len(A) THEN A[i]
                                  ELSE IF i <= Len(A) + Len(B) THEN B[i - Len(A)]
                                  ELSE T[i - Len(A) - Len(B)]
  <2> TAKE i \in 1..Len(q)
  <2>1. Len(A) \in Nat /\ Len(B) \in Nat
    BY <1>1
  <2>2. i <= Len(D) => q[i] = IF i <= Len(A) THEN A[i] ELSE B[i - Len(A)]
    BY <1>41, <1>43, SMTT(30)
  <2>3. ~(i <= Len(D)) => q[i] = T[i - Len(A) - Len(B)]
    <3>1. i - Len(D) = i - Len(A) - Len(B)
      BY <1>41, <2>1
    <3> QED
      BY <1>43, <3>1
  <2> QED
    BY <1>41, <2>1, <2>2, <2>3
<1>7. Len(A) \in 0..1 /\ Len(B) \in 0..1
  BY <1>2
<1>8. ASSUME NEW i \in 1..Len(q)
      PROVE  \/ i = 1 /\ l # Nil /\ q[i] = [t |-> l, e |-> t]
             \/ r # Nil /\ q[i] = [t |-> r, e |-> e] /\ i > Len(A)
             \/ (\E j \in 2..Len(c) : q[i] = c[j]) /\ i > Len(A)
  <2>1. CASE i <= Len(A)
    BY <1>2, <1>6, <2>1
  <2>2. CASE i > Len(A) /\ i <= Len(A) + Len(B)
    <3>1. r # Nil /\ i - Len(A) = 1
      BY <1>2, <1>7, <2>2
    <3> QED
      BY <1>2, <1>6, <1>7, <2>2, <3>1
  <2>3. CASE i > Len(A) + Len(B)
    <3> DEFINE j == i - Len(A) - Len(B)
    <3>1. j \in 1..Len(T) /\ j + 1 \in 2..Len(c) /\ i > Len(A)
      BY <1>3, <1>5, <1>7, <2>3
    <3>2. q[i] = T[j]
      <4>1. Len(A) \in Nat /\ Len(B) \in Nat /\ Len(q) \in Nat
        BY <1>1, <1>5, <1>7
      <4>2. ~(i <= Len(A)) /\ ~(i <= Len(A) + Len(B))
        BY <2>3, <4>1
      <4> QED
        BY <1>6, <4>2
    <3>3. q[i] = c[j + 1]
      BY <1>3, <3>1, <3>2
    <3> QED
      BY <3>1, <3>3
  <2> QED
    BY <1>7, <2>1, <2>2, <2>3
<1>9. l # Nil => q # <<>> /\ q[1] = [t |-> l, e |-> t]
  <2>1. l # Nil => 1 \in 1..Len(q) /\ 1 <= Len(A)
    BY <1>2, <1>3, <1>5, <1>7
  <2> QED
    BY <1>2, <1>5, <1>6, <2>1, SMTT(30)
<1>10. q # <<>> => q[1] \in Call /\ 1 \in 1..Len(q)
  BY <1>5
<1>11. Len(q) \in Nat
  BY <1>5
<1>12. ASSUME NEW i \in 1..Len(q)
       PROVE  \/ i = 1 /\ l # Nil /\ q[i] = [t |-> l, e |-> t]
              \/ r # Nil /\ q[i] = [t |-> r, e |-> e]
              \/ \E j \in 2..Len(c) : q[i] = c[j]
  BY <1>8
<1>13. ASSUME NEW i \in 2..Len(q)
       PROVE  \/ r # Nil /\ q[i] = [t |-> r, e |-> e]
              \/ \E j \in 2..Len(c) : q[i] = c[j]
  <2>1. i \in 1..Len(q) /\ i # 1
    BY <1>11
  <2> QED
    BY <1>8, <2>1
<1> QED
  BY <1>5, <1>9, <1>10, <1>11, <1>12, <1>13 DEF Queued

\* init_yggdrasil takes the last of the tokens of the greatest rank.
LEMMA RootFound ==
  ASSUME Base, InitYggdrasil
  PROVE  /\ First \in Node /\ id = ids /\ Ranked
         /\ root' \in Greatest /\ Greatest \cap After(root') = {}
         /\ root' \in Tokens /\ root' \in Node
         /\ used' = {root'} /\ calls' = <<[t |-> root', e |-> Nil]>> /\ pc' = "make"
         /\ UNCHANGED <<text, glued, next, id, type, rank, at, cmd, left, right>>
<1>1. First \in Node /\ id = ids /\ Ranked
  BY Started DEF InitYggdrasil, MakeRoot
<1>2. Tokens \subseteq Node /\ First \in Tokens
  BY <1>1, Live DEF Base
<1>3. Greatest # {}
  <2>1. \A n \in Tokens : rank[n] \in {3, 4, 6}
    BY <1>2 DEF Base, Types, RankC, RankB, RankS
  <2>2. CASE \E n \in Tokens : rank[n] = 6
    BY <2>1, <2>2 DEF Greatest
  <2>3. CASE (\E n \in Tokens : rank[n] = 4) /\ ~\E n \in Tokens : rank[n] = 6
    BY <2>1, <2>3 DEF Greatest
  <2>4. CASE (~\E n \in Tokens : rank[n] = 4) /\ ~\E n \in Tokens : rank[n] = 6
    BY <1>2, <2>1, <2>4 DEF Greatest
  <2> QED
    BY <2>2, <2>3, <2>4
<1>4. Greatest \in SUBSET Tokens
  BY DEF Greatest
<1>5. \E n \in Greatest : Greatest \cap After(n) = {}
  BY <1>1, <1>3, <1>4, LastOf DEF Base
<1> DEFINE r == CHOOSE n \in Greatest : Greatest \cap After(n) = {}
<1>6. r \in Greatest /\ Greatest \cap After(r) = {}
  BY <1>5
<1>7. MakeRoot(r)
  BY DEF InitYggdrasil
<1> HIDE DEF r
<1> QED
  BY <1>1, <1>2, <1>4, <1>6, <1>7 DEF MakeRoot, list

LEMMA BaseRoot ==
  ASSUME Base, InitYggdrasil, UNCHANGED ids
  PROVE  Base'
<1>1. /\ First \in Node /\ id = ids /\ Ranked
      /\ root' \in Node /\ used' = {root'} /\ calls' = <<[t |-> root', e |-> Nil]>> /\ pc' = "make"
      /\ UNCHANGED <<text, glued, next, id, type, rank, at, cmd, left, right>>
  BY RootFound
<1>2. calls' \in Seq(Call)
  <2>1. [t |-> root', e |-> Nil] \in Call
    BY <1>1 DEF Call
  <2> HIDE DEF Call
  <2> QED
    BY <1>1, <2>1
<1>3. Types'
  BY <1>1, <1>2, SMTT(30) DEF Base, Types
<1> QED
  BY <1>1, <1>3 DEF Base, Ordered, Named, Ranked, Bare, Building

\* What a call of make_yggdrasil does.
LEMMA MakeDoes ==
  ASSUME Base, MakeYggdrasil
  PROVE  /\ First \in Node /\ id = ids /\ Ranked /\ pc = "make" /\ pc' = "make"
         /\ calls # <<>> /\ calls[1] \in Call /\ calls[1].t \in Node /\ calls[1].e \in Node \cup {Nil}
         /\ ~DerefNull(calls[1].t) /\ ~DerefNullRight(calls[1].t, calls[1].e)
         /\ left' = [left EXCEPT ![calls[1].t] = New(FindLeft(calls[1].t))]
         /\ right' = [right EXCEPT ![calls[1].t] = New(FindRight(calls[1].t, calls[1].e))]
         /\ used' = used \cup ({left'[calls[1].t], right'[calls[1].t]} \ {Nil})
         /\ left'[calls[1].t] = New(FindLeft(calls[1].t)) /\ left'[calls[1].t] \in Node \cup {Nil}
         /\ right'[calls[1].t] = New(FindRight(calls[1].t, calls[1].e))
         /\ right'[calls[1].t] \in Node \cup {Nil}
         /\ calls' = Calling(left'[calls[1].t], calls[1].t) \o Calling(right'[calls[1].t], calls[1].e)
                       \o Tail(calls)
         /\ UNCHANGED <<text, glued, next, id, type, rank, at, cmd, root>>
<1>1. First \in Node /\ id = ids /\ Ranked /\ pc = "make" /\ calls # <<>>
  BY Started DEF MakeYggdrasil
<1>2. calls[1] \in Call
  BY <1>1 DEF Base, Types
<1>3. calls[1].t \in Node /\ calls[1].e \in Node \cup {Nil}
  BY <1>2 DEF Call
<1> DEFINE t == calls[1].t
           e == calls[1].e
           l == New(FindLeft(t))
           r == New(FindRight(t, e))
<1>4. l \in Node \cup {Nil} /\ r \in Node \cup {Nil}
  <2>1. FindLeft(t) \in Tokens \cup {Nil} /\ FindRight(t, e) \in Node \cup {Nil}
    BY <1>1, <1>3, FoundIn
  <2>2. Tokens \subseteq Node
    BY <1>1, Live DEF Base
  <2> QED
    BY <2>1, <2>2 DEF New
<1>5. /\ ~DerefNull(t) /\ ~DerefNullRight(t, e)
      /\ left' = [left EXCEPT ![t] = l] /\ right' = [right EXCEPT ![t] = r]
      /\ used' = used \cup ({l, r} \ {Nil})
      /\ calls' = Calling(l, t) \o Calling(r, e) \o Tail(calls)
      /\ pc' = pc
      /\ UNCHANGED <<text, glued, next, id, type, rank, at, cmd, root>>
  BY DEF MakeYggdrasil, Operands, list
<1> HIDE DEF l, r
<1>6. left'[t] = l /\ right'[t] = r
  BY <1>3, <1>5 DEF Base, Types, Pointers
<1> QED
  BY <1>1, <1>2, <1>3, <1>4, <1>5, <1>6 DEF l, r

LEMMA BaseMake ==
  ASSUME Base, MakeYggdrasil, UNCHANGED ids
  PROVE  Base'
<1> DEFINE t == calls[1].t
           e == calls[1].e
           l == left'[t]
           r == right'[t]
<1>1. /\ First \in Node /\ id = ids /\ Ranked /\ pc = "make" /\ pc' = "make"
      /\ calls # <<>> /\ t \in Node /\ e \in Node \cup {Nil}
      /\ l \in Node \cup {Nil} /\ r \in Node \cup {Nil}
      /\ left' = [left EXCEPT ![t] = New(FindLeft(t))]
      /\ right' = [right EXCEPT ![t] = New(FindRight(t, e))]
      /\ used' = used \cup ({l, r} \ {Nil})
      /\ l = New(FindLeft(t)) /\ r = New(FindRight(t, e))
      /\ calls' = Calling(l, t) \o Calling(r, e) \o Tail(calls)
      /\ UNCHANGED <<text, glued, next, id, type, rank, at, cmd, root>>
  BY MakeDoes
<1> HIDE DEF l, r, t, e
<1>2. left' \in Pointers /\ right' \in Pointers
  BY <1>1 DEF Base, Types, Pointers
<1>3. calls' \in Seq(Call)
  BY <1>1, NextCalls DEF Base, Types, Queued
<1>4. used' \in SUBSET Node
  BY <1>1 DEF Base, Types
<1>5. Types'
  BY <1>1, <1>2, <1>3, <1>4 DEF Base, Types
<1> QED
  BY <1>1, <1>5, SMTT(30) DEF Base, Ordered, Named, Ranked, Bare, Building

LEMMA BaseEnd ==
  ASSUME Base, UNCHANGED ids, Crash \/ Execute \/ Prompt
  PROVE  Base'
<1>1. First \in Node /\ id = ids /\ Ranked
  BY Started DEF Crash, Execute, Prompt
<1> QED
  BY <1>1 DEF Base, Types, Ordered, Named, Bare, Ranked, Crash, Execute, Prompt, list, ygg, Building

LEMMA BaseStep ==
  ASSUME Base, [Next]_vars
  PROVE  Base'
<1>1. CASE UNCHANGED vars
  BY <1>1 DEF vars, list, ygg, Base, Types, Ordered, Named, Ranked, Bare
<1>2. CASE Step /\ UNCHANGED ids
  BY <1>2, BaseSplit, BaseTypealize, BaseMerge, BaseAssign, BaseHandle, BaseAttach, BaseQuiet,
     BaseRoot, BaseMake, BaseEnd DEF Step
<1> QED
  BY <1>1, <1>2 DEF Next, Dead

-----------------------------------------------------------------------------
(***************************************************************************)
(* With distinct ids the handlers leave no two operands side by side.      *)
(***************************************************************************)
Lists == Distinct => Taking /\ Following /\ Apart

\* Taking c out of the list takes it from what is reached over the one before.
LEMMA TokenCut ==
  ASSUME Base, Distinct, id = ids, First \in Node, NEW c \in Node,
         NEW p, p = Prev(c, First), p # Nil, next' = Removed(c, First)
  PROVE  /\ p \in Tokens /\ p \in Node /\ next[p] = c /\ c \in Tokens /\ p < c /\ c # Nil
         /\ next'[p] = next[c] /\ \A m \in Node \ {p} : next'[m] = next[m]
         /\ next' \in Pointers
         /\ Tokens' = Tokens \ {c}
         /\ \A k \in Node : Reach(next', k) = IF p \in Reach(next, k) THEN Reach(next, k) \ {c}
                                                                      ELSE Reach(next, k)
<1>1. Tokens = Reach(next, First) /\ Tokens \subseteq Node /\ First # Nil
  BY Live, NoNode DEF Base
<1>2. p \in Tokens /\ p \in Node /\ next[p] = c
  BY <1>1, PrevDistinct DEF Base
<1>3. next' = [next EXCEPT ![p] = next[c]] /\ next' \in Pointers
  BY RemovedIn DEF Base
<1>4. next \in Pointers /\ Rising(next) /\ c # Nil
  BY NoNode DEF Base, Types, Ordered
<1>5. c \in Tokens /\ p < c
  BY <1>1, <1>2, <1>4, ReachOn DEF Rising
<1>6. next'[p] = next[c] /\ \A m \in Node \ {p} : next'[m] = next[m]
  BY <1>2, <1>3, <1>4 DEF Pointers
<1>7. ASSUME NEW k \in Node
      PROVE  Reach(next', k) = IF p \in Reach(next, k) THEN Reach(next, k) \ {c} ELSE Reach(next, k)
  <2>1. next[c] \in Node \cup {Nil}
    BY <1>4 DEF Pointers
  <2>2. CASE p \in Reach(next, k)
    <3>1. next[p] # Nil
      BY <1>2, <1>4
    <3>2. Reach([next EXCEPT ![p] = next[next[p]]], k) = Reach(next, k) \ {next[p]}
      BY <1>4, <2>2, <3>1, ReachCut
    <3>3. next' = [next EXCEPT ![p] = next[next[p]]]
      BY <1>2, <1>3
    <3> QED
      BY <1>2, <2>2, <3>2, <3>3
  <2>3. CASE p \notin Reach(next, k)
    <3>1. p \in Node \ Reach(next, k)
      BY <1>2, <2>3
    <3>2. Reach([next EXCEPT ![p] = next[c]], k) = Reach(next, k)
      BY <1>4, <2>1, <3>1, ReachSame
    <3> QED
      BY <1>3, <2>3, <3>2
  <2> QED
    BY <2>2, <2>3
<1>8. Tokens' = Reach(next', First)
  BY <1>1 DEF Tokens, From
<1>9. Tokens' = Tokens \ {c}
  BY <1>1, <1>2, <1>7, <1>8
<1> QED
  BY <1>2, <1>3, <1>4, <1>5, <1>6, <1>7, <1>9

LEMMA PairOf ==
  ASSUME Base, First \in Node, NEW a, Pair(a)
  PROVE  /\ a \in Node /\ a \in Tokens /\ next[a] \in Tokens /\ next[a] \in Node
         /\ a < next[a] /\ next[a] # First
         /\ \A b \in Tokens : next[b] = next[a] => b = a
<1>1. a \in Tokens /\ next[a] # Nil
  BY DEF Pair
<1>2. a \in Node /\ next[a] \in Tokens /\ next[a] \in Node
  BY <1>1, Live DEF Base
<1>3. a < next[a] /\ First <= a /\ a \in Nat /\ next[a] \in Nat
  BY <1>1, <1>2, InOrder, NoNode DEF Base, Ordered, Rising
<1>4. next[a] # First
  BY <1>3 DEF First
<1>5. \A b \in Tokens : next[b] = next[a] => b = a
  BY <1>1, InOrder DEF Base
<1> QED
  BY <1>1, <1>2, <1>3, <1>4, <1>5

LEMMA ListsAssign ==
  ASSUME Base, Assign, UNCHANGED ids
  PROVE  Lists'
<1>1. First \in Node /\ next' = next /\ rank' = rank /\ pc' = "args" /\ at' = First
  BY Started DEF Assign
<1>2. Tokens' = Tokens /\ From(at)' = Tokens
  BY <1>1 DEF Tokens, From
<1>3. Taking'
  <2> SUFFICES ASSUME NEW a \in Node, Pair(a)'
               PROVE  \E y \in Ahead' : rank'[y] # RankS /\ next'[y] = next'[a]
    BY DEF Taking
  <2>1. a \in Ahead' /\ rank'[a] # RankS
    BY <1>2 DEF Ahead, Pair
  <2> QED
    BY <2>1
<1> QED
  BY <1>1, <1>3 DEF Lists, Following, Apart

LEMMA ListsHandle ==
  ASSUME Base, Lists, HandleToken, UNCHANGED ids
  PROVE  Lists'
<1> SUFFICES ASSUME Distinct
             PROVE  Taking' /\ Following' /\ Apart'
  BY DEF Lists, Distinct
<1>1. First \in Node /\ id = ids /\ Ranked /\ Taking /\ First # Nil
  BY Started, NoNode DEF HandleToken, Lists
<1>2. /\ pc = "args" /\ at \in Node /\ at # Nil /\ at' = next[at] /\ at' \in Node \cup {Nil}
      /\ rank' = rank /\ next \in Pointers /\ Rising(next)
  BY DEF HandleToken, Base, Types, Pointers, Ordered
<1>3. Tokens = Reach(next, First)
  BY Live, <1>1 DEF Base
<1>4. From(at) = {at} \cup From(next[at]) /\ Ahead = From(at)
  BY <1>2, ReachUnfold DEF From, Ahead
<1>5. ASSUME NEW a \in Node, Pair(a)
      PROVE  \E y \in From(at) : rank[y] # RankS /\ next[y] = next[a]
  BY <1>1, <1>2, <1>4, <1>5 DEF Taking
<1>6. CASE type[at] \in RedirKind /\ next' = next
  <2>1. pc' = "args" /\ Tokens' = Tokens /\ From(at)' = From(next[at])
    BY <1>2, <1>6 DEF HandleToken, Tokens, From
  <2>2. rank[at] = RankS
    BY <1>1, <1>2, <1>6 DEF Ranked, RedirKind
  <2>3. Taking'
    <3> SUFFICES ASSUME NEW a \in Node, Pair(a)'
                 PROVE  \E y \in Ahead' : rank'[y] # RankS /\ next'[y] = next'[a]
      BY DEF Taking
    <3>1. Pair(a)
      BY <1>2, <1>6, <2>1 DEF Pair
    <3>2. PICK y \in From(at) : rank[y] # RankS /\ next[y] = next[a]
      BY <1>5, <3>1
    <3>3. y \in Ahead'
      BY <1>4, <2>1, <2>2, <3>2 DEF Ahead
    <3> QED
      BY <1>2, <1>6, <3>2, <3>3
  <2> QED
    BY <2>1, <2>3 DEF Following, Apart
<1>7. CASE type[at] \in RedirKind /\ next' # next
  <2> DEFINE c == next[at]
             p == Prev(c, First)
  <2>1. TakeFile(at) /\ pc' = "args"
    BY <1>2, <1>7 DEF HandleToken
  <2>2. c # Nil /\ rank[c] # RankS /\ p # Nil /\ next' = Removed(c, First)
    BY <1>7, <2>1 DEF TakeFile
  <2>3. c \in Node /\ at < c
    BY <1>2, <2>2 DEF Pointers, Rising
  <2>4. rank[at] = RankS
    BY <1>1, <1>2, <1>7 DEF Ranked, RedirKind
  <2> HIDE DEF c, p
  <2>5. /\ p \in Tokens /\ p \in Node /\ next[p] = c /\ c \in Tokens /\ p < c
        /\ next'[p] = next[c] /\ \A m \in Node \ {p} : next'[m] = next[m]
        /\ Tokens' = Tokens \ {c}
        /\ \A k \in Node : Reach(next', k) = IF p \in Reach(next, k) THEN Reach(next, k) \ {c}
                                                                     ELSE Reach(next, k)
    BY <1>1, <2>2, <2>3, TokenCut DEF p
  <2>6. p \notin Reach(next, c)
    <3>1. p \in Reach(next, c) => c <= p
      BY <1>2, <2>3, ReachUp
    <3>2. p \in Nat /\ c \in Nat
      BY <2>3, <2>5, NoNode
    <3> QED
      BY <2>5, <3>1, <3>2
  <2>7. Ahead' = Reach(next, c) /\ From(next[at]) = Reach(next, c) /\ c \in Reach(next, c)
    <3>1. at' = c /\ next[at] = c
      BY <1>2 DEF c
    <3>2. Ahead' = Reach(next', c)
      BY <2>1, <2>2, <3>1 DEF Ahead, From
    <3> QED
      BY <1>2, <2>2, <2>3, <2>5, <2>6, <3>1, <3>2, ReachIn DEF From
  <2>8. Taking'
    <3> SUFFICES ASSUME NEW a \in Node, Pair(a)'
                 PROVE  \E y \in Ahead' : rank'[y] # RankS /\ next'[y] = next'[a]
      BY DEF Taking
    <3>1. a \in Tokens /\ a # c /\ next'[a] # Nil /\ rank[a] # RankS /\ rank[next'[a]] # RankS
      BY <1>2, <2>5 DEF Pair
    <3>2. CASE a = p
      <4>1. next'[c] = next'[a] /\ rank'[c] # RankS
        BY <1>2, <2>2, <2>3, <2>5, <3>1, <3>2
      <4> QED
        BY <2>7, <4>1
    <3>3. CASE a # p
      <4>1. next'[a] = next[a] /\ Pair(a)
        BY <2>5, <3>1, <3>3 DEF Pair
      <4>2. next[a] # c
        BY <1>1, <2>5, <3>3, <4>1, PairOf
      <4>3. PICK y \in From(at) : rank[y] # RankS /\ next[y] = next[a]
        BY <1>5, <4>1
      <4>4. y \in Reach(next, c)
        BY <1>4, <2>4, <2>7, <4>3
      <4>5. y \in Node /\ y # p
        BY <1>2, <2>3, <2>6, <4>4, ReachIn
      <4> QED
        BY <1>2, <2>5, <2>7, <4>1, <4>3, <4>4, <4>5
    <3> QED
      BY <3>2, <3>3
  <2> QED
    BY <2>1, <2>8 DEF Following, Apart
<1>8. CASE type[at] \notin RedirKind
  <2>1. pc' = "attach" /\ cmd' = at /\ next' = next
    BY <1>8 DEF HandleToken
  <2>2. Tokens' = Tokens /\ From(at)' = From(next[at]) /\ Ahead' = From(at)
    BY <1>2, <1>4, <2>1 DEF Tokens, From, Ahead
  <2>3. Taking'
    <3> SUFFICES ASSUME NEW a \in Node, Pair(a)'
                 PROVE  \E y \in Ahead' : rank'[y] # RankS /\ next'[y] = next'[a]
      BY DEF Taking
    <3>1. Pair(a)
      BY <1>2, <2>1, <2>2 DEF Pair
    <3> QED
      BY <1>2, <1>5, <2>1, <2>2, <3>1
  <2>4. next[at] # Nil => next[at] \in From(next[at]) /\ \A m \in From(next[at]) : next[at] <= m
    BY <1>2, ReachIn, ReachUp DEF From, Pointers
  <2>5. Following'
    <3>1. next'[cmd'] = next[at]
      BY <1>2, <2>1
    <3>2. next[at] = Nil => From(next[at]) = {}
      BY DEF From
    <3> QED
      BY <2>2, <2>4, <3>1, <3>2 DEF Following
  <2> QED
    BY <2>1, <2>3, <2>5 DEF Apart
<1> QED
  BY <1>6, <1>7, <1>8

LEMMA ListsAttach ==
  ASSUME Base, Lists, AttachArg, UNCHANGED ids
  PROVE  Lists'
<1> SUFFICES ASSUME Distinct
             PROVE  Taking' /\ Following' /\ Apart'
  BY DEF Lists, Distinct
<1> DEFINE k == cmd
           c == next[cmd]
           p == Prev(next[cmd], First)
<1>1. First \in Node /\ id = ids /\ Ranked /\ Taking /\ Following /\ First # Nil
  BY Started, NoNode DEF AttachArg, Attaching, Lists
<1>2. /\ pc = "attach" /\ pc' = "attach" /\ k \in Node /\ k # Nil /\ rank[k] # RankS
      /\ rank' = rank /\ at' = at /\ next \in Pointers /\ Rising(next) /\ at \in Node \cup {Nil}
      /\ (cmd' = next'[k] \/ cmd' = k)
  BY DEF AttachArg, Attaching, Base, Types, Ordered
<1>3. c # Nil /\ rank[c] # RankS /\ p # Nil /\ next' = Removed(c, First)
  BY DEF AttachArg, Takes
<1>4. c \in Node /\ k < c /\ next[k] = c
  BY <1>2, <1>3 DEF Pointers, Rising
<1> HIDE DEF c, p
<1>5. /\ p \in Tokens /\ p \in Node /\ next[p] = c /\ c \in Tokens /\ p < c
      /\ next'[p] = next[c] /\ \A m \in Node \ {p} : next'[m] = next[m]
      /\ next' \in Pointers
      /\ Tokens' = Tokens \ {c}
      /\ \A n \in Node : Reach(next', n) = IF p \in Reach(next, n) THEN Reach(next, n) \ {c}
                                                                   ELSE Reach(next, n)
  <2>1. p = Prev(c, First)
    BY DEF p, c
  <2> QED
    BY <1>1, <1>3, <1>4, <2>1, TokenCut
<1>6. From(at)' = IF p \in From(at) THEN From(at) \ {c} ELSE From(at)
  BY <1>2, <1>5 DEF From
<1>7. /\ From(at) \subseteq Node
      /\ \A m \in From(at) : next[m] # Nil => next[m] \in From(at)
      /\ at # Nil => \A m, n \in From(at) : next[m] # Nil /\ next[m] = next[n] => m = n
  BY <1>2, ReachIn, ReachOn, ReachOrder DEF From
<1>8. c \in From(at) /\ (k \in From(at) \/ \A m \in From(at) \cap Tokens : c <= m)
  BY <1>1, <1>2, <1>3, <1>4 DEF Following
<1>9. p \in From(at) => p = k
  <2> SUFFICES ASSUME p \in From(at) PROVE p = k
    OBVIOUS
  <2>1. CASE k \in From(at)
    BY <1>3, <1>4, <1>5, <1>7, <2>1 DEF From
  <2>2. CASE \A m \in From(at) \cap Tokens : c <= m
    <3>1. c <= p /\ p \in Nat /\ c \in Nat
      BY <1>4, <1>5, <2>2, NoNode
    <3> QED
      BY <1>5, <3>1
  <2> QED
    BY <1>8, <2>1, <2>2
<1>10. next[c] # c /\ (next[c] # Nil => next[c] \in From(at)')
  <2>1. c \in Nat /\ (next[c] # Nil => c < next[c])
    BY <1>2, <1>4, NoNode DEF Rising
  <2>2. next[c] # c
    BY <1>3, <2>1
  <2> QED
    BY <1>6, <1>7, <1>8, <2>2
<1>11. k # c
  <2>1. k \in Nat /\ c \in Nat
    BY <1>2, <1>4, NoNode
  <2> QED
    BY <1>4, <2>1
<1>12. p # k => next'[k] = c /\ c \in From(at)'
  BY <1>2, <1>4, <1>5, <1>6, <1>8, <1>9
<1>13. p = k => next'[k] = next[c]
  BY <1>5
<1>14. Taking'
  <2> SUFFICES ASSUME NEW a \in Node, Pair(a)'
               PROVE  \E y \in Ahead' : rank'[y] # RankS /\ next'[y] = next'[a]
    BY DEF Taking
  <2>1. a \in Tokens /\ a # c /\ next'[a] # Nil /\ rank[a] # RankS /\ rank[next'[a]] # RankS
    BY <1>2, <1>5 DEF Pair
  <2>2. From(at)' \subseteq Ahead'
    BY DEF Ahead
  <2>3. CASE a = p
    <3>1. CASE p \in From(at)
      <4>1. p \in From(at)'
        BY <1>6, <2>1, <2>3, <3>1
      <4> QED
        BY <1>2, <2>1, <2>2, <2>3, <4>1
    <3>2. CASE p \notin From(at)
      <4>1. c \in From(at)'
        BY <1>6, <1>8, <3>2
      <4>2. next'[c] = next[c] /\ next'[a] = next[c]
        BY <1>4, <1>5, <2>1, <2>3
      <4> QED
        BY <1>2, <1>3, <2>2, <4>1, <4>2
    <3> QED
      BY <3>1, <3>2
  <2>4. CASE a # p
    <3>1. next'[a] = next[a] /\ Pair(a)
      BY <1>5, <2>1, <2>4 DEF Pair
    <3>2. next[a] # c
      BY <1>1, <1>5, <2>4, <3>1, PairOf
    <3>3. PICK y \in Ahead : rank[y] # RankS /\ next[y] = next[a]
      BY <1>1, <1>2, <3>1 DEF Taking
    <3>4. y # k /\ y \in From(at)
      BY <1>4, <3>2, <3>3 DEF Ahead
    <3>5. y # c
      <4>1. next[a] = next[c] => a = c
        BY <1>1, <1>5, <3>1, PairOf
      <4> QED
        BY <2>1, <3>3, <4>1
    <3>6. y # p /\ y \in Node
      BY <1>5, <1>7, <3>2, <3>3, <3>4
    <3>7. y \in Ahead'
      BY <1>6, <2>2, <3>4, <3>5
    <3> QED
      BY <1>2, <1>5, <3>1, <3>3, <3>6, <3>7
  <2> QED
    BY <2>3, <2>4
<1>15. Following'
  <2> SUFFICES ASSUME cmd' # Nil
               PROVE  /\ next'[cmd'] \in From(at)' \cup {Nil}
                      /\ cmd' \in From(at)' \/ \A m \in From(at)' \cap Tokens' : next'[cmd'] <= m
    BY DEF Following
  <2>1. at' = at => \A m \in From(at)' : next'[m] # Nil => next'[m] \in From(at)'
    BY <1>2, <1>5, ReachOn DEF From
  <2>2. CASE cmd' \in From(at)'
    BY <1>2, <2>1, <2>2
  <2>3. CASE cmd' = k /\ k \notin From(at)'
    <3>1. next'[k] \in From(at)' \cup {Nil}
      BY <1>10, <1>12, <1>13
    <3>2. k \notin From(at)
      BY <1>6, <1>11, <2>3
    <3>3. From(at)' = From(at) /\ \A m \in From(at) \cap Tokens : c <= m
      BY <1>6, <1>8, <1>9, <3>2
    <3>4. ASSUME NEW m \in From(at) \cap Tokens, m # c
          PROVE  next'[k] <= m
      <4>1. m \in Nat /\ c \in Nat /\ c <= m /\ next[c] \in Nat
        <5>1. m \in Node /\ next[c] \in Node \cup {0}
          BY <1>2, <1>4, <1>7, <3>4 DEF Pointers, Nil
        <5>2. \A z \in Node \cup {0} : z \in Nat
          BY NoNode
        <5> QED
          BY <1>4, <3>3, <3>4, <5>1, <5>2
      <4>2. c < m
        BY <3>4, <4>1
      <4>3. next[c] # Nil /\ next[c] <= m
        BY <1>1, <1>5, <3>4, <4>2, InOrder DEF Base
      <4> QED
        BY <1>12, <1>13, <4>1, <4>3
    <3> QED
      BY <1>5, <2>3, <3>1, <3>3, <3>4
  <2>4. CASE cmd' = next'[k] /\ cmd' \notin From(at)'
    BY <1>10, <1>12, <1>13, <2>4
  <2> QED
    BY <1>2, <2>2, <2>3, <2>4
<1> QED
  BY <1>2, <1>14, <1>15 DEF Apart

LEMMA ListsNext ==
  ASSUME Base, Lists, NextCmd \/ Attached, UNCHANGED ids
  PROVE  Lists'
<1> SUFFICES ASSUME Distinct
             PROVE  Taking' /\ Following' /\ Apart'
  BY DEF Lists, Distinct
<1>1. First \in Node /\ id = ids /\ Ranked /\ Taking /\ Following /\ First # Nil
  BY Started, NoNode DEF NextCmd, Attached, Attaching, Lists
<1>2. /\ pc = "attach" /\ rank' = rank /\ at' = at /\ next' = next
      /\ next \in Pointers /\ Rising(next) /\ at \in Node \cup {Nil} /\ cmd \in Node \cup {Nil}
  BY DEF NextCmd, Attached, Attaching, Base, Types, Ordered, list
<1>3. Tokens' = Tokens /\ From(at)' = From(at) /\ \A a \in Node : Pair(a)' <=> Pair(a)
  BY <1>2 DEF Tokens, From, Pair
<1>4. From(at) \subseteq Ahead'
  BY <1>3 DEF Ahead
<1>5. ASSUME NEW a \in Node, Pair(a)'
      PROVE  \E y \in Ahead' : rank'[y] # RankS /\ next'[y] = next'[a]
  <2>1. Pair(a)
    BY <1>3, <1>5
  <2>2. PICK y \in Ahead : rank[y] # RankS /\ next[y] = next[a]
    BY <1>1, <1>2, <2>1 DEF Taking
  <2>3. CASE y \in From(at)
    BY <1>2, <1>4, <2>2, <2>3
  <2>4. CASE y \notin From(at)
    <3>1. y = cmd /\ cmd # Nil /\ rank[cmd] # RankS
      BY <2>2, <2>4 DEF Ahead
    <3>2. NextCmd /\ ~Takes(cmd)
      BY <1>2, <3>1 DEF Attached, Attaching, NextCmd
    <3>3. next[cmd] # Nil /\ rank[next[cmd]] # RankS /\ next[cmd] # First
          /\ next[cmd] \in Tokens /\ next[cmd] \in Node
      BY <1>1, <2>1, <2>2, <3>1, PairOf DEF Pair
    <3>4. Tokens = Reach(next, First)
      BY <1>1, Live DEF Base
    <3>5. Prev(next[cmd], First) # Nil
      BY <1>1, <3>3, <3>4, PrevDistinct DEF Base
    <3> QED
      BY <3>2, <3>3, <3>5 DEF Takes
  <2> QED
    BY <2>3, <2>4
<1>6. Taking'
  BY <1>5 DEF Taking
<1>7. Following'
  <2>1. CASE Attached
    BY <2>1 DEF Attached, Following
  <2>2. CASE NextCmd
    <3>1. cmd' = next[cmd] /\ cmd # Nil
      BY <2>2 DEF NextCmd, Attaching
    <3>2. cmd' # Nil => cmd' \in From(at)
      BY <1>1, <1>2, <3>1 DEF Following
    <3>3. \A m \in From(at) : next[m] # Nil => next[m] \in From(at)
      BY <1>2, ReachOn DEF From
    <3> QED
      BY <1>2, <1>3, <3>2, <3>3 DEF Following
  <2> QED
    BY <2>1, <2>2
<1>8. Apart'
  BY <1>2 DEF NextCmd, Attached, Apart
<1> QED
  BY <1>6, <1>7, <1>8

LEMMA ListsDone ==
  ASSUME Base, Lists, HandlerDone \/ CmdNotFound, UNCHANGED ids
  PROVE  Lists'
<1> SUFFICES ASSUME Distinct
             PROVE  Taking' /\ Following' /\ Apart'
  BY DEF Lists, Distinct
<1>1. First \in Node /\ id = ids /\ Ranked
  BY Started DEF HandlerDone, CmdNotFound
<1>2. next' = next /\ pc' \in {"notfound", "init"}
  BY DEF HandlerDone, CmdNotFound, list
<1>3. \A n \in Node : rank'[n] = RankS <=> rank[n] = RankS
  <2>1. CASE HandlerDone
    BY <2>1 DEF HandlerDone, list
  <2>2. CASE CmdNotFound
    <3> TAKE n \in Node
    <3>1. rank'[n] = IF Plain(n) /\ type[n] = "word" /\ Found(n) THEN RankB ELSE rank[n]
      BY <2>2 DEF CmdNotFound
    <3>2. Plain(n) => rank[n] # RankS
      BY <1>1 DEF Plain, Ranked
    <3>3. RankB # RankS
      BY DEF RankB, RankS
    <3> QED
      BY <3>1, <3>2, <3>3
  <2> QED
    BY <2>1, <2>2
<1>4. Tokens' = Tokens
  BY <1>2 DEF Tokens, From
<1>5. \A a \in Node : ~Pair(a)
  <2>1. CASE HandlerDone
    <3>1. pc = "args" /\ Ahead = {}
      BY <2>1 DEF HandlerDone, Ahead, From
    <3> QED
      BY <3>1 DEF Lists, Taking
  <2>2. CASE CmdNotFound
    BY <2>2 DEF CmdNotFound, Lists, Apart
  <2> QED
    BY <2>1, <2>2
<1>6. ASSUME NEW a \in Node, Pair(a)'
      PROVE  FALSE
  <2>1. a \in Tokens /\ next[a] # Nil /\ rank[a] # RankS /\ rank'[next[a]] # RankS
    BY <1>2, <1>3, <1>4, <1>6 DEF Pair
  <2>2. next[a] \in Node
    BY <1>1, <2>1, Live DEF Base
  <2> QED
    BY <1>3, <1>5, <2>1, <2>2 DEF Pair
<1> QED
  BY <1>2, <1>6 DEF Taking, Following, Apart

\* Later steps leave the list alone; at the other ones nothing is asked of it.
LEMMA ListsRest ==
  ASSUME Base, Lists, UNCHANGED ids,
         Split \/ Typealize \/ Merge \/ MergeCrash \/ InitYggdrasil \/ MakeYggdrasil
           \/ Crash \/ Execute \/ Prompt
  PROVE  Lists'
<1> SUFFICES ASSUME Distinct
             PROVE  Taking' /\ Following' /\ Apart'
  BY DEF Lists, Distinct
<1>1. CASE Split \/ Typealize \/ Merge \/ MergeCrash \/ Crash \/ Prompt
  <2>1. pc' \in {"typealize", "merge", "readline", "assign", "crashed"}
    BY <1>1 DEF Split, Typealize, Merge, MergeCrash, Crash, Prompt
  <2> QED
    BY <2>1 DEF Taking, Following, Apart
<1>2. CASE InitYggdrasil \/ MakeYggdrasil \/ Execute
  <2>1. pc \in {"init", "make"} /\ pc' \in {"make", "execute"} /\ next' = next /\ rank' = rank
    BY <1>2 DEF InitYggdrasil, MakeRoot, MakeYggdrasil, Execute, list
  <2>2. Tokens' = Tokens
    BY <2>1 DEF Tokens, From
  <2>3. Apart
    BY DEF Lists
  <2> QED
    BY <2>1, <2>2, <2>3, SMTT(30) DEF Taking, Following, Apart, Pair
<1> QED
  BY <1>1, <1>2

LEMMA ListsStep ==
  ASSUME Base, Lists, [Next]_vars
  PROVE  Lists'
<1>1. CASE UNCHANGED vars
  BY <1>1 DEF vars, list, ygg, Lists, Distinct, Taking, Following, Apart, Pair, Ahead, Tokens, From
<1>2. CASE Step /\ UNCHANGED ids
  BY <1>2, ListsAssign, ListsHandle, ListsAttach, ListsNext, ListsDone, ListsRest DEF Step
<1> QED
  BY <1>1, <1>2 DEF Next, Dead

-----------------------------------------------------------------------------
(***************************************************************************)
(* With one id for all tokens nothing is taken out, and a second token     *)
(* ends the shell.                                                         *)
(***************************************************************************)
Crashing ==
  /\ pc = "make" /\ Alike => Doomed
  /\ OneTokenLives /\ TreeNeverCrashes

\* Which of the two it is depends on the first call.
LEMMA CrashingRoot ==
  ASSUME Base, InitYggdrasil, UNCHANGED ids
  PROVE  Crashing'
<1>1. /\ First \in Node /\ id = ids
      /\ root' \in Greatest /\ root' \in Tokens /\ root' \in Node
      /\ used' = {root'} /\ calls' = <<[t |-> root', e |-> Nil]>> /\ pc' = "make"
      /\ next' = next /\ rank' = rank
  BY RootFound
<1>2. Tokens' = Tokens /\ Greatest' = Greatest
  BY <1>1 DEF Tokens, From, Greatest
<1>3. Doomed'
  <2>1. CASE root' = First
    BY <1>1, <1>2, <2>1 DEF Doomed
  <2>2. CASE root' # First
    <3>1. Tokens = Reach(next, First) /\ First # Nil
      BY <1>1, Live, NoNode DEF Base
    <3>2. next[First] # Nil
      BY <1>1, <2>2, <3>1, ReachUnfold DEF Base, Types
    <3>3. calls' # <<>> /\ calls'[1].t = root'
      BY <1>1
    <3> QED
      BY <1>1, <2>2, <3>2, <3>3 DEF Doomed
  <2> QED
    BY <2>1, <2>2
<1> QED
  BY <1>1, <1>3 DEF Crashing, OneTokenLives, TreeNeverCrashes

LEMMA CrashingMake ==
  ASSUME Base, Crashing, MakeYggdrasil, UNCHANGED ids
  PROVE  Crashing'
<1> DEFINE t == calls[1].t
           e == calls[1].e
           l == left'[t]
           r == right'[t]
<1>1. /\ First \in Node /\ id = ids /\ pc = "make" /\ pc' = "make"
      /\ calls # <<>> /\ t \in Node /\ e \in Node \cup {Nil}
      /\ ~DerefNull(t)
      /\ l \in Node \cup {Nil} /\ r \in Node \cup {Nil}
      /\ l = New(FindLeft(t)) /\ r = New(FindRight(t, e))
      /\ calls' = Calling(l, t) \o Calling(r, e) \o Tail(calls)
      /\ UNCHANGED <<next, rank>>
  BY MakeDoes
<1> HIDE DEF l, r
<1>2. ASSUME Alike
      PROVE  Doomed'
  <2>1. Doomed /\ Prev(t, First) = Nil
    BY <1>1, <1>2, PrevAlike DEF Crashing, Base
  <2>2. calls = <<[t |-> First, e |-> Nil]>> /\ used = {First} /\ First \in Greatest
    BY <1>1, <2>1 DEF Doomed, DerefNull
  <2>3. t = First /\ e = Nil
    BY <2>2
  <2>4. l = Nil
    BY <1>1, <2>3 DEF New, FindLeft
  <2>5. calls' = Calling(r, e)
    BY <1>1, <2>2, <2>4 DEF Calling
  <2>6. UpTo(e) \in Pointers /\ UpTo(e)[t] = next[t]
    BY <1>1, <2>3, Ways DEF UpTo
  <2>7. FindRight(t, e) = Nearest(UpTo(e), t)
    BY <1>1, <2>3, NoNode DEF FindRight, UpTo
  <2>8. Tokens = Reach(next, First) /\ Tokens \subseteq Node /\ First # Nil
        /\ \A n \in Tokens : next[n] # Nil => next[n] \in Tokens
    BY <1>1, Live, NoNode DEF Base
  <2>9. CASE next[First] = Nil
    <3>1. r = Nil
      BY <1>1, <2>3, <2>6, <2>7, <2>9, NearestFinds, SMTT(30) DEF New, Base
    <3> QED
      BY <1>1, <2>5, <2>9, <3>1 DEF Calling, Doomed
  <2>10. CASE next[First] # Nil
    <3>1. next[First] \in Node /\ next[First] \in Tokens
      BY <1>1, <2>8, <2>10, ReachIn DEF Base, Types
    <3>2. rank[next[First]] <= rank[First] /\ next[First] \in Reach(UpTo(e), next[First])
      BY <2>2, <2>6, <3>1, ReachIn DEF Greatest
    <3>3. FindRight(t, e) # Nil /\ FindRight(t, e) \in Reach(UpTo(e), next[First])
      BY <1>1, <2>3, <2>6, <2>7, <2>10, <3>2, NearestFinds DEF Base
    <3>4. Rising(UpTo(e))
      BY DEF Rising, UpTo, Base, Ordered
    <3>5. next[First] <= FindRight(t, e) /\ First < next[First]
      BY <1>1, <2>6, <2>10, <3>1, <3>3, <3>4, ReachUp DEF Base, Ordered, Rising
    <3>6. FindRight(t, e) # First
      <4>1. First \in Nat /\ next[First] \in Nat
        BY <1>1, <3>1, NoNode
      <4> QED
        BY <3>5, <4>1
    <3>7. r = FindRight(t, e)
      BY <1>1, <2>2, <3>6 DEF New
    <3>8. calls' # <<>> /\ calls'[1].t = r
      BY <2>5, <3>3, <3>7 DEF Calling
    <3> QED
      BY <1>1, <2>10, <3>6, <3>7, <3>8 DEF Doomed
  <2> QED
    BY <2>9, <2>10
<1> QED
  BY <1>1, <1>2, SMTT(30) DEF Crashing, Alike, OneTokenLives, TreeNeverCrashes

\* The search for the right operand meets its eof before the end of the list.
Inside(c) == c.e = Nil \/ c.e \in After(c.t) \/ next[c.t] = c.e

LEMMA CrashingRest ==
  ASSUME Base, Crashing, UNCHANGED ids,
         pc = "make" /\ calls # <<>> /\ Distinct => calls[1].t \in Tokens,
         pc = "make" /\ calls # <<>> /\ Distinct => Inside(calls[1]),
         \/ Split \/ Typealize \/ Merge \/ MergeCrash \/ Assign \/ HandleToken \/ AttachArg \/ NextCmd
         \/ Attached \/ HandlerDone \/ CmdNotFound \/ Crash \/ Execute \/ Prompt
  PROVE  Crashing'
<1>1. CASE \/ Split \/ Typealize \/ Merge \/ Assign \/ HandleToken \/ AttachArg \/ NextCmd
           \/ Attached \/ HandlerDone \/ CmdNotFound \/ Prompt
  <2>1. pc' \notin {"make", "execute", "crashed"}
    BY <1>1 DEF Split, Typealize, Merge, Assign, HandleToken, AttachArg, NextCmd, Attaching, Attached,
                HandlerDone, CmdNotFound, Prompt
  <2> QED
    BY <2>1 DEF Crashing, OneTokenLives, TreeNeverCrashes
<1>2. CASE MergeCrash
  <2>1. First \in Node /\ id = ids /\ pc = "merge" /\ pc' = "crashed" /\ JoinsNull(Merged)
        /\ UNCHANGED <<text, next, used>>
    BY <1>2, Started DEF MergeCrash, list, ygg
  <2>2. Merged \in Node /\ next[Merged] # Nil /\ Prev(next[Merged], Merged) # Nil
        /\ "null" \in {text[Merged], text[next[Merged]]}
    BY <2>1, MergedIn DEF JoinsNull, Joins
  <2>3. next[Merged] \in Node
    BY <2>2 DEF Base, Types, Pointers
  <2>4. ~Alike
    BY <2>1, <2>2, <2>3, PrevAlike DEF Base
  <2>5. used' = {} /\ \E n \in Node : text'[n] = "null"
    BY <2>1, <2>2, <2>3 DEF Base, Bare, Building
  <2> QED
    BY <2>1, <2>4, <2>5 DEF Crashing, OneTokenLives, TreeNeverCrashes, Alike
<1>3. CASE Crash
  <2>1. First \in Node /\ id = ids /\ pc = "make" /\ pc' = "crashed" /\ calls # <<>>
        /\ next' = next
    BY <1>3, Started DEF Crash, list
  <2>4. DerefNull(calls[1].t) \/ DerefNullRight(calls[1].t, calls[1].e)
    BY <1>3 DEF Crash
  <2>2. ~Distinct
    <3> SUFFICES ASSUME Distinct PROVE FALSE
      OBVIOUS
    <3>1. calls[1].t \in Tokens /\ Tokens = Reach(next, First) /\ Tokens \subseteq Node
      BY <2>1, Live DEF Base
    <3>2. ~DerefNullRight(calls[1].t, calls[1].e)
      BY <2>1 DEF Inside, DerefNullRight
    <3>3. Prev(calls[1].t, First) = Nil /\ calls[1].t # First
      BY <2>4, <3>2 DEF DerefNull
    <3> QED
      BY <2>1, <3>1, <3>3, PrevDistinct DEF Base
  <2>3. Alike => next[First] # Nil
    <3> SUFFICES ASSUME Alike, next[First] = Nil PROVE FALSE
      OBVIOUS
    <3>1. calls = <<[t |-> First, e |-> Nil]>>
      BY <2>1 DEF Crashing, Doomed
    <3>2. calls[1].t = First /\ calls[1].e = Nil
      BY <3>1
    <3> QED
      BY <2>4, <3>2 DEF DerefNull, DerefNullRight
  <2> QED
    BY <2>1, <2>2, <2>3 DEF Crashing, OneTokenLives, TreeNeverCrashes, Alike, Distinct
<1>4. CASE Execute
  <2>1. pc = "make" /\ pc' = "execute" /\ calls = <<>> /\ next' = next
    BY <1>4 DEF Execute, list
  <2>2. Alike => next[First] = Nil
    BY <2>1 DEF Crashing, Doomed
  <2> QED
    BY <2>1, <2>2 DEF Crashing, OneTokenLives, TreeNeverCrashes, Alike
<1> QED
  BY <1>1, <1>2, <1>3, <1>4

-----------------------------------------------------------------------------
(***************************************************************************)
(* The tree.                                                               *)
(***************************************************************************)
Shaped == pc = "make" /\ Whole => Growing /\ Hanging

LEMMA Alone ==
  ASSUME Base, First \in Node, Lists, Whole, pc \in {"init", "make"}
  PROVE  /\ \A a \in Node : ~Pair(a)
         /\ next[First] = Nil => Tokens = {First}
<1>1. next[First] = Nil => Tokens = {First}
  BY Live, ReachUnfold DEF Base, Types
<1> QED
  BY <1>1 DEF Lists, Apart, Whole, Pair

LEMMA RanksIn ==
  ASSUME Base, NEW n \in Node
  PROVE  rank[n] \in {3, 4, 6} /\ RankS = 6
BY DEF Base, Types, RankC, RankB, RankS

LEMMA ShapedRoot ==
  ASSUME Base, Lists, InitYggdrasil, UNCHANGED ids
  PROVE  Shaped'
<1>1. /\ First \in Node /\ id = ids /\ pc = "init"
      /\ root' \in Greatest /\ Greatest \cap After(root') = {}
      /\ root' \in Tokens /\ root' \in Node
      /\ used' = {root'} /\ calls' = <<[t |-> root', e |-> Nil]>> /\ pc' = "make"
      /\ UNCHANGED <<next, rank, left, right>>
  BY RootFound DEF InitYggdrasil, MakeRoot
<1>2. Tokens' = Tokens
  BY <1>1 DEF Tokens, From
<1>3. Tokens \subseteq Node /\ First \in Tokens /\ Tokens \subseteq Nat
  BY <1>1, Live, NoNode DEF Base
<1>4. left = Blank(Nil) /\ right = Blank(Nil)
  BY <1>1 DEF Base, Bare, Building
<1>5. \A n \in Node : left'[n] = Nil /\ right'[n] = Nil
  BY <1>1, <1>4 DEF Blank
<1>6. SUFFICES ASSUME Whole
               PROVE  Growing' /\ Hanging'
  BY <1>1 DEF Shaped, Whole, Distinct
<1>7. \A a \in Node : ~Pair(a)
  BY <1>1, <1>6, Alone
<1>8. Len(calls') = 1 /\ calls' # <<>> /\ calls'[1].t = root' /\ calls'[1].e = Nil
  BY <1>1
<1>9. ASSUME rank[root'] = RankS
      PROVE  Spine(calls[1])'
  <2>1. ASSUME NEW n \in Tokens, rank[n] = RankS
        PROVE  n <= root'
    <3>1. n \in Greatest
      BY <1>3, <2>1, RanksIn DEF Greatest
    <3>2. After(root') = {m \in Tokens : root' < m}
      BY <1>1, InOrder DEF Base
    <3>3. ~(root' < n)
      BY <1>1, <3>1, <3>2
    <3> QED
      BY <1>1, <1>3, <3>3
  <2> QED
    BY <1>1, <1>2, <1>8, <2>1 DEF Spine
<1>10. ASSUME rank[root'] # RankS
       PROVE  used' = Tokens /\ Idle(calls[1])'
  <2>1. \A n \in Tokens : rank[n] # RankS
    BY <1>1, <1>3, <1>10, RanksIn DEF Greatest
  <2>2. next[First] = Nil
    BY <1>3, <1>7, <2>1, <1>1, Live DEF Pair, Base
  <2>3. Tokens = {First}
    BY <1>1, <1>6, <2>2, Alone
  <2> QED
    BY <1>1, <1>8, <1>10, <2>2, <2>3 DEF Idle
<1>11. Growing'
  BY <1>1, <1>2, <1>5, <1>8, <1>9, <1>10 DEF Growing
<1>12. Hanging'
  <2>1. used' \subseteq Under(root)'
    BY <1>1, NoNode DEF Under
  <2> QED
    BY <1>5, <2>1 DEF Hanging
<1> QED
  BY <1>11, <1>12

\* The right operand of an operator is the token after it, unless that is eof.
LEMMA RightOperand ==
  ASSUME Base, First \in Node, id = ids, \A a \in Node : ~Pair(a),
         NEW c \in Call, Spine(c), c.t \in Tokens, rank[c.t] = RankS,
         NEW r, r = New(FindRight(c.t, c.e))
  PROVE  /\ r # Nil => r \in Tokens /\ rank[r] # RankS /\ next[c.t] = r /\ next[r] = c.e
         /\ \A n \in Tokens : c.t < n => n = r \/ (c.e # Nil /\ c.e <= n)
<1> DEFINE t == c.t
           e == c.e
           b == next[c.t]
           f == UpTo(c.e)
<1>1. t \in Node /\ e \in Node \cup {Nil} /\ t \in Tokens
  BY DEF Call
<1>2. /\ e # Nil => t < e /\ rank[e] = RankS /\ e \in Tokens
      /\ used = {t} \cup {n \in Tokens : e # Nil /\ e <= n}
      /\ \A n \in Tokens : rank[n] = RankS => n <= t \/ (e # Nil /\ e <= n)
  BY DEF Spine
<1>3. /\ Tokens \subseteq Node /\ \A n \in Tokens : n \in Nat
      /\ \A n \in Tokens : next[n] # Nil => next[n] \in Tokens /\ n < next[n]
      /\ \A m, n \in Tokens : m < n => next[m] # Nil /\ next[m] <= n
  <2>1. \A n \in Tokens : next[n] # Nil => next[n] \in Tokens
    BY Live DEF Base
  <2>2. Tokens \subseteq Node
    BY Live DEF Base
  <2>3. \A n \in Tokens : next[n] # Nil => n < next[n]
    BY <2>2 DEF Base, Ordered, Rising
  <2> QED
    BY <2>1, <2>2, <2>3, InOrder DEF Base
<1>4. f \in Pointers /\ f[t] = (IF b = e THEN Nil ELSE b) /\ FindRight(t, e) = Nearest(f, t)
  <2>1. t \in Nat /\ t # Nil /\ (e # Nil => t < e)
    BY <1>1, <1>2, <1>3, NoNode
  <2>2. t # e
    BY <2>1
  <2> QED
    BY <1>1, <2>2, Ways DEF FindRight, UpTo
<1> HIDE DEF t, e, b, f
<1>5. CASE b = e
  <2>1. r = Nil
    BY <1>1, <1>4, <1>5, NearestFinds DEF New, Base, t, e
  <2>2. ASSUME NEW n \in Tokens, t < n
        PROVE  e # Nil /\ e <= n
    BY <1>1, <1>3, <1>5, <2>2 DEF b, t
  <2> QED
    BY <2>1, <2>2 DEF t, e
<1>6. CASE b # e
  <2>1. b # Nil
    BY <1>1, <1>2, <1>3, <1>6 DEF b, t
  <2>2. b \in Tokens /\ t < b /\ b \in Node
    BY <1>1, <1>3, <2>1 DEF b, t
  <2>3. e # Nil => b <= e /\ b < e
    <3>1. e # Nil => b <= e
      BY <1>1, <1>2, <1>3 DEF b, t
    <3> QED
      BY <1>2, <1>3, <1>6, <2>2, <3>1
  <2>4. rank[b] # RankS
    <3>1. t \in Nat /\ b \in Nat /\ (e # Nil => e \in Nat)
      BY <1>1, <1>2, <1>3, <2>2
    <3> QED
      BY <1>2, <2>2, <2>3, <3>1
  <2>5. next[b] = e
    <3>1. CASE next[b] = Nil
      BY <1>2, <1>3, <2>2, <2>3, <3>1
    <3>2. CASE next[b] # Nil
      <4>1. rank[next[b]] = RankS /\ next[b] \in Tokens /\ b < next[b]
        BY <1>3, <2>2, <2>4, <3>2 DEF Pair
      <4>2. t \in Nat /\ b \in Nat /\ next[b] \in Nat
        BY <1>1, <1>3, <2>2, <4>1
      <4>3. e # Nil /\ e <= next[b]
        BY <1>2, <2>2, <4>1, <4>2
      <4>4. next[b] <= e /\ e \in Nat
        BY <1>2, <1>3, <2>2, <2>3, <4>3
      <4> QED
        BY <4>2, <4>3, <4>4
    <3> QED
      BY <3>1, <3>2
  <2>6. f[t] = b /\ f[b] = Nil
    BY <1>1, <1>4, <1>6, <2>2, <2>5 DEF f, UpTo, e
  <2>7. Reach(f, b) = {b}
    BY <1>4, <2>2, <2>6, ReachUnfold
  <2>8. rank[b] <= rank[t]
    BY <1>1, <2>2, RanksIn DEF t
  <2>9. FindRight(t, e) = b
    BY <1>1, <1>4, <2>1, <2>6, <2>7, <2>8, NearestFinds DEF Base
  <2>10. b \notin used
    <3>1. t \in Nat /\ b \in Nat /\ (e # Nil => e \in Nat)
      BY <1>1, <1>2, <1>3, <2>2
    <3> QED
      BY <1>2, <2>2, <2>3, <3>1
  <2>11. r = b
    BY <2>9, <2>10 DEF New, t, e
  <2>12. ASSUME NEW n \in Tokens, t < n, n # b
         PROVE  e # Nil /\ e <= n
    <3>1. b <= n /\ b \in Nat /\ n \in Nat
      BY <1>1, <1>3, <2>2, <2>12 DEF b, t
    <3>2. b < n
      BY <2>12, <3>1
    <3> QED
      BY <1>3, <2>2, <2>5, <3>2
  <2> QED
    BY <2>2, <2>4, <2>5, <2>11, <2>12 DEF t, e, b
<1> QED
  BY <1>5, <1>6

\* Its left operand is the operator before it, or the first token of the line
\* when there is none.
LEMMA LeftOperand ==
  ASSUME Base, First \in Node, id = ids, Whole, \A a \in Node : ~Pair(a),
         next[First] = Nil => Tokens = {First},
         NEW c \in Call, Spine(c), c.t \in Tokens, rank[c.t] = RankS,
         NEW l, l = New(FindLeft(c.t))
  PROVE  \/ c.t = First /\ l = Nil
         \/ /\ l \in Tokens /\ l < c.t /\ l \notin used
            /\ \/ rank[l] = RankS /\ \A n \in Tokens : rank[n] = RankS => n <= l \/ c.t <= n
               \/ rank[l] # RankS /\ next[l] = c.t /\ \A n \in Tokens : n = l \/ c.t <= n
<1> DEFINE t == c.t
           N == Nearest(Back, c.t)
           B == {m \in Tokens : m < c.t}
<1>1. /\ Tokens \subseteq Node /\ First \in Tokens /\ \A n \in Tokens : n \in Nat /\ First <= n
      /\ \A n \in Tokens : next[n] # Nil => next[n] \in Tokens /\ n < next[n]
      /\ \A m, n \in Tokens : m < n => next[m] # Nil /\ next[m] <= n
  <2>1. Tokens \subseteq Node /\ First \in Tokens /\ \A n \in Tokens : next[n] # Nil => next[n] \in Tokens
    BY Live DEF Base
  <2>2. \A n \in Tokens : next[n] # Nil => n < next[n]
    BY <2>1 DEF Base, Ordered, Rising
  <2> QED
    BY <2>1, <2>2, InOrder DEF Base
<1>2. t \in Node /\ t \in Nat /\ t \in Tokens /\ t # Nil
  BY <1>1, NoNode
<1>3. CASE t = First
  BY <1>3 DEF FindLeft, New
<1>4. CASE t # First
  <2>1. Distinct
    BY <1>2, <1>4 DEF Whole
  <2>2. Back[t] # Nil /\ Reach(Back, Back[t]) = B /\ \A n \in Tokens : Reach(Back, n) = {m \in Tokens : m <= n}
    BY <1>2, <1>4, <2>1, BackReach
  <2>3. First \in B
    BY <1>1, <1>2, <1>4
  <2>4. \A m \in B : m \in Node /\ rank[m] <= rank[t]
    BY <1>1, <1>2, RanksIn
  <2>5. Back \in Pointers
    BY Ways
  <2> HIDE DEF B, N, t
  <2>6. N # Nil /\ N \in B
        /\ \A m \in B : rank[m] <= rank[N] /\ (rank[m] = rank[N] => m \in Reach(Back, N))
    BY <1>2, <2>2, <2>3, <2>4, <2>5, NearestFinds DEF Base, N, t
  <2>7. N \in Tokens /\ N < t /\ N \in Nat
    BY <1>1, <2>6 DEF B, t
  <2>8. \A m \in B : rank[m] = rank[N] => m <= N
    BY <2>2, <2>6, <2>7
  <2>9. N \notin used
    <3>1. used = {t} \cup {n \in Tokens : c.e # Nil /\ c.e <= n}
      BY DEF Spine, t
    <3>2. c.e # Nil => t < c.e /\ c.e \in Nat
      BY <1>1 DEF Spine, t
    <3> QED
      BY <1>2, <2>7, <3>1, <3>2
  <2>10. l = N
    BY <1>4, <2>9 DEF FindLeft, Back, New, N, t
  <2>11. CASE rank[N] = RankS
    <3>1. \A n \in Tokens : rank[n] = RankS => n <= N \/ t <= n
      <4> TAKE n \in Tokens
      <4> SUFFICES ASSUME rank[n] = RankS, ~(t <= n) PROVE n <= N
        OBVIOUS
      <4>1. n \in B
        BY <1>1, <1>2 DEF B, t
      <4> QED
        BY <2>8, <2>11, <4>1
    <3> QED
      BY <2>7, <2>9, <2>10, <2>11, <3>1 DEF t
  <2>12. CASE rank[N] # RankS
    <3>1. \A m \in B : rank[m] # RankS
      BY <1>1, <2>4, <2>6, <2>7, <2>12, RanksIn
    <3>2. next[First] # Nil /\ next[First] <= t /\ First < t
      BY <1>1, <1>2, <2>3 DEF B, t
    <3>3. next[First] = t
      <4> SUFFICES ASSUME next[First] # t PROVE FALSE
        OBVIOUS
      <4>1. next[First] \in Tokens /\ next[First] \in Nat
        BY <1>1, <3>2
      <4>2. next[First] \in B
        BY <1>2, <3>2, <4>1 DEF B, t
      <4> QED
        BY <1>1, <2>3, <3>1, <3>2, <4>2 DEF Pair
    <3>4. \A n \in Tokens : n = First \/ t <= n
      <4> TAKE n \in Tokens
      <4>1. n \in Nat /\ First \in Nat /\ First <= n
        BY <1>1
      <4>2. First < n => next[First] <= n
        BY <1>1
      <4> QED
        BY <3>3, <4>1, <4>2
    <3>5. N = First
      BY <1>1, <1>2, <2>7, <3>4
    <3> QED
      BY <2>7, <2>9, <2>10, <2>12, <3>3, <3>4, <3>5 DEF t
  <2> QED
    BY <2>11, <2>12
<1> QED
  BY <1>3, <1>4

\* New nodes hang under the root.
LEMMA UnderGrows ==
  ASSUME Base, Hanging, NEW t \in used, left[t] = Nil, right[t] = Nil,
         NEW l, NEW r, left' = [left EXCEPT ![t] = l], right' = [right EXCEPT ![t] = r],
         root' = root, used' = used \cup ({l, r} \ {Nil}), l \in Node \cup {Nil}, r \in Node \cup {Nil}
  PROVE  used' \subseteq Under(root)'
<1>1. used \subseteq Under(root) /\ used \subseteq Node /\ left \in Pointers /\ right \in Pointers
  BY DEF Hanging, Base, Types
<1>2. root # Nil
  BY <1>1 DEF Under
<1>3. left'[t] = l /\ right'[t] = r /\ \A m \in Node \ {t} : left'[m] = left[m] /\ right'[m] = right[m]
  BY <1>1 DEF Pointers
<1>4. SUFFICES ASSUME NEW n \in used', NEW S \in SUBSET Node, root \in S,
                      \A m \in S : {left'[m], right'[m]} \subseteq S \cup {Nil}
               PROVE  n \in S
  BY <1>1, <1>2 DEF Under
<1>5. \A m \in S : {left[m], right[m]} \subseteq S \cup {Nil}
  <2> TAKE m \in S
  <2>1. CASE m = t
    BY <2>1
  <2>2. CASE m # t
    BY <1>3, <1>4, <2>2
  <2> QED
    BY <2>1, <2>2
<1>6. used \subseteq S
  BY <1>1, <1>4, <1>5 DEF Under
<1>7. {l, r} \subseteq S \cup {Nil}
  BY <1>3, <1>4, <1>6
<1> QED
  BY <1>4, <1>6, <1>7

\* A call for an operand finds nothing that has no node yet.
LEMMA ShapedLeaf ==
  ASSUME Base, MakeYggdrasil, UNCHANGED ids, Growing, Hanging, rank[calls[1].t] # RankS
  PROVE  Growing' /\ Hanging'
<1> DEFINE t == calls[1].t
           e == calls[1].e
           l == left'[t]
           r == right'[t]
<1>1. /\ First \in Node /\ id = ids /\ calls # <<>> /\ t \in Node /\ e \in Node \cup {Nil}
      /\ left' = [left EXCEPT ![t] = New(FindLeft(t))]
      /\ right' = [right EXCEPT ![t] = New(FindRight(t, e))]
      /\ used' = used \cup ({l, r} \ {Nil})
      /\ l = New(FindLeft(t)) /\ r = New(FindRight(t, e))
      /\ l \in Node \cup {Nil} /\ r \in Node \cup {Nil}
      /\ calls' = Calling(l, t) \o Calling(r, e) \o Tail(calls)
      /\ UNCHANGED <<next, rank, root>>
  BY MakeDoes
<1>2. Idle(calls[1]) /\ used = Tokens
  BY <1>1 DEF Growing
<1>3. rank[t] # RankS /\ next[t] = e
  BY <1>2 DEF Idle
<1>4. t \in Tokens
  BY <1>1, <1>2 DEF Growing, Base, Types
<1> HIDE DEF t, e, l, r
<1>5. l = Nil
  <2>1. FindLeft(t) \in Tokens \cup {Nil}
    BY <1>1, FoundIn
  <2> QED
    BY <1>1, <1>2, <2>1 DEF New
<1>6. r = Nil
  <2>1. UpTo(e) \in Pointers /\ UpTo(e)[t] = Nil
    BY <1>1, <1>3, Ways DEF UpTo
  <2>2. FindRight(t, e) \in {Nil, Nearest(UpTo(e), t)}
    BY DEF FindRight, UpTo
  <2>3. FindRight(t, e) = Nil
    BY <1>1, <2>1, <2>2, NearestFinds DEF Base
  <2> QED
    BY <1>1, <2>3 DEF New
<1>7. used' = used /\ Tokens' = Tokens
  BY <1>1, <1>5, <1>6 DEF Tokens, From
<1>8. left' = left /\ right' = right
  <2>1. left[t] = Nil /\ right[t] = Nil
    BY <1>1, <1>3 DEF Hanging
  <2>2. left' = [left EXCEPT ![t] = Nil] /\ right' = [right EXCEPT ![t] = Nil]
    BY <1>1, <1>5, <1>6
  <2> QED
    BY <2>1, <2>2 DEF Base, Types, Pointers
<1>9. /\ Len(calls') \in Nat
      /\ \A i \in 1..Len(calls') : \E j \in 2..Len(calls) : calls'[i] = calls[j]
      /\ calls' # <<>> => 1 \in 1..Len(calls')
  <2>1. Queued(calls', calls, l, r, t, e)
    BY <1>1, NextCalls DEF Base, Types
  <2> QED
    BY <1>5, <1>6, <2>1 DEF Queued
<1>10. \A i \in 1..Len(calls') : calls'[i].t \in used' /\ Idle(calls[i])'
  <2> TAKE i \in 1..Len(calls')
  <2>1. PICK j \in 2..Len(calls) : calls'[i] = calls[j]
    BY <1>9
  <2>2. j \in 1..Len(calls) /\ Idle(calls[j]) /\ calls[j].t \in used
    BY DEF Growing
  <2> QED
    BY <1>1, <1>7, <2>1, <2>2 DEF Idle
<1>11. Growing'
  <2>1. calls' # <<>> => rank'[calls'[1].t] # RankS /\ Idle(calls[1])'
    BY <1>9, <1>10 DEF Idle
  <2>2. \A i \in 2..Len(calls') : i \in 1..Len(calls')
    BY <1>9
  <2> QED
    BY <1>1, <1>2, <1>7, <1>10, <2>1, <2>2 DEF Growing
<1>12. Hanging'
  BY <1>1, <1>7, <1>8, SMTT(30) DEF Hanging, Under
<1> QED
  BY <1>11, <1>12, SMTT(30)

\* A call for an operator finds its operands and goes on with the left one.
LEMMA ShapedOperator ==
  ASSUME Base, Lists, MakeYggdrasil, UNCHANGED ids, Whole, Growing, Hanging, rank[calls[1].t] = RankS
  PROVE  Growing' /\ Hanging'
<1> DEFINE c == calls[1]
           t == calls[1].t
           e == calls[1].e
           l == left'[t]
           r == right'[t]
<1>1. /\ First \in Node /\ id = ids /\ pc = "make" /\ calls # <<>> /\ c \in Call
      /\ t \in Node /\ e \in Node \cup {Nil}
      /\ left' = [left EXCEPT ![t] = l] /\ right' = [right EXCEPT ![t] = r]
      /\ used' = used \cup ({l, r} \ {Nil})
      /\ l = New(FindLeft(t)) /\ r = New(FindRight(t, e))
      /\ l \in Node \cup {Nil} /\ r \in Node \cup {Nil}
      /\ calls' = Calling(l, t) \o Calling(r, e) \o Tail(calls)
      /\ UNCHANGED <<next, rank, root>>
  BY MakeDoes
<1>2. /\ Spine(c) /\ left[t] = Nil /\ right[t] = Nil
      /\ root \in Tokens /\ used \subseteq Tokens /\ t \in used /\ t \in Tokens
  BY <1>1 DEF Growing, Base, Types
<1>3. (\A a \in Node : ~Pair(a)) /\ (next[First] = Nil => Tokens = {First})
  BY <1>1, Alone
<1> HIDE DEF l, r
<1>4. /\ r # Nil => r \in Tokens /\ rank[r] # RankS /\ next[t] = r /\ next[r] = e
      /\ \A n \in Tokens : t < n => n = r \/ (e # Nil /\ e <= n)
  BY <1>1, <1>2, <1>3, RightOperand
<1>5. \/ t = First /\ l = Nil
      \/ /\ l \in Tokens /\ l < t /\ l \notin used
         /\ \/ rank[l] = RankS /\ \A n \in Tokens : rank[n] = RankS => n <= l \/ t <= n
            \/ rank[l] # RankS /\ next[l] = t /\ \A n \in Tokens : n = l \/ t <= n
  BY <1>1, <1>2, <1>3, LeftOperand
<1>6. /\ Tokens \subseteq Node /\ \A n \in Tokens : n \in Nat /\ First <= n /\ n # Nil
      /\ Tokens' = Tokens /\ rank[t] = RankS
      /\ used = {t} \cup {n \in Tokens : e # Nil /\ e <= n}
      /\ e # Nil => t < e /\ e \in Tokens
      /\ \A n \in Tokens : next[n] # Nil => n < next[n]
  <2>1. Tokens \subseteq Node
    BY <1>1, Live DEF Base
  <2>2. \A n \in Tokens : next[n] # Nil => n < next[n]
    BY <2>1 DEF Base, Ordered, Rising
  <2>3. Tokens' = Tokens
    BY <1>1 DEF Tokens, From
  <2> QED
    BY <1>1, <1>2, <2>1, <2>2, <2>3, NoNode, InOrder DEF Spine, Base
<1> HIDE DEF c, t, e
\* All tokens from t on have nodes then.
<1>7. used' = ({l} \ {Nil}) \cup {n \in Tokens : t <= n}
  <2>1. ASSUME NEW n \in Tokens, t <= n
        PROVE  n \in used'
    <3>1. n = t \/ t < n
      BY <1>2, <1>6, <2>1
    <3>2. n \in Nat /\ n # Nil
      BY <1>6
    <3> QED
      BY <1>1, <1>2, <1>4, <1>6, <3>1, <3>2
  <2>2. r # Nil => t <= r
    BY <1>2, <1>4, <1>6
  <2>3. \A n \in used : t <= n
    BY <1>2, <1>6
  <2> QED
    BY <1>1, <1>2, <1>4, <2>1, <2>2, <2>3
<1>8. used' \subseteq Tokens
  BY <1>5, <1>7
<1>9. Queued(calls', calls, l, r, t, e) /\ Len(calls) \in Nat
  <2>1. calls \in Seq(Call)
    BY DEF Base, Types
  <2>2. /\ calls # <<>> /\ l \in Node \cup {Nil} /\ r \in Node \cup {Nil}
        /\ t \in Node /\ e \in Node \cup {Nil}
        /\ calls' = Calling(l, t) \o Calling(r, e) \o Tail(calls)
    BY <1>1
  <2>3. Queued(calls', calls, l, r, t, e)
    BY <2>1, <2>2, NextCalls
  <2> QED
    BY <2>1, <2>3
<1>10. /\ Len(calls') \in Nat
       /\ \A i \in 1..Len(calls') :
            \/ i = 1 /\ l # Nil /\ calls'[i] = [t |-> l, e |-> t]
            \/ r # Nil /\ calls'[i] = [t |-> r, e |-> e]
            \/ \E j \in 2..Len(calls) : calls'[i] = calls[j]
       /\ \A i \in 2..Len(calls') :
            \/ r # Nil /\ calls'[i] = [t |-> r, e |-> e]
            \/ \E j \in 2..Len(calls) : calls'[i] = calls[j]
       /\ l # Nil => calls' # <<>> /\ calls'[1] = [t |-> l, e |-> t]
       /\ calls' # <<>> => 1 \in 1..Len(calls')
  BY <1>9 DEF Queued
<1>11. \A j \in 2..Len(calls) : calls[j].t \in used /\ Idle(calls[j])
  <2> TAKE j \in 2..Len(calls)
  <2>1. j \in 1..Len(calls)
    BY <1>9
  <2> QED
    BY <2>1 DEF Growing
<1>12. \A i \in 1..Len(calls') : calls'[i].t \in used'
  <2> TAKE i \in 1..Len(calls')
  <2>1. l # Nil /\ calls'[i] = [t |-> l, e |-> t] => calls'[i].t \in used'
    BY <1>1
  <2>2. r # Nil /\ calls'[i] = [t |-> r, e |-> e] => calls'[i].t \in used'
    BY <1>1
  <2>3. (\E j \in 2..Len(calls) : calls'[i] = calls[j]) => calls'[i].t \in used'
    BY <1>1, <1>11
  <2> QED
    BY <1>10, <2>1, <2>2, <2>3
<1>13. ASSUME NEW i \in 1..Len(calls'),
              \/ r # Nil /\ calls'[i] = [t |-> r, e |-> e]
              \/ \E j \in 2..Len(calls) : calls'[i] = calls[j]
       PROVE  Idle(calls[i])' /\ rank'[calls'[i].t] # RankS
  <2>1. CASE r # Nil /\ calls'[i] = [t |-> r, e |-> e]
    BY <1>1, <1>4, <2>1 DEF Idle
  <2>2. CASE \E j \in 2..Len(calls) : calls'[i] = calls[j]
    BY <1>1, <1>11, <2>2 DEF Idle
  <2> QED
    BY <1>13, <2>1, <2>2
<1>14. \A i \in 2..Len(calls') : Idle(calls[i])'
  <2> TAKE i \in 2..Len(calls')
  <2>1. i \in 1..Len(calls')
    BY <1>10
  <2> QED
    BY <1>10, <1>13, <2>1
<1>15. IF calls' # <<>> /\ rank'[calls'[1].t] = RankS
       THEN Spine(calls[1])' /\ left'[calls'[1].t] = Nil /\ right'[calls'[1].t] = Nil
       ELSE used' = Tokens' /\ (calls' # <<>> => Idle(calls[1])')
  <2>1. CASE t = First /\ l = Nil
    <3>1. used' = Tokens'
      BY <1>6, <1>7, <2>1
    <3>2. calls' # <<>> => Idle(calls[1])' /\ rank'[calls'[1].t] # RankS
      BY <1>10, <1>13, <2>1
    <3> QED
      BY <3>1, <3>2
  <2>2. CASE /\ l \in Tokens /\ l < t /\ l \notin used
             /\ rank[l] = RankS /\ \A n \in Tokens : rank[n] = RankS => n <= l \/ t <= n
    <3>1. l # Nil /\ calls' # <<>> /\ calls'[1] = [t |-> l, e |-> t]
      BY <1>6, <1>10, <2>2
    <3>2. calls'[1].t = l /\ calls'[1].e = t
      BY <3>1
    <3>3. t # Nil /\ t \in Tokens
      BY <1>2, <1>6
    <3>4. used' = {l} \cup {n \in Tokens' : t # Nil /\ t <= n}
      BY <1>6, <1>7, <3>1, <3>3
    <3>5. Spine(calls[1])'
      <4>1. t # Nil => l < t /\ rank'[t] = RankS /\ t \in Tokens'
        BY <1>1, <1>6, <2>2, <3>3
      <4>2. \A n \in Tokens' : rank'[n] = RankS => n <= l \/ (t # Nil /\ t <= n)
        BY <1>1, <1>6, <2>2, <3>3
      <4> QED
        BY <3>2, <3>4, <4>1, <4>2 DEF Spine
    <3>6. left[l] = Nil /\ right[l] = Nil /\ l # t /\ l \in Node
      BY <1>2, <1>6, <2>2 DEF Hanging
    <3>7. left'[l] = Nil /\ right'[l] = Nil
      BY <1>1, <3>6 DEF Base, Types, Pointers
    <3> QED
      BY <1>1, <2>2, <3>1, <3>2, <3>5, <3>7
  <2>3. CASE /\ l \in Tokens /\ l < t /\ l \notin used
             /\ rank[l] # RankS /\ next[l] = t /\ \A n \in Tokens : n = l \/ t <= n
    <3>1. l # Nil /\ calls' # <<>> /\ calls'[1] = [t |-> l, e |-> t]
      BY <1>6, <1>10, <2>3
    <3>2. calls'[1].t = l /\ calls'[1].e = t
      BY <3>1
    <3>3. used' = Tokens'
      BY <1>6, <1>7, <2>3, <3>1
    <3>4. Idle(calls[1])'
      BY <1>1, <2>3, <3>2 DEF Idle
    <3> QED
      BY <1>1, <2>3, <3>2, <3>3, <3>4
  <2> QED
    BY <1>5, <2>1, <2>2, <2>3
<1>16. Growing'
  BY <1>1, <1>2, <1>6, <1>8, <1>12, <1>14, <1>15 DEF Growing
<1>17. left'[t] = l /\ right'[t] = r /\ \A n \in Node \ {t} : left'[n] = left[n] /\ right'[n] = right[n]
  BY <1>1 DEF Base, Types, Pointers
<1>18. Hanging'
  <2>1. used' \subseteq Under(root)'
    BY <1>1, <1>2, UnderGrows
  <2>2. t \in used' /\ used \subseteq used'
    BY <1>1, <1>2
  <2>3. \A n \in Node : n \notin used' \/ rank[n] # RankS => left'[n] = Nil /\ right'[n] = Nil
    <3> TAKE n \in Node
    <3> SUFFICES ASSUME n \notin used' \/ rank[n] # RankS PROVE left'[n] = Nil /\ right'[n] = Nil
      OBVIOUS
    <3>1. n # t /\ (n \notin used \/ rank[n] # RankS)
      BY <1>6, <2>2
    <3> QED
      BY <1>17, <3>1 DEF Hanging
  <2>4. \A n \in Node : left'[n] # Nil => left'[n] \in Tokens /\ left'[n] < n
    BY <1>5, <1>17 DEF Hanging
  <2>5. \A n \in Node : right'[n] # Nil =>
           right'[n] \in Tokens /\ rank[right'[n]] # RankS /\ next[n] = right'[n]
    BY <1>4, <1>17 DEF Hanging
  <2>6. \A n \in Node : left'[n] # Nil =>
           /\ \A m \in Tokens : rank[m] = RankS => m <= left'[n] \/ n <= m
           /\ rank[left'[n]] # RankS => left'[n] = First
    <3> TAKE n \in Node
    <3>1. CASE n = t
      <4> SUFFICES ASSUME l # Nil
                   PROVE  /\ \A m \in Tokens : rank[m] = RankS => m <= l \/ t <= m
                          /\ rank[l] # RankS => l = First
        BY <1>17, <3>1
      <4>1. \A m \in Tokens : m = l => m <= l
        BY <1>6
      <4>2. First \in Tokens /\ First \in Nat /\ t \in Nat
        BY <1>1, <1>2, <1>6, Live DEF Base
      <4>3. l \in Tokens /\ l < t /\ First <= l /\ l \in Nat
        BY <1>5, <1>6
      <4>4. rank[l] # RankS => l = First
        BY <1>5, <4>2, <4>3
      <4> QED
        BY <1>5, <4>1, <4>4
    <3>2. CASE n # t
      BY <1>17, <3>2 DEF Hanging
    <3> QED
      BY <3>1, <3>2
  <2> QED
    BY <1>1, <1>6, <2>1, <2>3, <2>4, <2>5, <2>6 DEF Hanging
<1> QED
  BY <1>16, <1>18

\* The finished tree.
LEMMA TreeDone ==
  ASSUME Base, pc = "make", calls = <<>>, Growing, Hanging
  PROVE  /\ Under(root) = Tokens
         /\ \A n \in Tokens : /\ \A m \in Under(left[n]) : n \in After(m)
                              /\ Under(right[n]) \subseteq After(n)
         /\ \A n \in used : right[n] # Nil =>
              /\ left[right[n]] = Nil /\ right[right[n]] = Nil
              /\ type[right[n]] \in {"command", "word", "assign"}
<1>1. First \in Node /\ Ranked
  BY Started
<1>2. used = Tokens /\ root \in Tokens /\ used \subseteq Under(root)
  BY DEF Growing, Hanging
<1>3. /\ Tokens \subseteq Node /\ \A n \in Tokens : n \in Nat /\ n # Nil
      /\ \A m, n \in Tokens : m < n => next[m] # Nil /\ next[m] <= n
      /\ \A n \in Tokens : After(n) = {m \in Tokens : n < m}
  BY <1>1, Live, InOrder, NoNode DEF Base
<1>4. /\ \A n \in Node : rank[n] # RankS => left[n] = Nil /\ right[n] = Nil
      /\ \A n \in Node : left[n] # Nil => left[n] \in Tokens /\ left[n] < n
      /\ \A n \in Node : right[n] # Nil =>
           right[n] \in Tokens /\ rank[right[n]] # RankS /\ next[n] = right[n]
  BY DEF Hanging
<1>5. Under(root) \subseteq Tokens
  <2>1. \A m \in Tokens : {left[m], right[m]} \subseteq Tokens \cup {Nil}
    BY <1>3, <1>4
  <2> QED
    BY <1>2, <1>3, <2>1 DEF Under
<1>6. ASSUME NEW n \in Tokens, NEW m \in Under(left[n])
      PROVE  n \in After(m)
  <2> DEFINE S == {x \in Tokens : x < n}
  <2>1. left[n] # Nil /\ n \in Node
    BY <1>3, <1>6 DEF Under
  <2>2. left[n] \in S /\ S \subseteq Node /\ rank[n] = RankS
    BY <1>3, <1>4, <2>1
  <2>3. ASSUME NEW x \in S
        PROVE  {left[x], right[x]} \subseteq S \cup {Nil}
    <3>1. x \in Tokens /\ x \in Node /\ x < n /\ x \in Nat /\ n \in Nat
      BY <1>3
    <3>2. left[x] # Nil => left[x] \in S
      <4> SUFFICES ASSUME left[x] # Nil PROVE left[x] \in S
        OBVIOUS
      <4>1. left[x] \in Tokens /\ left[x] < x /\ left[x] \in Nat
        BY <1>3, <1>4, <3>1
      <4> QED
        BY <3>1, <4>1
    <3>3. right[x] # Nil => right[x] \in S
      <4> SUFFICES ASSUME right[x] # Nil PROVE right[x] \in S
        OBVIOUS
      <4>1. right[x] \in Tokens /\ rank[right[x]] # RankS /\ next[x] = right[x] /\ right[x] \in Nat
        BY <1>3, <1>4, <3>1
      <4>2. right[x] <= n /\ right[x] # n
        BY <1>3, <2>2, <3>1, <4>1
      <4> QED
        BY <3>1, <4>1, <4>2
    <3> QED
      BY <3>2, <3>3
  <2>4. m \in S
    <3> HIDE DEF S
    <3> QED
      BY <1>6, <2>2, <2>3 DEF Under
  <2> QED
    BY <1>3, <2>4
<1>7. ASSUME NEW n \in Tokens
      PROVE  Under(right[n]) \subseteq After(n)
  <2>1. CASE right[n] = Nil
    BY <2>1 DEF Under
  <2>2. CASE right[n] # Nil
    <3>1. n \in Node /\ right[n] \in Tokens /\ next[n] = right[n] /\ right[n] \in Node
          /\ left[right[n]] = Nil /\ right[right[n]] = Nil
      BY <1>3, <1>4, <2>2
    <3>2. Under(right[n]) \subseteq {right[n]}
      <4> DEFINE S == {right[n]}
      <4>1. S \in SUBSET Node /\ right[n] \in S /\ \A m \in S : {left[m], right[m]} \subseteq S \cup {Nil}
        BY <3>1
      <4> HIDE DEF S
      <4>2. Under(right[n]) \subseteq S
        BY <4>1 DEF Under
      <4> QED
        BY <4>2 DEF S
    <3>3. n < right[n]
      BY <2>2, <3>1 DEF Base, Ordered, Rising
    <3> QED
      BY <1>3, <3>1, <3>2, <3>3
  <2> QED
    BY <2>1, <2>2
<1>8. ASSUME NEW n \in used, right[n] # Nil
      PROVE  /\ left[right[n]] = Nil /\ right[right[n]] = Nil
             /\ type[right[n]] \in {"command", "word", "assign"}
  <2>1. n \in Node /\ right[n] \in Node /\ rank[right[n]] # RankS
    BY <1>2, <1>3, <1>4, <1>8
  <2> QED
    BY <1>1, <1>4, <2>1 DEF Ranked
<1> QED
  BY <1>2, <1>5, <1>6, <1>7, <1>8

Trees == Shaped /\ TreeIsTheList /\ RightIsLeaf /\ (pc = "execute" => Finished)

LEMMA TreesStep ==
  ASSUME Base, Lists, Crashing, Trees, [Next]_vars
  PROVE  Trees'
<1>1. CASE UNCHANGED vars
  BY <1>1 DEF vars, list, ygg, Trees, Shaped, Whole, Distinct, Growing, Hanging, Under, Idle, Spine,
              Tokens, From, After, TreeIsTheList, RightIsLeaf, Finished
<1>2. CASE InitYggdrasil /\ UNCHANGED ids
  <2>1. pc' = "make"
    BY <1>2, RootFound
  <2> QED
    BY <1>2, <2>1, ShapedRoot DEF Trees, TreeIsTheList, RightIsLeaf
<1>3. CASE MakeYggdrasil /\ UNCHANGED ids
  <2>1. pc = "make" /\ pc' = "make" /\ next' = next
    BY <1>3, MakeDoes
  <2>2. Whole' <=> Whole
    BY <1>3, <2>1 DEF Whole, Distinct
  <2>3. Whole => Growing' /\ Hanging'
    BY <1>3, <2>1, ShapedLeaf, ShapedOperator DEF Trees, Shaped
  <2> QED
    BY <2>1, <2>2, <2>3 DEF Trees, Shaped, TreeIsTheList, RightIsLeaf
<1>4. CASE Execute /\ UNCHANGED ids
  <2>1. pc = "make" /\ pc' = "execute" /\ calls = <<>>
        /\ UNCHANGED <<next, type, rank, used, left, right, root>>
    BY <1>4 DEF Execute, list, ygg
  <2>2. Whole
    BY <2>1, OneOrMore DEF Whole, Crashing, Doomed, Base
  <2>3. /\ Under(root) = Tokens
        /\ \A n \in Tokens : /\ \A m \in Under(left[n]) : n \in After(m)
                             /\ Under(right[n]) \subseteq After(n)
        /\ \A n \in used : right[n] # Nil =>
             /\ left[right[n]] = Nil /\ right[right[n]] = Nil
             /\ type[right[n]] \in {"command", "word", "assign"}
    BY <2>1, <2>2, TreeDone DEF Trees, Shaped
  <2>4. /\ Tokens' = Tokens /\ Under(root)' = Under(root)
        /\ \A n : After(n)' = After(n) /\ Under(left[n])' = Under(left[n]) /\ Under(right[n])' = Under(right[n])
    BY <2>1 DEF Tokens, From, After, Under
  <2>5. TreeIsTheList'
    BY <2>3, <2>4 DEF TreeIsTheList
  <2>6. RightIsLeaf'
    BY <2>1, <2>3 DEF RightIsLeaf
  <2>7. Finished'
    <3>1. Finished
      BY <2>1, <2>2 DEF Trees, Shaped, Growing, Hanging, Finished
    <3> QED
      BY <2>1, <2>4, <3>1 DEF Finished, Hanging
  <2> QED
    BY <2>1, <2>5, <2>6, <2>7 DEF Trees, Shaped
<1>5. CASE \/ Split \/ Typealize \/ Merge \/ MergeCrash \/ Assign \/ HandleToken \/ AttachArg \/ NextCmd
           \/ Attached \/ HandlerDone \/ CmdNotFound \/ Crash \/ Prompt
  <2>1. pc' \notin {"make", "execute"}
    BY <1>5 DEF Split, Typealize, Merge, MergeCrash, Assign, HandleToken, AttachArg, NextCmd, Attaching,
                Attached, HandlerDone, CmdNotFound, Crash, Prompt
  <2> QED
    BY <2>1 DEF Trees, Shaped, TreeIsTheList, RightIsLeaf
<1>6. CASE Step /\ UNCHANGED ids
  BY <1>2, <1>3, <1>4, <1>5, <1>6 DEF Step
<1> QED
  BY <1>1, <1>6 DEF Next, Dead

LEMMA CrashingStep ==
  ASSUME Base, Lists, Crashing, Trees, [Next]_vars
  PROVE  Crashing'
<1>1. CASE UNCHANGED vars
  BY <1>1 DEF vars, list, ygg, Crashing, Doomed, Greatest, Tokens, From, Alike, Distinct,
              OneTokenLives, TreeNeverCrashes
<1>2. pc = "make" /\ calls # <<>> /\ Distinct => calls[1].t \in Tokens /\ Inside(calls[1])
  <2> DEFINE t == calls[1].t
             e == calls[1].e
  <2> SUFFICES ASSUME pc = "make", calls # <<>>, Distinct
               PROVE  t \in Tokens /\ Inside(calls[1])
    OBVIOUS
  <2>1. Growing
    BY DEF Trees, Shaped, Whole
  <2>2. 1 \in 1..Len(calls)
    BY DEF Base, Types
  <2>3. t \in Tokens
    BY <2>1, <2>2 DEF Growing
  <2>4. CASE rank[t] # RankS
    BY <2>1, <2>3, <2>4 DEF Growing, Idle, Inside
  <2>5. CASE rank[t] = RankS
    <3>1. e # Nil => t < e /\ e \in Tokens
      BY <2>1, <2>5 DEF Growing, Spine
    <3>2. First \in Node
      BY Started
    <3>3. e # Nil => e \in After(t)
      <4> HIDE DEF t, e
      <4> QED
        BY <2>3, <3>1, <3>2, InOrder DEF Base
    <3> QED
      BY <2>3, <3>3 DEF Inside
  <2> QED
    BY <2>4, <2>5
<1>3. CASE Step /\ UNCHANGED ids
  BY <1>2, <1>3, CrashingRoot, CrashingMake, CrashingRest DEF Step
<1> QED
  BY <1>1, <1>3 DEF Next, Dead

-----------------------------------------------------------------------------
(***************************************************************************)
(* The finished tree, numbered in pre-order.                               *)
(***************************************************************************)
\* The nodes under k are k and those under its operands.
LEMMA UnderThis ==
  ASSUME left \in Pointers, right \in Pointers, NEW k \in Node
  PROVE  /\ k \in Under(k) /\ Under(k) \subseteq Node /\ Under(Nil) = {}
         /\ Under(k) = {k} \cup Under(left[k]) \cup Under(right[k])
         /\ \A n \in Under(k) : Under(n) \subseteq Under(k)
<1>1. k # Nil
  BY NoNode
<1>2. /\ k \in Under(k) /\ Under(k) \subseteq Node /\ Under(Nil) = {}
      /\ \A n \in Under(k) : {left[n], right[n]} \subseteq Under(k) \cup {Nil}
  <2>1. ASSUME NEW n \in Under(k)
        PROVE  {left[n], right[n]} \subseteq Under(k) \cup {Nil}
    <3>1. n \in Node /\ {left[n], right[n]} \subseteq Node \cup {Nil}
      BY DEF Under, Pointers
    <3> QED
      BY <1>1, <3>1 DEF Under
  <2> QED
    BY <1>1, <2>1 DEF Under
<1>3. \A n \in Under(k) : Under(n) \subseteq Under(k)
  <2> TAKE n \in Under(k)
  <2> DEFINE S == Under(k)
  <2>1. S \in SUBSET Node /\ n \in S /\ \A m \in S : {left[m], right[m]} \subseteq S \cup {Nil}
    BY <1>2
  <2> HIDE DEF S
  <2>2. Under(n) \subseteq S
    BY <2>1 DEF Under
  <2> QED
    BY <2>2 DEF S
<1>4. Under(left[k]) \subseteq Under(k) /\ Under(right[k]) \subseteq Under(k)
  BY <1>2, <1>3
<1>5. Under(k) \subseteq {k} \cup Under(left[k]) \cup Under(right[k])
  <2> DEFINE S == {k} \cup Under(left[k]) \cup Under(right[k])
  <2>1. S \in SUBSET Node /\ k \in S
    BY DEF Under
  <2>2. \A m \in Node : m \in Under(m)
    BY NoNode DEF Under
  <2>3. ASSUME NEW m \in S
        PROVE  {left[m], right[m]} \subseteq S \cup {Nil}
    <3>1. m \in Node /\ {left[m], right[m]} \subseteq Node \cup {Nil}
      BY <2>1 DEF Pointers
    <3>2. CASE m = k
      BY <2>2, <3>1, <3>2
    <3>3. CASE m \in Under(left[k])
      BY <3>1, <3>3 DEF Under
    <3>4. CASE m \in Under(right[k])
      BY <3>1, <3>4 DEF Under
    <3> QED
      BY <2>3, <3>2, <3>3, <3>4
  <2> HIDE DEF S
  <2>4. Under(k) \subseteq S
    BY <2>1, <2>3 DEF Under
  <2> QED
    BY <2>4 DEF S
<1> QED
  BY <1>2, <1>3, <1>4, <1>5

\* What is known of the finished tree.
LEMMA TreeFacts ==
  ASSUME Base, First \in Node, Finished
  PROVE  /\ Tokens \subseteq Node /\ First \in Tokens /\ root \in Tokens /\ used = Tokens
         /\ \A n \in Tokens : n \in Nat /\ n # Nil /\ First <= n
         /\ \A m, n \in Tokens : m < n => next[m] # Nil /\ next[m] <= n
         /\ \A n \in Tokens : rank[n] # RankS => left[n] = Nil /\ right[n] = Nil
         /\ \A n \in Tokens : left[n] # Nil =>
              /\ left[n] \in Tokens /\ left[n] < n
              /\ \A m \in Tokens : rank[m] = RankS => m <= left[n] \/ n <= m
              /\ rank[left[n]] # RankS => left[n] = First
         /\ \A n \in Tokens : right[n] # Nil =>
              right[n] \in Tokens /\ rank[right[n]] # RankS /\ next[n] = right[n] /\ n < right[n]
         /\ left \in Pointers /\ right \in Pointers
<1>1. /\ Tokens \subseteq Node /\ First \in Tokens
      /\ \A n \in Tokens : n \in Nat /\ n # Nil /\ First <= n
      /\ \A m, n \in Tokens : m < n => next[m] # Nil /\ next[m] <= n
  BY Live, InOrder, NoNode DEF Base
<1>2. left \in Pointers /\ right \in Pointers /\ Rising(next)
  BY DEF Base, Types, Ordered
<1>3. used = Tokens /\ root \in Tokens /\ Hanging
  BY DEF Finished
<1>4. \A n \in Tokens : right[n] # Nil => n < right[n]
  BY <1>1, <1>2, <1>3 DEF Hanging, Rising
<1> QED
  BY <1>1, <1>2, <1>3, <1>4 DEF Hanging

\* The tree has the tokens of the list.
LEMMA UnderRoot ==
  ASSUME Base, First \in Node, Finished
  PROVE  Under(root) = Tokens
<1>1. \A m \in Tokens : {left[m], right[m]} \subseteq Tokens \cup {Nil}
  BY TreeFacts
<1>2. Tokens \subseteq Node /\ root \in Tokens
  BY TreeFacts
<1>3. Under(root) \subseteq Tokens
  BY <1>1, <1>2 DEF Under
<1> QED
  BY <1>3 DEF Finished, Hanging

\* Only an operator has nodes under it.
LEMMA UnderLeaf ==
  ASSUME Base, First \in Node, Finished, NEW n \in Tokens, rank[n] # RankS
  PROVE  Under(n) = {n}
<1>1. left[n] = Nil /\ right[n] = Nil /\ n \in Node
  BY TreeFacts
<1>2. Under(Nil) = {} /\ Under(n) = {n} \cup Under(left[n]) \cup Under(right[n])
  BY <1>1, UnderThis, TreeFacts
<1> QED
  BY <1>1, <1>2

\* Under an operator are the tokens before it and its right operand.
LEMMA UnderOperator ==
  ASSUME Base, First \in Node, Finished, NEW o \in Tokens, rank[o] = RankS
  PROVE  Under(o) = {m \in Tokens : m <= o \/ m = right[o]} /\ o <= root
<1> DEFINE S == {m \in Tokens : m <= o \/ m = right[o]}
<1>1. o \in Node /\ o \in Nat /\ Tokens \subseteq Node /\ root \in Tokens /\ root \in Node /\ root \in Nat
      /\ o # Nil
  BY TreeFacts
\* An operator t has nothing else under it.
<1>2. ASSUME NEW t \in Tokens, rank[t] = RankS
      PROVE  Under(t) \subseteq {m \in Tokens : m <= t \/ m = right[t]}
  <2> DEFINE T == {m \in Tokens : m <= t \/ m = right[t]}
  <2>1. T \in SUBSET Node /\ t \in T /\ t \in Nat /\ t # Nil
    <3>1. t \in Nat /\ t # Nil /\ t <= t
      BY TreeFacts
    <3> QED
      BY <1>1, <3>1
  <2>2. ASSUME NEW m \in T
        PROVE  {left[m], right[m]} \subseteq T \cup {Nil}
    <3>1. m \in Tokens /\ m \in Nat /\ t \in Nat
      BY TreeFacts
    <3>2. CASE rank[m] # RankS
      BY <3>1, <3>2, TreeFacts
    <3>3. CASE rank[m] = RankS
      <4>1. m <= t
        BY <2>1, <2>2, <3>1, <3>3, TreeFacts
      <4>2. left[m] # Nil => left[m] \in T
        <5> SUFFICES ASSUME left[m] # Nil PROVE left[m] \in T
          OBVIOUS
        <5>1. left[m] \in Tokens /\ left[m] < m /\ left[m] \in Nat
          BY <3>1, TreeFacts
        <5> QED
          BY <3>1, <4>1, <5>1
      <4>3. right[m] # Nil => right[m] \in T
        <5> SUFFICES ASSUME right[m] # Nil PROVE right[m] \in T
          OBVIOUS
        <5>1. right[m] \in Tokens /\ next[m] = right[m]
          BY <3>1, TreeFacts
        <5>2. m < t => right[m] <= t
          BY <3>1, <5>1, TreeFacts
        <5> QED
          BY <3>1, <4>1, <5>1, <5>2
      <4> QED
        BY <4>2, <4>3
    <3> QED
      BY <3>2, <3>3
  <2> HIDE DEF T
  <2>3. Under(t) \subseteq T
    BY <2>1, <2>2 DEF Under
  <2> QED
    BY <2>3 DEF T
<1>3. Under(root) = Tokens
  BY UnderRoot
<1>4. o <= root
  <2>1. CASE rank[root] = RankS
    <3>1. o <= root \/ o = right[root]
      BY <1>1, <1>2, <1>3, <2>1
    <3> QED
      BY <1>1, <3>1, TreeFacts
  <2>2. CASE rank[root] # RankS
    BY <1>1, <1>3, <2>2, UnderLeaf
  <2> QED
    BY <2>1, <2>2
\* All that is not behind it is under it: the operators behind it lead to it.
<1>5. ASSUME NEW x \in Tokens
      PROVE  x \in Under(o) \/ o < x
  <2> DEFINE T == Under(o) \cup {m \in Tokens : o < m}
  <2>1. o \in Under(o) /\ Under(o) \subseteq Tokens
        /\ \A m \in Under(o) : {left[m], right[m]} \subseteq Under(o) \cup {Nil}
    <3>1. o \in Under(o) /\ Under(o) \subseteq Tokens
      BY <1>1, <1>2, UnderThis, TreeFacts
    <3>2. ASSUME NEW m \in Under(o)
          PROVE  {left[m], right[m]} \subseteq Under(o) \cup {Nil}
      <4>1. m \in Node /\ left \in Pointers /\ right \in Pointers
        BY <1>1, <3>1, TreeFacts
      <4>2. {left[m], right[m]} \subseteq Node \cup {Nil}
        BY <4>1 DEF Pointers
      <4>3. Under(m) \subseteq Under(o)
        BY <1>1, <4>1, UnderThis
      <4>4. Under(m) = {m} \cup Under(left[m]) \cup Under(right[m])
        BY <4>1, UnderThis
      <4>5. \A n \in Node : n \in Under(n)
        BY <4>1, UnderThis
      <4> QED
        BY <4>2, <4>3, <4>4, <4>5
    <3> QED
      BY <3>1, <3>2
  <2>2. T \in SUBSET Node /\ root \in T
    <3>1. o = root \/ o < root
      BY <1>1, <1>4
    <3> QED
      BY <1>1, <2>1, <3>1
  <2>3. ASSUME NEW m \in Tokens, o < m
        PROVE  {left[m], right[m]} \subseteq T \cup {Nil}
    <3>1. m \in Nat
      BY TreeFacts
    <3>2. left[m] # Nil => left[m] \in T
      <4> SUFFICES ASSUME left[m] # Nil PROVE left[m] \in T
        OBVIOUS
      <4>1. left[m] \in Tokens /\ left[m] \in Nat /\ (o <= left[m] \/ m <= o)
        BY TreeFacts
      <4>2. left[m] = o \/ o < left[m]
        BY <1>1, <2>3, <3>1, <4>1
      <4> QED
        BY <2>1, <4>1, <4>2
    <3>3. right[m] # Nil => right[m] \in T
      <4> SUFFICES ASSUME right[m] # Nil PROVE right[m] \in T
        OBVIOUS
      <4>1. right[m] \in Tokens /\ m < right[m] /\ right[m] \in Nat
        BY TreeFacts
      <4> QED
        BY <1>1, <2>3, <3>1, <4>1
    <3> QED
      BY <3>2, <3>3
  <2>4. \A m \in T : {left[m], right[m]} \subseteq T \cup {Nil}
    BY <2>1, <2>3
  <2> HIDE DEF T
  <2>5. Under(root) \subseteq T
    BY <2>2, <2>4 DEF Under
  <2> QED
    BY <1>3, <2>5 DEF T
<1>6. right[o] # Nil => right[o] \in Under(o)
  <2> SUFFICES ASSUME right[o] # Nil PROVE right[o] \in Under(o)
    OBVIOUS
  <2>1. right[o] \in Node
    BY <1>1, TreeFacts
  <2>2. \A k \in Node : k \in Under(k)
    BY NoNode DEF Under
  <2>3. Under(o) = {o} \cup Under(left[o]) \cup Under(right[o])
    BY <1>1, UnderThis, TreeFacts
  <2> QED
    BY <2>1, <2>2, <2>3
<1>7. ASSUME NEW m \in S
      PROVE  m \in Under(o)
  <2>1. m \in Tokens /\ m \in Nat /\ m # Nil /\ (m <= o \/ m = right[o])
    BY TreeFacts
  <2>2. m <= o => ~(o < m)
    BY <1>1, <2>1
  <2> QED
    BY <1>5, <1>6, <2>1, <2>2
<1> QED
  BY <1>2, <1>4, <1>7

\* Every node but the root is an operand of an operator.
LEMMA HasParent ==
  ASSUME Base, First \in Node, Finished, NEW n \in Tokens, n # root
  PROVE  \E k \in Tokens : rank[k] = RankS /\ (left[k] = n \/ right[k] = n)
<1> DEFINE T == {m \in Tokens : m = root \/ \E k \in Tokens : left[k] = m \/ right[k] = m}
<1>1. /\ Tokens \subseteq Node /\ root \in Tokens /\ n # Nil
      /\ \A m \in Tokens : {left[m], right[m]} \subseteq Tokens \cup {Nil}
      /\ \A m \in Tokens : rank[m] # RankS => left[m] = Nil /\ right[m] = Nil
  BY TreeFacts
<1>2. T \in SUBSET Node /\ root \in T /\ \A m \in T : {left[m], right[m]} \subseteq T \cup {Nil}
  BY <1>1
<1>3. Under(root) \subseteq T
  <2> HIDE DEF T
  <2> QED
    BY <1>2 DEF Under
<1>4. n \in T
  BY <1>3, UnderRoot
<1> QED
  BY <1>1, <1>4

\* A tree whose root is no operator is that one node.
LEMMA LeafRoot ==
  ASSUME Base, First \in Node, Finished, rank[root] # RankS
  PROVE  Tokens = {root}
BY UnderRoot, UnderLeaf, TreeFacts

(***************************************************************************)
(* Pre-order, seen from the list: the operators from the last to the       *)
(* first, then the other tokens from the first to the last.                *)
(***************************************************************************)
Earlier(m, n) == IF rank[n] = RankS THEN rank[m] = RankS /\ n < m
                                    ELSE rank[m] = RankS \/ m < n

\* What stands before an operator's right operand is under its left one.
LEMMA LeftOf ==
  ASSUME Base, First \in Node, Finished, NEW k \in Tokens, rank[k] = RankS, right[k] # Nil,
         NEW m \in Tokens, m < right[k], m # k
  PROVE  m \in Under(left[k])
<1>1. k \in Node /\ k \in Nat /\ m \in Nat /\ right[k] \in Tokens /\ next[k] = right[k]
      /\ right[k] \in Nat /\ rank[right[k]] # RankS
  BY TreeFacts
<1>2. m <= k
  <2>1. k < m => next[k] <= m
    BY TreeFacts
  <2> QED
    BY <1>1, <2>1
<1>3. m \in Under(k)
  BY <1>2, UnderOperator
<1>4. Under(k) = {k} \cup Under(left[k]) \cup Under(right[k])
  BY <1>1, UnderThis, TreeFacts
<1>5. Under(right[k]) = {right[k]}
  BY <1>1, UnderLeaf
<1> QED
  BY <1>1, <1>3, <1>4, <1>5

\* An operand at the right hand follows all that is under the left one.
LEMMA LeftBefore ==
  ASSUME Base, First \in Node, Finished, NEW k \in Tokens,
         NEW m \in Under(left[k]), NEW n \in Under(right[k])
  PROVE  /\ m \in Tokens /\ n = right[k] /\ n \in Tokens /\ rank[n] # RankS /\ m < n
<1>1. k \in Nat /\ left[k] # Nil /\ right[k] # Nil
  BY TreeFacts DEF Under
<1>2. /\ right[k] \in Tokens /\ rank[right[k]] # RankS /\ next[k] = right[k] /\ k < right[k]
      /\ left[k] \in Tokens /\ left[k] < k /\ left[k] \in Nat /\ right[k] \in Nat
  BY <1>1, TreeFacts
<1>3. n = right[k]
  BY <1>2, UnderLeaf
<1>4. m \in Tokens /\ m <= k /\ m \in Nat
  <2>1. CASE rank[left[k]] # RankS
    BY <1>1, <1>2, <2>1, UnderLeaf
  <2>2. CASE rank[left[k]] = RankS
    <3>1. m \in Tokens /\ m \in Nat /\ (m <= left[k] \/ m = right[left[k]])
      BY <1>2, <2>2, UnderOperator, TreeFacts
    <3>2. m = right[left[k]] => m <= k
      <4> SUFFICES ASSUME m = right[left[k]] PROVE m <= k
        OBVIOUS
      <4>1. right[left[k]] # Nil
        BY <3>1, TreeFacts
      <4>2. next[left[k]] = m
        BY <1>2, <4>1, TreeFacts
      <4> QED
        BY <1>2, <4>2, TreeFacts
    <3> QED
      BY <1>1, <1>2, <3>1, <3>2
  <2> QED
    BY <2>1, <2>2
<1> QED
  BY <1>1, <1>2, <1>3, <1>4

LEMMA BeforeEarlier ==
  ASSUME Base, First \in Node, Finished, NEW m \in Tokens, NEW n \in Tokens, Before(m, n)
  PROVE  Earlier(m, n)
<1>1. m \in Nat /\ n \in Nat /\ used = Tokens
  BY TreeFacts
<1>2. CASE m # n /\ n \in Under(m)
  <2>1. rank[m] = RankS
    BY <1>2, UnderLeaf
  <2>2. n <= m \/ n = right[m]
    BY <1>2, <2>1, UnderOperator
  <2>3. n = right[m] => rank[n] # RankS
    BY <1>1, TreeFacts
  <2> QED
    BY <1>1, <1>2, <2>1, <2>2, <2>3 DEF Earlier
<1>3. CASE \E k \in used : m \in Under(left[k]) /\ n \in Under(right[k])
  BY <1>1, <1>3, LeftBefore DEF Earlier
<1> QED
  BY <1>2, <1>3 DEF Before

LEMMA EarlierBefore ==
  ASSUME Base, First \in Node, Finished, NEW m \in Tokens, NEW n \in Tokens, Earlier(m, n)
  PROVE  Before(m, n)
<1>1. m \in Nat /\ n \in Nat /\ used = Tokens
  BY TreeFacts
<1>2. CASE rank[n] = RankS
  <2>1. rank[m] = RankS /\ n < m
    BY <1>2 DEF Earlier
  <2>2. n \in Under(m)
    BY <1>1, <2>1, UnderOperator
  <2> QED
    BY <1>1, <2>1, <2>2 DEF Before
<1>3. CASE rank[n] # RankS /\ n \in Under(m) /\ rank[m] = RankS
  BY <1>3 DEF Before
<1>4. CASE rank[n] # RankS /\ ~(n \in Under(m) /\ rank[m] = RankS)
  <2>1. m < n
    <3>1. CASE rank[m] = RankS
      BY <1>1, <1>4, <3>1, UnderOperator
    <3> QED
      BY <1>4, <3>1 DEF Earlier
  <2>2. m # n
    BY <1>1, <2>1
  <2>3. n # root
    BY <1>4, <2>2, LeafRoot
  <2>4. PICK k \in Tokens : rank[k] = RankS /\ (left[k] = n \/ right[k] = n)
    BY <2>3, HasParent
  <2>5. left[k] # n
    <3>1. n # Nil /\ First <= m
      BY TreeFacts
    <3>2. left[k] = n => n = First
      BY <1>4, <3>1, TreeFacts
    <3> QED
      BY <1>1, <2>1, <3>1, <3>2
  <2>6. right[k] = n /\ n # Nil
    BY <2>4, <2>5, TreeFacts
  <2>7. m # k
    <3>1. n \in Under(k)
      BY <2>4, <2>6, UnderOperator
    <3> QED
      BY <1>4, <2>4, <3>1
  <2>8. m \in Under(left[k])
    BY <2>1, <2>4, <2>6, <2>7, LeftOf
  <2>9. n \in Under(right[k])
    BY <1>4, <2>6, UnderLeaf
  <2> QED
    BY <1>1, <2>8, <2>9 DEF Before
<1> QED
  BY <1>2, <1>3, <1>4 DEF Earlier

\* It is a strict order of the tokens.
LEMMA EarlierOrder ==
  ASSUME Base, First \in Node, Finished
  PROVE  /\ \A n \in Tokens : ~Earlier(n, n)
         /\ \A m, n \in Tokens : m # n => Earlier(m, n) \/ Earlier(n, m)
         /\ \A k, m, n \in Tokens : Earlier(k, m) /\ Earlier(m, n) => Earlier(k, n)
<1>1. \A n \in Tokens : n \in Nat
  BY TreeFacts
<1> QED
  BY <1>1 DEF Earlier

\* The nodes under k come one after the other, k first.
LEMMA UnderTogether ==
  ASSUME Base, First \in Node, Finished, NEW k \in Tokens
  PROVE  /\ \A n \in Under(k) : n \in Tokens /\ (n = k \/ Earlier(k, n))
         /\ \A m \in Tokens, n \in Under(k) : Earlier(m, n) => m \in Under(k) \/ Earlier(m, k)
<1>1. \A n \in Tokens : n \in Nat /\ n # Nil
  BY TreeFacts
<1>2. CASE rank[k] # RankS
  BY <1>2, UnderLeaf
<1>3. CASE rank[k] = RankS
  <2>1. Under(k) = {m \in Tokens : m <= k \/ m = right[k]}
    BY <1>3, UnderOperator
  <2>2. ASSUME NEW n \in Under(k)
        PROVE  n \in Tokens /\ (n = k \/ Earlier(k, n))
    <3>1. n \in Tokens /\ n \in Nat /\ k \in Nat /\ (n <= k \/ n = right[k])
      BY <1>1, <2>1
    <3>2. n = right[k] => rank[n] # RankS
      BY <1>1, <3>1, TreeFacts
    <3> QED
      BY <1>3, <3>1, <3>2 DEF Earlier
  <2>3. ASSUME NEW m \in Tokens, NEW n \in Under(k), Earlier(m, n), m \notin Under(k)
        PROVE  Earlier(m, k)
    <3>1. /\ n \in Tokens /\ n \in Nat /\ k \in Nat /\ m \in Nat
          /\ n <= k \/ n = right[k]
          /\ k < m /\ m # right[k]
      BY <1>1, <2>1, <2>3
    <3>2. n = right[k] => rank[n] # RankS /\ next[k] = n /\ n <= m
      BY <1>1, <3>1, TreeFacts
    <3>3. rank[m] = RankS
      BY <2>3, <3>1, <3>2 DEF Earlier
    <3> QED
      BY <1>3, <3>1, <3>3 DEF Earlier
  <2> QED
    BY <2>2, <2>3
<1> QED
  BY <1>2, <1>3

-----------------------------------------------------------------------------
(***************************************************************************)
(* The numbers of the nodes.                                               *)
(***************************************************************************)
Earliers(n) == {m \in Tokens : Earlier(m, n)}

\* There are no more tokens than in the line.
LEMMA TokensFew ==
  ASSUME Base, First \in Node
  PROVE  /\ IsFiniteSet(Tokens) /\ Cardinality(Tokens) \in Nat
         /\ 1..Cardinality(Tokens) \subseteq Node
<1>1. PICK b \in Nat : 1..b \subseteq Node /\ \A n \in Node : next[n] <= b
  BY DEF Base, Ordered
<1> DEFINE c == IF b < 1 THEN 1 ELSE b
<1>2. c \in Nat /\ c >= 1 /\ b <= c /\ 1..c \subseteq Node
  BY <1>1 DEF First
<1> HIDE DEF c
<1>3. ASSUME NEW n \in Tokens
      PROVE  n \in 1..c
  <2>1. n \in Nat /\ First <= n
    BY InOrder DEF Base
  <2>2. CASE n = First
    BY <1>2, <2>2 DEF First
  <2>3. CASE n # First
    <3>1. PICK m \in Tokens : next[m] = n
      BY <2>3, Live, ReachBefore DEF Base, Types
    <3>2. n <= b
      BY <1>1, <3>1, Live DEF Base
    <3> QED
      BY <1>2, <2>1, <3>2 DEF First
  <2> QED
    BY <2>2, <2>3
<1>4. IsFiniteSet(1..c) /\ Cardinality(1..c) = c
  BY <1>2, FS_Interval
<1>5. Tokens \in SUBSET (1..c)
  BY <1>3
<1>6. IsFiniteSet(Tokens) /\ Cardinality(Tokens) <= c
  BY <1>4, <1>5, FS_Subset
<1>7. Cardinality(Tokens) \in Nat
  BY <1>6, FS_CardinalityType
<1> QED
  BY <1>2, <1>6, <1>7

\* The number of a node counts the nodes earlier than it.
LEMMA PlaceCounts ==
  ASSUME Base, First \in Node, Finished, NEW n \in Tokens
  PROVE  /\ IsFiniteSet(Earliers(n)) /\ Cardinality(Earliers(n)) \in Nat
         /\ Place(n) = Cardinality(Earliers(n)) + 1
<1>1. n # Nil /\ Under(root) = Tokens
  BY UnderRoot, TreeFacts
<1>2. {m \in Under(root) : Before(m, n)} = Earliers(n)
  BY <1>1, BeforeEarlier, EarlierBefore DEF Earliers
<1>3. IsFiniteSet(Tokens) /\ Earliers(n) \in SUBSET Tokens
  BY TokensFew DEF Earliers
<1>4. IsFiniteSet(Earliers(n))
  BY <1>3, FS_Subset
<1>5. Cardinality(Earliers(n)) \in Nat
  BY <1>4, FS_CardinalityType
<1> QED
  BY <1>1, <1>2, <1>4, <1>5 DEF Place

LEMMA PlaceRises ==
  ASSUME Base, First \in Node, Finished, NEW m \in Tokens, NEW n \in Tokens, Earlier(m, n)
  PROVE  Place(m) < Place(n)
<1> DEFINE S == Earliers(m) \cup {m}
<1>1. m \notin Earliers(m) /\ S \in SUBSET Earliers(n)
  BY EarlierOrder DEF Earliers
<1>2. Cardinality(S) = Cardinality(Earliers(m)) + 1
  BY <1>1, PlaceCounts, FS_AddElement
<1> HIDE DEF S
<1>3. Cardinality(S) <= Cardinality(Earliers(n))
  BY <1>1, PlaceCounts, FS_Subset
<1> QED
  BY <1>2, <1>3, PlaceCounts

LEMMA PlaceRange ==
  ASSUME Base, First \in Node, Finished, NEW n \in Tokens
  PROVE  Place(n) \in 1..Size(root)
<1> DEFINE S == Tokens \ {n}
<1>1. IsFiniteSet(Tokens) /\ Cardinality(Tokens) \in Nat /\ Size(root) = Cardinality(Tokens)
  BY TokensFew, UnderRoot DEF Size
<1>2. Earliers(n) \in SUBSET S
  BY EarlierOrder DEF Earliers
<1>3. IsFiniteSet(S) /\ Cardinality(S) = Cardinality(Tokens) - 1
  BY <1>1, FS_RemoveElement
<1> HIDE DEF S
<1>4. Cardinality(Earliers(n)) <= Cardinality(S)
  BY <1>2, <1>3, FS_Subset
<1> QED
  BY <1>1, <1>3, <1>4, PlaceCounts

\* Each node has a number of its own, and each number a node.
LEMMA PlaceOnce ==
  ASSUME Base, First \in Node, Finished
  PROVE  /\ \A m, n \in Tokens : Place(m) = Place(n) => m = n
         /\ \A i \in 1..Size(root) : \E n \in Tokens : Place(n) = i
<1>1. ASSUME NEW m \in Tokens, NEW n \in Tokens, Place(m) = Place(n)
      PROVE  m = n
  <2>1. ~(Place(m) < Place(n)) /\ ~(Place(n) < Place(m))
    BY <1>1, PlaceRange
  <2> QED
    BY <2>1, EarlierOrder, PlaceRises
<1>2. IsFiniteSet(Tokens) /\ Cardinality(Tokens) \in Nat /\ Size(root) = Cardinality(Tokens)
  BY TokensFew, UnderRoot DEF Size
<1> DEFINE T == 1..Size(root)
           f == [n \in Tokens |-> Place(n)]
<1>3. f \in Injection(Tokens, T)
  <2>1. f \in [Tokens -> T]
    BY PlaceRange
  <2>2. \A m, n \in Tokens : f[m] = f[n] => m = n
    BY <1>1
  <2> HIDE DEF f, T
  <2> QED
    BY <2>1, <2>2 DEF Injection, IsInjective
<1>4. IsFiniteSet(T) /\ Cardinality(T) = Cardinality(Tokens)
  BY <1>2, FS_Interval
<1>5. f \in Surjection(Tokens, T)
  <2> HIDE DEF f, T
  <2> QED
    BY <1>3, <1>4, FS_Injection
<1>6. \A i \in T : \E n \in Tokens : f[n] = i
  <2> HIDE DEF f, T
  <2> QED
    BY <1>5 DEF Surjection
<1> QED
  BY <1>1, <1>6

LEMMA PlacedIs ==
  ASSUME Base, First \in Node, Finished
  PROVE  /\ \A i \in 1..Size(root) : Placed(i) \in Tokens /\ Place(Placed(i)) = i
         /\ \A n \in Tokens : Placed(Place(n)) = n
<1>1. ASSUME NEW i \in 1..Size(root)
      PROVE  Placed(i) \in Tokens /\ Place(Placed(i)) = i
  BY <1>1, PlaceOnce, UnderRoot DEF Placed
<1> QED
  BY <1>1, PlaceOnce, PlaceRange

\* The nodes under k have the numbers from k's on.
LEMMA UnderPlaces ==
  ASSUME Base, First \in Node, Finished, NEW k \in Tokens
  PROVE  /\ Size(k) \in Nat /\ Size(k) >= 1 /\ Place(k) + Size(k) - 1 <= Size(root)
         /\ \A n \in Tokens :
              n \in Under(k) <=> Place(k) <= Place(n) /\ Place(n) <= Place(k) + Size(k) - 1
<1> DEFINE P == Earliers(k)
           U == Under(k)
<1>1. k \in Node /\ k \in U /\ U \in SUBSET Tokens /\ P \in SUBSET Tokens
  BY UnderThis, UnderTogether, TreeFacts DEF Earliers
<1>2. IsFiniteSet(Tokens) /\ Cardinality(Tokens) \in Nat /\ Size(root) = Cardinality(Tokens)
  BY TokensFew, UnderRoot DEF Size
<1>3. /\ IsFiniteSet(U) /\ Cardinality(U) \in Nat /\ Size(k) = Cardinality(U)
      /\ IsFiniteSet(P) /\ Cardinality(P) \in Nat /\ Place(k) = Cardinality(P) + 1
  <2>1. IsFiniteSet(U)
    BY <1>1, <1>2, FS_Subset
  <2> QED
    BY <2>1, PlaceCounts, FS_CardinalityType DEF Size
<1>4. P \cap U = {}
  BY UnderTogether, EarlierOrder, <1>1 DEF Earliers
<1>5. IsFiniteSet(P \cup U) /\ Cardinality(P \cup U) = Cardinality(P) + Cardinality(U)
  <2> HIDE DEF P, U
  <2>1. Cardinality(P \cap U) = 0
    BY <1>4, FS_EmptySet
  <2> QED
    BY <1>3, <2>1, FS_Union
<1>6. Cardinality(U) >= 1
  <2> HIDE DEF U
  <2>1. Cardinality(U) # 0
    BY <1>1, <1>3, FS_EmptySet
  <2> QED
    BY <1>3, <2>1
<1>7. Cardinality(P \cup U) <= Cardinality(Tokens)
  <2>1. P \cup U \in SUBSET Tokens
    BY <1>1
  <2> HIDE DEF P, U
  <2> QED
    BY <1>2, <2>1, FS_Subset
<1>8. ASSUME NEW n \in U
      PROVE  Place(k) <= Place(n) /\ Place(n) <= Place(k) + Size(k) - 1
  <2>1. n \in Tokens /\ (n = k \/ Earlier(k, n))
    BY UnderTogether
  <2>2. Place(n) \in Nat /\ Place(k) \in Nat
    BY <2>1, PlaceRange
  <2>3. Place(k) <= Place(n)
    BY <2>1, <2>2, PlaceRises
  <2> DEFINE S == (P \cup U) \ {n}
  <2>4. Earliers(n) \in SUBSET S
    BY <2>1, UnderTogether, EarlierOrder DEF Earliers
  <2>5. IsFiniteSet(S) /\ Cardinality(S) = Cardinality(P \cup U) - 1
    <3>1. n \in P \cup U
      OBVIOUS
    <3> HIDE DEF P, U
    <3> QED
      BY <1>5, <3>1, FS_RemoveElement
  <2> HIDE DEF S, P, U
  <2>6. Cardinality(Earliers(n)) <= Cardinality(S)
    BY <2>4, <2>5, FS_Subset
  <2>7. Place(n) = Cardinality(Earliers(n)) + 1 /\ Cardinality(Earliers(n)) \in Nat
    BY <2>1, PlaceCounts
  <2> QED
    BY <1>3, <1>5, <2>3, <2>5, <2>6, <2>7
<1>9. ASSUME NEW n \in Tokens, n \notin U
      PROVE  ~(Place(k) <= Place(n) /\ Place(n) <= Place(k) + Size(k) - 1)
  <2>1. Place(n) \in Nat /\ Place(k) \in Nat /\ n # k
    BY <1>1, <1>9, PlaceRange
  <2>2. CASE Earlier(n, k)
    <3>1. Place(n) < Place(k)
      BY <2>2, PlaceRises
    <3> QED
      BY <2>1, <3>1
  <2>3. CASE Earlier(k, n)
    <3>1. P \cup U \in SUBSET Earliers(n)
      <4>1. \A m \in P : Earlier(m, n)
        BY <2>3, EarlierOrder DEF Earliers
      <4>2. ASSUME NEW m \in U
            PROVE  Earlier(m, n)
        <5>1. m \in Tokens /\ m # n
          BY <1>1, <1>9
        <5>2. ~Earlier(n, m)
          <6>1. Earlier(n, m) => n \in U \/ Earlier(n, k)
            BY UnderTogether
          <6>2. ~Earlier(n, k)
            BY <2>3, EarlierOrder
          <6> QED
            BY <1>9, <6>1, <6>2
        <5> QED
          BY <5>1, <5>2, EarlierOrder
      <4> QED
        BY <1>1, <4>1, <4>2 DEF Earliers
    <3>2. Place(n) = Cardinality(Earliers(n)) + 1 /\ Cardinality(Earliers(n)) \in Nat
          /\ IsFiniteSet(Earliers(n))
      BY PlaceCounts
    <3> HIDE DEF P, U
    <3>3. Cardinality(P \cup U) <= Cardinality(Earliers(n))
      BY <3>1, <3>2, FS_Subset
    <3> QED
      BY <1>3, <1>5, <3>2, <3>3
  <2> QED
    BY <2>1, <2>2, <2>3, EarlierOrder
<1> QED
  BY <1>2, <1>3, <1>5, <1>6, <1>7, <1>8, <1>9

-----------------------------------------------------------------------------
(***************************************************************************)
(* The numbered tree is one of those execute_ast is verified for.          *)
(***************************************************************************)
\* What the fields of the numbered tree say of its nodes.
LEMMA BuiltFields ==
  ASSUME Base, First \in Node, Finished
  PROVE  /\ 1..Size(root) \subseteq Node /\ Size(root) \in Nat
         /\ Built.root = Place(root)
         /\ \A n \in Node : n \notin 1..Size(root) =>
              Built.left[n] = Nil /\ Built.right[n] = Nil /\ Built.last[n] = n
         /\ \A k \in Tokens :
              /\ Place(k) \in 1..Size(root)
              /\ Built.left[Place(k)] = Place(left[k]) /\ Built.right[Place(k)] = Place(right[k])
              /\ Built.last[Place(k)] = Place(k) + Size(k) - 1
<1>1. 1..Size(root) \subseteq Node /\ Size(root) \in Nat
  BY TokensFew, UnderRoot DEF Size
<1>2. \A n \in Node : n \in Nat /\ n >= 1
  BY NodeAssumption
<1>3. ASSUME NEW n \in Node, n \notin 1..Size(root)
      PROVE  Built.left[n] = Nil /\ Built.right[n] = Nil /\ Built.last[n] = n
  <2>1. ~(n <= Size(root))
    BY <1>1, <1>2, <1>3
  <2> QED
    BY <2>1 DEF Built
<1>4. ASSUME NEW k \in Tokens
      PROVE  /\ Place(k) \in 1..Size(root)
             /\ Built.left[Place(k)] = Place(left[k]) /\ Built.right[Place(k)] = Place(right[k])
             /\ Built.last[Place(k)] = Place(k) + Size(k) - 1
  <2>1. Place(k) \in 1..Size(root) /\ Placed(Place(k)) = k
    BY PlaceRange, PlacedIs
  <2>2. Place(k) \in Node /\ Place(k) <= Size(root)
    BY <1>1, <2>1
  <2> DEFINE i == Place(k)
  <2>3. i \in Node /\ i <= Size(root) /\ Placed(i) = k
    BY <2>1, <2>2
  <2> HIDE DEF i
  <2>4. Built.left[i] = Place(left[k]) /\ Built.right[i] = Place(right[k])
        /\ Built.last[i] = i + Size(k) - 1
    BY <2>3 DEF Built
  <2> QED
    BY <2>1, <2>4 DEF i
<1> QED
  BY <1>1, <1>3, <1>4 DEF Built

\* Its fields have their types.
LEMMA BuiltTyped ==
  ASSUME Base, First \in Node, Finished
  PROVE  Built \in Tree
<1>1. 1..Size(root) \subseteq Node /\ Size(root) \in Nat
  BY BuiltFields
<1>2. \A n \in Node : n \in Nat /\ n >= 1
  BY NodeAssumption
<1>3. \A n \in Node : n <= Size(root) => n \in 1..Size(root)
  BY <1>1, <1>2
<1>4. ASSUME NEW n \in Node, n <= Size(root)
      PROVE  /\ type[Placed(n)] \in Kind
             /\ Place(left[Placed(n)]) \in Node \cup {Nil}
             /\ Place(right[Placed(n)]) \in Node \cup {Nil}
             /\ n + Size(Placed(n)) - 1 \in Node
  <2>1. PICK k \in Tokens : Placed(n) = k /\ Place(k) = n
    BY <1>3, <1>4, PlacedIs
  <2>2. k \in Node /\ type[k] \in Kind
    BY <2>1, TreeFacts DEF Base, Types
  <2>3. \A m \in Tokens \cup {Nil} : Place(m) \in Node \cup {Nil}
    BY <1>1, PlaceRange DEF Place
  <2>4. left[k] \in Tokens \cup {Nil} /\ right[k] \in Tokens \cup {Nil}
    BY TreeFacts
  <2>5. n + Size(k) - 1 \in 1..Size(root)
    BY <1>1, <1>2, <2>1, UnderPlaces
  <2> QED
    BY <1>1, <2>1, <2>2, <2>3, <2>4, <2>5
<1>5. Place(root) \in Node
  BY <1>1, PlaceRange, TreeFacts
<1> DEFINE K == [n \in Node |-> IF n <= Size(root) THEN type[Placed(n)] ELSE "word"]
           L == [n \in Node |-> IF n <= Size(root) THEN Place(left[Placed(n)]) ELSE Nil]
           R == [n \in Node |-> IF n <= Size(root) THEN Place(right[Placed(n)]) ELSE Nil]
           E == [n \in Node |-> IF n <= Size(root) THEN n + Size(Placed(n)) - 1 ELSE n]
           F == [n \in Node |-> n <= Size(root) /\ file[Placed(n)] # Nil]
           G == [n \in Node |-> "true"]
<1>6. Built = [root |-> Place(root), kind |-> K, left |-> L, right |-> R, last |-> E, file |-> F, prog |-> G]
  BY DEF Built
<1>7. K \in [Node -> Kind] /\ G \in [Node -> Prog]
  BY <1>4 DEF Kind, Prog
<1>8. L \in [Node -> Node \cup {Nil}] /\ R \in [Node -> Node \cup {Nil}]
  BY <1>4
<1>9. E \in [Node -> Node]
  BY <1>4
<1>10. F \in [Node -> BOOLEAN]
  OBVIOUS
<1> HIDE DEF K, L, R, E, F, G
<1> QED
  BY <1>5, <1>6, <1>7, <1>8, <1>9, <1>10 DEF Tree

\* Its nodes nest.
LEMMA BuiltNests ==
  ASSUME Base, First \in Node, Finished
  PROVE  PreOrder(Built)
<1> DEFINE t == Built
           N == Size(root)
<1>1. /\ 1..N \subseteq Node /\ N \in Nat /\ t.root = Place(root)
      /\ \A n \in Node : n \notin 1..N => t.left[n] = Nil /\ t.right[n] = Nil /\ t.last[n] = n
      /\ \A k \in Tokens :
           /\ Place(k) \in 1..N
           /\ t.left[Place(k)] = Place(left[k]) /\ t.right[Place(k)] = Place(right[k])
           /\ t.last[Place(k)] = Place(k) + Size(k) - 1
  BY BuiltFields
<1>2. \A n \in Node : n \in Nat /\ n >= 1
  BY NodeAssumption
<1>3. \A i \in 1..N : \E k \in Tokens : Place(k) = i
  BY PlaceOnce
<1>4. \A k \in Tokens : left[k] \in Tokens \cup {Nil} /\ right[k] \in Tokens \cup {Nil} /\ k # Nil /\ k \in Node
  BY TreeFacts
<1>5. Place(Nil) = Nil
  BY DEF Place
<1>6. \A k \in Tokens : /\ Size(k) \in Nat /\ Size(k) >= 1 /\ Place(k) + Size(k) - 1 <= N
                        /\ k \in Under(k)
  BY <1>4, UnderPlaces, UnderThis, TreeFacts
<1> HIDE DEF t, N
\* A number in the tree is that of a node, and the last one under it is, too.
<1>7. ASSUME NEW k \in Tokens, NEW n \in Node
      PROVE  Place(k) <= n /\ n <= t.last[Place(k)] <=>
               n \in 1..N /\ \E m \in Under(k) : m \in Tokens /\ n = Place(m)
  <2>1. Place(k) \in 1..N /\ t.last[Place(k)] = Place(k) + Size(k) - 1 /\ Size(k) \in Nat
        /\ Place(k) + Size(k) - 1 <= N /\ n \in Nat
    BY <1>1, <1>2, <1>6
  <2>2. ASSUME Place(k) <= n, n <= t.last[Place(k)]
        PROVE  n \in 1..N /\ \E m \in Under(k) : m \in Tokens /\ n = Place(m)
    <3>1. n \in 1..N
      BY <1>1, <2>1, <2>2
    <3>2. PICK m \in Tokens : Place(m) = n
      BY <1>3, <3>1
    <3> QED
      BY <2>1, <2>2, <3>1, <3>2, UnderPlaces
  <2>3. ASSUME NEW m \in Tokens, m \in Under(k), n = Place(m)
        PROVE  Place(k) <= n /\ n <= t.last[Place(k)]
    BY <2>1, <2>3, UnderPlaces
  <2> QED
    BY <2>2, <2>3
\* Subtrees end within each other.
<1>8. ASSUME NEW k \in Tokens, NEW m \in Tokens, m \in Under(k)
      PROVE  t.last[Place(m)] <= t.last[Place(k)]
  <2>1. t.last[Place(m)] \in Node /\ Place(m) <= t.last[Place(m)] /\ t.last[Place(m)] <= t.last[Place(m)]
    <3>1. Place(m) \in 1..N /\ t.last[Place(m)] = Place(m) + Size(m) - 1 /\ Size(m) \in Nat /\ Size(m) >= 1
          /\ Place(m) + Size(m) - 1 <= N
      BY <1>1, <1>6
    <3> QED
      BY <1>1, <3>1
  <2>2. PICK z \in Under(m) : z \in Tokens /\ t.last[Place(m)] = Place(z)
    BY <1>7, <2>1
  <2>3. z \in Under(k)
    BY <1>4, <1>8, <2>2, UnderThis, TreeFacts
  <2> QED
    BY <1>7, <2>1, <2>2, <2>3
<1>9. ASSUME NEW k \in Tokens, NEW m \in Tokens, m \in Under(k), m # k
      PROVE  Place(k) < Place(m)
  BY <1>9, UnderTogether, PlaceRises
\* The operands of a node are under it.
<1>10. ASSUME NEW k \in Tokens
       PROVE  /\ left[k] # Nil => left[k] \in Under(k) /\ left[k] \in Tokens /\ left[k] # k
              /\ right[k] # Nil => right[k] \in Under(k) /\ right[k] \in Tokens /\ right[k] # k
              /\ Under(k) = {k} \cup Under(left[k]) \cup Under(right[k]) /\ Under(Nil) = {}
  <2>1. Under(k) = {k} \cup Under(left[k]) \cup Under(right[k]) /\ Under(Nil) = {}
    BY <1>4, UnderThis, TreeFacts
  <2>2. \A m \in Tokens : m \in Nat
    BY TreeFacts
  <2>3. left[k] # Nil => left[k] < k
    BY TreeFacts
  <2>4. right[k] # Nil => k < right[k]
    BY TreeFacts
  <2> QED
    BY <1>4, <1>6, <2>1, <2>2, <2>3, <2>4
<1>11. \A n \in Node : n <= t.last[n]
  <2> TAKE n \in Node
  <2>1. CASE n \in 1..N
    <3>1. PICK k \in Tokens : Place(k) = n
      BY <1>3, <2>1
    <3> QED
      BY <1>1, <1>2, <1>6, <3>1
  <2> QED
    BY <1>1, <1>2, <2>1
<1>12. ASSUME NEW n \in Node, t.left[n] # Nil
       PROVE  n < t.left[n] /\ t.last[t.left[n]] <= t.last[n]
  <2>1. PICK k \in Tokens : Place(k) = n
    BY <1>1, <1>3, <1>12
  <2>2. left[k] # Nil /\ t.left[n] = Place(left[k])
    BY <1>1, <1>5, <1>12, <2>1
  <2> QED
    BY <1>8, <1>9, <1>10, <2>1, <2>2
<1>13. ASSUME NEW n \in Node, t.right[n] # Nil
       PROVE  n < t.right[n] /\ t.last[t.right[n]] <= t.last[n]
  <2>1. PICK k \in Tokens : Place(k) = n
    BY <1>1, <1>3, <1>13
  <2>2. right[k] # Nil /\ t.right[n] = Place(right[k])
    BY <1>1, <1>5, <1>13, <2>1
  <2> QED
    BY <1>8, <1>9, <1>10, <2>1, <2>2
<1>14. ASSUME NEW n \in Node, t.left[n] # Nil, t.right[n] # Nil
       PROVE  t.last[t.left[n]] < t.right[n]
  <2>1. PICK k \in Tokens : Place(k) = n
    BY <1>1, <1>3, <1>14
  <2>2. /\ left[k] # Nil /\ t.left[n] = Place(left[k]) /\ left[k] \in Tokens
        /\ right[k] # Nil /\ t.right[n] = Place(right[k]) /\ right[k] \in Tokens
    BY <1>1, <1>5, <1>10, <1>14, <2>1
  <2>3. t.last[t.left[n]] \in Node /\ t.left[n] <= t.last[t.left[n]]
        /\ t.last[t.left[n]] <= t.last[t.left[n]]
    <3>1. Place(left[k]) \in 1..N /\ t.last[Place(left[k])] = Place(left[k]) + Size(left[k]) - 1
          /\ Size(left[k]) \in Nat /\ Size(left[k]) >= 1 /\ Place(left[k]) + Size(left[k]) - 1 <= N
      BY <1>1, <1>6, <2>2
    <3> QED
      BY <1>1, <2>2, <3>1
  <2>4. PICK z \in Under(left[k]) : z \in Tokens /\ t.last[t.left[n]] = Place(z)
    BY <1>7, <2>2, <2>3
  <2>5. right[k] \in Under(right[k])
    BY <1>6, <2>2
  <2>6. Before(z, right[k])
    BY <2>4, <2>5, TreeFacts DEF Before
  <2>7. Place(z) < Place(right[k])
    BY <2>2, <2>4, <2>6, BeforeEarlier, PlaceRises
  <2> QED
    BY <2>2, <2>4, <2>7
<1>15. ASSUME NEW m \in Node, NEW n \in Node, m <= n, n <= t.last[m]
       PROVE  t.last[n] <= t.last[m]
  <2>1. CASE m \notin 1..N
    <3>1. t.last[m] = m /\ n = m
      BY <1>1, <1>2, <1>15, <2>1
    <3> QED
      BY <1>2, <3>1
  <2>2. CASE m \in 1..N
    <3>1. PICK k \in Tokens : Place(k) = m
      BY <1>3, <2>2
    <3>2. PICK z \in Under(k) : z \in Tokens /\ n = Place(z)
      BY <1>7, <1>15, <3>1
    <3> QED
      BY <1>8, <3>1, <3>2
  <2> QED
    BY <2>1, <2>2
<1>16. ASSUME NEW m \in Node, NEW n \in Node, m < n, n <= t.last[m]
       PROVE  \/ t.left[m] # Nil /\ t.left[m] <= n /\ n <= t.last[t.left[m]]
              \/ t.right[m] # Nil /\ t.right[m] <= n /\ n <= t.last[t.right[m]]
  <2>1. m \in 1..N
    <3>1. m \notin 1..N => t.last[m] = m
      BY <1>1
    <3> QED
      BY <1>2, <1>16, <3>1
  <2>2. PICK k \in Tokens : Place(k) = m
    BY <1>3, <2>1
  <2>3. m <= n
    BY <1>2, <1>16
  <2>4. PICK z \in Under(k) : z \in Tokens /\ n = Place(z)
    BY <1>7, <1>16, <2>2, <2>3
  <2>5. z # k /\ n \in 1..N
    BY <1>1, <1>2, <1>16, <2>2, <2>4
  <2>6. t.left[m] = Place(left[k]) /\ t.right[m] = Place(right[k])
    BY <1>1, <2>2
  <2>7. z \in Under(left[k]) \/ z \in Under(right[k])
    BY <1>10, <2>4, <2>5
  <2>8. CASE z \in Under(left[k])
    <3>1. left[k] # Nil /\ left[k] \in Tokens
      BY <1>10, <2>8
    <3>2. Place(left[k]) \in 1..N
      BY <1>1, <3>1
    <3>3. Place(left[k]) <= n /\ n <= t.last[Place(left[k])]
      BY <1>7, <2>4, <2>5, <2>8, <3>1
    <3> QED
      BY <2>6, <3>2, <3>3 DEF Nil
  <2>9. CASE z \in Under(right[k])
    <3>1. right[k] # Nil /\ right[k] \in Tokens
      BY <1>10, <2>9
    <3>2. Place(right[k]) \in 1..N
      BY <1>1, <3>1
    <3>3. Place(right[k]) <= n /\ n <= t.last[Place(right[k])]
      BY <1>7, <2>4, <2>5, <2>9, <3>1
    <3> QED
      BY <2>6, <3>2, <3>3 DEF Nil
  <2> QED
    BY <2>7, <2>8, <2>9
<1>17. ASSUME NEW n \in Node, t.left[n] # Nil \/ t.right[n] # Nil
       PROVE  t.root <= n /\ n <= t.last[t.root]
  <2>1. n \in 1..N
    BY <1>1, <1>17
  <2>2. PICK k \in Tokens : Place(k) = n
    BY <1>3, <2>1
  <2>3. root \in Tokens /\ k \in Under(root)
    BY TreeFacts, UnderRoot
  <2> QED
    BY <1>1, <1>7, <2>1, <2>2, <2>3
<1> QED
  BY <1>11, <1>12, <1>13, <1>14, <1>15, <1>16, <1>17 DEF PreOrder, t

-----------------------------------------------------------------------------
(***************************************************************************)
(* The theorems.                                                           *)
(***************************************************************************)
\* IInv is an inductive invariant of the parser.
THEOREM ParserInductive == Spec => []IInv
<1>1. Init => IInv
  <2> SUFFICES ASSUME Init PROVE IInv
    OBVIOUS
  <2>1. Base
    BY BaseInit
  <2>2. pc = "readline"
    BY DEF Init
  <2> QED
    BY <2>1, <2>2 DEF IInv, Base, Taking, Following, Apart, OneTokenLives, TreeNeverCrashes,
                      TreeIsTheList, RightIsLeaf
<1>2. IInv /\ [Next]_vars => IInv'
  <2> SUFFICES ASSUME IInv, [Next]_vars PROVE IInv'
    OBVIOUS
  <2>1. Base /\ Lists /\ Crashing /\ Trees
    BY DEF IInv, Base, Lists, Crashing, Trees, Shaped
  <2>2. Base' /\ Lists' /\ Crashing' /\ Trees'
    BY <2>1, BaseStep, ListsStep, CrashingStep, TreesStep
  <2> QED
    BY <2>2 DEF IInv, Base, Lists, Crashing, Trees, Shaped
<1> QED
  BY <1>1, <1>2, PTL DEF Spec

\* With one id for every token, as get_token_id gives, a line of two tokens or
\* more ends the shell in find_left_token, and only such a line does.
THEOREM SecondTokenKills == Spec => []OneTokenLives
BY ParserInductive, PTL DEF IInv

\* With distinct ids the building of the tree follows no null pointer.
THEOREM TreeIsSafe == Spec => []TreeNeverCrashes
BY ParserInductive, PTL DEF IInv

\* The tree given to execute_ast has all the tokens of the list, in its order.
THEOREM TreeKeepsTheList == Spec => []TreeIsTheList
BY ParserInductive, PTL DEF IInv

\* Its right operands are leaves, so chains of operators grow to the left only.
THEOREM RightOperandsAreLeaves == Spec => []RightIsLeaf
BY ParserInductive, PTL DEF IInv

\* Every tree the parser gives to execute_ast, numbered in pre-order, is one
\* of the trees module Exec assumes: no token is in two places of it, its
\* fields have their types, and its nodes nest.
THEOREM TreeForExec == Spec => []BuiltTree
<1>1. IInv => BuiltTree
  <2> SUFFICES ASSUME IInv, pc = "execute"
               PROVE  /\ {Place(k) : k \in Under(root)} = 1..Size(root)
                      /\ Built \in Tree /\ PreOrder(Built)
    BY DEF BuiltTree
  <2>1. Base /\ Finished /\ First \in Node
    BY DEF IInv, Base, Named
  <2>2. {Place(k) : k \in Under(root)} = 1..Size(root)
    BY <2>1, UnderRoot, PlaceRange, PlaceOnce
  <2> QED
    BY <2>1, <2>2, BuiltTyped, BuiltNests
<1> QED
  BY <1>1, ParserInductive, PTL

\* Every field of a token and every node of the tree has its type.
THEOREM ParserTypes == Spec => []Types
BY ParserInductive, PTL DEF IInv

=============================================================================

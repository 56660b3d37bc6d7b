----------------------------- MODULE ExecProofs -----------------------------
(***************************************************************************)
(* Proofs about the executor.  First what a step does to each process by   *)
(* itself: it keeps the types of the variables (TypeStep), what each       *)
(* process relies on and the separation of the pipes' ends (LocalOf of     *)
(* ExecInv).  Then which processes exist at the same time (Forest), who    *)
(* holds the ends of a pipe (Order), and how the status of the last        *)
(* command comes back (Carried); each part ends with its theorems.         *)
(***************************************************************************)
EXTENDS ExecInv, SequenceTheorems, TLAPS

-----------------------------------------------------------------------------
(***************************************************************************)
(* Types: one lemma for each group of actions, provided what the acting    *)
(* process relies on exists (Local of ExecInv).                            *)
(***************************************************************************)
\* The descriptor tables the executor builds are descriptor tables.
LEMMA SlotFacts == /\ ShellFds \in [Slot -> Desc]
                   /\ NoFds \in [Slot -> Desc]
                   /\ \A f \in [Slot -> Desc] : /\ Saved(f) \in [Slot -> Desc]
                                                /\ Closed(f) \in [Slot -> Desc]
                                                /\ \A lost : Restored(f, lost) \in [Slot -> Desc]
  BY DEF ShellFds, NoFds, Slot, Desc, Tty, Shut, Saved, Restored, Closed

\* redir_nodes[] is empty before a chain, and has room for its first nodes.
LEMMA RedirFacts ==
  /\ <<>> \in RedirNodes /\ RedirNodes \subseteq Seq(Node)
  /\ \A r \in RedirNodes : r # <<>> => SubSeq(r, 1, Len(r) - 1) \in RedirNodes
  /\ \A r \in RedirNodes, n \in Node :
       Len(r) < MaxRedirections => Append(r, n) \in RedirNodes
<1>1. MaxRedirections \in Nat
  BY BoundsAssumption
<1>2. <<>> \in RedirNodes /\ RedirNodes \subseteq Seq(Node)
  BY <1>1 DEF RedirNodes
<1>3. ASSUME NEW r \in RedirNodes, r # <<>>
      PROVE  SubSeq(r, 1, Len(r) - 1) \in RedirNodes
  <2>1. r \in Seq(Node) /\ Len(r) \in Nat /\ Len(r) # 0 /\ Len(r) <= MaxRedirections
    BY <1>3 DEF RedirNodes
  <2>2. /\ SubSeq(r, 1, Len(r) - 1) \in Seq(Node)
        /\ Len(SubSeq(r, 1, Len(r) - 1)) = Len(r) - 1
    <3>1. Len(r) - 1 \in Int /\ 1 \in Int /\ \A i \in 1..(Len(r) - 1) : r[i] \in Node
      BY <2>1
    <3>2. Len(SubSeq(r, 1, Len(r) - 1)) = IF 1 <= Len(r) - 1 THEN Len(r) - 1 - 1 + 1 ELSE 0
      BY <3>1, SubSeqProperties
    <3>3. SubSeq(r, 1, Len(r) - 1) \in Seq(Node)
      BY <2>1
    <3> DEFINE k == Len(r) m == Len(SubSeq(r, 1, Len(r) - 1))
    <3>4. m = IF 1 <= k - 1 THEN k - 1 - 1 + 1 ELSE 0
      BY <3>2
    <3>5. k \in Nat /\ k # 0
      BY <2>1
    <3> HIDE DEF k, m
    <3>6. m = k - 1
      BY <3>4, <3>5
    <3>7. QED
      BY <3>3, <3>6 DEF k, m
  <2>3. Len(SubSeq(r, 1, Len(r) - 1)) <= MaxRedirections
    <3> DEFINE k == Len(r) m == Len(SubSeq(r, 1, Len(r) - 1))
    <3>1. k \in Nat /\ m = k - 1 /\ k <= MaxRedirections
      BY <2>1, <2>2
    <3> HIDE DEF k, m
    <3>2. QED
      BY <1>1, <3>1 DEF m
  <2>4. QED
    BY <2>2, <2>3, Zenon DEF RedirNodes
<1>4. ASSUME NEW r \in RedirNodes, NEW n \in Node, Len(r) < MaxRedirections
      PROVE  Append(r, n) \in RedirNodes
  BY <1>1, <1>4 DEF RedirNodes
<1>5. QED
  BY <1>2, <1>3, <1>4

\* Moving a pipe end to a standard descriptor keeps the table a table.
LEMMA PipedType == ASSUME NEW f \in [Slot -> Desc], NEW s \in Slot, NEW e \in Slot
                   PROVE  Piped(s, e, f) \in [Slot -> Desc]
  BY SlotFacts DEF Piped, Slot

\* Returning from execute_ast keeps the types, for a status in range.
LEMMA LeaveType ==
  ASSUME TypeOK, NEW p \in Interp, NEW pcs \in [Proc -> PC],
         NEW f \in [Slot -> Desc], NEW s \in -1..255, Leave(p, pcs, f, s),
         buf' \in [Node -> 0..PipeCap]
  PROVE  TypeOK'
<1>0. <<>> \in RedirNodes
  BY RedirFacts
<1>1. /\ <<"exit", s % 256>> \in WaitStatus
      /\ "prompt" \in PC /\ "zombie" \in PC
  BY DEF WaitStatus, PC, ShellPC, GonePC
<1>2. /\ pc' \in [Proc -> PC] /\ cur' \in [Proc -> Node \cup {Nil}]
      /\ rs' \in [Proc -> RedirNodes] /\ tree' \in Trees
  BY <1>0, <1>1 DEF TypeOK, Leave, Nil
<1>3. /\ fds' \in [Proc -> [Slot -> Desc]] /\ rc' \in [Proc -> WaitStatus]
      /\ gx' \in -1..255
  BY <1>1, SlotFacts DEF TypeOK, Leave
<1>4. QED
  BY <1>2, <1>3 DEF TypeOK

\* The same, when the pipes are left as they are.
LEMMA ReturnType ==
  ASSUME TypeOK, NEW p \in Interp, NEW pcs \in [Proc -> PC],
         NEW f \in [Slot -> Desc], NEW s \in -1..255, Return(p, pcs, f, s)
  PROVE  TypeOK'
<1>1. buf' \in [Node -> 0..PipeCap]
  BY DEF TypeOK, Return
<1>2. QED
  BY <1>1, LeaveType DEF Return

\* A process that terminates keeps the types.
LEMMA DieType ==
  ASSUME TypeOK, NEW p \in Proc, NEW w \in WaitStatus, Die(p, w),
         UNCHANGED <<tree, buf, gx>>
  PROVE  TypeOK'
<1>1. "zombie" \in PC /\ <<>> \in RedirNodes
  BY RedirFacts DEF PC, GonePC
<1>2. QED
  BY <1>1, SlotFacts DEF TypeOK, Die, Nil

\* A fork keeps the types.
LEMMA ForkType ==
  ASSUME TypeOK, NEW p \in Proc, NEW c, NEW l \in PC, NEW m \in PC, Fork(p, c, l, m)
  PROVE  TypeOK'
<1>1. NoStatus \in WaitStatus
  BY DEF WaitStatus
<1>2. QED
  BY <1>1 DEF TypeOK, Fork

\* The node an interpreter works on is a node of a well-formed tree.
LEMMA NodeOfType ==
  ASSUME TypeOK, NEW p \in Interp
  PROVE  /\ NodeOf(p) \in Node /\ NodeOf(p) \in Nat /\ NodeOf(p) # Nil
         /\ tree \in Tree /\ PreOrder(tree)
  BY TreesAssumption, NodeAssumption
  DEF TypeOK, Tree, NodeOf, Interp, Children, Shell, Nil

\* exit_code is eight bits wide whatever the wait status is.
LEMMA DecodeType == \A w \in WaitStatus : Decode(w) \in 0..255
<1> SUFFICES ASSUME NEW w \in WaitStatus PROVE Decode(w) \in 0..255
  OBVIOUS
<1>1. CASE w = NoStatus
  BY <1>1 DEF Decode, NoStatus
<1>2. CASE w \in {"exit"} \X (0..255)
  BY <1>2 DEF Decode
<1>3. CASE w \in {"sig"} \X (1..127)
  BY <1>3 DEF Decode
<1>4. QED
  BY <1>1, <1>2, <1>3 DEF WaitStatus

\* The statuses execute_ast returns are in range; exit() keeps eight bits.
LEMMA StatusType ==
  /\ {-1, 0, 1, 2, 3, 127} \subseteq -1..255
  /\ 0..255 \subseteq -1..255
  /\ \A s \in -1..255 : <<"exit", s % 256>> \in WaitStatus
  /\ \A s \in 0..255 : <<"exit", s>> \in WaitStatus
<1>1. \A s \in -1..255 : s % 256 \in 0..255
  OBVIOUS
<1>2. \A s \in 0..255 : <<"exit", s>> \in WaitStatus
  BY DEF WaitStatus
<1>3. {-1, 0, 1, 2, 3, 127} \subseteq -1..255 /\ 0..255 \subseteq -1..255
  OBVIOUS
<1>4. QED
  BY <1>1, <1>2, <1>3

\* An empty pipe is within its capacity.
LEMMA BoundType == PipeCap \in Nat /\ 0 \in 0..PipeCap
  BY BoundsAssumption

\* The kinds of processes are told apart.
LEMMA ProcTypes ==
  /\ Shell \in Interp /\ Interp \subseteq Proc /\ Exts \subseteq Proc
  /\ \A n \in Node : Child(n) \in Interp /\ Ext(n) \in Exts
  /\ \A n \in Node : Child(n) # Shell /\ Ext(n) # Shell
  /\ \A m, n \in Node : Child(n) # Ext(m)
  /\ Children \subseteq Interp
  /\ \A e \in Exts : e[2] \in Node /\ e = Ext(e[2]) /\ e \notin Interp
  /\ \A p \in Children : p[2] \in Node /\ p = Child(p[2]) /\ p # Shell
  BY NodeAssumption DEF Shell, Interp, Proc, Exts, Children, Child, Ext

\* The steps of execute_pipe_command and of its children keep the types.
LEMMA PipesType ==
  ASSUME TypeOK, NEW p \in Interp, ShapeOf(p), Pipes(p)
  PROVE  TypeOK'
<1> DEFINE n == NodeOf(p)
<1>0. /\ p \in Proc /\ n \in Node /\ fds[p] \in [Slot -> Desc]
      /\ pc \in [Proc -> PC]
      /\ Closed(fds[p]) \in [Slot -> Desc]
  BY NodeOfType, ProcTypes, SlotFacts DEF TypeOK
<1>1. CASE MakePipe(p)
  <2>1. R(n) \in Desc /\ W(n) \in Desc /\ "pr" \in Slot /\ "pw" \in Slot
    BY <1>0 DEF R, W, Desc, Slot
  <2>2. CASE Return(p, pc, fds[p], 1)
    BY <2>2, <1>0, ReturnType
  <2>3. CASE ~Return(p, pc, fds[p], 1)
    <3>1. [fds EXCEPT ![p]["pr"] = R(n), ![p]["pw"] = W(n)] \in [Proc -> [Slot -> Desc]]
      BY <1>0, <2>1 DEF TypeOK
    <3>2. [buf EXCEPT ![n] = 0] \in [Node -> 0..PipeCap]
      BY BoundType DEF TypeOK
    <3>3. "fork1" \in PC
      BY DEF PC, InterpPC
    <3>4. /\ pc' = [pc EXCEPT ![p] = "fork1"]
          /\ fds' = [fds EXCEPT ![p]["pr"] = R(n), ![p]["pw"] = W(n)]
          /\ buf' = [buf EXCEPT ![n] = 0]
          /\ UNCHANGED <<tree, cur, rs, rc, gx>>
      BY <2>3, <1>1 DEF MakePipe, Goto
    <3>5. [pc EXCEPT ![p] = "fork1"] \in [Proc -> PC]
      BY <1>0, <3>3
    <3>6. QED
      BY <3>1, <3>2, <3>4, <3>5 DEF TypeOK
  <2>4. QED
    BY <2>2, <2>3
<1>2. CASE ForkLeft(p)
  BY <1>0, <1>2, ReturnType, ForkType
  DEF ForkLeft, PC, InterpPC, SetupPC
<1>3. CASE ForkRight(p)
  <2>1. CASE Fork(p, Child(tree.right[n]), "right_child", "close")
    BY <1>0, <2>1, ForkType DEF PC, InterpPC, SetupPC
  <2>2. CASE ~Fork(p, Child(tree.right[n]), "right_child", "close")
    <3>1. [fds EXCEPT ![p] = Closed(@)] \in [Proc -> [Slot -> Desc]]
      BY <1>0 DEF TypeOK
    <3>2. "reap1" \in PC
      BY DEF PC, InterpPC
    <3>3. QED
      BY <1>0, <1>3, <2>2, <3>1, <3>2, ZenonT(60) DEF ForkRight, TypeOK, Goto
  <2>3. QED
    BY <2>1, <2>2
<1>4. CASE ReapLeft(p)
  <2>1. [pc EXCEPT ![Child(tree.left[n])] = "none"] \in [Proc -> PC]
    BY <1>0 DEF PC, GonePC
  <2>2. QED
    BY <1>0, <1>4, <2>1, ReturnType, StatusType, ZenonT(60) DEF ReapLeft
<1>5. CASE ClosePipe(p)
  BY <1>0, <1>5 DEF ClosePipe, TypeOK, Goto, PC, InterpPC
<1>6. CASE WaitLeft(p)
  BY <1>0, <1>6 DEF WaitLeft, TypeOK, PC, InterpPC, GonePC
<1>7. CASE WaitRight(p)
  <2> DEFINE c == Child(tree.right[n])
  <2>1. [pc EXCEPT ![c] = "none"] \in [Proc -> PC]
    BY <1>0 DEF PC, GonePC
  <2>2. c \in Proc
    BY <1>0, <1>7, NodeOfType, ProcTypes DEF WaitRight, ShapeOf, PipePC, Tree
  <2>3. Decode(rc[c]) \in -1..255
    BY <2>2, DecodeType, StatusType, ZenonT(60) DEF TypeOK
  <2>4. QED
    BY <1>0, <1>7, <2>1, <2>3, ReturnType, ZenonT(60) DEF WaitRight
<1>8. CASE LeftChild(p) \/ RightChild(p)
  <2>1. <<"exit", 1>> \in WaitStatus
    BY DEF WaitStatus
  <2>2. CASE Die(p, <<"exit", 1>>)
    BY <1>0, <1>8, <2>1, <2>2, DieType DEF LeftChild, RightChild
  <2>3. CASE ~Die(p, <<"exit", 1>>)
    <3>1. /\ Piped("out", "pw", fds[p]) \in [Slot -> Desc]
          /\ Piped("in", "pr", fds[p]) \in [Slot -> Desc]
      BY <1>0, PipedType DEF Slot
    <3>2. QED
      BY <1>0, <1>8, <2>3, <3>1, ZenonT(60)
      DEF LeftChild, RightChild, TypeOK, Goto, PC, InterpPC
  <2>4. QED
    BY <2>2, <2>3
<1>9. QED
  BY <1>1, <1>2, <1>3, <1>4, <1>5, <1>6, <1>7, <1>8 DEF Pipes

\* Popping the redirection applied last, and reading which one is next.
LEMMA PopType ==
  ASSUME TypeOK, NEW p \in Interp, rs[p] # <<>>
  PROVE  Popped(p) \in [Proc -> RedirNodes] /\ NextRedir(p) \in Node
<1>0. rs[p] \in RedirNodes
  BY ProcTypes DEF TypeOK
<1>1. rs[p] \in Seq(Node) /\ Len(rs[p]) \in Nat /\ Len(rs[p]) # 0
  BY <1>0, RedirFacts
<1>2. NextRedir(p) \in Node
  BY <1>1 DEF NextRedir
<1>3. SubSeq(rs[p], 1, Len(rs[p]) - 1) \in RedirNodes
  BY <1>0, RedirFacts
<1>4. QED
  BY <1>2, <1>3 DEF Popped, TypeOK

\* The end of a command or of a redirection chain keeps the types.
LEMMA FinishType ==
  ASSUME TypeOK, NEW p \in Interp, NEW s \in -1..255, Finish(p, s)
  PROVE  TypeOK'
<1>1. PICK lost : Return(p, pc, Restored(Closed(fds[p]), lost), s)
  BY DEF Finish
<1>2. Restored(Closed(fds[p]), lost) \in [Slot -> Desc] /\ pc \in [Proc -> PC]
  BY SlotFacts, ProcTypes DEF TypeOK
<1>3. QED
  BY <1>1, <1>2, ReturnType

\* The steps of a redirection chain keep the types.
LEMMA ChainType ==
  ASSUME TypeOK, NEW p \in Interp, ShapeOf(p), Chain(p)
  PROVE  TypeOK'
<1>0. /\ p \in Proc /\ fds[p] \in [Slot -> Desc]
      /\ rs[p] \in RedirNodes
      /\ pc \in [Proc -> PC]
  BY ProcTypes DEF TypeOK
<1>1. CASE SaveFds(p)
  <2> DEFINE f == [fds[p] EXCEPT !["leak"] = fds[p]["out"]]
  <2>1. CASE Return(p, pc, fds[p], 1) \/ Return(p, pc, f, 1)
    <3>1. f \in [Slot -> Desc]
      BY <1>0 DEF Slot
    <3>2. QED
      BY <2>1, <3>1, <1>0, ReturnType, StatusType
  <2>2. CASE ~(Return(p, pc, fds[p], 1) \/ Return(p, pc, f, 1))
    <3>1. Saved(fds[p]) \in [Slot -> Desc]
      BY <1>0, SlotFacts
    <3>2. "run" \in PC /\ "collect" \in PC
      BY DEF PC, InterpPC
    <3>3. /\ \E l \in {"run", "collect"} : pc' = [pc EXCEPT ![p] = l]
          /\ fds' = [fds EXCEPT ![p] = Saved(@)]
          /\ UNCHANGED <<tree, cur, rs, buf, rc, gx>>
      BY <1>1, <2>2 DEF SaveFds, Goto
    <3>4. QED
      BY <1>0, <3>1, <3>2, <3>3 DEF TypeOK
  <2>3. QED
    BY <2>1, <2>2
<1>2. CASE Collect(p)
  <2>1. cur[p] \in Node
    BY <1>2 DEF Collect, ShapeOf, RunPC
  <2>2. Operand(cur[p]) \in Node \cup {Nil}
    BY <2>1, NodeOfType DEF Operand, Tree
  <2>3. CASE \E s \in {1, 2, 3} : Finish(p, s)
    BY <2>3, FinishType, StatusType, SMTT(30)
  <2>4. CASE ~\E s \in {1, 2, 3} : Finish(p, s)
    <3>1. "apply" \in PC
      BY DEF PC, InterpPC
    <3>2. Len(rs[p]) < MaxRedirections => Append(rs[p], cur[p]) \in RedirNodes
      BY <1>0, <2>1, RedirFacts
    <3>3. QED
      BY <1>0, <1>2, <2>2, <2>4, <3>1, <3>2, ZenonT(60) DEF Collect, Room, TypeOK, Goto
  <2>5. QED
    BY <2>3, <2>4
<1>3. CASE Apply(p)
  <2>1. NextRedir(p) \in Node /\ Popped(p) \in [Proc -> RedirNodes]
    BY <1>3, PopType DEF Apply
  <2>2. CASE Finish(p, -1)
    BY <2>2, FinishType, StatusType
  <2>3. CASE OpenFile(p, "in", File(FileUnits)) \/ OpenFile(p, "out", File(0))
    <3>1. File(FileUnits) \in Desc /\ File(0) \in Desc
      BY BoundsAssumption DEF File, Desc
    <3>2. "in" \in Slot /\ "out" \in Slot
      BY DEF Slot
    <3>3. /\ [fds EXCEPT ![p]["in"] = File(FileUnits)] \in [Proc -> [Slot -> Desc]]
          /\ [fds EXCEPT ![p]["out"] = File(0)] \in [Proc -> [Slot -> Desc]]
      BY <1>0, <3>1, <3>2 DEF TypeOK
    <3>4. QED
      BY <2>1, <2>3, <3>3 DEF OpenFile, TypeOK
  <2>4. CASE OpenHeredoc(p, NextRedir(p))
    <3> DEFINE h == NextRedir(p)
    <3>1. R(h) \in Desc /\ W(h) \in Desc /\ "pr" \in Slot /\ "pw" \in Slot
      BY <2>1 DEF R, W, Desc, Slot
    <3>2. /\ [fds EXCEPT ![p]["pr"] = R(h), ![p]["pw"] = W(h)]
                \in [Proc -> [Slot -> Desc]]
          /\ [buf EXCEPT ![h] = 0] \in [Node -> 0..PipeCap]
      BY <1>0, <3>1, BoundType DEF TypeOK
    <3>3. "hd_prompt" \in PC
      BY DEF PC, InterpPC
    <3>4. QED
      BY <1>0, <2>4, <3>2, <3>3 DEF OpenHeredoc, TypeOK, Goto
  <2>5. CASE /\ rs' = Popped(p)
             /\ UNCHANGED <<tree, pc, cur, fds, buf, rc, gx>>
    BY <2>1, <2>5 DEF TypeOK
  <2>6. QED
    BY <1>3, <2>2, <2>3, <2>4, <2>5 DEF Apply
<1>4. CASE AllApplied(p)
  BY <1>0, <1>4 DEF AllApplied, TypeOK, Goto, PC, InterpPC
<1>5. QED
  BY <1>1, <1>2, <1>3, <1>4 DEF Chain

\* Reading and writing keep the pipes and the file offsets in their ranges.
LEMMA WriteType ==
  ASSUME TypeOK, NEW p \in Proc, CanWrite(p)
  PROVE  Written(p) \in [Node -> 0..PipeCap]
<1> DEFINE d == fds[p]["out"]
<1>0. d \in Desc
  BY DEF TypeOK, Slot
<1>1. CASE d[1] = "w"
  <2>1. buf[d[2]] < PipeCap
    BY <1>1 DEF CanWrite
  <2>2. d[2] \in Node
    BY <1>0, <1>1 DEF Desc, Tty, Shut
  <2>3. [buf EXCEPT ![d[2]] = @ + 1] \in [Node -> 0..PipeCap]
    BY <2>1, <2>2, BoundType DEF TypeOK
  <2>4. QED
    BY <1>1, <2>3 DEF Written
<1>2. CASE d[1] # "w"
  BY <1>2 DEF Written, TypeOK
<1>3. QED
  BY <1>1, <1>2

\* Reading keeps the pipes and the files in their ranges.
LEMMA ReadType ==
  ASSUME TypeOK, NEW p \in Proc, CanRead(p), ReadUnit(p)
  PROVE  buf' \in [Node -> 0..PipeCap] /\ fds' \in [Proc -> [Slot -> Desc]]
<1> DEFINE d == fds[p]["in"]
<1>0. d \in Desc
  BY DEF TypeOK, Slot
<1>1. CASE d[1] = "r"
  <2>1. d[2] \in Node /\ buf[d[2]] \in 0..PipeCap /\ buf[d[2]] > 0
    BY <1>0, <1>1 DEF TypeOK, Desc, Tty, Shut, CanRead
  <2>2. [buf EXCEPT ![d[2]] = @ - 1] \in [Node -> 0..PipeCap]
    BY <2>1, BoundType DEF TypeOK
  <2>3. QED
    BY <1>1, <2>2 DEF ReadUnit, TypeOK
<1>2. CASE d[1] = "file"
  <2>1. d[2] \in Nat /\ d[2] > 0
    BY <1>0, <1>2 DEF Desc, Tty, Shut, CanRead
  <2>2. d[2] - 1 \in Nat
    BY <2>1
  <2>3. File(d[2] - 1) \in Desc /\ "in" \in Slot
    BY <2>2 DEF File, Desc, Slot
  <2>4. QED
    BY <1>2, <2>3 DEF ReadUnit, TypeOK
<1>3. CASE d[1] # "r" /\ d[1] # "file"
  BY <1>3 DEF ReadUnit, TypeOK
<1>4. QED
  BY <1>1, <1>2, <1>3

\* A process killed by SIGPIPE keeps the types.
LEMMA KilledType ==
  ASSUME TypeOK, NEW p \in Proc, Killed(p)
  PROVE  TypeOK'
<1>1. <<"sig", SIGPIPE>> \in WaitStatus
  BY DEF SIGPIPE, WaitStatus
<1>2. QED
  BY <1>1, DieType DEF Killed

\* A message written before returning keeps the types.
LEMMA SayType ==
  ASSUME TypeOK, NEW p \in Interp, NEW f \in [Slot -> Desc], NEW s \in -1..255,
         Say(p, f, s)
  PROVE  TypeOK'
<1>0. p \in Proc /\ pc \in [Proc -> PC]
  BY ProcTypes DEF TypeOK
<1>1. CASE Killed(p)
  BY <1>0, <1>1, KilledType
<1>2. CASE CanWrite(p) /\ buf' = Written(p) /\ Leave(p, pc, f, s)
  BY <1>0, <1>2, WriteType, LeaveType
<1>3. QED
  BY <1>1, <1>2 DEF Say

\* The steps of a here-document keep the types.
LEMMA HeredocType ==
  ASSUME TypeOK, NEW p \in Interp, ShapeOf(p), Heredoc(p)
  PROVE  TypeOK'
<1>0. /\ p \in Proc /\ fds[p] \in [Slot -> Desc]
      /\ pc \in [Proc -> PC]
  BY ProcTypes DEF TypeOK
<1>1. /\ {"hd_prompt", "hd_read", "hd_store", "apply"} \subseteq PC
      /\ Piped("in", "pr", fds[p]) \in [Slot -> Desc]
  BY <1>0, PipedType DEF PC, InterpPC, Slot
<1>2. CASE HeredocPrompt(p)
  <2>1. CASE Killed(p)
    BY <2>1, <1>0, KilledType
  <2>2. CASE ~Killed(p)
    <3>1. /\ CanWrite(p) /\ buf' = Written(p)
          /\ pc' = [pc EXCEPT ![p] = "hd_read"]
          /\ UNCHANGED <<tree, cur, rs, fds, rc, gx>>
      BY <1>2, <2>2 DEF HeredocPrompt, Goto
    <3>2. Written(p) \in [Node -> 0..PipeCap]
      BY <3>1, <1>0, WriteType
    <3>3. QED
      BY <1>0, <1>1, <3>1, <3>2 DEF TypeOK
  <2>3. QED
    BY <2>1, <2>2
<1>3. CASE HeredocLine(p)
  <2>1. /\ CanRead(p) /\ ReadUnit(p)
        /\ pc' = [pc EXCEPT ![p] = "hd_store"]
        /\ UNCHANGED <<tree, cur, rs, rc, gx>>
    BY <1>3 DEF HeredocLine, Goto
  <2>2. buf' \in [Node -> 0..PipeCap] /\ fds' \in [Proc -> [Slot -> Desc]]
    BY <2>1, <1>0, ReadType
  <2>3. QED
    BY <1>0, <1>1, <2>1, <2>2 DEF TypeOK
<1>4. CASE HeredocEnd(p)
  <2> DEFINE d == fds[p]["in"]
  <2>1. rs[p] # <<>>
    BY <1>4 DEF HeredocEnd, ShapeOf, HeredocPC
  <2>2. Popped(p) \in [Proc -> RedirNodes]
    BY <2>1, PopType
  <2>3. buf' \in [Node -> 0..PipeCap]
    <3>1. CASE CanRead(p) /\ d[1] = "r" /\ buf' = [buf EXCEPT ![d[2]] = @ - 1]
      <4>1. d \in Desc
        BY <1>0 DEF Slot
      <4>2. d[2] \in Node
        BY <3>1, <4>1 DEF Desc, Tty, Shut
      <4>3. buf[d[2]] > 0 /\ buf[d[2]] \in 0..PipeCap
        BY <3>1, <4>2 DEF CanRead, TypeOK
      <4>4. QED
        BY <3>1, <4>2, <4>3, BoundType DEF TypeOK
    <3>2. CASE buf' = buf
      BY <3>2 DEF TypeOK
    <3>3. QED
      BY <1>4, <3>1, <3>2 DEF HeredocEnd
  <2>4. CASE /\ pc' = [pc EXCEPT ![p] = "apply"]
             /\ fds' = [fds EXCEPT ![p] = Piped("in", "pr", @)]
             /\ rs' = Popped(p)
             /\ UNCHANGED <<tree, cur, rc, gx>>
    BY <1>0, <1>1, <2>2, <2>3, <2>4 DEF TypeOK
  <2>5. CASE \E lost \in Losses : Leave(p, pc, Restored(Closed(fds[p]), lost), -1)
    <3>1. PICK lost : Leave(p, pc, Restored(Closed(fds[p]), lost), -1)
      BY <2>5
    <3>2. Restored(Closed(fds[p]), lost) \in [Slot -> Desc]
      BY <1>0, SlotFacts
    <3>3. QED
      BY <1>0, <2>3, <3>1, <3>2, LeaveType, StatusType
  <2>6. QED
    BY <1>4, <2>4, <2>5 DEF HeredocEnd, Goto
<1>5. CASE HeredocStore(p)
  <2> DEFINE h == NextRedir(p)
  <2>1. rs[p] # <<>>
    BY <1>5 DEF HeredocStore, ShapeOf, HeredocPC
  <2>2. h \in Node /\ buf[h] \in 0..PipeCap
    BY <2>1, PopType DEF TypeOK
  <2>3. CASE Finish(p, -1)
    BY <2>3, FinishType, StatusType
  <2>4. CASE ~Finish(p, -1)
    <3>1. /\ buf[h] < PipeCap /\ buf' = [buf EXCEPT ![h] = @ + 1]
          /\ pc' = [pc EXCEPT ![p] = "hd_prompt"]
          /\ UNCHANGED <<tree, cur, rs, fds, rc, gx>>
      BY <1>5, <2>4 DEF HeredocStore, Goto
    <3>2. [buf EXCEPT ![h] = @ + 1] \in [Node -> 0..PipeCap]
      BY <2>2, <3>1, BoundType DEF TypeOK
    <3>3. QED
      BY <1>0, <1>1, <3>1, <3>2 DEF TypeOK
  <2>5. QED
    BY <2>3, <2>4
<1>6. QED
  BY <1>2, <1>3, <1>4, <1>5 DEF Heredoc

\* The steps of a simple command keep the types.
LEMMA RunType ==
  ASSUME TypeOK, NEW p \in Interp, ShapeOf(p), Run(p)
  PROVE  TypeOK'
<1>0. /\ p \in Proc /\ fds[p] \in [Slot -> Desc]
      /\ pc \in [Proc -> PC]
      /\ {"zombie", "exited", "exec", "waitx"} \subseteq PC
  BY ProcTypes DEF TypeOK, PC, ShellPC, GonePC, ExtPC, InterpPC
<1>1. CASE \E s \in -1..255 : Finish(p, s)
  BY <1>1, FinishType
<1>2. CASE RunBuiltin(p)
  <2>1. \E s \in {0, 1} : Finish(p, s)
    BY <1>2 DEF RunBuiltin
  <2>2. QED
    BY <2>1, <1>1, StatusType
<1>3. CASE RunEcho(p)
  <2>1. PICK lost : Say(p, Restored(fds[p], lost), 0)
    BY <1>3 DEF RunEcho
  <2>2. QED
    BY <1>0, <2>1, SayType, SlotFacts, StatusType
<1>4. CASE RunExit(p)
  <2>1. PICK s \in ExitCodes \cup {2, gx % 256} :
          /\ pc' = [pc EXCEPT ![p] = IF p = Shell THEN "exited" ELSE "zombie"]
          /\ rc' = [rc EXCEPT ![p] = <<"exit", s>>]
    BY <1>4 DEF RunExit
  <2>2. <<"exit", s>> \in WaitStatus
    <3>1. gx % 256 \in 0..255
      BY DEF TypeOK
    <3>2. s \in 0..255
      BY <3>1, BoundsAssumption
    <3>3. QED
      BY <3>2, StatusType, ZenonT(60)
  <2>3. QED
    BY <1>0, <1>4, <2>1, <2>2, SlotFacts DEF RunExit, TypeOK
<1>5. CASE RunProgram(p)
  BY <1>0, <1>1, <1>5, ForkType, StatusType DEF RunProgram
<1>6. CASE WaitProgram(p)
  <2> DEFINE e == Ext(cur[p])
  <2>1. [pc EXCEPT ![e] = "none"] \in [Proc -> PC]
    BY <1>0 DEF PC, GonePC
  <2>2. e \in Proc
    BY <1>6, ProcTypes DEF WaitProgram, ShapeOf, RunPC
  <2>3. Decode(rc[e]) \in -1..255
    BY <2>2, DecodeType, StatusType DEF TypeOK
  <2>4. \A lost : Restored(fds[p], lost) \in [Slot -> Desc]
    BY <1>0, SlotFacts
  <2>5. PICK lost : Return(p, [pc EXCEPT ![e] = "none"], Restored(fds[p], lost), Decode(rc[e]))
    BY <1>6 DEF WaitProgram
  <2>6. QED
    BY <1>0, <2>1, <2>3, <2>4, <2>5, ReturnType, ZenonT(60)
<1>7. QED
  BY <1>2, <1>3, <1>4, <1>5, <1>6 DEF Run

\* The steps of the programs keep the types.
LEMMA ProgramType ==
  ASSUME TypeOK, NEW e \in Exts, Program(e) \/ Typed(e)
  PROVE  TypeOK'
<1>0. e \in Proc /\ pc \in [Proc -> PC] /\ {"read", "write", "quit"} \subseteq PC
  BY ProcTypes DEF TypeOK, PC, ExtPC
<1>1. CASE \E s \in 0..255 : Die(e, <<"exit", s>>) /\ UNCHANGED <<tree, buf, gx>>
  BY <1>0, <1>1, DieType, StatusType, ZenonT(60)
<1>2. CASE \E l \in {"read", "write", "quit"} :
             Goto(e, l) /\ UNCHANGED <<tree, cur, rs, fds, buf, rc, gx>>
  BY <1>0, <1>2 DEF Goto, TypeOK
<1>3. CASE Exec(e)
  BY <1>1, <1>2, <1>3 DEF Exec
<1>4. CASE ProgRead(e)
  <2>1. CASE ReadUnit(e) /\ CanRead(e) /\ Goto(e, "write")
             /\ UNCHANGED <<tree, cur, rs, rc, gx>>
    BY <1>0, <2>1, ReadType DEF Goto, TypeOK
  <2>2. QED
    BY <1>2, <1>4, <2>1 DEF ProgRead
<1>5. CASE ProgWrite(e)
  <2>1. CASE Killed(e)
    BY <1>0, <2>1, KilledType
  <2>2. CASE ~Killed(e)
    <3>1. /\ CanWrite(e) /\ buf' = Written(e)
          /\ \E l \in {"write", "read"} : pc' = [pc EXCEPT ![e] = l]
          /\ UNCHANGED <<tree, cur, rs, fds, rc, gx>>
      BY <1>5, <2>2 DEF ProgWrite, Goto
    <3>2. Written(e) \in [Node -> 0..PipeCap]
      BY <1>0, <3>1, WriteType
    <3>3. QED
      BY <1>0, <3>1, <3>2 DEF TypeOK
  <2>3. QED
    BY <2>1, <2>2
<1>6. CASE ProgQuit(e)
  BY <1>1, <1>6, BoundsAssumption DEF ProgQuit
<1>7. CASE Typed(e)
  BY <1>2, <1>7 DEF Typed
<1>8. QED
  BY <1>3, <1>4, <1>5, <1>6, <1>7 DEF Program

\* dispatch_ast_node keeps the types.
LEMMA DispatchType ==
  ASSUME TypeOK, NEW p \in Interp, Dispatch(p)
  PROVE  TypeOK'
<1>0. /\ p \in Proc /\ fds[p] \in [Slot -> Desc] /\ pc \in [Proc -> PC]
      /\ NodeOf(p) \in Node /\ {"pipe", "save"} \subseteq PC
  BY NodeOfType, ProcTypes DEF TypeOK, PC, InterpPC
<1>1. CASE \E s \in -1..255 : Return(p, pc, fds[p], s)
  BY <1>0, <1>1, ReturnType
<1>2. CASE \E l \in {"pipe", "save"} :
             /\ Goto(p, l) /\ cur' \in {cur, [cur EXCEPT ![p] = NodeOf(p)]}
             /\ UNCHANGED <<tree, rs, fds, buf, rc, gx>>
  BY <1>0, <1>2, ZenonT(60) DEF Goto, TypeOK
<1>3. CASE \E s \in {0, 2} : Return(p, pc, fds[p], s)
  BY <1>1, <1>3, StatusType
<1>4. QED
  BY <1>2, <1>3 DEF Dispatch

\* The "command not found" message keeps the types.
LEMMA NotFoundType ==
  ASSUME TypeOK, NEW p \in Interp, NotFound(p)
  PROVE  TypeOK'
  BY SayType, StatusType, ProcTypes, ZenonT(60) DEF NotFound, TypeOK

\* The prompt's steps keep the types.
LEMMA PromptType ==
  ASSUME TypeOK, Prompt
  PROVE  TypeOK'
<1>1. CASE ReadLine
  <2> DEFINE d == fds[Shell]["in"]
  <2>1. d \in Desc /\ Shell \in Proc /\ "in" \in Slot
    BY ProcTypes DEF TypeOK, Slot
  <2>2. AfterLine \in Desc
    <3>1. CASE d[1] = "tty"
      BY <2>1, <3>1 DEF AfterLine
    <3>2. CASE d[1] = "file"
      <4>1. d[2] \in Nat /\ d[2] > 0
        BY <1>1, <2>1, <3>2 DEF ReadLine, CanRead, Desc, Tty, Shut
      <4>2. QED
        BY <3>2, <4>1 DEF AfterLine, File, Desc
    <3>3. CASE d[1] = "r"
      <4>1. d[2] \in Node /\ buf[d[2]] > 0
        BY <1>1, <2>1, <3>3 DEF ReadLine, CanRead, Desc, Tty, Shut
      <4>2. buf[d[2]] - 1 \in Nat
        BY <4>1, BoundType DEF TypeOK
      <4>3. QED
        BY <3>3, <4>2 DEF AfterLine, File, Desc
    <3>4. QED
      BY <1>1, <3>1, <3>2, <3>3 DEF ReadLine, CanRead
  <2>3. /\ fds' = [fds EXCEPT ![Shell]["in"] = AfterLine]
        /\ pc' = [pc EXCEPT ![Shell] = "dispatch"]
        /\ buf' = [n \in Node |-> 0] /\ rc' = [q \in Proc |-> NoStatus]
        /\ tree' \in Trees /\ UNCHANGED <<cur, rs, gx>>
    BY <1>1 DEF ReadLine, Goto
  <2>4. fds' \in [Proc -> [Slot -> Desc]]
    BY <2>1, <2>2, <2>3 DEF TypeOK
  <2>5. QED
    BY <2>1, <2>3, <2>4, BoundType DEF TypeOK, PC, InterpPC, WaitStatus
<1>2. CASE RejectLine
  <2>1. buf' \in [Node -> 0..PipeCap] /\ fds' \in [Proc -> [Slot -> Desc]]
    BY <1>2, ReadType, ProcTypes DEF RejectLine
  <2>2. QED
    BY <1>2, <2>1 DEF RejectLine, TypeOK
<1>3. CASE EndOfInput
  <2>1. <<"exit", gx % 256>> \in WaitStatus
    BY StatusType, ZenonT(60) DEF TypeOK
  <2>2. QED
    BY <1>3, <2>1, SlotFacts, ProcTypes DEF EndOfInput, TypeOK, PC, ShellPC
<1>4. QED
  BY <1>1, <1>2, <1>3 DEF Prompt

\* Every step keeps the types, given that what the step uses exists.
LEMMA TypeStep == TypeOK /\ Local /\ [Next]_vars => TypeOK'
<1> SUFFICES ASSUME TypeOK, Local, [Next]_vars PROVE TypeOK'
  OBVIOUS
<1>1. CASE Prompt
  BY <1>1, PromptType
<1>2. CASE Terminated \/ UNCHANGED vars
  BY <1>2 DEF Terminated, vars, TypeOK
<1>3. ASSUME NEW p \in Interp, Interpret(p) PROVE TypeOK'
  <2>1. ShapeOf(p)
    BY ProcTypes DEF Local, LocalOf
  <2>2. QED
    BY <1>3, <2>1, DispatchType, NotFoundType, PipesType, ChainType,
       HeredocType, RunType
    DEF Interpret
<1>4. ASSUME NEW e \in Exts, Program(e) \/ Typed(e) PROVE TypeOK'
  BY <1>4, ProgramType
<1>5. QED
  BY <1>1, <1>2, <1>3, <1>4 DEF Next

-----------------------------------------------------------------------------
(***************************************************************************)
(* Local: first the processes that do not move, then what forking,         *)
(* returning and dying do, then the actions.                               *)
(***************************************************************************)
\* The processes outside S, and the tree, are untouched.
Others(S) ==
  /\ tree' = tree
  /\ \A q \in Proc \ S : /\ pc'[q] = pc[q] /\ cur'[q] = cur[q]
                         /\ rs'[q] = rs[q] /\ fds'[q] = fds[q]

\* Only the processes that a step changes need to be looked at.
LEMMA FrameLocal ==
  ASSUME Local, NEW S, Others(S), \A q \in S : LocalOf(q)'
  PROVE  Local'
<1> SUFFICES ASSUME NEW q \in Proc \ S PROVE LocalOf(q)'
  BY DEF Local
<1>1. /\ tree' = tree /\ pc'[q] = pc[q] /\ cur'[q] = cur[q]
      /\ rs'[q] = rs[q] /\ fds'[q] = fds[q] /\ LocalOf(q)
      /\ NodeOf(q)' = NodeOf(q) /\ Labels(q)' = Labels(q)
  BY DEF Others, Local, NodeOf, Labels
<1>2. ShapeOf(q)'
  BY <1>1 DEF LocalOf, ShapeOf, Below
<1>3. HoldOf(q)'
  BY <1>1 DEF LocalOf, HoldOf
<1>4. PipeOf(q)'
  BY <1>1 DEF LocalOf, PipeOf
<1>5. SeparatedAt(q)'
  BY <1>1 DEF LocalOf, SeparatedAt, Below
<1>6. QED
  BY <1>2, <1>3, <1>4, <1>5 DEF LocalOf

\* A process that is gone relies on nothing and holds nothing.
LEMMA GoneLocal ==
  ASSUME NEW q \in Proc \ {Shell}, pc'[q] \in GonePC, fds'[q] = NoFds
  PROVE  LocalOf(q)'
<1>1. pc'[q] \in Labels(q)'
  BY DEF Labels, Proc, Interp, Shell
<1>2. /\ pc'[q] \notin PipePC \cup RunPC \cup {"save"} \cup HoldPC
      /\ pc'[q] \notin HeredocPC \cup MakerPC \cup SetupPC
  BY DEF PipePC, RunPC, HeredocPC, GonePC, HoldPC, MakerPC, SetupPC
<1>3. \A s \in Slot : NoFds[s] = Shut
  BY DEF NoFds
<1>4. \A n \in Node : R(n) # Shut /\ W(n) # Shut
  BY DEF R, W, Shut
<1>5. {"in", "out", "svin", "svout", "pr", "pw"} \subseteq Slot
  BY DEF Slot
<1>6. ShapeOf(q)' /\ HoldOf(q)' /\ PipeOf(q)'
  BY <1>1, <1>2, <1>3, <1>5 DEF ShapeOf, HoldOf, PipeOf
<1>7. SeparatedAt(q)'
  BY <1>3, <1>4, <1>5 DEF SeparatedAt
<1>8. QED
  BY <1>6, <1>7 DEF LocalOf

\* What execute_ast's return does to the processes.
LEMMA LeaveEffect ==
  ASSUME TypeOK, NEW p \in Interp, NEW pcs \in [Proc -> PC],
         NEW f \in [Slot -> Desc], NEW s, Leave(p, pcs, f, s)
  PROVE  /\ tree' = tree
         /\ \A q \in Proc \ {p} : /\ pc'[q] = pcs[q] /\ cur'[q] = cur[q]
                                  /\ rs'[q] = rs[q] /\ fds'[q] = fds[q]
         /\ pc'[p] = IF p = Shell THEN "prompt" ELSE "zombie"
         /\ fds'[p] = IF p = Shell THEN f ELSE NoFds
  BY ProcTypes DEF Leave, TypeOK

Std == {"in", "out", "svin", "svout"}

\* The shell has no end of a pipe of the line: it is no operand of any.
LEMMA ShellApart ==
  ASSUME TypeOK, LocalOf(Shell), NEW s \in {"in", "out", "svin", "svout"}, NEW n \in Node
  PROVE  /\ fds[Shell][s] # W(n)
         /\ fds[Shell][s] = R(n) => tree.kind[n] # "pipe"
<1>1. /\ tree \in Tree /\ PreOrder(tree) /\ NodeOf(Shell) = tree.root
      /\ n \in Nat /\ tree.root \in Nat
  BY ProcTypes, NodeOfType, NodeAssumption DEF NodeOf, Tree
<1>2. ASSUME NEW k \in {tree.left[n], tree.right[n]}, Below(tree.root, k) PROVE FALSE
  <2>1. k \in Nat /\ k # Nil /\ k <= tree.root
    BY <1>1, <1>2, NodeAssumption DEF Below, Tree, Nil
  <2>2. n < k /\ tree.root <= n
    BY <1>1, <1>2, <2>1 DEF PreOrder
  <2>3. QED
    BY <1>1, <2>1, <2>2
<1>3. /\ fds[Shell][s] = W(n) => Below(tree.root, tree.left[n])
      /\ fds[Shell][s] = R(n) /\ tree.kind[n] = "pipe" => Below(tree.root, tree.right[n])
  BY <1>1 DEF LocalOf, SeparatedAt
<1>4. QED
  BY <1>2, <1>3

\* A stdin that is not the end of a pipe of the line.
Plain(d) == /\ d[1] \in {"tty", "file", "r"}
            /\ \A n \in Node : d = R(n) => tree.kind[n] # "pipe"

\* The shell's descriptors with no redirection or pipe of its own open.
Own(f) == /\ OwnedAs(f, "in", "out") /\ Plain(f["in"]) /\ f["out"][1] \in {"tty", "file"}
          /\ f["svin"] = Shut /\ f["svout"] = Shut /\ f["pr"] = Shut /\ f["pw"] = Shut

\* The shell back at its prompt or about to execute a line, and the shell
\* that has exited.
LEMMA OwnPrompt ==
  ASSUME pc'[Shell] \in {"prompt", "dispatch"}, Own(fds[Shell])'
  PROVE  LocalOf(Shell)'
<1>1. \A n \in Node : /\ Shut # R(n) /\ Shut # W(n) /\ W(n)[1] = "w" /\ R(n)[1] = "r"
  BY DEF R, W, Shut
<1>2. SeparatedAt(Shell)'
  BY <1>1 DEF SeparatedAt, Own, Plain
<1>3. /\ pc'[Shell] \notin PipePC \cup RunPC \cup {"save", "exited"} \cup GonePC
      /\ pc'[Shell] \notin HeredocPC \cup MakerPC \cup SetupPC \cup HoldPC
  BY DEF PipePC, RunPC, HeredocPC, HoldPC, MakerPC, SetupPC, GonePC
<1>4. ShapeOf(Shell)'
  BY <1>3 DEF ShapeOf, Labels, ShellPC, InterpPC
<1>5. HoldOf(Shell)' /\ PipeOf(Shell)'
  BY <1>3 DEF HoldOf, PipeOf, Own, Plain
<1>6. QED
  BY <1>2, <1>4, <1>5 DEF LocalOf

\* A shell that has exited relies on nothing and holds nothing.
LEMMA ExitedLocal ==
  ASSUME pc'[Shell] = "exited", fds'[Shell] = NoFds
  PROVE  LocalOf(Shell)'
<1>1. \A n \in Node : Shut # R(n) /\ Shut # W(n)
  BY DEF R, W, Shut
<1>2. \A s \in {"in", "out", "svin", "svout", "pr", "pw"} : fds'[Shell][s] = Shut
  BY DEF NoFds, Slot
<1>3. /\ pc'[Shell] \notin PipePC \cup RunPC \cup {"save"} \cup GonePC
      /\ pc'[Shell] \notin HeredocPC \cup MakerPC \cup SetupPC \cup HoldPC
  BY DEF PipePC, RunPC, HeredocPC, HoldPC, MakerPC, SetupPC, GonePC
<1>4. ShapeOf(Shell)' /\ SeparatedAt(Shell)'
  BY <1>1, <1>2, <1>3 DEF ShapeOf, Labels, ShellPC, SeparatedAt
<1>5. HoldOf(Shell)' /\ PipeOf(Shell)'
  BY <1>2, <1>3 DEF HoldOf, PipeOf
<1>6. QED
  BY <1>4, <1>5 DEF LocalOf

\* A process that returns with only its standard descriptors is well.
LEMMA LeaveLocal ==
  ASSUME TypeOK, NEW p \in Interp, NEW pcs \in [Proc -> PC],
         NEW f \in [Slot -> Desc], NEW s, Leave(p, pcs, f, s),
         p = Shell => Own(f)
  PROVE  LocalOf(p)'
<1>1. CASE p # Shell
  BY <1>1, LeaveEffect, GoneLocal, ProcTypes DEF GonePC
<1>2. CASE p = Shell
  <2>1. pc'[Shell] = "prompt" /\ fds'[Shell] = f /\ tree' = tree
    BY <1>2, LeaveEffect
  <2>2. Own(fds[Shell])'
    BY <1>2, <2>1 DEF Own, Plain
  <2>3. QED
    BY <1>2, <2>1, <2>2, OwnPrompt
<1>3. QED
  BY <1>1, <1>2

\* What the steps below rely on about the acting process.
LEMMA Acting ==
  ASSUME TypeOK, Local, NEW p \in Interp
  PROVE  /\ p \in Proc /\ LocalOf(p) /\ fds[p] \in [Slot -> Desc]
         /\ NodeOf(p) \in Node /\ PreOrder(tree) /\ tree \in Tree
         /\ pc \in [Proc -> PC] /\ cur \in [Proc -> Node \cup {Nil}]
         /\ fds \in [Proc -> [Slot -> Desc]] /\ rs \in [Proc -> RedirNodes]
         /\ {"in", "out", "svin", "svout", "pr", "pw", "leak"} = Slot
  BY ProcTypes, NodeOfType DEF TypeOK, Local, Slot

\* A return from execute_ast keeps Local.
LEMMA LeaveStep ==
  ASSUME TypeOK, Local, NEW p \in Interp, NEW f \in [Slot -> Desc], NEW s,
         Leave(p, pc, f, s), p = Shell => Own(f)
  PROVE  Local'
<1>1. Others({p})
  BY LeaveEffect, Acting DEF Others
<1>2. LocalOf(p)'
  BY LeaveLocal, Acting
<1>3. QED
  BY <1>1, <1>2, FrameLocal

\* The same, when the pipes are left as they are.
LEMMA ReturnStep ==
  ASSUME TypeOK, Local, NEW p \in Interp, NEW f \in [Slot -> Desc], NEW s,
         Return(p, pc, f, s), p = Shell => Own(f)
  PROVE  Local'
  BY LeaveStep DEF Return

\* Where the code has no copy of its standard descriptors, it has its own, or
\* what it was left with; and so it is after restore_fds.
LEMMA OwnFds ==
  ASSUME TypeOK, NEW p \in Interp, LocalOf(p), p = Shell
  PROVE  /\ pc[p] \in {"dispatch", "pipe", "save", "reap1", "wait1", "wait2"}
              => Own(fds[p])
         /\ pc[p] \in MakerPC => Own(Closed(fds[p]))
         /\ pc[p] \in RunPC => \A lost \in Losses : Own(Restored(Closed(fds[p]), lost))
         /\ pc[p] \in RunPC \ HeredocPC => \A lost \in Losses : Own(Restored(fds[p], lost))
<1>0. /\ fds[p] \in [Slot -> Desc]
      /\ {"in", "out", "svin", "svout", "pr", "pw", "leak"} = Slot
  BY ProcTypes DEF TypeOK, Slot
<1>1. \A n \in Node : /\ fds[p]["in"] = R(n) => tree.kind[n] # "pipe"
                      /\ fds[p]["svin"] = R(n) => tree.kind[n] # "pipe"
  <2>1. LocalOf(Shell) /\ "in" \in Std /\ "svin" \in Std
    BY DEF Std
  <2>2. \A s \in Std, n \in Node : fds[Shell][s] = R(n) => tree.kind[n] # "pipe"
    BY <2>1, ShellApart, Zenon DEF Std
  <2>3. QED
    BY <2>1, <2>2
<1>2. CASE pc[p] \in {"dispatch", "pipe", "save", "reap1", "wait1", "wait2"} \cup MakerPC
  <2>1. /\ pc[p] \notin RunPC \cup {"exited"}
        /\ pc[p] \notin MakerPC => pc[p] \notin HoldPC
    BY <1>2 DEF RunPC, HoldPC, HeredocPC, MakerPC, SetupPC
  <2>2. /\ OwnedAs(fds[p], "in", "out") /\ fds[p]["svin"] = Shut /\ fds[p]["svout"] = Shut
        /\ Plain(fds[p]["in"]) /\ fds[p]["out"][1] \in {"tty", "file"}
        /\ pc[p] \notin MakerPC => fds[p]["pr"] = Shut /\ fds[p]["pw"] = Shut
    BY <1>1, <2>1 DEF LocalOf, HoldOf, Plain
  <2>3. Own(Closed(fds[p]))
    BY <1>0, <2>2 DEF Own, OwnedAs, Closed
  <2>4. pc[p] \notin MakerPC => Own(fds[p])
    BY <2>2 DEF Own
  <2>5. pc[p] \in {"dispatch", "pipe", "save", "reap1", "wait1", "wait2"} => pc[p] \notin MakerPC
    BY DEF MakerPC
  <2>6. pc[p] \notin RunPC
    BY <2>1
  <2>7. QED
    BY <2>3, <2>4, <2>5, <2>6
<1>3. CASE pc[p] \in RunPC
  <2>1. pc[p] \notin MakerPC \cup {"exited", "dispatch", "pipe", "save", "reap1", "wait1", "wait2"}
    BY <1>3 DEF RunPC, HeredocPC, MakerPC
  <2>2. /\ OwnedAs(fds[p], "svin", "svout")
        /\ fds[p]["in"][1] \in {"tty", "file", "r"} /\ fds[p]["out"][1] \in {"tty", "file"}
    BY <1>3, <2>1 DEF LocalOf, HoldOf
  <2>3. fds[p]["svin"][1] \in {"tty", "file", "r"} /\ fds[p]["svout"][1] \in {"tty", "file"}
    <3>1. ShellFds["in"] = Tty /\ ShellFds["out"] = Tty /\ Tty[1] = "tty"
      BY DEF ShellFds, Slot, Tty
    <3>2. QED
      BY <2>2, <3>1 DEF OwnedAs, Owned
  <2>4. ASSUME NEW lost \in Losses, NEW f \in {fds[p], Closed(fds[p])},
               f["pr"] = Shut, f["pw"] = Shut
        PROVE  Own(Restored(f, lost))
    <3> DEFINE g == Restored(f, lost)
    <3>1. /\ f \in [Slot -> Desc]
          /\ \A s \in {"in", "out", "svin", "svout", "leak"} : f[s] = fds[p][s]
      <4>1. CASE f = fds[p]
        BY <1>0, <4>1
      <4>2. CASE f = Closed(fds[p])
        <5>1. f = [fds[p] EXCEPT !["pr"] = Shut, !["pw"] = Shut]
          BY <4>2 DEF Closed
        <5>2. f \in [Slot -> Desc]
          BY <1>0, <4>2, SlotFacts
        <5>3. QED
          BY <1>0, <5>1, <5>2
      <4>3. QED
        BY <4>1, <4>2
    <3>2. /\ g["in"] = IF "in" \in lost THEN fds[p]["in"] ELSE fds[p]["svin"]
          /\ g["out"] = IF "out" \in lost THEN fds[p]["out"] ELSE fds[p]["svout"]
          /\ g["leak"] = fds[p]["leak"] /\ g["svin"] = Shut /\ g["svout"] = Shut
          /\ g["pr"] = Shut /\ g["pw"] = Shut
      BY <1>0, <2>4, <3>1 DEF Restored
    <3>3. lost \subseteq Faults
      BY DEF Losses
    <3>4. OwnedAs(g, "in", "out")
      BY <2>2, <3>2, <3>3 DEF OwnedAs, Owned
    <3>5. Plain(g["in"]) /\ g["out"][1] \in {"tty", "file"}
      BY <1>1, <2>2, <2>3, <3>2 DEF Plain
    <3>6. QED
      BY <3>2, <3>4, <3>5 DEF Own
  <2>5. Closed(fds[p])["pr"] = Shut /\ Closed(fds[p])["pw"] = Shut
    BY <1>0 DEF Closed
  <2>6. pc[p] \notin HeredocPC => fds[p]["pr"] = Shut /\ fds[p]["pw"] = Shut
    BY <1>3, <2>1 DEF LocalOf, HoldOf, HoldPC, SetupPC, RunPC, HeredocPC
  <2>7. QED
    BY <2>1, <2>4, <2>5, <2>6
<1>4. QED
  BY <1>2, <1>3

\* dispatch_ast_node keeps Local.
LEMMA DispatchLocal ==
  ASSUME TypeOK, Local, NEW p \in Interp, Dispatch(p)
  PROVE  Local'
<1>0. LocalOf(p) /\ pc[p] = "dispatch" /\ NodeOf(p) \in Node
  BY Acting DEF Dispatch
<1>1. CASE \E s : Return(p, pc, fds[p], s)
  BY <1>0, <1>1, ReturnStep, OwnFds, Acting
<1>2. CASE ~\E s : Return(p, pc, fds[p], s)
  <2>1. /\ \/ /\ pc'[p] = "pipe" /\ tree.kind[NodeOf(p)] = "pipe"
              /\ tree.left[NodeOf(p)] # Nil /\ tree.right[NodeOf(p)] # Nil
           \/ pc'[p] = "save" /\ cur'[p] = NodeOf(p)
        /\ fds'[p] = fds[p] /\ Others({p})
    BY <1>2, Acting DEF Dispatch, Goto, Others
  <2>2. NodeOf(p)' = NodeOf(p) /\ tree' = tree
    BY <2>1 DEF Others, NodeOf
  <2>3. /\ pc'[p] \notin RunPC \cup {"exited"} \cup HoldPC \cup MakerPC \cup HeredocPC \cup SetupPC \cup GonePC
        /\ pc[p] \notin RunPC \cup {"exited"} \cup HoldPC \cup MakerPC \cup SetupPC
    BY <1>0, <2>1 DEF RunPC, HoldPC, HeredocPC, MakerPC, SetupPC, GonePC
  <2>4. HoldOf(p)' /\ PipeOf(p)'
    BY <1>0, <2>1, <2>3 DEF LocalOf, HoldOf, PipeOf
  <2>5. SeparatedAt(p)'
    <3>1. \A s \in {"pr", "pw"} : fds[p][s] = Shut
      BY <1>0, <2>3 DEF LocalOf, HoldOf
    <3>2. QED
      BY <1>0, <2>1, <2>2, <3>1 DEF LocalOf, SeparatedAt, Below
  <2>6. ShapeOf(p)'
    <3>1. pc'[p] \in Labels(p)'
      BY <2>1, Acting DEF Labels, InterpPC, Interp
    <3>2. Below(NodeOf(p), NodeOf(p)) /\ NodeOf(p) # Nil
      BY Acting, NodeOfType DEF PreOrder, Below
    <3>3. pc'[p] = "pipe" \/ pc'[p] \notin PipePC
      BY <2>1 DEF PipePC
    <3>4. QED
      BY <1>0, <2>1, <2>2, <2>3, <3>1, <3>2, <3>3 DEF ShapeOf, Below
  <2>7. LocalOf(p)'
    BY <2>4, <2>5, <2>6 DEF LocalOf
  <2>8. QED
    BY <2>1, <2>7, FrameLocal
<1>3. QED
  BY <1>1, <1>2

\* A process whose standard descriptors are files, the terminal or some it
\* had before keeps the separation of the pipes' ends.
LEMMA SepFrom ==
  ASSUME NEW p \in Proc, tree' = tree, SeparatedAt(p),
         \A s \in Std : \/ fds'[p][s][1] \notin {"r", "w"}
                       \/ \E s2 \in Std : fds'[p][s] = fds[p][s2],
         \/ fds'[p]["pr"] = Shut /\ fds'[p]["pw"] = Shut
         \/ pc'[p] \in HoldPC
  PROVE  SeparatedAt(p)'
<1>1. NodeOf(p)' = NodeOf(p)
  BY DEF NodeOf
<1>2. ASSUME NEW n \in Node, NEW s \in Std
      PROVE  /\ fds'[p][s] = W(n) => /\ tree.kind[n] = "pipe"
                                     /\ Below(NodeOf(p), tree.left[n])
             /\ fds'[p][s] = R(n) /\ tree.kind[n] = "pipe"
                      => Below(NodeOf(p), tree.right[n])
  <2>1. R(n)[1] = "r" /\ W(n)[1] = "w"
    BY DEF R, W
  <2>2. QED
    BY <2>1 DEF SeparatedAt, Std
<1>3. QED
  BY <1>1, <1>2 DEF SeparatedAt, Below, HoldPC, MakerPC, HeredocPC, Std

\* Being below is transitive.
LEMMA BelowTrans ==
  ASSUME NodeAssumption, PreOrder(tree), NEW a \in Node, NEW b \in Node, NEW c \in Node,
         Below(a, b), Below(b, c), tree \in Tree
  PROVE  Below(a, c)
<1>1. b <= tree.last[b] /\ tree.last[b] <= tree.last[c]
  BY DEF PreOrder, Below
<1>2. tree.last[b] \in Nat /\ tree.last[c] \in Nat /\ a \in Nat /\ b \in Nat /\ c \in Nat
  BY NodeAssumption DEF Tree
<1>3. QED
  BY <1>1, <1>2 DEF Below

\* The operands of a node are below it.
LEMMA OperandBelow ==
  ASSUME NodeAssumption, PreOrder(tree), tree \in Tree, NEW n \in Node
  PROVE  /\ Below(n, n)
         /\ tree.left[n] # Nil => tree.left[n] \in Node /\ Below(tree.left[n], n)
                                  /\ tree.left[n] # n
         /\ tree.right[n] # Nil => tree.right[n] \in Node /\ Below(tree.right[n], n)
                                  /\ tree.right[n] # n
<1>1. tree.last[n] \in Nat /\ n \in Nat /\ n # Nil /\ n <= tree.last[n]
  BY NodeAssumption DEF Tree, PreOrder, Nil
<1>2. ASSUME NEW k \in {tree.left[n], tree.right[n]}, k # Nil
      PROVE  k \in Node /\ Below(k, n) /\ k # n
  <2>1. k \in Node
    BY <1>2 DEF Tree
  <2>2. k \in Nat /\ tree.last[k] \in Nat /\ k <= tree.last[k]
    BY <2>1, NodeAssumption DEF Tree, PreOrder
  <2>3. n < k /\ tree.last[k] <= tree.last[n]
    BY <1>2, <2>1 DEF PreOrder
  <2>4. QED
    BY <1>1, <2>1, <2>2, <2>3 DEF Below
<1>3. QED
  BY <1>1, <1>2 DEF Below

\* A forked process inherits the separation from its parent.
LEMMA SepChild ==
  ASSUME TypeOK, NEW p \in Interp, NEW c \in Proc, tree' = tree,
         LocalOf(p), fds'[c] = fds[p], NodeOf(c) \in Node, Below(NodeOf(c), NodeOf(p)),
         \/ fds'[c]["pr"] = Shut /\ fds'[c]["pw"] = Shut
         \/ pc'[c] \in HoldPC
  PROVE  SeparatedAt(c)'
<1>1. /\ NodeOf(c)' = NodeOf(c) /\ NodeOf(p) \in Node /\ PreOrder(tree) /\ tree \in Tree
  BY NodeOfType DEF NodeOf
<1>2. ASSUME NEW n \in Node, NEW s \in Std
      PROVE  /\ fds'[c][s] = W(n) => /\ tree.kind[n] = "pipe"
                                     /\ Below(NodeOf(c), tree.left[n])
             /\ fds'[c][s] = R(n) /\ tree.kind[n] = "pipe"
                      => Below(NodeOf(c), tree.right[n])
  <2>1. \A k \in Node \cup {Nil} : Below(NodeOf(p), k) => Below(NodeOf(c), k)
    BY <1>1, BelowTrans, NodeAssumption DEF Below
  <2>2. tree.left[n] \in Node \cup {Nil} /\ tree.right[n] \in Node \cup {Nil}
    BY <1>1 DEF Tree
  <2>3. QED
    BY <2>1, <2>2 DEF LocalOf, SeparatedAt, Std
<1>3. QED
  BY <1>1, <1>2 DEF SeparatedAt, Below, HoldPC, MakerPC, HeredocPC, Std

\* What a fork does to the parent and to the child.
LEMMA ForkEffect ==
  ASSUME TypeOK, NEW p \in Proc, NEW c \in Proc, c # p, NEW l, NEW m, Fork(p, c, l, m)
  PROVE  /\ Others({p, c})
         /\ pc'[p] = m /\ fds'[p] = fds[p] /\ cur'[p] = cur[p] /\ rs'[p] = rs[p]
         /\ pc'[c] = l /\ fds'[c] = fds[p] /\ cur'[c] = cur[c] /\ rs'[c] = rs[c]
  BY DEF Fork, TypeOK, Others

\* pipe() keeps Local.
LEMMA MakePipeLocal ==
  ASSUME TypeOK, Local, NEW p \in Interp, MakePipe(p)
  PROVE  Local'
<1> DEFINE n == NodeOf(p)
<1>0. LocalOf(p) /\ pc[p] = "pipe" /\ n \in Node
  BY Acting DEF MakePipe
<1>1. CASE Return(p, pc, fds[p], 1)
  BY <1>0, <1>1, ReturnStep, OwnFds, Acting
<1>2. CASE ~Return(p, pc, fds[p], 1)
  <2>1. /\ Others({p}) /\ pc'[p] = "fork1"
        /\ fds'[p] = [fds[p] EXCEPT !["pr"] = R(n), !["pw"] = W(n)]
    BY <1>2, Acting DEF MakePipe, Goto, Others
  <2>2. /\ fds'[p]["pr"] = R(n) /\ fds'[p]["pw"] = W(n)
        /\ \A s \in Std \cup {"leak"} : fds'[p][s] = fds[p][s]
    BY <2>1, Acting DEF Std
  <2>3. NodeOf(p)' = NodeOf(p) /\ tree' = tree
    BY <2>1 DEF Others, NodeOf
  <2>4. /\ pc[p] \in PipePC
        /\ pc[p] \notin RunPC \cup HoldPC \cup MakerPC \cup SetupPC \cup GonePC \cup {"exited"}
        /\ pc'[p] \in HoldPC \cap MakerPC \cap PipePC
        /\ pc'[p] \notin RunPC \cup HeredocPC \cup SetupPC \cup GonePC \cup {"exited", "save"}
    BY <1>0, <2>1 DEF PipePC, RunPC, HoldPC, HeredocPC, MakerPC, SetupPC, GonePC
  <2>5. ShapeOf(p)'
    <3>1. pc'[p] \in Labels(p)'
      BY <2>1, Acting DEF Labels, InterpPC, Interp
    <3>2. QED
      BY <1>0, <2>3, <2>4, <3>1 DEF ShapeOf, LocalOf
  <2>6. HoldOf(p)' /\ PipeOf(p)'
    BY <1>0, <2>2, <2>3, <2>4 DEF HoldOf, OwnedAs, Owned, PipeOf, LocalOf, Std
  <2>7. SeparatedAt(p)'
    BY <1>0, <2>2, <2>3, <2>4, SepFrom, Acting DEF LocalOf
  <2>8. QED
    BY <2>1, <2>5, <2>6, <2>7, FrameLocal DEF LocalOf
<1>3. QED
  BY <1>1, <1>2

\* Closing pipefd and going on: ClosePipe, and ForkRight without a child.
LEMMA CloseLocal ==
  ASSUME TypeOK, Local, NEW p \in Interp, pc[p] \in {"fork2", "close"},
         NEW l \in {"reap1", "wait1"}, Goto(p, l),
         fds' = [fds EXCEPT ![p] = Closed(@)], UNCHANGED <<tree, cur, rs>>
  PROVE  Local'
<1>0. LocalOf(p) /\ NodeOf(p) \in Node
  BY Acting
<1>1. Others({p}) /\ pc'[p] = l /\ fds'[p] = Closed(fds[p])
  BY Acting DEF Goto, Others
<1>2. /\ fds'[p]["pr"] = Shut /\ fds'[p]["pw"] = Shut
      /\ \A s \in Std \cup {"leak"} : fds'[p][s] = fds[p][s]
  BY <1>1, Acting DEF Std, Closed
<1>3. NodeOf(p)' = NodeOf(p) /\ tree' = tree
  BY <1>1 DEF Others, NodeOf
<1>4. /\ pc[p] \in PipePC
      /\ pc[p] \notin RunPC \cup {"exited"}
      /\ pc'[p] \in PipePC
      /\ pc'[p] \notin RunPC \cup HeredocPC \cup MakerPC \cup SetupPC \cup GonePC \cup {"save"}
  BY <1>1 DEF PipePC, RunPC, HeredocPC, MakerPC, SetupPC, GonePC
<1>5. ShapeOf(p)'
  <2>1. pc'[p] \in Labels(p)'
    BY <1>1, Acting DEF Labels, InterpPC, Interp
  <2>2. QED
    BY <1>0, <1>3, <1>4, <2>1 DEF ShapeOf, LocalOf
<1>6. HoldOf(p)' /\ PipeOf(p)'
  BY <1>0, <1>2, <1>3, <1>4 DEF HoldOf, OwnedAs, Owned, PipeOf, LocalOf, Std
<1>7. SeparatedAt(p)'
  BY <1>0, <1>2, <1>3, SepFrom, Acting DEF LocalOf
<1>8. QED
  BY <1>1, <1>5, <1>6, <1>7, FrameLocal DEF LocalOf

\* fork() of an operand's child, k being the operand.
LEMMA ForkLocal ==
  ASSUME TypeOK, Local, NEW p \in Interp, NEW k \in Node, NEW l, NEW m,
         \/ pc[p] = "fork1" /\ l = "left_child" /\ m = "fork2"
               /\ k = tree.left[NodeOf(p)]
         \/ pc[p] = "fork2" /\ l = "right_child" /\ m = "close"
               /\ k = tree.right[NodeOf(p)],
         Fork(p, Child(k), l, m)
  PROVE  Local'
<1> DEFINE c == Child(k)
           n == NodeOf(p)
<1>0. /\ LocalOf(p) /\ n \in Node /\ c \in Interp /\ c \in Proc /\ c # Shell
      /\ c \in Children /\ tree.kind[n] = "pipe" /\ k # Nil
  BY Acting, ProcTypes, NodeAssumption DEF LocalOf, ShapeOf, PipePC, Nil, Children, Child
<1>1. NodeOf(c) = k
  BY <1>0 DEF NodeOf, Child
<1>2. k # n /\ Below(k, n) /\ c # p
  BY <1>0, <1>1, OperandBelow, Acting, NodeAssumption
<1>3. /\ Others({p, c})
      /\ pc'[p] = m /\ fds'[p] = fds[p] /\ cur'[p] = cur[p] /\ rs'[p] = rs[p]
      /\ pc'[c] = l /\ fds'[c] = fds[p]
  <2>1. p \in Proc /\ Fork(p, c, l, m)
    BY ProcTypes
  <2>2. QED
    BY <1>0, <1>2, <2>1, ForkEffect
<1>4. tree' = tree /\ NodeOf(p)' = NodeOf(p) /\ NodeOf(c)' = NodeOf(c)
  BY <1>3 DEF Others, NodeOf
<1>5. /\ pc[p] \in PipePC \cap MakerPC
      /\ pc[p] \notin RunPC \cup HeredocPC \cup SetupPC \cup GonePC \cup {"exited", "save"}
      /\ pc'[p] \in PipePC \cap MakerPC \cap HoldPC
      /\ pc'[p] \notin RunPC \cup HeredocPC \cup SetupPC \cup GonePC \cup {"exited", "save"}
      /\ pc'[c] \in HoldPC \cap SetupPC
      /\ pc'[c] \notin RunPC \cup HeredocPC \cup MakerPC \cup PipePC \cup GonePC \cup {"save"}
  BY <1>3 DEF PipePC, RunPC, HoldPC, HeredocPC, MakerPC, SetupPC, GonePC
<1>6. fds[p]["pr"] = R(n) /\ fds[p]["pw"] = W(n)
  BY <1>0, <1>5 DEF LocalOf, PipeOf
<1>7. LocalOf(p)'
  <2>1. pc'[p] \in Labels(p)'
    BY <1>3, Acting DEF Labels, InterpPC, Interp
  <2>2. ShapeOf(p)'
    BY <1>0, <1>4, <1>5, <2>1 DEF ShapeOf, LocalOf
  <2>3. HoldOf(p)' /\ PipeOf(p)'
    BY <1>0, <1>3, <1>4, <1>5, <1>6 DEF HoldOf, PipeOf, LocalOf
  <2>4. SeparatedAt(p)'
    BY <1>0, <1>3, <1>4, <1>5, SepFrom, Acting DEF LocalOf
  <2>5. QED
    BY <2>2, <2>3, <2>4 DEF LocalOf
<1>8. LocalOf(c)'
  <2>1. pc'[c] \in Labels(c)'
    BY <1>0, <1>3 DEF Labels, SetupPC
  <2>2. ShapeOf(c)'
    BY <1>5, <2>1 DEF ShapeOf
  <2>3. HoldOf(c)'
    BY <1>0, <1>5 DEF HoldOf
  <2>4. PipeOf(c)'
    BY <1>0, <1>1, <1>3, <1>4, <1>5, <1>6 DEF PipeOf
  <2>5. SeparatedAt(c)'
    BY <1>0, <1>1, <1>2, <1>3, <1>4, <1>5, SepChild
  <2>6. QED
    BY <2>2, <2>3, <2>4, <2>5 DEF LocalOf
<1>9. QED
  BY <1>3, <1>7, <1>8, FrameLocal

\* A process returns having reaped its child c.
LEMMA ReapStep ==
  ASSUME TypeOK, Local, NEW p \in Interp, NEW c \in Proc, c # Shell, c # p,
         pc[c] = "zombie", NEW f \in [Slot -> Desc], NEW s,
         Return(p, [pc EXCEPT ![c] = "none"], f, s), p = Shell => Own(f)
  PROVE  Local'
<1> DEFINE pcs == [pc EXCEPT ![c] = "none"]
<1>1. pcs \in [Proc -> PC] /\ pcs[c] = "none" /\ \A q \in Proc \ {c} : pcs[q] = pc[q]
  BY Acting DEF PC, GonePC
<1> HIDE DEF pcs
<1>2. /\ tree' = tree
      /\ \A q \in Proc \ {p} : /\ pc'[q] = pcs[q] /\ cur'[q] = cur[q]
                               /\ rs'[q] = rs[q] /\ fds'[q] = fds[q]
  BY <1>1, LeaveEffect DEF pcs, Return
<1>3. Others({p, c})
  BY <1>1, <1>2 DEF Others
<1>4. LocalOf(p)'
  BY <1>1, LeaveLocal DEF pcs, Return
<1>5. LocalOf(c)'
  <2>1. fds[c] = NoFds
    BY DEF Local, LocalOf, HoldOf, GonePC
  <2>2. QED
    BY <1>1, <1>2, <2>1, GoneLocal DEF GonePC
<1>6. QED
  BY <1>3, <1>4, <1>5, FrameLocal

\* The children a pipe node waits for are other processes.
LEMMA OperandChild ==
  ASSUME TypeOK, Local, NEW p \in Interp, pc[p] \in PipePC
  PROVE  \A k \in {tree.left[NodeOf(p)], tree.right[NodeOf(p)]} :
            /\ k \in Node /\ Below(k, NodeOf(p)) /\ k # NodeOf(p)
            /\ Child(k) \in Proc /\ Child(k) \in Interp /\ Child(k) # Shell
            /\ Child(k) # p /\ Child(k)[2] = k /\ NodeOf(Child(k)) = k
<1>1. LocalOf(p) /\ NodeOf(p) \in Node
  BY Acting
<1>2. tree.left[NodeOf(p)] # Nil /\ tree.right[NodeOf(p)] # Nil
  BY <1>1 DEF LocalOf, ShapeOf
<1>3. \A k \in {tree.left[NodeOf(p)], tree.right[NodeOf(p)]} :
        k \in Node /\ Below(k, NodeOf(p)) /\ k # NodeOf(p)
  BY <1>1, <1>2, OperandBelow, Acting, NodeAssumption
<1>4. \A k \in Node : /\ Child(k) \in Proc /\ Child(k) \in Interp /\ Child(k) # Shell
                     /\ Child(k)[2] = k /\ NodeOf(Child(k)) = k
  BY ProcTypes DEF Child, NodeOf
<1>5. QED
  BY <1>3, <1>4

\* The waits of execute_pipe_command keep Local.
LEMMA WaitLocal ==
  ASSUME TypeOK, Local, NEW p \in Interp, ReapLeft(p) \/ WaitLeft(p) \/ WaitRight(p)
  PROVE  Local'
<1> DEFINE n == NodeOf(p)
           k == tree.left[n]
           m == tree.right[n]
<1>0. /\ LocalOf(p) /\ pc[p] \in PipePC /\ n \in Node
      /\ Child(k) \in Proc /\ Child(k) # Shell /\ Child(k) # p
      /\ Child(m) \in Proc /\ Child(m) # Shell /\ Child(m) # p
  <2>1. LocalOf(p) /\ pc[p] \in PipePC /\ n \in Node
    BY Acting DEF ReapLeft, WaitLeft, WaitRight, PipePC
  <2>2. QED
    BY <2>1, OperandChild
<1>1. CASE ReapLeft(p)
  <2>1. pc[p] = "reap1" /\ pc[Child(k)] = "zombie"
    BY <1>1 DEF ReapLeft
  <2>2. p = Shell => Own(fds[p])
    BY <1>0, <2>1, OwnFds
  <2>3. Return(p, [pc EXCEPT ![Child(k)] = "none"], fds[p], 1)
    BY <1>1 DEF ReapLeft
  <2>4. QED
    BY <1>0, <2>1, <2>2, <2>3, ReapStep, Acting
<1>2. CASE WaitRight(p)
  <2>1. pc[p] = "wait2" /\ pc[Child(m)] = "zombie"
    BY <1>2 DEF WaitRight
  <2>2. p = Shell => Own(fds[p])
    BY <1>0, <2>1, OwnFds
  <2>3. Return(p, [pc EXCEPT ![Child(m)] = "none"], fds[p], Decode(rc[Child(m)]))
    BY <1>2 DEF WaitRight
  <2>4. QED
    BY <1>0, <2>1, <2>2, <2>3, ReapStep, Acting
<1>3. CASE WaitLeft(p)
  <2>0. PICK c \in Proc : c = Child(k) /\ c # Shell /\ c # p
    BY <1>0
  <2>1. /\ Others({p, c}) /\ pc[p] = "wait1" /\ pc'[p] = "wait2" /\ fds' = fds
        /\ pc[c] = "zombie" /\ pc'[c] = "none"
    BY <2>0, <1>3, Acting DEF WaitLeft, Others
  <2>2. LocalOf(c)'
    <3>1. fds[c] = NoFds
      BY <2>0, <2>1 DEF Local, LocalOf, HoldOf, GonePC
    <3>2. c \in Proc \ {Shell} /\ pc'[c] \in GonePC /\ fds'[c] = NoFds
      BY <2>0, <2>1, <3>1 DEF GonePC
    <3>3. QED
      BY <3>2, GoneLocal
  <2>3. NodeOf(p)' = NodeOf(p) /\ tree' = tree
    BY <2>1 DEF Others, NodeOf
  <2>4. /\ pc[p] \in PipePC /\ pc'[p] \in PipePC
        /\ pc[p] \notin RunPC \cup HoldPC \cup {"exited"}
        /\ pc'[p] \notin RunPC \cup HeredocPC \cup MakerPC \cup SetupPC \cup GonePC \cup {"save"}
    BY <2>1 DEF PipePC, RunPC, HoldPC, HeredocPC, MakerPC, SetupPC, GonePC
  <2>5. ShapeOf(p)'
    <3>1. pc'[p] \in Labels(p)'
      BY <2>1, Acting DEF Labels, InterpPC, Interp
    <3>2. QED
      BY <1>0, <2>3, <2>4, <3>1 DEF ShapeOf, LocalOf
  <2>6. HoldOf(p)' /\ PipeOf(p)'
    BY <1>0, <2>1, <2>4 DEF HoldOf, PipeOf, LocalOf
  <2>7. SeparatedAt(p)'
    <3>1. fds'[p]["pr"] = Shut /\ fds'[p]["pw"] = Shut
      BY <1>0, <2>1, <2>4 DEF HoldOf, LocalOf
    <3>2. QED
      BY <1>0, <2>1, <2>3, <3>1, SepFrom, Acting DEF LocalOf
  <2>8. LocalOf(p)'
    BY <2>5, <2>6, <2>7 DEF LocalOf
  <2>9. QED
    BY <2>1, <2>2, <2>8, FrameLocal
<1>4. QED
  BY <1>1, <1>2, <1>3

\* left_child and right_child keep Local.
LEMMA SetupLocal ==
  ASSUME TypeOK, Local, NEW p \in Interp, LeftChild(p) \/ RightChild(p)
  PROVE  Local'
<1>0. LocalOf(p) /\ pc[p] \in SetupPC /\ NodeOf(p) \in Node /\ p \in Proc
  BY Acting DEF LeftChild, RightChild, SetupPC
<1>1. p # Shell
  BY <1>0 DEF LocalOf, ShapeOf, Labels, InterpPC, ShellPC, SetupPC
<1>2. CASE Die(p, <<"exit", 1>>) /\ UNCHANGED <<tree, buf, gx>>
  <2>1. Others({p}) /\ pc'[p] = "zombie" /\ fds'[p] = NoFds
    BY <1>2, Acting DEF Die, Others
  <2>2. QED
    BY <1>0, <1>1, <2>1, GoneLocal, FrameLocal DEF GonePC
<1>3. CASE ~(Die(p, <<"exit", 1>>) /\ UNCHANGED <<tree, buf, gx>>)
  <2>1. PICK n \in Node :
          /\ tree.kind[n] = "pipe" /\ fds[p]["pr"] = R(n) /\ fds[p]["pw"] = W(n)
          /\ pc[p] = "left_child" => NodeOf(p) = tree.left[n]
          /\ pc[p] = "right_child" => NodeOf(p) = tree.right[n]
    BY <1>0 DEF LocalOf, PipeOf
  <2>2. /\ Others({p}) /\ pc'[p] = "dispatch"
        /\ \/ pc[p] = "left_child" /\ fds'[p] = Piped("out", "pw", fds[p])
           \/ pc[p] = "right_child" /\ fds'[p] = Piped("in", "pr", fds[p])
    BY <1>3, Acting DEF LeftChild, RightChild, Goto, Others
  <2>3. /\ fds'[p]["pr"] = Shut /\ fds'[p]["pw"] = Shut
        /\ \A s \in Std :
             \/ fds'[p][s] = fds[p][s]
             \/ pc[p] = "left_child" /\ fds'[p][s] = W(n)
             \/ pc[p] = "right_child" /\ fds'[p][s] = R(n)
    BY <2>1, <2>2, Acting DEF Std, Piped, Closed
  <2>4. NodeOf(p)' = NodeOf(p) /\ tree' = tree
    BY <2>2 DEF Others, NodeOf
  <2>5. pc'[p] \notin PipePC \cup RunPC \cup HeredocPC \cup MakerPC \cup SetupPC
                     \cup GonePC \cup {"save"}
    BY <2>2 DEF PipePC, RunPC, HeredocPC, MakerPC, SetupPC, GonePC
  <2>6. ShapeOf(p)' /\ HoldOf(p)' /\ PipeOf(p)'
    <3>1. pc'[p] \in Labels(p)'
      BY <2>2, Acting DEF Labels, InterpPC, Interp
    <3>2. QED
      BY <1>1, <2>3, <2>5, <3>1 DEF ShapeOf, HoldOf, PipeOf
  <2>7. SeparatedAt(p)'
    <3>1. Below(NodeOf(p), NodeOf(p))
      BY <1>0, OperandBelow, Acting, NodeAssumption
    <3>2. ASSUME NEW m \in Node, NEW s \in Std
          PROVE  /\ fds'[p][s] = W(m) => /\ tree.kind[m] = "pipe"
                                         /\ Below(NodeOf(p), tree.left[m])
                 /\ fds'[p][s] = R(m) /\ tree.kind[m] = "pipe"
                          => Below(NodeOf(p), tree.right[m])
      <4>1. CASE fds'[p][s] = fds[p][s]
        BY <1>0, <4>1 DEF LocalOf, SeparatedAt, Std
      <4>2. CASE pc[p] = "left_child" /\ fds'[p][s] = W(n)
        BY <2>1, <3>1, <4>2 DEF R, W
      <4>3. CASE pc[p] = "right_child" /\ fds'[p][s] = R(n)
        BY <2>1, <3>1, <4>3 DEF R, W
      <4>4. QED
        BY <2>3, <4>1, <4>2, <4>3
    <3>3. QED
      BY <2>3, <2>4, <3>2 DEF SeparatedAt, Below, Std
  <2>8. QED
    BY <2>2, <2>6, <2>7, FrameLocal DEF LocalOf
<1>4. QED
  BY <1>2, <1>3

\* The steps of execute_pipe_command keep Local.
LEMMA PipesLocal ==
  ASSUME TypeOK, Local, NEW p \in Interp, Pipes(p)
  PROVE  Local'
<1>1. CASE MakePipe(p)
  BY <1>1, MakePipeLocal
<1>2. CASE ForkLeft(p)
  <2>0. LocalOf(p) /\ pc[p] = "fork1" /\ pc[p] \in PipePC \cap MakerPC
    BY <1>2, Acting DEF ForkLeft, PipePC, MakerPC
  <2>1. CASE Return(p, pc, Closed(fds[p]), 1)
    BY <2>0, <2>1, OwnFds, ReturnStep, Acting, SlotFacts
  <2>2. CASE ~Return(p, pc, Closed(fds[p]), 1)
    BY <1>2, <2>0, <2>2, ForkLocal, OperandChild DEF ForkLeft
  <2>3. QED
    BY <2>1, <2>2
<1>3. CASE ForkRight(p)
  <2>0. LocalOf(p) /\ pc[p] = "fork2" /\ pc[p] \in PipePC
    BY <1>3, Acting DEF ForkRight, PipePC
  <2>1. CASE Fork(p, Child(tree.right[NodeOf(p)]), "right_child", "close")
    BY <2>0, <2>1, ForkLocal, OperandChild
  <2>2. CASE ~Fork(p, Child(tree.right[NodeOf(p)]), "right_child", "close")
    BY <1>3, <2>0, <2>2, CloseLocal DEF ForkRight
  <2>3. QED
    BY <2>1, <2>2
<1>4. CASE ClosePipe(p)
  BY <1>4, CloseLocal DEF ClosePipe
<1>5. CASE ReapLeft(p) \/ WaitLeft(p) \/ WaitRight(p)
  BY <1>5, WaitLocal
<1>6. CASE LeftChild(p) \/ RightChild(p)
  BY <1>6, SetupLocal
<1>7. QED
  BY <1>1, <1>2, <1>3, <1>4, <1>5, <1>6 DEF Pipes

\* The end of a command or of a redirection chain keeps Local.
LEMMA FinalStep ==
  ASSUME TypeOK, Local, NEW p \in Interp, pc[p] \in RunPC, NEW s, NEW lost \in Losses,
         Leave(p, pc, Restored(Closed(fds[p]), lost), s)
  PROVE  Local'
<1>1. LocalOf(p) /\ Restored(Closed(fds[p]), lost) \in [Slot -> Desc]
  BY Acting, SlotFacts
<1>2. p = Shell => Own(Restored(Closed(fds[p]), lost))
  BY <1>1, OwnFds
<1>3. QED
  BY <1>1, <1>2, LeaveStep

\* The same, when the pipes are left as they are.
LEMMA FinishStep ==
  ASSUME TypeOK, Local, NEW p \in Interp, pc[p] \in RunPC, NEW s, Finish(p, s)
  PROVE  Local'
  BY FinalStep DEF Finish, Return

\* A process killed by SIGPIPE keeps Local.
LEMMA KilledLocal ==
  ASSUME TypeOK, Local, NEW p \in Proc \ {Shell}, NEW w, Die(p, w), UNCHANGED tree
  PROVE  Local'
<1>1. Others({p}) /\ pc'[p] = "zombie" /\ fds'[p] = NoFds
  BY DEF Die, Others, TypeOK
<1>2. QED
  BY <1>1, GoneLocal, FrameLocal DEF GonePC

(***************************************************************************)
(* A step inside a redirection chain or a here-document: the label stays   *)
(* in RunPC, the saved descriptors stay, and the command node is still     *)
(* below the process's own.                                                *)
(***************************************************************************)
LEMMA RunStep ==
  ASSUME TypeOK, Local, NEW p \in Interp, Others({p}),
         pc[p] \in RunPC, pc'[p] \in RunPC,
         cur'[p] \in Node, Below(cur'[p], NodeOf(p)),
         pc'[p] \in HeredocPC =>
           /\ rs'[p] # <<>>
           /\ \E h \in Node : /\ tree.kind[h] = "heredoc"
                            /\ fds'[p]["pr"] = R(h) /\ fds'[p]["pw"] = W(h),
         pc'[p] \notin HeredocPC => fds'[p]["pr"] = Shut /\ fds'[p]["pw"] = Shut,
         \A s \in {"svin", "svout", "leak"} : fds'[p][s] = fds[p][s],
         \A s \in {"in", "out"} :
            \/ fds'[p][s] = fds[p][s]
            \/ fds'[p][s][1] = "file"
            \/ \E h \in Node : s = "in" /\ tree.kind[h] = "heredoc" /\ fds'[p][s] = R(h)
  PROVE  Local'
<1>0. LocalOf(p) /\ NodeOf(p) \in Node /\ tree' = tree /\ NodeOf(p)' = NodeOf(p)
  BY Acting DEF Others, NodeOf
<1>1. pc'[p] \notin PipePC \cup MakerPC \cup SetupPC \cup GonePC
  BY DEF RunPC, PipePC, HeredocPC, MakerPC, SetupPC, GonePC
<1>2. ShapeOf(p)'
  <2>1. pc'[p] \in Labels(p)'
    BY Acting DEF Labels, InterpPC, RunPC, HeredocPC, Interp
  <2>2. QED
    BY <1>0, <1>1, <2>1 DEF ShapeOf, Below
<1>3. HoldOf(p)'
  <2>1. p = Shell => OwnedAs(fds[p], "svin", "svout")'
    BY <1>0 DEF HoldOf, LocalOf, OwnedAs, Owned
  <2>2. pc[p] # "exited"
    BY DEF RunPC, HeredocPC
  <2>3. p = Shell => /\ fds'[p]["in"][1] \in {"tty", "file", "r"}
                     /\ fds'[p]["out"][1] \in {"tty", "file"}
    BY <1>0, <2>2 DEF HoldOf, LocalOf, R
  <2>4. pc'[p] \in HeredocPC => pc'[p] \in HoldPC
    BY <1>1 DEF HoldPC
  <2>5. QED
    BY <1>1, <2>1, <2>3, <2>4 DEF HoldOf
<1>4. PipeOf(p)'
  BY <1>0, <1>1 DEF PipeOf
<1>5. SeparatedAt(p)'
  <2>1. ASSUME NEW n \in Node, NEW s \in Std
        PROVE  /\ fds'[p][s] = W(n) => /\ tree.kind[n] = "pipe"
                                       /\ Below(NodeOf(p), tree.left[n])
               /\ fds'[p][s] = R(n) /\ tree.kind[n] = "pipe"
                        => Below(NodeOf(p), tree.right[n])
    <3>1. CASE fds'[p][s] = fds[p][s]
      BY <1>0, <3>1 DEF LocalOf, SeparatedAt, Std
    <3>2. CASE fds'[p][s][1] = "file"
      BY <3>2 DEF R, W
    <3>3. CASE \E h \in Node : tree.kind[h] = "heredoc" /\ fds'[p][s] = R(h)
      BY <3>3 DEF R, W
    <3>4. QED
      BY <3>1, <3>2, <3>3 DEF Std
  <2>2. \A s \in {"pr", "pw"} : fds'[p][s] # Shut => pc'[p] \in HeredocPC
    OBVIOUS
  <2>3. QED
    BY <1>0, <2>1, <2>2 DEF SeparatedAt, Below, Std, HeredocPC
<1>6. QED
  BY <1>2, <1>3, <1>4, <1>5, FrameLocal DEF LocalOf

\* The steps of a redirection chain keep Local.
LEMMA ChainLocal ==
  ASSUME TypeOK, Local, NEW p \in Interp, Chain(p)
  PROVE  Local'
<1>0. LocalOf(p) /\ p \in Proc /\ NodeOf(p) \in Node
  BY Acting
<1>1. CASE SaveFds(p)
  <2>0. pc[p] = "save" /\ cur[p] \in Node /\ Below(cur[p], NodeOf(p))
    BY <1>0, <1>1 DEF SaveFds, LocalOf, ShapeOf
  <2> DEFINE f == [fds[p] EXCEPT !["leak"] = fds[p]["out"]]
  <2>1. CASE Return(p, pc, fds[p], 1)
    BY <1>0, <2>0, <2>1, OwnFds, ReturnStep, Acting
  <2>9. CASE "leak" \in Faults /\ Return(p, pc, f, 1)
    <3>1. f \in [Slot -> Desc] /\ f["leak"] = fds[p]["out"]
          /\ \A s \in Slot \ {"leak"} : f[s] = fds[p][s]
      BY Acting
    <3>2. p = Shell => Own(f)
      <4>1. p = Shell => Own(fds[p])
        BY <1>0, <2>0, OwnFds
      <4>2. QED
        BY <2>9, <3>1, <4>1 DEF Own, OwnedAs, Owned, Slot
    <3>3. QED
      BY <2>9, <3>1, <3>2, ReturnStep
  <2>2. CASE ~(Return(p, pc, fds[p], 1) \/ ("leak" \in Faults /\ Return(p, pc, f, 1)))
    <3>1. /\ Others({p}) /\ pc'[p] \in {"run", "collect"} /\ cur'[p] = cur[p]
          /\ fds'[p] = Saved(fds[p])
      BY <1>1, <2>2, Acting DEF SaveFds, Goto, Others
    <3>2. /\ fds'[p]["in"] = fds[p]["in"] /\ fds'[p]["out"] = fds[p]["out"]
          /\ fds'[p]["svin"] = fds[p]["in"] /\ fds'[p]["svout"] = fds[p]["out"]
          /\ fds'[p]["pr"] = fds[p]["pr"] /\ fds'[p]["pw"] = fds[p]["pw"]
          /\ fds'[p]["leak"] = fds[p]["leak"]
      BY <3>1, Acting DEF Saved
    <3>3. /\ pc[p] \notin RunPC \cup HoldPC \cup {"exited"}
          /\ pc'[p] \in RunPC
          /\ pc'[p] \notin PipePC \cup HeredocPC \cup MakerPC \cup SetupPC \cup GonePC
      BY <2>0, <3>1 DEF RunPC, PipePC, HoldPC, HeredocPC, MakerPC, SetupPC, GonePC
    <3>4. NodeOf(p)' = NodeOf(p) /\ tree' = tree
      BY <3>1 DEF Others, NodeOf
    <3>5. ShapeOf(p)'
      <4>1. pc'[p] \in Labels(p)'
        BY <3>1, Acting DEF Labels, InterpPC, Interp
      <4>2. QED
        BY <2>0, <3>1, <3>3, <3>4, <4>1 DEF ShapeOf, Below
    <3>6. HoldOf(p)' /\ PipeOf(p)'
      BY <1>0, <3>2, <3>3 DEF HoldOf, PipeOf, LocalOf, OwnedAs
    <3>7. SeparatedAt(p)'
      BY <1>0, <3>2, <3>3, <3>4, SepFrom DEF HoldOf, LocalOf, Std
    <3>8. QED
      BY <3>1, <3>5, <3>6, <3>7, FrameLocal DEF LocalOf
  <2>3. QED
    BY <2>1, <2>2, <2>9
<1>2. CASE Collect(p)
  <2>0. /\ pc[p] = "collect" /\ pc[p] \in RunPC \ HeredocPC
        /\ cur[p] \in Node /\ Below(cur[p], NodeOf(p))
        /\ fds[p]["pr"] = Shut /\ fds[p]["pw"] = Shut
    <3>1. pc[p] = "collect" /\ pc[p] \in RunPC \ HeredocPC /\ pc[p] \notin HoldPC
      BY <1>2 DEF Collect, RunPC, HeredocPC, HoldPC, MakerPC, SetupPC
    <3>2. QED
      BY <1>0, <3>1 DEF LocalOf, ShapeOf, HoldOf
  <2>1. CASE \E s : Finish(p, s)
    BY <2>0, <2>1, FinishStep
  <2>2. CASE ~\E s : Finish(p, s)
    <3>1. /\ Others({p}) /\ fds'[p] = fds[p]
          /\ \/ pc'[p] = "collect" /\ cur'[p] = Operand(cur[p]) /\ Operand(cur[p]) # Nil
             \/ pc'[p] = "apply" /\ cur'[p] = cur[p]
      BY <1>2, <2>2, Acting DEF Collect, Goto, Others
    <3>2. cur'[p] \in Node /\ Below(cur'[p], NodeOf(p))
      <4>1. Operand(cur[p]) # Nil =>
              Operand(cur[p]) \in Node /\ Below(Operand(cur[p]), cur[p])
        BY <2>0, OperandBelow, Acting, NodeAssumption DEF Operand
      <4>2. QED
        BY <2>0, <3>1, <4>1, BelowTrans, Acting, NodeAssumption
    <3>3. pc'[p] \in RunPC \ HeredocPC
      BY <3>1 DEF RunPC, HeredocPC
    <3>4. QED
      BY <2>0, <3>1, <3>2, <3>3, RunStep
  <2>3. QED
    BY <2>1, <2>2
<1>3. CASE Apply(p)
  <2>0. /\ pc[p] = "apply" /\ pc[p] \in RunPC \ HeredocPC
        /\ cur[p] \in Node /\ Below(cur[p], NodeOf(p))
        /\ fds[p]["pr"] = Shut /\ fds[p]["pw"] = Shut /\ rs[p] # <<>>
    <3>1. pc[p] = "apply" /\ pc[p] \in RunPC \ HeredocPC /\ pc[p] \notin HoldPC
      BY <1>3 DEF Apply, RunPC, HeredocPC, HoldPC, MakerPC, SetupPC
    <3>2. QED
      BY <1>0, <1>3, <3>1 DEF LocalOf, ShapeOf, HoldOf, Apply
  <2>1. CASE \E s : Finish(p, s)
    BY <2>0, <2>1, FinishStep
  <2>2. CASE OpenFile(p, "in", File(FileUnits)) \/ OpenFile(p, "out", File(0))
             \/ (rs' = Popped(p) /\ UNCHANGED <<tree, pc, cur, fds, buf, rc, gx>>)
    <3>1. /\ Others({p}) /\ pc'[p] = pc[p] /\ cur'[p] = cur[p]
          /\ \/ fds'[p] = [fds[p] EXCEPT !["in"] = File(FileUnits)]
             \/ fds'[p] = [fds[p] EXCEPT !["out"] = File(0)]
             \/ fds'[p] = fds[p]
      BY <2>2, Acting DEF OpenFile, Popped, Others
    <3>2. /\ \A s \in {"pr", "pw", "svin", "svout", "leak"} : fds'[p][s] = fds[p][s]
          /\ \A s \in {"in", "out"} : \/ fds'[p][s] = fds[p][s]
                                   \/ fds'[p][s][1] = "file"
      <4>1. File(FileUnits)[1] = "file" /\ File(0)[1] = "file"
        BY DEF File
      <4>2. /\ fds[p] \in [Slot -> Desc]
            /\ {"in", "out", "svin", "svout", "pr", "pw", "leak"} = Slot
        BY Acting
      <4>3. /\ \A s \in {"pr", "pw", "svin", "svout", "leak"} : fds'[p][s] = fds[p][s]
            /\ fds'[p]["in"] \in {fds[p]["in"], File(FileUnits)}
            /\ fds'[p]["out"] \in {fds[p]["out"], File(0)}
        BY <3>1, <4>2
      <4>4. QED
        BY <4>1, <4>3
    <3>3. QED
      BY <2>0, <3>1, <3>2, RunStep
  <2>3. CASE tree.kind[NextRedir(p)] = "heredoc" /\ OpenHeredoc(p, NextRedir(p))
    <3> DEFINE h == NextRedir(p)
    <3>1. /\ Others({p}) /\ pc'[p] = "hd_prompt" /\ cur'[p] = cur[p] /\ rs'[p] = rs[p]
          /\ fds'[p] = [fds[p] EXCEPT !["pr"] = R(h), !["pw"] = W(h)]
      BY <2>3, Acting DEF OpenHeredoc, Goto, Others
    <3>2. /\ h \in Node /\ tree.kind[h] = "heredoc"
          /\ fds'[p]["pr"] = R(h) /\ fds'[p]["pw"] = W(h)
          /\ \A s \in Std \cup {"leak"} : fds'[p][s] = fds[p][s]
      BY <2>0, <2>3, <3>1, PopType, Acting DEF Std
    <3>3. pc'[p] \in HeredocPC /\ pc'[p] \in RunPC
      BY <3>1 DEF HeredocPC, RunPC
    <3>4. QED
      BY <2>0, <3>1, <3>2, <3>3, RunStep DEF Std
  <2>4. QED
    BY <1>3, <2>1, <2>2, <2>3 DEF Apply
<1>4. CASE AllApplied(p)
  <2>1. /\ pc[p] = "apply" /\ pc'[p] = "run" /\ cur'[p] = cur[p] /\ fds'[p] = fds[p]
        /\ Others({p})
    BY <1>4, Acting DEF AllApplied, Goto, Others
  <2>2. /\ pc[p] \in RunPC \ HeredocPC /\ pc[p] \notin HoldPC
        /\ pc'[p] \in RunPC \ HeredocPC
    BY <2>1 DEF RunPC, HeredocPC, HoldPC, MakerPC, SetupPC
  <2>3. /\ cur[p] \in Node /\ Below(cur[p], NodeOf(p))
        /\ fds[p]["pr"] = Shut /\ fds[p]["pw"] = Shut
    BY <1>0, <2>2 DEF LocalOf, ShapeOf, HoldOf
  <2>4. QED
    BY <2>1, <2>2, <2>3, RunStep
<1>5. QED
  BY <1>1, <1>2, <1>3, <1>4 DEF Chain

\* No pipe ends up in the shell's own stdout, so that it never gets SIGPIPE.
LEMMA ShellUnbroken ==
  ASSUME TypeOK, Local
  PROVE  ~BrokenPipe(Shell)
<1> DEFINE d == fds[Shell]["out"]
<1>1. d \in Desc /\ LocalOf(Shell)
  BY ProcTypes DEF TypeOK, Local, Slot
<1>2. ASSUME d[1] = "w" PROVE FALSE
  <2>1. PICK n \in Node : d = W(n)
    BY <1>1, <1>2 DEF Desc, Tty, Shut, W
  <2>2. QED
    BY <1>1, <2>1, ShellApart
<1>3. QED
  BY <1>2 DEF BrokenPipe

\* The steps of a here-document keep Local.
LEMMA HeredocLocal ==
  ASSUME TypeOK, Local, NEW p \in Interp, Heredoc(p)
  PROVE  Local'
<1>0. LocalOf(p) /\ p \in Proc
  BY Acting
<1>1. /\ pc[p] \in HeredocPC /\ pc[p] \in RunPC
  BY <1>0 DEF Heredoc, HeredocPrompt, HeredocLine, HeredocEnd, HeredocStore, HeredocPC, RunPC
<1>2. /\ cur[p] \in Node /\ Below(cur[p], NodeOf(p)) /\ rs[p] # <<>>
      /\ \E h \in Node : /\ tree.kind[h] = "heredoc"
                       /\ fds[p]["pr"] = R(h) /\ fds[p]["pw"] = W(h)
  BY <1>0, <1>1 DEF LocalOf, ShapeOf, PipeOf
<1>3. CASE BrokenPipe(p) /\ Killed(p)
  <2>1. p # Shell
    BY <1>3, ShellUnbroken
  <2>2. QED
    BY <1>0, <1>3, <2>1, KilledLocal DEF Killed
<1>4. ASSUME Others({p}), pc'[p] \in HeredocPC, cur'[p] = cur[p], rs'[p] = rs[p],
             \A s \in Slot \ {"in"} : fds'[p][s] = fds[p][s],
             fds'[p]["in"] = fds[p]["in"] \/ fds'[p]["in"][1] = "file"
      PROVE  Local'
  <2>1. pc'[p] \in RunPC
    BY <1>4 DEF RunPC
  <2>2. /\ fds'[p]["svin"] = fds[p]["svin"] /\ fds'[p]["svout"] = fds[p]["svout"]
        /\ fds'[p]["pr"] = fds[p]["pr"] /\ fds'[p]["pw"] = fds[p]["pw"]
        /\ fds'[p]["out"] = fds[p]["out"] /\ fds'[p]["leak"] = fds[p]["leak"]
    BY <1>4 DEF Slot
  <2>3. QED
    BY <1>1, <1>2, <1>4, <2>1, <2>2, RunStep
<1>5. CASE HeredocPrompt(p) /\ ~(BrokenPipe(p) /\ Killed(p))
  <2>1. /\ Others({p}) /\ pc'[p] = "hd_read" /\ cur' = cur /\ rs' = rs /\ fds' = fds
    BY <1>5, Acting DEF HeredocPrompt, Goto, Others
  <2>2. QED
    BY <1>4, <2>1 DEF HeredocPC
<1>6. CASE HeredocLine(p)
  <2>1. /\ cur' = cur /\ rs' = rs /\ tree' = tree /\ pc' = [pc EXCEPT ![p] = "hd_store"]
        /\ \/ fds' = fds
           \/ fds' = [fds EXCEPT ![p]["in"] = File(fds[p]["in"][2] - 1)]
    BY <1>6 DEF HeredocLine, ReadUnit, Goto
  <2>2. Others({p}) /\ pc'[p] = "hd_store"
    BY <2>1, Acting DEF Others
  <2>3. /\ \A s \in Slot \ {"in"} : fds'[p][s] = fds[p][s]
        /\ \/ fds'[p]["in"] = fds[p]["in"]
           \/ fds'[p]["in"] = File(fds[p]["in"][2] - 1)
    BY <1>0, <2>1, Acting
  <2>4. fds'[p]["in"] = fds[p]["in"] \/ fds'[p]["in"][1] = "file"
    BY <2>3 DEF File
  <2>5. QED
    BY <1>4, <2>1, <2>2, <2>3, <2>4 DEF HeredocPC
<1>7. CASE HeredocStore(p)
  <2>1. CASE Finish(p, -1)
    BY <1>1, <2>1, FinishStep
  <2>2. CASE ~Finish(p, -1)
    <3>1. /\ Others({p}) /\ pc'[p] = "hd_prompt" /\ cur' = cur /\ rs' = rs /\ fds' = fds
      BY <1>7, <2>2, Acting DEF HeredocStore, Goto, Others
    <3>2. QED
      BY <1>4, <3>1 DEF HeredocPC
  <2>3. QED
    BY <2>1, <2>2
<1>10. CASE HeredocEnd(p) /\ \E lost \in Losses : Leave(p, pc, Restored(Closed(fds[p]), lost), -1)
  BY <1>1, <1>10, FinalStep
<1>8. CASE HeredocEnd(p) /\ ~\E lost \in Losses : Leave(p, pc, Restored(Closed(fds[p]), lost), -1)
  <2>1. /\ Others({p}) /\ pc'[p] = "apply" /\ cur'[p] = cur[p]
        /\ fds'[p] = Piped("in", "pr", fds[p])
    BY <1>8, Acting DEF HeredocEnd, Goto, Popped, Others
  <2>2. /\ fds'[p]["in"] = fds[p]["pr"] /\ fds'[p]["out"] = fds[p]["out"]
        /\ fds'[p]["svin"] = fds[p]["svin"] /\ fds'[p]["svout"] = fds[p]["svout"]
        /\ fds'[p]["pr"] = Shut /\ fds'[p]["pw"] = Shut
        /\ fds'[p]["leak"] = fds[p]["leak"]
    BY <2>1, Acting DEF Piped, Closed
  <2>3. pc'[p] \in RunPC \ HeredocPC
    BY <2>1 DEF RunPC, HeredocPC
  <2>4. QED
    BY <1>1, <1>2, <2>1, <2>2, <2>3, RunStep
<1>9. QED
  BY <1>3, <1>5, <1>6, <1>7, <1>8, <1>10 DEF Heredoc

\* Writing its message ends an interpreter, by returning or by SIGPIPE.
LEMMA SayEffect ==
  ASSUME TypeOK, Local, NEW p \in Interp, NEW f, NEW s, Say(p, f, s)
  PROVE  Others({p}) /\ pc'[p] = IF p = Shell THEN "prompt" ELSE "zombie"
<1>1. CASE BrokenPipe(p) /\ Killed(p)
  <2>1. p # Shell
    BY <1>1, ShellUnbroken
  <2>2. QED
    BY <1>1, <2>1, Acting DEF Killed, Die, Others
<1>2. CASE Leave(p, pc, f, s)
  BY <1>2, Acting DEF Leave, Others
<1>3. QED
  BY <1>1, <1>2 DEF Say

\* A message written before returning keeps Local.
LEMMA SayLocal ==
  ASSUME TypeOK, Local, NEW p \in Interp, NEW f \in [Slot -> Desc], NEW s,
         Say(p, f, s), p = Shell => Own(f)
  PROVE  Local'
<1>1. CASE BrokenPipe(p) /\ Killed(p)
  <2>1. p # Shell
    BY <1>1, ShellUnbroken
  <2>2. QED
    BY <1>1, <2>1, Acting, KilledLocal DEF Killed
<1>2. CASE Leave(p, pc, f, s)
  BY <1>2, LeaveStep
<1>3. QED
  BY <1>1, <1>2 DEF Say

\* The "command not found" message keeps Local.
LEMMA NotFoundLocal ==
  ASSUME TypeOK, Local, NEW p \in Interp, NotFound(p)
  PROVE  Local'
<1>1. pc[p] = "dispatch" /\ Say(p, fds[p], 127)
  BY DEF NotFound
<1>2. p = Shell => Own(fds[p])
  BY <1>1, Acting, OwnFds
<1>3. QED
  BY <1>1, <1>2, Acting, SayLocal

\* The steps of a simple command keep Local.
LEMMA RunLocal ==
  ASSUME TypeOK, Local, NEW p \in Interp, Run(p)
  PROVE  Local'
<1>0. LocalOf(p) /\ p \in Proc /\ NodeOf(p) \in Node
  BY Acting
<1>1. /\ pc[p] \in {"run", "waitx"} /\ pc[p] \in RunPC \ HeredocPC /\ pc[p] \notin HoldPC
  BY <1>0 DEF Run, RunBuiltin, RunEcho, RunExit, RunProgram, WaitProgram,
              RunPC, HeredocPC, HoldPC, MakerPC, SetupPC
<1>2. /\ cur[p] \in Node /\ Below(cur[p], NodeOf(p))
      /\ fds[p]["pr"] = Shut /\ fds[p]["pw"] = Shut
  BY <1>0, <1>1 DEF LocalOf, ShapeOf, HoldOf
<1>3. CASE \E s : Finish(p, s)
  BY <1>1, <1>3, FinishStep
<1>4. CASE RunBuiltin(p)
  BY <1>3, <1>4 DEF RunBuiltin
<1>5. CASE RunEcho(p)
  <2>1. PICK lost \in Losses : Say(p, Restored(fds[p], lost), 0)
    BY <1>5 DEF RunEcho
  <2>2. p = Shell => Own(Restored(fds[p], lost))
    BY <1>0, <1>1, OwnFds
  <2>3. QED
    BY <2>1, <2>2, Acting, SlotFacts, SayLocal
<1>6. CASE RunExit(p)
  <2>1. /\ Others({p}) /\ pc'[p] = IF p = Shell THEN "exited" ELSE "zombie"
        /\ fds'[p] = NoFds
    BY <1>6, Acting DEF RunExit, Others
  <2>2. LocalOf(p)'
    <3>1. CASE p = Shell
      BY <2>1, <3>1, ExitedLocal
    <3>2. CASE p # Shell
      BY <1>0, <2>1, <3>2, GoneLocal DEF GonePC
    <3>3. QED
      BY <3>1, <3>2
  <2>3. QED
    BY <2>1, <2>2, FrameLocal
<1>7. CASE RunProgram(p)
  <2>1. CASE Fork(p, Ext(cur[p]), "exec", "waitx")
    <3>1. PICK k \in Node, c \in Proc : k = cur[p] /\ c = Ext(k)
      BY <1>2, ProcTypes
    <3>2. c # Shell /\ c # p /\ NodeOf(c) = k /\ c \notin Children
      BY <3>1, ProcTypes DEF NodeOf, Ext, Children, Child
    <3>3. /\ Others({p, c}) /\ pc'[p] = "waitx" /\ fds'[p] = fds[p] /\ cur'[p] = cur[p]
          /\ pc'[c] = "exec" /\ fds'[c] = fds[p]
      BY <1>0, <2>1, <3>1, <3>2, ForkEffect
    <3>4. tree' = tree /\ NodeOf(p)' = NodeOf(p) /\ NodeOf(c)' = NodeOf(c)
      BY <3>3 DEF Others, NodeOf
    <3>5. /\ pc'[p] \in RunPC
          /\ pc'[p] \notin PipePC \cup HeredocPC \cup MakerPC \cup SetupPC \cup GonePC
          /\ pc'[c] \notin RunPC \cup PipePC \cup HeredocPC \cup MakerPC \cup SetupPC
                          \cup GonePC \cup HoldPC \cup {"save"}
      BY <3>3 DEF RunPC, PipePC, HoldPC, HeredocPC, MakerPC, SetupPC, GonePC
    <3>6. LocalOf(p)'
      <4>1. pc'[p] \in Labels(p)'
        BY <3>3, Acting DEF Labels, InterpPC, Interp
      <4>2. ShapeOf(p)'
        BY <1>2, <3>3, <3>4, <3>5, <4>1 DEF ShapeOf, Below
      <4>3. HoldOf(p)' /\ PipeOf(p)'
        BY <1>0, <1>1, <1>2, <3>3, <3>5 DEF HoldOf, PipeOf, LocalOf
      <4>4. SeparatedAt(p)'
        BY <1>0, <1>2, <3>3, <3>4, SepFrom DEF LocalOf
      <4>5. QED
        BY <4>2, <4>3, <4>4 DEF LocalOf
    <3>7. LocalOf(c)'
      <4>1. pc'[c] \in Labels(c)'
        BY <3>2, <3>3 DEF Labels, ExtPC
      <4>2. ShapeOf(c)' /\ HoldOf(c)' /\ PipeOf(c)'
        BY <1>2, <3>2, <3>3, <3>5, <4>1 DEF ShapeOf, HoldOf, PipeOf
      <4>3. SeparatedAt(c)'
        BY <1>0, <1>2, <3>1, <3>2, <3>3, <3>4, SepChild
      <4>4. QED
        BY <4>2, <4>3 DEF LocalOf
    <3>8. QED
      BY <3>3, <3>6, <3>7, FrameLocal
  <2>2. QED
    BY <1>3, <1>7, <2>1 DEF RunProgram
<1>8. CASE WaitProgram(p)
  <2>1. PICK c \in Proc : c = Ext(cur[p]) /\ c # Shell /\ c # p
    BY <1>2, ProcTypes
  <2>2. /\ pc[c] = "zombie"
        /\ \E lost \in Losses :
             Return(p, [pc EXCEPT ![c] = "none"], Restored(fds[p], lost), Decode(rc[c]))
    BY <1>8, <2>1 DEF WaitProgram
  <2>3. p = Shell => \A lost \in Losses : Own(Restored(fds[p], lost))
    BY <1>0, <1>1, OwnFds
  <2>4. \A lost : Restored(fds[p], lost) \in [Slot -> Desc]
    BY Acting, SlotFacts
  <2>5. QED
    BY <2>1, <2>2, <2>3, <2>4, ReapStep
<1>9. QED
  BY <1>4, <1>5, <1>6, <1>7, <1>8 DEF Run

\* A program keeps what it inherited until it ends.
LEMMA ProgramLocal ==
  ASSUME TypeOK, Local, NEW e \in Exts, Program(e) \/ Typed(e)
  PROVE  Local'
<1>0. /\ e \in Proc \ {Shell} /\ e \notin Children /\ LocalOf(e)
      /\ fds[e] \in [Slot -> Desc] /\ fds \in [Proc -> [Slot -> Desc]]
      /\ pc \in [Proc -> PC]
  BY ProcTypes DEF TypeOK, Local, Shell, Exts, Children
<1>1. pc[e] \in ExtPC
  BY DEF Program, Exec, ProgRead, ProgWrite, ProgQuit, Typed, ExtPC
<1>2. CASE \E w : Die(e, w) /\ UNCHANGED tree
  BY <1>0, <1>2, KilledLocal
<1>3. CASE /\ \E l \in ExtPC : Goto(e, l)
           /\ UNCHANGED <<tree, cur, rs>>
           /\ fds' \in {fds, [fds EXCEPT ![e]["in"] = File(fds[e]["in"][2] - 1)]}
  <2>1. Others({e}) /\ pc'[e] \in ExtPC
    BY <1>0, <1>3 DEF Goto, Others
  <2>2. /\ \A s \in Slot \ {"in"} : fds'[e][s] = fds[e][s]
        /\ fds'[e]["in"] \in {fds[e]["in"], File(fds[e]["in"][2] - 1)}
    BY <1>0, <1>3
  <2>3. fds'[e]["in"] = fds[e]["in"] \/ fds'[e]["in"][1] \notin {"r", "w"}
    BY <2>2 DEF File
  <2>4. /\ pc[e] \notin HoldPC
        /\ pc'[e] \notin PipePC \cup RunPC \cup {"save"} \cup GonePC \cup HoldPC
        /\ pc'[e] \notin MakerPC \cup HeredocPC \cup SetupPC
    BY <1>1, <2>1 DEF ExtPC, PipePC, RunPC, GonePC, HoldPC, MakerPC, HeredocPC, SetupPC
  <2>5. fds'[e]["pr"] = Shut /\ fds'[e]["pw"] = Shut
    BY <1>0, <2>2, <2>4 DEF LocalOf, HoldOf, Slot
  <2>6. ShapeOf(e)' /\ HoldOf(e)' /\ PipeOf(e)'
    <3>1. pc'[e] \in Labels(e)'
      BY <1>0, <2>1 DEF Labels
    <3>2. QED
      BY <1>0, <2>4, <2>5, <3>1 DEF ShapeOf, HoldOf, PipeOf
  <2>7. SeparatedAt(e)'
    <3>1. \A s \in Std : fds'[e][s] = fds[e][s] \/ fds'[e][s][1] \notin {"r", "w"}
      BY <2>2, <2>3 DEF Std, Slot
    <3>2. QED
      BY <1>0, <2>1, <2>5, <3>1, SepFrom DEF LocalOf, Others
  <2>8. QED
    BY <2>1, <2>6, <2>7, FrameLocal DEF LocalOf
<1>4. CASE Exec(e)
  BY <1>2, <1>3, <1>4 DEF Exec, ExtPC
<1>5. CASE ProgRead(e)
  BY <1>3, <1>5 DEF ProgRead, ReadUnit, ExtPC
<1>6. CASE ProgWrite(e)
  BY <1>2, <1>3, <1>6 DEF ProgWrite, Killed, ExtPC
<1>7. CASE ProgQuit(e)
  BY <1>2, <1>7 DEF ProgQuit
<1>8. CASE Typed(e)
  BY <1>3, <1>8 DEF Typed, ExtPC
<1>9. QED
  BY <1>4, <1>5, <1>6, <1>7, <1>8 DEF Program

-----------------------------------------------------------------------------
(***************************************************************************)
(* The forest of processes, and the first theorems: types, separated pipe  *)
(* ends, a clean prompt.                                                   *)
(***************************************************************************)
\* Two nodes with a node below both: one is below the other.
LEMMA Laminar ==
  ASSUME TypeOK, NEW a \in Node, NEW b \in Node, NEW m \in Node,
         Below(m, a), Below(m, b)
  PROVE  Below(a, b) \/ Below(b, a)
<1>1. tree \in Tree
  BY TreesAssumption DEF TypeOK
<1>2. a \in Nat /\ b \in Nat /\ m \in Nat /\ tree.last[a] \in Nat /\ tree.last[b] \in Nat
  BY <1>1, NodeAssumption DEF Tree
<1>3. QED
  BY <1>2 DEF Below

\* The subtrees of the two operands of a node have no node in common.
LEMMA Disjoint ==
  ASSUME TypeOK, NEW n \in Node, tree.right[n] # Nil, NEW m \in Node,
         Below(m, tree.left[n])
  PROVE  ~Below(m, tree.right[n]) /\ ~Below(tree.right[n], m)
<1>1. tree \in Tree /\ PreOrder(tree) /\ tree.left[n] \in Node /\ tree.right[n] \in Node
  BY TreesAssumption DEF TypeOK, Tree, Below
<1>2. tree.last[tree.left[n]] < tree.right[n] /\ tree.last[m] <= tree.last[tree.left[n]]
  BY <1>1, NodeAssumption DEF PreOrder, Below, Nil
<1>3. /\ m \in Nat /\ tree.last[m] \in Nat /\ tree.last[tree.left[n]] \in Nat
      /\ tree.right[n] \in Nat
  BY <1>1, NodeAssumption DEF Tree
<1>4. QED
  BY <1>2, <1>3 DEF Below

\* A node below one that is below k is below k, k being a node or none.
LEMMA BelowNode ==
  ASSUME TypeOK, NEW a \in Node, NEW b \in Node, NEW k \in Node \cup {Nil},
         Below(a, b), Below(b, k)
  PROVE  Below(a, k)
<1>1. tree \in Tree /\ PreOrder(tree) /\ k \in Node
  BY TreesAssumption DEF TypeOK, Below
<1>2. QED
  BY <1>1, BelowTrans, NodeAssumption

BusyPC == {"fork2", "reap1", "close", "wait1", "wait2", "waitx"}

\* The node a process works on is a node.
LEMMA ProcNode ==
  ASSUME NEW q \in Proc \ {Shell}
  PROVE  q[2] \in Node /\ NodeOf(q) = q[2]
  BY DEF Proc, Interp, Children, Exts, NodeOf

\* Forest in the next state, spelled out over the unchanged tree.
LEMMA ForestNext ==
  ASSUME tree' = tree,
         \A q \in Proc \ {Shell} : pc'[q] # "none" => Below(q[2], tree.root),
         \A r \in Interp, q \in Proc \ {Shell} :
            r # q /\ pc'[r] # "none" /\ pc'[q] # "none" /\ Below(q[2], NodeOf(r))
              => Busy(r, q[2])' /\ (pc'[r] = "waitx" => q = Ext(cur'[r]))
  PROVE  Forest'
<1>1. \A m, n : Below(m, n)' = Below(m, n)
  BY DEF Below
<1>2. \A r \in Interp : NodeOf(r)' = NodeOf(r)
  BY DEF NodeOf
<1>3. \A q \in Proc \ {Shell} : pc'[q] # "none" => Below(q[2], tree.root)'
  BY DEF Below
<1>4. ASSUME NEW r \in Interp, NEW q \in Proc \ {Shell}, r # q,
             pc'[r] # "none", pc'[q] # "none", Below(q[2], NodeOf(r))'
      PROVE  Busy(r, q[2])' /\ (pc'[r] = "waitx" => q = Ext(cur'[r]))
  <2>1. Below(q[2], NodeOf(r))
    BY <1>2, <1>4 DEF Below
  <2>2. QED
    BY <1>4, <2>1
<1>5. QED
  BY <1>3, <1>4 DEF Forest

(***************************************************************************)
(* One process moves on without forking or reaping: what may exist under   *)
(* it may still exist.                                                     *)
(***************************************************************************)
LEMMA ForestMove ==
  ASSUME TypeOK, Forest, NEW p \in Proc, Others({p}), pc[p] # "none",
         p \in Interp => /\ pc[p] # "waitx" /\ pc'[p] # "waitx"
                         /\ \A m \in Node : Busy(p, m) => Busy(p, m)'
  PROVE  Forest'
<1>1. /\ tree' = tree /\ \A q \in Proc : NodeOf(q)' = NodeOf(q)
      /\ \A q \in Proc \ {p} : pc'[q] = pc[q] /\ cur'[q] = cur[q]
  BY DEF Others, NodeOf
<1>2. \A q \in Proc \ {Shell} : pc'[q] # "none" => Below(q[2], tree.root)
  BY <1>1 DEF Forest
<1>3. ASSUME NEW r \in Interp, NEW q \in Proc \ {Shell}, r # q,
             pc'[r] # "none", pc'[q] # "none", Below(q[2], NodeOf(r))
      PROVE  Busy(r, q[2])' /\ (pc'[r] = "waitx" => q = Ext(cur'[r]))
  <2>1. /\ r \in Proc /\ pc[r] # "none" /\ pc[q] # "none" /\ q[2] \in Node
    BY <1>1, <1>3, ProcTypes, ProcNode
  <2>2. Busy(r, q[2]) /\ (pc[r] = "waitx" => q = Ext(cur[r]))
    BY <1>3, <2>1 DEF Forest
  <2>3. CASE r = p
    BY <2>1, <2>2, <2>3
  <2>4. CASE r # p
    BY <1>1, <2>1, <2>2, <2>4 DEF Busy, Below
  <2>5. QED
    BY <2>3, <2>4
<1>4. QED
  BY <1>1, <1>2, <1>3, ForestNext

\* p reaps its child c and goes on, or returns.
LEMMA ForestReap ==
  ASSUME TypeOK, Forest, NEW p \in Interp, NEW c \in Proc, c # Shell, c # p,
         Others({p, c}), pc[p] # "none", pc'[c] = "none", pc'[p] # "waitx",
         \A q \in Proc \ {Shell, p, c} :
            pc[q] # "none" /\ Below(q[2], NodeOf(p)) => Busy(p, q[2])'
  PROVE  Forest'
<1>1. /\ tree' = tree /\ \A q \in Proc : NodeOf(q)' = NodeOf(q)
      /\ \A q \in Proc \ {p, c} : pc'[q] = pc[q] /\ cur'[q] = cur[q]
  BY DEF Others, NodeOf
<1>2. \A q \in Proc \ {Shell} : pc'[q] # "none" => Below(q[2], tree.root)
  BY <1>1 DEF Forest
<1>3. ASSUME NEW r \in Interp, NEW q \in Proc \ {Shell}, r # q,
             pc'[r] # "none", pc'[q] # "none", Below(q[2], NodeOf(r))
      PROVE  Busy(r, q[2])' /\ (pc'[r] = "waitx" => q = Ext(cur'[r]))
  <2>1. /\ r \in Proc /\ r # c /\ q # c /\ pc[r] # "none" /\ pc[q] # "none" /\ q[2] \in Node
    BY <1>1, <1>3, ProcTypes, ProcNode
  <2>2. CASE r = p
    BY <1>3, <2>1, <2>2
  <2>3. CASE r # p
    <3>1. Busy(r, q[2]) /\ (pc[r] = "waitx" => q = Ext(cur[r]))
      BY <1>3, <2>1 DEF Forest
    <3>2. QED
      BY <1>1, <2>1, <2>3, <3>1 DEF Busy, Below
  <2>4. QED
    BY <2>2, <2>3
<1>4. QED
  BY <1>1, <1>2, <1>3, ForestNext

(***************************************************************************)
(* p forks c at the node k, apart from the nodes its other children have.  *)
(***************************************************************************)
LEMMA ForestFork ==
  ASSUME TypeOK, Forest, NEW p \in Interp, NEW c \in Proc \ {Shell}, c # p,
         NEW k \in Node, k = c[2], Below(k, NodeOf(p)), c \in Interp => k # NodeOf(p),
         Others({p, c}), pc[p] \notin {"none", "waitx"},
         \A m \in Node : Busy(p, m) => ~Below(k, m) /\ ~Below(m, k) /\ Busy(p, m)',
         Busy(p, k)',
         pc'[p] = "waitx" => c = Ext(cur'[p]) /\ \A m \in Node : ~Busy(p, m)
  PROVE  Forest'
<1>1. /\ tree' = tree /\ p \in Proc /\ NodeOf(p) \in Node /\ tree.root \in Node
      /\ \A q \in Proc \ {p, c} : pc'[q] = pc[q] /\ cur'[q] = cur[q]
      /\ tree \in Tree
  BY NodeOfType, ProcTypes DEF Others, Tree
<1>2. \A q \in Proc \ {Shell} : q[2] \in Node /\ NodeOf(q) = q[2]
  BY ProcNode
<1>3. p # Shell => Below(NodeOf(p), tree.root)
  BY <1>1, <1>2 DEF Forest
<1>4. Below(k, tree.root)
  BY <1>1, <1>3, BelowNode DEF NodeOf
<1>5. \A q \in Proc \ {Shell} : pc'[q] # "none" => Below(q[2], tree.root)
  BY <1>1, <1>3, <1>4, <1>2 DEF Forest
<1>6. ASSUME NEW r \in Interp, NEW q \in Proc \ {Shell}, r # q,
             pc'[r] # "none", pc'[q] # "none", Below(q[2], NodeOf(r))
      PROVE  Busy(r, q[2])' /\ (pc'[r] = "waitx" => q = Ext(cur'[r]))
  <2>1. r \in Proc /\ q[2] \in Node /\ NodeOf(r) \in Node
    BY <1>2, ProcTypes, NodeOfType
  <2>2. CASE r = c
    <3>1. NodeOf(r) = k /\ k # NodeOf(p) /\ q # c
      BY <1>2, <1>6, <2>2
    <3>2. Below(q[2], NodeOf(p))
      BY <1>1, <1>6, <2>1, <3>1, BelowNode
    <3>3. CASE q = p
      <4>1. Below(NodeOf(p), k) /\ Below(k, NodeOf(p))
        BY <1>2, <1>6, <3>1, <3>3
      <4>2. k \in Nat /\ NodeOf(p) \in Nat
        BY <1>1, NodeAssumption
      <4>3. QED
        BY <3>1, <4>1, <4>2 DEF Below
    <3>4. CASE q # p
      <4>1. pc[q] # "none" /\ pc[p] # "none"
        BY <1>1, <1>6, <3>1, <3>4
      <4>2. Busy(p, q[2])
        BY <1>1, <3>2, <3>4, <4>1 DEF Forest
      <4>3. QED
        BY <1>6, <2>1, <3>1, <4>2
    <3>5. QED
      BY <3>3, <3>4
  <2>3. CASE r = p /\ q = c
    BY <2>3
  <2>4. CASE r = p /\ q # c
    <3>1. Busy(p, q[2])
      BY <1>1, <1>6, <2>1, <2>4 DEF Forest
    <3>2. QED
      BY <2>1, <2>4, <3>1
  <2>5. CASE r # p /\ r # c /\ (q # c)
    <3>1. pc[r] # "none" /\ pc[q] # "none"
      BY <1>1, <1>6, <2>1, <2>5
    <3>2. Busy(r, q[2]) /\ (pc[r] = "waitx" => q = Ext(cur[r]))
      BY <1>6, <3>1 DEF Forest
    <3>3. pc'[r] = pc[r] /\ cur'[r] = cur[r] /\ NodeOf(r)' = NodeOf(r)
      BY <1>1, <2>1, <2>5 DEF NodeOf
    <3>4. QED
      BY <1>1, <3>2, <3>3 DEF Busy, Below
  <2>6. CASE r # p /\ r # c /\ q = c
    <3>1. pc[r] # "none" /\ pc'[r] = pc[r] /\ cur'[r] = cur[r] /\ NodeOf(r)' = NodeOf(r)
      BY <1>1, <1>6, <2>1, <2>6 DEF NodeOf
    <3>2. Below(NodeOf(p), NodeOf(r)) \/ Below(NodeOf(r), NodeOf(p))
      BY <1>1, <1>6, <2>1, <2>6, Laminar
    <3>3. CASE r # Shell /\ Below(NodeOf(r), NodeOf(p))
      <4>1. Busy(p, NodeOf(r))
        BY <1>1, <1>2, <2>1, <2>6, <3>1, <3>3 DEF Forest
      <4>2. QED
        BY <1>6, <2>1, <2>6, <4>1
    <3>4. CASE p # Shell /\ Below(NodeOf(p), NodeOf(r))
      <4>1. Busy(r, NodeOf(p)) /\ (pc[r] = "waitx" => p = Ext(cur[r]))
        BY <1>1, <1>2, <2>6, <3>1, <3>4 DEF Forest
      <4>2. pc[r] # "waitx"
        BY <4>1 DEF Interp, Children, Shell, Ext
      <4>3. \A n \in Node \cup {Nil} : Below(NodeOf(p), n) => Below(k, n)
        BY <1>1, BelowNode
      <4>4. tree.left[NodeOf(r)] \in Node \cup {Nil} /\ tree.right[NodeOf(r)] \in Node \cup {Nil}
        BY <1>1, <2>1 DEF Tree
      <4>5. Busy(r, k)
        BY <4>1, <4>2, <4>3, <4>4 DEF Busy
      <4>6. Busy(r, k)'
        BY <1>1, <3>1, <4>5 DEF Busy, Below
      <4>7. QED
        BY <2>6, <3>1, <4>2, <4>6
    <3>5. CASE r = Shell
      BY <1>3, <2>6, <3>4, <3>5 DEF NodeOf
    <3>6. CASE p = Shell
      <4>1. Below(NodeOf(r), NodeOf(p))
        BY <1>2, <2>1, <2>6, <3>1, <3>6 DEF Forest, NodeOf
      <4>2. QED
        BY <2>6, <3>3, <3>6, <4>1
    <3>7. QED
      BY <3>2, <3>3, <3>4, <3>5, <3>6
  <2>7. QED
    BY <2>2, <2>3, <2>4, <2>5, <2>6
<1>7. QED
  BY <1>1, <1>5, <1>6, ForestNext

\* The same for a process that had no children to wait for.
LEMMA ForestQuiet ==
  ASSUME TypeOK, Forest, NEW p \in Proc, Others({p}), pc[p] # "none",
         p \in Interp => pc[p] \notin BusyPC /\ pc'[p] # "waitx"
  PROVE  Forest'
<1>1. p \in Interp => pc[p] # "waitx" /\ \A m : ~Busy(p, m)
  BY DEF Busy, BusyPC
<1>2. QED
  BY <1>1, ForestMove

\* Nothing lives under a zombie.
LEMMA ZombieAlone ==
  ASSUME Forest, NEW c \in Interp, pc[c] = "zombie"
  PROVE  \A q \in Proc \ {Shell, c} : pc[q] # "none" => ~Below(q[2], NodeOf(c))
<1>1. \A m : ~Busy(c, m)
  BY DEF Busy
<1>2. QED
  BY <1>1 DEF Forest

\* dispatch_ast_node keeps Forest.
LEMMA DispatchForest ==
  ASSUME TypeOK, Forest, NEW p \in Interp, Dispatch(p)
  PROVE  Forest'
<1>1. p \in Proc /\ pc \in [Proc -> PC]
  BY ProcTypes DEF TypeOK
<1>2. pc[p] = "dispatch"
  BY DEF Dispatch
<1>3. CASE \E s : Return(p, pc, fds[p], s)
  <2>1. Others({p}) /\ pc'[p] # "waitx"
    BY <1>1, <1>3 DEF Return, Leave, Others, TypeOK
  <2>2. QED
    BY <1>1, <1>2, <2>1, ForestQuiet DEF BusyPC
<1>4. CASE ~\E s : Return(p, pc, fds[p], s)
  BY <1>1, <1>2, <1>4, ForestQuiet DEF Dispatch, Goto, Others, TypeOK, BusyPC
<1>5. QED
  BY <1>3, <1>4

\* The steps of a redirection chain keep Forest.
LEMMA ChainForest ==
  ASSUME TypeOK, Forest, NEW p \in Interp, Chain(p)
  PROVE  Forest'
<1>1. p \in Proc /\ pc \in [Proc -> PC]
  BY ProcTypes DEF TypeOK
<1>2. pc[p] \in {"save", "collect", "apply"}
  BY DEF Chain, SaveFds, Collect, Apply, AllApplied
<1>3. pc[p] \notin BusyPC \cup {"none"}
  BY <1>2 DEF BusyPC
<1>4. CASE \E f, s : Return(p, pc, f, s)
  BY <1>1, <1>3, <1>4, ForestQuiet DEF Return, Leave, Others, TypeOK
<1>5. CASE ~\E f, s : Return(p, pc, f, s)
  <2>1. CASE SaveFds(p)
    BY <1>1, <1>3, <1>5, <2>1, ForestQuiet, ZenonT(60) DEF SaveFds, Goto, Others, TypeOK
  <2>2. CASE Collect(p)
    BY <1>1, <1>2, <1>3, <1>5, <2>2, ForestQuiet DEF Collect, Finish, Goto, Others, TypeOK
  <2>3. CASE Apply(p)
    <3>1. Others({p}) /\ pc'[p] # "waitx"
      BY <1>1, <1>2, <1>5, <2>3
      DEF Apply, Finish, OpenFile, OpenHeredoc, Popped, Goto, Others, TypeOK
    <3>2. QED
      BY <1>1, <1>3, <3>1, ForestQuiet
  <2>4. CASE AllApplied(p)
    BY <1>1, <1>3, <2>4, ForestQuiet DEF AllApplied, Goto, Others, TypeOK
  <2>5. QED
    BY <2>1, <2>2, <2>3, <2>4 DEF Chain
<1>6. QED
  BY <1>4, <1>5

\* The steps of a here-document keep Forest.
LEMMA HeredocForest ==
  ASSUME TypeOK, Forest, NEW p \in Interp, Heredoc(p)
  PROVE  Forest'
<1>1. p \in Proc /\ pc \in [Proc -> PC]
  BY ProcTypes DEF TypeOK
<1>2. pc[p] \notin BusyPC \cup {"none"}
  BY DEF Heredoc, HeredocPrompt, HeredocLine, HeredocEnd, HeredocStore, BusyPC
<1>3. Others({p}) /\ pc'[p] # "waitx"
  <2>1. CASE HeredocPrompt(p)
    BY <1>1, <2>1 DEF HeredocPrompt, Killed, Die, Goto, Others, TypeOK
  <2>2. CASE HeredocLine(p)
    BY <1>1, <2>2 DEF HeredocLine, ReadUnit, Goto, Others, TypeOK
  <2>3. CASE HeredocEnd(p)
    <3>1. CASE \E f : Leave(p, pc, f, -1)
      BY <1>1, <3>1 DEF Leave, Others, TypeOK
    <3>2. CASE ~\E f : Leave(p, pc, f, -1)
      BY <1>1, <2>3, <3>2 DEF HeredocEnd, Popped, Goto, Others, TypeOK
    <3>3. QED
      BY <3>1, <3>2
  <2>4. CASE HeredocStore(p)
    <3>1. CASE Finish(p, -1)
      BY <1>1, <3>1 DEF Finish, Return, Leave, Others, TypeOK
    <3>2. CASE ~Finish(p, -1)
      BY <1>1, <2>4, <3>2 DEF HeredocStore, Goto, Others, TypeOK
    <3>3. QED
      BY <3>1, <3>2
  <2>5. QED
    BY <2>1, <2>2, <2>3, <2>4 DEF Heredoc
<1>4. QED
  BY <1>1, <1>2, <1>3, ForestQuiet

\* The steps of the programs keep Forest.
LEMMA ProgramForest ==
  ASSUME TypeOK, Forest, NEW e \in Exts, Program(e) \/ Typed(e)
  PROVE  Forest'
<1>1. e \in Proc /\ e \notin Interp /\ pc \in [Proc -> PC]
  BY ProcTypes DEF TypeOK
<1>2. pc[e] # "none"
  BY DEF Program, Exec, ProgRead, ProgWrite, ProgQuit, Typed
<1>3. Others({e})
  <2>1. CASE Exec(e)
    BY <1>1, <2>1 DEF Exec, Die, Goto, Others, TypeOK
  <2>2. CASE ProgRead(e)
    BY <1>1, <2>2 DEF ProgRead, ReadUnit, Goto, Others, TypeOK
  <2>3. CASE ProgWrite(e)
    BY <1>1, <2>3 DEF ProgWrite, Killed, Die, Goto, Others, TypeOK
  <2>4. CASE ProgQuit(e)
    BY <1>1, <2>4 DEF ProgQuit, Die, Others, TypeOK
  <2>5. CASE Typed(e)
    BY <1>1, <2>5 DEF Typed, Goto, Others, TypeOK
  <2>6. QED
    BY <2>1, <2>2, <2>3, <2>4, <2>5 DEF Program
<1>4. QED
  BY <1>1, <1>2, <1>3, ForestQuiet

\* The waits of execute_pipe_command keep Forest.
LEMMA WaitForest ==
  ASSUME TypeOK, Local, Forest, NEW p \in Interp,
         ReapLeft(p) \/ WaitLeft(p) \/ WaitRight(p)
  PROVE  Forest'
<1>0. /\ p \in Proc /\ pc[p] \in {"reap1", "wait1", "wait2"} /\ pc[p] \in PipePC
      /\ pc \in [Proc -> PC] /\ rc \in [Proc -> WaitStatus]
  BY ProcTypes DEF ReapLeft, WaitLeft, WaitRight, PipePC, TypeOK
<1>1. PICK k \in Node, c \in Interp :
        /\ k = (IF pc[p] = "wait2" THEN tree.right[NodeOf(p)] ELSE tree.left[NodeOf(p)])
        /\ c = Child(k) /\ c \in Proc \ {Shell} /\ c # p /\ NodeOf(c) = k
  BY <1>0, OperandChild
<1>2. /\ Others({p, c}) /\ pc[c] = "zombie" /\ pc'[c] = "none"
      /\ pc'[p] \in {"prompt", "zombie", "wait2"}
      /\ pc[p] = "wait1" => pc'[p] = "wait2"
  <2>1. CASE ReapLeft(p)
    BY <1>0, <1>1, <2>1 DEF ReapLeft, Return, Leave, Others, TypeOK
  <2>2. CASE WaitLeft(p)
    BY <1>0, <1>1, <2>2 DEF WaitLeft, Others, TypeOK
  <2>3. CASE WaitRight(p)
    BY <1>0, <1>1, <2>3 DEF WaitRight, Return, Leave, Others, TypeOK
  <2>4. QED
    BY <2>1, <2>2, <2>3
<1>3. \A q \in Proc \ {Shell, p, c} :
         pc[q] # "none" /\ Below(q[2], NodeOf(p)) => Busy(p, q[2])'
  <2> SUFFICES ASSUME NEW q \in Proc \ {Shell, p, c}, pc[q] # "none",
                      Below(q[2], NodeOf(p))
               PROVE  Busy(p, q[2])'
    OBVIOUS
  <2>1. Busy(p, q[2]) /\ ~Below(q[2], k)
    BY <1>0, <1>1, <1>2, ZombieAlone DEF Forest
  <2>2. pc[p] = "wait1" /\ Below(q[2], tree.right[NodeOf(p)])
    BY <1>0, <1>1, <2>1 DEF Busy
  <2>3. NodeOf(p)' = NodeOf(p) /\ tree' = tree
    BY <1>2 DEF Others, NodeOf
  <2>4. QED
    BY <1>2, <2>2, <2>3 DEF Busy, Below
<1>4. QED
  BY <1>0, <1>1, <1>2, <1>3, ForestReap

\* The steps of execute_pipe_command keep Forest.
LEMMA PipesForest ==
  ASSUME TypeOK, Local, Forest, NEW p \in Interp, Pipes(p)
  PROVE  Forest'
<1> DEFINE n == NodeOf(p)
<1>1. /\ p \in Proc /\ pc \in [Proc -> PC] /\ n \in Node
      /\ fds \in [Proc -> [Slot -> Desc]]
  BY ProcTypes, NodeOfType DEF TypeOK
<1>2. CASE MakePipe(p)
  <2>1. Others({p}) /\ pc[p] = "pipe" /\ pc'[p] # "waitx"
    BY <1>1, <1>2 DEF MakePipe, Return, Leave, Goto, Others, TypeOK
  <2>2. QED
    BY <1>1, <2>1, ForestQuiet DEF BusyPC
<1>3. CASE ForkLeft(p)
  <2>1. pc[p] = "fork1" /\ pc[p] \in PipePC /\ pc[p] \notin BusyPC
    BY <1>3 DEF ForkLeft, PipePC, BusyPC
  <2>2. CASE Return(p, pc, Closed(fds[p]), 1)
    <3>1. Others({p}) /\ pc'[p] # "waitx"
      BY <1>1, <2>2 DEF Return, Leave, Others, TypeOK
    <3>2. QED
      BY <1>1, <2>1, <3>1, ForestQuiet
  <2>3. CASE ~Return(p, pc, Closed(fds[p]), 1)
    <3>1. PICK k \in Node, c \in Proc \ {Shell} :
            /\ k = tree.left[n] /\ c = Child(k) /\ c # p /\ c[2] = k
            /\ Below(k, n) /\ k # n
      BY <2>1, OperandChild
    <3>2. Others({p, c}) /\ pc'[p] = "fork2"
      <4>1. c \in Proc /\ Fork(p, c, "left_child", "fork2")
        BY <1>3, <2>3, <3>1 DEF ForkLeft
      <4>2. QED
        BY <1>1, <3>1, <4>1 DEF Fork, Others, TypeOK
    <3>3. \A m \in Node : ~Busy(p, m)
      BY <2>1 DEF Busy, BusyPC
    <3>4. Busy(p, k)'
      <4>1. NodeOf(p)' = NodeOf(p) /\ tree' = tree /\ Below(k, k)
        BY <3>2, Acting, OperandBelow, NodeAssumption DEF Others, NodeOf
      <4>2. QED
        BY <3>1, <3>2, <4>1 DEF Busy, Below
    <3>5. QED
      BY <1>1, <2>1, <3>1, <3>2, <3>3, <3>4, ForestFork
  <2>4. QED
    BY <2>2, <2>3
<1>4. CASE ForkRight(p)
  <2>1. pc[p] = "fork2" /\ pc[p] \in PipePC
    BY <1>4 DEF ForkRight, PipePC
  <2>2. \A m \in Node : Busy(p, m) => Below(m, tree.left[n])
    BY <2>1 DEF Busy
  <2>3. PICK k \in Node, c \in Proc \ {Shell} :
          /\ k = tree.right[n] /\ c = Child(k) /\ c # p /\ c[2] = k
          /\ Below(k, n) /\ k # n /\ k # Nil
    BY <2>1, OperandChild, NodeAssumption DEF Nil
  <2>4. CASE Fork(p, Child(tree.right[n]), "right_child", "close")
    <3>1. Others({p, c}) /\ pc'[p] = "close"
      BY <1>1, <2>3, <2>4, ForkEffect
    <3>2. NodeOf(p)' = NodeOf(p) /\ tree' = tree /\ Below(k, k)
      BY <3>1, Acting, OperandBelow, NodeAssumption DEF Others, NodeOf
    <3>3. Busy(p, k)'
      BY <2>3, <3>1, <3>2 DEF Busy, Below
    <3>4. \A m \in Node : Busy(p, m) => ~Below(k, m) /\ ~Below(m, k) /\ Busy(p, m)'
      <4>1. ASSUME NEW m \in Node, Busy(p, m) PROVE Busy(p, m)'
        BY <2>2, <3>1, <3>2, <4>1 DEF Busy, Below
      <4>2. QED
        BY <1>1, <2>2, <2>3, <4>1, Disjoint
    <3>5. QED
      BY <1>1, <2>1, <2>3, <3>1, <3>3, <3>4, ForestFork
  <2>5. CASE ~Fork(p, Child(tree.right[n]), "right_child", "close")
    <3>1. Others({p}) /\ pc'[p] = "reap1"
      BY <1>1, <1>4, <2>5 DEF ForkRight, Goto, Others, TypeOK
    <3>2. NodeOf(p)' = NodeOf(p) /\ tree' = tree
      BY <3>1 DEF Others, NodeOf
    <3>3. \A m \in Node : Busy(p, m) => Busy(p, m)'
      BY <2>2, <3>1, <3>2 DEF Busy, Below
    <3>4. QED
      BY <1>1, <2>1, <3>1, <3>3, ForestMove
  <2>6. QED
    BY <2>4, <2>5
<1>5. CASE ClosePipe(p)
  <2>1. Others({p}) /\ pc[p] = "close" /\ pc'[p] = "wait1"
    BY <1>1, <1>5 DEF ClosePipe, Goto, Others, TypeOK
  <2>2. NodeOf(p)' = NodeOf(p) /\ tree' = tree
    BY <2>1 DEF Others, NodeOf
  <2>3. \A m \in Node : Busy(p, m) => Busy(p, m)'
    BY <2>1, <2>2 DEF Busy, Below
  <2>4. QED
    BY <1>1, <2>1, <2>3, ForestMove
<1>6. CASE ReapLeft(p) \/ WaitLeft(p) \/ WaitRight(p)
  BY <1>6, WaitForest
<1>7. CASE LeftChild(p) \/ RightChild(p)
  <2>1. Others({p}) /\ pc[p] \in {"left_child", "right_child"} /\ pc'[p] # "waitx"
    BY <1>1, <1>7 DEF LeftChild, RightChild, Die, Goto, Others, TypeOK
  <2>2. QED
    BY <1>1, <2>1, ForestQuiet DEF BusyPC
<1>8. QED
  BY <1>2, <1>3, <1>4, <1>5, <1>6, <1>7 DEF Pipes

\* The steps of a simple command keep Forest.
LEMMA RunForest ==
  ASSUME TypeOK, Local, Forest, NEW p \in Interp, Run(p)
  PROVE  Forest'
<1>0. /\ p \in Proc /\ pc \in [Proc -> PC] /\ LocalOf(p)
      /\ pc[p] \in {"run", "waitx"} /\ pc[p] \in RunPC
  BY ProcTypes
  DEF TypeOK, Local, Run, RunBuiltin, RunEcho, RunExit, RunProgram, WaitProgram, RunPC
<1>1. PICK k \in Node, c \in Proc \ {Shell} :
        /\ k = cur[p] /\ Below(k, NodeOf(p))
        /\ c = Ext(k) /\ c # p /\ c[2] = k /\ c \notin Interp
  BY <1>0, ProcTypes, ZenonT(60) DEF LocalOf, ShapeOf, Ext
<1>2. CASE RunBuiltin(p) \/ RunEcho(p) \/ RunExit(p) \/ (RunProgram(p) /\ Finish(p, 1))
  <2>1. pc[p] = "run"
    BY <1>2 DEF RunBuiltin, RunEcho, RunExit, RunProgram
  <2>2. Others({p}) /\ pc'[p] # "waitx"
    <3>1. CASE RunEcho(p)
      BY <3>1, SayEffect DEF RunEcho
    <3>2. CASE ~RunEcho(p)
      BY <1>0, <1>2, <3>2
      DEF RunBuiltin, RunExit, RunProgram, Finish, Return, Leave, Others, TypeOK
    <3>3. QED
      BY <3>1, <3>2
  <2>3. QED
    BY <1>0, <2>1, <2>2, ForestQuiet DEF BusyPC
<1>3. CASE RunProgram(p) /\ ~Finish(p, 1)
  <2>1. pc[p] = "run" /\ Fork(p, c, "exec", "waitx")
    BY <1>1, <1>3 DEF RunProgram
  <2>2. /\ Others({p, c}) /\ pc'[p] = "waitx" /\ cur'[p] = cur[p]
    BY <1>0, <1>1, <2>1 DEF Fork, Others, TypeOK
  <2>3. \A m \in Node : ~Busy(p, m)
    BY <2>1 DEF Busy
  <2>4. Busy(p, k)'
    BY <1>1, <2>2 DEF Busy
  <2>5. QED
    BY <1>1, <2>1, <2>2, <2>3, <2>4, ForestFork
<1>4. CASE WaitProgram(p)
  <2>1. /\ pc[p] = "waitx" /\ Others({p, c}) /\ pc'[c] = "none" /\ pc'[p] # "waitx"
    BY <1>0, <1>1, <1>4 DEF WaitProgram, Return, Leave, Others, TypeOK
  <2>2. \A q \in Proc \ {Shell, p, c} :
           pc[q] # "none" => ~Below(q[2], NodeOf(p))
    BY <1>1, <2>1 DEF Forest
  <2>3. QED
    BY <1>1, <2>1, <2>2, ForestReap
<1>5. QED
  BY <1>2, <1>3, <1>4 DEF Run

\* The "command not found" message keeps Forest.
LEMMA NotFoundForest ==
  ASSUME TypeOK, Local, Forest, NEW p \in Interp, NotFound(p)
  PROVE  Forest'
<1>1. pc[p] = "dispatch" /\ Others({p}) /\ pc'[p] # "waitx"
  BY SayEffect DEF NotFound
<1>2. QED
  BY <1>1, ProcTypes, ForestQuiet DEF BusyPC, PipePC

\* At the prompt the shell is alone.
LEMMA PromptAlone ==
  ASSUME TypeOK, Local, Forest, pc[Shell] = "prompt"
  PROVE  \A q \in Proc \ {Shell} : pc[q] = "none" /\ fds[q] = NoFds
<1> SUFFICES ASSUME NEW q \in Proc \ {Shell} PROVE pc[q] = "none" /\ fds[q] = NoFds
  OBVIOUS
<1>1. \A m : ~Busy(Shell, m)
  BY DEF Busy
<1>2. pc[q] = "none"
  BY <1>1, ProcTypes DEF Forest, NodeOf
<1>3. QED
  BY <1>2 DEF Local, LocalOf, HoldOf, GonePC

\* At the prompt the shell has its own descriptors, or what it was left with.
LEMMA PromptOwn ==
  ASSUME TypeOK, LocalOf(Shell), pc[Shell] = "prompt"
  PROVE  Own(fds[Shell]) /\ fds[Shell] \in [Slot -> Desc]
<1>1. pc[Shell] \notin RunPC \cup {"exited"} \cup HoldPC
  BY DEF RunPC, HoldPC, HeredocPC, MakerPC, SetupPC
<1>2. \A n \in Node : fds[Shell]["in"] = R(n) => tree.kind[n] # "pipe"
  <2>1. "in" \in Std
    BY DEF Std
  <2>2. \A s \in Std, n \in Node : fds[Shell][s] = R(n) => tree.kind[n] # "pipe"
    BY ShellApart, Zenon DEF Std
  <2>3. QED
    BY <2>1, <2>2
<1>3. fds[Shell] \in [Slot -> Desc]
  BY ProcTypes DEF TypeOK
<1>4. QED
  BY <1>1, <1>2, <1>3 DEF LocalOf, HoldOf, Own, Plain

\* Reading a line leaves the shell a stdin it may have, if it is not its own.
LEMMA OwnRead ==
  ASSUME NEW i, Own(fds[Shell]), fds[Shell] \in [Slot -> Desc],
         fds'[Shell] = [fds[Shell] EXCEPT !["in"] = i],
         \/ i = fds[Shell]["in"] /\ i[1] = "tty"
         \/ fds[Shell]["in"][1] # "tty" /\ i[1] = "file"
  PROVE  Own(fds[Shell])'
<1>1. /\ {"in", "out", "svin", "svout", "pr", "pw", "leak"} = Slot
      /\ fds'[Shell]["in"] = i
      /\ \A s \in Slot \ {"in"} : fds'[Shell][s] = fds[Shell][s]
  BY DEF Slot
<1>2. ShellFds["in"][1] = "tty" /\ \A n \in Node : R(n)[1] = "r"
  BY DEF ShellFds, Slot, Tty, R
<1>3. OwnedAs(fds[Shell], "in", "out")'
  BY <1>1, <1>2 DEF Own, OwnedAs, Owned
<1>4. Plain(fds[Shell]["in"])'
  BY <1>1, <1>2 DEF Plain
<1>5. QED
  BY <1>1, <1>3, <1>4 DEF Own

\* The prompt's steps keep Local.
LEMMA PromptLocal ==
  ASSUME TypeOK, Local, Forest, Prompt
  PROVE  Local'
<1>1. /\ pc[Shell] = "prompt" /\ Shell \in Proc /\ LocalOf(Shell)
      /\ pc \in [Proc -> PC] /\ fds \in [Proc -> [Slot -> Desc]]
  BY ProcTypes DEF Prompt, ReadLine, RejectLine, EndOfInput, Local, TypeOK
<1>2. Own(fds[Shell]) /\ fds[Shell] \in [Slot -> Desc]
  BY <1>1, PromptOwn
<1>3. ASSUME \A q \in Proc \ {Shell} : pc'[q] = pc[q] /\ fds'[q] = fds[q], LocalOf(Shell)'
      PROVE  Local'
  <2> SUFFICES ASSUME NEW q \in Proc, q # Shell PROVE LocalOf(q)'
    BY <1>3 DEF Local
  <2>1. pc[q] = "none" /\ fds[q] = NoFds
    BY <1>1, PromptAlone
  <2>2. pc'[q] \in GonePC /\ fds'[q] = NoFds
    BY <1>3, <2>1 DEF GonePC
  <2>3. QED
    BY <2>2, GoneLocal
<1>4. CASE ReadLine
  <2> DEFINE i == AfterLine
  <2>1. /\ pc' = [pc EXCEPT ![Shell] = "dispatch"]
        /\ fds' = [fds EXCEPT ![Shell]["in"] = i]
    BY <1>4 DEF ReadLine, Goto
  <2>2. \/ i = fds[Shell]["in"] /\ i[1] = "tty"
        \/ fds[Shell]["in"][1] # "tty" /\ i[1] = "file"
    BY DEF AfterLine, File
  <2> HIDE DEF i
  <2>3. fds'[Shell] = [fds[Shell] EXCEPT !["in"] = i]
    BY <1>1, <2>1
  <2>4. Own(fds[Shell])'
    BY <1>2, <2>2, <2>3, OwnRead
  <2>5. LocalOf(Shell)'
    BY <1>1, <2>1, <2>4, OwnPrompt
  <2>6. QED
    BY <1>1, <1>3, <2>1, <2>5
<1>5. CASE RejectLine
  <2>1. pc' = pc
    BY <1>5 DEF RejectLine
  <2>2. Own(fds[Shell])' /\ \A q \in Proc \ {Shell} : fds'[q] = fds[q]
    <3>1. CASE fds[Shell]["in"][1] = "file"
      <4> DEFINE i == File(fds[Shell]["in"][2] - 1)
      <4>1. fds' = [fds EXCEPT ![Shell]["in"] = i]
        BY <1>5, <3>1 DEF RejectLine, ReadUnit
      <4>2. i[1] = "file" /\ fds[Shell]["in"][1] # "tty"
        BY <3>1 DEF File
      <4> HIDE DEF i
      <4>3. fds'[Shell] = [fds[Shell] EXCEPT !["in"] = i]
        BY <1>1, <4>1
      <4>4. QED
        BY <1>1, <1>2, <4>1, <4>2, <4>3, OwnRead
    <3>2. CASE fds[Shell]["in"][1] # "file"
      <4>1. fds' = fds
        BY <1>5, <3>2 DEF RejectLine, ReadUnit
      <4>2. QED
        BY <1>2, <1>5, <4>1 DEF RejectLine, Own, OwnedAs, Owned, Plain
    <3>3. QED
      BY <3>1, <3>2
  <2>3. LocalOf(Shell)'
    BY <1>1, <2>1, <2>2, OwnPrompt
  <2>4. QED
    BY <1>3, <2>1, <2>2, <2>3
<1>6. CASE EndOfInput
  <2>1. /\ pc' = [pc EXCEPT ![Shell] = "exited"]
        /\ fds' = [fds EXCEPT ![Shell] = NoFds]
    BY <1>6 DEF EndOfInput
  <2>2. LocalOf(Shell)'
    BY <1>1, <2>1, ExitedLocal
  <2>3. QED
    BY <1>1, <1>3, <2>1, <2>2
<1>7. QED
  BY <1>4, <1>5, <1>6 DEF Prompt

\* The prompt's steps keep Forest.
LEMMA PromptForest ==
  ASSUME TypeOK, Local, Forest, Prompt
  PROVE  Forest'
<1>1. pc[Shell] = "prompt" /\ pc \in [Proc -> PC] /\ Shell \in Proc
  BY ProcTypes DEF Prompt, ReadLine, RejectLine, EndOfInput, TypeOK
<1>2. \A q \in Proc \ {Shell} : pc'[q] = pc[q]
  <2>1. CASE ReadLine
    BY <1>1, <2>1 DEF ReadLine, Goto
  <2>2. CASE RejectLine
    BY <1>1, <2>2 DEF RejectLine
  <2>3. CASE EndOfInput
    BY <1>1, <2>3 DEF EndOfInput
  <2>4. QED
    BY <2>1, <2>2, <2>3 DEF Prompt
<1>3. \A q \in Proc \ {Shell} : pc'[q] = "none"
  BY <1>1, <1>2, PromptAlone
<1>4. QED
  BY <1>3 DEF Forest

(***************************************************************************)
(* The invariant of the processes.                                         *)
(***************************************************************************)
LEMMA LocalStep == TypeOK /\ Local /\ Forest /\ [Next]_vars => Local'
<1> SUFFICES ASSUME TypeOK, Local, Forest, [Next]_vars PROVE Local'
  OBVIOUS
<1>1. CASE UNCHANGED vars \/ Terminated
  <2>1. Others({})
    BY <1>1 DEF Terminated, vars, Others
  <2>2. QED
    BY <2>1, FrameLocal
<1>2. CASE Prompt
  BY <1>2, PromptLocal
<1>3. ASSUME NEW p \in Interp, Interpret(p) PROVE Local'
  BY <1>3, DispatchLocal, NotFoundLocal, PipesLocal, ChainLocal, HeredocLocal, RunLocal
  DEF Interpret
<1>4. ASSUME NEW e \in Exts, Program(e) \/ Typed(e) PROVE Local'
  BY <1>4, ProgramLocal
<1>5. QED
  BY <1>1, <1>2, <1>3, <1>4 DEF Next

\* Every step keeps Forest.
LEMMA ForestStep == TypeOK /\ Local /\ Forest /\ [Next]_vars => Forest'
<1> SUFFICES ASSUME TypeOK, Local, Forest, [Next]_vars PROVE Forest'
  OBVIOUS
<1>1. CASE UNCHANGED vars \/ Terminated
  <2>1. tree' = tree /\ pc' = pc /\ cur' = cur
    BY <1>1 DEF Terminated, vars
  <2>2. QED
    BY <2>1 DEF Forest, Below, Busy, NodeOf
<1>2. CASE Prompt
  BY <1>2, PromptForest
<1>3. ASSUME NEW p \in Interp, Interpret(p) PROVE Forest'
  BY <1>3, DispatchForest, NotFoundForest, PipesForest, ChainForest, HeredocForest,
     RunForest
  DEF Interpret
<1>4. ASSUME NEW e \in Exts, Program(e) \/ Typed(e) PROVE Forest'
  BY <1>4, ProgramForest
<1>5. QED
  BY <1>1, <1>2, <1>3, <1>4 DEF Next

\* The shell starts alone, with its own descriptors.
LEMMA ProcInit == Init => TypeOK /\ Local /\ Forest
<1> SUFFICES ASSUME Init PROVE TypeOK /\ Local /\ Forest
  OBVIOUS
<1>1. TypeOK
  <2>1. ShellFds \in [Slot -> Desc] /\ NoFds \in [Slot -> Desc]
    BY SlotFacts
  <2>2. {"prompt", "none"} \subseteq PC /\ NoStatus \in WaitStatus
    BY DEF PC, ShellPC, GonePC, WaitStatus
  <2>3. rs \in [Proc -> RedirNodes]
    BY RedirFacts DEF Init
  <2>4. QED
    BY <2>1, <2>2, <2>3, BoundsAssumption DEF Init, TypeOK
<1>2. /\ pc[Shell] = "prompt" /\ fds[Shell] = ShellFds
      /\ \A q \in Proc \ {Shell} : pc[q] = "none" /\ fds[q] = NoFds
  BY ProcTypes DEF Init
<1>3. Forest
  <2>1. \A m : ~Busy(Shell, m)
    BY <1>2 DEF Busy
  <2>2. QED
    BY <1>2 DEF Forest
<1>4. ASSUME NEW q \in Proc PROVE LocalOf(q)
  <2>1. pc[q] \in {"prompt", "none"}
    BY <1>2, <1>4
  <2>2. /\ pc[q] \notin PipePC \cup RunPC \cup {"save", "exited"}
        /\ pc[q] \notin HeredocPC \cup MakerPC \cup SetupPC \cup HoldPC
    BY <2>1 DEF PipePC, RunPC, HeredocPC, HoldPC, MakerPC, SetupPC
  <2>3. \A s \in Slot : fds[q][s] \in {Tty, Shut}
    BY <1>2, <1>4 DEF ShellFds, NoFds
  <2>4. SeparatedAt(q)
    <3>1. \A n \in Node : Tty # R(n) /\ Tty # W(n) /\ Shut # R(n) /\ Shut # W(n)
      BY DEF R, W, Tty, Shut
    <3>2. fds[q]["pr"] = Shut /\ fds[q]["pw"] = Shut
      BY <1>2, <1>4 DEF ShellFds, NoFds, Slot
    <3>3. QED
      BY <2>3, <3>1, <3>2 DEF SeparatedAt, Slot
  <2>5. ShapeOf(q)
    BY <1>2, <1>4, <2>2 DEF ShapeOf, Labels, ShellPC, GonePC
  <2>6. HoldOf(q)
    <3>1. fds[Shell]["in"] = Tty /\ fds[Shell]["out"] = Tty
          /\ fds[Shell]["leak"] = ShellFds["leak"] /\ Tty[1] = "tty"
          /\ \A s \in {"svin", "svout", "pr", "pw"} : fds[Shell][s] = Shut /\ NoFds[s] = Shut
      BY <1>2 DEF ShellFds, NoFds, Slot, Tty
    <3>2. ShellFds["in"] = Tty /\ ShellFds["out"] = Tty
      BY DEF ShellFds, Slot
    <3>3. OwnedAs(fds[Shell], "in", "out")
      BY <3>1, <3>2 DEF OwnedAs, Owned
    <3>4. CASE q = Shell
      BY <1>2, <2>2, <3>1, <3>3, <3>4 DEF HoldOf, GonePC
    <3>5. CASE q # Shell
      BY <1>2, <3>1, <3>5 DEF HoldOf, GonePC
    <3>6. QED
      BY <3>4, <3>5
  <2>7. PipeOf(q)
    BY <2>2 DEF PipeOf
  <2>8. QED
    BY <2>4, <2>5, <2>6, <2>7 DEF LocalOf
<1>5. QED
  BY <1>1, <1>3, <1>4 DEF Local

\* Types, Local and Forest hold in every reachable state.
LEMMA ProcInv == Spec => [](TypeOK /\ Local /\ Forest)
<1>1. TypeOK /\ Local /\ Forest /\ [Next]_vars => (TypeOK /\ Local /\ Forest)'
  BY TypeStep, LocalStep, ForestStep
<1>2. QED
  BY <1>1, ProcInit, PTL DEF Spec

(***************************************************************************)
(* In every reachable state each variable has its type.                    *)
(***************************************************************************)
THEOREM TypeCorrect == Spec => []TypeOK
  BY ProcInv, PTL

(***************************************************************************)
(* For every tree, however deep: the write end of a pipe is only held      *)
(* under its left operand, the read end only under its right one.          *)
(***************************************************************************)
THEOREM PipesSeparated == Spec => []EndsSeparated
<1>1. Local => EndsSeparated
  BY DEF Local, LocalOf, EndsSeparated
<1>2. QED
  BY <1>1, ProcInv, PTL

(***************************************************************************)
(* The prompt finds no process left over, no end of a pipe, and the        *)
(* shell's own descriptors but for those in Faults.  With Faults = {} this *)
(* is said of every behaviour in which restore_fds does not fail and       *)
(* save_original_fds does not fail for stdin alone, whatever else does.    *)
(***************************************************************************)
THEOREM PromptClean == Spec => []CleanPrompt
<1>1. TypeOK /\ Local /\ Forest => CleanPrompt
  <2> SUFFICES ASSUME TypeOK, Local, Forest, pc[Shell] = "prompt"
               PROVE  /\ \A s \in Slot \ Faults : fds[Shell][s] = ShellFds[s]
                      /\ \A n \in Node : tree.kind[n] = "pipe" => ~Held(R(n)) /\ ~Held(W(n))
                      /\ \A q \in Proc \ {Shell} : pc[q] = "none" /\ fds[q] = NoFds
    BY DEF CleanPrompt
  <2>1. LocalOf(Shell)
    BY ProcTypes DEF Local
  <2>2. Own(fds[Shell])
    BY <2>1, PromptOwn
  <2>3. ASSUME NEW s \in Slot \ Faults PROVE fds[Shell][s] = ShellFds[s]
    BY <2>2 DEF Own, OwnedAs, Owned, Slot, ShellFds
  <2>4. \A q \in Proc \ {Shell} : pc[q] = "none" /\ fds[q] = NoFds
    BY PromptAlone
  <2>5. ASSUME NEW n \in Node, tree.kind[n] = "pipe", NEW q \in Proc, NEW s \in Slot
        PROVE  fds[q][s] # R(n) /\ fds[q][s] # W(n)
    <3>1. /\ R(n)[1] = "r" /\ W(n)[1] = "w" /\ Shut[1] = "shut" /\ Tty[1] = "tty"
          /\ ShellFds["leak"] = Shut
      BY DEF R, W, Shut, Tty, ShellFds, Slot
    <3>2. CASE q # Shell
      BY <2>4, <3>1, <3>2 DEF NoFds
    <3>3. CASE q = Shell
      BY <2>2, <2>5, <3>1, <3>3 DEF Own, OwnedAs, Owned, Plain, Slot
    <3>4. QED
      BY <3>2, <3>3
  <2>6. QED
    BY <2>3, <2>4, <2>5 DEF Held
<1>2. QED
  BY <1>1, ProcInv, PTL

-----------------------------------------------------------------------------
(***************************************************************************)
(* An end of file comes after the last of the left operand, a broken pipe  *)
(* after the last of the right one: the proof that the pipe ends are held  *)
(* long enough (Ends, Chains and Operands of ExecInv).                     *)
(***************************************************************************)
\* What the constants' assumptions say of the tree of the line.
LEMMA TreeFacts ==
  ASSUME TypeOK
  PROVE  /\ tree \in Tree /\ PreOrder(tree) /\ tree.root \in Node
         /\ \A n \in Node : /\ n \in Nat /\ n # Nil /\ tree.last[n] \in Nat
                            /\ n <= tree.last[n]
                            /\ tree.left[n] \in Node \cup {Nil}
                            /\ tree.right[n] \in Node \cup {Nil}
                            /\ tree.left[n] # Nil => n < tree.left[n]
                            /\ tree.right[n] # Nil => n < tree.right[n]
<1>1. tree \in Tree /\ PreOrder(tree)
  BY TreesAssumption DEF TypeOK
<1>2. QED
  BY <1>1, NodeAssumption DEF Tree, PreOrder, Nil

\* A subtree around a child of n, other than the child's own, is around n.
LEMMA ParentBelow ==
  ASSUME TypeOK, NEW n \in Node, NEW k \in {tree.left[n], tree.right[n]}, k # Nil,
         NEW m \in Node, Below(k, m), k # m
  PROVE  Below(n, m)
<1> DEFINE a == tree.left[n]
           b == tree.right[n]
<1>1. k \in Node /\ Below(k, n)
  BY OperandBelow, TreeFacts, NodeAssumption
<1>2. Below(n, m) \/ Below(m, n)
  BY <1>1, Laminar
<1>3. ASSUME Below(m, n), n # m PROVE FALSE
  <2>1. n \in Nat /\ m \in Nat /\ k \in Nat /\ tree.last[m] \in Nat /\ tree.last[n] \in Nat
    BY <1>1, TreeFacts
  <2>2. n < m /\ m <= tree.last[n] /\ m < k /\ k <= tree.last[m]
    BY <1>3, <2>1 DEF Below
  <2>3. \/ a # Nil /\ a <= m /\ m <= tree.last[a]
        \/ b # Nil /\ b <= m /\ m <= tree.last[b]
    BY <2>2, TreeFacts DEF PreOrder
  <2>4. CASE k = a
    <3>1. b # Nil /\ b <= m /\ tree.last[a] < b /\ k <= tree.last[a]
      BY <1>1, <2>1, <2>2, <2>3, <2>4, TreeFacts DEF PreOrder
    <3>2. a \in Node /\ b \in Node
      BY <1>1, <2>4, <3>1, TreeFacts
    <3>3. b \in Nat /\ tree.last[a] \in Nat
      BY <3>2, TreeFacts
    <3>4. QED
      BY <2>1, <2>2, <3>1, <3>3
  <2>5. CASE k = b
    <3>1. a # Nil /\ a <= m /\ m <= tree.last[a]
      BY <2>1, <2>2, <2>3, <2>5
    <3>2. a \in Node
      BY <3>1, TreeFacts
    <3>3. tree.last[m] <= tree.last[a] /\ tree.last[a] < b
      BY <1>1, <2>5, <3>1, <3>2, TreeFacts DEF PreOrder
    <3>4. tree.last[a] \in Nat
      BY <3>2, TreeFacts
    <3>5. QED
      BY <2>1, <2>2, <2>5, <3>3, <3>4
  <2>6. QED
    BY <2>4, <2>5
<1>4. QED
  BY <1>2, <1>3, OperandBelow, TreeFacts, NodeAssumption

\* A node is a child of one node only, on one side.
LEMMA OneParent ==
  ASSUME TypeOK, NEW n \in Node, NEW m \in Node, NEW k \in Node,
         k \in {tree.left[n], tree.right[n]}, k \in {tree.left[m], tree.right[m]}
  PROVE  n = m /\ (k = tree.left[n] <=> k = tree.left[m]) /\ tree.left[n] # tree.right[n]
<1>1. k # Nil /\ n \in Nat /\ m \in Nat /\ k \in Nat /\ n < k /\ m < k
  BY TreeFacts
<1>2. Below(k, n) /\ Below(k, m)
  BY <1>1, OperandBelow, TreeFacts, NodeAssumption
<1>3. Below(n, m) /\ Below(m, n)
  BY <1>1, <1>2, ParentBelow
<1>4. n = m
  BY <1>1, <1>3 DEF Below
<1>5. tree.left[n] # tree.right[n]
  <2>1. SUFFICES ASSUME tree.left[n] = k, tree.right[n] = k PROVE FALSE
    OBVIOUS
  <2>2. tree.last[k] < k /\ k <= tree.last[k] /\ tree.last[k] \in Nat
    BY <1>1, <2>1, TreeFacts DEF PreOrder
  <2>3. QED
    BY <1>1, <2>2
<1>6. QED
  BY <1>4, <1>5

\* No subtree around the root is an operand.
LEMMA RootOutside ==
  ASSUME TypeOK, NEW k \in PipeOperand
  PROVE  ~Below(tree.root, k)
<1>1. PICK n \in Node : k \in {tree.left[n], tree.right[n]}
  BY DEF PipeOperand
<1>2. k \in Node /\ k # Nil /\ k \in Nat /\ n \in Nat /\ tree.root \in Nat /\ n < k
  BY <1>1, TreeFacts DEF PipeOperand
<1>3. tree.root <= n
  BY <1>1, <1>2, TreeFacts DEF PreOrder
<1>4. QED
  BY <1>2, <1>3 DEF Below

Order == Ends /\ Chains /\ Operands

\* What a step must keep of the ends p was forked for.
Keeps(p) ==
  p \in Children /\ Alive(p)' =>
    /\ fds'[p][OutSlot(pc'[p])] = fds[p][OutSlot(pc[p])]
    /\ fds'[p][InSlot(pc'[p])] = fds[p][InSlot(pc[p])]

\* A child that keeps its descriptors and its place keeps its pipe end.
LEMMA EndKeep ==
  ASSUME tree' = tree, NEW p \in Children, Alive(p), Ends, Keeps(p)
  PROVE  EndOf(p)'
<1> SUFFICES ASSUME Alive(p)', NEW n \in Node, tree.kind[n] = "pipe"
             PROVE  /\ p[2] = tree.left[n] => fds'[p][OutSlot(pc'[p])] = W(n)
                    /\ p[2] = tree.right[n] => fds'[p][InSlot(pc'[p])] = R(n)
  BY DEF EndOf, OutSlot, InSlot
<1>1. EndOf(p)
  BY DEF Ends
<1>2. QED
  BY <1>1 DEF EndOf, Keeps

\* Ends only concerns the processes a step changes.
LEMMA FrameEnds ==
  ASSUME Ends, NEW S, Others(S), \A q \in S : q \in Children => EndOf(q)'
  PROVE  Ends'
<1> SUFFICES ASSUME NEW q \in Children, q \notin S PROVE EndOf(q)'
  BY DEF Ends
<1>1. tree' = tree /\ pc'[q] = pc[q] /\ fds'[q] = fds[q] /\ EndOf(q)
  BY DEF Others, Ends, Proc, Interp
<1>2. QED
  BY <1>1 DEF EndOf, Alive, OutSlot, InSlot

\* Chains only concerns the processes a step changes.
LEMMA FrameChains ==
  ASSUME Chains, NEW S, Others(S), \A q \in S : q \in Interp => ChainOf(q)'
  PROVE  Chains'
<1> SUFFICES ASSUME NEW q \in Interp, q \notin S PROVE ChainOf(q)'
  BY DEF Chains
<1>1. /\ tree' = tree /\ pc'[q] = pc[q] /\ cur'[q] = cur[q] /\ ChainOf(q)
      /\ NodeOf(q)' = NodeOf(q)
  BY DEF Others, Chains, Proc, NodeOf
<1>2. QED
  BY <1>1 DEF ChainOf, Below, PipeOperand

(***************************************************************************)
(* A step of p that starts no process; it may reap c.                      *)
(***************************************************************************)
LEMMA OrderMove ==
  ASSUME TypeOK, Order, Forest', NEW p \in Proc, NEW c \in Proc, Others({p, c}),
         c = p \/ (pc[c] = "zombie" /\ pc'[c] = "none"),
         Alive(p), pc'[p] # "none", Keeps(p), p \in Interp => ChainOf(p)'
  PROVE  Order'
<1>1. /\ tree' = tree /\ \A q \in Proc : NodeOf(q)' = NodeOf(q)
      /\ \A q \in Proc \ {p, c} : pc'[q] = pc[q]
  BY DEF Others, NodeOf
<1>2. c # p => ~Alive(c)' /\ pc'[c] = "none"
  BY DEF Alive, GonePC
<1>3. Ends'
  <2>1. p \in Children => EndOf(p)'
    BY <1>1, EndKeep DEF Order
  <2>2. c # p => EndOf(c)'
    BY <1>2 DEF EndOf
  <2>3. QED
    BY <2>1, <2>2, FrameEnds DEF Order
<1>4. Chains'
  <2>1. c # p => ChainOf(c)'
    BY <1>2 DEF ChainOf, RunPC, HeredocPC
  <2>2. QED
    BY <2>1, FrameChains DEF Order
<1>5. PipeOperand' = PipeOperand
  BY <1>1 DEF PipeOperand
<1>6. ASSUME NEW k \in PipeOperand, NEW q \in Proc, Alive(q)', Below(NodeOf(q), k)
      PROVE  Alive(Child(k))'
  <2>1. Child(k) \in Interp /\ Child(k) \in Proc /\ NodeOf(Child(k)) = k /\ Child(k) # Shell
    BY ProcTypes DEF PipeOperand, NodeOf, Child
  <2>2. Alive(q)
    BY <1>1, <1>2, <1>6 DEF Alive
  <2>3. Alive(Child(k))
    BY <1>6, <2>2 DEF Order, Operands
  <2>4. CASE Child(k) # p
    BY <1>1, <2>1, <2>3, <2>4 DEF Alive, GonePC
  <2>5. CASE Child(k) = p /\ pc'[p] = "zombie"
    <3>1. q # Shell
      BY <1>6, RootOutside DEF NodeOf
    <3>2. q # p
      BY <1>6, <2>5 DEF Alive, GonePC
    <3>3. pc'[q] # "none" /\ Below(q[2], NodeOf(p))' /\ q[2] \in Node
      BY <1>1, <1>6, <2>1, <2>5, <3>1, ProcNode DEF Alive, GonePC, Below
    <3>4. \A m : ~Busy(p, m)'
      BY <2>5 DEF Busy
    <3>5. QED
      BY <2>1, <2>5, <3>1, <3>2, <3>3, <3>4 DEF Forest
  <2>6. CASE Child(k) = p /\ pc'[p] # "zombie"
    BY <2>6 DEF Alive, GonePC
  <2>7. QED
    BY <2>4, <2>5, <2>6
<1>7. Operands'
  <2>1. \A k \in PipeOperand, q \in Proc : Below(NodeOf(q), k)' => Below(NodeOf(q), k)
    BY <1>1 DEF Below
  <2>2. QED
    BY <1>5, <1>6, <2>1 DEF Operands
<1>8. QED
  BY <1>3, <1>4, <1>7 DEF Order

(***************************************************************************)
(* A step of p that forks c.                                               *)
(***************************************************************************)
LEMMA OrderFork ==
  ASSUME TypeOK, Order, NEW p \in Interp, NEW c \in Proc, Others({p, c}), c # Shell,
         Alive(p), Alive(p)', Keeps(p), ChainOf(p)',
         c \in Interp => ChainOf(c)' /\ EndOf(c)', Alive(c)',
         \A k \in PipeOperand : Below(c[2], k) => c = Child(k) \/ Below(NodeOf(p), k)
  PROVE  Order'
<1>1. /\ tree' = tree /\ \A q \in Proc : NodeOf(q)' = NodeOf(q)
      /\ \A q \in Proc \ {p, c} : pc'[q] = pc[q]
      /\ p \in Proc /\ NodeOf(c) = c[2]
  BY ProcTypes, ProcNode DEF Others, NodeOf
<1>2. Ends'
  <2>1. p \in Children => EndOf(p)'
    BY <1>1, EndKeep DEF Order
  <2>2. QED
    BY <2>1, FrameEnds DEF Order, Interp
<1>3. Chains'
  BY FrameChains DEF Order
<1>4. PipeOperand' = PipeOperand
  BY <1>1 DEF PipeOperand
<1>5. ASSUME NEW k \in PipeOperand, NEW q \in Proc, Alive(q)', Below(NodeOf(q), k)
      PROVE  Alive(Child(k))'
  <2>1. Child(k) \in Proc
    BY ProcTypes DEF PipeOperand
  <2>2. c = Child(k) \/ Alive(Child(k))
    BY <1>1, <1>5 DEF Order, Operands, Alive
  <2>3. QED
    BY <1>1, <2>1, <2>2 DEF Alive
<1>6. Operands'
  <2>1. \A k \in PipeOperand, q \in Proc : Below(NodeOf(q), k)' => Below(NodeOf(q), k)
    BY <1>1 DEF Below
  <2>2. QED
    BY <1>4, <1>5, <2>1 DEF Operands
<1>7. QED
  BY <1>2, <1>3, <1>6 DEF Order

\* p keeps what it is interpreting, or interprets no more.
LEMMA ChainKeep ==
  ASSUME Chains, NEW p \in Interp, tree' = tree,
         \/ pc'[p] \notin RunPC \cup {"save"}
         \/ cur'[p] = cur[p] /\ pc[p] \in RunPC \cup {"save"}
  PROVE  ChainOf(p)'
<1>1. ChainOf(p) /\ NodeOf(p)' = NodeOf(p)
  BY DEF Chains, NodeOf
<1>2. QED
  BY <1>1 DEF ChainOf, Below, PipeOperand

\* p returns from execute_ast, exits or is killed; it may have reaped c.
LEMMA OrderEnd ==
  ASSUME TypeOK, Order, Forest', NEW p \in Proc, NEW c \in Proc, Others({p, c}),
         c = p \/ (pc[c] = "zombie" /\ pc'[c] = "none"),
         Alive(p), pc'[p] \in {"zombie", "prompt", "exited"},
         p = Shell \/ pc'[p] = "zombie"
  PROVE  Order'
<1>1. Keeps(p)
  BY DEF Keeps, Alive, GonePC, Children, Shell
<1>2. p \in Interp => ChainOf(p)'
  BY DEF ChainOf, RunPC, HeredocPC
<1>3. QED
  BY <1>1, <1>2, OrderMove

\* A return from execute_ast keeps Order.
LEMMA OrderLeave ==
  ASSUME TypeOK, Order, Forest', NEW p \in Interp, Alive(p), NEW f, NEW s,
         Leave(p, pc, f, s)
  PROVE  Order'
<1>1. p \in Proc /\ Others({p, p}) /\ pc'[p] = IF p = Shell THEN "prompt" ELSE "zombie"
  BY ProcTypes DEF Leave, Others, TypeOK
<1>2. QED
  BY <1>1, OrderEnd

\* The same, when the pipes are left as they are.
LEMMA OrderReturn ==
  ASSUME TypeOK, Order, Forest', NEW p \in Interp, Alive(p), NEW f, NEW s,
         Return(p, pc, f, s)
  PROVE  Order'
  BY OrderLeave DEF Return

\* A message written before returning keeps Order.
LEMMA OrderSay ==
  ASSUME TypeOK, Local, Order, Forest', NEW p \in Interp, NEW f, NEW s,
         pc[p] \in {"dispatch", "run"}, Say(p, f, s)
  PROVE  Order'
<1>1. /\ p \in Proc /\ Alive(p) /\ Others({p, p})
      /\ pc'[p] = IF p = Shell THEN "prompt" ELSE "zombie"
  BY SayEffect, ProcTypes DEF Alive, GonePC, Others
<1>2. QED
  BY <1>1, OrderEnd

\* The "command not found" message keeps Order.
LEMMA NotFoundOrder ==
  ASSUME TypeOK, Local, Order, Forest', NEW p \in Interp, NotFound(p)
  PROVE  Order'
  BY OrderSay DEF NotFound

\* dispatch_ast_node keeps Order.
LEMMA DispatchOrder ==
  ASSUME TypeOK, Order, Forest', NEW p \in Interp, Dispatch(p)
  PROVE  Order'
<1>1. p \in Proc /\ pc \in [Proc -> PC] /\ cur \in [Proc -> Node \cup {Nil}]
  BY ProcTypes DEF TypeOK
<1>2. pc[p] = "dispatch" /\ Alive(p)
  BY DEF Dispatch, Alive, GonePC
<1>3. CASE \E s : Return(p, pc, fds[p], s)
  BY <1>2, <1>3, OrderReturn
<1>4. CASE ~\E s : Return(p, pc, fds[p], s)
  <2>1. /\ Others({p, p}) /\ fds' = fds
        /\ pc'[p] = "pipe" \/ (pc'[p] = "save" /\ cur'[p] = NodeOf(p))
    BY <1>1, <1>4 DEF Dispatch, Goto, Others
  <2>2. {"dispatch", "pipe", "save"} \cap RunPC = {}
    BY DEF RunPC, HeredocPC
  <2>3. Keeps(p)
    BY <1>2, <2>1, <2>2 DEF Keeps, OutSlot, InSlot
  <2>4. ChainOf(p)'
    <3>1. NodeOf(p)' = NodeOf(p) /\ tree' = tree
      BY <2>1 DEF Others, NodeOf
    <3>2. QED
      BY <2>1, <2>2, <3>1 DEF ChainOf, Below
  <2>5. QED
    BY <1>1, <1>2, <2>1, <2>3, <2>4, OrderMove
<1>5. QED
  BY <1>3, <1>4

\* A step from one place of a chain to another that keeps original_fds.
LEMMA OrderRun ==
  ASSUME TypeOK, Order, Forest', NEW p \in Interp, Others({p}),
         pc[p] \in RunPC, pc'[p] \in RunPC,
         fds'[p]["svin"] = fds[p]["svin"], fds'[p]["svout"] = fds[p]["svout"],
         ChainOf(p)'
  PROVE  Order'
<1>1. p \in Proc /\ Others({p, p}) /\ Alive(p) /\ pc'[p] # "none"
  BY ProcTypes DEF Others, Alive, GonePC, RunPC, HeredocPC
<1>2. pc[p] \notin SetupPC /\ pc'[p] \notin SetupPC
  BY DEF RunPC, HeredocPC, SetupPC
<1>3. Keeps(p)
  BY <1>2 DEF Keeps, OutSlot, InSlot, SetupPC
<1>4. QED
  BY <1>1, <1>3, OrderMove

\* The operand of a redirection is under the same operands of pipes.
LEMMA OperandOrder ==
  ASSUME TypeOK, NEW n \in Node, tree.kind[n] # "pipe", Operand(n) # Nil,
         NEW k \in PipeOperand, Below(Operand(n), k)
  PROVE  Below(n, k)
<1>1. PICK m \in Node : tree.kind[m] = "pipe" /\ k \in {tree.left[m], tree.right[m]}
  BY DEF PipeOperand
<1>2. Operand(n) \in Node /\ Operand(n) \in {tree.left[n], tree.right[n]} /\ k \in Node
  BY TreeFacts DEF Operand, PipeOperand
<1>3. Operand(n) # k
  BY <1>1, <1>2, OneParent
<1>4. QED
  BY <1>2, <1>3, ParentBelow

\* The steps of a redirection chain keep Order.
LEMMA ChainOrder ==
  ASSUME TypeOK, Local, Order, Forest', NEW p \in Interp, Chain(p)
  PROVE  Order'
<1>1. /\ p \in Proc /\ pc \in [Proc -> PC] /\ fds \in [Proc -> [Slot -> Desc]]
      /\ fds[p] \in [Slot -> Desc]
  BY ProcTypes DEF TypeOK
<1>2. pc[p] \in {"save", "collect", "apply"} /\ Alive(p)
  BY DEF Chain, SaveFds, Collect, Apply, AllApplied, Alive, GonePC
<1>3. CASE \E f, s : Return(p, pc, f, s)
  BY <1>2, <1>3, OrderReturn
<1>4. CASE SaveFds(p) /\ ~\E f, s : Return(p, pc, f, s)
  <2>1. /\ pc[p] = "save" /\ pc'[p] \in {"run", "collect"} /\ cur'[p] = cur[p]
        /\ Others({p, p}) /\ fds'[p] = Saved(fds[p])
    BY <1>1, <1>4 DEF SaveFds, Goto, Others
  <2>2. fds'[p]["svin"] = fds[p]["in"] /\ fds'[p]["svout"] = fds[p]["out"]
    BY <1>1, <2>1 DEF Saved, Slot
  <2>3. pc'[p] \in RunPC /\ pc[p] \notin RunPC
    BY <2>1 DEF RunPC, HeredocPC
  <2>4. Keeps(p)
    BY <2>1, <2>2, <2>3 DEF Keeps, OutSlot, InSlot
  <2>5. ChainOf(p)'
    BY <2>1, ChainKeep DEF Others, Order
  <2>6. pc'[p] # "none"
    BY <2>1
  <2>7. QED
    BY <1>1, <1>2, <2>1, <2>4, <2>5, <2>6, OrderMove
<1>5. CASE Collect(p) /\ ~\E f, s : Return(p, pc, f, s)
  <2>1. /\ pc[p] = "collect" /\ pc'[p] \in {"collect", "apply"} /\ fds' = fds
        /\ Others({p})
        /\ \/ cur'[p] = cur[p]
           \/ /\ cur'[p] = Operand(cur[p]) /\ Operand(cur[p]) # Nil
              /\ tree.kind[cur[p]] # "pipe"
    BY <1>1, <1>5 DEF Collect, Finish, Goto, Others, TypeOK, RedirKind
  <2>2. pc[p] \in RunPC /\ pc'[p] \in RunPC
    BY <2>1 DEF RunPC
  <2>3. ChainOf(p)'
    <3>1. CASE cur'[p] = cur[p]
      BY <2>1, <2>2, <3>1, ChainKeep DEF Others, Order
    <3>2. CASE cur'[p] # cur[p]
      <4>1. ChainOf(p) /\ cur[p] \in Node
        BY <1>1, <2>2 DEF Order, Chains, Local, LocalOf, ShapeOf
      <4>2. \A k \in PipeOperand : Below(cur'[p], k) => Below(NodeOf(p), k)
        BY <2>1, <2>2, <3>2, <4>1, OperandOrder DEF ChainOf
      <4>3. tree' = tree /\ NodeOf(p)' = NodeOf(p)
        BY <2>1 DEF Others, NodeOf
      <4>4. QED
        BY <4>2, <4>3 DEF ChainOf, Below, PipeOperand
    <3>3. QED
      BY <3>1, <3>2
  <2>4. QED
    BY <2>1, <2>2, <2>3, OrderRun
<1>6. CASE (Apply(p) \/ AllApplied(p)) /\ ~\E f, s : Return(p, pc, f, s)
  <2>1. pc[p] = "apply" /\ cur' = cur /\ tree' = tree /\ rs' \in {rs, Popped(p)}
        /\ pc' \in {pc, [pc EXCEPT ![p] = "hd_prompt"], [pc EXCEPT ![p] = "run"]}
        /\ \/ fds' = fds
           \/ \E s \in {"in", "out"} : \E d : fds' = [fds EXCEPT ![p][s] = d]
           \/ \E d, e : fds' = [fds EXCEPT ![p]["pr"] = d, ![p]["pw"] = e]
    BY <1>6 DEF Apply, AllApplied, Finish, OpenFile, OpenHeredoc, Goto
  <2>2. Others({p}) /\ pc'[p] \in {"apply", "hd_prompt", "run"}
    BY <1>1, <2>1 DEF Others, Popped, TypeOK
  <2>3. fds'[p]["svin"] = fds[p]["svin"] /\ fds'[p]["svout"] = fds[p]["svout"]
    <3>1. CASE \E s \in {"in", "out"} : \E d : fds' = [fds EXCEPT ![p][s] = d]
      <4>0. PICK s \in {"in", "out"} : \E d : fds' = [fds EXCEPT ![p][s] = d]
        BY <3>1
      <4>1. PICK d : fds' = [fds EXCEPT ![p][s] = d]
        BY <4>0
      <4>2. fds'[p] = [fds[p] EXCEPT ![s] = d] /\ s # "svin" /\ s # "svout"
        BY <1>1, <4>1
      <4>3. QED
        BY <1>1, <4>2 DEF Slot
    <3>2. CASE \E d, e : fds' = [fds EXCEPT ![p]["pr"] = d, ![p]["pw"] = e]
      <4>1. PICK d, e : fds' = [fds EXCEPT ![p]["pr"] = d, ![p]["pw"] = e]
        BY <3>2
      <4>2. fds'[p] = [fds[p] EXCEPT !["pr"] = d, !["pw"] = e]
        BY <1>1, <4>1
      <4>3. QED
        BY <1>1, <4>2 DEF Slot
    <3>3. QED
      BY <2>1, <3>1, <3>2
  <2>4. pc[p] \in RunPC /\ pc'[p] \in RunPC
    BY <2>1, <2>2 DEF RunPC, HeredocPC
  <2>5. ChainOf(p)'
    BY <2>1, <2>4, ChainKeep DEF Order
  <2>6. QED
    BY <2>2, <2>3, <2>4, <2>5, OrderRun
<1>7. QED
  BY <1>3, <1>4, <1>5, <1>6 DEF Chain

\* The steps of a here-document keep Order.
LEMMA HeredocOrder ==
  ASSUME TypeOK, Local, Order, Forest', NEW p \in Interp, Heredoc(p)
  PROVE  Order'
<1>1. /\ p \in Proc /\ pc \in [Proc -> PC] /\ fds \in [Proc -> [Slot -> Desc]]
      /\ fds[p] \in [Slot -> Desc]
  BY ProcTypes DEF TypeOK
<1>2. pc[p] \in HeredocPC /\ Alive(p)
  BY DEF Heredoc, HeredocPrompt, HeredocLine, HeredocEnd, HeredocStore, HeredocPC,
         Alive, GonePC
<1>3. CASE BrokenPipe(p) /\ Killed(p)
  <2>1. p # Shell
    BY <1>3, ShellUnbroken
  <2>2. Others({p, p}) /\ pc'[p] = "zombie"
    BY <1>1, <1>3 DEF Killed, Die, Others
  <2>3. QED
    BY <1>1, <1>2, <2>1, <2>2, OrderEnd
<1>4. CASE \E f : Leave(p, pc, f, -1)
  BY <1>2, <1>4, OrderLeave
<1>5. CASE ~(BrokenPipe(p) /\ Killed(p)) /\ ~\E f : Leave(p, pc, f, -1)
  <2>1. /\ cur' = cur /\ tree' = tree /\ rs' \in {rs, Popped(p)}
        /\ \E l \in HeredocPC \cup {"apply"} : pc' = [pc EXCEPT ![p] = l]
        /\ \/ fds' = fds
           \/ \E d : fds' = [fds EXCEPT ![p]["in"] = d]
           \/ fds' = [fds EXCEPT ![p] = Piped("in", "pr", @)]
    <3>1. CASE HeredocPrompt(p)
      BY <1>5, <3>1 DEF HeredocPrompt, Goto, HeredocPC
    <3>2. CASE HeredocLine(p)
      BY <3>2 DEF HeredocLine, ReadUnit, Goto, HeredocPC
    <3>3. CASE HeredocEnd(p)
      BY <1>5, <3>3 DEF HeredocEnd, Goto
    <3>4. CASE HeredocStore(p)
      BY <1>5, <3>4 DEF HeredocStore, Finish, Return, Goto, HeredocPC
    <3>5. QED
      BY <3>1, <3>2, <3>3, <3>4 DEF Heredoc
  <2>2. Others({p}) /\ pc'[p] \in RunPC
    BY <1>1, <2>1 DEF Others, Popped, TypeOK, RunPC
  <2>3. fds'[p]["svin"] = fds[p]["svin"] /\ fds'[p]["svout"] = fds[p]["svout"]
    <3>1. CASE \E d : fds' = [fds EXCEPT ![p]["in"] = d]
      <4>1. PICK d : fds' = [fds EXCEPT ![p]["in"] = d]
        BY <3>1
      <4>2. fds'[p] = [fds[p] EXCEPT !["in"] = d]
        BY <1>1, <4>1
      <4>3. QED
        BY <1>1, <4>2 DEF Slot
    <3>2. CASE fds' = [fds EXCEPT ![p] = Piped("in", "pr", @)]
      <4>1. fds'[p] = Piped("in", "pr", fds[p])
        BY <1>1, <3>2
      <4>2. QED
        BY <1>1, <4>1 DEF Piped, Closed, Slot
    <3>3. QED
      BY <2>1, <3>1, <3>2
  <2>4. pc[p] \in RunPC
    BY <1>2 DEF RunPC
  <2>5. ChainOf(p)'
    BY <2>1, <2>4, ChainKeep DEF Order
  <2>6. QED
    BY <2>2, <2>3, <2>4, <2>5, OrderRun
<1>6. QED
  BY <1>3, <1>4, <1>5

\* The steps of a simple command keep Order.
LEMMA RunOrder ==
  ASSUME TypeOK, Local, Order, Forest', NEW p \in Interp, Run(p)
  PROVE  Order'
<1>0. /\ p \in Proc /\ pc \in [Proc -> PC] /\ LocalOf(p)
      /\ pc[p] \in {"run", "waitx"} /\ pc[p] \in RunPC /\ Alive(p)
  BY ProcTypes
  DEF TypeOK, Local, Run, RunBuiltin, RunEcho, RunExit, RunProgram, WaitProgram, RunPC,
      Alive, GonePC
<1>1. PICK k \in Node, c \in Proc \ {Shell} :
        /\ k = cur[p] /\ Below(k, NodeOf(p))
        /\ c = Ext(k) /\ c # p /\ c[2] = k /\ c \notin Interp
  BY <1>0, ProcTypes, ZenonT(60) DEF LocalOf, ShapeOf, Ext
<1>2. CASE \E f, s : Return(p, pc, f, s)
  BY <1>0, <1>2, OrderReturn
<1>3. CASE RunBuiltin(p)
  BY <1>2, <1>3 DEF RunBuiltin, Finish
<1>4. CASE RunEcho(p) \/ RunExit(p)
  <2>1. CASE RunEcho(p)
    BY <2>1, OrderSay DEF RunEcho
  <2>2. CASE RunExit(p)
    <3>1. /\ Others({p, p}) /\ pc'[p] \in {"zombie", "prompt", "exited"}
          /\ p = Shell \/ pc'[p] = "zombie"
      BY <1>0, <2>2 DEF RunExit, Others, TypeOK
    <3>2. QED
      BY <1>0, <3>1, OrderEnd
  <2>3. QED
    BY <1>4, <2>1, <2>2
<1>5. CASE RunProgram(p) /\ ~Finish(p, 1)
  <2>1. Fork(p, c, "exec", "waitx")
    BY <1>1, <1>5 DEF RunProgram
  <2>2. /\ Others({p, c}) /\ pc'[p] = "waitx" /\ cur'[p] = cur[p] /\ fds'[p] = fds[p]
        /\ pc'[c] = "exec"
    BY <1>0, <1>1, <2>1 DEF Fork, Others, TypeOK
  <2>3. pc'[p] \in RunPC /\ Alive(p)' /\ Alive(c)'
    BY <2>2 DEF RunPC, Alive, GonePC
  <2>4. Keeps(p)
    BY <1>0, <2>2, <2>3 DEF Keeps, OutSlot, InSlot
  <2>5. ChainOf(p)'
    BY <1>0, <2>2, ChainKeep DEF Others, Order
  <2>6. \A m \in PipeOperand : Below(k, m) => Below(NodeOf(p), m)
    BY <1>0, <1>1 DEF Order, Chains, ChainOf
  <2>7. QED
    BY <1>0, <1>1, <2>2, <2>3, <2>4, <2>5, <2>6, OrderFork
<1>6. CASE WaitProgram(p)
  <2>1. /\ Others({p, c}) /\ pc[c] = "zombie" /\ pc'[c] = "none"
        /\ pc'[p] = IF p = Shell THEN "prompt" ELSE "zombie"
    BY <1>0, <1>1, <1>6 DEF WaitProgram, Return, Leave, Others, TypeOK
  <2>2. QED
    BY <1>0, <2>1, OrderEnd
<1>7. QED
  BY <1>2, <1>3, <1>4, <1>5, <1>6 DEF Run, Finish

\* The steps of the programs keep Order.
LEMMA ProgramOrder ==
  ASSUME TypeOK, Order, Forest', NEW e \in Exts, Program(e) \/ Typed(e)
  PROVE  Order'
<1>1. /\ e \in Proc /\ e \notin Interp /\ e \notin Children /\ pc \in [Proc -> PC]
      /\ Alive(e)
  BY ProcTypes DEF TypeOK, Program, Exec, ProgRead, ProgWrite, ProgQuit, Typed,
                   Alive, GonePC
<1>2. Others({e, e}) /\ pc'[e] # "none"
  <2>1. CASE Exec(e)
    BY <1>1, <2>1 DEF Exec, Die, Goto, Others, TypeOK
  <2>2. CASE ProgRead(e)
    BY <1>1, <2>2 DEF ProgRead, ReadUnit, Goto, Others, TypeOK
  <2>3. CASE ProgWrite(e)
    BY <1>1, <2>3 DEF ProgWrite, Killed, Die, Goto, Others, TypeOK
  <2>4. CASE ProgQuit(e)
    BY <1>1, <2>4 DEF ProgQuit, Die, Others, TypeOK
  <2>5. CASE Typed(e)
    BY <1>1, <2>5 DEF Typed, Goto, Others, TypeOK
  <2>6. QED
    BY <2>1, <2>2, <2>3, <2>4, <2>5 DEF Program
<1>3. Keeps(e)
  BY <1>1 DEF Keeps
<1>4. QED
  BY <1>1, <1>2, <1>3, OrderMove

\* p, executing a pipe, forks the child for its operand k.
LEMMA OperandFork ==
  ASSUME TypeOK, Local, Order, NEW p \in Interp, NEW k \in Node, NEW l, NEW m,
         \/ pc[p] = "fork1" /\ l = "left_child" /\ m = "fork2"
               /\ k = tree.left[NodeOf(p)]
         \/ pc[p] = "fork2" /\ l = "right_child" /\ m = "close"
               /\ k = tree.right[NodeOf(p)],
         Fork(p, Child(k), l, m)
  PROVE  Order'
<1> DEFINE n == NodeOf(p)
<1>1. /\ pc[p] \in PipePC /\ pc[p] \in MakerPC
      /\ {pc[p], l, m} \cap (RunPC \cup {"save", "none", "zombie"}) = {}
  BY DEF PipePC, MakerPC, RunPC, HeredocPC
<1>2. PICK c \in Proc : /\ c = Child(k) /\ c \in Children /\ c \in Interp /\ c # Shell
                       /\ c # p /\ c[2] = k
  BY <1>1, OperandChild, ProcTypes DEF Child, Children
<1>3. /\ p \in Proc /\ n \in Node /\ tree.kind[n] = "pipe"
      /\ fds[p]["pr"] = R(n) /\ fds[p]["pw"] = W(n)
  BY <1>1, Acting DEF LocalOf, ShapeOf, PipeOf
<1>4. /\ Others({p, c}) /\ pc'[p] = m /\ fds'[p] = fds[p]
      /\ pc'[c] = l /\ fds'[c] = fds[p]
  BY <1>2, <1>3 DEF Fork, Others, TypeOK
<1>5. Alive(p) /\ Alive(p)' /\ Alive(c)'
  BY <1>1, <1>4 DEF Alive, GonePC
<1>6. Keeps(p)
  BY <1>1, <1>4 DEF Keeps, OutSlot, InSlot
<1>7. ChainOf(p)' /\ ChainOf(c)'
  BY <1>1, <1>4 DEF ChainOf
<1>8. EndOf(c)'
  <2> SUFFICES ASSUME NEW j \in Node, tree.kind[j] = "pipe"
               PROVE  /\ k = tree.left[j] => fds'[c][OutSlot(l)] = W(j)
                      /\ k = tree.right[j] => fds'[c][InSlot(l)] = R(j)
    BY <1>2, <1>4 DEF EndOf, Others, OutSlot, InSlot
  <2>1. k \in {tree.left[j], tree.right[j]} =>
          /\ j = n /\ (k = tree.left[n] <=> k = tree.left[j])
          /\ tree.left[n] # tree.right[n]
    BY <1>3, OneParent
  <2>2. QED
    BY <1>3, <1>4, <2>1 DEF OutSlot, InSlot
<1>9. \A j \in PipeOperand : Below(k, j) => c = Child(j) \/ Below(n, j)
  <2> SUFFICES ASSUME NEW j \in PipeOperand, Below(k, j), j # k PROVE Below(n, j)
    BY <1>2
  <2>1. j \in Node /\ k \in {tree.left[n], tree.right[n]} /\ k # Nil
    BY NodeAssumption DEF PipeOperand, Nil
  <2>2. QED
    BY <1>3, <2>1, ParentBelow
<1>10. QED
  BY <1>2, <1>4, <1>5, <1>6, <1>7, <1>8, <1>9, OrderFork

\* The steps of execute_pipe_command keep Order.
LEMMA PipesOrder ==
  ASSUME TypeOK, Local, Order, Forest', NEW p \in Interp, Pipes(p)
  PROVE  Order'
<1> DEFINE n == NodeOf(p)
<1>1. /\ p \in Proc /\ pc \in [Proc -> PC] /\ fds \in [Proc -> [Slot -> Desc]]
      /\ fds[p] \in [Slot -> Desc] /\ LocalOf(p)
      /\ {"in", "out", "svin", "svout", "pr", "pw", "leak"} = Slot
  BY ProcTypes DEF TypeOK, Local, Slot
<1>2. pc[p] \in PipePC \cup SetupPC /\ Alive(p)
  BY DEF Pipes, MakePipe, ForkLeft, ForkRight, ReapLeft, ClosePipe, WaitLeft, WaitRight,
         LeftChild, RightChild, PipePC, SetupPC, Alive, GonePC
<1>3. CASE \E f, s : Return(p, pc, f, s)
  BY <1>2, <1>3, OrderReturn
<1>4. ASSUME NEW c \in Proc, c = p \/ (pc[c] = "zombie" /\ pc'[c] = "none"),
             Others({p, c}), pc[p] \in PipePC, pc'[p] \in PipePC,
             fds'[p]["in"] = fds[p]["in"], fds'[p]["out"] = fds[p]["out"]
      PROVE  Order'
  <2>1. {pc[p], pc'[p]} \cap (RunPC \cup SetupPC \cup {"save", "none"}) = {}
    BY <1>4 DEF PipePC, RunPC, SetupPC, HeredocPC
  <2>2. Keeps(p)
    BY <1>4, <2>1 DEF Keeps, OutSlot, InSlot, SetupPC
  <2>3. ChainOf(p)'
    BY <2>1 DEF ChainOf
  <2>4. QED
    BY <1>1, <1>2, <1>4, <2>1, <2>2, <2>3, OrderMove
<1>5. CASE MakePipe(p) /\ ~\E f, s : Return(p, pc, f, s)
  <2>1. /\ Others({p, p}) /\ pc[p] = "pipe" /\ pc'[p] = "fork1"
        /\ fds'[p] = [fds[p] EXCEPT !["pr"] = R(n), !["pw"] = W(n)]
    BY <1>1, <1>5 DEF MakePipe, Goto, Others
  <2>2. fds'[p]["in"] = fds[p]["in"] /\ fds'[p]["out"] = fds[p]["out"]
    BY <1>1, <2>1
  <2>3. QED
    BY <1>1, <1>4, <2>1, <2>2 DEF PipePC
<1>6. CASE ForkLeft(p) /\ ~\E f, s : Return(p, pc, f, s)
  <2>1. pc[p] = "fork1" /\ pc[p] \in PipePC /\ Fork(p, Child(tree.left[n]), "left_child", "fork2")
    BY <1>6 DEF ForkLeft, PipePC
  <2>2. QED
    BY <2>1, OperandChild, OperandFork
<1>7. CASE ForkRight(p)
  <2>1. pc[p] = "fork2" /\ pc[p] \in PipePC
    BY <1>7 DEF ForkRight, PipePC
  <2>2. CASE Fork(p, Child(tree.right[n]), "right_child", "close")
    BY <2>1, <2>2, OperandChild, OperandFork
  <2>3. CASE ~Fork(p, Child(tree.right[n]), "right_child", "close")
    <3>1. Others({p, p}) /\ pc'[p] = "reap1" /\ fds'[p] = Closed(fds[p])
      BY <1>1, <1>7, <2>3 DEF ForkRight, Goto, Others
    <3>2. fds'[p]["in"] = fds[p]["in"] /\ fds'[p]["out"] = fds[p]["out"]
      BY <1>1, <3>1 DEF Closed
    <3>3. QED
      BY <1>1, <1>4, <2>1, <3>1, <3>2 DEF PipePC
  <2>4. QED
    BY <2>2, <2>3
<1>8. CASE ClosePipe(p)
  <2>1. /\ Others({p, p}) /\ pc[p] = "close" /\ pc'[p] = "wait1" /\ fds'[p] = Closed(fds[p])
    BY <1>1, <1>8 DEF ClosePipe, Goto, Others
  <2>2. fds'[p]["in"] = fds[p]["in"] /\ fds'[p]["out"] = fds[p]["out"]
    BY <1>1, <2>1 DEF Closed
  <2>3. QED
    BY <1>1, <1>4, <2>1, <2>2 DEF PipePC
<1>9. CASE ReapLeft(p) \/ WaitLeft(p) \/ WaitRight(p)
  <2>1. pc[p] \in {"reap1", "wait1", "wait2"} /\ pc[p] \in PipePC
    BY <1>9 DEF ReapLeft, WaitLeft, WaitRight, PipePC
  <2>2. PICK c \in Proc :
          /\ c = Child(IF pc[p] = "wait2" THEN tree.right[n] ELSE tree.left[n])
          /\ c # p /\ c # Shell
    BY <2>1, OperandChild
  <2>3. CASE WaitLeft(p)
    <3>1. /\ Others({p, c}) /\ pc[c] = "zombie" /\ pc'[c] = "none" /\ pc'[p] = "wait2"
          /\ fds' = fds
      BY <1>1, <2>2, <2>3 DEF WaitLeft, Others
    <3>2. QED
      BY <1>4, <2>1, <3>1 DEF PipePC
  <2>4. CASE ReapLeft(p) \/ WaitRight(p)
    <3>1. /\ Others({p, c}) /\ pc[c] = "zombie" /\ pc'[c] = "none"
          /\ pc'[p] = IF p = Shell THEN "prompt" ELSE "zombie"
      BY <1>1, <2>2, <2>4 DEF ReapLeft, WaitRight, Return, Leave, Others, TypeOK
    <3>2. QED
      BY <1>1, <1>2, <3>1, OrderEnd
  <2>5. QED
    BY <1>9, <2>3, <2>4
<1>10. CASE LeftChild(p) \/ RightChild(p)
  <2>0. p # Shell
    BY <1>1, <1>10 DEF LocalOf, ShapeOf, Labels, InterpPC, ShellPC, LeftChild, RightChild
  <2>1. CASE \E w : Die(p, w) /\ UNCHANGED tree
    <3>1. Others({p, p}) /\ pc'[p] = "zombie"
      BY <1>1, <2>1 DEF Die, Others, TypeOK
    <3>2. QED
      BY <1>1, <1>2, <2>0, <3>1, OrderEnd
  <2>2. CASE ~\E w : Die(p, w) /\ UNCHANGED tree
    <3>1. /\ Others({p, p}) /\ pc'[p] = "dispatch"
          /\ \/ pc[p] = "left_child" /\ fds'[p] = Piped("out", "pw", fds[p])
             \/ pc[p] = "right_child" /\ fds'[p] = Piped("in", "pr", fds[p])
      BY <1>1, <1>10, <2>2 DEF LeftChild, RightChild, Goto, Others
    <3>2. /\ pc[p] = "left_child" => /\ fds'[p]["out"] = fds[p]["pw"]
                                     /\ fds'[p]["in"] = fds[p]["in"]
          /\ pc[p] = "right_child" => /\ fds'[p]["in"] = fds[p]["pr"]
                                      /\ fds'[p]["out"] = fds[p]["out"]
      BY <1>1, <3>1 DEF Piped, Closed
    <3>3. {pc[p], pc'[p]} \cap (RunPC \cup {"save"}) = {}
      BY <3>1 DEF RunPC, HeredocPC
    <3>4. Keeps(p)
      BY <3>1, <3>2, <3>3 DEF Keeps, OutSlot, InSlot
    <3>5. ChainOf(p)'
      BY <3>3 DEF ChainOf
    <3>6. pc'[p] # "none"
      BY <3>1
    <3>7. QED
      BY <1>1, <1>2, <3>1, <3>4, <3>5, <3>6, OrderMove
  <2>3. QED
    BY <2>1, <2>2
<1>11. QED
  BY <1>3, <1>5, <1>6, <1>7, <1>8, <1>9, <1>10 DEF Pipes

\* The shell between two lines, or about to execute one.
Idle == /\ tree \in Trees
        /\ pc[Shell] \in {"prompt", "dispatch", "exited"}
        /\ \A q \in Proc \ {Shell} : pc[q] = "none"

\* A shell without processes has nothing out of order.
LEMMA IdleOrder == Idle => Order
<1> SUFFICES ASSUME Idle PROVE Order
  OBVIOUS
<1>1. \A q \in Proc : pc[q] \notin RunPC \cup {"save"}
  BY DEF Idle, RunPC, HeredocPC
<1>2. Chains
  BY <1>1, ProcTypes DEF Chains, ChainOf
<1>3. \A q \in Proc \ {Shell} : ~Alive(q)
  BY DEF Idle, Alive, GonePC
<1>4. Ends
  BY <1>3, ProcTypes DEF Ends, EndOf, Children, Shell
<1>5. Operands
  <2> SUFFICES ASSUME NEW k \in PipeOperand, Below(tree.root, k) PROVE FALSE
    BY <1>3 DEF Operands, NodeOf
  <2>1. tree \in Tree /\ PreOrder(tree)
    BY TreesAssumption DEF Idle
  <2>2. PICK n \in Node : k \in {tree.left[n], tree.right[n]}
    BY DEF PipeOperand
  <2>3. n \in Nat /\ k \in Nat /\ k # Nil /\ tree.root \in Nat
    BY <2>1, NodeAssumption DEF Tree, PipeOperand, Nil
  <2>4. n < k /\ tree.root <= n
    BY <2>1, <2>2, <2>3 DEF PreOrder
  <2>5. QED
    BY <2>3, <2>4 DEF Below
<1>6. QED
  BY <1>2, <1>4, <1>5 DEF Order

\* The same of the next state.
LEMMA IdleNext == Idle' => Order'
  BY IdleOrder, PTL

\* The prompt's steps keep Order.
LEMMA PromptOrder ==
  ASSUME TypeOK, Local, Forest, TypeOK', Prompt
  PROVE  Order'
<1>1. pc[Shell] = "prompt" /\ pc \in [Proc -> PC] /\ Shell \in Proc
  BY ProcTypes DEF Prompt, ReadLine, RejectLine, EndOfInput, TypeOK
<1>2. /\ \A q \in Proc \ {Shell} : pc'[q] = pc[q]
      /\ pc'[Shell] \in {"prompt", "dispatch", "exited"}
  BY <1>1 DEF Prompt, ReadLine, RejectLine, EndOfInput, Goto
<1>3. \A q \in Proc \ {Shell} : pc[q] = "none"
  BY <1>1, PromptAlone
<1>4. Idle'
  BY <1>2, <1>3 DEF Idle, TypeOK
<1>5. QED
  BY <1>4, IdleNext

\* Every step keeps Order.
LEMMA OrderStep ==
  TypeOK /\ Local /\ Forest /\ Order /\ [Next]_vars /\ TypeOK' /\ Forest' => Order'
<1> SUFFICES ASSUME TypeOK, Local, Forest, Order, [Next]_vars, TypeOK', Forest'
             PROVE  Order'
  OBVIOUS
<1>1. CASE UNCHANGED vars \/ Terminated
  <2>1. /\ Others({}) /\ tree' = tree /\ pc' = pc
    BY <1>1 DEF Terminated, vars, Others
  <2>2. Ends' /\ Chains'
    BY <2>1, FrameEnds, FrameChains DEF Order
  <2>3. Operands'
    BY <2>1 DEF Order, Operands, PipeOperand, Below, Alive, NodeOf
  <2>4. QED
    BY <2>2, <2>3 DEF Order
<1>2. CASE Prompt
  BY <1>2, PromptOrder
<1>3. ASSUME NEW p \in Interp, Interpret(p) PROVE Order'
  BY <1>3, DispatchOrder, NotFoundOrder, PipesOrder, ChainOrder, HeredocOrder, RunOrder
  DEF Interpret
<1>4. ASSUME NEW e \in Exts, Program(e) \/ Typed(e) PROVE Order'
  BY <1>4, ProgramOrder
<1>5. QED
  BY <1>1, <1>2, <1>3, <1>4 DEF Next

(***************************************************************************)
(* The inductive invariant, and what follows from it.                      *)
(***************************************************************************)
THEOREM Inductive == Spec => []IInv
<1>1. Init => IInv
  <2>1. Init => Idle
    BY ProcTypes DEF Init, Idle
  <2>2. QED
    BY <2>1, ProcInit, IdleOrder DEF IInv, Order
<1>2. IInv /\ [Next]_vars => IInv'
  BY TypeStep, LocalStep, ForestStep, OrderStep DEF IInv, Order
<1>3. QED
  BY <1>1, <1>2, PTL DEF Spec

(***************************************************************************)
(* In a pipeline of any depth a reader sees the end of file only after the *)
(* last process of the left operand is gone.                               *)
(***************************************************************************)
THEOREM EofInOrder == Spec => []NoEarlyEof
<1>1. IInv => NoEarlyEof
  <2> SUFFICES ASSUME IInv, NEW q \in Proc, NEW n \in Node, tree.kind[n] = "pipe",
                      Alive(q), Below(NodeOf(q), tree.left[n])
               PROVE  Held(W(n))
    BY DEF NoEarlyEof
  <2> DEFINE k == tree.left[n]
             c == Child(k)
  <2>1. k \in PipeOperand /\ k \in Node
    BY TreeFacts DEF IInv, PipeOperand, Below
  <2>2. Alive(c) /\ c \in Children /\ c \in Proc /\ c[2] = k
    BY <2>1, ProcTypes DEF IInv, Operands, Child, Children
  <2>3. fds[c][OutSlot(pc[c])] = W(n)
    BY <2>2 DEF IInv, Ends, EndOf
  <2>4. OutSlot(pc[c]) \in Slot
    BY DEF OutSlot, Slot
  <2>5. QED
    BY <2>2, <2>3, <2>4 DEF Held
<1>2. QED
  BY <1>1, Inductive, PTL

(***************************************************************************)
(* And a writer is only killed by SIGPIPE after the last process of the    *)
(* right operand is gone.                                                  *)
(***************************************************************************)
THEOREM SigpipeInOrder == Spec => []NoEarlyBrokenPipe
<1>1. IInv => NoEarlyBrokenPipe
  <2> SUFFICES ASSUME IInv, NEW q \in Proc, NEW n \in Node, tree.kind[n] = "pipe",
                      Alive(q), Below(NodeOf(q), tree.right[n])
               PROVE  Held(R(n))
    BY DEF NoEarlyBrokenPipe
  <2> DEFINE k == tree.right[n]
             c == Child(k)
  <2>1. k \in PipeOperand /\ k \in Node
    BY TreeFacts DEF IInv, PipeOperand, Below
  <2>2. Alive(c) /\ c \in Children /\ c \in Proc /\ c[2] = k
    BY <2>1, ProcTypes DEF IInv, Operands, Child, Children
  <2>3. fds[c][InSlot(pc[c])] = R(n)
    BY <2>2 DEF IInv, Ends, EndOf
  <2>4. InSlot(pc[c]) \in Slot
    BY DEF InSlot, Slot
  <2>5. QED
    BY <2>2, <2>3, <2>4 DEF Held
<1>2. QED
  BY <1>1, Inductive, PTL

(***************************************************************************)
(* The status of the last command.  First the nodes whose subtree ends     *)
(* with the last one of the line.                                          *)
(***************************************************************************)
LEMMA LastFacts ==
  ASSUME TypeOK
  PROVE  /\ LastNode \in Node /\ LastExt \in Exts /\ LastExt \in Proc
         /\ LastExt \notin Interp /\ LastExt # Shell /\ OnLast(Shell)
<1>1. tree \in Tree /\ tree.root \in Node /\ tree.root <= tree.last[tree.root]
  BY TreeFacts
<1>2. LastNode \in Node
  BY <1>1 DEF LastNode, Tree
<1>3. LastExt \in Exts
  BY <1>2, ProcTypes DEF LastExt
<1>4. OnLast(Shell)
  BY <1>1, <1>2, NodeAssumption DEF OnLast, NodeOf, Below, LastNode, Nil
<1>5. QED
  BY <1>2, <1>3, <1>4, ProcTypes

\* It ends with the last node if the subtree of its right operand does.
LEMMA RightOnLast ==
  ASSUME TypeOK, NEW n \in Node, tree.left[n] # Nil, tree.right[n] # Nil,
         Below(LastNode, n)
  PROVE  Below(LastNode, tree.right[n]) /\ ~Below(LastNode, tree.left[n])
<1> DEFINE a == tree.left[n]
           b == tree.right[n]
<1>1. /\ a \in Node /\ b \in Node /\ tree.root \in Node /\ LastNode \in Node
      /\ PreOrder(tree) /\ tree \in Tree
  BY TreeFacts, LastFacts DEF Tree
<1>2. /\ n \in Nat /\ a \in Nat /\ b \in Nat /\ LastNode \in Nat /\ tree.root \in Nat
      /\ tree.last[n] \in Nat /\ tree.last[a] \in Nat /\ tree.last[b] \in Nat
  BY <1>1, TreeFacts
<1>3. /\ n < b /\ b <= tree.last[b] /\ tree.last[b] <= tree.last[n]
      /\ tree.last[a] < b
  BY <1>1 DEF PreOrder
<1>4. tree.last[n] <= LastNode
  BY <1>1 DEF PreOrder, LastNode
<1>5. n < LastNode /\ LastNode <= tree.last[n] /\ tree.last[a] < LastNode
  BY <1>2, <1>3, <1>4 DEF Below
<1>6. \/ a <= LastNode /\ LastNode <= tree.last[a]
      \/ b <= LastNode /\ LastNode <= tree.last[b]
  BY <1>1, <1>5 DEF PreOrder
<1>7. QED
  BY <1>2, <1>5, <1>6 DEF Below

\* OnLast under an unchanged tree.
LEMMA LastKeep ==
  ASSUME tree' = tree
  PROVE  /\ LastNode' = LastNode /\ LastExt' = LastExt
         /\ \A q \in Proc : NodeOf(q)' = NodeOf(q) /\ (OnLast(q)' <=> OnLast(q))
         /\ \A a, b : Below(a, b)' <=> Below(a, b)
BY DEF LastNode, LastExt, NodeOf, OnLast, Below

\* The root is nobody's operand.
LEMMA OperandNotRoot ==
  ASSUME TypeOK, NEW n \in Node, NEW k \in Node, k \in {tree.left[n], tree.right[n]}
  PROVE  k # tree.root
<1>1. PreOrder(tree) /\ tree.root \in Nat /\ n \in Nat /\ k \in Nat /\ n < k /\ k # Nil
  BY TreeFacts, NodeAssumption DEF Nil
<1>2. tree.root <= n
  BY <1>1 DEF PreOrder
<1>3. QED
  BY <1>1, <1>2

\* Two interpreters of one node would be the shell and a child for the root.
LEMMA SameNode ==
  ASSUME TypeOK, Spine, NEW p \in Interp, NEW q \in Interp, p # q,
         pc[p] # "none", pc[q] # "none"
  PROVE  NodeOf(p) # NodeOf(q)
BY ProcTypes DEF Spine, NodeOf, Interp

\* A subtree of n that ends with the last node is n's or its right operand's.
LEMMA RightBelow ==
  ASSUME TypeOK, NEW n \in Node, tree.left[n] # Nil, tree.right[n] # Nil,
         NEW m \in Node, m # n, Below(m, n), Below(LastNode, m), Below(LastNode, n)
  PROVE  Below(m, tree.right[n])
<1>1. /\ tree.left[n] \in Node /\ LastNode \in Node /\ PreOrder(tree)
      /\ ~Below(LastNode, tree.left[n])
  BY TreeFacts, LastFacts, RightOnLast
<1>2. ~Below(m, tree.left[n])
  BY <1>1, BelowNode
<1>3. n < m /\ m <= tree.last[n]
  BY NodeAssumption DEF Below
<1>4. Below(m, tree.left[n]) \/ Below(m, tree.right[n])
  BY <1>1, <1>3 DEF PreOrder, Below
<1>5. QED
  BY <1>2, <1>4

\* What a step that changes only the interpreter p, and may reap c, does.
Alone(p, c) ==
  /\ Others({p, c}) /\ pc[p] # "none"
  /\ c = p \/ (c \in Interp /\ pc'[c] = "none")
  /\ \A q \in Proc \ {p} : rc'[q] = rc[q]

\* No step of another process makes a child for the root.
LEMMA RootNever ==
  ASSUME TypeOK, Spine, NEW p \in Proc, NEW c, Others({p, c}), pc[p] # "none",
         c = p \/ c # Child(tree.root) \/ pc'[c] = "none"
  PROVE  pc'[Child(tree.root)] = "none" /\ tree'.root = tree.root
BY TreeFacts, ProcTypes DEF Spine, Others

\* A process that does not wait has nothing to wait for.
LEMMA UnstartedKeep ==
  ASSUME TypeOK, Carried, NEW p \in Interp, NEW c, Alone(p, c),
         pc[p] \notin WaitPC \cup ShellPC \cup {"waitx", "zombie"}
  PROVE  Carried'
<1>1. /\ tree' = tree /\ p \in Proc /\ Interp \subseteq Proc
      /\ \A q \in Interp : q \notin {p, c} => pc'[q] = pc[q] /\ cur'[q] = cur[q]
      /\ \A q \in Interp : pc'[q] # "none" => pc[q] # "none"
      /\ pc'[LastExt] = pc[LastExt] /\ rc'[LastExt] = rc[LastExt]
  BY LastFacts, ProcTypes DEF Alone, Others
<1>2. /\ LastNode' = LastNode /\ LastExt' = LastExt
      /\ \A q \in Interp : NodeOf(q)' = NodeOf(q) /\ (OnLast(q)' <=> OnLast(q))
      /\ \A a, b : Below(a, b)' <=> Below(a, b)
  BY <1>1, LastKeep
<1>3. OnLast(p) => Unstarted
  BY DEF Carried, Settled, Alone
<1>4. Unstarted => Unstarted'
  BY <1>1, <1>2 DEF Unstarted
<1>5. ASSUME NEW q \in Interp, OnLast(q)' PROVE Settled(q)'
  <2>1. CASE Unstarted
    BY <1>4, <2>1 DEF Settled
  <2>2. CASE ~Unstarted
    <3>1. q # p /\ Settled(q)
      BY <1>2, <1>3, <1>5, <2>2 DEF Carried
    <3>2. q = c => pc'[q] = "none"
      BY <3>1 DEF Alone
    <3>3. pc'[q] = "none" \/ (pc'[q] = pc[q] /\ cur'[q] = cur[q] /\ rc'[q] = rc[q])
      BY <1>1, <3>1, <3>2 DEF Alone
    <3>4. QED
      BY <1>1, <1>2, <2>2, <3>1, <3>3 DEF Settled
  <2>3. QED
    BY <2>1, <2>2
<1>6. ASSUME NEW r \in Interp, NEW q \in Interp, r # q, OnLast(r)', OnLast(q)',
             Below(NodeOf(q), NodeOf(r))', pc'[r] # "none", pc'[q] # "none"
      PROVE  pc'[r] \in WaitPC
  <2>1. pc[r] \in WaitPC
    BY <1>1, <1>2, <1>6 DEF Carried, Spine
  <2>2. r # p /\ r # c
    BY <1>6, <2>1 DEF Alone
  <2>3. QED
    BY <1>1, <2>1, <2>2
<1>7. Spine'
  <2>1. pc'[Child(tree.root)] = "none" /\ tree'.root = tree.root
    BY <1>1, RootNever DEF Carried, Alone
  <2>2. QED
    BY <1>6, <2>1 DEF Spine, WaitPC
<1>8. QED
  BY <1>5, <1>7 DEF Carried

\* A process that goes on waiting.
LEMMA WaitKeep ==
  ASSUME TypeOK, Carried, NEW p \in Interp, NEW c, Alone(p, c),
         pc[p] \in WaitPC, pc'[p] \in WaitPC
  PROVE  Carried'
<1>1. /\ tree' = tree /\ p \in Proc /\ Interp \subseteq Proc
      /\ \A q \in Interp : q \notin {p, c} => pc'[q] = pc[q] /\ cur'[q] = cur[q]
      /\ \A q \in Interp : pc'[q] # "none" => pc[q] # "none"
      /\ pc'[LastExt] = pc[LastExt] /\ rc'[LastExt] = rc[LastExt]
  BY LastFacts, ProcTypes DEF Alone, Others
<1>2. /\ LastNode' = LastNode /\ LastExt' = LastExt
      /\ \A q \in Interp : NodeOf(q)' = NodeOf(q) /\ (OnLast(q)' <=> OnLast(q))
      /\ \A a, b : Below(a, b)' <=> Below(a, b)
  BY <1>1, LastKeep
<1>3. ASSUME NEW q \in Interp, OnLast(q)' PROVE Settled(q)'
  <2>1. CASE q = p \/ q = c
    BY <2>1 DEF Settled, Alone, WaitPC
  <2>2. CASE q # p /\ q # c
    <3>1. Settled(q) /\ pc'[q] = pc[q] /\ cur'[q] = cur[q] /\ rc'[q] = rc[q]
      BY <1>1, <1>2, <1>3, <2>2 DEF Carried, Alone
    <3>2. QED
      BY <1>1, <1>2, <3>1 DEF Settled, Unstarted, WaitPC
  <2>3. QED
    BY <2>1, <2>2
<1>4. ASSUME NEW r \in Interp, NEW q \in Interp, r # q, OnLast(r)', OnLast(q)',
             Below(NodeOf(q), NodeOf(r))', pc'[r] # "none", pc'[q] # "none"
      PROVE  pc'[r] \in WaitPC
  <2>1. pc[r] \in WaitPC
    BY <1>1, <1>2, <1>4 DEF Carried, Spine
  <2>2. r = c => r = p
    BY <1>4 DEF Alone
  <2>3. QED
    BY <1>1, <2>1, <2>2
<1>5. Spine'
  <2>1. pc'[Child(tree.root)] = "none" /\ tree'.root = tree.root
    BY <1>1, RootNever DEF Carried, Alone
  <2>2. QED
    BY <1>4, <2>1 DEF Spine, WaitPC
<1>6. QED
  BY <1>3, <1>5 DEF Carried

\* What a step does in which p reaps c, an interpreter or a program, and
\* returns with its status.
Passes(p, c) ==
  /\ Others({p, c}) /\ pc[c] = "zombie" /\ pc'[c] = "none"
  /\ pc'[p] = IF p = Shell THEN "prompt" ELSE "zombie"
  /\ p # Shell => Decode(rc'[p]) = Decode(rc[c])
  /\ \A q \in Proc \ {p} : rc'[q] = rc[q]

LEMMA ReturnPasses ==
  ASSUME TypeOK, NEW p \in Interp, NEW c \in Proc, c # p, pc[c] = "zombie", NEW f,
         Return(p, [pc EXCEPT ![c] = "none"], f, Decode(rc[c]))
  PROVE  Passes(p, c)
<1>1. p \in Proc /\ pc \in [Proc -> PC] /\ rc \in [Proc -> WaitStatus]
  BY ProcTypes DEF TypeOK
<1>2. Others({p, c})
  BY <1>1 DEF Return, Leave, Others, TypeOK
<1>3. /\ pc'[p] = IF p = Shell THEN "prompt" ELSE "zombie"
      /\ pc'[c] = "none"
      /\ \A q \in Proc \ {p} : rc'[q] = rc[q]
      /\ p # Shell => rc'[p] = <<"exit", Decode(rc[c]) % 256>>
  BY <1>1 DEF Return, Leave
<1>4. Decode(rc[c]) \in 0..255
  BY <1>1, DecodeType
<1>5. Decode(rc[c]) % 256 = Decode(rc[c])
  <2> HIDE DEF Decode
  <2>1. \A k \in 0..255 : k % 256 = k
    OBVIOUS
  <2>2. QED
    BY <1>4, <2>1
<1>6. Decode(<<"exit", Decode(rc[c]) % 256>>) = Decode(rc[c]) % 256
  BY DEF Decode
<1>7. p # Shell => Decode(rc'[p]) = Decode(rc[c])
  BY <1>3, <1>5, <1>6
<1>8. QED
  BY <1>2, <1>3, <1>7 DEF Passes

\* The right operand of a pipe has ended, and its status is passed on.
LEMMA RightPasses ==
  ASSUME TypeOK, Local, Carried, NEW p \in Interp, pc[p] = "wait2",
         NEW c \in Interp, c = Child(tree.right[NodeOf(p)]), c # p, Passes(p, c)
  PROVE  Carried'
<1> DEFINE n == NodeOf(p)
<1>1. /\ tree' = tree /\ p \in Proc /\ Interp \subseteq Proc /\ n \in Node
      /\ \A q \in Interp : q \notin {p, c} => pc'[q] = pc[q] /\ cur'[q] = cur[q]
      /\ pc'[LastExt] = pc[LastExt] /\ rc'[LastExt] = rc[LastExt]
  BY LastFacts, ProcTypes, NodeOfType DEF Passes, Others
<1>2. /\ LastNode' = LastNode /\ LastExt' = LastExt /\ LastNode \in Node
      /\ \A q \in Interp : NodeOf(q)' = NodeOf(q) /\ (OnLast(q)' <=> OnLast(q))
      /\ \A a, b : Below(a, b)' <=> Below(a, b)
  BY <1>1, LastKeep, LastFacts
<1>3. /\ tree.left[n] # Nil /\ tree.right[n] # Nil /\ NodeOf(c) = tree.right[n]
      /\ tree.right[n] \in Node
  <2>1. LocalOf(p) /\ pc[p] \in PipePC
    BY Acting DEF PipePC
  <2>2. tree.left[n] # Nil /\ tree.right[n] # Nil
    BY <2>1 DEF LocalOf, ShapeOf
  <2>3. QED
    BY <1>1, <2>2, TreeFacts, ProcTypes DEF NodeOf, Child
<1>4. OnLast(p) => OnLast(c)
  BY <1>1, <1>3, RightOnLast DEF OnLast
<1>5. \A q \in Interp : pc'[q] # "none" => pc[q] # "none"
  BY <1>1 DEF Passes
<1>6. ASSUME NEW q \in Interp, OnLast(q)' PROVE Settled(q)'
  <2>1. CASE q = p
    <3>1. Settled(c)
      BY <1>2, <1>4, <1>6, <2>1 DEF Carried
    <3>2. \/ Unstarted
          \/ pc[LastExt] = "none" /\ Decode(rc[c]) = Decode(rc[LastExt])
      BY <3>1 DEF Settled, Passes, WaitPC, ShellPC
    <3>3. QED
      BY <1>1, <1>2, <2>1, <3>2 DEF Settled, Unstarted, Passes, ShellPC
  <2>2. CASE q = c
    BY <2>2 DEF Settled, Passes, WaitPC, ShellPC
  <2>3. CASE q # p /\ q # c
    <3>1. Settled(q) /\ pc'[q] = pc[q] /\ cur'[q] = cur[q] /\ rc'[q] = rc[q]
      BY <1>1, <1>2, <1>6, <2>3 DEF Carried, Passes
    <3>2. QED
      BY <1>1, <1>2, <3>1 DEF Settled, Unstarted, WaitPC
  <2>4. QED
    BY <2>1, <2>2, <2>3
<1>7. ASSUME NEW r \in Interp, NEW q \in Interp, r # q, OnLast(r)', OnLast(q)',
             Below(NodeOf(q), NodeOf(r))', pc'[r] # "none", pc'[q] # "none"
      PROVE  pc'[r] \in WaitPC
  <2>1. pc[r] \in WaitPC /\ r # c /\ q # c
    BY <1>1, <1>2, <1>5, <1>7 DEF Carried, Spine, Passes
  <2>2. CASE r # p
    BY <1>1, <2>1, <2>2
  <2>3. CASE r = p
    <3>1. /\ OnLast(p) /\ OnLast(q) /\ OnLast(c) /\ Below(NodeOf(q), n) /\ q # p
      BY <1>2, <1>4, <1>7, <2>3
    <3>2. Below(NodeOf(q), NodeOf(c))
      <4>1. Below(LastNode, NodeOf(q)) /\ Below(LastNode, n) /\ NodeOf(q) \in Node
        BY <3>1, NodeOfType DEF OnLast
      <4>2. NodeOf(q) # n
        BY <1>5, <1>7, <2>3, SameNode DEF Carried
      <4>3. QED
        BY <1>1, <1>3, <3>1, <4>1, <4>2, RightBelow
    <3>3. pc[c] \in WaitPC
      BY <1>5, <1>7, <2>1, <3>1, <3>2 DEF Carried, Spine, Passes
    <3>4. QED
      BY <3>3 DEF Passes, WaitPC
  <2>4. QED
    BY <2>2, <2>3
<1>8. Spine'
  <2>1. pc'[Child(tree.root)] = "none" /\ tree'.root = tree.root
    BY <1>1, RootNever DEF Carried, Passes
  <2>2. QED
    BY <1>7, <2>1 DEF Spine, WaitPC
<1>9. QED
  BY <1>6, <1>8 DEF Carried

\* The interpreters OnLast besides one that does not wait are above it, and
\* wait.
LEMMA OthersWait ==
  ASSUME TypeOK, Spine, NEW p \in Interp, NEW r \in Interp, r # p,
         OnLast(p), OnLast(r), pc[p] \notin WaitPC \cup {"none"}, pc[r] # "none"
  PROVE  pc[r] \in WaitPC
<1>1. NodeOf(p) \in Node /\ NodeOf(r) \in Node /\ LastNode \in Node
  BY NodeOfType, LastFacts
<1>2. Below(NodeOf(p), NodeOf(r)) \/ Below(NodeOf(r), NodeOf(p))
  BY <1>1, Laminar DEF OnLast
<1>3. QED
  BY <1>2 DEF Spine

\* A child is forked for an operand.
LEMMA ChildStarts ==
  ASSUME TypeOK, Carried, NEW p \in Interp, pc[p] \in {"fork1", "fork2"},
         NEW k \in Node, Below(k, NodeOf(p)), k # NodeOf(p), k # tree.root,
         NEW c \in Children, c = Child(k), c # p, Others({p, c}),
         OnLast(c) => pc'[p] \in WaitPC, \A q \in Proc \ {c} : rc'[q] = rc[q]
  PROVE  Carried'
<1> DEFINE n == NodeOf(p)
<1>1. /\ tree' = tree /\ p \in Proc /\ c \in Interp /\ Interp \subseteq Proc /\ n \in Node
      /\ \A q \in Interp : q \notin {p, c} => pc'[q] = pc[q] /\ cur'[q] = cur[q]
      /\ pc'[LastExt] = pc[LastExt] /\ rc'[LastExt] = rc[LastExt]
      /\ NodeOf(c) = k /\ LastNode \in Node
  BY LastFacts, ProcTypes, NodeOfType DEF Others, Child, NodeOf
<1>2. /\ LastNode' = LastNode /\ LastExt' = LastExt
      /\ \A q \in Interp : NodeOf(q)' = NodeOf(q) /\ (OnLast(q)' <=> OnLast(q))
      /\ \A a, b : Below(a, b)' <=> Below(a, b)
  BY <1>1, LastKeep
<1>3. OnLast(p) => Unstarted
  BY DEF Carried, Settled, WaitPC, ShellPC
<1>4. OnLast(c) => OnLast(p)
  BY <1>1, BelowNode DEF OnLast
<1>5. ASSUME NEW q \in Interp, OnLast(q)' PROVE Settled(q)'
  <2>1. CASE Unstarted
    BY <1>1, <1>2, <2>1 DEF Settled, Unstarted
  <2>2. CASE ~Unstarted
    <3>1. q # p /\ q # c /\ Settled(q)
      BY <1>2, <1>3, <1>4, <1>5, <2>2 DEF Carried
    <3>2. pc'[q] = pc[q] /\ cur'[q] = cur[q] /\ rc'[q] = rc[q]
      BY <1>1, <3>1
    <3>3. QED
      BY <1>1, <1>2, <2>2, <3>1, <3>2 DEF Settled
  <2>3. QED
    BY <2>1, <2>2
<1>6. ASSUME NEW r \in Interp, NEW q \in Interp, r # q, OnLast(r)', OnLast(q)',
             Below(NodeOf(q), NodeOf(r))', pc'[r] # "none", pc'[q] # "none"
      PROVE  pc'[r] \in WaitPC
  <2>1. /\ OnLast(r) /\ OnLast(q) /\ Below(NodeOf(q), NodeOf(r))
        /\ r \notin {p, c} => pc'[r] = pc[r] /\ pc[r] # "none"
        /\ q \notin {p, c} => pc[q] # "none"
        /\ NodeOf(q) \in Node
    BY <1>1, <1>2, <1>6, NodeOfType
  <2>2. pc[p] \notin WaitPC \cup {"none"}
    BY DEF WaitPC
  <2>3. CASE r \notin {p, c}
    BY <1>4, <2>1, <2>2, <2>3, OthersWait, <1>6 DEF Carried, Spine
  <2>4. CASE r = p
    <3>1. CASE q = c
      BY <2>1, <2>4, <3>1
    <3>2. CASE q # c
      BY <1>6, <2>1, <2>2, <2>4, <3>2 DEF Carried, Spine
    <3>3. QED
      BY <3>1, <3>2
  <2>5. CASE r = c
    <3>1. q # p
      BY <1>1, <2>1, <2>5, NodeAssumption DEF Below
    <3>2. Below(NodeOf(q), n) /\ OnLast(p)
      BY <1>1, <1>4, <2>1, <2>5, BelowNode
    <3>3. QED
      BY <1>6, <2>1, <2>2, <2>5, <3>1, <3>2 DEF Carried, Spine
  <2>6. QED
    BY <2>3, <2>4, <2>5
<1>7. Spine'
  <2>1. pc'[Child(tree.root)] = "none" /\ tree'.root = tree.root
    <3>1. c # Child(tree.root)
      BY DEF Child
    <3>2. QED
      BY <1>1, <3>1, RootNever DEF Carried
  <2>2. QED
    BY <1>6, <2>1 DEF Spine, WaitPC
<1>8. QED
  BY <1>5, <1>7 DEF Carried

\* The command's own program is forked, or another one.
LEMMA ProgramStarts ==
  ASSUME TypeOK, Carried, NEW p \in Interp, pc[p] = "run",
         NEW m \in Node, m = cur[p], Below(m, NodeOf(p)),
         NEW c \in Exts, c = Ext(m), Others({p, c}),
         pc'[p] = "waitx", cur'[p] = cur[p], \A q \in Proc \ {c} : rc'[q] = rc[q]
  PROVE  Carried'
<1>1. /\ tree' = tree /\ p \in Proc /\ c \notin Interp /\ Interp \subseteq Proc
      /\ \A q \in Interp : q # p => pc'[q] = pc[q] /\ cur'[q] = cur[q]
      /\ \A q \in Interp : rc'[q] = rc[q]
      /\ c # LastExt => pc'[LastExt] = pc[LastExt] /\ rc'[LastExt] = rc[LastExt]
  BY LastFacts, ProcTypes DEF Others
<1>2. /\ LastNode' = LastNode /\ LastExt' = LastExt
      /\ \A q \in Interp : NodeOf(q)' = NodeOf(q) /\ (OnLast(q)' <=> OnLast(q))
      /\ \A a, b : Below(a, b)' <=> Below(a, b)
  BY <1>1, LastKeep
<1>3. OnLast(p) => Unstarted
  BY DEF Carried, Settled, WaitPC, ShellPC
<1>4. m = LastNode => OnLast(p)
  BY DEF OnLast
<1>5. (c = LastExt) <=> (m = LastNode)
  BY DEF LastExt, Ext
<1>6. ASSUME NEW q \in Interp, OnLast(q)' PROVE Settled(q)'
  <2>1. CASE q = p /\ m = LastNode
    BY <1>2, <2>1 DEF Settled
  <2>2. CASE q # p /\ m = LastNode
    <3>1. pc[q] \in WaitPC \cup {"none"}
      BY <1>2, <1>4, <1>6, <2>2, OthersWait DEF Carried, WaitPC
    <3>2. QED
      BY <1>1, <2>2, <3>1 DEF Settled, WaitPC
  <2>3. CASE m # LastNode /\ Unstarted
    BY <1>1, <1>2, <1>5, <2>3 DEF Settled, Unstarted
  <2>4. CASE m # LastNode /\ ~Unstarted
    <3>1. q # p /\ Settled(q)
      BY <1>2, <1>3, <1>6, <2>4 DEF Carried
    <3>2. QED
      BY <1>1, <1>2, <1>5, <2>4, <3>1 DEF Settled, Unstarted
  <2>5. QED
    BY <2>1, <2>2, <2>3, <2>4
<1>7. ASSUME NEW r \in Interp, NEW q \in Interp, r # q, OnLast(r)', OnLast(q)',
             Below(NodeOf(q), NodeOf(r))', pc'[r] # "none", pc'[q] # "none"
      PROVE  pc'[r] \in WaitPC
  BY <1>1, <1>2, <1>7 DEF Carried, Spine, WaitPC
<1>8. Spine'
  <2>1. pc'[Child(tree.root)] = "none" /\ tree'.root = tree.root
    BY <1>1, RootNever, ProcTypes DEF Carried, Child, Ext
  <2>2. QED
    BY <1>7, <2>1 DEF Spine, WaitPC
<1>9. QED
  BY <1>6, <1>8 DEF Carried

\* A program has ended, and its status is passed on.
LEMMA ProgramPasses ==
  ASSUME TypeOK, Carried, NEW p \in Interp, pc[p] = "waitx",
         NEW m \in Node, m = cur[p], Below(m, NodeOf(p)),
         NEW c \in Exts, c = Ext(m), Passes(p, c)
  PROVE  Carried'
<1>1. /\ tree' = tree /\ p \in Proc /\ c \notin Interp /\ Interp \subseteq Proc
      /\ \A q \in Interp : q # p => /\ pc'[q] = pc[q] /\ cur'[q] = cur[q]
                                    /\ rc'[q] = rc[q]
      /\ rc'[LastExt] = rc[LastExt]
      /\ c # LastExt => pc'[LastExt] = pc[LastExt]
  BY LastFacts, ProcTypes DEF Passes, Others
<1>2. /\ LastNode' = LastNode /\ LastExt' = LastExt
      /\ \A q \in Interp : NodeOf(q)' = NodeOf(q) /\ (OnLast(q)' <=> OnLast(q))
      /\ \A a, b : Below(a, b)' <=> Below(a, b)
  BY <1>1, LastKeep
<1>3. OnLast(p) /\ m # LastNode => Unstarted
  BY DEF Carried, Settled, WaitPC, ShellPC
<1>4. (c = LastExt) <=> (m = LastNode)
  BY DEF LastExt, Ext
<1>5. ASSUME NEW q \in Interp, OnLast(q)' PROVE Settled(q)'
  <2>1. CASE q = p /\ m = LastNode
    BY <1>1, <1>2, <1>4, <2>1 DEF Settled, Passes, ShellPC
  <2>2. CASE q # p /\ m = LastNode
    <3>1. Settled(q) /\ pc[LastExt] = "zombie"
      BY <1>2, <1>4, <1>5, <2>2 DEF Carried, Passes
    <3>2. QED
      BY <1>1, <1>2, <2>2, <3>1 DEF Settled, Unstarted
  <2>3. CASE m # LastNode /\ Unstarted
    BY <1>1, <1>2, <1>4, <2>3 DEF Settled, Unstarted
  <2>4. CASE m # LastNode /\ ~Unstarted
    <3>1. q # p /\ Settled(q)
      BY <1>2, <1>3, <1>5, <2>4 DEF Carried
    <3>2. QED
      BY <1>1, <1>2, <1>4, <2>4, <3>1 DEF Settled, Unstarted
  <2>5. QED
    BY <2>1, <2>2, <2>3, <2>4
<1>6. ASSUME NEW r \in Interp, NEW q \in Interp, r # q, OnLast(r)', OnLast(q)',
             Below(NodeOf(q), NodeOf(r))', pc'[r] # "none", pc'[q] # "none"
      PROVE  pc'[r] \in WaitPC
  BY <1>1, <1>2, <1>6 DEF Carried, Spine, WaitPC
<1>7. Spine'
  <2>1. pc'[Child(tree.root)] = "none" /\ tree'.root = tree.root
    BY <1>1, RootNever, ProcTypes DEF Carried, Child, Ext, Passes
  <2>2. QED
    BY <1>6, <2>1 DEF Spine, WaitPC
<1>8. QED
  BY <1>5, <1>7 DEF Carried

\* dispatch_ast_node keeps Carried.
LEMMA DispatchCarried ==
  ASSUME TypeOK, Carried, NEW p \in Interp, Dispatch(p)
  PROVE  Carried'
<1>1. p \in Proc /\ pc \in [Proc -> PC] /\ rc \in [Proc -> WaitStatus]
  BY ProcTypes DEF TypeOK
<1>2. pc[p] = "dispatch"
  BY DEF Dispatch
<1>3. Alone(p, p)
  <2>1. CASE \E s : Return(p, pc, fds[p], s)
    BY <1>1, <1>2, <2>1 DEF Return, Leave, Others, TypeOK, Alone
  <2>2. CASE ~\E s : Return(p, pc, fds[p], s)
    BY <1>1, <1>2, <2>2 DEF Dispatch, Goto, Others, TypeOK, Alone
  <2>3. QED
    BY <2>1, <2>2
<1>4. QED
  BY <1>2, <1>3, UnstartedKeep DEF WaitPC, ShellPC

\* A message that ends the process keeps Carried.
LEMMA SayCarried ==
  ASSUME TypeOK, Local, Carried, NEW p \in Interp, NEW f, NEW s, Say(p, f, s),
         pc[p] \in {"dispatch", "run"}
  PROVE  Carried'
<1>1. Others({p})
  BY SayEffect
<1>2. \A q \in Proc \ {p} : rc'[q] = rc[q]
  BY DEF Say, Leave, Killed, Die, TypeOK
<1>3. Alone(p, p)
  BY <1>1, <1>2 DEF Alone
<1>4. QED
  BY <1>3, UnstartedKeep DEF WaitPC, ShellPC

\* The steps of a redirection chain keep Carried.
LEMMA ChainCarried ==
  ASSUME TypeOK, Carried, NEW p \in Interp, Chain(p)
  PROVE  Carried'
<1>1. p \in Proc /\ pc \in [Proc -> PC] /\ rc \in [Proc -> WaitStatus]
  BY ProcTypes DEF TypeOK
<1>2. pc[p] \in {"save", "collect", "apply"}
  BY DEF Chain, SaveFds, Collect, Apply, AllApplied
<1>3. Alone(p, p)
  <2>1. CASE \E f, s : Return(p, pc, f, s)
    BY <1>1, <1>2, <2>1 DEF Return, Leave, Others, TypeOK, Alone
  <2>2. CASE ~\E f, s : Return(p, pc, f, s)
    <3>1. Others({p}) /\ rc' = rc
      <4>1. CASE SaveFds(p)
        BY <1>1, <2>2, <4>1 DEF SaveFds, Goto, Others, TypeOK
      <4>2. CASE Collect(p)
        BY <1>1, <2>2, <4>2 DEF Collect, Finish, Goto, Others, TypeOK
      <4>3. CASE Apply(p)
        BY <1>1, <2>2, <4>3
        DEF Apply, Finish, OpenFile, OpenHeredoc, Popped, Goto, Others, TypeOK
      <4>4. CASE AllApplied(p)
        BY <1>1, <4>4 DEF AllApplied, Goto, Others, TypeOK
      <4>5. QED
        BY <4>1, <4>2, <4>3, <4>4 DEF Chain
    <3>2. QED
      BY <1>2, <3>1 DEF Alone
  <2>3. QED
    BY <2>1, <2>2
<1>4. QED
  BY <1>2, <1>3, UnstartedKeep DEF WaitPC, ShellPC

\* The steps of a here-document keep Carried.
LEMMA HeredocCarried ==
  ASSUME TypeOK, Carried, NEW p \in Interp, Heredoc(p)
  PROVE  Carried'
<1>1. /\ p \in Proc /\ pc \in [Proc -> PC] /\ rc \in [Proc -> WaitStatus]
      /\ fds \in [Proc -> [Slot -> Desc]]
  BY ProcTypes DEF TypeOK
<1>2. pc[p] \in HeredocPC
  BY DEF Heredoc, HeredocPrompt, HeredocLine, HeredocEnd, HeredocStore, HeredocPC
<1>3. Others({p}) /\ \A q \in Proc \ {p} : rc'[q] = rc[q]
  <2>1. CASE HeredocPrompt(p)
    BY <1>1, <2>1 DEF HeredocPrompt, Killed, Die, Goto, Others, TypeOK
  <2>2. CASE HeredocLine(p)
    BY <1>1, <2>2 DEF HeredocLine, ReadUnit, Goto, Others, TypeOK
  <2>3. CASE HeredocEnd(p)
    <3>1. CASE \E f : Leave(p, pc, f, -1)
      BY <1>1, <3>1 DEF Leave, Others, TypeOK
    <3>2. CASE ~\E f : Leave(p, pc, f, -1)
      BY <1>1, <2>3, <3>2 DEF HeredocEnd, Popped, Goto, Others, TypeOK
    <3>3. QED
      BY <3>1, <3>2
  <2>4. CASE HeredocStore(p)
    <3>1. CASE Finish(p, -1)
      BY <1>1, <3>1 DEF Finish, Return, Leave, Others, TypeOK
    <3>2. CASE ~Finish(p, -1)
      BY <1>1, <2>4, <3>2 DEF HeredocStore, Goto, Others, TypeOK
    <3>3. QED
      BY <3>1, <3>2
  <2>5. QED
    BY <2>1, <2>2, <2>3, <2>4 DEF Heredoc
<1>4. Alone(p, p)
  BY <1>2, <1>3 DEF Alone, HeredocPC
<1>5. QED
  BY <1>2, <1>4, UnstartedKeep DEF WaitPC, ShellPC, HeredocPC

\* The steps of execute_pipe_command keep Carried.
LEMMA PipesCarried ==
  ASSUME TypeOK, Local, Carried, NEW p \in Interp, Pipes(p)
  PROVE  Carried'
<1> DEFINE n == NodeOf(p)
<1>1. /\ p \in Proc /\ pc \in [Proc -> PC] /\ n \in Node
      /\ fds \in [Proc -> [Slot -> Desc]] /\ rc \in [Proc -> WaitStatus]
  BY ProcTypes, NodeOfType DEF TypeOK
<1>2. CASE MakePipe(p) \/ LeftChild(p) \/ RightChild(p)
  <2>1. pc[p] \in {"pipe", "left_child", "right_child"}
    BY <1>2 DEF MakePipe, LeftChild, RightChild
  <2>2. Others({p}) /\ \A q \in Proc \ {p} : rc'[q] = rc[q]
    BY <1>1, <1>2 DEF MakePipe, LeftChild, RightChild, Return, Leave, Die, Goto, Others, TypeOK
  <2>3. Alone(p, p)
    BY <2>1, <2>2 DEF Alone
  <2>4. QED
    BY <2>1, <2>3, UnstartedKeep DEF WaitPC, ShellPC
<1>3. CASE ForkLeft(p)
  <2>1. pc[p] = "fork1" /\ pc[p] \in PipePC
    BY <1>3 DEF ForkLeft, PipePC
  <2>2. CASE Return(p, pc, Closed(fds[p]), 1)
    <3>1. Alone(p, p)
      BY <1>1, <2>1, <2>2 DEF Return, Leave, Others, TypeOK, Alone
    <3>2. QED
      BY <2>1, <3>1, UnstartedKeep DEF WaitPC, ShellPC
  <2>3. CASE ~Return(p, pc, Closed(fds[p]), 1)
    <3>1. PICK k \in Node, c \in Proc \ {Shell} :
            /\ k = tree.left[n] /\ c = Child(k) /\ c # p /\ c[2] = k
            /\ Below(k, n) /\ k # n
      BY <2>1, OperandChild
    <3>2. c \in Children /\ c \in Proc /\ Fork(p, c, "left_child", "fork2")
      BY <1>3, <2>3, <3>1, ProcTypes DEF ForkLeft, Child, Children
    <3>3. Others({p, c}) /\ \A q \in Proc \ {c} : rc'[q] = rc[q]
      BY <1>1, <3>1, <3>2 DEF Fork, Others, TypeOK
    <3>4. ~OnLast(c)
      <4>1. /\ tree.left[n] # Nil /\ tree.right[n] # Nil
        BY <2>1, Acting DEF LocalOf, ShapeOf
      <4>2. NodeOf(c) = k /\ LastNode \in Node
        BY <3>1, LastFacts DEF NodeOf
      <4>3. QED
        BY <1>1, <3>1, <4>1, <4>2, RightOnLast, BelowNode DEF OnLast
    <3>5. k # tree.root
      BY <1>1, <3>1, OperandNotRoot
    <3>6. QED
      BY <2>1, <3>1, <3>2, <3>3, <3>4, <3>5, ChildStarts
  <2>4. QED
    BY <2>2, <2>3
<1>4. CASE ForkRight(p)
  <2>1. pc[p] = "fork2" /\ pc[p] \in PipePC
    BY <1>4 DEF ForkRight, PipePC
  <2>2. PICK k \in Node, c \in Proc \ {Shell} :
          /\ k = tree.right[n] /\ c = Child(k) /\ c # p /\ c[2] = k
          /\ Below(k, n) /\ k # n /\ k # Nil
    BY <2>1, OperandChild, NodeAssumption DEF Nil
  <2>3. CASE Fork(p, Child(tree.right[n]), "right_child", "close")
    <3>0. Fork(p, c, "right_child", "close")
      BY <2>2, <2>3
    <3>1. Others({p, c}) /\ pc'[p] = "close"
      BY <1>1, <2>2, <3>0 DEF Fork, Others, TypeOK
    <3>2. c \in Children /\ \A q \in Proc \ {c} : rc'[q] = rc[q]
      BY <1>1, <2>2, <2>3, ProcTypes DEF Fork, Child, Children
    <3>3. k # tree.root
      BY <1>1, <2>2, OperandNotRoot
    <3>4. QED
      BY <2>1, <2>2, <3>1, <3>2, <3>3, ChildStarts DEF WaitPC
  <2>4. CASE ~Fork(p, Child(tree.right[n]), "right_child", "close")
    <3>1. Alone(p, p)
      BY <1>1, <1>4, <2>1, <2>4 DEF ForkRight, Goto, Others, TypeOK, Alone
    <3>2. QED
      BY <2>1, <3>1, UnstartedKeep DEF WaitPC, ShellPC
  <2>5. QED
    BY <2>3, <2>4
<1>5. CASE ClosePipe(p)
  <2>1. Alone(p, p) /\ pc[p] = "close" /\ pc'[p] = "wait1"
    BY <1>1, <1>5 DEF ClosePipe, Goto, Others, TypeOK, Alone
  <2>2. QED
    BY <2>1, WaitKeep DEF WaitPC
<1>6. CASE ReapLeft(p) \/ WaitLeft(p) \/ WaitRight(p)
  <2>1. /\ pc[p] \in {"reap1", "wait1", "wait2"} /\ pc[p] \in PipePC
    BY <1>6 DEF ReapLeft, WaitLeft, WaitRight, PipePC
  <2>2. PICK k \in Node, c \in Interp :
          /\ k = (IF pc[p] = "wait2" THEN tree.right[n] ELSE tree.left[n])
          /\ c = Child(k) /\ c \in Proc \ {Shell} /\ c # p /\ NodeOf(c) = k
    BY <2>1, OperandChild
  <2>3. CASE ReapLeft(p)
    <3>1. Alone(p, c) /\ pc[p] = "reap1"
      BY <1>1, <2>2, <2>3 DEF ReapLeft, Return, Leave, Others, TypeOK, Alone
    <3>2. QED
      BY <3>1, UnstartedKeep DEF WaitPC, ShellPC
  <2>4. CASE WaitLeft(p)
    <3>1. Alone(p, c) /\ pc[p] = "wait1" /\ pc'[p] = "wait2"
      BY <1>1, <2>2, <2>4 DEF WaitLeft, Others, TypeOK, Alone
    <3>2. QED
      BY <3>1, WaitKeep DEF WaitPC
  <2>5. CASE WaitRight(p)
    <3>1. pc[p] = "wait2" /\ c = Child(tree.right[n]) /\ pc[c] = "zombie"
      BY <2>2, <2>5 DEF WaitRight
    <3>2. Passes(p, c)
      BY <2>2, <2>5, <3>1, ReturnPasses DEF WaitRight
    <3>3. QED
      BY <2>2, <3>1, <3>2, RightPasses
  <2>6. QED
    BY <1>6, <2>3, <2>4, <2>5
<1>7. QED
  BY <1>2, <1>3, <1>4, <1>5, <1>6 DEF Pipes

\* The steps of a simple command keep Carried.
LEMMA RunCarried ==
  ASSUME TypeOK, Local, Carried, NEW p \in Interp, Run(p)
  PROVE  Carried'
<1>0. /\ p \in Proc /\ pc \in [Proc -> PC] /\ rc \in [Proc -> WaitStatus] /\ LocalOf(p)
      /\ pc[p] \in {"run", "waitx"} /\ pc[p] \in RunPC
  BY ProcTypes
  DEF TypeOK, Local, Run, RunBuiltin, RunEcho, RunExit, RunProgram, WaitProgram, RunPC
<1>1. PICK m \in Node, c \in Exts :
        /\ m = cur[p] /\ Below(m, NodeOf(p))
        /\ c = Ext(m) /\ c # p /\ c \in Proc
  BY <1>0, ProcTypes DEF LocalOf, ShapeOf
<1>2. CASE RunEcho(p)
  BY <1>2, SayCarried DEF RunEcho
<1>3. CASE RunBuiltin(p) \/ RunExit(p) \/ (RunProgram(p) /\ Finish(p, 1))
  <2>1. pc[p] = "run"
    BY <1>3 DEF RunBuiltin, RunExit, RunProgram
  <2>2. Others({p}) /\ \A q \in Proc \ {p} : rc'[q] = rc[q]
    BY <1>0, <1>3
    DEF RunBuiltin, RunExit, RunProgram, Finish, Return, Leave, Others, TypeOK
  <2>3. Alone(p, p)
    BY <2>1, <2>2 DEF Alone
  <2>4. QED
    BY <2>1, <2>3, UnstartedKeep DEF WaitPC, ShellPC
<1>4. CASE RunProgram(p) /\ ~Finish(p, 1)
  <2>1. pc[p] = "run" /\ Fork(p, c, "exec", "waitx")
    BY <1>1, <1>4 DEF RunProgram
  <2>2. /\ Others({p, c}) /\ pc'[p] = "waitx" /\ cur'[p] = cur[p]
        /\ \A q \in Proc \ {c} : rc'[q] = rc[q]
    BY <1>0, <1>1, <2>1 DEF Fork, Others, TypeOK
  <2>3. QED
    BY <1>1, <2>1, <2>2, ProgramStarts
<1>5. CASE WaitProgram(p)
  <2>1. pc[p] = "waitx" /\ pc[c] = "zombie"
    BY <1>1, <1>5 DEF WaitProgram
  <2>2. Passes(p, c)
    BY <1>1, <1>5, <2>1, ReturnPasses DEF WaitProgram
  <2>3. QED
    BY <1>1, <2>1, <2>2, ProgramPasses
<1>6. QED
  BY <1>2, <1>3, <1>4, <1>5 DEF Run

\* A living program that goes on or ends keeps Carried.
LEMMA ExtCarried ==
  ASSUME TypeOK, Carried, NEW e \in Exts, Alive(e), Others({e}),
         \A q \in Proc \ {e} : rc'[q] = rc[q]
  PROVE  Carried'
<1>1. /\ tree' = tree /\ Interp \subseteq Proc /\ e \notin Interp /\ e \in Proc
      /\ \A q \in Interp : pc'[q] = pc[q] /\ cur'[q] = cur[q] /\ rc'[q] = rc[q]
      /\ e # LastExt => pc'[LastExt] = pc[LastExt] /\ rc'[LastExt] = rc[LastExt]
      /\ e = LastExt => pc[LastExt] \notin {"none", "zombie"}
  BY LastFacts, ProcTypes DEF Others, Alive, GonePC
<1>2. /\ LastNode' = LastNode /\ LastExt' = LastExt
      /\ \A q \in Interp : NodeOf(q)' = NodeOf(q) /\ (OnLast(q)' <=> OnLast(q))
      /\ \A a, b : Below(a, b)' <=> Below(a, b)
  BY <1>1, LastKeep
<1>3. ASSUME NEW q \in Interp, OnLast(q)' PROVE Settled(q)'
  <2>1. Settled(q)
    BY <1>2, <1>3 DEF Carried
  <2>2. QED
    BY <1>1, <1>2, <2>1 DEF Settled, Unstarted
<1>4. Spine'
  BY <1>1, <1>2, TreeFacts, ProcTypes DEF Spine, WaitPC, Carried
<1>5. QED
  BY <1>3, <1>4 DEF Carried

\* A step of a program keeps Carried.
LEMMA ProgramCarried ==
  ASSUME TypeOK, Carried, NEW e \in Exts, Program(e) \/ Typed(e)
  PROVE  Carried'
<1>1. e \in Proc /\ pc \in [Proc -> PC] /\ fds \in [Proc -> [Slot -> Desc]]
  BY ProcTypes DEF TypeOK
<1>2. Alive(e)
  BY DEF Program, Exec, ProgRead, ProgWrite, ProgQuit, Typed, Alive, GonePC
<1>3. Others({e}) /\ \A q \in Proc \ {e} : rc'[q] = rc[q]
  <2>1. CASE Exec(e)
    BY <1>1, <2>1 DEF Exec, Die, Goto, Others, TypeOK
  <2>2. CASE ProgRead(e) \/ Typed(e)
    BY <1>1, <2>2 DEF ProgRead, Typed, ReadUnit, Goto, Others, TypeOK
  <2>3. CASE ProgWrite(e) \/ ProgQuit(e)
    BY <1>1, <2>3 DEF ProgWrite, ProgQuit, Killed, Die, Goto, Others, TypeOK
  <2>4. QED
    BY <2>1, <2>2, <2>3 DEF Program
<1>4. QED
  BY <1>2, <1>3, ExtCarried

\* With no other process there is nothing to pass on.
LEMMA IdleCarried ==
  ASSUME TypeOK, \A q \in Proc \ {Shell} : pc[q] = "none",
         pc[Shell] \in ShellPC \/ \A q \in Proc : rc[q] = NoStatus
  PROVE  Carried
<1>1. /\ LastExt \in Proc \ {Shell} /\ Child(tree.root) \in Proc \ {Shell}
      /\ Interp \subseteq Proc
  BY LastFacts, TreeFacts, ProcTypes
<1>2. Spine
  BY <1>1 DEF Spine
<1>3. \A q \in Interp : Settled(q)
  BY <1>1 DEF Settled, Unstarted
<1>4. QED
  BY <1>2, <1>3 DEF Carried

CarriedIdle == /\ TypeOK /\ \A q \in Proc \ {Shell} : pc[q] = "none"
               /\ pc[Shell] \in ShellPC \/ \A q \in Proc : rc[q] = NoStatus

LEMMA IdleCarriedNext == CarriedIdle' => Carried'
<1>1. CarriedIdle => Carried
  BY IdleCarried DEF CarriedIdle
<1>2. QED
  BY <1>1, PTL

\* The prompt's steps keep Carried.
LEMMA PromptCarried ==
  ASSUME TypeOK, \A q \in Proc \ {Shell} : pc[q] = "none", TypeOK', Prompt
  PROVE  Carried'
<1>1. pc[Shell] = "prompt" /\ pc \in [Proc -> PC] /\ Shell \in Proc
  BY ProcTypes DEF Prompt, ReadLine, RejectLine, EndOfInput, TypeOK
<1>2. /\ \A q \in Proc \ {Shell} : pc'[q] = "none"
      /\ pc'[Shell] \in ShellPC \/ \A q \in Proc : rc'[q] = NoStatus
  BY <1>1 DEF Prompt, ReadLine, RejectLine, EndOfInput, Goto, ShellPC
<1>3. QED
  BY <1>2, IdleCarriedNext DEF CarriedIdle, ShellPC

(***************************************************************************)
(* What a step of an interpreter does to the other processes: it forks a   *)
(* child or a program that has still to exec, or reaps a zombie.           *)
(***************************************************************************)
OthersOf(p) ==
  \A q \in Proc \ {p} : \/ pc'[q] = pc[q]
                        \/ pc[q] = "zombie" /\ pc'[q] = "none"
                        \/ q \in Children /\ Alive(q)'
                        \/ q \in Exts /\ pc'[q] = "exec"

LEMMA PipesOthers ==
  ASSUME TypeOK, Local, NEW p \in Interp, Pipes(p)
  PROVE  OthersOf(p)
<1> DEFINE k == tree.left[NodeOf(p)]
           m == tree.right[NodeOf(p)]
<1>1. p \in Proc /\ pc \in [Proc -> PC] /\ LocalOf(p)
  BY Acting
<1>2. CASE MakePipe(p) \/ ClosePipe(p)
  BY <1>1, <1>2 DEF MakePipe, ClosePipe, Return, Leave, Goto, OthersOf
<1>3. CASE LeftChild(p) \/ RightChild(p)
  BY <1>1, <1>3 DEF LeftChild, RightChild, Die, Goto, OthersOf
<1>4. CASE pc[p] \in PipePC /\ ~(MakePipe(p) \/ ClosePipe(p))
  <2>1. \A c \in {Child(k), Child(m)} : c \in Proc /\ c \in Children /\ c # p
    BY <1>4, OperandChild DEF Interp, Children, Child
  <2>2. CASE ForkLeft(p) \/ ForkRight(p)
    BY <1>1, <2>1, <2>2 DEF ForkLeft, ForkRight, Fork, Return, Leave, Goto, OthersOf,
                            Alive, GonePC
  <2>3. CASE ReapLeft(p) \/ WaitRight(p)
    BY <1>1, <2>1, <2>3 DEF ReapLeft, WaitRight, Return, Leave, OthersOf
  <2>4. CASE WaitLeft(p)
    BY <1>1, <2>1, <2>4 DEF WaitLeft, OthersOf
  <2>5. CASE ~(ForkLeft(p) \/ ForkRight(p) \/ ReapLeft(p) \/ WaitRight(p) \/ WaitLeft(p))
    BY <1>2, <1>3, <1>4, <2>5 DEF Pipes
  <2>6. QED
    BY <2>2, <2>3, <2>4, <2>5
<1>5. QED
  BY <1>2, <1>3, <1>4 DEF Pipes, PipePC, ForkLeft, ForkRight, ReapLeft, WaitLeft, WaitRight

LEMMA RunOthers ==
  ASSUME TypeOK, Local, NEW p \in Interp, Run(p)
  PROVE  OthersOf(p)
<1>1. p \in Proc /\ pc \in [Proc -> PC] /\ LocalOf(p)
  BY Acting
<1>2. pc[p] \in {"run", "waitx"} /\ cur[p] \in Node
  BY <1>1 DEF Run, RunBuiltin, RunEcho, RunExit, RunProgram, WaitProgram, RunPC,
              LocalOf, ShapeOf
<1>3. PICK e \in Exts : e = Ext(cur[p])
  BY <1>2 DEF Ext, Exts
<1>4. e \in Proc /\ e # p /\ e \notin Interp
  BY <1>3, ProcTypes
<1>5. CASE RunBuiltin(p) \/ RunEcho(p)
  BY <1>1, <1>5 DEF RunBuiltin, RunEcho, Say, Killed, Die, Finish, Return, Leave, OthersOf
<1>6. CASE RunExit(p)
  BY <1>1, <1>6 DEF RunExit, OthersOf
<1>7. CASE RunProgram(p)
  BY <1>1, <1>3, <1>4, <1>7 DEF RunProgram, Fork, Finish, Return, Leave, OthersOf
<1>8. CASE WaitProgram(p)
  BY <1>1, <1>3, <1>4, <1>8 DEF WaitProgram, Return, Leave, OthersOf
<1>9. QED
  BY <1>5, <1>6, <1>7, <1>8 DEF Run

LEMMA InterpretOthers ==
  ASSUME TypeOK, Local, NEW p \in Interp, Interpret(p)
  PROVE  Alive(p) /\ OthersOf(p)
<1>1. p \in Proc /\ pc \in [Proc -> PC]
  BY Acting
<1>2. Alive(p)
  BY DEF Interpret, Dispatch, NotFound, Pipes, MakePipe, ForkLeft, ForkRight, ReapLeft,
         ClosePipe, WaitLeft, WaitRight, LeftChild, RightChild, Chain, SaveFds, Collect,
         Apply, AllApplied, Heredoc, HeredocPrompt, HeredocLine, HeredocEnd, HeredocStore,
         Run, RunBuiltin, RunEcho, RunExit, RunProgram, WaitProgram, Alive, GonePC
<1> DEFINE Rest == \A q \in Proc \ {p} : pc'[q] = pc[q]
<1>3. Rest => OthersOf(p)
  BY DEF OthersOf
<1>4. CASE NotFound(p)
  <2>1. Rest
    BY <1>1, <1>4 DEF NotFound, Say, Killed, Die, Leave
  <2>2. QED
    BY <1>2, <1>3, <2>1
<1>5. CASE Dispatch(p)
  <2>1. Rest
    BY <1>1, <1>5 DEF Dispatch, Return, Leave, Goto
  <2>2. QED
    BY <1>2, <1>3, <2>1
<1>6. CASE Chain(p)
  <2>1. ASSUME SaveFds(p) \/ AllApplied(p) PROVE Rest
    BY <1>1, <2>1 DEF SaveFds, AllApplied, Return, Leave, Goto
  <2>2. ASSUME Collect(p) PROVE Rest
    BY <1>1, <2>2 DEF Collect, Finish, Return, Leave, Goto
  <2>3. ASSUME Apply(p) PROVE Rest
    BY <1>1, <2>3 DEF Apply, Finish, Return, Leave, OpenFile, OpenHeredoc, Goto
  <2>4. Rest
    BY <1>6, <2>1, <2>2, <2>3 DEF Chain
  <2>5. QED
    BY <1>2, <1>3, <2>4
<1>7. CASE Heredoc(p)
  <2>1. ASSUME \E f : Leave(p, pc, f, -1) PROVE Rest
    BY <1>1, <2>1 DEF Leave
  <2>2. ASSUME ~\E f : Leave(p, pc, f, -1) PROVE Rest
    BY <1>1, <1>7, <2>2
    DEF Heredoc, HeredocPrompt, HeredocLine, HeredocEnd, HeredocStore, Finish, Return,
        Killed, Die, Goto
  <2>3. QED
    BY <1>2, <1>3, <2>1, <2>2
<1>8. QED
  BY <1>2, <1>4, <1>5, <1>6, <1>7, PipesOthers, RunOthers DEF Interpret

\* A program only changes itself.
LEMMA ProgramOthers ==
  ASSUME TypeOK, NEW e \in Exts, Program(e) \/ Typed(e)
  PROVE  Alive(e) /\ \A q \in Proc \ {e} : pc'[q] = pc[q]
<1>1. e \in Proc /\ pc \in [Proc -> PC]
  BY ProcTypes DEF TypeOK
<1>2. Alive(e)
  BY DEF Program, Exec, ProgRead, ProgWrite, ProgQuit, Typed, Alive, GonePC
<1>3. QED
  BY <1>1, <1>2 DEF Program, Exec, ProgRead, ProgWrite, ProgQuit, Typed, Killed, Die, Goto


\* Every step of the executor keeps Carried.
LEMMA CarriedStep ==
  ASSUME TypeOK, Local, Carried,
         \/ \E p \in Interp : Interpret(p)
         \/ \E e \in Exts : Program(e) \/ Typed(e)
         \/ UNCHANGED vars
  PROVE  Carried'
<1>1. ASSUME NEW p \in Interp, Interpret(p) PROVE Carried'
  <2>1. NotFound(p) => Carried'
    BY SayCarried DEF NotFound
  <2>2. QED
    BY <1>1, <2>1, DispatchCarried, PipesCarried, ChainCarried, HeredocCarried, RunCarried
    DEF Interpret
<1>2. ASSUME NEW e \in Exts, Program(e) \/ Typed(e) PROVE Carried'
  BY <1>2, ProgramCarried
<1>3. CASE UNCHANGED vars
  BY <1>3 DEF vars, Carried, Spine, Settled, Unstarted, OnLast, LastNode, LastExt, NodeOf,
              Below
<1>4. QED
  BY <1>1, <1>2, <1>3

\* The status with which the shell comes back to its prompt.
LEMMA StatusReturned ==
  ASSUME TypeOK, Local, Carried, Interpret(Shell), pc[Shell] \in InterpPC,
         pc'[Shell] = "prompt", rc[LastExt] # NoStatus
  PROVE  gx' = Decode(rc[LastExt])
<1> DEFINE n == NodeOf(Shell)
           c == Child(tree.right[n])
<1>1. /\ Shell \in Proc /\ Shell \in Interp /\ OnLast(Shell) /\ pc \in [Proc -> PC]
      /\ n \in Node
  BY LastFacts, ProcTypes, NodeOfType DEF TypeOK
<1>2. Settled(Shell) /\ ~Unstarted
  BY <1>1 DEF Carried, Unstarted
<1>3. pc[Shell] \in WaitPC \/ (pc[Shell] = "waitx" /\ cur[Shell] = LastNode)
  BY <1>2 DEF Settled, InterpPC, ShellPC
<1>4. \/ ClosePipe(Shell) \/ WaitLeft(Shell)
      \/ WaitRight(Shell) \/ (WaitProgram(Shell) /\ cur[Shell] = LastNode)
  BY <1>3
  DEF Interpret, Dispatch, NotFound, Pipes, MakePipe, ForkLeft, ForkRight, ReapLeft,
      LeftChild, RightChild, Chain, SaveFds, Collect, Apply, AllApplied,
      Heredoc, HeredocPrompt, HeredocLine, HeredocEnd, HeredocStore,
      Run, RunBuiltin, RunEcho, RunExit, RunProgram, WaitPC, ClosePipe, WaitLeft, WaitRight,
      WaitProgram
<1>5. ~ClosePipe(Shell) /\ ~WaitLeft(Shell)
  BY <1>1 DEF ClosePipe, WaitLeft, Goto
<1>6. CASE WaitRight(Shell)
  <2>1. pc[Shell] = "wait2" /\ pc[c] = "zombie" /\ gx' = Decode(rc[c])
    BY <1>6 DEF WaitRight, Return, Leave
  <2>2. c \in Interp /\ OnLast(c)
    <3>1. /\ tree.left[n] # Nil /\ tree.right[n] # Nil
      BY <1>1, <2>1, Acting DEF LocalOf, ShapeOf, PipePC
    <3>2. tree.right[n] \in Node /\ Below(LastNode, tree.right[n])
      BY <1>1, <3>1, TreeFacts, RightOnLast DEF OnLast
    <3>3. QED
      BY <3>2, ProcTypes DEF OnLast, NodeOf, Child
  <2>3. Settled(c)
    BY <2>2 DEF Carried
  <2>4. Decode(rc[c]) = Decode(rc[LastExt])
    BY <1>2, <2>1, <2>3 DEF Settled, WaitPC, ShellPC
  <2>5. QED
    BY <2>1, <2>4
<1>7. CASE WaitProgram(Shell) /\ cur[Shell] = LastNode
  BY <1>7 DEF WaitProgram, Return, Leave, LastExt
<1>8. QED
  BY <1>4, <1>5, <1>6, <1>7

\* Only the shell's own steps bring it back to its prompt.
LEMMA OwnReturn ==
  ASSUME TypeOK, Local, pc[Shell] \in InterpPC, pc'[Shell] = "prompt",
         \/ \E p \in Interp : Interpret(p)
         \/ \E e \in Exts : Program(e) \/ Typed(e)
  PROVE  Interpret(Shell)
<1>1. Shell \in Proc /\ Shell \notin Children /\ Shell \notin Exts
  BY ProcTypes
<1>2. ASSUME NEW p \in Interp, Interpret(p), p # Shell PROVE FALSE
  BY <1>1, <1>2, InterpretOthers DEF OthersOf, InterpPC
<1>3. ASSUME NEW e \in Exts, Program(e) \/ Typed(e) PROVE FALSE
  BY <1>1, <1>3, ProgramOthers DEF InterpPC
<1>4. QED
  BY <1>2, <1>3

(***************************************************************************)
(* Whatever the tree, the status a line leaves behind is that of its last  *)
(* program whenever that one ran.                                          *)
(***************************************************************************)
THEOREM StatusPassed == Spec => StatusOfLast
<1>1. Init => Carried
  <2> SUFFICES ASSUME Init PROVE Carried
    OBVIOUS
  <2>1. TypeOK
    BY ProcInit
  <2>2. pc[Shell] \in ShellPC /\ \A q \in Proc \ {Shell} : pc[q] = "none"
    BY ProcTypes DEF Init, ShellPC
  <2>3. QED
    BY <2>1, <2>2, IdleCarried
<1>2. TypeOK /\ Local /\ Forest /\ Carried /\ [Next]_vars /\ TypeOK' => Carried'
  <2> SUFFICES ASSUME TypeOK, Local, Forest, Carried, [Next]_vars, TypeOK' PROVE Carried'
    OBVIOUS
  <2>1. CASE Prompt
    <3>1. pc[Shell] = "prompt"
      BY <2>1 DEF Prompt, ReadLine, RejectLine, EndOfInput
    <3>2. QED
      BY <2>1, <3>1, PromptAlone, PromptCarried
  <2>2. CASE ~Prompt
    BY <2>2, CarriedStep DEF Next, Terminated
  <2>3. QED
    BY <2>1, <2>2
<1>3. TypeOK /\ Local /\ Carried /\ [Next]_vars =>
        [LET e == Ext(tree.last[tree.root]) IN
         pc[Shell] \in InterpPC /\ pc'[Shell] = "prompt" /\ rc[e] # NoStatus
           => gx' = Decode(rc[e])]_vars
  <2> SUFFICES ASSUME TypeOK, Local, Carried, Next, pc[Shell] \in InterpPC,
                      pc'[Shell] = "prompt", rc[LastExt] # NoStatus
               PROVE  gx' = Decode(rc[LastExt])
    BY DEF LastExt, LastNode
  <2>1. ~Prompt /\ ~Terminated
    BY DEF Prompt, ReadLine, RejectLine, EndOfInput, Terminated, InterpPC
  <2>2. Interpret(Shell)
    BY <2>1, OwnReturn DEF Next
  <2>3. QED
    BY <2>2, StatusReturned
<1>4. QED
  BY <1>1, <1>2, <1>3, ProcInv, PTL DEF Spec, StatusOfLast
=============================================================================

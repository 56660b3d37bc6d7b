------------------------------ MODULE ExecInv ------------------------------
(***************************************************************************)
(* The inductive invariant behind the theorems of ExecProofs.  For each    *)
(* process: what its code relies on (ShapeOf), the descriptors it has      *)
(* (HoldOf) and whose pipe they belong to (PipeOf).  Between processes:    *)
(* which ones may exist under a given one (Forest), that each child keeps  *)
(* the pipe end it was forked for (Ends), and that everything under an     *)
(* operand of a pipe has the child forked for it alive (Chains, Operands). *)
(* At the end, what StatusOfLast needs besides (Carried), and what the     *)
(* proofs of Signals do (Whole).                                           *)
(***************************************************************************)
EXTENDS Exec

PipePC == {"pipe", "fork1", "fork2", "close", "reap1", "wait1", "wait2"}
MakerPC == {"fork1", "fork2", "close"}
HeredocPC == {"hd_prompt", "hd_read", "hd_store"}
RunPC == {"collect", "apply", "run", "waitx"} \cup HeredocPC
HoldPC == MakerPC \cup HeredocPC \cup SetupPC

\* Each kind of process runs its own code.
Labels(p) == IF p = Shell THEN InterpPC \cup ShellPC
             ELSE IF p \in Children THEN InterpPC \cup SetupPC \cup GonePC
             ELSE ExtPC \cup GonePC

\* The operands, the command node and the redirection its code uses exist.
ShapeOf(p) ==
  /\ pc[p] \in Labels(p)
  /\ pc[p] \in PipePC => /\ tree.kind[NodeOf(p)] = "pipe"
                         /\ tree.left[NodeOf(p)] # Nil
                         /\ tree.right[NodeOf(p)] # Nil
  /\ pc[p] \in RunPC \cup {"save"} => /\ cur[p] \in Node
                                      /\ Below(cur[p], NodeOf(p))
  /\ pc[p] \in HeredocPC => rs[p] # <<>>

\* What the shell may have in slot s between two redirections: its own, or
\* what is left there by a failure.
Owned(s, d) ==
  \/ d = ShellFds[s]
  \/ s \in Faults /\ d[1] \in IF s = "in" THEN {"tty", "file", "r"} ELSE {"tty", "file"}

\* Its slots hold what is its own or was left to it, with i and o for its
\* stdin and stdout.
OwnedAs(f, i, o) == /\ Owned("in", f[i]) /\ Owned("out", f[o])
                    /\ Owned("leak", f["leak"])

\* A process that is gone holds nothing; the others have pipefd open only
\* where the code has; the shell can get its own stdin and stdout back, and
\* never writes to a pipe.
HoldOf(p) ==
  /\ pc[p] \in GonePC => fds[p] = NoFds
  /\ pc[p] \notin HoldPC => fds[p]["pr"] = Shut /\ fds[p]["pw"] = Shut
  /\ p = Shell /\ pc[p] \in RunPC => OwnedAs(fds[p], "svin", "svout")
  /\ p = Shell /\ pc[p] \notin RunPC \cup {"exited"} =>
       /\ OwnedAs(fds[p], "in", "out")
       /\ fds[p]["svin"] = Shut /\ fds[p]["svout"] = Shut
  /\ p = Shell /\ pc[p] # "exited" => /\ fds[p]["in"][1] \in {"tty", "file", "r"}
                                      /\ fds[p]["out"][1] \in {"tty", "file"}

\* pipefd has the two ends of the pipe of the node being executed, of a
\* here-document, or, in a child just forked, of the node it is an operand of.
PipeOf(p) ==
  /\ pc[p] \in MakerPC => fds[p]["pr"] = R(NodeOf(p)) /\ fds[p]["pw"] = W(NodeOf(p))
  /\ pc[p] \in HeredocPC =>
       \E h \in Node : /\ tree.kind[h] = "heredoc"
                       /\ fds[p]["pr"] = R(h) /\ fds[p]["pw"] = W(h)
  /\ pc[p] \in SetupPC =>
       \E n \in Node : /\ tree.kind[n] = "pipe"
                       /\ fds[p]["pr"] = R(n) /\ fds[p]["pw"] = W(n)
                       /\ pc[p] = "left_child" => NodeOf(p) = tree.left[n]
                       /\ pc[p] = "right_child" => NodeOf(p) = tree.right[n]

LocalOf(p) == ShapeOf(p) /\ HoldOf(p) /\ PipeOf(p) /\ SeparatedAt(p)
Local == \A p \in Proc : LocalOf(p)

\* The nodes at which a process at its present point may have processes.
Busy(p, m) ==
  LET n == NodeOf(p) IN
  \/ pc[p] \in {"fork2", "reap1", "close", "wait1"} /\ Below(m, tree.left[n])
  \/ pc[p] \in {"close", "wait1", "wait2"} /\ Below(m, tree.right[n])
  \/ pc[p] = "waitx" /\ m = cur[p]

Forest ==
  /\ \A q \in Proc \ {Shell} : pc[q] # "none" => Below(q[2], tree.root)
  /\ \A p \in Interp, q \in Proc \ {Shell} :
       p # q /\ pc[p] # "none" /\ pc[q] # "none" /\ Below(q[2], NodeOf(p))
         => Busy(p, q[2]) /\ (pc[p] = "waitx" => q = Ext(cur[p]))

(***************************************************************************)
(* Where the child that interprets an operand has the end it was given:    *)
(* in pipefd until its dup2, in original_fds while a redirection chain or  *)
(* a command runs, and otherwise as its stdout or stdin.                   *)
(***************************************************************************)
OutSlot(l) == IF l = "left_child" THEN "pw" ELSE IF l \in RunPC THEN "svout" ELSE "out"
InSlot(l) == IF l = "right_child" THEN "pr" ELSE IF l \in RunPC THEN "svin" ELSE "in"

EndOf(c) ==
  Alive(c) => \A n \in Node : tree.kind[n] = "pipe" =>
    /\ c[2] = tree.left[n] => fds[c][OutSlot(pc[c])] = W(n)
    /\ c[2] = tree.right[n] => fds[c][InSlot(pc[c])] = R(n)

Ends == \A c \in Children : EndOf(c)

\* The nodes that are the operand of a pipe.
PipeOperand == {k \in Node : \E n \in Node : /\ tree.kind[n] = "pipe"
                                            /\ k \in {tree.left[n], tree.right[n]}}

\* No pipe lies between an interpreter and the command its chain leads to.
ChainOf(p) ==
  pc[p] \in RunPC \cup {"save"} =>
    \A k \in PipeOperand : Below(cur[p], k) => Below(NodeOf(p), k)

Chains == \A p \in Interp : ChainOf(p)

\* Whatever lives under an operand of a pipe lives under the living child
\* that interprets the operand.
Operands ==
  \A k \in PipeOperand, q \in Proc :
    Alive(q) /\ Below(NodeOf(q), k) => Alive(Child(k))

IInv == TypeOK /\ Local /\ Forest /\ Ends /\ Chains /\ Operands

(***************************************************************************)
(* How the status of the last command comes back to the shell.  LastNode   *)
(* is the last node of the line, a process OnLast works on a subtree that  *)
(* ends with it.  Of these a process that has another one under it waits   *)
(* for it (Spine), and each of them waits, or has not started the command  *)
(* yet, or has ended with the command's status (Settled).                  *)
(***************************************************************************)
LastNode == tree.last[tree.root]
LastExt == Ext(LastNode)
OnLast(q) == Below(LastNode, NodeOf(q))
WaitPC == {"close", "wait1", "wait2"}

Spine ==
  /\ pc[Child(tree.root)] = "none"
  /\ \A p, q \in Interp :
       p # q /\ OnLast(p) /\ OnLast(q) /\ Below(NodeOf(q), NodeOf(p))
       /\ pc[p] # "none" /\ pc[q] # "none" => pc[p] \in WaitPC

Unstarted == pc[LastExt] = "none" /\ rc[LastExt] = NoStatus

Settled(p) ==
  \/ pc[p] \in WaitPC \cup ShellPC \cup {"none"}
  \/ pc[p] = "waitx" /\ cur[p] = LastNode
  \/ Unstarted
  \/ pc[p] = "zombie" /\ pc[LastExt] = "none" /\ Decode(rc[p]) = Decode(rc[LastExt])

Carried == Spine /\ \A p \in Interp : OnLast(p) => Settled(p)

\* A pipe somebody can write to has a right operand.
Whole == \A q \in Proc, s \in Slot, n \in Node :
           fds[q][s] = W(n) /\ tree.kind[n] = "pipe" => tree.right[n] # Nil
=============================================================================

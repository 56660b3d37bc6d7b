-------------------------------- MODULE Exec --------------------------------
(***************************************************************************)
(* The executor of the shell (src/execution): what happens between the     *)
(* prompt handing a syntax tree to execute_ast and the next prompt.  The   *)
(* shell process and every process it forks are modelled, with the         *)
(* descriptors each of them holds and the bytes in each pipe, because      *)
(* what goes wrong in such code is a descriptor left open in the wrong     *)
(* process or a wait for a process that waits in turn.                     *)
(*                                                                         *)
(* A process is <<"shell", 0>>, <<"child", n>> (forked by a pipe node to   *)
(* interpret its operand n) or <<"ext", n>> (forked by the command node n  *)
(* to exec a program).                                                     *)
(***************************************************************************)
EXTENDS SyntaxTree, Sequences

CONSTANTS
  Trees,            \* the syntax trees the prompt may hand over
  MaxRedirections,  \* MAX_REDIRECTIONS, the size of redir_nodes[]
  PipeCap,          \* units a pipe holds before a write blocks
  FileUnits,        \* the most units in an input file
  MaxBody,          \* lines typed in one here-document (bound)
  ExitCodes,        \* exit codes of the programs that end by themselves
  Faults            \* what the shell may lose: see Restored and SaveFds

ASSUME TreesAssumption == /\ Trees # {}
                          /\ Trees \subseteq Tree
                          /\ \A t \in Trees : PreOrder(t)
ASSUME BoundsAssumption == /\ MaxRedirections \in Nat
                           /\ PipeCap \in Nat \ {0}
                           /\ FileUnits \in Nat
                           /\ MaxBody \in Nat
                           /\ ExitCodes \subseteq 0..255
ASSUME FaultsAssumption == Faults \subseteq {"in", "out", "leak"}

-----------------------------------------------------------------------------
Shell == <<"shell", 0>>
Child(n) == <<"child", n>>
Ext(n) == <<"ext", n>>
Children == {"child"} \X Node
Exts == {"ext"} \X Node
Interp == {Shell} \cup Children
Proc == Interp \cup Exts

\* stdin, stdout, original_fds[0..1] and pipefd[0..1] of a process, and the
\* last copy of its stdout that save_original_fds has left open behind it.
Slot == {"in", "out", "svin", "svout", "pr", "pw", "leak"}
R(n) == <<"r", n>>       \* read end of the pipe made at node n
W(n) == <<"w", n>>       \* its write end
Tty == <<"tty", 0>>
Shut == <<"shut", 0>>    \* the slot holds no descriptor
File(k) == <<"file", k>> \* a file with at most k units left
Desc == {Tty, Shut} \cup ({"r", "w"} \X Node) \cup ({"file"} \X Nat)

\* What redir_nodes[] may hold.
RedirNodes == {s \in Seq(Node) : Len(s) <= MaxRedirections}

NoStatus == <<"none", 0>>
SIGPIPE == 13
WaitStatus == {NoStatus} \cup ({"exit"} \X (0..255)) \cup ({"sig"} \X (1..127))

InterpPC == {"dispatch", "pipe", "fork1", "fork2", "close", "reap1", "wait1",
             "wait2", "save", "collect", "apply", "hd_prompt", "hd_read",
             "hd_store", "run", "waitx"}
ShellPC == {"prompt", "exited"}
SetupPC == {"left_child", "right_child"}
ExtPC == {"exec", "read", "write", "quit"}
GonePC == {"none", "zombie"}
PC == InterpPC \cup ShellPC \cup SetupPC \cup ExtPC \cup GonePC

VARIABLES
  tree,   \* the tree of the current line
  pc,     \* control state of each process
  cur,    \* the node an interpreter has reached in its redirection chain
  rs,     \* redir_nodes[0..redir_count-1]
  fds,    \* process -> slot -> descriptor
  buf,    \* node -> units in its pipe
  rc,     \* wait status of a dead process
  gx      \* g_exit_code of the shell

vars == <<tree, pc, cur, rs, fds, buf, rc, gx>>

ShellFds == [s \in Slot |-> IF s \in {"in", "out"} THEN Tty ELSE Shut]
NoFds == [s \in Slot |-> Shut]

\* The node whose subtree a process works on.
NodeOf(p) == IF p = Shell THEN tree.root ELSE p[2]

Held(d) == \E q \in Proc, s \in Slot : fds[q][s] = d

\* Slip: the wait status itself, without WEXITSTATUS or WTERMSIG.
DecodeRaw(w) == IF w[1] = "sig" THEN w[2] ELSE 256 * w[2]

\* exit_code from a wait status: WEXITSTATUS, or 128 + WTERMSIG.
Decode(w) == IF w[1] = "sig" THEN 128 + w[2] ELSE w[2]

Init ==
  /\ tree \in Trees
  /\ pc = [p \in Proc |-> IF p = Shell THEN "prompt" ELSE "none"]
  /\ cur = [p \in Proc |-> Nil]
  /\ rs = [p \in Proc |-> <<>>]
  /\ fds = [p \in Proc |-> IF p = Shell THEN ShellFds ELSE NoFds]
  /\ buf = [n \in Node |-> 0]
  /\ rc = [p \in Proc |-> NoStatus]
  /\ gx = 0

-----------------------------------------------------------------------------
(***************************************************************************)
(* execute_ast returns status s in process p, whose descriptors are then   *)
(* f.  The shell stores it in g_exit_code and prompts; a child of a pipe   *)
(* passes it to exit(), which keeps eight bits and closes everything.      *)
(* pcs is the control state with the children p has reaped removed.        *)
(***************************************************************************)
Leave(p, pcs, f, s) ==
  /\ pc' = [pcs EXCEPT ![p] = IF p = Shell THEN "prompt" ELSE "zombie"]
  /\ fds' = [fds EXCEPT ![p] = IF p = Shell THEN f ELSE NoFds]
  /\ rc' = IF p = Shell THEN rc ELSE [rc EXCEPT ![p] = <<"exit", s % 256>>]
  /\ gx' = IF p = Shell THEN s ELSE gx
  /\ cur' = [cur EXCEPT ![p] = Nil]
  /\ rs' = [rs EXCEPT ![p] = <<>>]
  /\ UNCHANGED tree

Return(p, pcs, f, s) == Leave(p, pcs, f, s) /\ UNCHANGED buf

\* Slip: the two copies are exchanged.
SavedCrossed(f) == [f EXCEPT !["svin"] = f["out"], !["svout"] = f["in"]]

\* save_original_fds on the descriptors f; restore_fds, then close_fds.
Saved(f) == [f EXCEPT !["svin"] = f["in"], !["svout"] = f["out"]]

\* Slip: restore_fds without close_fds.
RestoredOpen(f, lost) ==
  [f EXCEPT !["in"] = IF "in" \in lost THEN @ ELSE f["svin"],
            !["out"] = IF "out" \in lost THEN @ ELSE f["svout"]]

\* A dup2 that fails is reported and no more: the copies are closed all the
\* same, and the standard descriptors in lost stay redirected.
Restored(f, lost) ==
  [f EXCEPT !["in"] = IF "in" \in lost THEN @ ELSE f["svin"],
            !["out"] = IF "out" \in lost THEN @ ELSE f["svout"],
            !["svin"] = Shut, !["svout"] = Shut]

Losses == SUBSET (Faults \cap {"in", "out"})

\* Slip: only the read end is closed.
ClosedHalf(f) == [f EXCEPT !["pr"] = Shut]

\* close(pipefd[0]); close(pipefd[1]);
Closed(f) == [f EXCEPT !["pr"] = Shut, !["pw"] = Shut]

\* A command or a redirection chain ends with status s; a here-document in
\* progress closes its pipefd first.
Finish(p, s) ==
  \E lost \in Losses : Return(p, pc, Restored(Closed(fds[p]), lost), s)

\* The standard descriptor s becomes the pipe end e, and both ends close.
Piped(s, e, f) == Closed([f EXCEPT ![s] = f[e]])

\* p terminates with wait status w, whatever it was doing.
Die(p, w) ==
  /\ pc' = [pc EXCEPT ![p] = "zombie"]
  /\ fds' = [fds EXCEPT ![p] = NoFds]
  /\ rc' = [rc EXCEPT ![p] = w]
  /\ cur' = [cur EXCEPT ![p] = Nil]
  /\ rs' = [rs EXCEPT ![p] = <<>>]

\* p forks the process c, which starts at label l; p goes to label m.
Fork(p, c, l, m) ==
  /\ pc' = [pc EXCEPT ![c] = l, ![p] = m]
  /\ fds' = [fds EXCEPT ![c] = fds[p]]
  /\ rc' = [rc EXCEPT ![c] = NoStatus]
  /\ UNCHANGED <<tree, cur, rs, buf, gx>>

Goto(p, l) == pc' = [pc EXCEPT ![p] = l]

-----------------------------------------------------------------------------
(***************************************************************************)
(* Reading and writing one unit, for a program, a builtin or a             *)
(* here-document.  A write to a pipe without a reader kills the writer; a  *)
(* read of an empty pipe without a writer is an end of file; otherwise     *)
(* both block.                                                             *)
(***************************************************************************)
CanWrite(p) == LET d == fds[p]["out"] IN
  d[1] = "w" => Held(R(d[2])) /\ buf[d[2]] < PipeCap

BrokenPipe(p) == LET d == fds[p]["out"] IN d[1] = "w" /\ ~Held(R(d[2]))

Written(p) == LET d == fds[p]["out"] IN
  IF d[1] = "w" THEN [buf EXCEPT ![d[2]] = @ + 1] ELSE buf

CanRead(p) == LET d == fds[p]["in"] IN
  \/ d[1] = "tty"
  \/ d[1] = "file" /\ d[2] > 0
  \/ d[1] = "r" /\ buf[d[2]] > 0

\* A file ends where it ends, or where another process that shares its
\* offset has read to.
EndOfFile(p) == LET d == fds[p]["in"] IN
  \/ d[1] \in {"tty", "file"}
  \/ d[1] = "r" /\ buf[d[2]] = 0 /\ ~Held(W(d[2]))

\* What p's read of a unit leaves in the pipe, or of the file.
ReadUnit(p) == LET d == fds[p]["in"] IN
  /\ buf' = IF d[1] = "r" THEN [buf EXCEPT ![d[2]] = @ - 1] ELSE buf
  /\ fds' = IF d[1] = "file" THEN [fds EXCEPT ![p]["in"] = File(d[2] - 1)]
                             ELSE fds

Killed(p) == Die(p, <<"sig", SIGPIPE>>) /\ UNCHANGED <<tree, buf, gx>>

\* execute_ast writes a unit to stdout and returns s, leaving descriptors f.
Say(p, f, s) ==
  \/ /\ CanWrite(p)
     /\ buf' = Written(p)
     /\ Leave(p, pc, f, s)
  \/ BrokenPipe(p) /\ Killed(p)

-----------------------------------------------------------------------------
(***************************************************************************)
(* The prompt: readline_loop, input_handler and main's signal-free path.   *)
(***************************************************************************)
\* A shell whose stdin was not restored reads its lines from the file or the
\* here-document it is left with.
AfterLine == LET d == fds[Shell]["in"] IN
  IF d[1] = "tty" THEN d ELSE IF d[1] = "file" THEN File(d[2] - 1)
  ELSE File(buf[d[2]] - 1)

\* A line is read; the pipes and the statuses of the line before are gone,
\* but for a here-document's that is still the stdin: nobody writes to it.
ReadLine ==
  /\ pc[Shell] = "prompt"
  /\ CanRead(Shell)
  /\ tree' \in Trees
  /\ Goto(Shell, "dispatch")
  /\ fds' = [fds EXCEPT ![Shell]["in"] = AfterLine]
  /\ buf' = [n \in Node |-> 0]
  /\ rc' = [p \in Proc |-> NoStatus]
  /\ UNCHANGED <<cur, rs, gx>>

\* No tree is built: $? is 2 for an unclosed quote, 1 without memory.
RejectLine ==
  /\ pc[Shell] = "prompt"
  /\ CanRead(Shell)
  /\ gx' \in {1, 2}
  /\ ReadUnit(Shell)
  /\ UNCHANGED <<tree, pc, cur, rs, rc>>

\* End of input: the shell exits with g_exit_code.
EndOfInput ==
  /\ pc[Shell] = "prompt"
  /\ EndOfFile(Shell)
  /\ pc' = [pc EXCEPT ![Shell] = "exited"]
  /\ fds' = [fds EXCEPT ![Shell] = NoFds]
  /\ rc' = [rc EXCEPT ![Shell] = <<"exit", gx % 256>>]
  /\ UNCHANGED <<tree, cur, rs, buf, gx>>

Terminated == pc[Shell] = "exited" /\ UNCHANGED vars

(***************************************************************************)
(* dispatch_ast_node.                                                      *)
(***************************************************************************)
Dispatch(p) ==
  LET n == NodeOf(p) IN
  /\ pc[p] = "dispatch"
  /\ \/ /\ tree.kind[n] = "pipe"
        /\ tree.left[n] # Nil /\ tree.right[n] # Nil
        /\ Goto(p, "pipe")
        /\ UNCHANGED <<tree, cur, rs, fds, buf, rc, gx>>
     \/ /\ tree.kind[n] = "pipe"
        /\ tree.left[n] = Nil \/ tree.right[n] = Nil
        /\ Return(p, pc, fds[p], 2)
     \/ /\ tree.kind[n] \in RedirKind \cup {"command"}
        /\ Goto(p, "save")
        /\ cur' = [cur EXCEPT ![p] = n]
        /\ UNCHANGED <<tree, rs, fds, buf, rc, gx>>
     \/ /\ tree.kind[n] = "assign"
        /\ Return(p, pc, fds[p], 0)

\* handle_word_token_execution: "command not found" goes to stdout.
NotFound(p) ==
  /\ pc[p] = "dispatch" /\ tree.kind[NodeOf(p)] = "word"
  /\ Say(p, fds[p], 127)

(***************************************************************************)
(* Pipes: execute_pipe_command.                                            *)
(***************************************************************************)
MakePipe(p) ==
  LET n == NodeOf(p) IN
  /\ pc[p] = "pipe"
  /\ \/ /\ Goto(p, "fork1")
        /\ fds' = [fds EXCEPT ![p]["pr"] = R(n), ![p]["pw"] = W(n)]
        /\ buf' = [buf EXCEPT ![n] = 0]
        /\ UNCHANGED <<tree, cur, rs, rc, gx>>
     \/ Return(p, pc, fds[p], 1)                     \* pipe() fails

ForkLeft(p) ==
  /\ pc[p] = "fork1"
  /\ \/ Fork(p, Child(tree.left[NodeOf(p)]), "left_child", "fork2")
     \/ Return(p, pc, Closed(fds[p]), 1)             \* fork() fails

ForkRight(p) ==
  /\ pc[p] = "fork2"
  /\ \/ Fork(p, Child(tree.right[NodeOf(p)]), "right_child", "close")
     \/ /\ Goto(p, "reap1")                          \* fork() fails
        /\ fds' = [fds EXCEPT ![p] = Closed(@)]
        /\ UNCHANGED <<tree, cur, rs, buf, rc, gx>>

\* waitpid(pid1, NULL, 0) after the second fork failed.
ReapLeft(p) ==
  LET c == Child(tree.left[NodeOf(p)]) IN
  /\ pc[p] = "reap1" /\ pc[c] = "zombie"
  /\ Return(p, [pc EXCEPT ![c] = "none"], fds[p], 1)

\* Slip: the parent waits with the pipe still open.
ClosePipeNot(p) ==
  /\ pc[p] = "close"
  /\ Goto(p, "wait1")
  /\ UNCHANGED <<tree, cur, rs, fds, buf, rc, gx>>

ClosePipe(p) ==
  /\ pc[p] = "close"
  /\ Goto(p, "wait1")
  /\ fds' = [fds EXCEPT ![p] = Closed(@)]
  /\ UNCHANGED <<tree, cur, rs, buf, rc, gx>>

\* Slip: waitpid with WNOHANG.
WaitLeftNot(p) ==
  /\ pc[p] = "wait1"
  /\ Goto(p, "wait2")
  /\ UNCHANGED <<tree, cur, rs, fds, buf, rc, gx>>

WaitLeft(p) ==
  LET c == Child(tree.left[NodeOf(p)]) IN
  /\ pc[p] = "wait1" /\ pc[c] = "zombie"
  /\ pc' = [pc EXCEPT ![c] = "none", ![p] = "wait2"]
  /\ UNCHANGED <<tree, cur, rs, fds, buf, rc, gx>>

\* Slip: the status of the left operand.
WaitRightOther(p) ==
  LET c == Child(tree.right[NodeOf(p)]) IN
  /\ pc[p] = "wait2" /\ pc[c] = "zombie"
  /\ Return(p, [pc EXCEPT ![c] = "none"], fds[p],
            Decode(rc[Child(tree.left[NodeOf(p)])]))

WaitRight(p) ==
  LET c == Child(tree.right[NodeOf(p)]) IN
  /\ pc[p] = "wait2" /\ pc[c] = "zombie"
  /\ Return(p, [pc EXCEPT ![c] = "none"], fds[p], Decode(rc[c]))

\* left_child: stdout becomes the write end, both pipefd are closed.
LeftChild(p) ==
  /\ pc[p] = "left_child"
  /\ \/ /\ Goto(p, "dispatch")
        /\ fds' = [fds EXCEPT ![p] = Piped("out", "pw", @)]
        /\ UNCHANGED <<tree, cur, rs, buf, rc, gx>>
     \/ Die(p, <<"exit", 1>>) /\ UNCHANGED <<tree, buf, gx>>   \* dup2() fails

\* Slip: pipefd[1] instead of pipefd[0].
RightChildSwapped(p) ==
  /\ pc[p] = "right_child"
  /\ Goto(p, "dispatch")
  /\ fds' = [fds EXCEPT ![p] = Piped("in", "pw", @)]
  /\ UNCHANGED <<tree, cur, rs, buf, rc, gx>>

RightChild(p) ==
  /\ pc[p] = "right_child"
  /\ \/ /\ Goto(p, "dispatch")
        /\ fds' = [fds EXCEPT ![p] = Piped("in", "pr", @)]
        /\ UNCHANGED <<tree, cur, rs, buf, rc, gx>>
     \/ Die(p, <<"exit", 1>>) /\ UNCHANGED <<tree, buf, gx>>

(***************************************************************************)
(* Redirection chains and simple commands.                                 *)
(***************************************************************************)
\* save_original_fds; without the copies nothing is run.  When only the dup
\* of stdin fails the copy of stdout stays open.
SaveFds(p) ==
  /\ pc[p] = "save"
  /\ \/ /\ Goto(p, IF tree.kind[cur[p]] = "command" THEN "run" ELSE "collect")
        /\ fds' = [fds EXCEPT ![p] = Saved(@)]
        /\ UNCHANGED <<tree, cur, rs, buf, rc, gx>>
     \/ Return(p, pc, fds[p], 1)
     \/ /\ "leak" \in Faults
        /\ Return(p, pc, [fds[p] EXCEPT !["leak"] = fds[p]["out"]], 1)

\* process_redir_chain_node: the operand is the left child, else the right.
Operand(n) == IF tree.left[n] # Nil THEN tree.left[n] ELSE tree.right[n]

\* Slip: one node more than redir_nodes[] holds.
RoomOneMore(p) == Len(rs[p]) <= MaxRedirections

\* Another node fits into redir_nodes[].
Room(p) == Len(rs[p]) < MaxRedirections

Collect(p) ==
  LET n == cur[p] IN
  /\ pc[p] = "collect"
  /\ \/ /\ tree.kind[n] \in RedirKind
        /\ Room(p) /\ Operand(n) # Nil
        /\ rs' = [rs EXCEPT ![p] = Append(@, n)]
        /\ cur' = [cur EXCEPT ![p] = Operand(n)]
        /\ UNCHANGED <<tree, pc, fds, buf, rc, gx>>
     \/ /\ tree.kind[n] \in RedirKind
        /\ ~Room(p)
        /\ Finish(p, 1)
     \/ /\ tree.kind[n] \in RedirKind
        /\ Room(p) /\ Operand(n) = Nil
        /\ Finish(p, 2)
     \/ /\ tree.kind[n] = "command"
        /\ Goto(p, "apply")
        /\ UNCHANGED <<tree, cur, rs, fds, buf, rc, gx>>
     \/ /\ tree.kind[n] \notin RedirKind \cup {"command"}
        /\ Finish(p, 3)

\* The redirection applied next: apply_redirection_nodes goes from the end.
NextRedir(p) == rs[p][Len(rs[p])]
Popped(p) == [rs EXCEPT ![p] = SubSeq(@, 1, Len(@) - 1)]

\* handle_redir_in, handle_redir_out, handle_append: open, then dup2.
OpenFile(p, slot, d) ==
  /\ fds' = [fds EXCEPT ![p][slot] = d]
  /\ rs' = Popped(p)
  /\ UNCHANGED <<tree, pc, cur, buf, rc, gx>>

\* handle_heredoc: the pipe its body goes through.
OpenHeredoc(p, h) ==
  /\ Goto(p, "hd_prompt")
  /\ fds' = [fds EXCEPT ![p]["pr"] = R(h), ![p]["pw"] = W(h)]
  /\ buf' = [buf EXCEPT ![h] = 0]
  /\ UNCHANGED <<tree, cur, rs, rc, gx>>

Apply(p) ==
  /\ pc[p] = "apply" /\ rs[p] # <<>>
  /\ LET n == NextRedir(p)
         k == tree.kind[n]
     IN \/ k = "in" /\ tree.file[n] /\ OpenFile(p, "in", File(FileUnits))
        \/ k \in {"out", "append"} /\ tree.file[n] /\ OpenFile(p, "out", File(0))
        \/ k = "heredoc" /\ tree.file[n] /\ OpenHeredoc(p, n)
        \/ tree.file[n] /\ Finish(p, -1)         \* open, pipe or dup2 fails
        \/ /\ ~tree.file[n] /\ k # "heredoc"     \* no file name: ignored
           /\ rs' = Popped(p)
           /\ UNCHANGED <<tree, pc, cur, fds, buf, rc, gx>>
        \/ ~tree.file[n] /\ k = "heredoc" /\ Finish(p, -1)

AllApplied(p) ==
  /\ pc[p] = "apply" /\ rs[p] = <<>>
  /\ Goto(p, "run")
  /\ UNCHANGED <<tree, cur, rs, fds, buf, rc, gx>>

-----------------------------------------------------------------------------
(***************************************************************************)
(* read_heredoc_lines.  The "> " prompt goes to the process's stdout, the  *)
(* lines come from its stdin, whatever redirections and pipes have made of *)
(* them; the body is written to a pipe nobody reads yet.                   *)
(***************************************************************************)
HeredocPrompt(p) ==
  /\ pc[p] = "hd_prompt"
  /\ \/ /\ CanWrite(p)
        /\ buf' = Written(p)
        /\ Goto(p, "hd_read")
        /\ UNCHANGED <<tree, cur, rs, fds, rc, gx>>
     \/ BrokenPipe(p) /\ Killed(p)

HeredocLine(p) ==
  /\ pc[p] = "hd_read"
  /\ CanRead(p)
  /\ buf[NextRedir(p)] < MaxBody
  /\ ReadUnit(p)
  /\ Goto(p, "hd_store")
  /\ UNCHANGED <<tree, cur, rs, rc, gx>>

\* The delimiter or the end of the input ends the body, and so does a
\* get_next_line that fails, at any moment; then the dup2 may fail too.
HeredocEnd(p) ==
  /\ pc[p] = "hd_read"
  /\ \/ /\ CanRead(p)
        /\ buf' = IF fds[p]["in"][1] = "r"
                  THEN [buf EXCEPT ![fds[p]["in"][2]] = @ - 1] ELSE buf
     \/ UNCHANGED buf
  /\ \/ /\ Goto(p, "apply")
        /\ fds' = [fds EXCEPT ![p] = Piped("in", "pr", @)]
        /\ rs' = Popped(p)
        /\ UNCHANGED <<tree, cur, rc, gx>>
     \/ \E lost \in Losses : Leave(p, pc, Restored(Closed(fds[p]), lost), -1)

HeredocStore(p) ==
  LET h == NextRedir(p) IN
  /\ pc[p] = "hd_store"
  /\ buf[h] < PipeCap
  /\ \/ /\ buf' = [buf EXCEPT ![h] = @ + 1]
        /\ Goto(p, "hd_prompt")
        /\ UNCHANGED <<tree, cur, rs, fds, rc, gx>>
     \/ Finish(p, -1)                                \* write() fails

-----------------------------------------------------------------------------
(***************************************************************************)
(* execute_simple_command and execute_command: nothing, a builtin in the   *)
(* process itself, or a fork for a program.                                *)
(***************************************************************************)
RunBuiltin(p) ==
  LET g == tree.prog[cur[p]] IN
  /\ pc[p] = "run"
  /\ \/ g = "empty" /\ Finish(p, 0)
     \/ g = "builtin" /\ \E s \in {0, 1} : Finish(p, s)
     \/ g = "exit" /\ Finish(p, 1)                    \* too many arguments

\* ft_echo writes to stdout, which may be a pipe; a child dies of SIGPIPE.
RunEcho(p) ==
  /\ pc[p] = "run" /\ tree.prog[cur[p]] = "echo"
  /\ \E lost \in Losses : Say(p, Restored(fds[p], lost), 0)

\* ft_exit: with a number, a word that is none (2), or nothing ($?).
RunExit(p) ==
  /\ pc[p] = "run" /\ tree.prog[cur[p]] = "exit"
  /\ \E s \in ExitCodes \cup {2, gx % 256} :
        /\ pc' = [pc EXCEPT ![p] = IF p = Shell THEN "exited" ELSE "zombie"]
        /\ rc' = [rc EXCEPT ![p] = <<"exit", s>>]
  /\ fds' = [fds EXCEPT ![p] = NoFds]
  /\ cur' = [cur EXCEPT ![p] = Nil]
  /\ UNCHANGED <<tree, rs, buf, gx>>

RunProgram(p) ==
  /\ pc[p] = "run"
  /\ tree.prog[cur[p]] \in {"cat", "yes", "true", "missing"}
  /\ \/ Fork(p, Ext(cur[p]), "exec", "waitx")
     \/ Finish(p, 1)                                  \* fork() fails

\* Slip: waits again until the program has called exit.
WaitProgramExited(p) ==
  LET e == Ext(cur[p]) IN
  /\ pc[p] = "waitx" /\ pc[e] = "zombie" /\ rc[e][1] = "exit"
  /\ \E lost \in Losses :
        Return(p, [pc EXCEPT ![e] = "none"], Restored(fds[p], lost), Decode(rc[e]))

\* parent_wait_external.
WaitProgram(p) ==
  LET e == Ext(cur[p]) IN
  /\ pc[p] = "waitx" /\ pc[e] = "zombie"
  /\ \E lost \in Losses :
        Return(p, [pc EXCEPT ![e] = "none"], Restored(fds[p], lost), Decode(rc[e]))

-----------------------------------------------------------------------------
(***************************************************************************)
(* The programs, as the child processes of execute_external_command: exec  *)
(* may fail, then "cat" copies its input, "yes" writes for ever and "true" *)
(* ends at once.                                                           *)
(***************************************************************************)
Exec(e) ==
  LET g == tree.prog[e[2]] IN
  /\ pc[e] = "exec"
  /\ \/ g = "missing" /\ Die(e, <<"exit", 127>>) /\ UNCHANGED <<tree, buf, gx>>
     \/ /\ g # "missing"                              \* execve fails
        /\ \E s \in {1, 126} : Die(e, <<"exit", s>>)
        /\ UNCHANGED <<tree, buf, gx>>
     \/ /\ g # "missing"
        /\ Goto(e, CASE g = "cat" -> "read" [] g = "yes" -> "write"
                     [] OTHER -> "quit")
        /\ UNCHANGED <<tree, cur, rs, fds, buf, rc, gx>>

ProgRead(e) ==
  /\ pc[e] = "read"
  /\ fds[e]["in"] # Tty
  /\ \/ /\ CanRead(e)
        /\ ReadUnit(e)
        /\ Goto(e, "write")
        /\ UNCHANGED <<tree, cur, rs, rc, gx>>
     \/ /\ EndOfFile(e)
        /\ Goto(e, "quit")
        /\ UNCHANGED <<tree, cur, rs, fds, buf, rc, gx>>

\* Somebody types a line, or an end of file, to the program.
Typed(e) ==
  /\ pc[e] = "read"
  /\ fds[e]["in"] = Tty
  /\ \E l \in {"write", "quit"} : Goto(e, l)
  /\ UNCHANGED <<tree, cur, rs, fds, buf, rc, gx>>

ProgWrite(e) ==
  /\ pc[e] = "write"
  /\ \/ /\ CanWrite(e)
        /\ buf' = Written(e)
        /\ Goto(e, IF tree.prog[e[2]] = "yes" THEN "write" ELSE "read")
        /\ UNCHANGED <<tree, cur, rs, fds, rc, gx>>
     \/ BrokenPipe(e) /\ Killed(e)

ProgQuit(e) ==
  /\ pc[e] = "quit"
  /\ \E s \in ExitCodes : Die(e, <<"exit", s>>)
  /\ UNCHANGED <<tree, buf, gx>>

-----------------------------------------------------------------------------
Pipes(p) == \/ MakePipe(p) \/ ForkLeft(p) \/ ForkRight(p) \/ ReapLeft(p)
            \/ ClosePipe(p) \/ WaitLeft(p) \/ WaitRight(p)
            \/ LeftChild(p) \/ RightChild(p)
Chain(p) == SaveFds(p) \/ Collect(p) \/ Apply(p) \/ AllApplied(p)
Heredoc(p) == \/ HeredocPrompt(p) \/ HeredocLine(p) \/ HeredocEnd(p)
              \/ HeredocStore(p)
Run(p) == \/ RunBuiltin(p) \/ RunEcho(p) \/ RunExit(p) \/ RunProgram(p)
          \/ WaitProgram(p)
Interpret(p) == \/ Dispatch(p) \/ NotFound(p) \/ Pipes(p) \/ Chain(p)
                \/ Heredoc(p) \/ Run(p)
Program(e) == Exec(e) \/ ProgRead(e) \/ ProgWrite(e) \/ ProgQuit(e)

Prompt == ReadLine \/ RejectLine \/ EndOfInput

Next ==
  \/ Prompt
  \/ Terminated
  \/ \E p \in Interp : Interpret(p)
  \/ \E e \in Exts : Program(e) \/ Typed(e)

\* p waits for the user: a program, or a here-document's next line.
Asking(p) == pc[p] \in {"read", "hd_read"} /\ fds[p]["in"] = Tty

\* The read of a here-document's line does not block.
Ready(p) == pc[p] = "hd_read" => ~Asking(p) /\ (CanRead(p) \/ EndOfFile(p))

(***************************************************************************)
(* Every process runs as long as it can: the kernel's scheduler.  Nothing  *)
(* is assumed of the user, at the prompt, in a here-document or at a       *)
(* program's terminal input, and no read that blocks is assumed to fail.   *)
(***************************************************************************)
Fairness == /\ \A p \in Interp : WF_vars(Ready(p) /\ Interpret(p))
            /\ \A e \in Exts : WF_vars(Program(e))

Spec == Init /\ [][Next]_vars
FairSpec == Spec /\ Fairness
-----------------------------------------------------------------------------
(***************************************************************************)
(* Properties.                                                             *)
(***************************************************************************)
\* Every variable has its type, and so has each descriptor slot; no chain is
\* longer than redir_nodes[] and no pipe holds more than it can.
TypeOK ==
  /\ tree \in Trees
  /\ pc \in [Proc -> PC]
  /\ cur \in [Proc -> Node \cup {Nil}]
  /\ rs \in [Proc -> RedirNodes]
  /\ fds \in [Proc -> [Slot -> Desc]]
  /\ buf \in [Node -> 0..PipeCap]
  /\ rc \in [Proc -> WaitStatus]
  /\ gx \in -1..255

\* Node m belongs to the subtree of node n.
Below(m, n) == n # Nil /\ n <= m /\ m <= tree.last[n]

(***************************************************************************)
(* The ends of a pipe never meet: outside the process that makes a pipe    *)
(* and the children it has just forked, its write end is only held under   *)
(* the left operand and its read end only under the right one.  A write    *)
(* end left open by a reader or by the shell is how a pipeline hangs       *)
(* (left_child, right_child, execute_pipe_command close six descriptors).  *)
(***************************************************************************)
SeparatedAt(q) ==
  /\ \A n \in Node, s \in {"in", "out", "svin", "svout"} :
       /\ fds[q][s] = W(n) => /\ tree.kind[n] = "pipe"
                              /\ Below(NodeOf(q), tree.left[n])
       /\ fds[q][s] = R(n) /\ tree.kind[n] = "pipe"
                => Below(NodeOf(q), tree.right[n])
  /\ \A s \in {"pr", "pw"} : fds[q][s] # Shut =>
       pc[q] \in SetupPC \cup {"fork1", "fork2", "close",
                               "hd_prompt", "hd_read", "hd_store"}

EndsSeparated == \A q \in Proc : SeparatedAt(q)

(***************************************************************************)
(* As long as anything of the left operand of a pipe is alive somebody     *)
(* holds the write end, so that the right one sees the end of file only    *)
(* after all of the left one; and the read end likewise, so that the left  *)
(* one is only killed by SIGPIPE after all of the right one.  It rests on  *)
(* every interpreter waiting for what it forked before it exits.           *)
(***************************************************************************)
Alive(q) == pc[q] \notin GonePC

NoEarlyEof ==
  \A q \in Proc, n \in Node :
    tree.kind[n] = "pipe" /\ Alive(q) /\ Below(NodeOf(q), tree.left[n])
      => Held(W(n))

NoEarlyBrokenPipe ==
  \A q \in Proc, n \in Node :
    tree.kind[n] = "pipe" /\ Alive(q) /\ Below(NodeOf(q), tree.right[n])
      => Held(R(n))

(***************************************************************************)
(* The prompt comes back to a shell with its own stdin and stdout, no      *)
(* other descriptor, and no process of the line running or left unreaped.  *)
(* What a failing restore_fds or save_original_fds costs is the slot it    *)
(* was about and no other; and no end of a pipe of the line stays open,    *)
(* whichever call has failed.                                              *)
(***************************************************************************)
CleanPrompt ==
  pc[Shell] = "prompt" =>
    /\ \A s \in Slot \ Faults : fds[Shell][s] = ShellFds[s]
    /\ \A n \in Node : tree.kind[n] = "pipe" => ~Held(R(n)) /\ ~Held(W(n))
    /\ \A q \in Proc \ {Shell} : pc[q] = "none" /\ fds[q] = NoFds

\* $? is the status of the last program of the line whenever that program
\* ran, however many processes have passed it on through wait and exit.
StatusOfLast ==
  [][LET e == Ext(tree.last[tree.root]) IN
     pc[Shell] \in InterpPC /\ pc'[Shell] = "prompt" /\ rc[e] # NoStatus
       => gx' = Decode(rc[e])]_vars

(***************************************************************************)
(* Every line brings the prompt back, or the end of the shell, or comes to *)
(* a program or a here-document that waits for the user to type: no        *)
(* process waits for ever in read, write or waitpid.                       *)
(***************************************************************************)
LineEnds == pc[Shell] \notin ShellPC
              ~> pc[Shell] \in ShellPC \/ \E q \in Proc : Asking(q)

(***************************************************************************)
(* Statements of the documents that the code does not keep.                *)
(***************************************************************************)
\* The executor finds no node type it does not expect in a tree built from
\* a line: pipes and redirections can be mixed.
NoInternalError == gx # 3

\* A shell taking the lines of a here-document is never stuck in the write
\* to its own pipe.
HeredocNeverStuck ==
  \A p \in Interp : pc[p] = "hd_store" => buf[NextRedir(p)] < PipeCap
=============================================================================

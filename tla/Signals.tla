------------------------------- MODULE Signals -------------------------------
(***************************************************************************)
(* The executor of Exec under the keys ctrl-C and ctrl-\.  The terminal    *)
(* sends SIGINT or SIGQUIT to every process of the line, since the shell   *)
(* makes no process group; what each process does with it is its           *)
(* disposition, which main sets in the shell, a fork copies,               *)
(* handle_parent_signals changes in whoever waits for a program and        *)
(* handle_child_signals in the program.  signal() restarts the system      *)
(* calls a handler interrupts, so the steps of Exec are as before.         *)
(***************************************************************************)
EXTENDS ExecInv

CONSTANT MaxKeys   \* times a key is pressed during a line (bound)

ASSUME KeysAssumption == MaxKeys \in Nat

SIGINT == 2
SIGQUIT == 3
Signal == {SIGINT, SIGQUIT}

VARIABLES
  disp,   \* process -> signal -> disposition
  pend,   \* process -> the signals it has still to take
  keys,   \* times a key was pressed during this line
  cut     \* an interpreter was killed while it had children

svars == <<vars, disp, pend, keys, cut>>

\* handle_child_signals, handle_parent_signals, and what main sets.
Default == [s \in Signal |-> "default"]

\* Slip: the waiting parent takes the default dispositions too.
IgnoringNot == Default

Ignoring == [s \in Signal |-> "ignore"]
AtStart == [s \in Signal |-> IF s = SIGINT THEN "handler" ELSE "ignore"]

\* Between the two calls of handle_child_signals.
Halfway == [s \in Signal |-> IF s = SIGINT THEN "default" ELSE "ignore"]

SigInit ==
  /\ Init
  /\ disp = [p \in Proc |-> IF p = Shell THEN AtStart ELSE Default]
  /\ pend = [p \in Proc |-> {}]
  /\ keys = 0
  /\ cut = FALSE

-----------------------------------------------------------------------------
\* A step of p in Exec: a process it forks has its dispositions.
Inherit(p) ==
  disp' = [q \in Proc |-> IF pc'[q] \in GonePC THEN Default
                          ELSE IF pc[q] \in GonePC THEN disp[p]
                          ELSE disp[q]]

RunOn(p) == Inherit(p) /\ UNCHANGED <<pend, keys, cut>>

\* One of two calls of signal(): SIGINT gets its new disposition first.
SetSignals(p, d) ==
  /\ \E s \in Signal : /\ disp[p][s] # d[s]
                       /\ s = SIGQUIT => disp[p][SIGINT] = d[SIGINT]
                       /\ disp' = [disp EXCEPT ![p][s] = d[s]]
  /\ UNCHANGED <<vars, pend, keys, cut>>

\* Pending signals are taken first; parent_wait_external ignores both
\* signals between its fork and its waitpid.
SigInterpret(p) ==
  /\ pend[p] = {}
  /\ \/ /\ pc[p] = "waitx" => disp[p] = Ignoring
        /\ Interpret(p)
        /\ RunOn(p)
     \/ pc[p] = "waitx" /\ SetSignals(p, Ignoring)

\* child_exec_external calls handle_child_signals before anything else.
SigProgram(e) ==
  /\ pend[e] = {}
  /\ \/ /\ pc[e] = "exec" => disp[e] = Default
        /\ Program(e)
        /\ RunOn(e)
     \/ pc[e] = "exec" /\ SetSignals(e, Default)

SigTyped(e) == pend[e] = {} /\ Typed(e) /\ RunOn(e)

\* The line in which an interpreter was lost is the last one modelled.
SigPrompt ==
  /\ pend[Shell] = {} /\ ~cut
  /\ Prompt
  /\ Inherit(Shell)
  /\ keys' = 0
  /\ UNCHANGED <<pend, cut>>

SigTerminated ==
  \/ Terminated /\ UNCHANGED <<disp, pend, keys, cut>>
  \/ cut /\ pc[Shell] = "prompt" /\ UNCHANGED svars

-----------------------------------------------------------------------------
\* The user presses a key; a process that ignores the signal never gets it.
Press(s) ==
  /\ pc[Shell] # "exited"
  /\ keys < MaxKeys
  /\ pend' = [p \in Proc |-> IF Alive(p) /\ disp[p][s] # "ignore"
                             THEN pend[p] \cup {s} ELSE pend[p]]
  /\ keys' = keys + 1
  /\ UNCHANGED <<vars, disp, cut>>

\* Children that p has forked and not yet waited for.
Forked(p) == {q \in Proc \ {Shell} :
                /\ p \in Interp /\ q # p /\ pc[q] # "none"
                /\ Below(q[2], NodeOf(p))}

Gone(p, w) ==
  /\ Die(p, w)
  /\ disp' = [disp EXCEPT ![p] = Default]
  /\ pend' = [pend EXCEPT ![p] = {}]
  /\ cut' = (cut \/ Forked(p) # {})
  /\ UNCHANGED <<tree, buf, gx, keys>>

\* Slip: a handler installed without SA_RESTART, so that waitpid returns.
HandleCtrlCNoRestart(p) ==
  /\ SIGINT \in pend[p] /\ disp[p][SIGINT] = "handler"
  /\ CanWrite(p)
  /\ buf' = Written(p)
  /\ pend' = [pend EXCEPT ![p] = @ \ {SIGINT}]
  /\ pc' = [pc EXCEPT ![p] = IF @ = "wait1" THEN "wait2" ELSE @]
  /\ UNCHANGED <<tree, cur, rs, fds, rc, gx, disp, keys, cut>>

\* handle_ctrl_c writes a newline to descriptor 1, which may be a pipe.
HandleCtrlC(p) ==
  /\ SIGINT \in pend[p] /\ disp[p][SIGINT] = "handler"
  /\ \/ /\ CanWrite(p)
        /\ buf' = Written(p)
        /\ pend' = [pend EXCEPT ![p] = @ \ {SIGINT}]
        /\ UNCHANGED <<tree, pc, cur, rs, fds, rc, gx, disp, keys, cut>>
     \/ BrokenPipe(p) /\ Gone(p, <<"sig", SIGPIPE>>)

\* The default disposition of both signals ends the process.
Ended(p, s) ==
  /\ s \in pend[p] /\ disp[p][s] = "default"
  /\ Gone(p, <<"sig", s>>)

Take(p) == HandleCtrlC(p) \/ \E s \in Signal : Ended(p, s)

-----------------------------------------------------------------------------
SigNext ==
  \/ SigPrompt
  \/ SigTerminated
  \/ \E p \in Interp : SigInterpret(p)
  \/ \E e \in Exts : SigProgram(e) \/ SigTyped(e)
  \/ \E s \in Signal : Press(s)
  \/ \E p \in Proc : Take(p)

SigSpec == SigInit /\ [][SigNext]_svars

(***************************************************************************)
(* As in Exec, every process runs as long as it can, and the kernel        *)
(* delivers a pending signal.  The user need press no key and type nothing.*)
(***************************************************************************)
SigFairness == /\ \A p \in Interp : WF_svars(Ready(p) /\ SigInterpret(p))
               /\ \A e \in Exts : WF_svars(SigProgram(e))
               /\ \A p \in Proc : WF_svars(Take(p))

SigFairSpec == SigSpec /\ SigFairness

-----------------------------------------------------------------------------
SigTypeOK ==
  /\ disp \in [Proc -> {AtStart, Ignoring, Halfway, Default}]
  /\ pend \in [Proc -> SUBSET Signal]
  /\ keys \in 0..MaxKeys
  /\ cut \in BOOLEAN

(***************************************************************************)
(* Keys end programs and nothing else: no process that runs the shell's    *)
(* own code has a default disposition, whenever it was forked, and every   *)
(* program that has been started has, whatever its parents ignore.  No     *)
(* signal waits for a process that is gone.                                *)
(***************************************************************************)
DispositionsOK ==
  /\ SigTypeOK
  /\ \A p \in Proc : ~Alive(p) => pend[p] = {}
  /\ \A p \in Interp : Alive(p) => disp[p] \in {AtStart, Ignoring}
  /\ \A e \in Exts : pc[e] \in ExtPC \ {"exec"} => disp[e] = Default

(***************************************************************************)
(* Whatever key is pressed at whatever moment, each process keeps the      *)
(* descriptors its code relies on, and the shell survives; and all of the  *)
(* executor's invariant stands unless the handler's newline has killed an  *)
(* interpreter with SIGPIPE while it had children.                         *)
(***************************************************************************)
IntactUnlessCut == TypeOK /\ Local /\ (cut \/ IInv)

(***************************************************************************)
(* $? after a line whose last program was ended by a key is 128 and the    *)
(* number of the signal, through however many processes it has passed.     *)
(***************************************************************************)
KeyStatus ==
  [][LET e == Ext(tree.last[tree.root]) IN
     pc[Shell] \in InterpPC /\ pc'[Shell] = "prompt" /\ rc[e][1] = "sig"
       => gx' = 128 + rc[e][2]]_svars

(***************************************************************************)
(* The prompt comes back after a key pressed when every program has been   *)
(* started and every interpreter waits, even if the programs would never   *)
(* end by themselves.                                                      *)
(***************************************************************************)
Interrupted ==
  /\ pc[Shell] \in {"wait1", "wait2", "waitx"}
  /\ \A q \in Proc \ {Shell} : Alive(q) =>
       IF q \in Exts THEN pend[q] # {} /\ disp[q] = Default
       ELSE pc[q] \in {"wait1", "wait2"} \/ (pc[q] = "waitx" /\ disp[q] = Ignoring)

InterruptEnds == Interrupted ~> pc[Shell] \in ShellPC

(***************************************************************************)
(* A statement of the documents that the code does not keep: ctrl-C at     *)
(* the prompt gives a new prompt.                                          *)
(***************************************************************************)
NewPrompt == pc[Shell] = "prompt" => disp[Shell][SIGINT] = "handler"
=============================================================================

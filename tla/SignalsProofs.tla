---------------------------- MODULE SignalsProofs ----------------------------
(***************************************************************************)
(* Proofs about Signals: the invariant of the executor stands when keys    *)
(* are pressed, but for one case, dispositions are as they should be, and  *)
(* the status of a program ended by a signal reaches the prompt.           *)
(***************************************************************************)
EXTENDS Signals, ExecProofs

\* The parts of IInv that speak of several processes.
Joint == Forest /\ Order

\* A process's own step of Exec is a step of Exec.
LEMMA OwnStep ==
  ASSUME NEW p \in Interp, NEW e \in Exts,
         Interpret(p) \/ Program(e) \/ Typed(e)
  PROVE  Next
BY DEF Next

\* Nothing happens in Exec.
LEMMA StutterLocal == Local /\ UNCHANGED vars => Local'
<1> SUFFICES ASSUME Local, UNCHANGED vars PROVE Local'
  OBVIOUS
<1>1. Others({})
  BY DEF vars, Others
<1>2. QED
  BY <1>1, FrameLocal

\* Local needs no other process than the one that steps, but at the prompt.
LEMMA StepLocal ==
  ASSUME TypeOK, Local,
         \/ \E p \in Interp : Interpret(p)
         \/ \E e \in Exts : Program(e) \/ Typed(e)
         \/ UNCHANGED vars
  PROVE  TypeOK' /\ Local'
<1>1. TypeOK'
  BY TypeStep DEF Next
<1>2. ASSUME NEW p \in Interp, Interpret(p) PROVE Local'
  BY <1>2, DispatchLocal, NotFoundLocal, PipesLocal, ChainLocal, HeredocLocal, RunLocal
  DEF Interpret
<1>3. ASSUME NEW e \in Exts, Program(e) \/ Typed(e) PROVE Local'
  BY <1>3, ProgramLocal
<1>4. QED
  BY <1>1, <1>2, <1>3, StutterLocal

\* A whole step of Exec keeps the whole invariant.
LEMMA StepJoint ==
  ASSUME IInv, [Next]_vars
  PROVE  IInv'
BY TypeStep, LocalStep, ForestStep, OrderStep DEF IInv, Order

\* The shell and the other interpreters have never the default dispositions.
LEMMA Settings ==
  /\ AtStart # Default /\ Ignoring # Default
  /\ AtStart[SIGINT] # "default" /\ AtStart[SIGQUIT] # "default"
  /\ Ignoring[SIGINT] # "default" /\ Ignoring[SIGQUIT] # "default"
<1>1. /\ AtStart[SIGINT] = "handler" /\ AtStart[SIGQUIT] = "ignore"
      /\ Ignoring[SIGINT] = "ignore" /\ Ignoring[SIGQUIT] = "ignore"
      /\ Default[SIGINT] = "default" /\ Default[SIGQUIT] = "default"
  BY DEF AtStart, Ignoring, Default, Signal, SIGINT, SIGQUIT
<1>2. QED
  BY <1>1

\* The calls of signal() in an interpreter: SIGQUIT is ignored already.
LEMMA SetIgnoring ==
  ASSUME SigTypeOK, NEW p \in Proc, disp[p] \in {AtStart, Ignoring}, SetSignals(p, Ignoring)
  PROVE  disp' = [disp EXCEPT ![p] = Ignoring]
<1>1. PICK s \in Signal : disp[p][s] # Ignoring[s] /\ disp' = [disp EXCEPT ![p][s] = Ignoring[s]]
  BY DEF SetSignals
<1>2. Ignoring = [AtStart EXCEPT ![SIGINT] = "ignore"] /\ Ignoring[SIGINT] = "ignore"
  BY DEF AtStart, Ignoring, Signal, SIGINT, SIGQUIT
<1>3. disp[p] = AtStart /\ s = SIGINT
  BY <1>1, Settings DEF AtStart, Ignoring, Signal, SIGINT, SIGQUIT
<1>4. disp' = [disp EXCEPT ![p] = [disp[p] EXCEPT ![s] = Ignoring[s]]]
  BY <1>1 DEF SigTypeOK
<1>5. QED
  BY <1>2, <1>3, <1>4

\* The calls of signal() in a program about to be executed.
LEMMA SetDefault ==
  ASSUME SigTypeOK, NEW p \in Proc, SetSignals(p, Default)
  PROVE  \E d \in {Halfway, Default} : disp' = [disp EXCEPT ![p] = d]
<1>1. PICK s \in Signal : /\ disp[p][s] # Default[s]
                          /\ s = SIGQUIT => disp[p][SIGINT] = Default[SIGINT]
                          /\ disp' = [disp EXCEPT ![p][s] = Default[s]]
  BY DEF SetSignals
<1> DEFINE d == [disp[p] EXCEPT ![s] = Default[s]]
<1>2. disp' = [disp EXCEPT ![p] = d] /\ disp[p] \in {AtStart, Ignoring, Halfway, Default}
  BY <1>1 DEF SigTypeOK
<1>3. d \in {Halfway, Default}
  <2>1. /\ SIGINT # SIGQUIT /\ Signal = {SIGINT, SIGQUIT} /\ s \in {SIGINT, SIGQUIT}
        /\ disp[p] \in [Signal -> {"handler", "ignore", "default"}]
        /\ Halfway \in [Signal -> {"handler", "ignore", "default"}]
        /\ Default \in [Signal -> {"handler", "ignore", "default"}]
        /\ disp[p][SIGQUIT] \in {"ignore", "default"}
    BY <1>2 DEF AtStart, Ignoring, Halfway, Default, Signal, SIGINT, SIGQUIT
  <2>2. /\ Halfway[SIGINT] = "default" /\ Halfway[SIGQUIT] = "ignore"
        /\ Default[SIGINT] = "default" /\ Default[SIGQUIT] = "default"
    BY DEF Halfway, Default, Signal, SIGINT, SIGQUIT
  <2>3. /\ d \in [Signal -> {"handler", "ignore", "default"}]
        /\ d[SIGINT] = "default" /\ d[SIGQUIT] \in {"ignore", "default"}
    BY <1>1, <2>1, <2>2
  <2> HIDE DEF d
  <2>4. CASE d[SIGQUIT] = "ignore"
    <3>1. d = Halfway
      BY <2>1, <2>2, <2>3, <2>4
    <3>2. QED
      BY <3>1
  <2>5. CASE d[SIGQUIT] = "default"
    <3>1. d = Default
      BY <2>1, <2>2, <2>3, <2>5
    <3>2. QED
      BY <3>1
  <2>6. QED
    BY <2>3, <2>4, <2>5
<1> HIDE DEF d
<1>4. QED
  BY <1>2, <1>3

(***************************************************************************)
(* A process that has no children ends without harm to the others.         *)
(***************************************************************************)
LEMMA ChildlessDeath ==
  ASSUME IInv, NEW p \in Proc \ {Shell}, NEW w \in WaitStatus, Alive(p),
         Die(p, w), UNCHANGED <<tree, buf, gx>>, Forked(p) = {}
  PROVE  IInv'
<1>1. /\ TypeOK /\ Local /\ Forest /\ Order /\ TypeOK' /\ p \in Proc
  BY DieType DEF IInv, Order
<1>2. Local'
  BY <1>1, KilledLocal
<1>3. /\ Others({p}) /\ Others({p, p}) /\ pc'[p] = "zombie"
      /\ \A q \in Proc \ {p} : pc'[q] = pc[q] /\ cur'[q] = cur[q]
      /\ \A q \in Proc : NodeOf(q)' = NodeOf(q)
  BY <1>1 DEF Die, Others, TypeOK, NodeOf
<1>4. Forest'
  <2>1. \A q \in Proc \ {Shell} : pc'[q] # "none" => Below(q[2], tree.root)
    BY <1>1, <1>3 DEF Forest, Alive, GonePC
  <2>2. ASSUME NEW r \in Interp, NEW q \in Proc \ {Shell}, r # q,
               pc'[r] # "none", pc'[q] # "none", Below(q[2], NodeOf(r))
        PROVE  Busy(r, q[2])' /\ (pc'[r] = "waitx" => q = Ext(cur'[r]))
    <3>1. r \in Proc /\ pc[r] # "none" /\ pc[q] # "none"
      BY <1>3, <2>2, ProcTypes DEF Alive, GonePC
    <3>2. r # p
      BY <2>2, <3>1 DEF Forked
    <3>3. Busy(r, q[2]) /\ (pc[r] = "waitx" => q = Ext(cur[r]))
      BY <1>1, <2>2, <3>1 DEF Forest
    <3>4. QED
      BY <1>3, <3>1, <3>2, <3>3 DEF Busy, Below, Others
  <2>3. QED
    BY <1>3, <2>1, <2>2, ForestNext DEF Others
<1>5. Order'
  BY <1>1, <1>3, <1>4, OrderEnd
<1>6. QED
  BY <1>1, <1>2, <1>4, <1>5 DEF IInv, Order
\* The handler's newline changes nothing but a pipe.
LEMMA NewlineStep ==
  ASSUME TypeOK, Local, NEW p \in Proc, CanWrite(p), buf' = Written(p),
         UNCHANGED <<tree, pc, cur, rs, fds, rc, gx>>
  PROVE  /\ TypeOK' /\ Local'
         /\ IInv => IInv'
<1>1. TypeOK'
  BY WriteType DEF TypeOK
<1>2. Others({}) /\ tree' = tree /\ pc' = pc /\ cur' = cur
  BY DEF Others
<1>3. Local'
  BY ONLY <1>2, Local, FrameLocal
<1>4. ASSUME IInv PROVE IInv'
  <2>1. Forest'
    BY <1>2, <1>4 DEF IInv, Forest, Below, Busy, NodeOf
  <2>2. Ends' /\ Chains'
    BY <1>2, <1>4, FrameEnds, FrameChains DEF IInv
  <2>3. Operands'
    BY <1>2, <1>4 DEF IInv, Operands, PipeOperand, Below, Alive, NodeOf
  <2>4. QED
    BY <1>1, <1>3, <2>1, <2>2, <2>3 DEF IInv
<1>5. QED
  BY <1>1, <1>3, <1>4

-----------------------------------------------------------------------------
\* The dispositions after a step of Exec by p.
LEMMA InheritType ==
  ASSUME SigTypeOK, NEW p \in Proc, Inherit(p)
  PROVE  disp' \in [Proc -> {AtStart, Ignoring, Halfway, Default}]
BY DEF SigTypeOK, Inherit

\* A step of an interpreter keeps DispositionsOK.
LEMMA InterpretDispositions ==
  ASSUME TypeOK, Local, DispositionsOK, NEW p \in Interp, SigInterpret(p)
  PROVE  DispositionsOK'
<1>1. p \in Proc /\ pend[p] = {}
  BY Acting DEF SigInterpret
<1>2. CASE Interpret(p) /\ RunOn(p)
  <2>1. Inherit(p) /\ Alive(p) /\ OthersOf(p) /\ disp[p] \in {AtStart, Ignoring}
    BY <1>2, InterpretOthers DEF RunOn, DispositionsOK
  <2>2. SigTypeOK'
    BY <1>1, <1>2, <2>1, InheritType DEF RunOn, DispositionsOK, SigTypeOK
  <2>3. ASSUME NEW q \in Proc, ~Alive(q)' PROVE pend'[q] = {}
    <3>1. ~Alive(q) \/ q = p
      BY <2>1, <2>3 DEF OthersOf, Alive, GonePC
    <3>2. QED
      BY <1>1, <1>2, <3>1 DEF RunOn, DispositionsOK
  <2>4. ASSUME NEW q \in Interp, Alive(q)' PROVE disp'[q] \in {AtStart, Ignoring}
    BY <2>1, <2>4, ProcTypes DEF Inherit, DispositionsOK, Alive
  <2>5. ASSUME NEW e \in Exts, pc'[e] \in ExtPC \ {"exec"} PROVE disp'[e] = Default
    <3>1. e \in Proc /\ e # p /\ e \notin Children /\ "none" \notin ExtPC
      BY ProcTypes DEF ExtPC, Interp
    <3>2. pc'[e] = pc[e] /\ pc[e] \notin GonePC
      BY <2>1, <2>5, <3>1 DEF OthersOf, ExtPC, GonePC
    <3>3. QED
      BY <2>1, <2>5, <3>1, <3>2 DEF Inherit, DispositionsOK
  <2>6. QED
    BY <2>2, <2>3, <2>4, <2>5 DEF DispositionsOK
<1>3. CASE pc[p] = "waitx" /\ SetSignals(p, Ignoring)
  <2>1. pc' = pc /\ pend' = pend /\ keys' = keys /\ cut' = cut
        /\ Alive(p)
    BY <1>3 DEF SetSignals, vars, Alive, GonePC
  <2>2. p \notin Exts
    BY ProcTypes
  <2>3. disp' = [disp EXCEPT ![p] = Ignoring]
    BY <1>1, <1>3, <2>1, SetIgnoring DEF DispositionsOK
  <2>4. QED
    BY <1>1, <2>1, <2>2, <2>3, Settings, ProcTypes DEF DispositionsOK, SigTypeOK, Alive
<1>4. QED
  BY <1>2, <1>3 DEF SigInterpret

\* A step of a program keeps DispositionsOK.
LEMMA ProgramDispositions ==
  ASSUME TypeOK, DispositionsOK, NEW e \in Exts, SigProgram(e) \/ SigTyped(e)
  PROVE  DispositionsOK'
<1>1. e \in Proc /\ e \notin Interp /\ pend[e] = {}
  BY ProcTypes DEF SigProgram, SigTyped
<1>2. CASE (Program(e) \/ Typed(e)) /\ RunOn(e) /\ (pc[e] = "exec" => disp[e] = Default)
  <2>1. Inherit(e) /\ Alive(e) /\ \A q \in Proc \ {e} : pc'[q] = pc[q]
    BY <1>2, ProgramOthers DEF RunOn
  <2>2. SigTypeOK'
    BY <1>1, <1>2, <2>1, InheritType DEF RunOn, DispositionsOK, SigTypeOK
  <2>3. ASSUME NEW q \in Proc, ~Alive(q)' PROVE pend'[q] = {}
    <3>1. ~Alive(q) \/ q = e
      BY <2>1, <2>3 DEF Alive
    <3>2. QED
      BY <1>1, <1>2, <3>1 DEF RunOn, DispositionsOK
  <2>4. ASSUME NEW q \in Interp, Alive(q)' PROVE disp'[q] \in {AtStart, Ignoring}
    BY <1>1, <2>1, <2>4, ProcTypes DEF Inherit, DispositionsOK, Alive
  <2>5. ASSUME NEW c \in Exts, pc'[c] \in ExtPC \ {"exec"} PROVE disp'[c] = Default
    <3>1. c \in Proc /\ pc[c] \notin GonePC /\ pc'[c] \notin GonePC
      BY <2>1, <2>5, ProcTypes DEF ExtPC, GonePC, Alive
    <3>2. disp[c] = Default
      <4>1. pc[c] \in ExtPC \/ c = e
        BY <2>1, <2>5, <3>1
      <4>2. pc[e] \in ExtPC
        BY <1>2 DEF Program, Exec, ProgRead, ProgWrite, ProgQuit, Typed, ExtPC
      <4>3. QED
        BY <1>2, <2>1, <2>5, <3>1, <4>1, <4>2 DEF DispositionsOK
    <3>3. QED
      BY <2>1, <3>1, <3>2 DEF Inherit
  <2>6. QED
    BY <2>2, <2>3, <2>4, <2>5 DEF DispositionsOK
<1>3. CASE pc[e] = "exec" /\ SetSignals(e, Default)
  <2>1. pc' = pc /\ pend' = pend /\ keys' = keys /\ cut' = cut
    BY <1>3 DEF SetSignals, vars
  <2>2. PICK d \in {Halfway, Default} : disp' = [disp EXCEPT ![e] = d]
    BY <1>1, <1>3, SetDefault DEF DispositionsOK
  <2>3. SigTypeOK'
    BY <2>1, <2>2 DEF DispositionsOK, SigTypeOK
  <2>4. \A q \in Proc \ {e} : disp'[q] = disp[q]
    BY <2>2 DEF DispositionsOK, SigTypeOK
  <2>5. QED
    BY <1>1, <1>3, <2>1, <2>3, <2>4, ProcTypes DEF DispositionsOK, Alive
<1>4. QED
  BY <1>2, <1>3 DEF SigProgram, SigTyped, Typed

\* A process that dies keeps DispositionsOK.
LEMMA GoneDispositions ==
  ASSUME TypeOK, DispositionsOK, NEW p \in Proc, NEW w, Gone(p, w)
  PROVE  DispositionsOK'
<1>1. /\ pc' = [pc EXCEPT ![p] = "zombie"] /\ pc \in [Proc -> PC]
      /\ disp' = [disp EXCEPT ![p] = Default]
      /\ pend' = [pend EXCEPT ![p] = {}]
      /\ keys' = keys /\ cut' \in BOOLEAN
  BY DEF Gone, Die, TypeOK, DispositionsOK, SigTypeOK
<1>2. "zombie" \in GonePC /\ "zombie" \notin ExtPC
  BY DEF GonePC, ExtPC
<1>3. QED
  BY <1>1, <1>2, ProcTypes DEF DispositionsOK, SigTypeOK, Alive

\* A process other than the shell dies: the shell's children are still there
\* to wait for, and unless p had children of its own all stands.
LEMMA GoneIntact ==
  ASSUME IntactUnlessCut, SigTypeOK, NEW p \in Proc \ {Shell}, NEW w \in WaitStatus,
         Alive(p), Gone(p, w)
  PROVE  IntactUnlessCut'
<1>1. Die(p, w) /\ UNCHANGED <<tree, buf, gx>> /\ cut' = (cut \/ Forked(p) # {})
  BY DEF Gone
<1>2. TypeOK' /\ Local'
  BY <1>1, DieType, KilledLocal DEF IntactUnlessCut
<1>3. ~cut' => IInv'
  BY <1>1, ChildlessDeath DEF IntactUnlessCut
<1>4. QED
  BY <1>1, <1>2, <1>3 DEF IntactUnlessCut, SigTypeOK

\* The shell itself is never in the way of a default disposition.
LEMMA ShellDisposed ==
  ASSUME TypeOK, Local, DispositionsOK, NEW s \in Signal
  PROVE  disp[Shell][s] # "default"
<1>1. Shell \in Proc /\ Shell \in Interp /\ pc[Shell] \in Labels(Shell)
  BY ProcTypes DEF Local, LocalOf, ShapeOf
<1>2. Alive(Shell)
  BY <1>1 DEF Labels, InterpPC, ShellPC, Alive, GonePC
<1>3. disp[Shell] \in {AtStart, Ignoring}
  BY <1>1, <1>2 DEF DispositionsOK, SigTypeOK
<1>4. QED
  BY <1>3, Settings DEF Signal

\* Taking a signal keeps both invariants.
LEMMA TakeStep ==
  ASSUME DispositionsOK, IntactUnlessCut, NEW p \in Proc, Take(p)
  PROVE  DispositionsOK' /\ IntactUnlessCut'
<1>1. /\ TypeOK /\ Local /\ SigTypeOK
      /\ pend[p] # {} => Alive(p)
  BY DEF DispositionsOK, IntactUnlessCut
<1>2. CASE \E s \in Signal : Ended(p, s)
  <2>1. PICK s \in Signal : Ended(p, s)
    BY <1>2
  <2>2. p # Shell /\ Alive(p) /\ Gone(p, <<"sig", s>>)
    BY <1>1, <2>1, ShellDisposed DEF Ended
  <2>3. <<"sig", s>> \in WaitStatus
    BY DEF WaitStatus, Signal, SIGINT, SIGQUIT
  <2>4. QED
    BY <1>1, <2>2, <2>3, GoneDispositions, GoneIntact
<1>3. CASE BrokenPipe(p) /\ Gone(p, <<"sig", SIGPIPE>>) /\ SIGINT \in pend[p]
  <2>1. p # Shell /\ Alive(p)
    BY <1>1, <1>3, ShellUnbroken
  <2>2. <<"sig", SIGPIPE>> \in WaitStatus
    BY DEF WaitStatus, SIGPIPE
  <2>3. QED
    BY <1>1, <1>3, <2>1, <2>2, GoneDispositions, GoneIntact
<1>4. CASE /\ CanWrite(p)
           /\ buf' = Written(p)
           /\ pend' = [pend EXCEPT ![p] = @ \ {SIGINT}]
           /\ UNCHANGED <<tree, pc, cur, rs, fds, rc, gx, disp, keys, cut>>
  <2>1. TypeOK' /\ Local' /\ (IInv => IInv')
    BY <1>1, <1>4, NewlineStep
  <2>2. IntactUnlessCut'
    BY <1>4, <2>1 DEF IntactUnlessCut
  <2>3. DispositionsOK'
    BY <1>4 DEF DispositionsOK, SigTypeOK, Alive
  <2>4. QED
    BY <2>2, <2>3
<1>5. QED
  BY <1>2, <1>3, <1>4 DEF Take, HandleCtrlC

\* The prompt's steps keep both invariants.
LEMMA SigPromptStep ==
  ASSUME DispositionsOK, IntactUnlessCut, SigPrompt
  PROVE  DispositionsOK' /\ IntactUnlessCut'
<1>1. IInv /\ Prompt /\ Shell \in Proc /\ Shell \in Interp /\ pc \in [Proc -> PC]
  BY ProcTypes DEF SigPrompt, IntactUnlessCut, TypeOK
<1>2. IInv'
  BY <1>1, StepJoint DEF Next
<1>3. /\ \A q \in Proc \ {Shell} : pc'[q] = pc[q]
      /\ pc[Shell] = "prompt" /\ Alive(Shell) /\ Alive(Shell)'
  BY <1>1 DEF Prompt, ReadLine, RejectLine, EndOfInput, Goto, Alive, GonePC
<1>4. SigTypeOK'
  <2>1. keys' = 0 /\ cut' = cut /\ pend' = pend /\ Inherit(Shell)
    BY DEF SigPrompt
  <2>2. QED
    BY <1>1, <2>1, InheritType, KeysAssumption DEF DispositionsOK, SigTypeOK
<1>5. DispositionsOK'
  BY <1>1, <1>3, <1>4, ProcTypes DEF SigPrompt, Inherit, DispositionsOK, Alive, ExtPC, GonePC
<1>6. QED
  BY <1>2, <1>5 DEF IntactUnlessCut, IInv

\* Every step keeps both invariants.
LEMMA SigStep ==
  DispositionsOK /\ IntactUnlessCut /\ [SigNext]_svars
    => DispositionsOK' /\ IntactUnlessCut'
<1> SUFFICES ASSUME DispositionsOK, IntactUnlessCut, [SigNext]_svars
             PROVE  DispositionsOK' /\ IntactUnlessCut'
  OBVIOUS
<1>0. TypeOK /\ Local
  BY DEF IntactUnlessCut
<1>1. ASSUME cut' = cut,
             \/ \E p \in Interp : Interpret(p)
             \/ \E e \in Exts : Program(e) \/ Typed(e)
             \/ UNCHANGED vars
      PROVE  IntactUnlessCut'
  <2>1. [Next]_vars
    BY <1>1 DEF Next
  <2>2. QED
    BY <1>0, <1>1, <2>1, StepLocal, StepJoint DEF IntactUnlessCut
<1>2. CASE UNCHANGED svars \/ SigTerminated
  <2>1. UNCHANGED vars /\ UNCHANGED <<disp, pend, keys, cut>>
    BY <1>2 DEF SigTerminated, Terminated, svars
  <2>2. QED
    BY <1>1, <2>1 DEF DispositionsOK, SigTypeOK, Alive, vars
<1>3. CASE SigPrompt
  BY <1>3, SigPromptStep
<1>4. ASSUME NEW p \in Interp, SigInterpret(p)
      PROVE  DispositionsOK' /\ IntactUnlessCut'
  <2>1. cut' = cut /\ (Interpret(p) \/ UNCHANGED vars)
    BY <1>4 DEF SigInterpret, RunOn, SetSignals
  <2>2. QED
    BY <1>0, <1>1, <1>4, <2>1, InterpretDispositions
<1>5. ASSUME NEW e \in Exts, SigProgram(e) \/ SigTyped(e)
      PROVE  DispositionsOK' /\ IntactUnlessCut'
  <2>1. cut' = cut /\ (Program(e) \/ Typed(e) \/ UNCHANGED vars)
    BY <1>5 DEF SigProgram, SigTyped, RunOn, SetSignals
  <2>2. QED
    BY <1>0, <1>1, <1>5, <2>1, ProgramDispositions
<1>6. ASSUME NEW s \in Signal, Press(s)
      PROVE  DispositionsOK' /\ IntactUnlessCut'
  <2>1. UNCHANGED vars /\ cut' = cut /\ disp' = disp /\ keys' = keys + 1 /\ keys < MaxKeys
        /\ pend' = [p \in Proc |-> IF Alive(p) /\ disp[p][s] # "ignore"
                                   THEN pend[p] \cup {s} ELSE pend[p]]
    BY <1>6 DEF Press
  <2>2. keys' \in 0..MaxKeys
    BY <2>1, KeysAssumption DEF DispositionsOK, SigTypeOK
  <2>3. SigTypeOK'
    BY <2>1, <2>2 DEF DispositionsOK, SigTypeOK
  <2>4. DispositionsOK'
    BY <2>1, <2>3 DEF DispositionsOK, Alive, vars
  <2>5. QED
    BY <1>1, <2>1, <2>4
<1>7. ASSUME NEW p \in Proc, Take(p)
      PROVE  DispositionsOK' /\ IntactUnlessCut'
  BY <1>7, TakeStep
<1>8. QED
  BY <1>2, <1>3, <1>4, <1>5, <1>6, <1>7 DEF SigNext

LEMMA SigStart == SigInit => DispositionsOK /\ IntactUnlessCut
<1> SUFFICES ASSUME SigInit PROVE DispositionsOK /\ IntactUnlessCut
  OBVIOUS
<1>1. Init => Idle
  BY ProcTypes DEF Init, Idle
<1>2. IInv
  BY <1>1, ProcInit, IdleOrder DEF SigInit, IInv, Order
<1>3. SigTypeOK
  <2>1. /\ \A p \in Proc : disp[p] \in {AtStart, Default}
        /\ disp = [p \in Proc |-> disp[p]]
        /\ pend \in [Proc -> SUBSET Signal] /\ keys = 0 /\ cut = FALSE
    BY DEF SigInit
  <2>2. disp \in [Proc -> {AtStart, Ignoring, Halfway, Default}]
    BY <2>1
  <2>3. keys \in 0..MaxKeys
    BY <2>1, KeysAssumption
  <2>4. cut \in BOOLEAN
    BY DEF SigInit
  <2>5. QED
    BY <2>1, <2>2, <2>3, <2>4 DEF SigTypeOK
<1>4. pc[Shell] = "prompt" /\ \A q \in Proc \ {Shell} : pc[q] = "none"
  BY ProcTypes DEF SigInit, Init
<1>5. DispositionsOK
  BY <1>3, <1>4, Settings, ProcTypes DEF SigInit, DispositionsOK, Alive, GonePC, ExtPC
<1>6. QED
  BY <1>2, <1>5 DEF IntactUnlessCut, IInv

(***************************************************************************)
(* Whatever keys are pressed, only programs have default dispositions, and *)
(* all of them have once they run.                                         *)
(***************************************************************************)
THEOREM OnlyProgramsDie == SigSpec => []DispositionsOK
<1>1. SigSpec => [](DispositionsOK /\ IntactUnlessCut)
  BY SigStart, SigStep, PTL DEF SigSpec
<1>2. QED
  BY <1>1, PTL

(***************************************************************************)
(* Whatever keys are pressed, in lines of any size, the executor's         *)
(* invariant stands unless an interpreter was killed over its children.    *)
(***************************************************************************)
THEOREM KeysHarmless == SigSpec => []IntactUnlessCut
<1>1. SigSpec => [](DispositionsOK /\ IntactUnlessCut)
  BY SigStart, SigStep, PTL DEF SigSpec
<1>2. QED
  BY <1>1, PTL

-----------------------------------------------------------------------------
(***************************************************************************)
(* The status of a line under keys.  What Carried needs besides the steps  *)
(* of Exec is that the handler's newline never kills an interpreter that   *)
(* passes the status on: such an interpreter writes to no pipe, because a  *)
(* pipe that somebody writes to has a right operand (Whole), and what is   *)
(* under the left one is not OnLast.                                       *)
(***************************************************************************)
Proper(d) == \A n \in Node : d = W(n) /\ tree.kind[n] = "pipe" => tree.right[n] # Nil
ProperFds(f) == \A s \in Slot : Proper(f[s])

LEMMA ProperFacts ==
  /\ Proper(Tty) /\ Proper(Shut) /\ (\A k : Proper(File(k))) /\ (\A n : Proper(R(n)))
  /\ ProperFds(NoFds) /\ ProperFds(ShellFds)
  /\ \A f \in [Slot -> Desc] : ProperFds(f) =>
       /\ ProperFds(Saved(f)) /\ ProperFds(Closed(f))
       /\ \A lost : ProperFds(Restored(f, lost))
       /\ ProperFds(Piped("in", "pr", f)) /\ ProperFds(Piped("out", "pw", f))
<1>1. /\ Proper(Tty) /\ Proper(Shut) /\ (\A k : Proper(File(k))) /\ (\A n : Proper(R(n)))
  BY DEF Proper, Tty, Shut, File, R, W
<1> HIDE DEF Proper
<1>2. ProperFds(NoFds) /\ ProperFds(ShellFds)
  BY <1>1 DEF ProperFds, NoFds, ShellFds
<1>3. ASSUME NEW f \in [Slot -> Desc], ProperFds(f)
      PROVE  /\ ProperFds(Saved(f)) /\ ProperFds(Closed(f))
             /\ \A lost : ProperFds(Restored(f, lost))
             /\ ProperFds(Piped("in", "pr", f)) /\ ProperFds(Piped("out", "pw", f))
  BY <1>1, <1>3 DEF ProperFds, Saved, Restored, Closed, Piped, Slot
<1>4. QED
  BY <1>1, <1>2, <1>3

\* Only the table that changes needs to be looked at.
LEMMA FrameWhole ==
  ASSUME Whole, NEW p \in Proc, tree' = tree, \A q \in Proc \ {p} : fds'[q] = fds[q],
         ProperFds(fds'[p])
  PROVE  Whole'
<1>1. ASSUME NEW q \in Proc, NEW s \in Slot, NEW n \in Node,
             fds'[q][s] = W(n), tree.kind[n] = "pipe"
      PROVE  tree.right[n] # Nil
  BY <1>1 DEF Whole, ProperFds, Proper
<1>2. QED
  BY <1>1 DEF Whole

LEMMA SameWhole == Whole /\ tree' = tree /\ fds' = fds => Whole'
BY DEF Whole

\* The process that steps, and its own table.
LEMMA ActingWhole ==
  ASSUME TypeOK, Whole, NEW p \in Proc
  PROVE  /\ fds \in [Proc -> [Slot -> Desc]] /\ fds[p] \in [Slot -> Desc]
         /\ ProperFds(fds[p])
BY DEF TypeOK, Whole, ProperFds, Proper

\* A return from execute_ast.
LEMMA LeaveWhole ==
  ASSUME TypeOK, Whole, NEW p \in Interp, NEW pcs, NEW f, NEW s, Leave(p, pcs, f, s),
         ProperFds(f)
  PROVE  Whole'
<1>1. p \in Proc
  BY ProcTypes
<1>2. /\ tree' = tree /\ \A q \in Proc \ {p} : fds'[q] = fds[q]
      /\ fds'[p] \in {f, NoFds}
  BY <1>1, ActingWhole DEF Leave
<1>3. ProperFds(fds'[p])
  BY <1>2, ProperFacts
<1>4. QED
  BY ONLY Whole, <1>1, <1>2, <1>3, FrameWhole

\* A process that dies.
LEMMA DieWhole ==
  ASSUME TypeOK, Whole, NEW p \in Proc, NEW w, Die(p, w), tree' = tree
  PROVE  Whole'
<1>1. /\ \A q \in Proc \ {p} : fds'[q] = fds[q]
      /\ fds'[p] = NoFds
  BY ActingWhole DEF Die
<1>2. ProperFds(fds'[p])
  BY <1>1, ProperFacts
<1>3. QED
  BY <1>1, <1>2, FrameWhole

\* A fork.
LEMMA ForkWhole ==
  ASSUME TypeOK, Whole, NEW p \in Proc, NEW c \in Proc, NEW l, NEW m, Fork(p, c, l, m)
  PROVE  Whole'
<1>1. /\ tree' = tree /\ \A q \in Proc \ {c} : fds'[q] = fds[q]
      /\ fds'[c] = fds[p]
  BY ActingWhole DEF Fork
<1>2. ProperFds(fds'[c])
  BY <1>1, ActingWhole
<1>3. QED
  BY <1>1, <1>2, FrameWhole

\* A step that gives p another table.
LEMMA SetWhole ==
  ASSUME TypeOK, Whole, NEW p \in Proc, NEW f, fds' = [fds EXCEPT ![p] = f],
         ProperFds(f), tree' = tree
  PROVE  Whole'
<1>1. /\ \A q \in Proc \ {p} : fds'[q] = fds[q]
      /\ fds'[p] = f
  BY ActingWhole
<1>2. QED
  BY <1>1, FrameWhole

\* The steps of execute_pipe_command keep Whole.
LEMMA PipesWhole ==
  ASSUME TypeOK, Local, Whole, NEW p \in Interp, Pipes(p)
  PROVE  Whole'
<1> DEFINE n == NodeOf(p)
           g == [fds[p] EXCEPT !["pr"] = R(n), !["pw"] = W(n)]
<1>1. /\ p \in Proc /\ fds[p] \in [Slot -> Desc] /\ ProperFds(fds[p])
      /\ fds \in [Proc -> [Slot -> Desc]] /\ LocalOf(p) /\ n \in Node
  BY Acting, ActingWhole
<1>2. /\ ProperFds(Closed(fds[p])) /\ ProperFds(Piped("in", "pr", fds[p]))
      /\ ProperFds(Piped("out", "pw", fds[p]))
  BY <1>1, ProperFacts
<1>3. ASSUME NEW pcs, NEW s,
             \/ Return(p, pcs, fds[p], s) \/ Return(p, pcs, Closed(fds[p]), s)
      PROVE  Whole'
  BY <1>1, <1>2, <1>3, LeaveWhole DEF Return
<1>4. CASE MakePipe(p)
  <2>1. tree.right[n] # Nil
    BY <1>1, <1>4 DEF MakePipe, LocalOf, ShapeOf, PipePC
  <2>2. Proper(W(n))
    BY <2>1 DEF Proper, W
  <2>3. ProperFds(g)
    BY <1>1, <2>2, ProperFacts DEF ProperFds, Slot
  <2>4. CASE fds' = [fds EXCEPT ![p]["pr"] = R(n), ![p]["pw"] = W(n)]
    <3>1. fds' = [fds EXCEPT ![p] = g]
      BY <1>1, <2>4
    <3>2. QED
      BY <1>1, <1>4, <2>3, <3>1, SetWhole DEF MakePipe, Return, Leave
  <2>5. QED
    BY <1>3, <1>4, <2>4 DEF MakePipe
<1>5. CASE ForkLeft(p) \/ ForkRight(p)
  <2>1. pc[p] \in PipePC
    BY <1>5 DEF ForkLeft, ForkRight, PipePC
  <2>2. Child(tree.left[n]) \in Proc /\ Child(tree.right[n]) \in Proc
    BY <2>1, OperandChild
  <2>3. \/ Fork(p, Child(tree.left[n]), "left_child", "fork2")
        \/ Fork(p, Child(tree.right[n]), "right_child", "close")
        \/ Return(p, pc, Closed(fds[p]), 1)
        \/ fds' = [fds EXCEPT ![p] = Closed(fds[p])] /\ tree' = tree
    BY <1>1, <1>5 DEF ForkLeft, ForkRight
  <2>4. QED
    BY <1>1, <1>2, <1>3, <2>2, <2>3, ForkWhole, SetWhole
<1>6. CASE ReapLeft(p) \/ WaitRight(p)
  BY <1>3, <1>6 DEF ReapLeft, WaitRight
<1>7. CASE ClosePipe(p) \/ LeftChild(p) \/ RightChild(p)
  <2>1. \/ fds' = [fds EXCEPT ![p] = Closed(fds[p])] /\ tree' = tree
        \/ fds' = [fds EXCEPT ![p] = Piped("in", "pr", fds[p])] /\ tree' = tree
        \/ fds' = [fds EXCEPT ![p] = Piped("out", "pw", fds[p])] /\ tree' = tree
        \/ Die(p, <<"exit", 1>>) /\ tree' = tree
    BY <1>1, <1>7 DEF ClosePipe, LeftChild, RightChild
  <2>2. QED
    BY <1>1, <1>2, <2>1, SetWhole, DieWhole
<1>8. CASE WaitLeft(p)
  BY <1>8, SameWhole DEF WaitLeft
<1>9. QED
  BY <1>4, <1>5, <1>6, <1>7, <1>8 DEF Pipes

\* The steps of a redirection chain and of a here-document keep Whole.
LEMMA ChainWhole ==
  ASSUME TypeOK, Local, Whole, NEW p \in Interp, Chain(p) \/ Heredoc(p)
  PROVE  Whole'
<1>1. /\ p \in Proc /\ fds[p] \in [Slot -> Desc] /\ ProperFds(fds[p])
      /\ fds \in [Proc -> [Slot -> Desc]] /\ LocalOf(p)
  BY Acting, ActingWhole
<1>2. /\ ProperFds(Saved(fds[p])) /\ ProperFds(Piped("in", "pr", fds[p]))
      /\ \A lost : ProperFds(Restored(Closed(fds[p]), lost))
  BY <1>1, ProperFacts, SlotFacts
<1>3. ASSUME NEW s,
             \/ Return(p, pc, fds[p], s) \/ Finish(p, s)
             \/ \E lost \in Losses : Leave(p, pc, Restored(Closed(fds[p]), lost), s)
      PROVE  Whole'
  BY <1>1, <1>2, <1>3, LeaveWhole DEF Return, Finish
<1>4. CASE fds' = fds /\ tree' = tree
  BY <1>4, SameWhole
<1>5. ASSUME NEW t \in Slot, NEW d, Proper(d), fds' = [fds EXCEPT ![p][t] = d], tree' = tree
      PROVE  Whole'
  <2>1. ProperFds([fds[p] EXCEPT ![t] = d])
    BY <1>1, <1>5 DEF ProperFds
  <2>2. fds' = [fds EXCEPT ![p] = [fds[p] EXCEPT ![t] = d]]
    BY <1>1, <1>5
  <2>3. QED
    BY <1>1, <1>5, <2>1, <2>2, SetWhole
<1>6. CASE SaveFds(p)
  <2>1. \/ fds' = [fds EXCEPT ![p] = Saved(fds[p])] /\ tree' = tree
        \/ Return(p, pc, fds[p], 1)
        \/ Leave(p, pc, [fds[p] EXCEPT !["leak"] = fds[p]["out"]], 1)
    BY <1>1, <1>6 DEF SaveFds, Return
  <2>2. ProperFds([fds[p] EXCEPT !["leak"] = fds[p]["out"]])
    BY <1>1 DEF ProperFds, Slot
  <2>3. QED
    BY <1>1, <1>2, <1>3, <2>1, <2>2, SetWhole, LeaveWhole
<1>7. CASE Collect(p) \/ AllApplied(p)
  BY <1>3, <1>4, <1>7 DEF Collect, AllApplied
<1>8. CASE Apply(p)
  <2>1. NextRedir(p) \in Node
    BY <1>8, PopType DEF Apply
  <2>2. ASSUME NEW h \in Node, tree.kind[h] = "heredoc", OpenHeredoc(p, h) PROVE Whole'
    <3> DEFINE g == [fds[p] EXCEPT !["pr"] = R(h), !["pw"] = W(h)]
    <3>1. Proper(W(h))
      BY <2>2 DEF Proper, W
    <3>2. ProperFds(g)
      BY <1>1, <3>1, ProperFacts DEF ProperFds, Slot
    <3>3. fds' = [fds EXCEPT ![p] = g] /\ tree' = tree
      BY <1>1, <2>2 DEF OpenHeredoc
    <3>4. QED
      BY <1>1, <3>2, <3>3, SetWhole
  <2>3. ASSUME NEW k, OpenFile(p, "in", File(k)) \/ OpenFile(p, "out", File(k)) PROVE Whole'
    BY <1>5, <2>3, ProperFacts DEF OpenFile, Slot
  <2>4. QED
    BY <1>3, <1>4, <1>8, <2>1, <2>2, <2>3 DEF Apply
<1>9. CASE HeredocPrompt(p)
  BY <1>1, <1>4, <1>9, DieWhole DEF HeredocPrompt, Killed
<1>10. CASE HeredocLine(p)
  <2>1. tree' = tree /\ ReadUnit(p)
    BY <1>10 DEF HeredocLine
  <2>2. fds' = fds \/ \E k : fds' = [fds EXCEPT ![p]["in"] = File(k)]
    BY <2>1 DEF ReadUnit
  <2>3. QED
    BY <1>4, <1>5, <2>1, <2>2, ProperFacts DEF Slot
<1>11. CASE HeredocEnd(p)
  <2>1. \/ fds' = [fds EXCEPT ![p] = Piped("in", "pr", fds[p])] /\ tree' = tree
        \/ \E lost \in Losses : Leave(p, pc, Restored(Closed(fds[p]), lost), -1)
    BY <1>1, <1>11 DEF HeredocEnd
  <2>2. QED
    BY <1>1, <1>2, <1>3, <2>1, SetWhole
<1>12. CASE HeredocStore(p)
  BY <1>3, <1>4, <1>12 DEF HeredocStore
<1>13. QED
  BY <1>6, <1>7, <1>8, <1>9, <1>10, <1>11, <1>12 DEF Chain, Heredoc

\* The steps of a simple command keep Whole.
LEMMA RunWhole ==
  ASSUME TypeOK, Local, Whole, NEW p \in Interp, Run(p) \/ Dispatch(p) \/ NotFound(p)
  PROVE  Whole'
<1>1. /\ p \in Proc /\ fds[p] \in [Slot -> Desc] /\ ProperFds(fds[p])
      /\ fds \in [Proc -> [Slot -> Desc]] /\ LocalOf(p)
  BY Acting, ActingWhole
<1>2. \A lost : ProperFds(Restored(fds[p], lost)) /\ ProperFds(Restored(Closed(fds[p]), lost))
  BY <1>1, ProperFacts, SlotFacts
<1>3. ASSUME NEW pcs, NEW s,
             \/ Return(p, pcs, fds[p], s)
             \/ \E lost \in Losses : Return(p, pcs, Restored(fds[p], lost), s)
      PROVE  Whole'
  BY <1>1, <1>2, <1>3, LeaveWhole DEF Return
<1>4. ASSUME NEW s, Finish(p, s) PROVE Whole'
  BY <1>1, <1>2, <1>4, LeaveWhole DEF Finish, Return
<1>5. ASSUME NEW f, ProperFds(f), NEW s, Say(p, f, s) PROVE Whole'
  BY <1>1, <1>5, LeaveWhole, DieWhole DEF Say, Killed
<1>6. CASE Dispatch(p)
  <2>1. CASE fds' = fds /\ tree' = tree
    BY <2>1, SameWhole
  <2>2. QED
    BY <1>3, <1>6, <2>1 DEF Dispatch
<1>7. CASE NotFound(p) \/ RunEcho(p)
  BY <1>1, <1>2, <1>5, <1>7 DEF NotFound, RunEcho
<1>8. CASE RunBuiltin(p)
  BY <1>4, <1>8 DEF RunBuiltin
<1>9. CASE RunExit(p)
  BY <1>1, <1>9, SetWhole, ProperFacts DEF RunExit
<1>10. CASE RunProgram(p)
  <2>1. Ext(cur[p]) \in Proc
    BY <1>1, <1>10, ProcTypes DEF RunProgram, LocalOf, ShapeOf, RunPC
  <2>2. QED
    BY <1>1, <1>4, <1>10, <2>1, ForkWhole DEF RunProgram
<1>11. CASE WaitProgram(p)
  BY <1>3, <1>11 DEF WaitProgram
<1>12. QED
  BY <1>6, <1>7, <1>8, <1>9, <1>10, <1>11 DEF Run

\* The steps of a program keep Whole.
LEMMA ProgramWhole ==
  ASSUME TypeOK, Whole, NEW e \in Exts, Program(e) \/ Typed(e)
  PROVE  Whole'
<1>1. /\ e \in Proc /\ fds[e] \in [Slot -> Desc] /\ ProperFds(fds[e])
      /\ fds \in [Proc -> [Slot -> Desc]]
  BY ProcTypes, ActingWhole
<1>2. CASE \E w : Die(e, w) /\ tree' = tree
  BY <1>1, <1>2, DieWhole
<1>3. CASE fds' = fds /\ tree' = tree
  BY <1>3, SameWhole
<1>4. CASE ProgRead(e)
  <2>1. tree' = tree /\ (fds' = fds \/ ReadUnit(e))
    BY <1>4 DEF ProgRead
  <2>2. fds' = fds \/ \E k : fds' = [fds EXCEPT ![e]["in"] = File(k)]
    BY <2>1 DEF ReadUnit
  <2>3. ASSUME NEW k, fds' = [fds EXCEPT ![e]["in"] = File(k)] PROVE Whole'
    <3>1. ProperFds([fds[e] EXCEPT !["in"] = File(k)])
      BY <1>1, ProperFacts DEF ProperFds, Slot
    <3>2. fds' = [fds EXCEPT ![e] = [fds[e] EXCEPT !["in"] = File(k)]]
      BY <1>1, <2>3
    <3>3. QED
      BY <1>1, <2>1, <3>1, <3>2, SetWhole
  <2>4. QED
    BY <1>3, <2>1, <2>2, <2>3
<1>5. CASE ~ProgRead(e)
  BY <1>2, <1>3, <1>5 DEF Program, Typed, Exec, ProgWrite, ProgQuit, Killed
<1>6. QED
  BY <1>4, <1>5

\* An interpreter that has nothing to do with the last command may end.
LEMMA AsideCarried ==
  ASSUME TypeOK, Carried, NEW p \in Interp, Alive(p), ~OnLast(p), Others({p}),
         \A q \in Proc \ {p} : rc'[q] = rc[q]
  PROVE  Carried'
<1>1. /\ tree' = tree /\ p \in Proc /\ Interp \subseteq Proc /\ pc[p] # "none"
      /\ \A q \in Interp : q # p => /\ pc'[q] = pc[q] /\ cur'[q] = cur[q]
                                    /\ rc'[q] = rc[q]
      /\ pc'[LastExt] = pc[LastExt] /\ rc'[LastExt] = rc[LastExt]
  BY LastFacts, ProcTypes DEF Others, Alive, GonePC
<1>2. /\ LastNode' = LastNode /\ LastExt' = LastExt
      /\ \A q \in Interp : NodeOf(q)' = NodeOf(q) /\ (OnLast(q)' <=> OnLast(q))
      /\ \A a, b : Below(a, b)' <=> Below(a, b)
  BY <1>1, LastKeep
<1>3. ASSUME NEW q \in Interp, OnLast(q)' PROVE Settled(q)'
  <2>1. q # p /\ Settled(q)
    BY <1>2, <1>3 DEF Carried
  <2>2. QED
    BY <1>1, <1>2, <2>1 DEF Settled, Unstarted
<1>4. ASSUME NEW r \in Interp, NEW q \in Interp, r # q, OnLast(r)', OnLast(q)',
             Below(NodeOf(q), NodeOf(r))', pc'[r] # "none", pc'[q] # "none"
      PROVE  pc'[r] \in WaitPC
  <2>1. r # p /\ q # p
    BY <1>2, <1>4
  <2>2. QED
    BY <1>1, <1>2, <1>4, <2>1 DEF Carried, Spine
<1>5. Spine'
  <2>1. pc'[Child(tree.root)] = "none" /\ tree'.root = tree.root
    BY <1>1, RootNever DEF Carried
  <2>2. QED
    BY <1>4, <2>1 DEF Spine, WaitPC
<1>6. QED
  BY <1>3, <1>5 DEF Carried

\* An interpreter that writes to a pipe is one of these.
LEMMA WriterAside ==
  ASSUME TypeOK, Local, Whole, NEW p \in Interp, fds[p]["out"][1] = "w"
  PROVE  ~OnLast(p)
<1>1. PICK n \in Node : fds[p]["out"] = W(n)
  BY Acting DEF Slot, Desc, Tty, Shut, W
<1>2. /\ tree.kind[n] = "pipe" /\ Below(NodeOf(p), tree.left[n]) /\ tree.right[n] # Nil
  <2>1. p \in Proc /\ SeparatedAt(p) /\ "out" \in Slot
    BY Acting DEF LocalOf, Slot
  <2>2. QED
    BY <1>1, <2>1 DEF SeparatedAt, Whole
<1>3. tree.left[n] # Nil /\ tree.left[n] \in Node /\ NodeOf(p) \in Node /\ LastNode \in Node
  BY <1>2, TreeFacts, NodeOfType, LastFacts DEF Below
<1>4. Below(tree.left[n], n)
  BY <1>3, TreeFacts, OperandBelow, NodeAssumption
<1>5. QED
  <2> SUFFICES ASSUME OnLast(p) PROVE FALSE
    OBVIOUS
  <2>1. Below(LastNode, tree.left[n])
    BY <1>2, <1>3, BelowNode DEF OnLast
  <2>2. Below(LastNode, n)
    BY <1>3, <1>4, <2>1, BelowNode
  <2>3. QED
    BY <1>2, <1>3, <2>1, <2>2, RightOnLast

\* What is known of the processes when a line has met any keys.
Keyed == DispositionsOK /\ IntactUnlessCut /\ Whole /\ Carried

\* Taking a signal keeps Whole and Carried.
LEMMA TakeCarried ==
  ASSUME Keyed, NEW p \in Proc, Take(p)
  PROVE  Whole' /\ Carried'
<1>1. /\ TypeOK /\ Local /\ SigTypeOK /\ Whole /\ Carried
      /\ pend[p] # {} => Alive(p)
  BY DEF Keyed, DispositionsOK, IntactUnlessCut
<1>2. ASSUME NEW w, Gone(p, w) PROVE /\ Whole' /\ Others({p})
                                     /\ \A q \in Proc \ {p} : rc'[q] = rc[q]
  <2>1. Die(p, w) /\ tree' = tree
    BY <1>2 DEF Gone
  <2>2. QED
    BY <1>1, <2>1, DieWhole DEF Die, Others, TypeOK
<1>3. CASE \E s \in Signal : Ended(p, s)
  <2>1. PICK s \in Signal : Ended(p, s)
    BY <1>3
  <2>2. Alive(p) /\ Gone(p, <<"sig", s>>) /\ disp[p][s] = "default"
    BY <1>1, <2>1 DEF Ended
  <2>3. p \in Exts
    <3>1. p \in Interp => disp[p] \in {AtStart, Ignoring}
      BY <1>1, <2>2 DEF Keyed, DispositionsOK, SigTypeOK
    <3>2. disp[p] \notin {AtStart, Ignoring}
      BY <2>2, Settings DEF Signal
    <3>3. QED
      BY <3>1, <3>2 DEF Proc
  <2>4. QED
    BY <1>1, <1>2, <2>2, <2>3, ExtCarried
<1>4. CASE HandleCtrlC(p) /\ UNCHANGED <<tree, pc, cur, rs, fds, rc, gx>>
  BY <1>1, <1>4, SameWhole
  DEF Carried, Spine, Settled, Unstarted, OnLast, LastNode, LastExt, NodeOf, Below
<1>5. CASE HandleCtrlC(p) /\ BrokenPipe(p) /\ Gone(p, <<"sig", SIGPIPE>>)
  <2>1. Alive(p) /\ fds[p]["out"][1] = "w"
    BY <1>1, <1>5 DEF HandleCtrlC, BrokenPipe
  <2>2. CASE p \in Exts
    BY <1>1, <1>2, <1>5, <2>1, <2>2, ExtCarried
  <2>3. CASE p \in Interp
    BY <1>1, <1>2, <1>5, <2>1, <2>3, WriterAside, AsideCarried
  <2>4. QED
    BY <2>2, <2>3 DEF Proc
<1>6. QED
  BY <1>3, <1>4, <1>5 DEF Take, HandleCtrlC

\* The prompt's steps keep Whole and Carried.
LEMMA PromptKeyed ==
  ASSUME Keyed, SigPrompt, TypeOK'
  PROVE  Whole' /\ Carried'
<1>1. TypeOK /\ Local /\ Forest /\ Prompt /\ pc[Shell] = "prompt"
  BY DEF Keyed, IntactUnlessCut, IInv, SigPrompt, Prompt, ReadLine, RejectLine, EndOfInput
<1>2. \A q \in Proc \ {Shell} : pc[q] = "none" /\ fds[q] = NoFds
  BY <1>1, PromptAlone
<1>3. fds[Shell] \in [Slot -> Desc] /\ \A s \in Slot : fds[Shell][s][1] # "w"
  <2>1. LocalOf(Shell)
    BY <1>1, ProcTypes DEF Local
  <2>2. Own(fds[Shell]) /\ fds[Shell] \in [Slot -> Desc]
    BY <1>1, <2>1, PromptOwn
  <2>3. ShellFds["leak"] = Shut /\ Shut[1] = "shut"
    BY DEF ShellFds, Slot, Shut
  <2>4. QED
    BY <2>2, <2>3 DEF Own, OwnedAs, Owned, Plain, Slot
<1>4. \A q \in Proc, s \in Slot : fds[q][s][1] # "w"
  BY <1>2, <1>3 DEF NoFds, Shut
<1>5. \A q \in Proc, s \in Slot : fds'[q][s][1] # "w"
  <2>1. /\ fds \in [Proc -> [Slot -> Desc]] /\ Shell \in Proc /\ "in" \in Slot
        /\ \A k : File(k)[1] = "file"
    BY <1>1, ProcTypes DEF TypeOK, Slot, File
  <2>2. ASSUME NEW d, d[1] # "w", fds' = [fds EXCEPT ![Shell]["in"] = d]
        PROVE  \A q \in Proc, s \in Slot : fds'[q][s][1] # "w"
    BY <1>4, <2>1, <2>2
  <2>3. CASE ReadLine
    <3>1. AfterLine[1] # "w"
      BY <2>1 DEF AfterLine
    <3>2. QED
      BY <2>2, <2>3, <3>1 DEF ReadLine
  <2>4. CASE RejectLine
    BY <1>4, <2>1, <2>2, <2>4 DEF RejectLine, ReadUnit
  <2>5. CASE EndOfInput
    BY <1>4, <2>1, <2>5 DEF EndOfInput, NoFds, Shut
  <2>6. QED
    BY <1>1, <2>3, <2>4, <2>5 DEF Prompt
<1>6. Whole'
  BY <1>5 DEF Whole, W
<1>7. QED
  BY <1>1, <1>2, <1>6, PromptCarried

\* Every step keeps Whole and Carried.
LEMMA KeyedStep == Keyed /\ [SigNext]_svars => Keyed'
<1> SUFFICES ASSUME Keyed, [SigNext]_svars PROVE Keyed'
  OBVIOUS
<1>1. TypeOK /\ Local /\ Whole /\ Carried
  BY DEF Keyed, IntactUnlessCut
<1>2. DispositionsOK' /\ IntactUnlessCut' /\ TypeOK'
  BY SigStep DEF Keyed, IntactUnlessCut
<1>3. CASE UNCHANGED vars
  <2>1. Carried'
    BY <1>1, <1>3, CarriedStep
  <2>2. Whole'
    BY <1>1, <1>3, SameWhole DEF vars
  <2>3. QED
    BY <1>2, <2>1, <2>2 DEF Keyed
<1>4. ASSUME NEW p \in Interp, Interpret(p) PROVE Keyed'
  <2>1. Carried'
    BY <1>1, <1>4, CarriedStep
  <2>2. Whole'
    BY <1>1, <1>4, PipesWhole, ChainWhole, RunWhole DEF Interpret
  <2>3. QED
    BY <1>2, <2>1, <2>2 DEF Keyed
<1>5. ASSUME NEW e \in Exts, Program(e) \/ Typed(e) PROVE Keyed'
  <2>1. Carried'
    BY <1>1, <1>5, CarriedStep
  <2>2. Whole'
    BY <1>1, <1>5, ProgramWhole
  <2>3. QED
    BY <1>2, <2>1, <2>2 DEF Keyed
<1>6. CASE SigPrompt
  BY <1>2, <1>6, PromptKeyed DEF Keyed
<1>7. ASSUME NEW p \in Proc, Take(p) PROVE Keyed'
  BY <1>2, <1>7, TakeCarried DEF Keyed
<1>8. QED
  BY <1>3, <1>4, <1>5, <1>6, <1>7
  DEF SigNext, SigTerminated, Terminated, SigInterpret, SigProgram, SigTyped, SetSignals,
      Press, svars

\* With keys, too, only the shell's own steps bring it back to its prompt.
LEMMA KeyedReturn ==
  ASSUME TypeOK, Local, SigNext, pc[Shell] \in InterpPC, pc'[Shell] = "prompt"
  PROVE  Interpret(Shell)
<1>1. pc'[Shell] # pc[Shell] /\ pc \in [Proc -> PC]
  BY DEF InterpPC, TypeOK
<1>2. ~UNCHANGED vars /\ ~SigPrompt
  BY <1>1 DEF vars, SigPrompt, Prompt, ReadLine, RejectLine, EndOfInput, InterpPC
<1>3. ASSUME NEW p \in Proc, Take(p) PROVE FALSE
  BY <1>1, <1>3, ProcTypes DEF Take, HandleCtrlC, Ended, Gone, Die
<1>4. \/ \E p \in Interp : Interpret(p)
      \/ \E e \in Exts : Program(e) \/ Typed(e)
  BY <1>2, <1>3
  DEF SigNext, SigTerminated, Terminated, SigInterpret, SigProgram, SigTyped, SetSignals,
      Press, svars
<1>5. QED
  BY <1>4, OwnReturn

(***************************************************************************)
(* Whatever keys are pressed, when the last program was ended by a signal  *)
(* the status that comes back to the prompt is 128 and its number.         *)
(***************************************************************************)
THEOREM KeyPassed == SigSpec => KeyStatus
<1>1. SigInit => Keyed
  <2> SUFFICES ASSUME SigInit PROVE Keyed
    OBVIOUS
  <2>1. DispositionsOK /\ IntactUnlessCut /\ TypeOK /\ Init
    BY SigStart DEF SigInit, IntactUnlessCut
  <2>2. pc[Shell] \in ShellPC /\ \A q \in Proc \ {Shell} : pc[q] = "none"
    BY <2>1, ProcTypes DEF Init, ShellPC
  <2>3. \A q \in Proc, s \in Slot : fds[q][s] \in {Tty, Shut}
    BY <2>1 DEF Init, ShellFds, NoFds
  <2>4. Whole
    BY <2>3 DEF Whole, Tty, Shut, W
  <2>5. QED
    BY <2>1, <2>2, <2>4, IdleCarried DEF Keyed
<1>2. Keyed /\ [SigNext]_svars =>
        [LET e == Ext(tree.last[tree.root]) IN
         pc[Shell] \in InterpPC /\ pc'[Shell] = "prompt" /\ rc[e][1] = "sig"
           => gx' = 128 + rc[e][2]]_svars
  <2> SUFFICES ASSUME Keyed, SigNext, pc[Shell] \in InterpPC,
                      pc'[Shell] = "prompt", rc[LastExt][1] = "sig"
               PROVE  gx' = 128 + rc[LastExt][2]
    BY DEF LastExt, LastNode
  <2>1. TypeOK /\ Local /\ Carried
    BY DEF Keyed, IntactUnlessCut
  <2>2. Interpret(Shell)
    BY <2>1, KeyedReturn
  <2>3. rc[LastExt] # NoStatus
    BY DEF NoStatus
  <2>4. gx' = Decode(rc[LastExt])
    BY <2>1, <2>2, <2>3, StatusReturned
  <2>5. QED
    BY <2>4 DEF Decode
<1>3. QED
  BY <1>1, <1>2, KeyedStep, PTL DEF SigSpec, KeyStatus
=============================================================================

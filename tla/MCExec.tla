------------------------------- MODULE MCExec -------------------------------
(***************************************************************************)
(* Small instances of Exec for TLC: the trees of a few lines.              *)
(***************************************************************************)
EXTENDS ExecInv, SequencesExt, FiniteSetsExt

MCNode == 1..5

(***************************************************************************)
(* A tree is written as the sequence of its nodes in pre-order, each       *)
(* <<kind, left, right, prog, file>>.                                      *)
(***************************************************************************)
Pipe(l, r)    == <<"pipe", l, r, "empty", FALSE>>
Redir(k, l)   == <<k, l, Nil, "empty", TRUE>>
NoFile(k, l)  == <<k, l, Nil, "empty", FALSE>>
Cmd(g)        == <<"command", Nil, Nil, g, FALSE>>
Leaf(k)       == <<k, Nil, Nil, "empty", FALSE>>

\* Nodes beyond the tree's are leaves nobody visits.
MkTree(ns) ==
  LET At(n) == IF n <= Len(ns) THEN ns[n] ELSE Leaf("word")
      last[n \in Node] == Max({n} \cup {last[m] : m \in {At(n)[2], At(n)[3]} \ {Nil}})
  IN [root  |-> 1,
      kind  |-> [n \in Node |-> At(n)[1]],
      left  |-> [n \in Node |-> At(n)[2]],
      right |-> [n \in Node |-> At(n)[3]],
      last  |-> last,
      file  |-> [n \in Node |-> At(n)[5]],
      prog  |-> [n \in Node |-> At(n)[4]]]

\* The lines below, as make_yggdrasil arranges their tokens: pipes and
\* redirections have one rank, the last of them is the root and the others
\* hang to its left, so that a right operand is always a command or a word.

\* yes | cat | true        echo | cat | missing
YesCatTrue == MkTree(<<Pipe(2, 5), Pipe(3, 4), Cmd("yes"), Cmd("cat"), Cmd("true")>>)
EchoCatMissing == MkTree(<<Pipe(2, 5), Pipe(3, 4), Cmd("echo"), Cmd("cat"), Cmd("missing")>>)
\* cat < f | cat        cat < f >> g | echo        cat | exit
CopyFile == MkTree(<<Pipe(2, 4), Redir("in", 3), Cmd("cat"), Cmd("cat")>>)
RedirPair == MkTree(<<Pipe(2, 5), Redir("append", 3), Redir("in", 4), Cmd("cat"), Cmd("echo")>>)
CatExit == MkTree(<<Pipe(2, 3), Cmd("cat"), Cmd("exit")>>)
\* true |        >        true << >
HalfPipe == MkTree(<<Pipe(2, Nil), Cmd("true")>>)
BareRedir == MkTree(<<NoFile("out", Nil)>>)
NoName == MkTree(<<NoFile("out", 2), NoFile("heredoc", 3), Cmd("true")>>)
\* true > f > g > h : more than redir_nodes[] holds (MaxRedirections is 2)
TooMany == MkTree(<<Redir("out", 2), Redir("out", 3), Redir("out", 4), Cmd("true")>>)
\* true | true > f : the redirection is the root, the pipe its operand
PipeUnderRedir == MkTree(<<Redir("out", 2), Pipe(3, 4), Cmd("true"), Cmd("true")>>)
\* nosuch | cat : "command not found" goes into the pipe
WordPipe == MkTree(<<Pipe(2, 3), Leaf("word"), Cmd("cat")>>)
Single(x) == MkTree(<<x>>)

\* cat << e | cat        cat << e        cat < f << e
HeredocPipe == MkTree(<<Pipe(2, 4), Redir("heredoc", 3), Cmd("cat"), Cmd("cat")>>)
HeredocCat == MkTree(<<Redir("heredoc", 2), Cmd("cat")>>)
HeredocFile == MkTree(<<Redir("heredoc", 2), Redir("in", 3), Cmd("cat")>>)

\* The lines of the main run, and those of the run in which the shell may
\* lose its standard descriptors.
AllTrees == {YesCatTrue, EchoCatMissing, CopyFile, RedirPair, TooMany, WordPipe, HeredocPipe}
            \cup {Single(Cmd(g)) : g \in {"empty", "builtin", "exit", "true", "missing"}}
            \cup {Single(Leaf(k)) : k \in {"assign", "word"}}
FaultTrees == {CatExit, HalfPipe, BareRedir, NoName, PipeUnderRedir,
               HeredocCat, HeredocFile, Single(Cmd("echo"))}
HeredocTrees == {HeredocCat}
MixedTrees == {PipeUnderRedir}

MCExitCodes == {0, 1}
=============================================================================

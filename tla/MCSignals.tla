------------------------------ MODULE MCSignals ------------------------------
(***************************************************************************)
(* Signals over the trees of MCExec.                                       *)
(***************************************************************************)
EXTENDS Signals, MCExec

KeyNode == 1..3

\* yes | true
YesTrue == MkTree(<<Pipe(2, 3), Cmd("yes"), Cmd("true")>>)
KeyTrees == {YesTrue, Single(Cmd("cat")), HeredocCat}
QuietKeyTrees == {Single(Cmd("true"))}
=============================================================================

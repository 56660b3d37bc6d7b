------------------------------- MODULE MCEnv -------------------------------
(***************************************************************************)
(* A small instance of Env for TLC: four names, of which one is no        *)
(* variable of cd's, two directories and a path that is none, and up to    *)
(* two arguments.                                                          *)
(***************************************************************************)
EXTENDS Env, SequencesExt

MCName == 1..4
MCValue == 1..3
MCDir == {1, 2}

MCInherited == {<<>>, <<Bind(4, 3), Bind(3, 1), Bind(2, 1), Bind(1, 1)>>}

Some == {[kind |-> "set", name |-> 1, value |-> 1], [kind |-> "set", name |-> 4, value |-> 3],
         [kind |-> "bad", name |-> 1, value |-> 1]}
        \cup {[kind |-> "bare", name |-> n, value |-> 1] : n \in MCName}
MCArgs == SeqOf(Some, 2)
=============================================================================

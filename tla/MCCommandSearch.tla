--------------------------- MODULE MCCommandSearch ---------------------------
(***************************************************************************)
(* A small instance of CommandSearch for TLC: two directories in PATH and  *)
(* the shell's own, which may be one of them.                              *)
(***************************************************************************)
EXTENDS CommandSearch

CONSTANTS d1, d2, here, c, x

MCDir == {d1, d2, here}
MCName == {c, x}
Dirs(k1, k2, k3, x2) ==
  [d \in MCDir |-> [n \in MCName |->
     CASE n = x -> IF d = d2 THEN x2 ELSE "none"
       [] d = d1 -> k1 [] d = d2 -> k2 [] d = here -> k3]]
MCStarts == {Dirs("none", "exec", "none", "plain"), Dirs("exec", "dir", "exec", "none")}
MCPaths == {<<>>, <<d1, d2>>, <<d2, here>>}
=============================================================================

----------------------------- MODULE SyntaxTree -----------------------------
(***************************************************************************)
(* The syntax tree (t_node_tree): what make_yggdrasil builds from the      *)
(* tokens of a line and execute_ast interprets.                            *)
(***************************************************************************)
EXTENDS Integers

CONSTANT Node   \* names of tree nodes: positive numbers, in pre-order

ASSUME NodeAssumption == Node \subseteq Nat \ {0}

Nil == 0
RedirKind == {"in", "out", "append", "heredoc"}
Kind == {"pipe", "command", "assign", "word"} \cup RedirKind
Prog == {"empty", "builtin", "echo", "exit", "cat", "yes", "true", "missing"}

(***************************************************************************)
(* t_node_tree.  last[n] is the greatest node of the subtree of n; "file"  *)
(* says whether a redirection has its file name; "prog" is the command.    *)
(***************************************************************************)
Tree == [root  : Node,
         kind  : [Node -> Kind],
         left  : [Node -> Node \cup {Nil}],
         right : [Node -> Node \cup {Nil}],
         last  : [Node -> Node],
         file  : [Node -> BOOLEAN],
         prog  : [Node -> Prog]]

\* Nodes are numbered in pre-order, the left subtree before the right one,
\* and a subtree is its root and the subtrees of its children.  Only the
\* nodes of the tree have children.
PreOrder(t) ==
  /\ \A n \in Node : n <= t.last[n]
  /\ \A n \in Node : t.left[n] # Nil =>
        n < t.left[n] /\ t.last[t.left[n]] <= t.last[n]
  /\ \A n \in Node : t.right[n] # Nil =>
        n < t.right[n] /\ t.last[t.right[n]] <= t.last[n]
  /\ \A n \in Node : t.left[n] # Nil /\ t.right[n] # Nil =>
        t.last[t.left[n]] < t.right[n]
  /\ \A m, n \in Node : m <= n /\ n <= t.last[m] => t.last[n] <= t.last[m]
  /\ \A m, n \in Node : m < n /\ n <= t.last[m] =>
        \/ t.left[m] # Nil /\ t.left[m] <= n /\ n <= t.last[t.left[m]]
        \/ t.right[m] # Nil /\ t.right[m] <= n /\ n <= t.last[t.right[m]]
  /\ \A n \in Node : t.left[n] # Nil \/ t.right[n] # Nil =>
        t.root <= n /\ n <= t.last[t.root]
=============================================================================

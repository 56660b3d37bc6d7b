------------------------------- MODULE Parser -------------------------------
(***************************************************************************)
(* The parser of the shell (src/parser, src/main.c): from the tokens of a  *)
(* line to its syntax tree.  input_handler passes one linked list of       *)
(* tokens through a series of functions that retype its tokens, take some  *)
(* out of it and at last arrange the rest in a tree.  A token is found in  *)
(* the list by its id; a token taken out keeps its next pointer.           *)
(*                                                                         *)
(* A token is named by its place in the line.  Of its text only what the   *)
(* functions ask is kept: see Text.                                        *)
(***************************************************************************)
EXTENDS SyntaxTree, Sequences, FiniteSets

CONSTANTS
  Lines,       \* the lines typed: sequences of lexemes [text, glued]
  TokenIds     \* what get_token_id() may answer for the n-th token of a line

First == 1

\* "cmd" is found in PATH and "builtin" is built in; "lost" is found in PATH
\* until the assignments and expansions of the line are done.  "null" is a
\* double-quoted token, whose value quote_handler sets to NULL, and "open"
\* one with an unclosed quote.
Operator == {"|", "<", ">", "<<", ">>"}
Text == Operator \cup {"cmd", "builtin", "lost", "word", "assign", "null", "open"}
Lexeme == [text : Text, glued : BOOLEAN]

\* proximity_exception: a token touches the next one, unless that one is an
\* operator.  (A line whose first character is an operator has no tokens that
\* touch: such lines are those without a glued token.)
Touching(l, i) == i < Len(l) /\ l[i + 1].text \notin Operator

ASSUME LinesAssumption ==
  \A l \in Lines : /\ l # <<>> /\ l \in Seq(Lexeme) /\ 1..Len(l) \subseteq Node
                   /\ \A i \in 1..Len(l) : l[i].glued => Touching(l, i)
\* One id for every token, as the counter set to 0 at each call gives, or the
\* numbers it would count without that.
ASSUME IdAssumption ==
  \A f \in TokenIds : /\ f \in [Node -> Nat]
                      /\ \/ \A m, n \in Node : f[m] = f[n]
                         \/ \A m, n \in Node : f[m] = f[n] => m = n

RankC == 3
RankB == 4
RankS == 6

VARIABLES
  ids,     \* the answers of get_token_id, one of TokenIds for good
  pc,      \* what input_handler does next
  text,    \* token -> value
  glued,   \* token -> merge_next
  next,    \* token -> next token of the list, Nil at its end
  id, type, rank, file, args,  \* fields of t_token
  at,      \* where the merging, and then handler_args_file, has got to
  cmd,     \* where cmd_handler_args has got to
  used,    \* tokens with a node in the tree
  left, right, root,           \* the tree, its nodes named by their tokens
  calls    \* the calls of make_yggdrasil still to run, the next one first

list == <<text, glued, next, id, type, rank, file, args>>
ygg == <<used, left, right, root, calls>>
vars == <<ids, pc, list, at, cmd, ygg>>

Blank(v) == [n \in Node |-> v]

Init ==
  /\ ids \in TokenIds
  /\ pc = "readline"
  /\ text = Blank("word") /\ glued = Blank(FALSE) /\ next = Blank(Nil)
  /\ id = Blank(0) /\ type = Blank("word") /\ rank = Blank(RankC)
  /\ file = Blank(Nil) /\ args = Blank(<<>>)
  /\ used = {} /\ left = Blank(Nil) /\ right = Blank(Nil) /\ root = Nil
  /\ calls = <<>> /\ at = Nil /\ cmd = Nil

-----------------------------------------------------------------------------
(***************************************************************************)
(* The linked list.                                                        *)
(***************************************************************************)
\* The nodes met from k on, following the pointers f.
Reach(f, k) ==
  {n \in Node : \A S \in SUBSET Node :
     k \in S /\ (\A m \in S : f[m] = Nil \/ f[m] \in S) => n \in S}

From(k) == IF k = Nil THEN {} ELSE Reach(next, k)
After(k) == From(next[k])

Tokens == From(First)

\* get_prev_node: the first token from f on whose successor has k's id.
Prev(k, f) ==
  LET I == {n \in From(f) : next[n] # Nil /\ id[next[n]] = id[k]}
  IN IF k = Nil THEN Nil
     ELSE IF id[k] = id[f] \/ I = {} THEN Nil
     ELSE CHOOSE n \in I : I \subseteq From(n)

\* rm_node_lst takes k out of the list, if there is a token before it.
Removed(k, f) == [next EXCEPT ![Prev(k, f)] = next[k]]

-----------------------------------------------------------------------------
(***************************************************************************)
(* delegated_by_input_handler: split_input, quote_handler, typealize and   *)
(* the merge of tokens that touch.                                         *)
(***************************************************************************)
Split ==
  /\ pc = "readline"
  /\ \E l \in Lines :
       LET Real == 1..Len(l) IN
       /\ text' = [n \in Node |-> IF n \in Real THEN l[n].text ELSE "word"]
       /\ glued' = [n \in Node |-> n \in Real /\ l[n].glued]
       /\ next' = [n \in Node |-> IF n < Len(l) THEN n + 1 ELSE Nil]
  /\ id' = [n \in Node |-> n]                        \* get_new_token_id()
  /\ type' = Blank("word") /\ rank' = Blank(RankC)
  /\ file' = Blank(Nil) /\ args' = Blank(<<>>)
  /\ used' = {} /\ left' = Blank(Nil) /\ right' = Blank(Nil) /\ root' = Nil
  /\ pc' = "typealize"
  /\ UNCHANGED <<at, cmd, calls>>

TypeOf(x) ==
  CASE x = "|" -> "pipe" [] x = "<" -> "in" [] x = ">" -> "out"
    [] x = "<<" -> "heredoc" [] x = ">>" -> "append"
    [] x \in {"cmd", "lost"} -> "command"
    [] OTHER -> "word"

RankOf(x) == IF x \in Operator THEN RankS
             ELSE IF x \in {"cmd", "lost"} THEN RankB ELSE RankC

Typealize ==
  /\ pc = "typealize"
  /\ id' = ids
  /\ type' = [n \in Node |-> TypeOf(text[n])]
  /\ rank' = [n \in Node |-> RankOf(text[n])]
  /\ pc' = "merge"
  /\ at' = CHOOSE n \in Tokens : next[n] = Nil       \* last_token
  /\ UNCHANGED <<text, glued, next, file, args, cmd, ygg>>

\* merg_tok_excep_cll_revloop goes back over the list and ends with the first
\* token, where it also goes when it does not find a token before.
MergesFirst == at = First \/ Prev(at, First) = Nil
Merged == IF MergesFirst THEN First ELSE Prev(at, First)

\* merge_to_token_exception has something to do.
Joins(t) == next[t] # Nil /\ glued[t] /\ Prev(next[t], t) # Nil

\* ft_strjoin follows the null pointer of a double-quoted token.
JoinsNull(t) == Joins(t) /\ "null" \in {text[t], text[next[t]]}

\* A word that has grown by a merge may be another thing; its error flag stays.
Join(t) ==
  IF ~Joins(t) THEN UNCHANGED <<text, next>>
  ELSE /\ next' = Removed(next[t], t)
       /\ \E x \in {"cmd", "builtin", "word", "assign"} :
            text' = [text EXCEPT ![t] =
                       IF @ \in Operator \cup {"assign", "open"} THEN @ ELSE x]

\* A list with an unclosed quote goes no further, unless the quote has been
\* merged into another token.
Merge ==
  /\ pc = "merge" /\ ~JoinsNull(Merged)
  /\ Join(Merged)
  /\ at' = Merged
  /\ pc' = IF ~MergesFirst THEN "merge"
           ELSE IF \E n \in From(First)' : text[n] = "open" THEN "readline" ELSE "assign"
  /\ UNCHANGED <<glued, id, type, rank, file, args, cmd, ygg>>

MergeCrash ==
  /\ pc = "merge" /\ JoinsNull(Merged)
  /\ pc' = "crashed"
  /\ UNCHANGED <<list, at, cmd, ygg>>

-----------------------------------------------------------------------------
(***************************************************************************)
(* process_token_list_pipeline.                                            *)
(***************************************************************************)
\* apply_variable_assignment: the assignments at the head of the line.
Assign ==
  /\ pc = "assign"
  /\ type' = [n \in Node |->
                IF n \in Tokens /\ \A m \in Tokens : n \in From(m) => text[m] = "assign"
                THEN "assign" ELSE type[n]]
  /\ pc' = "args"
  /\ at' = First
  /\ UNCHANGED <<text, glued, next, id, rank, file, args, cmd, ygg>>

\* redir_handler_file: the token after a redirection is its file.
TakeFile(k) ==
  LET f == next[k] IN
  IF f = Nil THEN UNCHANGED <<next, file>>
  ELSE IF rank[f] = RankS THEN UNCHANGED <<next, file>>
  ELSE IF Prev(f, First) = Nil THEN file' = [file EXCEPT ![k] = Nil] /\ UNCHANGED next
  ELSE /\ next' = Removed(f, First)
       /\ file' = [file EXCEPT ![k] = IF text[f] = "null" THEN Nil ELSE f]

\* One round of handler_args_file.  The next token is read first: it may no
\* longer be in the list when its turn comes.
HandleToken ==
  /\ pc = "args" /\ at # Nil
  /\ IF type[at] \in RedirKind
     THEN TakeFile(at) /\ UNCHANGED <<pc, cmd>>
     ELSE pc' = "attach" /\ cmd' = at /\ UNCHANGED <<next, file>>
  /\ at' = next[at]
  /\ UNCHANGED <<text, glued, id, type, rank, args, ygg>>

\* cmd_handler_args goes on up to a pipe or a redirection.
Attaching == pc = "attach" /\ cmd # Nil /\ rank[cmd] # RankS
Takes(k) == next[k] # Nil /\ rank[next[k]] # RankS /\ Prev(next[k], First) # Nil

\* One round of attach_args_to_token: the token after cmd becomes an argument
\* of it.  A token without a value has no arguments and gives none; without
\* memory, cmd loses the arguments it had as well.
AttachArg ==
  LET k == cmd
      c == next[k]
  IN /\ Attaching /\ Takes(k)
     /\ next' = Removed(c, First)
     /\ IF "null" \in {text[c], text[k]} THEN args' = args
        ELSE \E more \in {Append(args[k], c), <<>>} : args' = [args EXCEPT ![k] = more]
     /\ cmd' = IF args'[k] = <<>> THEN next'[k] ELSE k
     /\ UNCHANGED <<pc, text, glued, id, type, rank, file, at, ygg>>

NextCmd ==
  /\ Attaching /\ ~Takes(cmd)
  /\ cmd' = next[cmd]
  /\ UNCHANGED <<pc, list, at, ygg>>

Attached ==
  /\ pc = "attach" /\ ~Attaching
  /\ pc' = "args"
  /\ UNCHANGED <<list, at, cmd, ygg>>

HandlerDone ==
  /\ pc = "args" /\ at = Nil
  /\ pc' = "notfound"
  /\ UNCHANGED <<list, at, cmd, ygg>>

\* parser_cmd_no_found: what is a command, now that all is expanded.
Found(n) == text[n] \in {"cmd", "builtin"}
Plain(n) == n \in Tokens /\ type[n] \in {"command", "word"}

CmdNotFound ==
  /\ pc = "notfound"
  /\ type' = [n \in Node |-> IF ~Plain(n) THEN type[n]
                             ELSE IF Found(n) THEN "command" ELSE "word"]
  /\ rank' = [n \in Node |-> IF Plain(n) /\ type[n] = "word" /\ Found(n)
                             THEN RankB ELSE rank[n]]
  /\ pc' = "init"
  /\ UNCHANGED <<text, glued, next, id, file, args, at, cmd, ygg>>

-----------------------------------------------------------------------------
(***************************************************************************)
(* init_yggdrasil and make_yggdrasil.                                      *)
(***************************************************************************)
\* The tokens of the greatest rank.
Greatest == {n \in Tokens : \A m \in Tokens : rank[m] <= rank[n]}

MakeRoot(r) ==
  /\ pc = "init"
  /\ root' = r
  /\ used' = {r}
  /\ calls' = <<[t |-> r, e |-> Nil]>>
  /\ pc' = "make"
  /\ UNCHANGED <<list, at, cmd, left, right>>

\* Slip: the first token of the greatest rank.
InitYggdrasilFirst == MakeRoot(CHOOSE n \in Greatest : Greatest \subseteq From(n))

\* The last token of the greatest rank.
InitYggdrasil == MakeRoot(CHOOSE n \in Greatest : Greatest \cap After(n) = {})

\* Following f from t, the first token with the greatest rank up to t's.
Nearest(f, t) ==
  LET c == IF f[t] = Nil THEN {} ELSE Reach(f, f[t])
      I == {n \in c : rank[n] <= rank[t]}
      top == {n \in I : \A m \in I : rank[m] <= rank[n]}
  IN IF I = {} THEN Nil ELSE CHOOSE n \in top : top \subseteq Reach(f, n)

\* Slip: find_left_token without its test for the first token.
DerefNullAll(t) == Prev(t, First) = Nil

\* find_left_token reads the rank of the previous token without a test.
DerefNull(t) == t # First /\ Prev(t, First) = Nil

\* It goes back with get_prev_node.
FindLeft(t) ==
  IF t = First THEN Nil ELSE Nearest([n \in Node |-> Prev(n, First)], t)

\* Slip: the search goes on beyond the token eof.
FindRightFar(t, e) == Nearest(next, t)

\* find_right_token: the tokens after t and before e.
FindRight(t, e) ==
  IF t = e THEN Nil ELSE Nearest([n \in Node |-> IF next[n] = e THEN Nil ELSE next[n]], t)

\* Its search ends at e alone: when that is not after t, and no token after t
\* has t's rank, it reads the rank of a null token at the end of the list.
DerefNullRight(t, e) ==
  /\ t # e /\ next[t] \notin {e, Nil}
  /\ e # Nil /\ e \notin After(t)
  /\ \A n \in After(t) : rank[n] # rank[t]

\* Slip: new_yggnode does not test "used".
NewAgain(k) == k

\* new_yggnode gives no second node to a token.
New(k) == IF k \in used THEN Nil ELSE k

\* The call for operand k with eof f, if there is one.
Calling(k, f) == IF k = Nil THEN <<>> ELSE <<[t |-> k, e |-> f]>>

\* Slip: both calls get the eof of the left one.
OperandsAlike(l, r, t, e) == Calling(l, t) \o Calling(r, t)

\* The calls for the operands of t: the left ones end at t, the right ones
\* where those of t do.
Operands(l, r, t, e) == Calling(l, t) \o Calling(r, e)

MakeYggdrasil ==
  LET t == calls[1].t
      e == calls[1].e
      l == New(FindLeft(t))
      r == New(FindRight(t, e))
  IN /\ pc = "make" /\ calls # <<>>
     /\ ~DerefNull(t) /\ ~DerefNullRight(t, e)
     /\ left' = [left EXCEPT ![t] = l]
     /\ right' = [right EXCEPT ![t] = r]
     /\ used' = used \cup ({l, r} \ {Nil})
     /\ calls' = Operands(l, r, t, e) \o Tail(calls)
     /\ UNCHANGED <<pc, list, at, cmd, root>>

Crash ==
  /\ pc = "make" /\ calls # <<>>
  /\ DerefNull(calls[1].t) \/ DerefNullRight(calls[1].t, calls[1].e)
  /\ pc' = "crashed"
  /\ UNCHANGED <<list, at, cmd, ygg>>

\* execute_ast takes the tree; what it does is in module Exec.
Execute ==
  /\ pc = "make" /\ calls = <<>>
  /\ pc' = "execute"
  /\ UNCHANGED <<list, at, cmd, ygg>>

Prompt ==
  /\ pc = "execute"
  /\ pc' = "readline"
  /\ UNCHANGED <<list, at, cmd, ygg>>

Dead == pc = "crashed" /\ UNCHANGED vars

Step == \/ Split \/ Typealize \/ Merge \/ MergeCrash \/ Assign \/ HandleToken
        \/ AttachArg \/ NextCmd \/ Attached \/ HandlerDone \/ CmdNotFound
        \/ InitYggdrasil \/ MakeYggdrasil \/ Crash \/ Execute \/ Prompt

Next == (Step /\ UNCHANGED ids) \/ Dead

Spec == Init /\ [][Next]_vars

-----------------------------------------------------------------------------
(***************************************************************************)
(* Properties.                                                             *)
(***************************************************************************)
\* The parser never follows a null pointer, whatever the line.
NoSegfault == pc # "crashed"

Distinct == \A m, n \in Node : ids[m] = ids[n] => m = n
Alike == \A m, n \in Node : ids[m] = ids[n]

\* With distinct ids it only does for a line with a double-quoted token, and
\* before any node of the tree is made: whatever was taken out of the list,
\* find_left_token finds a token before its own, and find_right_token meets
\* its eof, or an operand, before the end of the list.
TreeNeverCrashes ==
  Distinct /\ pc = "crashed" => used = {} /\ \E n \in Node : text[n] = "null"

\* With one id for all tokens nothing is ever taken out of the list, and the
\* lines that reach execute_ast are those of one token.
OneTokenLives ==
  Alike =>
    /\ pc = "execute" => next[First] = Nil
    /\ pc = "crashed" => next[First] # Nil

\* The nodes of the tree from k on.
Under(k) ==
  {n \in Node : k # Nil /\ \A S \in SUBSET Node :
     k \in S /\ (\A m \in S : {left[m], right[m]} \subseteq S \cup {Nil}) => n \in S}

\* The tree keeps every token that is left in the list, and keeps their
\* order: operands stay on their side of each pipe and redirection.
TreeIsTheList ==
  pc = "execute" =>
    /\ Under(root) = Tokens
    /\ \A n \in Tokens :
         /\ \A m \in Under(left[n]) : n \in After(m)
         /\ Under(right[n]) \subseteq After(n)

\* The right operand of a node has no operands itself and is no operator: a
\* chain of pipes and redirections only grows to the left.
RightIsLeaf ==
  pc = "execute" => \A n \in used : right[n] # Nil =>
    /\ left[right[n]] = Nil /\ right[right[n]] = Nil
    /\ type[right[n]] \in {"command", "word", "assign"}

(***************************************************************************)
(* The tree as execute_ast gets it, its nodes numbered in pre-order: one   *)
(* of the trees module Exec is about.                                      *)
(***************************************************************************)
\* In pre-order a node comes before all nodes under it, and those under its
\* left operand before those under its right one.
Before(m, n) == \/ m # n /\ n \in Under(m)
                \/ \E k \in used : m \in Under(left[k]) /\ n \in Under(right[k])

Size(k) == Cardinality(Under(k))
Place(k) == IF k = Nil THEN Nil
            ELSE Cardinality({m \in Under(root) : Before(m, k)}) + 1
Placed(n) == CHOOSE k \in Under(root) : Place(k) = n

Built ==
  LET Real(n) == n <= Size(root) IN
  [root  |-> Place(root),
   kind  |-> [n \in Node |-> IF Real(n) THEN type[Placed(n)] ELSE "word"],
   left  |-> [n \in Node |-> IF Real(n) THEN Place(left[Placed(n)]) ELSE Nil],
   right |-> [n \in Node |-> IF Real(n) THEN Place(right[Placed(n)]) ELSE Nil],
   last  |-> [n \in Node |-> IF Real(n) THEN n + Size(Placed(n)) - 1 ELSE n],
   file  |-> [n \in Node |-> Real(n) /\ file[Placed(n)] # Nil],
   prog  |-> [n \in Node |-> "true"]]

\* What execute_ast gets is a tree, as module Exec assumes of its trees: no
\* token is in two places, and the nodes nest (TreesAssumption).
BuiltTree ==
  pc = "execute" => /\ {Place(k) : k \in Under(root)} = 1..Size(root)
                    /\ Built \in Tree /\ PreOrder(Built)
=============================================================================

------------------------------ MODULE MCParser ------------------------------
(***************************************************************************)
(* Small instances of Parser for TLC: every line of a few tokens.          *)
(***************************************************************************)
EXTENDS Parser, SequencesExt

MCNode == 1..4

Lex(x) == [text |-> x, glued |-> FALSE]
Touch(x) == [text |-> x, glued |-> TRUE]

\* Redirections are treated alike, so two of the four are enough.
Texts == {Lex(x) : x \in Text \ {"<", ">>"}}
Short == SeqOf(Texts, 3) \ {<<>>}
Joined == [1..3 -> {Lex(x) : x \in {"|", "word"}} \cup
                   {Touch(x) : x \in {"|", "word", "assign", "cmd", "null", "open"}}]
Glued == {l \in Joined : \A i \in 1..3 : l[i].glued => Touching(l, i)}
Long == [1..4 -> {Lex(x) : x \in {"|", ">", "cmd", "word", "null"}}]
MCLines == Short \cup Glued \cup Long

\* get_token_id() as it is: the counter is set to 0 at every call.
SameId == [n \in Node |-> 0]
\* As it would be without that line: the ids of a line are distinct.
CountedId == [n \in Node |-> n]

BothIds == {SameId, CountedId}
CodeIds == {SameId}
=============================================================================

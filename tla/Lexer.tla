-------------------------------- MODULE Lexer --------------------------------
(***************************************************************************)
(* split_input: a line is cut into words, operators and quoted texts.  One *)
(* step reads one character.  Any malloc may fail.                         *)
(***************************************************************************)
EXTENDS Chars

CONSTANT Lines   \* the lines read from the user

Quote == {"'", "\""}
Operator == {"|", "<", ">"}
Stop == Quote \cup Operator \cup {" "}

ASSUME LinesAssumption == Lines \subseteq Seq(Char)

VARIABLES
  input,   \* the line
  pos,     \* its characters already in tokens, or skipped
  len,     \* those of the token that is read
  tokens,  \* first and last character of each token, and merge_next
  mode     \* "skip", "quote", "word", "done" or "null"

lexVars == <<input, pos, len, tokens, mode>>

LexInit ==
  /\ input \in Lines
  /\ pos = 0 /\ len = 0 /\ tokens = <<>> /\ mode = "skip"

\* The first character of the token, and the next one that is looked at.
First == input[pos + 1]
Left == pos + len < Len(input)
This == input[pos + len + 1]

\* Slip: the space behind a token is not looked at.
ProximityExceptionBlind(p) ==
  p < Len(input) /\ input[p + 1] \notin Operator /\ input[1] \notin Operator

\* proximity_exception, behind the first p characters: it looks at the first
\* character of the line where the first of the token may be meant.
ProximityException(p) ==
  p < Len(input) /\ input[p + 1] \notin Operator \cup {" "} /\ input[1] \notin Operator

Piece(n) == [from |-> pos + 1, to |-> pos + n, merge |-> ProximityException(pos + n)]

\* Slip: one character is taken for the end of the token and passed over.
EmitGap(n) ==
  /\ tokens' = Append(tokens, Piece(n))
  /\ pos' = IF pos + n < Len(input) THEN pos + n + 1 ELSE pos + n
  /\ mode' = "skip" /\ len' = 0
  /\ UNCHANGED input

\* create_and_init_token, add_token_to_list
Emit(n) ==
  /\ \/ /\ tokens' = Append(tokens, Piece(n))
        /\ pos' = pos + n
        /\ mode' = "skip"
     \/ tokens' = <<>> /\ mode' = "null" /\ UNCHANGED pos
  /\ len' = 0
  /\ UNCHANGED input

SkipSpace ==
  /\ mode = "skip" /\ Left /\ First = " "
  /\ pos' = pos + 1
  /\ UNCHANGED <<input, len, tokens, mode>>

EndOfLine ==
  /\ mode = "skip" /\ ~Left
  /\ mode' = "done"
  /\ UNCHANGED <<input, pos, len, tokens>>

Open ==
  /\ mode = "skip" /\ Left /\ First \in Quote
  /\ len' = 1 /\ mode' = "quote"
  /\ UNCHANGED <<input, pos, tokens>>

InQuote ==
  /\ mode = "quote" /\ Left /\ This # First
  /\ len' = len + 1
  /\ UNCHANGED <<input, pos, tokens, mode>>

\* Slip: the closing quote is left for the next token.
CloseQuoteBefore == mode = "quote" /\ Left /\ This = First /\ Emit(len)

CloseQuote == mode = "quote" /\ Left /\ This = First /\ Emit(len + 1)

\* A quote that is not closed is a token of its own.
NoClose == mode = "quote" /\ ~Left /\ Emit(1)

TakeOperator ==
  /\ mode = "skip" /\ Left /\ First \in Operator
  /\ Emit(IF First # "|" /\ pos + 1 < Len(input) /\ input[pos + 2] = First THEN 2 ELSE 1)

Word ==
  /\ mode = "skip" /\ Left /\ First \notin Stop
  /\ len' = 1 /\ mode' = "word"
  /\ UNCHANGED <<input, pos, tokens>>

\* Slip: the loop of ft_strsetlen does not advance.
InWordStuck == mode = "word" /\ Left /\ This \notin Stop /\ UNCHANGED lexVars

\* ft_strsetlen
InWord ==
  /\ mode = "word" /\ Left /\ This \notin Stop
  /\ len' = len + 1
  /\ UNCHANGED <<input, pos, tokens, mode>>

EndWord == mode = "word" /\ ~(Left /\ This \notin Stop) /\ Emit(len)

LexNext == \/ SkipSpace \/ EndOfLine \/ Open \/ InQuote \/ CloseQuote \/ NoClose
           \/ TakeOperator \/ Word \/ InWord \/ EndWord

-----------------------------------------------------------------------------
(***************************************************************************)
(* Properties.                                                             *)
(***************************************************************************)
\* Every variable has its type, and nothing is read behind the line.
LexTypeOK ==
  /\ input \in Seq(Char)
  /\ pos \in Nat /\ len \in Nat /\ pos + len <= Len(input)
  /\ tokens \in Seq([from : Nat, to : Nat, merge : BOOLEAN])
  /\ mode \in {"skip", "quote", "word", "done", "null"}

\* The tokens follow each other, and every character of the line but spaces
\* outside quotes is in one.
Partition ==
  /\ \A t \in 1..Len(tokens) :
       /\ 1 <= tokens[t].from /\ tokens[t].from <= tokens[t].to /\ tokens[t].to <= pos
       /\ \A u \in 1..Len(tokens) : t < u => tokens[t].to < tokens[u].from
  /\ mode # "null" =>
       \A c \in 1..pos : \/ input[c] = " "
                           \/ \E t \in 1..Len(tokens) : tokens[t].from <= c /\ c <= tokens[t].to

\* From character f to character l: a text in quotes of one kind, ...
IsQuoted(f, l) ==
  /\ f < l /\ input[f] \in Quote /\ input[l] = input[f]
  /\ \A c \in (f + 1)..(l - 1) : input[c] # input[f]

\* ... a quote that is never closed, ...
IsUnclosed(f, l) ==
  f = l /\ input[f] \in Quote /\ \A c \in (f + 1)..Len(input) : input[c] # input[f]

\* ... an operator, the longest there is at its place, ...
IsOperator(f, l) ==
  /\ input[f] \in Operator /\ input[l] = input[f] /\ l <= f + 1
  /\ l = f + 1 => input[f] # "|"
  /\ l = f /\ f < Len(input) /\ input[f] # "|" => input[f + 1] # input[f]

\* ... or a word, the longest from its first character on.
IsWord(f, l) ==
  /\ \A c \in f..l : input[c] \notin Stop
  /\ l < Len(input) => input[l + 1] \in Stop

\* Every token is one of these.
Shapes ==
  \A t \in 1..Len(tokens) :
    LET f == tokens[t].from
        l == tokens[t].to
    IN IsQuoted(f, l) \/ IsUnclosed(f, l) \/ IsOperator(f, l) \/ IsWord(f, l)

\* A token that is to be merged with the next one (merge_to_token_exception)
\* has a next one, which touches it: words a space parts are never joined.
MergeTouches ==
  \A t \in 1..Len(tokens) :
    tokens[t].merge =>
      \/ t < Len(tokens) /\ tokens[t + 1].from = tokens[t].to + 1
      \/ t = Len(tokens) /\ mode # "done" /\ tokens[t].to = pos
=============================================================================

-------------------------------- MODULE Words --------------------------------
(***************************************************************************)
(* A line from its characters to the words the parser works on:            *)
(* split_input (Lexer), the quote handler, the variable assignments in     *)
(* front of the line, and the expansion (Expand).  typealize and the       *)
(* merging, which the code runs behind the quote handler, change no value  *)
(* here: no token is merged while all ids of a line are equal (module      *)
(* Parser).                                                                *)
(***************************************************************************)
EXTENDS Lexer, Expand, FiniteSetsExt

CONSTANT Values   \* the environment the line finds

ASSUME ValuesAssumption ==
  DOMAIN Values \subseteq Text /\ \A n \in DOMAIN Values : Values[n] \in Text

VARIABLE stage   \* "quotes" (and before them, the lexer), "assign", "expand" or "error"

wordsVars == <<lexVars, expVars, stage>>

Init == LexInit /\ ExpInit /\ env = Values /\ stage = "quotes"

Cut == stage = "quotes" /\ LexNext /\ UNCHANGED <<expVars, stage>>

-----------------------------------------------------------------------------
(***************************************************************************)
(* quote_handler_call_loop.                                                *)
(***************************************************************************)
\* The value split_input gives token t.
TextOf(t) == SubSeq(input, tokens[t].from, tokens[t].to)

\* is_quote_opened
Opened(s) == s[1] \in Quote /\ (Len(s) = 1 \/ s[Len(s)] # s[1])

\* ft_strtrim: from the first character that is no quote to the last one.  In
\* quotes alone the search from the left stops at the zero behind them, where
\* ft_substr returns the empty text, and that from the right runs past the
\* front: what it reads there is in a length nobody uses.
Trimmed(s) ==
  LET N == {k \in 1..Len(s) : s[k] # "'"}
  IN IF N = {} THEN <<>> ELSE SubSeq(s, Min(N), Max(N))

Quoting(q) == stage = "quotes" /\ mode = "done" /\ Len(line) < Len(tokens)
              /\ LET s == TextOf(Len(line) + 1)
                 IN ~Opened(s) /\ s[1] = q

Give(v, k) ==
  /\ line' = Append(line, [value |-> v, kept |-> k])
  /\ vals' = [t \in 1..(Len(line) + 1) |-> line'[t].value]
  /\ UNCHANGED <<lexVars, env, cur, pc, i, start, res, cap, rest, stage>>

\* Slip: the token is not marked as a literal.
SingleQuotesLoose ==
  /\ Quoting("'")
  /\ \/ Give(Trimmed(TextOf(Len(line) + 1)), FALSE) /\ UNCHANGED failed
     \/ Give(TextOf(Len(line) + 1), TRUE) /\ NoMemory

\* handle_single_quotes; without memory the quotes stay.
SingleQuotes ==
  /\ Quoting("'")
  /\ \/ Give(Trimmed(TextOf(Len(line) + 1)), TRUE) /\ UNCHANGED failed
     \/ Give(TextOf(Len(line) + 1), TRUE) /\ NoMemory

\* handle_double_quotes returns before the text is used: the value is NULL,
\* and the token as good as a kept one without characters.
DoubleQuotes == Quoting("\"") /\ Give(<<>>, TRUE) /\ UNCHANGED failed

\* Words, operators and quotes that are never closed stay as they are.
NoQuotes ==
  /\ stage = "quotes" /\ mode = "done" /\ Len(line) < Len(tokens)
  /\ LET s == TextOf(Len(line) + 1)
     IN (Opened(s) \/ s[1] \notin Quote) /\ Give(s, FALSE)
  /\ UNCHANGED failed

\* has_parser_error
Checked ==
  /\ stage = "quotes" /\ mode = "done" /\ Len(line) = Len(tokens)
  /\ stage' = IF \E t \in 1..Len(tokens) : Opened(TextOf(t)) THEN "error" ELSE "assign"
  /\ UNCHANGED <<lexVars, expVars>>

-----------------------------------------------------------------------------
(***************************************************************************)
(* process_variable_assignments and expand_token_list_no_assignments.      *)
(***************************************************************************)
\* The name an assignment begins with goes up to here.
NameEnds(s, e) ==
  /\ s[1] \in Letter /\ s[e + 1] = "="
  /\ \A k \in 2..e : s[k] \in Letter \cup Digit

\* is_valid_assignment
IsValidAssignment(s) == \E e \in 1..(Len(s) - 1) : NameEnds(s, e)

Assigning == stage = "assign" /\ cur <= Len(line) /\ IsValidAssignment(line[cur].value)

\* apply_variable_assignment; update_env may find no memory.
Assign ==
  /\ Assigning
  /\ \E e \in 1..(Len(line[cur].value) - 1) :
       LET s == line[cur].value
           name == SubSeq(s, 1, e)
       IN /\ NameEnds(s, e)
          /\ \/ /\ env' = [n \in DOMAIN env \cup {name} |->
                             IF n = name THEN SubSeq(s, e + 2, Len(s)) ELSE env[n]]
                /\ UNCHANGED failed
             \/ NoMemory /\ UNCHANGED env
  /\ line' = [line EXCEPT ![cur].kept = TRUE]
  /\ cur' = cur + 1
  /\ UNCHANGED <<lexVars, vals, pc, i, start, res, cap, rest, stage>>

BeginList ==
  /\ stage = "assign" /\ ~Assigning
  /\ stage' = "expand" /\ cur' = 1
  /\ UNCHANGED <<lexVars, env, line, vals, pc, i, start, res, cap, rest, failed>>

ExpandStep == stage = "expand" /\ ExpNext /\ UNCHANGED <<lexVars, stage>>

Next == \/ Cut \/ SingleQuotes \/ DoubleQuotes \/ NoQuotes \/ Checked
        \/ Assign \/ BeginList \/ ExpandStep

Spec == Init /\ [][Next]_wordsVars

\* The loops run on.
FairSpec == Spec /\ WF_wordsVars(Next)

-----------------------------------------------------------------------------
(***************************************************************************)
(* Properties.                                                             *)
(***************************************************************************)
\* Every variable has its type, and nothing is read past the end of the line
\* or of a token.
TypeOK ==
  /\ LexTypeOK /\ ExpTypeOK
  /\ Len(line) <= Len(tokens)
  /\ stage \in {"quotes", "assign", "expand", "error"}

\* What token t says without its quotes.
Unquoted(t) ==
  LET s == TextOf(t)
  IN IF s[1] = "'" THEN SubSeq(s, 2, Len(s) - 1) ELSE IF s[1] = "\"" THEN <<>> ELSE s

\* The tokens in front of the line that are assignments.
Leading == {t \in 1..Len(tokens) : \A u \in 1..t : IsValidAssignment(Unquoted(u))}

\* Token t assigns a value to n.
Assigns(t, n) == NameEnds(Unquoted(t), Len(n)) /\ SubSeq(Unquoted(t), 1, Len(n)) = n

\* The environment the rest of the line is expanded in: the last of the leading
\* assignments to a name counts, the values are not expanded, and names that
\* are not assigned to keep theirs.
Assigned ==
  \A n \in DOMAIN env \cup DOMAIN Values :
    LET by == {t \in Leading : Len(n) < Len(Unquoted(t)) /\ Assigns(t, n)}
    IN IF by = {} THEN n \in DOMAIN Values /\ ValueOf(n) = Values[n]
       ELSE LET s == Unquoted(CHOOSE t \in by : \A u \in by : u <= t)
            IN ValueOf(n) = SubSeq(s, Len(n) + 2, Len(s))

\* While memory lasts, every word follows from the characters of the line
\* alone, through all the passes: what is in single quotes reaches the parser
\* as it was typed, a leading assignment too, every other word has the
\* expansion it has in the environment behind the assignments.  Nothing is
\* expanded twice, and nothing of a token's neighbour gets into it.
FromLine ==
  stage = "expand" /\ ~failed =>
    /\ Assigned
    /\ \A t \in 1..(cur - 1) :
         vals[t] = IF t \in Leading \/ TextOf(t)[1] \in Quote THEN Unquoted(t)
                   ELSE Expansion(TextOf(t), 1)

\* Every line is given up or expanded to its end.
Ends == <>(mode = "null" \/ stage = "error" \/ (stage = "expand" /\ pc = "list" /\ cur > Len(line)))
=============================================================================

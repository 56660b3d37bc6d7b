-------------------------------- MODULE Expand --------------------------------
(***************************************************************************)
(* The expansion of $NAME and $? in the tokens of a line, over a buffer    *)
(* that doubles when it is full.  One step copies one character, reads one *)
(* character of a name, or begins or ends a token.  Any malloc may fail.   *)
(***************************************************************************)
EXTENDS Chars

CONSTANTS
  Cap0,        \* the first size of the buffer: 128
  ExitStatus   \* ft_itoa(g_exit_code)

\* kept: a literal, an assignment or a token without a value, which is not
\* expanded.
Token == [value : Text, kept : BOOLEAN]

ASSUME CapAssumption == Cap0 \in Nat \ {0}
ASSUME StatusAssumption == ExitStatus \in Text

VARIABLES
  env,      \* the environment: a function from names to values
  line,     \* the tokens as they were given
  vals,     \* their values now
  cur,      \* the token that is looked at
  pc,       \* "list", or in a token: "loop", "name" or "append"
  i,        \* characters of it that have been read
  start,    \* i at the beginning of a name
  res, cap, \* the buffer, without its terminating zero, and its size
  rest,     \* what is still to be appended of a value
  failed    \* a malloc has failed

expVars == <<env, line, vals, cur, pc, i, start, res, cap, rest, failed>>
token == <<line, vals, cur>>

ExpInit ==
  /\ line = <<>> /\ vals = [t \in 1..0 |-> <<>>]
  /\ cur = 1 /\ pc = "list"
  /\ i = 0 /\ start = 0 /\ res = <<>> /\ cap = Cap0 /\ rest = <<>>
  /\ failed = FALSE

Input == line[cur].value
At(c) == i < Len(Input) /\ Input[i + 1] = c

\* is_valid_var_char
ValidVarChar(c, pos) == c \in Letter \/ (pos > 0 /\ c \in Digit)

\* get_env_value_exp
ValueOf(n) == IF n \in DOMAIN env THEN env[n] ELSE <<>>

-----------------------------------------------------------------------------
(***************************************************************************)
(* append_char.                                                            *)
(***************************************************************************)
\* Slip: the terminating zero is not counted.
RoomNoZero == Len(res) < cap

Room == Len(res) + 1 < cap

\* realloc_exp_buffer; the size is never 0.
Grown == 2 * cap

Put(c) == res' = Append(res, c) /\ cap' = IF Room THEN cap ELSE Grown

NoMemory == failed' = TRUE

Full == ~Room /\ NoMemory /\ UNCHANGED <<res, cap>>

-----------------------------------------------------------------------------
(***************************************************************************)
(* The tokens.                                                             *)
(***************************************************************************)
NextToken == pc' = "list" /\ cur' = cur + 1

\* Literals and assignments are passed over.
Keep ==
  /\ pc = "list" /\ cur <= Len(line) /\ line[cur].kept
  /\ NextToken
  /\ UNCHANGED <<line, vals, i, start, res, cap, rest, failed>>

\* exp_var_init
Begin ==
  /\ pc = "list" /\ cur <= Len(line) /\ ~line[cur].kept
  /\ \/ pc' = "loop" /\ UNCHANGED <<cur, failed>>
     \/ NextToken /\ NoMemory
  /\ i' = 0 /\ start' = 0 /\ res' = <<>> /\ cap' = Cap0 /\ rest' = <<>>
  /\ UNCHANGED <<line, vals>>

\* expand_variables returns NULL: the token keeps its value.
GiveUp == Full /\ NextToken /\ UNCHANGED <<line, vals, i>>

\* append_normal_char
NormalChar ==
  /\ pc = "loop" /\ i < Len(Input) /\ ~At("$")
  /\ \/ Put(Input[i + 1]) /\ i' = i + 1 /\ UNCHANGED <<token, pc, failed>>
     \/ GiveUp
  /\ UNCHANGED <<start, rest>>

\* What follows a "$": the end of the token is no character.
Follows(S) == At("$") /\ i + 1 < Len(Input) /\ Input[i + 2] \in S

\* Slip: one character too many is passed over.
HandleExitStatusFar ==
  /\ pc = "loop" /\ Follows({"?"})
  /\ pc' = "append" /\ rest' = ExitStatus /\ i' = i + 3 /\ UNCHANGED failed
  /\ UNCHANGED <<token, start, res, cap>>

\* handle_exit_status; without memory for the number, "?" is copied.
HandleExitStatus ==
  /\ pc = "loop" /\ Follows({"?"})
  /\ \/ pc' = "append" /\ rest' = ExitStatus /\ i' = i + 2 /\ UNCHANGED failed
     \/ i' = i + 1 /\ NoMemory /\ UNCHANGED <<pc, rest>>
  /\ UNCHANGED <<token, start, res, cap>>

HandleVariable ==
  /\ pc = "loop" /\ Follows(Letter)
  /\ pc' = "name" /\ i' = i + 1 /\ start' = i + 1
  /\ UNCHANGED <<token, res, cap, rest, failed>>

\* A "$" that begins nothing stands for itself.
LoneDollar ==
  /\ pc = "loop" /\ At("$") /\ ~Follows({"?"} \cup Letter)
  /\ \/ Put("$") /\ i' = i + 1 /\ UNCHANGED <<token, pc, failed>>
     \/ Full /\ NextToken /\ i' = i + 1 /\ UNCHANGED <<line, vals>>
  /\ UNCHANGED <<start, rest>>

InName == i < Len(Input) /\ ValidVarChar(Input[i + 1], i - start)

\* get_var_name_len
NameChar ==
  /\ pc = "name" /\ InName
  /\ i' = i + 1
  /\ UNCHANGED <<token, pc, start, res, cap, rest, failed>>

\* The end of the name, whose value is looked up.
NameEnd ==
  /\ pc = "name" /\ ~InName
  /\ \/ /\ pc' = "append" /\ rest' = ValueOf(SubSeq(Input, start + 1, i))
        /\ UNCHANGED failed
     \/ pc' = "loop" /\ NoMemory /\ UNCHANGED rest
  /\ UNCHANGED <<token, i, start, res, cap>>

\* append_str_to_exp_vars, whose result its callers do not look at.
AppendStr ==
  /\ pc = "append"
  /\ \/ rest = <<>> /\ pc' = "loop" /\ UNCHANGED <<rest, res, cap, failed>>
     \/ rest # <<>> /\ Put(Head(rest)) /\ rest' = Tail(rest) /\ UNCHANGED <<pc, failed>>
     \/ rest # <<>> /\ Full /\ pc' = "loop" /\ rest' = <<>>
  /\ UNCHANGED <<token, i, start>>

\* The end of expand_variables: a zero is appended, behind which the buffer
\* gets its own, and the token gets the buffer for a value.
End ==
  /\ pc = "loop" /\ i = Len(Input)
  /\ \/ /\ vals' = [vals EXCEPT ![cur] = res]
        /\ cap' = IF Room THEN cap ELSE Grown
        /\ NextToken
        /\ UNCHANGED <<line, i, res, failed>>
     \/ GiveUp
  /\ UNCHANGED <<start, rest>>

ExpNext ==
  /\ UNCHANGED env
  /\ \/ Keep \/ Begin \/ NormalChar \/ HandleExitStatus \/ HandleVariable
     \/ LoneDollar \/ NameChar \/ NameEnd \/ AppendStr \/ End

-----------------------------------------------------------------------------
(***************************************************************************)
(* Properties.                                                             *)
(***************************************************************************)
\* Every variable has its type, and nothing is read past the end of a token.
ExpTypeOK ==
  /\ DOMAIN env \subseteq Text /\ \A n \in DOMAIN env : env[n] \in Text
  /\ line \in Seq(Token)
  /\ vals \in [1..Len(line) -> Text]
  /\ cur \in 1..(Len(line) + 1)
  /\ pc \in {"list", "loop", "name", "append"}
  /\ pc # "list" => cur <= Len(line) /\ i <= Len(Input)
  /\ i \in Nat /\ start \in Nat /\ start <= i
  /\ res \in Text /\ cap \in Nat /\ rest \in Text
  /\ failed \in BOOLEAN

\* The buffer has room for its characters and the zero behind them, and is
\* at most twice as large as it has to be.
Buffer ==
  /\ Len(res) < cap
  /\ cap = Cap0 \/ cap <= 2 * (Len(res) + 1)

\* The last character of the name that begins after character p of s.
NameStop(s, p) ==
  CHOOSE e \in (p + 1)..Len(s) :
    /\ \A k \in (p + 1)..e : ValidVarChar(s[k], k - p - 1)
    /\ e < Len(s) => ~ValidVarChar(s[e + 1], e - p)

\* What s stands for, from its character p on.
Expansion(s, p) ==
  LET X[k \in 1..(Len(s) + 1)] ==
        CASE k > Len(s) -> <<>>
          [] k < Len(s) /\ s[k] = "$" /\ s[k + 1] = "?" -> ExitStatus \o X[k + 2]
          [] k < Len(s) /\ s[k] = "$" /\ s[k + 1] \in Letter ->
               ValueOf(SubSeq(s, k + 1, NameStop(s, k))) \o X[NameStop(s, k) + 1]
          [] OTHER -> <<s[k]>> \o X[k + 1]
  IN X[p]
=============================================================================

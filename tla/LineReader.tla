----------------------------- MODULE LineReader -----------------------------
(***************************************************************************)
(* get_next_line (src/libft) and the here-documents that read with it      *)
(* (executor_signals.c), beside the others who read the same standard      *)
(* input: readline at the prompt and programs that are running.  What      *)
(* get_next_line has read behind a line stays in a static buffer, whatever *)
(* was descriptor 0 then: the standard input, a file of a redirection      *)
(* before, the pipe of a here-document before or the one from the left     *)
(* operand.  There is one buffer in each process, copied by fork, while    *)
(* the place reached in the standard input is shared.                      *)
(***************************************************************************)
EXTENDS Integers, SequencesExt

CONSTANTS
  Inputs,      \* what is there to read: [in, other], two sequences of characters
  Delimiters,  \* the delimiters of here-documents
  BufferSize,  \* BUFFER_SIZE
  MaxDocs      \* here-documents of one command (bound)

\* "nl" ends a line, "nul" is the zero byte; "eof" is no character but the
\* end of the input, which a terminal may give and then go on.
Char == {"a", "b", "nl", "nul", "eof"}

\* The standard input, and what a file or the left operand holds ready.
ASSUME InputsAssumption ==
  Inputs \subseteq [in : Seq(Char), other : Seq(Char \ {"eof"})]
ASSUME DelimitersAssumption == Delimiters \subseteq Seq({"a", "b"})
ASSUME BufferAssumption == BufferSize \in Nat \ {0} /\ MaxDocs \in Nat

Shell == "shell"
Child == {"left", "right"}   \* forked for the operands of a pipe
Proc == {Shell} \cup Child

\* What a process has on descriptor 0: the shell's standard input, the pipe
\* from the left operand, or a file or the pipe of a here-document.
Source == {"input", "left", "file"}

VARIABLES
  input,  \* all there is to read; a character is named by its place here
  cut,    \* where the standard input ends, and the other text begins
  tty,    \* it is a terminal: a read returns one line at most
  off,    \* how much of it has been read, by anybody
  pc,     \* process -> where it is
  buf,    \* process -> the static buffer
  docs,   \* process -> here-documents of its command by now
  fd0,    \* process -> what its descriptor 0 is
  pipe,   \* process -> what can be read there, but for the standard input
  delim,  \* process -> the delimiter of its here-document
  body,   \* process -> the lines of its here-document by now
  came,   \* process -> what its buffer held when its command began, or when
          \* it last dropped something, and all that has come into it since
  given,  \* process -> what get_next_line has returned since
  mixed   \* process -> its buffer may hold what is not from the standard
          \* input: a here-document, of this process or of the shell before
          \* it forked it, read something else

text == <<input, cut, tty>>
docvars == <<docs, fd0, pipe, delim, body>>
hist == <<came, given, mixed>>
vars == <<text, off, pc, buf, docvars, hist>>

\* "fork_left", "fork_right", "wait": execute_pipe_command or a program;
\* "docs": the redirections of a command; "call": about to call
\* get_next_line; "read": in ft_take_date; "line": after it.
PC == {"none", "prompt", "fork_left", "fork_right", "wait", "docs", "call",
       "read", "line", "exited"}

Init ==
  /\ \E i \in Inputs : input = i.in \o i.other /\ cut = Len(i.in)
  /\ tty \in BOOLEAN /\ off = 0
  /\ pc = [p \in Proc |-> IF p = Shell THEN "prompt" ELSE "none"]
  /\ buf = [p \in Proc |-> <<>>]
  /\ docs = [p \in Proc |-> 0]
  /\ fd0 = [p \in Proc |-> "input"] /\ pipe = [p \in Proc |-> <<>>]
  /\ delim = [p \in Proc |-> <<>>] /\ body = [p \in Proc |-> <<>>]
  /\ came = [p \in Proc |-> <<>>] /\ given = [p \in Proc |-> <<>>]
  /\ mixed = [p \in Proc |-> FALSE]

-----------------------------------------------------------------------------
(***************************************************************************)
(* read(2), and the others who read the standard input.                    *)
(***************************************************************************)
AtEof == off < cut => input[off + 1] = "eof"

\* Slip: the end of the input is passed over even where nothing follows it.
PastEofAlways == off + 1

PastEof == IF off = cut THEN off ELSE off + 1

\* The numbers of characters a read may return.
Available ==
  {n \in 1..(cut - off) :
     /\ \A k \in 1..n : input[off + k] # "eof"
     /\ tty => \A k \in 1..(n - 1) : input[off + k] # "nl"}

\* The other text, all of it.
Other == [k \in 1..(Len(input) - cut) |-> cut + k]

\* The buffer of p is b, its descriptor 0 is f with s to be read there, and
\* nothing else is left of earlier commands.
Reset(p, b, f, s) ==
  /\ buf' = [buf EXCEPT ![p] = b]
  /\ came' = [came EXCEPT ![p] = b]
  /\ given' = [given EXCEPT ![p] = <<>>]
  /\ docs' = [docs EXCEPT ![p] = 0]
  /\ fd0' = [fd0 EXCEPT ![p] = f]
  /\ pipe' = [pipe EXCEPT ![p] = s]
  /\ delim' = [delim EXCEPT ![p] = <<>>]
  /\ body' = [body EXCEPT ![p] = <<>>]
  /\ mixed' = [mixed EXCEPT ![p] = mixed[Shell]]

\* readline takes one line, character by character.  What the line says is
\* free: a command with here-documents, a pipe, a program or nothing of it.
ReadLine ==
  /\ pc[Shell] = "prompt" /\ ~AtEof
  /\ \E n \in Available :
       /\ \A k \in 1..(n - 1) : input[off + k] # "nl"
       /\ input[off + n] # "nl" => n + 1 \notin Available
       /\ off' = off + n
  /\ \E l \in {"docs", "fork_left", "wait", "prompt"} : pc' = [pc EXCEPT ![Shell] = l]
  /\ UNCHANGED <<text, buf, docvars, hist>>

EndOfInput ==
  /\ pc[Shell] = "prompt" /\ AtEof
  /\ pc' = [pc EXCEPT ![Shell] = "exited"]
  /\ UNCHANGED <<text, off, buf, docvars, hist>>

\* A program of the line that has the shell's standard input.
ProgramReads ==
  /\ pc[Shell] = "wait"
  /\ \/ AtEof /\ off' = PastEof
     \/ \E n \in Available : off' = off + n
  /\ UNCHANGED <<text, pc, buf, docvars, hist>>

-----------------------------------------------------------------------------
(***************************************************************************)
(* Processes and commands.                                                 *)
(***************************************************************************)
\* fork_left, fork_right: the child has a copy of the buffer.
Fork(c, l, k, f, s) ==
  /\ pc[Shell] = l
  /\ pc' = [pc EXCEPT ![c] = "docs", ![Shell] = k]
  /\ Reset(c, buf[Shell], f, s)
  /\ UNCHANGED <<text, off>>

ForkLeft == Fork("left", "fork_left", "fork_right", "input", <<>>)

\* right_child: the left operand may write any part of its text and end.
ForkRight == \E n \in 0..Len(Other) :
  Fork("right", "fork_right", "wait", "left", SubSeq(Other, 1, n))

\* handle_redir_in: what is read now is the file.
RedirIn(p) ==
  /\ pc[p] = "docs"
  /\ fd0' = [fd0 EXCEPT ![p] = "file"]
  /\ pipe' = [pipe EXCEPT ![p] = Other]
  /\ UNCHANGED <<text, off, pc, buf, docs, delim, body, hist>>

\* handle_heredoc for the next here-document of the chain.
OpenDoc(p) ==
  /\ pc[p] = "docs" /\ docs[p] < MaxDocs
  /\ \E d \in Delimiters : delim' = [delim EXCEPT ![p] = d]
  /\ pc' = [pc EXCEPT ![p] = "call"]
  /\ body' = [body EXCEPT ![p] = <<>>]
  /\ mixed' = [mixed EXCEPT ![p] = @ \/ fd0[p] # "input"]
  /\ UNCHANGED <<text, off, buf, docs, fd0, pipe, came, given>>

\* The command runs and descriptor 0 is restored; or the child exits.
DocsDone(p) ==
  /\ pc[p] = "docs"
  /\ pc' = [pc EXCEPT ![p] = IF p = Shell THEN "prompt" ELSE "none"]
  /\ Reset(p, IF p = Shell THEN buf[p] ELSE <<>>, "input", <<>>)
  /\ UNCHANGED <<text, off>>

Wait ==
  /\ pc[Shell] = "wait"
  /\ \A c \in Child : pc[c] = "none"
  /\ pc' = [pc EXCEPT ![Shell] = "prompt"]
  /\ UNCHANGED <<text, off, buf, docvars, hist>>

-----------------------------------------------------------------------------
(***************************************************************************)
(* get_next_line(STDIN_FILENO).                                            *)
(***************************************************************************)
HasNewline(s) == \E i \in 1..Len(s) : input[s[i]] = "nl"

\* process_heredoc_pipe: the pipe with the lines becomes descriptor 0, where
\* the next here-document of the chain will read.  (Where that fails, the
\* chain ends here, as it may at any redirection.)
DocEnds(p) ==
  /\ pc' = [pc EXCEPT ![p] = "docs"]
  /\ docs' = [docs EXCEPT ![p] = @ + 1]
  /\ fd0' = [fd0 EXCEPT ![p] = "file"]
  /\ pipe' = [pipe EXCEPT ![p] = FlattenSeq(body[p])]
  /\ UNCHANGED <<delim, body>>

\* Something is dropped, and b is left.
Drop(p, b) ==
  /\ buf' = [buf EXCEPT ![p] = b]
  /\ came' = [came EXCEPT ![p] = b]
  /\ given' = [given EXCEPT ![p] = <<>>]
  /\ UNCHANGED mixed

\* get_next_line returns NULL and has no buffer: a failure or, told by
\* nothing from it, the end of the input.
Null(p) == Drop(p, <<>>) /\ DocEnds(p)

\* read_heredoc_lines calls get_next_line; ft_take_date allocates a chunk.
Call(p) ==
  /\ pc[p] = "call"
  /\ pc' = [pc EXCEPT ![p] = IF HasNewline(buf[p]) THEN "line" ELSE "read"]
  /\ UNCHANGED <<text, off, buf, docvars, hist>>

\* Slip: a chunk is put before what is in the buffer.
JoinBefore(b, c) == c \o b

\* ft_strjoin_gnl: the chunk ends, for it, at a zero byte.
Join(b, c) == b \o c

ToZero(c) == LET I == {i \in 1..Len(c) : input[c[i]] = "nul"}
             IN IF I = {} THEN c ELSE SubSeq(c, 1, Min(I) - 1)

\* Slip: the loop of ft_take_date goes on at the end of the input.
ChunkOnly(p, c, r) ==
  LET k == ToZero(c)
      b == Join(buf[p], k)
  IN IF b = <<>>
     THEN Null(p)
     ELSE /\ IF k = c
             THEN /\ buf' = [buf EXCEPT ![p] = b]
                  /\ came' = [came EXCEPT ![p] = @ \o c]
                  /\ UNCHANGED <<given, mixed>>
             ELSE Drop(p, b)
          /\ pc' = [pc EXCEPT ![p] = IF HasNewline(b) THEN "line" ELSE "read"]
          /\ pipe' = [pipe EXCEPT ![p] = r]
          /\ UNCHANGED <<docs, fd0, delim, body>>

\* Chunk c has been read, and r is left in the pipe; there is memory to join
\* the chunk to the buffer.
Chunk(p, c, r) ==
  LET k == ToZero(c)
      b == Join(buf[p], k)
  IN IF b = <<>>
     THEN Null(p)
     ELSE /\ IF k = c
             THEN /\ buf' = [buf EXCEPT ![p] = b]
                  /\ came' = [came EXCEPT ![p] = @ \o c]
                  /\ UNCHANGED <<given, mixed>>
             ELSE Drop(p, b)
          /\ pc' = [pc EXCEPT ![p] = IF c = <<>> \/ HasNewline(b) THEN "line" ELSE "read"]
          /\ pipe' = [pipe EXCEPT ![p] = r]
          /\ UNCHANGED <<docs, fd0, delim, body>>

\* The loop of ft_take_date, on the standard input ...
ReadInput(p) ==
  /\ pc[p] = "read" /\ fd0[p] = "input"
  /\ \/ AtEof /\ off' = PastEof /\ Chunk(p, <<>>, <<>>)
     \/ \E n \in Available :
          /\ n <= BufferSize
          /\ off' = off + n
          /\ Chunk(p, [k \in 1..n |-> off + k], <<>>)
  /\ UNCHANGED text

\* ... and on what is there instead.  The left operand may have written no
\* more than a part yet.
ReadPipe(p) ==
  LET m == Min({BufferSize, Len(pipe[p])}) IN
  /\ pc[p] = "read" /\ fd0[p] # "input"
  /\ \E n \in 0..m :
       /\ n = m \/ (fd0[p] = "left" /\ n > 0)
       /\ Chunk(p, SubSeq(pipe[p], 1, n), SubSeq(pipe[p], n + 1, Len(pipe[p])))
  /\ UNCHANGED <<text, off>>

\* No memory for the chunk, or a read that fails; or no memory to join what
\* has been read: the buffer is freed with what is in it.
ReadFails(p) ==
  /\ pc[p] \in {"call", "read"}
  /\ \/ off' = off
     \/ /\ pc[p] = "read" /\ fd0[p] = "input"
        /\ \/ AtEof /\ off' = PastEof
           \/ \E n \in Available : n <= BufferSize /\ off' = off + n
  /\ Null(p)
  /\ UNCHANGED text

\* ft_take_line: the characters of the line, with its newline.
LineOf(b) ==
  LET I == {i \in 1..Len(b) : input[b[i]] = "nl"}
  IN IF I = {} THEN Len(b) ELSE Min(I)

\* Slip: the newline stays in the buffer.
RebufferAt(b, n) == SubSeq(b, n, Len(b))

\* ft_rebuffer, after a line of n characters.
Rebuffer(b, n) == SubSeq(b, n + 1, Len(b))

Text(l) == [i \in 1..Len(l) |-> input[l[i]]]

\* Slip: only a line with a newline ends the here-document.
IsHeredocDelimNl(l, d) == Text(l) = d \o <<"nl">>

\* is_heredoc_delim
IsHeredocDelim(l, d) == Text(l) \in {d, d \o <<"nl">>}

\* The line is taken out of the buffer, and compared with the delimiter or
\* written into the pipe; the two copies may each fail for want of memory,
\* that of the rest only if there is a newline.
TakeLine(p) ==
  LET n == LineOf(buf[p])
      l == SubSeq(buf[p], 1, n)
      r == Rebuffer(buf[p], n)
  IN /\ pc[p] = "line"
     /\ \/ /\ buf' = [buf EXCEPT ![p] = r]
           /\ given' = [given EXCEPT ![p] = @ \o l]
           /\ UNCHANGED <<came, mixed>>
        \/ HasNewline(l) /\ Drop(p, <<>>)
     /\ IF IsHeredocDelim(l, delim[p])
        THEN DocEnds(p)
        ELSE /\ body' = [body EXCEPT ![p] = Append(@, l)]
             /\ pc' = [pc EXCEPT ![p] = "call"]
             /\ UNCHANGED <<docs, fd0, pipe, delim>>
     /\ UNCHANGED <<text, off>>

\* No memory for the line: get_next_line returns NULL, and the line is gone.
DropLine(p) ==
  /\ pc[p] = "line"
  /\ \E r \in {<<>>, Rebuffer(buf[p], LineOf(buf[p]))} : Drop(p, r)
  /\ DocEnds(p)
  /\ UNCHANGED <<text, off>>

-----------------------------------------------------------------------------
Reader(p) ==
  OpenDoc(p) \/ DocsDone(p) \/ Call(p) \/ ReadInput(p) \/ ReadPipe(p) \/ TakeLine(p)

Fails(p) == ReadFails(p) \/ DropLine(p)

Exited == pc[Shell] = "exited" /\ UNCHANGED vars

Next ==
  \/ ReadLine \/ EndOfInput \/ ProgramReads \/ ForkLeft \/ ForkRight \/ Wait
  \/ \E p \in Proc : RedirIn(p) \/ Reader(p) \/ Fails(p)
  \/ Exited

Spec == Init /\ [][Next]_vars

\* Every process runs on; a read of a file or a pipe returns.
FairSpec == Spec /\ \A p \in Proc : WF_vars(Reader(p))

-----------------------------------------------------------------------------
(***************************************************************************)
(* Properties.                                                             *)
(***************************************************************************)
Places == Seq(1..Len(input))

TypeOK ==
  /\ input \in Seq(Char) /\ cut \in 0..Len(input) /\ tty \in BOOLEAN /\ off \in 0..cut
  /\ pc \in [Proc -> PC]
  /\ buf \in [Proc -> Places]
  /\ docs \in [Proc -> 0..MaxDocs] /\ fd0 \in [Proc -> Source]
  /\ pipe \in [Proc -> Places]
  /\ delim \in [Proc -> Seq(Char)]
  /\ body \in [Proc -> Seq(Places)]
  /\ came \in [Proc -> Places] /\ given \in [Proc -> Places]
  /\ mixed \in [Proc -> BOOLEAN]

(***************************************************************************)
(* get_next_line is a queue: as long as memory lasts and reads succeed,    *)
(* the lines it returns during a command and what is in its buffer are     *)
(* what was there before and what has been read since, in that order,      *)
(* however the input was cut into chunks and whichever descriptors it came *)
(* from.                                                                   *)
(***************************************************************************)
Queue == \A p \in Proc : given[p] \o buf[p] = came[p]

(***************************************************************************)
(* What is written into the pipe of a here-document is whole lines up to   *)
(* its delimiter: no newline within a line, and no line is the delimiter.  *)
(***************************************************************************)
WholeLines ==
  \A p \in Proc : \A i \in 1..Len(body[p]) :
    LET l == body[p][i] IN
    /\ l # <<>>
    /\ \A k \in 1..(Len(l) - 1) : input[l[k]] # "nl"
    /\ Text(l) \notin {delim[p], delim[p] \o <<"nl">>}

(***************************************************************************)
(* On a terminal nothing is left in a buffer between two calls, and so the *)
(* prompt, the programs and the children get what is typed for them: as    *)
(* long as the here-documents of the process read the terminal, and not a  *)
(* file, the lines of one before or the output of a left operand.  What    *)
(* the children read and keep does not reach the shell.                    *)
(***************************************************************************)
TerminalClean ==
  tty => \A p \in Proc : ~mixed[p] /\ pc[p] \notin {"read", "line"} => buf[p] = <<>>

\* Every here-document ends: by its delimiter, the end of the input, or a
\* failure.
DocReturns == \A p \in Proc : pc[p] = "call" ~> pc[p] = "docs"
=============================================================================

-------------------------- MODULE LineReaderProofs --------------------------
(***************************************************************************)
(* Proofs about LineReader: what get_next_line returns and what its        *)
(* buffers hold, for inputs, chunks and chains of here-documents of any    *)
(* length.                                                                 *)
(***************************************************************************)
EXTENDS LineReader, Induction

(***************************************************************************)
(* The inductive invariant: what is true of each process by itself.        *)
(***************************************************************************)
Calling == {"call", "read", "line"}

ControlOf(p) == /\ pc[p] \in Calling => docs[p] < MaxDocs
                /\ pc[p] = "line" => buf[p] # <<>>

QueueOf(p) == given[p] \o buf[p] = came[p]

LinesOf(p) == \A i \in 1..Len(body[p]) :
                LET l == body[p][i] IN
                /\ l # <<>>
                /\ \A k \in 1..(Len(l) - 1) : input[l[k]] # "nl"
                /\ Text(l) \notin {delim[p], delim[p] \o <<"nl">>}

\* On a terminal a chunk ends with the first newline, so that a line is all
\* of the buffer; and a here-document that reads something else is known.
TerminalOf(p) ==
  tty /\ ~mixed[p] =>
    /\ pc[p] \notin {"read", "line"} => buf[p] = <<>>
    /\ pc[p] = "read" => ~HasNewline(buf[p])
    /\ pc[p] = "line" => \A k \in 1..(Len(buf[p]) - 1) : input[buf[p][k]] # "nl"
    /\ pc[p] \in Calling => fd0[p] = "input"

LocalOf(p) == ControlOf(p) /\ QueueOf(p) /\ LinesOf(p) /\ TerminalOf(p)

Local == \A p \in Proc : LocalOf(p)

\* Whatever process p holds is in S.
Holds(p, S) == /\ buf[p] \in Seq(S) /\ came[p] \in Seq(S) /\ given[p] \in Seq(S)
               /\ pipe[p] \in Seq(S) /\ body[p] \in Seq(Seq(S))

IInv == TypeOK /\ Local

-----------------------------------------------------------------------------
(***************************************************************************)
(* The operators.                                                          *)
(***************************************************************************)
\* What a read may return.
LEMMA AvailableFacts ==
  ASSUME TypeOK, NEW n \in Available
  PROVE  /\ n \in Nat /\ n >= 1 /\ off + n \in 0..cut
         /\ tty => \A k \in 1..(n - 1) : input[off + k] # "nl"
  BY LenProperties DEF Available, TypeOK

\* ... and the places of its characters.
LEMMA ChunkPlaces ==
  ASSUME TypeOK, NEW n \in Available, NEW S, (off + 1)..(off + n) \subseteq S
  PROVE  /\ [k \in 1..n |-> off + k] \in Seq(S)
         /\ Len([k \in 1..n |-> off + k]) = n
<1>1. n \in Nat /\ off \in Nat
  BY AvailableFacts, SMTT(30) DEF TypeOK
<1>2. \A k \in 1..n : off + k \in S
  BY <1>1
<1>3. QED
  BY <1>1, <1>2

\* A sequence is cut in two.
LEMMA CutInTwo ==
  ASSUME NEW S, NEW b \in Seq(S), NEW n \in 0..Len(b)
  PROVE  /\ SubSeq(b, 1, n) \in Seq(S) /\ Len(SubSeq(b, 1, n)) = n
         /\ \A k \in 1..n : SubSeq(b, 1, n)[k] = b[k]
         /\ SubSeq(b, n + 1, Len(b)) \in Seq(S)
         /\ Len(SubSeq(b, n + 1, Len(b))) = Len(b) - n
         /\ SubSeq(b, 1, n) \o SubSeq(b, n + 1, Len(b)) = b
<1>1. Len(b) \in Nat /\ n \in Nat /\ \A i \in 1..Len(b) : b[i] \in S
  BY LenProperties, ElementOfSeq
<1>2. SubSeq(b, 1, n) \o SubSeq(b, n + 1, Len(b)) = SubSeq(b, 1, Len(b))
  <2>1. 1 \in 1..(Len(b) + 1) /\ n \in (1 - 1)..Len(b) /\ Len(b) \in n..Len(b)
    BY <1>1
  <2>2. QED
    BY <2>1, ConcatAdjacentSubSeq
<1>3. SubSeq(b, 1, Len(b)) = b
  BY SubSeqFull
<1>4. /\ SubSeq(b, 1, n) \in Seq(S) /\ Len(SubSeq(b, 1, n)) = n
      /\ \A k \in 1..n : SubSeq(b, 1, n)[k] = b[k]
  <2>1. 1 \in Int /\ n \in Int /\ \A i \in 1..n : b[i] \in S
    BY <1>1
  <2>2. /\ SubSeq(b, 1, n) \in Seq(S)
        /\ Len(SubSeq(b, 1, n)) = IF 1 <= n THEN n - 1 + 1 ELSE 0
        /\ \A i \in 1..(n - 1 + 1) : SubSeq(b, 1, n)[i] = b[1 + i - 1]
    BY <2>1, SubSeqProperties
  <2>3. QED
    BY <1>1, <2>2
<1>5. /\ SubSeq(b, n + 1, Len(b)) \in Seq(S)
      /\ Len(SubSeq(b, n + 1, Len(b))) = Len(b) - n
  <2>1. n + 1 \in Int /\ Len(b) \in Int /\ \A i \in (n + 1)..Len(b) : b[i] \in S
    BY <1>1
  <2>2. /\ SubSeq(b, n + 1, Len(b)) \in Seq(S)
        /\ Len(SubSeq(b, n + 1, Len(b))) =
             IF n + 1 <= Len(b) THEN Len(b) - (n + 1) + 1 ELSE 0
    BY <2>1, SubSeqProperties
  <2>3. QED
    BY <1>1, <2>2
<1>6. QED
  BY <1>2, <1>3, <1>4, <1>5

LEMMA CutPlaces ==
  ASSUME NEW b \in Places, NEW n \in 0..Len(b)
  PROVE  /\ SubSeq(b, 1, n) \in Places /\ Len(SubSeq(b, 1, n)) = n
         /\ \A k \in 1..n : SubSeq(b, 1, n)[k] = b[k]
         /\ Rebuffer(b, n) \in Places
         /\ SubSeq(b, 1, n) \o Rebuffer(b, n) = b
BY CutInTwo DEF Places, Rebuffer

\* The places of the other text.
LEMMA OtherPlaces ==
  ASSUME TypeOK, NEW S, (cut + 1)..Len(input) \subseteq S
  PROVE  /\ Other \in Seq(S) /\ Len(Other) \in Nat
         /\ \A n \in 0..Len(Other) : SubSeq(Other, 1, n) \in Seq(S)
<1> DEFINE m == Len(input) - cut
<1>1. m \in Nat /\ cut \in Nat /\ Len(input) \in Nat
  BY LenProperties DEF TypeOK
<1>2. \A k \in 1..m : cut + k \in S
  BY <1>1
<1>3. Other = [k \in 1..m |-> cut + k]
  BY DEF Other
<1> HIDE DEF m
<1>4. Other \in Seq(S) /\ Len(Other) \in Nat
  BY <1>1, <1>2, <1>3
<1>5. QED
  BY <1>4, CutInTwo

\* What ft_strjoin_gnl takes of a chunk is its beginning.
LEMMA ToZeroFacts ==
  ASSUME NEW S, NEW c \in Seq(S)
  PROVE  \E m \in 0..Len(c) : /\ ToZero(c) \in Seq(S) /\ Len(ToZero(c)) = m
                              /\ \A k \in 1..m : ToZero(c)[k] = c[k]
<1> DEFINE I == {i \in 1..Len(c) : input[c[i]] = "nul"}
<1>1. Len(c) \in Nat
  BY LenProperties
<1>2. CASE I = {}
  BY <1>1, <1>2 DEF ToZero
<1>3. CASE I # {}
  <2>1. I \in SUBSET Nat
    BY <1>1
  <2>2. Min(I) \in I
    <3> HIDE DEF I
    <3> QED
      BY <1>3, <2>1, MinNat
  <2>3. ToZero(c) = SubSeq(c, 1, Min(I) - 1)
    BY <1>3, Zenon DEF ToZero
  <2>4. Min(I) - 1 \in 0..Len(c)
    BY <1>1, <2>2
  <2>5. QED
    BY <2>3, <2>4, CutInTwo
<1>4. QED
  BY <1>2, <1>3

\* The first line of a buffer.
LEMMA LineOfFacts ==
  ASSUME NEW S, NEW b \in Seq(S)
  PROVE  /\ LineOf(b) \in 0..Len(b)
         /\ b # <<>> => LineOf(b) >= 1
         /\ \A k \in 1..(LineOf(b) - 1) : input[b[k]] # "nl"
         /\ LineOf(b) < Len(b) => input[b[LineOf(b)]] = "nl" /\ LineOf(b) >= 1
<1> DEFINE I == {i \in 1..Len(b) : input[b[i]] = "nl"}
<1>1. Len(b) \in Nat /\ (b # <<>> => Len(b) >= 1)
  BY LenProperties, EmptySeq
<1>2. CASE I = {}
  <2>1. LineOf(b) = Len(b)
    BY <1>2 DEF LineOf
  <2>2. QED
    BY <1>1, <1>2, <2>1
<1>3. CASE I # {}
  <2>1. LineOf(b) = Min(I)
    BY <1>3 DEF LineOf
  <2>2. I \in SUBSET Nat
    BY <1>1
  <2>3. Min(I) \in I /\ \A k \in I : Min(I) <= k
    <3> HIDE DEF I
    <3> QED
      BY <1>3, <2>2, MinNat
  <2>4. LineOf(b) \in 1..Len(b) /\ input[b[LineOf(b)]] = "nl"
    BY <2>1, <2>3
  <2>5. ASSUME NEW k \in 1..(LineOf(b) - 1) PROVE input[b[k]] # "nl"
    <3>1. k \in 1..Len(b) /\ k < Min(I)
      BY <1>1, <2>1, <2>4
    <3>2. QED
      BY <1>1, <2>3, <3>1
  <2>6. QED
    BY <1>1, <2>4, <2>5
<1>4. QED
  BY <1>2, <1>3

-----------------------------------------------------------------------------
(***************************************************************************)
(* A step of a process: what it leaves alone, and what the process holds   *)
(* after it.                                                               *)
(***************************************************************************)
Own(p) == RedirIn(p) \/ Reader(p) \/ Fails(p)

\* The variables of the other processes are untouched.
Frame(p) ==
  /\ pc' = [pc EXCEPT ![p] = pc'[p]] /\ buf' = [buf EXCEPT ![p] = buf'[p]]
  /\ docs' = [docs EXCEPT ![p] = docs'[p]] /\ pipe' = [pipe EXCEPT ![p] = pipe'[p]]
  /\ delim' = [delim EXCEPT ![p] = delim'[p]] /\ body' = [body EXCEPT ![p] = body'[p]]
  /\ came' = [came EXCEPT ![p] = came'[p]] /\ given' = [given EXCEPT ![p] = given'[p]]
  /\ fd0' = [fd0 EXCEPT ![p] = fd0'[p]] /\ mixed' = [mixed EXCEPT ![p] = mixed'[p]]

\* What holds the functions of TypeOK to their domain, without the ranges.
LEMMA Functions ==
  ASSUME TypeOK
  PROVE  /\ pc = [p \in Proc |-> pc[p]] /\ buf = [p \in Proc |-> buf[p]]
         /\ docs = [p \in Proc |-> docs[p]] /\ pipe = [p \in Proc |-> pipe[p]]
         /\ delim = [p \in Proc |-> delim[p]] /\ body = [p \in Proc |-> body[p]]
         /\ came = [p \in Proc |-> came[p]] /\ given = [p \in Proc |-> given[p]]
         /\ fd0 = [p \in Proc |-> fd0[p]] /\ mixed = [p \in Proc |-> mixed[p]]
BY DEF TypeOK

\* A chunk touches nothing but the process that reads it.
LEMMA ChunkFrame ==
  ASSUME TypeOK, NEW p \in Proc, NEW c, NEW r, Chunk(p, c, r)
  PROVE  Frame(p) /\ mixed' = mixed /\ fd0'[p] \in {fd0[p], "file"}
BY Functions DEF Chunk, Null, Drop, DocEnds, Frame

\* The chunk that a read of the standard input returns.
LEMMA InputChunk ==
  ASSUME TypeOK, NEW p \in Proc, ReadInput(p)
  PROVE  \E c : /\ Chunk(p, c, <<>>)
                /\ pc[p] = "read" /\ fd0[p] = "input" /\ UNCHANGED text
                /\ off' \in off..cut
                /\ \A S : (off + 1)..off' \subseteq S => c \in Seq(S)
                /\ tty => \A k \in 1..(Len(c) - 1) : input[c[k]] # "nl"
<1>1. off \in 0..cut /\ cut \in Nat
  BY LenProperties DEF TypeOK
<1>2. CASE AtEof /\ off' = PastEof /\ Chunk(p, <<>>, <<>>)
  <2>1. off' \in off..cut
    BY <1>1, <1>2 DEF PastEof
  <2>2. Len(<<>>) = 0 /\ \A k \in 1..(Len(<<>>) - 1) : FALSE
    OBVIOUS
  <2>3. \A S : <<>> \in Seq(S)
    OBVIOUS
  <2>4. QED
    BY <1>2, <2>1, <2>2, <2>3 DEF ReadInput
<1>3. ASSUME NEW n \in Available, off' = off + n,
             Chunk(p, [k \in 1..n |-> off + k], <<>>)
      PROVE  \E c : /\ Chunk(p, c, <<>>)
                    /\ off' \in off..cut
                    /\ \A S : (off + 1)..off' \subseteq S => c \in Seq(S)
                    /\ tty => \A k \in 1..(Len(c) - 1) : input[c[k]] # "nl"
  <2> DEFINE c == [k \in 1..n |-> off + k]
  <2>1. /\ n \in Nat /\ off + n \in 0..cut /\ n >= 1
        /\ tty => \A k \in 1..(n - 1) : input[off + k] # "nl"
    BY AvailableFacts
  <2>2. off' \in off..cut
    BY <1>1, <1>3, <2>1
  <2>3. Len(c) = n /\ \A k \in 1..(n - 1) : c[k] = off + k
    <3>1. Len(c) = n
      BY ChunkPlaces
    <3>2. QED
      BY <2>1, <3>1
  <2>4. tty => \A k \in 1..(Len(c) - 1) : input[c[k]] # "nl"
    <3> HIDE DEF c
    <3> QED
      BY <2>1, <2>3
  <2>5. \A S : (off + 1)..off' \subseteq S => c \in Seq(S)
    BY <1>3, ChunkPlaces
  <2>6. QED
    BY <1>3, <2>2, <2>4, <2>5
<1>4. QED
  BY <1>2, <1>3 DEF ReadInput

\* The chunk that a read of the pipe returns, and what it leaves there.
LEMMA PipeChunk ==
  ASSUME TypeOK, NEW p \in Proc, ReadPipe(p)
  PROVE  \E c, r : /\ Chunk(p, c, r)
                   /\ pc[p] = "read" /\ fd0[p] # "input"
                   /\ UNCHANGED text /\ off' = off
                   /\ \A S : pipe[p] \in Seq(S) => c \in Seq(S) /\ r \in Seq(S)
<1> DEFINE m == Min({BufferSize, Len(pipe[p])})
<1>1. m \in 0..Len(pipe[p])
  <2>1. Len(pipe[p]) \in Nat /\ BufferSize \in Nat
    BY BufferAssumption, LenProperties DEF TypeOK, Places
  <2>2. m \in {BufferSize, Len(pipe[p])} /\ \A k \in {BufferSize, Len(pipe[p])} : m <= k
    <3>1. {BufferSize, Len(pipe[p])} \in SUBSET Nat /\ {BufferSize, Len(pipe[p])} # {}
      BY <2>1
    <3>2. QED
      BY <3>1, MinNat
  <2>3. QED
    BY <2>1, <2>2
<1>2. PICK n \in 0..m :
        Chunk(p, SubSeq(pipe[p], 1, n), SubSeq(pipe[p], n + 1, Len(pipe[p])))
  BY DEF ReadPipe
<1> DEFINE c == SubSeq(pipe[p], 1, n)
           r == SubSeq(pipe[p], n + 1, Len(pipe[p]))
<1>3. n \in 0..Len(pipe[p])
  <2>1. Len(pipe[p]) \in Nat
    BY LenProperties DEF TypeOK, Places
  <2> HIDE DEF m
  <2>2. QED
    BY <1>1, <2>1
<1>4. \A S : pipe[p] \in Seq(S) => c \in Seq(S) /\ r \in Seq(S)
  BY <1>3, CutInTwo
<1>5. QED
  BY <1>2, <1>4 DEF ReadPipe

\* Nobody but the process itself is touched by its step.
LEMMA OwnFrame ==
  ASSUME TypeOK, NEW p \in Proc, Own(p)
  PROVE  Frame(p) /\ UNCHANGED text /\ off' \in off..cut
<1>1. off \in 0..cut /\ cut \in Nat
  BY LenProperties DEF TypeOK
<1>2. CASE OpenDoc(p)
  BY <1>1, <1>2, Functions DEF OpenDoc, Frame
<1>3. CASE DocsDone(p)
  BY <1>1, <1>3, Functions DEF DocsDone, Reset, Frame
<1>4. CASE Call(p)
  BY <1>1, <1>4, Functions DEF Call, Frame, docvars, hist
<1>5. CASE ReadInput(p)
  BY <1>1, <1>5, InputChunk, ChunkFrame
<1>6. CASE ReadPipe(p)
  BY <1>1, <1>6, PipeChunk, ChunkFrame
<1>7. CASE TakeLine(p)
  BY <1>1, <1>7, Functions DEF TakeLine, Drop, DocEnds, Frame
<1>8. CASE DropLine(p)
  BY <1>1, <1>8, Functions DEF DropLine, Drop, DocEnds, Frame
<1>9. CASE ReadFails(p)
  <2>1. off' \in off..cut
    <3>1. \A n \in Available : n \in Nat /\ off + n \in 0..cut
      BY AvailableFacts
    <3>2. QED
      BY <1>1, <1>9, <3>1 DEF ReadFails, PastEof
  <2>2. QED
    BY <1>1, <1>9, <2>1, Functions DEF ReadFails, Null, Drop, DocEnds, Frame
<1>10. CASE RedirIn(p)
  BY <1>1, <1>10, Functions DEF RedirIn, Frame, hist
<1>11. QED
  BY <1>2, <1>3, <1>4, <1>5, <1>6, <1>7, <1>8, <1>9, <1>10 DEF Own, Reader, Fails

\* get_next_line returns NULL: the lines written go into the pipe.
LEMMA NullHolds ==
  ASSUME TypeOK, NEW p \in Proc, NEW S, Holds(p, S), Null(p)
  PROVE  Holds(p, S)'
<1>1. FlattenSeq(body[p]) \in Seq(S) /\ <<>> \in Seq(S)
  BY FlattenType DEF Holds
<1>2. QED
  BY <1>1, Functions DEF Null, Drop, DocEnds, Holds

\* A chunk comes into the buffer.
LEMMA ChunkHolds ==
  ASSUME TypeOK, NEW p \in Proc, NEW S, Holds(p, S),
         NEW c \in Seq(S), NEW r \in Seq(S), Chunk(p, c, r)
  PROVE  Holds(p, S)'
<1> DEFINE k == ToZero(c)
           b == Join(buf[p], k)
<1>1. k \in Seq(S) /\ b \in Seq(S) /\ came[p] \o c \in Seq(S)
  BY ToZeroFacts, ConcatProperties DEF Holds, Join
<1>2. CASE b = <<>>
  BY <1>2, NullHolds DEF Chunk
<1>3. CASE b # <<>>
  <2>1. /\ buf' = [buf EXCEPT ![p] = b] /\ pipe' = [pipe EXCEPT ![p] = r]
        /\ body' = body
        /\ \/ came' = [came EXCEPT ![p] = @ \o c] /\ given' = given
           \/ came' = [came EXCEPT ![p] = b] /\ given' = [given EXCEPT ![p] = <<>>]
    BY <1>3 DEF Chunk, Drop
  <2> HIDE DEF b, k
  <2>2. buf'[p] = b /\ pipe'[p] = r /\ body'[p] = body[p]
    BY <2>1, Functions
  <2>3. came'[p] \in {came[p] \o c, b} /\ given'[p] \in {given[p], <<>>}
    BY <2>1, Functions
  <2>4. came'[p] \in Seq(S)
    <3> DEFINE e == came[p] \o c
    <3> HIDE DEF e
    <3> QED
      BY <1>1, <2>3 DEF e
  <2>5. given'[p] \in Seq(S)
    <3>1. given'[p] \in {given[p], <<>>} /\ <<>> \in Seq(S) /\ given[p] \in Seq(S)
      BY <2>3 DEF Holds
    <3>2. QED
      BY <3>1
  <2>6. QED
    BY <1>1, <2>2, <2>4, <2>5 DEF Holds
<1>4. QED
  BY <1>2, <1>3

\* A line is taken out of the buffer.
LEMMA TakeHolds ==
  ASSUME TypeOK, NEW p \in Proc, NEW S, Holds(p, S), TakeLine(p) \/ DropLine(p)
  PROVE  Holds(p, S)'
<1> DEFINE n == LineOf(buf[p])
           l == SubSeq(buf[p], 1, n)
           r == Rebuffer(buf[p], n)
<1>1. l \in Seq(S) /\ r \in Seq(S)
  BY LineOfFacts, CutInTwo DEF Holds, Rebuffer
<1>2. /\ given[p] \o l \in Seq(S) /\ Append(body[p], l) \in Seq(Seq(S))
      /\ FlattenSeq(body[p]) \in Seq(S) /\ <<>> \in Seq(S)
  BY <1>1, ConcatProperties, AppendProperties, FlattenType DEF Holds
<1>3. CASE TakeLine(p)
  <2>1. /\ \/ buf' = [buf EXCEPT ![p] = r] /\ given' = [given EXCEPT ![p] = @ \o l]
              /\ came' = came
           \/ /\ buf' = [buf EXCEPT ![p] = <<>>] /\ given' = [given EXCEPT ![p] = <<>>]
              /\ came' = [came EXCEPT ![p] = <<>>]
        /\ \/ body' = body /\ pipe' = [pipe EXCEPT ![p] = FlattenSeq(body[p])]
           \/ body' = [body EXCEPT ![p] = Append(@, l)] /\ pipe' = pipe
    BY <1>3 DEF TakeLine, Drop, DocEnds
  <2> HIDE DEF l, r
  <2>2. /\ buf'[p] \in {r, <<>>} /\ given'[p] \in {given[p] \o l, <<>>}
        /\ came'[p] \in {came[p], <<>>}
    BY <2>1, Functions
  <2>3. /\ body'[p] \in {body[p], Append(body[p], l)}
        /\ pipe'[p] \in {pipe[p], FlattenSeq(body[p])}
    BY <2>1, Functions
  <2>4. QED
    BY <1>1, <1>2, <2>2, <2>3 DEF Holds
<1>4. CASE DropLine(p)
  <2>1. PICK x \in {<<>>, r} : Drop(p, x)
    BY <1>4 DEF DropLine
  <2>2. body' = body /\ pipe' = [pipe EXCEPT ![p] = FlattenSeq(body[p])]
    BY <1>4 DEF DropLine, DocEnds
  <2> HIDE DEF l, r
  <2>3. buf'[p] = x /\ came'[p] = x /\ given'[p] = <<>>
    BY <2>1, Functions DEF Drop
  <2>4. body'[p] = body[p] /\ pipe'[p] = FlattenSeq(body[p])
    BY <2>2, Functions
  <2>5. QED
    BY <1>1, <1>2, <2>3, <2>4 DEF Holds
<1>5. QED
  BY <1>3, <1>4

\* A process holds what it held, and what it has just read.
LEMMA OwnHolds ==
  ASSUME TypeOK, NEW p \in Proc, NEW S, Holds(p, S), Own(p),
         (off + 1)..off' \subseteq S, (cut + 1)..Len(input) \subseteq S
  PROVE  Holds(p, S)'
<1>1. CASE OpenDoc(p)
  BY <1>1, Functions DEF OpenDoc, Holds
<1>2. CASE DocsDone(p)
  BY <1>2, Functions DEF DocsDone, Reset, Holds
<1>3. CASE Call(p)
  BY <1>3, Functions DEF Call, docvars, hist, Holds
<1>4. CASE ReadInput(p)
  <2>1. <<>> \in Seq(S)
    OBVIOUS
  <2>2. QED
    BY <1>4, <2>1, InputChunk, ChunkHolds
<1>5. CASE ReadPipe(p)
  BY <1>5, PipeChunk, ChunkHolds DEF Holds
<1>6. CASE TakeLine(p) \/ DropLine(p)
  BY <1>6, TakeHolds
<1>7. CASE ReadFails(p)
  BY <1>7, NullHolds DEF ReadFails
<1>8. CASE RedirIn(p)
  BY <1>8, OtherPlaces, Functions DEF RedirIn, hist, Holds
<1>9. QED
  BY <1>1, <1>2, <1>3, <1>4, <1>5, <1>6, <1>7, <1>8 DEF Own, Reader, Fails

-----------------------------------------------------------------------------
(***************************************************************************)
(* A step of a process keeps what is true of it (LocalOf).                 *)
(***************************************************************************)
\* What there is to read does not change.
Steady == input' = input /\ tty' = tty

\* The others.
LEMMA FrameLocal ==
  ASSUME TypeOK, Steady, NEW p \in Proc, NEW q \in Proc, q # p, LocalOf(q), Frame(p)
  PROVE  LocalOf(q)'
<1>1. /\ pc'[q] = pc[q] /\ buf'[q] = buf[q] /\ docs'[q] = docs[q]
      /\ delim'[q] = delim[q] /\ body'[q] = body[q]
      /\ came'[q] = came[q] /\ given'[q] = given[q]
      /\ fd0'[q] = fd0[q] /\ mixed'[q] = mixed[q]
  BY DEF Frame, TypeOK
<1>2. ControlOf(q)' /\ QueueOf(q)'
  BY <1>1 DEF LocalOf, ControlOf, QueueOf, Calling
<1>3. LinesOf(q)'
  BY <1>1 DEF Steady, LocalOf, LinesOf, Text
<1>4. TerminalOf(q)'
  BY <1>1 DEF Steady, LocalOf, TerminalOf, HasNewline, Calling
<1>5. QED
  BY <1>2, <1>3, <1>4 DEF LocalOf

\* The lines of a here-document that is not changed stay as they are.
LEMMA SameLines ==
  ASSUME NEW p \in Proc, LinesOf(p), input' = input,
         body'[p] = body[p], delim'[p] = delim[p]
  PROVE  LinesOf(p)'
BY DEF LinesOf, Text

LEMMA NoLines ==
  ASSUME NEW p \in Proc, body'[p] = <<>>
  PROVE  LinesOf(p)'
BY DEF LinesOf

\* The here-document ends, and b is left in the buffer.
LEMMA EndsLocal ==
  ASSUME TypeOK, Steady, NEW p \in Proc, LocalOf(p), NEW b \in Places,
         Drop(p, b), DocEnds(p), tty /\ ~mixed[p] => b = <<>>
  PROVE  LocalOf(p)'
<1>1. /\ pc'[p] = "docs" /\ buf'[p] = b /\ came'[p] = b /\ given'[p] = <<>>
      /\ delim'[p] = delim[p] /\ body'[p] = body[p] /\ mixed' = mixed
  BY Functions DEF Drop, DocEnds
<1>2. <<>> \o b = b
  BY ConcatEmptySeq DEF Places
<1>3. QED
  BY <1>1, <1>2, SameLines
  DEF Steady, LocalOf, ControlOf, QueueOf, TerminalOf, Calling

\* What is given, what is in the buffer and what comes, grouped either way.
LEMMA Regroup ==
  \A s, t, u \in Places : (s \o t) \o u = s \o (t \o u)
BY ConcatAssociative DEF Places

\* A chunk comes into the buffer.
LEMMA ChunkLocal ==
  ASSUME TypeOK, Steady, NEW p \in Proc, LocalOf(p), NEW c \in Places, NEW r,
         pc[p] = "read", Chunk(p, c, r),
         tty /\ ~mixed[p] => \A k \in 1..(Len(c) - 1) : input[c[k]] # "nl"
  PROVE  LocalOf(p)'
<1> DEFINE k == ToZero(c)
           b == Join(buf[p], k)
<1>1. b \in Places /\ k \in Places /\ <<>> \in Places /\ buf[p] \in Places
      /\ given[p] \in Places
  BY ToZeroFacts, ConcatProperties DEF Join, TypeOK, Places
<1>2. CASE b = <<>>
  <2>1. Drop(p, <<>>) /\ DocEnds(p)
    BY <1>2 DEF Chunk, Null
  <2>2. QED
    BY <1>1, <2>1, EndsLocal
<1>3. CASE b # <<>>
  <2>1. /\ buf' = [buf EXCEPT ![p] = b] /\ docs' = docs /\ delim' = delim /\ body' = body
        /\ fd0' = fd0 /\ mixed' = mixed
        /\ pc' = [pc EXCEPT ![p] = IF c = <<>> \/ HasNewline(b) THEN "line" ELSE "read"]
        /\ \/ k = c /\ came' = [came EXCEPT ![p] = @ \o c] /\ given' = given
           \/ came' = [came EXCEPT ![p] = b] /\ given' = [given EXCEPT ![p] = <<>>]
    BY <1>3 DEF Chunk, Drop
  <2> HIDE DEF b, k
  <2>2. /\ buf'[p] = b /\ docs'[p] = docs[p] /\ delim'[p] = delim[p]
        /\ body'[p] = body[p]
        /\ pc'[p] = IF c = <<>> \/ HasNewline(b) THEN "line" ELSE "read"
    BY <2>1, Functions
  <2>3. ControlOf(p)'
    BY <1>3, <2>2 DEF LocalOf, ControlOf, Calling
  <2>4. QueueOf(p)'
    <3>1. CASE k = c /\ came' = [came EXCEPT ![p] = @ \o c] /\ given' = given
      <4>1. came'[p] = came[p] \o c /\ b = buf[p] \o c /\ given'[p] = given[p]
        BY <3>1, Functions DEF b, Join
      <4>2. (given[p] \o buf[p]) \o c = given[p] \o (buf[p] \o c)
        BY <1>1, Regroup, ZenonT(60)
      <4>3. given[p] \o buf[p] = came[p]
        BY DEF LocalOf, QueueOf
      <4>4. QED
        BY <2>2, <4>1, <4>2, <4>3 DEF QueueOf
    <3>2. CASE came' = [came EXCEPT ![p] = b] /\ given' = [given EXCEPT ![p] = <<>>]
      <4>1. came'[p] = b /\ given'[p] = <<>> /\ <<>> \o b = b
        BY <1>1, <3>2, Functions, ConcatEmptySeq DEF Places
      <4>2. QED
        BY <2>2, <4>1 DEF QueueOf
    <3>3. QED
      BY <2>1, <3>1, <3>2
  <2>5. LinesOf(p)'
    BY <2>2, SameLines DEF Steady, LocalOf
  <2>6. TerminalOf(p)'
    <3> SUFFICES ASSUME tty, ~mixed[p]
                 PROVE  /\ pc'[p] = "read" => ~HasNewline(b)
                        /\ pc'[p] = "line" =>
                             \A i \in 1..(Len(b) - 1) : input[b[i]] # "nl"
                        /\ fd0'[p] = "input"
      BY <2>1, <2>2 DEF Steady, TerminalOf, HasNewline
    <3>1. ~HasNewline(buf[p]) /\ fd0'[p] = "input"
      BY <2>1 DEF LocalOf, TerminalOf, Calling
    <3>2. PICK m \in 0..Len(c) : /\ Len(k) = m /\ \A i \in 1..m : k[i] = c[i]
      BY ToZeroFacts DEF Places, k
    <3>3. /\ Len(b) = Len(buf[p]) + m /\ Len(buf[p]) \in Nat /\ Len(c) \in Nat
          /\ \A i \in 1..(Len(buf[p]) + m) :
               b[i] = IF i <= Len(buf[p]) THEN buf[p][i] ELSE k[i - Len(buf[p])]
      BY <1>1, <3>2, ConcatProperties, LenProperties, ZenonT(60) DEF Places, b, Join
    <3>4. \A i \in 1..(Len(b) - 1) : input[b[i]] # "nl"
      <4> SUFFICES ASSUME NEW i \in 1..(Len(b) - 1) PROVE input[b[i]] # "nl"
        OBVIOUS
      <4>1. CASE i <= Len(buf[p])
        BY <3>1, <3>3, <4>1, SMTT(30) DEF HasNewline
      <4>2. CASE i > Len(buf[p])
        <5> DEFINE j == i - Len(buf[p])
        <5>1. j \in 1..(m - 1) /\ j \in 1..(Len(c) - 1) /\ j \in 1..m
          BY <3>3, <4>2
        <5>2. b[i] = k[j] /\ k[j] = c[j]
          BY <3>2, <3>3, <4>2, <5>1
        <5>3. QED
          BY <5>1, <5>2
      <4>3. QED
        BY <3>3, <4>1, <4>2
    <3>5. pc'[p] = "read" => ~HasNewline(b)
      BY <2>2
    <3>6. QED
      BY <2>2, <3>1, <3>4, <3>5
  <2>7. QED
    BY <2>3, <2>4, <2>5, <2>6 DEF LocalOf
<1>4. QED
  BY <1>2, <1>3

\* Where only the terminal has been read, a line is all of the buffer.
LEMMA LastLine ==
  ASSUME TypeOK, NEW p \in Proc, LocalOf(p), pc[p] = "line", tty, ~mixed[p]
  PROVE  Rebuffer(buf[p], LineOf(buf[p])) = <<>>
<1>1. buf[p] \in Places /\ Len(buf[p]) \in Nat
  BY LenProperties DEF TypeOK, Places
<1>2. /\ LineOf(buf[p]) \in 0..Len(buf[p])
      /\ LineOf(buf[p]) < Len(buf[p]) =>
           input[buf[p][LineOf(buf[p])]] = "nl" /\ LineOf(buf[p]) >= 1
  BY <1>1, LineOfFacts DEF Places
<1>3. \A k \in 1..(Len(buf[p]) - 1) : input[buf[p][k]] # "nl"
  BY DEF LocalOf, TerminalOf
<1>4. LineOf(buf[p]) = Len(buf[p])
  BY <1>1, <1>2, <1>3
<1>5. QED
  BY <1>1, <1>4, SubSeqEmpty DEF Rebuffer

\* A line is taken out of the buffer.
LEMMA TakeLocal ==
  ASSUME TypeOK, Steady, NEW p \in Proc, LocalOf(p), TakeLine(p)
  PROVE  LocalOf(p)'
<1> DEFINE n == LineOf(buf[p])
           l == SubSeq(buf[p], 1, n)
           r == Rebuffer(buf[p], n)
<1>1. pc[p] = "line" /\ buf[p] \in Places /\ given[p] \in Places
      /\ docs[p] \in 0..MaxDocs /\ Len(body[p]) \in Nat /\ body[p] \in Seq(Places)
  BY LenProperties DEF TakeLine, TypeOK
<1>2. buf[p] # <<>> /\ docs[p] < MaxDocs /\ given[p] \o buf[p] = came[p]
  BY <1>1 DEF LocalOf, ControlOf, QueueOf, Calling
<1>3. /\ n \in 1..Len(buf[p])
      /\ \A k \in 1..(n - 1) : input[buf[p][k]] # "nl"
  <2> HIDE DEF n
  <2>1. buf[p] \in Seq(1..Len(input)) /\ Len(buf[p]) \in Nat
    BY <1>1, LenProperties DEF Places
  <2>2. /\ n \in 0..Len(buf[p]) /\ n >= 1
        /\ \A k \in 1..(n - 1) : input[buf[p][k]] # "nl"
    BY <1>2, <2>1, LineOfFacts DEF n
  <2>3. n \in 1..Len(buf[p])
    BY ONLY <2>1, <2>2
  <2>4. QED
    BY ONLY <2>2, <2>3
<1>4. /\ l \in Places /\ r \in Places /\ l \o r = buf[p] /\ Len(l) = n
      /\ \A k \in 1..n : l[k] = buf[p][k]
  <2>1. n \in 0..Len(buf[p])
    BY <1>3
  <2>2. QED
    BY <1>1, <2>1, CutPlaces
<1>5. l # <<>> /\ \A k \in 1..(Len(l) - 1) : input[l[k]] # "nl"
  <2> HIDE DEF l
  <2>1. l # <<>>
    BY <1>3, <1>4, EmptySeq
  <2>2. QED
    BY <1>3, <1>4, <2>1
<1>6. tty /\ ~mixed[p] => r = <<>>
  BY <1>1, LastLine
<1>7. /\ \/ /\ buf' = [buf EXCEPT ![p] = r] /\ came' = came
            /\ given' = [given EXCEPT ![p] = @ \o l]
         \/ /\ buf' = [buf EXCEPT ![p] = <<>>] /\ came' = [came EXCEPT ![p] = <<>>]
            /\ given' = [given EXCEPT ![p] = <<>>]
      /\ \/ pc' = [pc EXCEPT ![p] = "docs"] /\ body' = body
         \/ /\ pc' = [pc EXCEPT ![p] = "call"] /\ docs' = docs /\ fd0' = fd0
            /\ body' = [body EXCEPT ![p] = Append(@, l)]
            /\ Text(l) \notin {delim[p], delim[p] \o <<"nl">>}
      /\ delim' = delim /\ mixed' = mixed
  BY DEF TakeLine, Drop, DocEnds, IsHeredocDelim
<1> HIDE DEF l, r
<1>8. delim'[p] = delim[p] /\ buf'[p] \in {r, <<>>} /\ pc'[p] \in {"docs", "call"}
      /\ (pc'[p] = "call" => docs'[p] = docs[p] /\ fd0'[p] = fd0[p])
  BY <1>7, Functions
<1>9. ControlOf(p)'
  BY <1>2, <1>8 DEF ControlOf, Calling
<1>10. QueueOf(p)'
  <2>1. CASE /\ buf' = [buf EXCEPT ![p] = r] /\ came' = came
             /\ given' = [given EXCEPT ![p] = @ \o l]
    <3>1. buf'[p] = r /\ came'[p] = came[p] /\ given'[p] = given[p] \o l
      BY <2>1, Functions
    <3>2. (given[p] \o l) \o r = given[p] \o (l \o r)
      BY <1>1, <1>4, Regroup
    <3>3. QED
      BY <1>2, <1>4, <3>1, <3>2 DEF QueueOf
  <2>2. CASE /\ buf' = [buf EXCEPT ![p] = <<>>] /\ came' = [came EXCEPT ![p] = <<>>]
             /\ given' = [given EXCEPT ![p] = <<>>]
    <3>1. buf'[p] = <<>> /\ came'[p] = <<>> /\ given'[p] = <<>>
      BY <2>2, Functions
    <3>2. <<>> \o <<>> = <<>>
      OBVIOUS
    <3>3. QED
      BY <3>1, <3>2 DEF QueueOf
  <2>3. QED
    BY <1>7, <2>1, <2>2
<1>11. LinesOf(p)'
  <2>1. CASE body' = body
    BY <1>8, <2>1, SameLines DEF Steady, LocalOf
  <2>2. CASE /\ body' = [body EXCEPT ![p] = Append(@, l)]
             /\ Text(l) \notin {delim[p], delim[p] \o <<"nl">>}
    <3>1. body'[p] = Append(body[p], l)
      BY <2>2, Functions
    <3>2. /\ Len(body'[p]) = Len(body[p]) + 1
          /\ \A i \in 1..Len(body[p]) : body'[p][i] = body[p][i]
          /\ body'[p][Len(body[p]) + 1] = l
      BY <1>1, <1>4, <3>1, AppendProperties
    <3> SUFFICES ASSUME NEW i \in 1..Len(body'[p])
                 PROVE  /\ body'[p][i] # <<>>
                        /\ \A k \in 1..(Len(body'[p][i]) - 1) :
                             input[body'[p][i][k]] # "nl"
                        /\ Text(body'[p][i]) \notin {delim[p], delim[p] \o <<"nl">>}
      BY <1>8 DEF Steady, LinesOf, Text
    <3>3. CASE i = Len(body[p]) + 1
      BY <1>5, <2>2, <3>2, <3>3
    <3>4. CASE i # Len(body[p]) + 1
      <4>1. i \in 1..Len(body[p]) /\ body'[p][i] = body[p][i]
        BY <1>1, <3>2, <3>4
      <4>2. QED
        BY <4>1 DEF LocalOf, LinesOf
    <3>5. QED
      BY <3>3, <3>4
  <2>3. QED
    BY <1>7, <2>1, <2>2
<1>12. TerminalOf(p)'
  <2> SUFFICES ASSUME tty, ~mixed[p]
               PROVE  buf'[p] = <<>> /\ (pc'[p] \in Calling => fd0'[p] = "input")
    BY <1>7, <1>8 DEF Steady, TerminalOf
  <2>1. fd0[p] = "input"
    BY <1>1 DEF LocalOf, TerminalOf, Calling
  <2>2. QED
    BY <1>6, <1>8, <2>1 DEF Calling
<1>13. QED
  BY <1>9, <1>10, <1>11, <1>12 DEF LocalOf

\* A process's own step keeps what is true of it.
LEMMA OwnLocal ==
  ASSUME TypeOK, NEW p \in Proc, LocalOf(p), Own(p)
  PROVE  LocalOf(p)'
<1>1. Steady /\ buf[p] \in Places /\ <<>> \in Places /\ docs[p] \in 0..MaxDocs
      /\ MaxDocs \in Nat
  BY OwnFrame, BufferAssumption DEF Steady, TypeOK, Places, text
<1>2. CASE OpenDoc(p)
  <2>1. /\ pc[p] = "docs" /\ docs[p] < MaxDocs /\ pc'[p] = "call" /\ body'[p] = <<>>
        /\ buf'[p] = buf[p] /\ docs'[p] = docs[p] /\ came'[p] = came[p]
        /\ given'[p] = given[p] /\ fd0'[p] = fd0[p]
        /\ mixed'[p] = (mixed[p] \/ fd0[p] # "input")
    BY <1>2, Functions DEF OpenDoc
  <2>2. QED
    BY <1>1, <2>1, NoLines
    DEF Steady, LocalOf, ControlOf, QueueOf, TerminalOf, Calling
<1>3. CASE DocsDone(p)
  <2>1. /\ pc[p] = "docs" /\ pc'[p] \in {"prompt", "none"} /\ body'[p] = <<>>
        /\ came'[p] = buf'[p] /\ given'[p] = <<>>
        /\ buf'[p] = (IF p = Shell THEN buf[p] ELSE <<>>) /\ mixed'[p] = mixed[Shell]
    BY <1>3, Functions DEF DocsDone, Reset
  <2>2. <<>> \o buf'[p] = buf'[p]
    BY <1>1, <2>1, ConcatEmptySeq DEF Places
  <2>3. QED
    BY <1>1, <2>1, <2>2, NoLines
    DEF Steady, LocalOf, ControlOf, QueueOf, TerminalOf, Calling
<1>4. CASE Call(p)
  <2>1. /\ pc[p] = "call" /\ pc'[p] = IF HasNewline(buf[p]) THEN "line" ELSE "read"
        /\ buf'[p] = buf[p] /\ docs'[p] = docs[p] /\ came'[p] = came[p]
        /\ given'[p] = given[p] /\ body'[p] = body[p] /\ delim'[p] = delim[p]
        /\ fd0' = fd0 /\ mixed' = mixed
    BY <1>4, Functions DEF Call, docvars, hist
  <2>2. ~HasNewline(<<>>)
    BY DEF HasNewline
  <2>3. ControlOf(p)' /\ QueueOf(p)'
    BY <1>1, <2>1, <2>2 DEF LocalOf, ControlOf, QueueOf, Calling
  <2>4. LinesOf(p)'
    BY <1>1, <2>1, SameLines DEF Steady, LocalOf
  <2>5. TerminalOf(p)'
    <3> SUFFICES ASSUME tty, ~mixed[p]
                 PROVE  /\ buf'[p] = <<>> /\ pc'[p] = "read"
                        /\ fd0[p] = "input"
      BY <1>1, <2>1 DEF Steady, TerminalOf, HasNewline
    <3>1. buf[p] = <<>> /\ fd0[p] = "input"
      BY <2>1 DEF LocalOf, TerminalOf, Calling
    <3>2. QED
      BY <2>1, <2>2, <3>1
  <2>6. QED
    BY <2>3, <2>4, <2>5 DEF LocalOf
<1>5. CASE ReadInput(p)
  <2>1. PICK c : /\ Chunk(p, c, <<>>) /\ pc[p] = "read"
                 /\ off' \in off..cut
                 /\ \A S : (off + 1)..off' \subseteq S => c \in Seq(S)
                 /\ tty => \A k \in 1..(Len(c) - 1) : input[c[k]] # "nl"
    BY <1>5, InputChunk
  <2>2. (off + 1)..off' \subseteq 1..Len(input)
    BY <2>1, LenProperties DEF TypeOK
  <2>3. QED
    BY <1>1, <2>1, <2>2, ChunkLocal DEF Places
<1>6. CASE ReadPipe(p)
  <2>1. PICK c, r : /\ Chunk(p, c, r) /\ pc[p] = "read" /\ fd0[p] # "input"
                    /\ \A S : pipe[p] \in Seq(S) => c \in Seq(S) /\ r \in Seq(S)
    BY <1>6, PipeChunk
  <2>2. pipe[p] \in Places
    BY DEF TypeOK
  <2>3. ~(tty /\ ~mixed[p])
    BY <2>1 DEF LocalOf, TerminalOf, Calling
  <2>4. QED
    BY <1>1, <2>1, <2>2, <2>3, ChunkLocal DEF Places
<1>7. CASE TakeLine(p)
  BY <1>1, <1>7, TakeLocal
<1>8. CASE DropLine(p)
  <2>1. PICK x \in {<<>>, Rebuffer(buf[p], LineOf(buf[p]))} : Drop(p, x)
    BY <1>8 DEF DropLine
  <2>2. DocEnds(p) /\ pc[p] = "line"
    BY <1>8 DEF DropLine
  <2>3. x \in Places
    <3>1. LineOf(buf[p]) \in 0..Len(buf[p])
      BY <1>1, LineOfFacts DEF Places
    <3>2. QED
      BY <1>1, <2>1, <3>1, CutPlaces
  <2>4. tty /\ ~mixed[p] => x = <<>>
    BY <2>1, <2>2, LastLine
  <2>5. QED
    BY <1>1, <2>1, <2>2, <2>3, <2>4, EndsLocal
<1>9. CASE ReadFails(p)
  BY <1>1, <1>9, EndsLocal DEF ReadFails, Null
<1>10. CASE RedirIn(p)
  <2>1. pc[p] = "docs" /\ pc' = pc /\ buf' = buf /\ docs' = docs /\ delim' = delim
        /\ body' = body /\ came' = came /\ given' = given /\ mixed' = mixed
    BY <1>10 DEF RedirIn, hist
  <2>2. LinesOf(p)'
    BY <1>1, <2>1, SameLines DEF Steady, LocalOf
  <2>3. QED
    BY <1>1, <2>1, <2>2 DEF Steady, LocalOf, ControlOf, QueueOf, TerminalOf, Calling
<1>11. QED
  BY <1>2, <1>3, <1>4, <1>5, <1>6, <1>7, <1>8, <1>9, <1>10 DEF Own, Reader, Fails

-----------------------------------------------------------------------------
(***************************************************************************)
(* The steps of the whole, and the theorems.                               *)
(***************************************************************************)
\* Where a process may be, and how many here-documents it may have.
LEMMA OwnRange ==
  ASSUME TypeOK, NEW p \in Proc, LocalOf(p), Own(p)
  PROVE  /\ pc[p] \in Calling \cup {"docs"} /\ pc'[p] \in PC
         /\ docs'[p] \in 0..MaxDocs /\ delim'[p] \in Seq(Char)
         /\ fd0'[p] \in Source /\ mixed'[p] \in BOOLEAN
<1>1. /\ pc[p] \in PC /\ docs[p] \in 0..MaxDocs /\ delim[p] \in Seq(Char)
      /\ fd0[p] \in Source /\ \A q \in Proc : mixed[q] \in BOOLEAN
      /\ {"input", "file"} \subseteq Source /\ Shell \in Proc
      /\ Delimiters \subseteq Seq(Char) /\ MaxDocs \in Nat
  <2>1. Seq({"a", "b"}) \subseteq Seq(Char)
    BY DEF Char
  <2>2. QED
    BY <2>1, DelimitersAssumption, BufferAssumption DEF TypeOK, Source, Proc
<1>2. pc[p] \in Calling => docs[p] + 1 \in 0..MaxDocs
  BY <1>1 DEF LocalOf, ControlOf
<1>3. CASE OpenDoc(p)
  BY <1>1, <1>3, Functions DEF OpenDoc, PC
<1>4. CASE DocsDone(p)
  BY <1>1, <1>4, Functions DEF DocsDone, Reset, PC
<1>5. CASE Call(p)
  BY <1>1, <1>5, Functions DEF Call, docvars, hist, PC, Calling
<1>6. ASSUME NEW c, NEW r, pc[p] = "read", Chunk(p, c, r)
      PROVE  /\ pc'[p] \in PC /\ docs'[p] \in 0..MaxDocs /\ delim'[p] \in Seq(Char)
             /\ fd0'[p] \in Source /\ mixed'[p] \in BOOLEAN /\ pc[p] \in Calling
  <2>1. fd0'[p] \in Source /\ mixed'[p] \in BOOLEAN
    BY <1>1, <1>6, ChunkFrame
  <2>2. QED
    BY <1>1, <1>2, <1>6, <2>1, Functions DEF Chunk, Null, DocEnds, PC, Calling
<1>7. CASE ReadInput(p)
  BY <1>6, <1>7, InputChunk
<1>8. CASE ReadPipe(p)
  BY <1>6, <1>8, PipeChunk
<1>9. CASE TakeLine(p)
  BY <1>1, <1>2, <1>9, Functions DEF TakeLine, Drop, DocEnds, PC, Calling
<1>10. CASE DropLine(p)
  BY <1>1, <1>2, <1>10, Functions DEF DropLine, Drop, DocEnds, PC, Calling
<1>11. CASE ReadFails(p)
  BY <1>1, <1>2, <1>11, Functions DEF ReadFails, Null, Drop, DocEnds, PC, Calling
<1>12. CASE RedirIn(p)
  BY <1>1, <1>12, Functions DEF RedirIn, hist
<1>13. QED
  BY <1>3, <1>4, <1>5, <1>7, <1>8, <1>9, <1>10, <1>11, <1>12 DEF Own, Reader, Fails

\* A process's own step keeps the types.
LEMMA OwnType ==
  ASSUME TypeOK, NEW p \in Proc, LocalOf(p), Own(p)
  PROVE  TypeOK'
<1>1. /\ Frame(p) /\ input' = input /\ cut' = cut /\ tty' = tty
      /\ off' \in off..cut
  BY OwnFrame DEF text
<1>2. off' \in 0..cut /\ (off + 1)..off' \subseteq 1..Len(input)
      /\ (cut + 1)..Len(input) \subseteq 1..Len(input)
  BY <1>1, LenProperties DEF TypeOK
<1>3. PICK S : S = 1..Len(input)
  OBVIOUS
<1>4. Holds(p, S)'
  <2>1. Holds(p, S)
    BY <1>3 DEF Holds, TypeOK, Places
  <2>2. QED
    BY <1>2, <1>3, <2>1, OwnHolds
<1>5. /\ buf'[p] \in Places /\ came'[p] \in Places /\ given'[p] \in Places
      /\ pipe'[p] \in Places /\ body'[p] \in Seq(Places)
  BY <1>3, <1>4 DEF Holds, Places
<1>6. /\ buf' \in [Proc -> Places] /\ came' \in [Proc -> Places]
      /\ given' \in [Proc -> Places] /\ pipe' \in [Proc -> Places]
      /\ body' \in [Proc -> Seq(Places)]
  <2> HIDE DEF Places
  <2> QED
    BY <1>1, <1>5 DEF Frame, TypeOK
<1>7. /\ pc' \in [Proc -> PC] /\ docs' \in [Proc -> 0..MaxDocs]
      /\ delim' \in [Proc -> Seq(Char)] /\ fd0' \in [Proc -> Source]
      /\ mixed' \in [Proc -> BOOLEAN]
  BY <1>1, OwnRange DEF Frame, TypeOK
<1>8. Places' = Places
  BY <1>1 DEF Places
<1>9. QED
  BY <1>1, <1>2, <1>6, <1>7, <1>8 DEF TypeOK

\* The initial states.
LEMMA InitHolds == Init => IInv
<1> SUFFICES ASSUME Init PROVE IInv
  OBVIOUS
<1>1. /\ input \in Seq(Char) /\ cut \in 0..Len(input) /\ tty \in BOOLEAN /\ off = 0
      /\ MaxDocs \in Nat
  <2>1. PICK i \in Inputs : input = i.in \o i.other /\ cut = Len(i.in)
    BY DEF Init
  <2>2. i.in \in Seq(Char) /\ i.other \in Seq(Char \ {"eof"})
    BY InputsAssumption
  <2>3. i.other \in Seq(Char)
    BY <2>2, SeqMonotonic
  <2> DEFINE x == i.in
             y == i.other
  <2>4. input = x \o y /\ cut = Len(x) /\ x \in Seq(Char) /\ y \in Seq(Char)
    BY <2>1, <2>2, <2>3
  <2> HIDE DEF x, y
  <2>5. input \in Seq(Char) /\ Len(input) = Len(x) + Len(y) /\ Len(x) \in Nat /\ Len(y) \in Nat
    BY <2>4, ConcatProperties, LenProperties
  <2>6. QED
    BY <2>4, <2>5, BufferAssumption DEF Init
<1>2. \A p \in Proc : /\ pc[p] \in {"prompt", "none"} /\ buf[p] = <<>> /\ docs[p] = 0
                      /\ pipe[p] = <<>> /\ delim[p] = <<>> /\ body[p] = <<>>
                      /\ came[p] = <<>> /\ given[p] = <<>>
  BY DEF Init
<1>3. TypeOK
  <2>1. \A S : <<>> \in Seq(S)
    OBVIOUS
  <2>2. Len(input) \in Nat
    BY <1>1, LenProperties
  <2>3. /\ pc \in [Proc -> PC] /\ buf \in [Proc -> Places] /\ docs \in [Proc -> 0..MaxDocs]
        /\ pipe \in [Proc -> Places] /\ delim \in [Proc -> Seq(Char)]
        /\ body \in [Proc -> Seq(Places)] /\ came \in [Proc -> Places]
        /\ given \in [Proc -> Places]
    BY <1>1, <2>1 DEF Init, PC, Places
  <2>4. off \in 0..cut
    BY <1>1, <2>2
  <2>5. mixed \in [Proc -> BOOLEAN] /\ fd0 \in [Proc -> Source]
    BY DEF Init, Source
  <2>6. QED
    BY <1>1, <2>3, <2>4, <2>5 DEF TypeOK
<1>4. Local
  <2> SUFFICES ASSUME NEW p \in Proc PROVE LocalOf(p)
    BY DEF Local
  <2>1. <<>> \o <<>> = <<>> /\ Len(<<>>) = 0
    OBVIOUS
  <2>2. ControlOf(p) /\ QueueOf(p)
    BY <1>2, <2>1 DEF ControlOf, QueueOf, Calling
  <2>3. LinesOf(p)
    BY <1>2, <2>1 DEF LinesOf
  <2>4. TerminalOf(p)
    BY <1>2 DEF TerminalOf, Calling
  <2>5. QED
    BY <2>2, <2>3, <2>4 DEF LocalOf
<1>5. QED
  BY <1>3, <1>4 DEF IInv

\* The shell passes from one place to another, outside get_next_line, and
\* it or one of its programs has read some of the input.
LEMMA ShellMoves ==
  ASSUME IInv, NEW x \in PC \ Calling, pc' = [pc EXCEPT ![Shell] = x],
         pc[Shell] \notin {"read", "line"}, off' \in off..cut,
         UNCHANGED <<text, buf, docvars, hist>>
  PROVE  IInv'
<1>1. TypeOK /\ Shell \in Proc /\ off \in 0..cut
  BY DEF IInv, TypeOK, Proc
<1>2. off' \in 0..cut
  BY <1>1, LenProperties DEF TypeOK
<1>3. TypeOK'
  BY <1>1, <1>2 DEF TypeOK, text, docvars, hist, Places
<1>4. Local'
  <2> SUFFICES ASSUME NEW p \in Proc PROVE LocalOf(p)'
    BY DEF Local
  <2>1. LocalOf(p)
    BY DEF IInv, Local
  <2>2. Steady
    BY DEF Steady, text
  <2>3. CASE p # Shell
    <3>1. Frame(Shell)
      BY <1>1, Functions DEF Frame, docvars, hist
    <3>2. QED
      BY <1>1, <2>1, <2>2, <2>3, <3>1, FrameLocal
  <2>4. CASE p = Shell
    <3>1. /\ pc'[p] = x /\ buf' = buf /\ docs' = docs /\ delim' = delim /\ body' = body
          /\ came' = came /\ given' = given /\ mixed' = mixed
      BY <1>1, <2>4 DEF docvars, hist, TypeOK
    <3>2. LinesOf(p)'
      BY <2>1, <2>2, <3>1, SameLines DEF LocalOf, Steady
    <3>3. QED
      BY <2>1, <2>2, <2>4, <3>1, <3>2
      DEF Steady, LocalOf, ControlOf, QueueOf, TerminalOf, Calling
  <2>5. QED
    BY <2>3, <2>4
<1>5. QED
  BY <1>3, <1>4 DEF IInv

\* The shell forks a child, which gets a copy of its buffer.
LEMMA ForkStep ==
  ASSUME IInv, ForkLeft \/ ForkRight
  PROVE  IInv'
<1>1. PICK c \in Child, l \in {"fork_left", "fork_right"}, f \in Source, s \in Places :
        Fork(c, l, IF l = "fork_left" THEN "fork_right" ELSE "wait", f, s)
  <2>1. CASE ForkLeft
    <3>1. <<>> \in Places /\ "left" \in Child /\ "input" \in Source
      BY DEF Places, Child, Source
    <3>2. QED
      BY <2>1, <3>1 DEF ForkLeft
  <2>2. CASE ForkRight
    <3>1. PICK n \in 0..Len(Other) :
            Fork("right", "fork_right", "wait", "left", SubSeq(Other, 1, n))
      BY <2>2 DEF ForkRight
    <3>2. (cut + 1)..Len(input) \subseteq 1..Len(input)
      BY LenProperties DEF IInv, TypeOK
    <3>3. SubSeq(Other, 1, n) \in Places
      BY <3>2, OtherPlaces DEF IInv, Places
    <3>4. "right" \in Child /\ "left" \in Source
      BY DEF Child, Source
    <3>5. QED
      BY <3>1, <3>3, <3>4
  <2>3. QED
    BY <2>1, <2>2
<1> DEFINE k == IF l = "fork_left" THEN "fork_right" ELSE "wait"
<1>2. /\ TypeOK /\ Shell \in Proc /\ c \in Proc /\ c # Shell
      /\ Proc = {Shell, "left", "right"} /\ "left" # "right"
      /\ Shell # "left" /\ Shell # "right"
  BY DEF IInv, Proc, Child, Shell
<1>3. /\ input' = input /\ cut' = cut /\ tty' = tty /\ off' = off
      /\ pc[Shell] = l /\ pc' = [pc EXCEPT ![c] = "docs", ![Shell] = k]
      /\ buf' = [buf EXCEPT ![c] = buf[Shell]] /\ came' = [came EXCEPT ![c] = buf[Shell]]
      /\ given' = [given EXCEPT ![c] = <<>>] /\ docs' = [docs EXCEPT ![c] = 0]
      /\ pipe' = [pipe EXCEPT ![c] = s] /\ delim' = [delim EXCEPT ![c] = <<>>]
      /\ body' = [body EXCEPT ![c] = <<>>] /\ fd0' = [fd0 EXCEPT ![c] = f]
      /\ mixed' = [mixed EXCEPT ![c] = mixed[Shell]]
  BY <1>1 DEF Fork, Reset, text
<1>4. /\ pc'[c] = "docs" /\ pc'[Shell] = k
      /\ buf'[c] = buf[Shell] /\ came'[c] = buf[Shell] /\ given'[c] = <<>>
      /\ docs'[c] = 0 /\ body'[c] = <<>> /\ mixed'[c] = mixed[Shell]
      /\ \A q \in Proc \ {c} :
           /\ q # Shell => pc'[q] = pc[q]
           /\ buf'[q] = buf[q] /\ came'[q] = came[q] /\ given'[q] = given[q]
           /\ docs'[q] = docs[q] /\ pipe'[q] = pipe[q] /\ delim'[q] = delim[q]
           /\ body'[q] = body[q] /\ fd0'[q] = fd0[q] /\ mixed'[q] = mixed[q]
  BY <1>2, <1>3, Functions
<1>5. buf[Shell] \in Places /\ \A S : <<>> \in Seq(S)
  BY <1>2 DEF TypeOK
<1>6. TypeOK'
  <2>1. /\ pc' \in [Proc -> PC] /\ k \in PC
    BY <1>2, <1>3 DEF TypeOK, PC
  <2>2. docs' \in [Proc -> 0..MaxDocs]
    BY <1>2, <1>3, BufferAssumption DEF TypeOK
  <2>3. /\ buf' \in [Proc -> Places] /\ came' \in [Proc -> Places]
        /\ given' \in [Proc -> Places] /\ pipe' \in [Proc -> Places]
        /\ delim' \in [Proc -> Seq(Char)] /\ body' \in [Proc -> Seq(Places)]
    BY <1>1, <1>2, <1>3, <1>5 DEF TypeOK, Places
  <2>4. Places' = Places
    BY <1>3 DEF Places
  <2>5. fd0' \in [Proc -> Source] /\ mixed' \in [Proc -> BOOLEAN]
    BY <1>1, <1>2, <1>3 DEF TypeOK
  <2>6. QED
    BY <1>2, <1>3, <2>1, <2>2, <2>3, <2>4, <2>5 DEF TypeOK
<1>7. Local'
  <2> SUFFICES ASSUME NEW p \in Proc PROVE LocalOf(p)'
    BY DEF Local
  <2>1. LocalOf(p) /\ LocalOf(Shell)
    BY <1>2 DEF IInv, Local
  <2>2. Steady
    BY <1>3 DEF Steady
  <2>3. CASE p = c
    <3>1. <<>> \o buf[Shell] = buf[Shell]
      BY <1>5, ConcatEmptySeq DEF Places
    <3>2. tty /\ ~mixed[Shell] => buf[Shell] = <<>>
      BY <1>3, <2>1 DEF LocalOf, TerminalOf
    <3>3. QED
      BY <1>3, <1>4, <2>3, <3>1, <3>2, NoLines
      DEF LocalOf, ControlOf, QueueOf, TerminalOf, Calling
  <2>4. CASE p # c /\ p # Shell
    <3>1. /\ pc'[p] = pc[p] /\ buf'[p] = buf[p] /\ came'[p] = came[p]
          /\ given'[p] = given[p] /\ docs'[p] = docs[p] /\ delim'[p] = delim[p]
          /\ body'[p] = body[p] /\ fd0'[p] = fd0[p] /\ mixed'[p] = mixed[p]
      BY <1>4, <2>4
    <3>2. LinesOf(p)'
      BY <1>3, <2>1, <3>1, SameLines DEF LocalOf
    <3>3. QED
      BY <1>3, <2>1, <3>1, <3>2, ZenonT(60)
      DEF LocalOf, ControlOf, QueueOf, TerminalOf, HasNewline, Calling
  <2>5. CASE p = Shell
    <3>1. /\ pc'[p] = k /\ buf'[p] = buf[p] /\ came'[p] = came[p]
          /\ given'[p] = given[p] /\ docs'[p] = docs[p] /\ delim'[p] = delim[p]
          /\ body'[p] = body[p] /\ mixed'[p] = mixed[p] /\ pc[p] = l
      BY <1>2, <1>3, <1>4, <2>5
    <3>2. pc[p] \notin {"read", "line"} /\ pc'[p] \notin Calling
      BY <3>1 DEF Calling
    <3>3. LinesOf(p)' /\ QueueOf(p)'
      BY <1>3, <2>1, <3>1, SameLines DEF LocalOf, QueueOf
    <3>4. ControlOf(p)' /\ TerminalOf(p)'
      BY <1>3, <2>1, <3>1, <3>2 DEF LocalOf, ControlOf, TerminalOf, Calling
    <3>5. QED
      BY <3>3, <3>4 DEF LocalOf
  <2>6. QED
    BY <2>3, <2>4, <2>5
<1>8. QED
  BY <1>6, <1>7 DEF IInv

\* Nothing happens.
LEMMA Stutter == IInv /\ UNCHANGED vars => IInv'
<1> SUFFICES ASSUME IInv, UNCHANGED vars PROVE IInv'
  OBVIOUS
<1>1. TypeOK'
  BY DEF vars, text, docvars, hist, IInv, TypeOK, Places
<1>2. Local'
  <2> SUFFICES ASSUME NEW p \in Proc PROVE LocalOf(p)'
    BY DEF Local
  <2>1. LocalOf(p)
    BY DEF IInv, Local
  <2>2. ControlOf(p)' /\ QueueOf(p)'
    BY <2>1 DEF vars, text, docvars, hist, LocalOf, ControlOf, QueueOf, Calling
  <2>3. LinesOf(p)' /\ TerminalOf(p)'
    BY <2>1 DEF vars, text, docvars, hist, LocalOf, LinesOf, Text, TerminalOf,
                HasNewline, Calling
  <2>4. QED
    BY <2>2, <2>3 DEF LocalOf
<1>3. QED
  BY <1>1, <1>2 DEF IInv

\* Every step.
LEMMA StepHolds == IInv /\ [Next]_vars => IInv'
<1> SUFFICES ASSUME IInv, [Next]_vars PROVE IInv'
  OBVIOUS
<1>1. TypeOK /\ off \in 0..cut /\ cut \in Nat
  BY LenProperties DEF IInv, TypeOK
<1>2. \A n \in Available : off + n \in off..cut
  BY <1>1, AvailableFacts
<1>3. CASE ReadLine
  <2>1. pc[Shell] = "prompt"
    BY <1>3 DEF ReadLine
  <2>2. PICK l \in {"docs", "fork_left", "wait", "prompt"} :
          pc' = [pc EXCEPT ![Shell] = l]
    BY <1>3 DEF ReadLine
  <2>3. off' \in off..cut /\ UNCHANGED <<text, buf, docvars, hist>>
    BY <1>2, <1>3 DEF ReadLine
  <2>4. l \in PC \ Calling
    BY DEF PC, Calling
  <2>5. QED
    BY <2>1, <2>2, <2>3, <2>4, ShellMoves
<1>4. CASE EndOfInput
  <2>1. "exited" \in PC \ Calling /\ off \in off..cut
    BY <1>1 DEF PC, Calling
  <2>2. pc[Shell] = "prompt"
    BY <1>4 DEF EndOfInput
  <2>3. QED
    BY <1>4, <2>1, <2>2, ShellMoves DEF EndOfInput
<1>5. CASE ProgramReads
  <2>1. "wait" \in PC \ Calling /\ pc' = [pc EXCEPT ![Shell] = "wait"]
    BY <1>1, <1>5 DEF ProgramReads, PC, Calling, TypeOK
  <2>2. off' \in off..cut
    BY <1>1, <1>2, <1>5 DEF ProgramReads, PastEof
  <2>3. QED
    BY <1>5, <2>1, <2>2, ShellMoves DEF ProgramReads
<1>6. CASE Wait
  <2>1. "prompt" \in PC \ Calling /\ off \in off..cut
    BY <1>1 DEF PC, Calling
  <2>2. pc[Shell] = "wait"
    BY <1>6 DEF Wait
  <2>3. QED
    BY <1>6, <2>1, <2>2, ShellMoves DEF Wait
<1>7. CASE ForkLeft \/ ForkRight
  BY <1>7, ForkStep
<1>8. ASSUME NEW p \in Proc, Own(p) PROVE IInv'
  <2>1. \A q \in Proc : LocalOf(q)
    BY DEF IInv, Local
  <2>2. TypeOK'
    BY <1>1, <1>8, <2>1, OwnType
  <2>3. Frame(p) /\ Steady
    BY <1>1, <1>8, OwnFrame DEF Steady, text
  <2>4. ASSUME NEW q \in Proc PROVE LocalOf(q)'
    <3>1. CASE q = p
      BY <1>1, <1>8, <2>1, <3>1, OwnLocal
    <3>2. CASE q # p
      BY <1>1, <2>1, <2>3, <3>2, FrameLocal
    <3>3. QED
      BY <3>1, <3>2
  <2>5. QED
    BY <2>2, <2>4 DEF IInv, Local
<1>9. CASE UNCHANGED vars
  BY <1>9, Stutter
<1>10. QED
  BY <1>3, <1>4, <1>5, <1>6, <1>7, <1>8, <1>9 DEF Next, Exited, Own

\* The conjunction of the invariants is inductive.
THEOREM Inductive == Spec => []IInv
<1>1. QED
  BY InitHolds, StepHolds, PTL DEF Spec

(***************************************************************************)
(* Every reachable state is well typed, for every input, buffer size and   *)
(* chain of here-documents: whatever is in a buffer or a pipe has a place  *)
(* in the input.                                                           *)
(***************************************************************************)
THEOREM TypeCorrect == Spec => []TypeOK
<1>1. IInv => TypeOK
  BY DEF IInv
<1>2. QED
  BY <1>1, Inductive, PTL

(***************************************************************************)
(* get_next_line gives out what came in, in that order, whatever the size  *)
(* of a chunk and wherever the chunks come from.                           *)
(***************************************************************************)
THEOREM QueueKept == Spec => []Queue
<1>1. IInv => Queue
  BY DEF IInv, Local, LocalOf, QueueOf, Queue
<1>2. QED
  BY <1>1, Inductive, PTL

\* A here-document's pipe gets whole lines, up to the delimiter.
THEOREM LinesWhole == Spec => []WholeLines
<1>1. IInv => WholeLines
  BY DEF IInv, Local, LocalOf, LinesOf, WholeLines
<1>2. QED
  BY <1>1, Inductive, PTL

(***************************************************************************)
(* On a terminal nothing is left over in the buffer of a process whose     *)
(* here-documents have all read the terminal.                              *)
(***************************************************************************)
THEOREM TerminalLeftClean == Spec => []TerminalClean
<1>1. IInv => TerminalClean
  BY DEF IInv, Local, LocalOf, TerminalOf, TerminalClean
<1>2. QED
  BY <1>1, Inductive, PTL

=============================================================================

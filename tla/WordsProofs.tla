----------------------------- MODULE WordsProofs -----------------------------
(***************************************************************************)
(* Proofs about the way of a line to its words (modules Lexer, Expand and  *)
(* Words): lines of every length are cut without losing a character, for   *)
(* every first size of the buffer and every environment nothing is written *)
(* outside the buffer or read behind a token, wherever malloc fails, and   *)
(* while it does not, each word is what its characters say.                *)
(***************************************************************************)
EXTENDS Words, Induction

-----------------------------------------------------------------------------
(***************************************************************************)
(* The lexer.                                                              *)
(***************************************************************************)
\* What is known of the token that is read.
LexReading ==
  /\ mode \in {"skip", "done"} => len = 0
  /\ mode = "done" => pos = Len(input)
  /\ mode \in {"quote", "word"} => len >= 1
  /\ mode = "quote" =>
       First \in Quote /\ \A c \in (pos + 2)..(pos + len) : input[c] # First
  /\ mode \in {"skip", "quote", "word"} =>
       \A t \in 1..Len(tokens) :
         tokens[t].merge /\ t = Len(tokens) =>
           pos < Len(input) /\ input[pos + 1] # " "
  /\ mode = "word" => \A c \in (pos + 1)..(pos + len) : input[c] \notin Stop

LexInv == LexTypeOK /\ Partition /\ Shapes /\ MergeTouches /\ LexReading

Entry == [from : Nat, to : Nat, merge : BOOLEAN]

Shape(f, l) == IsQuoted(f, l) \/ IsUnclosed(f, l) \/ IsOperator(f, l) \/ IsWord(f, l)

\* A token of n characters that begins at pos, in one of the four shapes,
\* goes to the end of the list, or the list is given up.
LEMMA EmitKeeps ==
  ASSUME LexInv, mode \in {"skip", "quote", "word"}, NEW n \in Nat, n >= 1, pos + n <= Len(input),
         Shape(pos + 1, pos + n), Emit(n)
  PROVE  LexInv'
<1> DEFINE k == Len(tokens)
           new == Piece(n)
<1>1. /\ input \in Seq(Char) /\ pos \in Nat /\ tokens \in Seq(Entry) /\ k \in Nat
      /\ input' = input /\ len' = 0
  BY DEF LexInv, LexTypeOK, Emit, Entry
<1>2. CASE tokens' = <<>> /\ mode' = "null" /\ pos' = pos
  <2>1. Len(tokens') = 0 /\ tokens' \in Seq(Entry)
    BY <1>2
  <2>2. LexTypeOK'
    BY <1>1, <1>2, <2>1 DEF LexTypeOK, LexInv, Entry
  <2>3. Partition'
    BY <1>2, <2>1 DEF Partition
  <2>4. Shapes' /\ MergeTouches'
    BY <2>1 DEF Shapes, MergeTouches
  <2>5. LexReading'
    BY <1>1, <1>2 DEF LexReading
  <2> QED
    BY <2>2, <2>3, <2>4, <2>5 DEF LexInv
<1>3. CASE tokens' = Append(tokens, new) /\ pos' = pos + n /\ mode' = "skip"
  <2>1. ProximityException(pos + n) \in BOOLEAN
    BY DEF ProximityException
  <2>2. /\ new \in Entry /\ new.from = pos + 1 /\ new.to = pos + n
        /\ new.merge = ProximityException(pos + n)
    BY <1>1, <2>1 DEF Piece, Entry
  <2> HIDE DEF new
  <2>3. /\ tokens' \in Seq(Entry) /\ Len(tokens') = k + 1 /\ tokens'[k + 1] = new
        /\ \A t \in 1..k : tokens'[t] = tokens[t]
    BY <1>1, <1>3, <2>2
  <2>a. \A t \in 1..k : tokens[t].from \in Nat /\ tokens[t].to \in Nat
    <3>1. \A t \in 1..k : tokens[t] \in Entry
      BY <1>1
    <3> QED
      BY <3>1 DEF Entry
  <2>4. LexTypeOK'
    BY <1>1, <1>3, <2>3 DEF LexTypeOK, Entry
  <2>5. Partition'
    <3>1. \A t \in 1..(k + 1) :
            /\ 1 <= tokens'[t].from /\ tokens'[t].from <= tokens'[t].to
            /\ tokens'[t].to <= pos + n
            /\ \A u \in 1..(k + 1) : t < u => tokens'[t].to < tokens'[u].from
      <4>1. \A t \in 1..k : /\ 1 <= tokens[t].from /\ tokens[t].from <= tokens[t].to
                            /\ tokens[t].to <= pos
                            /\ \A u \in 1..k : t < u => tokens[t].to < tokens[u].from
        BY DEF LexInv, Partition
      <4> HIDE DEF k
      <4>2. ASSUME NEW t \in 1..k
            PROVE  /\ 1 <= tokens'[t].from /\ tokens'[t].from <= tokens'[t].to
                   /\ tokens'[t].to <= pos + n
                   /\ \A u \in 1..(k + 1) : t < u => tokens'[t].to < tokens'[u].from
        <5>1. tokens'[t] = tokens[t] /\ tokens[t].to \in Nat /\ tokens[t].to <= pos
          BY <4>1, <2>3, <2>a
        <5>2. ASSUME NEW u \in 1..(k + 1), t < u PROVE tokens[t].to < tokens'[u].from
          <6>1. CASE u \in 1..k
            BY <4>1, <5>2, <6>1, <2>3
          <6>2. CASE u = k + 1
            BY <5>1, <6>2, <1>1, <2>2, <2>3
          <6>3. u \in 1..k \/ u = k + 1
            <7>1. k \in Nat
              BY <1>1
            <7> QED
              BY <7>1
          <6> QED
            BY <6>1, <6>2, <6>3
        <5>3. 1 <= tokens[t].from /\ tokens[t].from <= tokens[t].to
          BY <4>1
        <5>4. pos \in Nat /\ tokens[t].to <= pos + n
          BY <5>1, <1>1
        <5> QED
          BY <5>1, <5>2, <5>3, <5>4
      <4>3. ASSUME NEW t \in 1..(k + 1), t = k + 1
            PROVE  /\ 1 <= tokens'[t].from /\ tokens'[t].from <= tokens'[t].to
                   /\ tokens'[t].to <= pos + n
                   /\ \A u \in 1..(k + 1) : t < u => tokens'[t].to < tokens'[u].from
        BY <4>3, <1>1, <2>2, <2>3
      <4>4. \A t \in 1..(k + 1) : t \in 1..k \/ t = k + 1
        BY <1>1
      <4> QED
        BY <4>2, <4>3, <4>4
    <3>2. ASSUME NEW c \in 1..(pos + n), input[c] # " "
          PROVE  \E t \in 1..(k + 1) : tokens'[t].from <= c /\ c <= tokens'[t].to
      <4>1. CASE c <= pos
        <5>1. c \in 1..pos
          BY <4>1, <1>1
        <5>2. \E t \in 1..Len(tokens) : tokens[t].from <= c /\ c <= tokens[t].to
          BY <3>2, <5>1 DEF LexInv, Partition
        <5>3. PICK t \in 1..k : tokens[t].from <= c /\ c <= tokens[t].to
          BY <5>2
        <5> QED
          BY <5>3, <2>3, <1>1
      <4>2. CASE c > pos
        BY <4>2, <2>2, <2>3, <1>1
      <4> QED
        BY <4>1, <4>2, <1>1
    <3> QED
      BY <3>1, <3>2, <1>1, <1>3, <2>3 DEF Partition
  <2>6. Shapes'
    <3> SUFFICES ASSUME NEW t \in 1..(k + 1) PROVE Shape(tokens'[t].from, tokens'[t].to)
      BY <1>1, <2>3 DEF Shapes, Shape, IsQuoted, IsUnclosed, IsOperator, IsWord
    <3>1. CASE t = k + 1
      BY <3>1, <2>2, <2>3
    <3>2. CASE t \in 1..k
      BY <3>2, <2>3 DEF LexInv, Shapes, Shape
    <3> QED
      BY <3>1, <3>2, <1>1
  <2>7. MergeTouches'
    <3> SUFFICES ASSUME NEW t \in 1..(k + 1), tokens'[t].merge
                 PROVE  \/ t < k + 1 /\ tokens'[t + 1].from = tokens'[t].to + 1
                        \/ t = k + 1 /\ tokens'[t].to = pos + n
      BY <1>1, <1>3, <2>3 DEF MergeTouches
    <3>1. CASE t = k + 1
      BY <3>1, <2>2, <2>3
    <3>2. CASE t \in 1..(k - 1)
      BY <3>2, <2>3, <1>1 DEF LexInv, MergeTouches
    <3>3. CASE t \in 1..k /\ t = k
      <4>1. tokens[t].merge /\ tokens'[t] = tokens[t]
        BY <3>3, <2>3
      <4>2. tokens[t].to = pos
        BY <3>3, <4>1 DEF LexInv, MergeTouches
      <4> QED
        BY <3>3, <4>1, <4>2, <2>2, <2>3
    <3> QED
      BY <3>1, <3>2, <3>3, <1>1
  <2>8. LexReading'
    <3>1. new.merge => pos + n < Len(input) /\ input[pos + n + 1] # " "
      BY <2>2 DEF ProximityException
    <3> QED
      BY <1>1, <1>3, <2>3, <3>1 DEF LexReading
  <2> QED
    BY <2>4, <2>5, <2>6, <2>7, <2>8 DEF LexInv
<1> QED
  BY <1>2, <1>3 DEF Emit

\* The lexer starts in the invariant.
LEMMA LexInvInit == LexInit => LexInv
<1> SUFFICES ASSUME LexInit PROVE LexInv
  OBVIOUS
<1>1. /\ input \in Seq(Char) /\ pos = 0 /\ len = 0 /\ mode = "skip"
      /\ tokens \in Seq(Entry) /\ Len(tokens) = 0
  BY LinesAssumption DEF LexInit
<1>2. LexTypeOK
  BY <1>1 DEF LexTypeOK, Entry
<1>3. Partition /\ Shapes /\ MergeTouches /\ LexReading
  BY <1>1 DEF Partition, Shapes, MergeTouches, LexReading
<1> QED
  BY <1>2, <1>3 DEF LexInv

\* Every step keeps the invariant.
LEMMA LexInvStep == LexInv /\ [LexNext]_lexVars => LexInv'
<1> SUFFICES ASSUME LexInv, [LexNext]_lexVars PROVE LexInv'
  OBVIOUS
<1>0. /\ input \in Seq(Char) /\ pos \in Nat /\ len \in Nat /\ pos + len <= Len(input)
      /\ tokens \in Seq(Entry) /\ Len(input) \in Nat
  BY DEF LexInv, LexTypeOK, Entry
<1> DEFINE Same == input' = input /\ tokens' = tokens /\ pos' = pos
<1>1. ASSUME Same, mode # "null", mode # "done", mode' \in {"quote", "word"}, len' \in Nat,
             pos' + len' <= Len(input), LexReading'
      PROVE  LexInv'
  <2>1. LexTypeOK'
    BY <1>0, <1>1 DEF LexInv, LexTypeOK
  <2>2. Partition'
    BY <1>1 DEF LexInv, Partition
  <2>3. Shapes'
    BY <1>1 DEF LexInv, Shapes, IsQuoted, IsUnclosed, IsOperator, IsWord
  <2>4. MergeTouches'
    BY <1>1 DEF LexInv, MergeTouches
  <2> QED
    BY <1>1, <2>1, <2>2, <2>3, <2>4 DEF LexInv
<1>2. CASE SkipSpace
  <2>1. /\ mode = "skip" /\ pos + len < Len(input) /\ input[pos + 1] = " "
        /\ pos' = pos + 1 /\ UNCHANGED <<input, len, tokens, mode>>
    BY <1>2 DEF SkipSpace, Left, First
  <2>2. len = 0
    BY <2>1 DEF LexInv, LexReading
  <2>c. pos + len < Len(input)
    BY <2>1
  <2>d. pos + 0 < Len(input)
    BY <1>0, <2>c, <2>2
  <2>a. pos + 1 \in Nat /\ (pos + 1) + 0 <= Len(input)
    BY <1>0, <2>d
  <2>b. /\ input' = input /\ tokens' = tokens /\ mode' = "skip" /\ len' = 0
        /\ pos' = pos + 1
    BY <2>1, <2>2
  <2>3. LexTypeOK'
    BY <1>0, <2>a, <2>b DEF LexTypeOK, Entry
  <2>4. Partition'
    <3>a. \A t \in 1..Len(tokens) :
            /\ 1 <= tokens[t].from /\ tokens[t].from <= tokens[t].to /\ tokens[t].to <= pos
            /\ \A u \in 1..Len(tokens) : t < u => tokens[t].to < tokens[u].from
      BY DEF LexInv, Partition
    <3>b. \A t \in 1..Len(tokens) : tokens[t].to \in Nat
      <4>1. \A t \in 1..Len(tokens) : tokens[t] \in Entry
        BY <1>0
      <4> QED
        BY <4>1 DEF Entry
    <3>1. \A t \in 1..Len(tokens) : tokens[t].to <= pos + 1
      BY <3>a, <3>b, <1>0
    <3>2. ASSUME NEW c \in 1..(pos + 1), input[c] # " "
          PROVE  \E t \in 1..Len(tokens) : tokens[t].from <= c /\ c <= tokens[t].to
      <4>0. c # pos + 1
        BY <2>1, <3>2, Zenon
      <4>1. c \in 1..pos
        BY <1>0, <4>0
      <4> QED
        BY <4>1, <3>2, <2>1 DEF LexInv, Partition
    <3> QED
      BY <2>1, <3>a, <3>1, <3>2 DEF Partition
  <2>5. Shapes'
    BY <2>b DEF LexInv, Shapes, IsQuoted, IsUnclosed, IsOperator, IsWord
  <2>6. MergeTouches'
    \* A space comes next: the last token is not to be merged.
    <3> SUFFICES ASSUME NEW t \in 1..Len(tokens), tokens[t].merge
                 PROVE  t < Len(tokens) /\ tokens[t + 1].from = tokens[t].to + 1
      BY <2>1 DEF MergeTouches
    <3>1. t # Len(tokens)
      BY <2>1 DEF LexInv, LexReading
    <3> QED
      BY <2>1, <3>1 DEF LexInv, MergeTouches
  <2>7. LexReading'
    <3>1. \A t \in 1..Len(tokens) : ~(tokens[t].merge /\ t = Len(tokens))
      BY <2>1 DEF LexInv, LexReading
    <3> QED
      BY <2>b, <3>1 DEF LexReading
  <2> QED
    BY <2>3, <2>4, <2>5, <2>6, <2>7 DEF LexInv
<1>3. CASE EndOfLine
  <2>1. /\ mode = "skip" /\ ~(pos + len < Len(input)) /\ mode' = "done"
        /\ input' = input /\ pos' = pos /\ len' = len /\ tokens' = tokens
    BY <1>3 DEF EndOfLine, Left
  <2>2. len = 0
    BY <2>1 DEF LexInv, LexReading
  <2>3. pos = Len(input)
    BY <1>0, <2>1, <2>2
  <2>4. \A t \in 1..Len(tokens) : ~(tokens[t].merge /\ t = Len(tokens))
    <3>1. ~(pos < Len(input))
      BY <1>0, <2>3
    <3> QED
      BY <2>1, <3>1 DEF LexInv, LexReading
  <2>5. LexTypeOK' /\ Partition'
    BY <1>0, <2>1 DEF LexInv, LexTypeOK, Partition
  <2>6. Shapes'
    BY <2>1 DEF LexInv, Shapes, IsQuoted, IsUnclosed, IsOperator, IsWord
  <2>7. MergeTouches'
    BY <2>1, <2>4 DEF LexInv, MergeTouches
  <2>8. LexReading'
    BY <2>1, <2>2, <2>3 DEF LexReading
  <2> QED
    BY <2>5, <2>6, <2>7, <2>8 DEF LexInv
<1>4. CASE Open \/ Word
  <2>1. /\ mode = "skip" /\ pos + len < Len(input) /\ len' = 1
        /\ input' = input /\ pos' = pos /\ tokens' = tokens
        /\ \/ mode' = "quote" /\ input[pos + 1] \in Quote
           \/ mode' = "word" /\ input[pos + 1] \notin Stop
    BY <1>4 DEF Open, Word, Left, First
  <2>2. pos + 1 <= Len(input)
    <3>1. len = 0
      BY <2>1 DEF LexInv, LexReading
    <3>2. pos + 0 < Len(input)
      BY <2>1, <3>1
    <3> QED
      BY <1>0, <3>2
  <2>3. \A c \in (pos + 2)..(pos + 1) : FALSE
    BY <1>0
  <2>4. \A c \in (pos + 1)..(pos + 1) : c = pos + 1
    BY <1>0
  <2>5. \A t \in 1..Len(tokens) :
          tokens[t].merge /\ t = Len(tokens) => pos < Len(input) /\ input[pos + 1] # " "
    BY <2>1 DEF LexInv, LexReading
  <2>6. LexReading'
    <3>a. len' >= 1 /\ First' = input[pos + 1]
      BY <2>1 DEF First
    <3>b. \A t \in 1..Len(tokens') :
            tokens'[t].merge /\ t = Len(tokens') =>
              pos' < Len(input') /\ input'[pos' + 1] # " "
      BY <2>1, <2>5
    <3>1. CASE mode' = "quote"
      <4>1. input[pos + 1] \in Quote
        BY <2>1, <3>1
      <4>2. \A c \in (pos' + 2)..(pos' + len') : input'[c] # First'
        BY <2>1, <2>3
      <4> QED
        BY <3>1, <3>a, <3>b, <4>1, <4>2 DEF LexReading
    <3>2. CASE mode' = "word"
      <4>1. input[pos + 1] \notin Stop
        BY <2>1, <3>2
      <4>2. \A c \in (pos' + 1)..(pos' + len') : input'[c] \notin Stop
        BY <2>1, <2>4, <4>1
      <4> QED
        BY <3>2, <3>a, <3>b, <4>2 DEF LexReading
    <3> QED
      BY <2>1, <3>1, <3>2
  <2> QED
    BY <1>1, <2>1, <2>2, <2>6
<1>5. CASE InQuote \/ InWord
  <2>1. /\ pos + len < Len(input) /\ len' = len + 1 /\ mode' = mode
        /\ input' = input /\ pos' = pos /\ tokens' = tokens
        /\ \/ mode = "quote" /\ This # First
           \/ mode = "word" /\ This \notin Stop
    BY <1>5 DEF InQuote, InWord, Left
  <2>2. /\ len + 1 \in Nat /\ pos + (len + 1) <= Len(input) /\ len + 1 >= 1
    BY <1>0, <2>1
  <2>3. This = input[pos + len + 1]
    BY DEF This
  <2>4. \A c \in (pos + 2)..(pos + (len + 1)) : c \in (pos + 2)..(pos + len) \/ c = pos + len + 1
    BY <1>0
  <2>5. \A c \in (pos + 1)..(pos + (len + 1)) : c \in (pos + 1)..(pos + len) \/ c = pos + len + 1
    BY <1>0
  <2>6. mode = "quote" => First \in Quote /\ \A c \in (pos + 2)..(pos + (len + 1)) : input[c] # First
    BY <2>1, <2>3, <2>4 DEF LexInv, LexReading
  <2>7. mode = "word" => \A c \in (pos + 1)..(pos + (len + 1)) : input[c] \notin Stop
    BY <2>1, <2>3, <2>5 DEF LexInv, LexReading
  <2>8. First' = First
    BY <2>1 DEF First
  <2>9. \A t \in 1..Len(tokens) :
          tokens[t].merge /\ t = Len(tokens) => pos < Len(input) /\ input[pos + 1] # " "
    BY <2>1 DEF LexInv, LexReading
  <2>10. LexReading'
    BY <2>1, <2>2, <2>6, <2>7, <2>8, <2>9 DEF LexReading
  <2> QED
    BY <1>1, <2>1, <2>2, <2>10
<1>6. CASE CloseQuote
  <2>1. mode = "quote" /\ pos + len < Len(input) /\ input[pos + len + 1] = First /\ Emit(len + 1)
    BY <1>6 DEF CloseQuote, Left, This
  <2>2. /\ len >= 1 /\ First \in Quote
        /\ \A c \in (pos + 2)..(pos + len) : input[c] # First
    BY <2>1 DEF LexInv, LexReading
  <2>3. IsQuoted(pos + 1, pos + (len + 1))
    <3>1. pos + 1 < pos + (len + 1) /\ pos + (len + 1) = pos + len + 1
      BY <1>0, <2>2
    <3>2. (pos + 1) + 1 = pos + 2 /\ (pos + (len + 1)) - 1 = pos + len
      BY <1>0
    <3>3. input[pos + 1] = First
      BY DEF First
    <3> QED
      BY <2>1, <2>2, <3>1, <3>2, <3>3 DEF IsQuoted
  <2>4. len + 1 \in Nat /\ len + 1 >= 1 /\ pos + (len + 1) <= Len(input)
    BY <1>0, <2>1
  <2>5. Shape(pos + 1, pos + (len + 1))
    BY <2>3 DEF Shape
  <2> QED
    BY <2>1, <2>4, <2>5, EmitKeeps
<1>7. CASE NoClose
  <2>1. mode = "quote" /\ ~(pos + len < Len(input)) /\ Emit(1)
    BY <1>7 DEF NoClose, Left
  <2>2. /\ len >= 1 /\ First \in Quote
        /\ \A c \in (pos + 2)..(pos + len) : input[c] # First
    BY <2>1 DEF LexInv, LexReading
  <2>3. pos + len = Len(input) /\ (pos + 1) + 1 = pos + 2 /\ pos + 1 <= Len(input)
    BY <1>0, <2>1, <2>2
  <2>4. IsUnclosed(pos + 1, pos + 1)
    BY <2>2, <2>3 DEF IsUnclosed, First
  <2>5. Shape(pos + 1, pos + 1)
    BY <2>4 DEF Shape
  <2>6. 1 \in Nat /\ 1 >= 1
    OBVIOUS
  <2> QED
    BY <2>1, <2>3, <2>5, <2>6, EmitKeeps
<1>8. CASE TakeOperator
  <2> DEFINE n == IF First # "|" /\ pos + 1 < Len(input) /\ input[pos + 2] = First
                  THEN 2 ELSE 1
  <2>1. mode = "skip" /\ pos + len < Len(input) /\ First \in Operator /\ Emit(n)
    BY <1>8 DEF TakeOperator, Left
  <2>2. pos + 1 <= Len(input)
    <3>1. len = 0
      BY <2>1 DEF LexInv, LexReading
    <3>2. pos + 0 < Len(input)
      BY <2>1, <3>1
    <3> QED
      BY <1>0, <3>2
  <2>3. input[pos + 1] = First
    BY DEF First
  <2>4. /\ n \in Nat /\ n >= 1 /\ pos + n <= Len(input)
        /\ IsOperator(pos + 1, pos + n)
    <3>1. CASE First # "|" /\ pos + 1 < Len(input) /\ input[pos + 2] = First
      <4>1. n = 2 /\ pos + n = pos + 2 /\ pos + 2 = (pos + 1) + 1 /\ pos + 2 <= Len(input)
            /\ pos + 2 # pos + 1 /\ pos + 2 <= (pos + 1) + 1
        BY <1>0, <3>1
      <4>2. IsOperator(pos + 1, pos + 2)
        BY <2>1, <2>3, <3>1, <4>1 DEF IsOperator
      <4> QED
        BY <4>1, <4>2
    <3>2. CASE ~(First # "|" /\ pos + 1 < Len(input) /\ input[pos + 2] = First)
      <4>1. n = 1
        BY <3>2
      <4>2. pos + 1 # (pos + 1) + 1 /\ pos + 1 <= (pos + 1) + 1 /\ pos + 2 = (pos + 1) + 1
        BY <1>0
      <4>3. IsOperator(pos + 1, pos + 1)
        BY <2>1, <2>3, <3>2, <4>2 DEF IsOperator
      <4> QED
        BY <2>2, <4>1, <4>3
    <3> QED
      BY <3>1, <3>2
  <2> HIDE DEF n
  <2>5. Shape(pos + 1, pos + n)
    BY <2>4 DEF Shape
  <2> QED
    BY <2>1, <2>4, <2>5, EmitKeeps
<1>9. CASE EndWord
  <2>1. mode = "word" /\ ~(Left /\ This \notin Stop) /\ Emit(len)
    BY <1>9 DEF EndWord
  <2>2. len >= 1 /\ \A c \in (pos + 1)..(pos + len) : input[c] \notin Stop
    BY <2>1 DEF LexInv, LexReading
  <2>3. pos + len < Len(input) => input[(pos + len) + 1] \in Stop
    BY <2>1 DEF Left, This
  <2>4. Shape(pos + 1, pos + len)
    BY <2>2, <2>3 DEF Shape, IsWord
  <2> QED
    BY <1>0, <2>1, <2>2, <2>4, EmitKeeps
<1>10. CASE UNCHANGED lexVars
  <2>1. input' = input /\ pos' = pos /\ len' = len /\ tokens' = tokens /\ mode' = mode
    BY <1>10 DEF lexVars
  <2>2. LexTypeOK' /\ Partition' /\ MergeTouches'
    BY <2>1 DEF LexInv, LexTypeOK, Partition, MergeTouches
  <2>3. Shapes'
    BY <2>1 DEF LexInv, Shapes, IsQuoted, IsUnclosed, IsOperator, IsWord
  <2>4. LexReading'
    BY <2>1 DEF LexInv, LexReading, First
  <2> QED
    BY <2>2, <2>3, <2>4 DEF LexInv
<1> QED
  BY <1>2, <1>3, <1>4, <1>5, <1>6, <1>7, <1>8, <1>9, <1>10 DEF LexNext

-----------------------------------------------------------------------------
(***************************************************************************)
(* The expansion.                                                          *)
(***************************************************************************)
ExpInv == ExpTypeOK /\ Buffer

\* append_char keeps the buffer larger than the string it holds.
LEMMA PutKeeps ==
  ASSUME ExpInv, NEW c \in Char, Put(c)
  PROVE  res' \in Text /\ cap' \in Nat /\ Buffer'
<1>1. res \in Seq(Char) /\ cap \in Nat /\ Cap0 \in Nat /\ Len(res) \in Nat
  BY CapAssumption DEF ExpInv, ExpTypeOK, Text
<1>2. Len(res) < cap /\ (cap = Cap0 \/ cap <= 2 * (Len(res) + 1))
  BY DEF ExpInv, Buffer
<1>3. res' \in Seq(Char) /\ Len(res') = Len(res) + 1
  BY <1>1 DEF Put
<1>4. cap' = IF Len(res) + 1 < cap THEN cap ELSE 2 * cap
  BY DEF Put, Room, Grown
<1>5. cap' \in Nat
  BY <1>1, <1>4
<1>6. Buffer'
  <2>1. CASE Len(res) + 1 < cap
    BY <1>1, <1>2, <1>3, <1>4, <2>1 DEF Buffer
  <2>2. CASE ~(Len(res) + 1 < cap)
    BY <1>1, <1>2, <1>3, <1>4, <2>2 DEF Buffer
  <2> QED
    BY <2>1, <2>2
<1> QED
  BY <1>3, <1>5, <1>6 DEF Text

\* When memory runs out the buffer is what it was.
LEMMA FullKeeps == ExpInv /\ Full => res' \in Text /\ cap' \in Nat /\ Buffer' /\ failed' = TRUE
BY DEF ExpInv, ExpTypeOK, Buffer, Full, NoMemory

\* A token being read has characters.
LEMMA InToken ==
  ASSUME ExpInv, pc # "list"
  PROVE  /\ cur \in 1..Len(line) /\ cur + 1 \in 1..(Len(line) + 1)
         /\ Input \in Seq(Char) /\ i \in 0..Len(Input)
         /\ \A k \in 1..Len(Input) : Input[k] \in Char
         /\ \A a, b \in Nat : a >= 1 /\ b <= Len(Input) => SubSeq(Input, a, b) \in Seq(Char)
<1>1. line \in Seq(Token) /\ cur \in 1..Len(line) /\ i \in Nat /\ i <= Len(Input)
  BY DEF ExpInv, ExpTypeOK
<1>2. line[cur] \in Token
  BY <1>1
<1>3. Input \in Seq(Char)
  BY <1>2 DEF Input, Token, Text
<1>4. \A k \in 1..Len(Input) : Input[k] \in Char
  BY <1>3
<1>5. ASSUME NEW a \in Nat, NEW b \in Nat, a >= 1, b <= Len(Input)
      PROVE  SubSeq(Input, a, b) \in Seq(Char)
  BY <1>3, <1>5
<1> QED
  BY <1>1, <1>3, <1>4, <1>5

\* The expansion begins with nothing.
LEMMA ExpInvInit == ExpInit /\ env = Values => ExpInv
<1> SUFFICES ASSUME ExpInit, env = Values PROVE ExpInv
  OBVIOUS
<1>0. line = <<>> /\ cur = 1 /\ pc = "list" /\ i = 0 /\ start = 0 /\ failed = FALSE
  BY DEF ExpInit
<1>1. line = <<>> /\ Len(line) = 0 /\ line \in Seq(Token)
  BY <1>0
<1>2. vals \in [1..Len(line) -> Text]
  <2>1. vals = [t \in 1..0 |-> <<>>] /\ 1..0 = {}
    BY DEF ExpInit
  <2> QED
    BY <1>1, <2>1
<1>3. Len(res) = 0 /\ cap = Cap0 /\ Cap0 \in Nat /\ Cap0 > 0 /\ res \in Text /\ rest \in Text
  BY CapAssumption DEF ExpInit, Text
<1>4. cur \in 1..(Len(line) + 1) /\ pc = "list" /\ i = 0 /\ start = 0 /\ failed \in BOOLEAN
  <2>1. Len(line) = 0 /\ cur = 1
    BY <1>0, <1>1
  <2>2. cur \in 1..(Len(line) + 1)
    BY <2>1
  <2>3. failed \in BOOLEAN
    BY <1>0
  <2> QED
    BY <1>0, <2>2, <2>3
<1>5. ExpTypeOK
  BY <1>1, <1>2, <1>3, <1>4, ValuesAssumption DEF ExpTypeOK
<1>6. Buffer
  BY <1>3 DEF Buffer
<1> QED
  BY <1>5, <1>6 DEF ExpInv

\* Every step keeps the types and the buffer.
LEMMA ExpInvStep == ExpInv /\ ExpNext => ExpInv'
<1> SUFFICES ASSUME ExpInv, ExpNext PROVE ExpInv'
  OBVIOUS
<1>0. /\ line \in Seq(Token) /\ vals \in [1..Len(line) -> Text]
      /\ cur \in 1..(Len(line) + 1) /\ i \in Nat /\ start \in Nat /\ start <= i
      /\ res \in Text /\ cap \in Nat /\ rest \in Text /\ failed \in BOOLEAN /\ Buffer
      /\ DOMAIN env \subseteq Text /\ \A n \in DOMAIN env : env[n] \in Text
  BY DEF ExpInv, ExpTypeOK
<1>e. env' = env
  BY DEF ExpNext
<1>b. /\ Cap0 \in Nat /\ Cap0 > 0 /\ <<>> \in Text
  BY CapAssumption DEF Text
<1>1. CASE Keep
  <2>1. /\ cur <= Len(line) /\ cur' = cur + 1 /\ pc' = "list"
        /\ UNCHANGED <<line, vals, i, start, res, cap, rest, failed>>
    BY <1>1 DEF Keep, NextToken
  <2> QED
    BY <1>0, <1>e, <2>1 DEF ExpInv, ExpTypeOK, Buffer
<1>2. CASE Begin
  <2>1. /\ cur <= Len(line) /\ i' = 0 /\ start' = 0 /\ res' = <<>> /\ cap' = Cap0
        /\ rest' = <<>> /\ UNCHANGED <<line, vals>>
    BY <1>2 DEF Begin
  <2>2. \/ pc' = "loop" /\ UNCHANGED <<cur, failed>>
        \/ pc' = "list" /\ cur' = cur + 1 /\ failed' = TRUE
    BY <1>2 DEF Begin, NextToken, NoMemory
  <2>3. Input \in Seq(Char) => 0 <= Len(Input)
    OBVIOUS
  <2>4. line[cur].value \in Seq(Char)
    <3>1. line[cur] \in Token
      BY <1>0, <2>1
    <3> QED
      BY <3>1 DEF Token, Text
  <2>5. pc' # "list" => cur' <= Len(line') /\ i' <= Len(Input')
    BY <2>1, <2>2, <2>3, <2>4 DEF Input
  <2>6. Buffer'
    BY <1>b, <2>1 DEF Buffer
  <2>7. failed' \in BOOLEAN
    BY <1>0, <2>2
  <2>8. cur' \in 1..(Len(line') + 1) /\ pc' \in {"list", "loop"}
    BY <1>0, <2>1, <2>2
  <2> QED
    BY <1>0, <1>b, <1>e, <2>1, <2>5, <2>6, <2>7, <2>8 DEF ExpInv, ExpTypeOK
<1> DEFINE Ongoing == pc' # "list" /\ UNCHANGED token /\ i' <= Len(Input)
           Gone == pc' = "list" /\ cur' = cur + 1 /\ line' = line
<1>3. ASSUME pc # "list", vals' \in [1..Len(line) -> Text], Ongoing \/ Gone,
             pc' \in {"list", "loop", "name", "append"},
             i' \in Nat, start' \in Nat, start' <= i',
             res' \in Text, cap' \in Nat, rest' \in Text, failed' \in BOOLEAN, Buffer'
      PROVE  ExpInv'
  <2>1. line' = line /\ cur' \in 1..(Len(line) + 1)
    BY <1>0, <1>3, InToken DEF token
  <2>2. pc' # "list" => cur' <= Len(line') /\ i' <= Len(Input')
    BY <1>3, <2>1, InToken DEF token, Input
  <2> QED
    BY <1>0, <1>3, <1>e, <2>1, <2>2 DEF ExpInv, ExpTypeOK
<1> HIDE DEF Ongoing, Gone
<1>4. CASE NormalChar
  <2>1. pc = "loop" /\ i < Len(Input) /\ UNCHANGED <<start, rest>>
    BY <1>4 DEF NormalChar
  <2>2. Input[i + 1] \in Char /\ Input \in Seq(Char)
    BY <1>0, <2>1, InToken
  <2>3. CASE Put(Input[i + 1]) /\ i' = i + 1 /\ UNCHANGED <<token, pc, failed>>
    <3>1. Ongoing /\ vals' = vals
      BY <1>0, <2>1, <2>2, <2>3 DEF Ongoing, token
    <3> QED
      BY <1>0, <1>3, <2>1, <2>2, <2>3, <3>1, PutKeeps
  <2>4. CASE GiveUp
    <3>1. Gone /\ Full /\ UNCHANGED <<vals, i>>
      BY <2>4 DEF GiveUp, NextToken, Gone
    <3> QED
      BY <1>0, <1>3, <2>1, <3>1, FullKeeps DEF Gone
  <2> QED
    BY <1>4, <2>3, <2>4 DEF NormalChar
<1>5. CASE HandleExitStatus
  <2>1. pc = "loop" /\ i + 1 < Len(Input) /\ UNCHANGED <<token, start, res, cap>>
    BY <1>5 DEF HandleExitStatus, Follows
  <2>2. \/ pc' = "append" /\ rest' = ExitStatus /\ i' = i + 2 /\ UNCHANGED failed
        \/ i' = i + 1 /\ failed' = TRUE /\ UNCHANGED <<pc, rest>>
    BY <1>5 DEF HandleExitStatus, NoMemory
  <2>3. Input \in Seq(Char) /\ ExitStatus \in Text
    BY <2>1, InToken, StatusAssumption
  <2>4. Ongoing /\ vals' = vals /\ i' \in Nat /\ start' <= i'
    BY <1>0, <2>1, <2>2, <2>3 DEF Ongoing, token
  <2>5. failed' \in BOOLEAN
    BY <1>0, <2>2
  <2>6. Buffer'
    BY <1>0, <2>1 DEF Buffer
  <2> QED
    BY <1>0, <1>3, <2>1, <2>2, <2>3, <2>4, <2>5, <2>6
<1>6. CASE HandleVariable
  <2>1. /\ pc = "loop" /\ i + 1 < Len(Input) /\ UNCHANGED <<token, res, cap, rest, failed>>
        /\ pc' = "name" /\ i' = i + 1 /\ start' = i + 1
    BY <1>6 DEF HandleVariable, Follows
  <2>2. Ongoing /\ vals' = vals
    BY <1>0, <2>1, InToken DEF Ongoing, token
  <2>3. Buffer'
    BY <1>0, <2>1 DEF Buffer
  <2> QED
    BY <1>0, <1>3, <2>1, <2>2, <2>3
<1>7. CASE LoneDollar
  <2>1. pc = "loop" /\ i < Len(Input) /\ UNCHANGED <<start, rest>> /\ i' = i + 1
    BY <1>7 DEF LoneDollar, At
  <2>2. "$" \in Char /\ Input \in Seq(Char)
    BY <2>1, CharAssumption, InToken
  <2>3. CASE Put("$") /\ UNCHANGED <<token, pc, failed>>
    <3>1. Ongoing /\ vals' = vals
      BY <1>0, <2>1, <2>2, <2>3 DEF Ongoing, token
    <3> QED
      BY <1>0, <1>3, <2>1, <2>2, <2>3, <3>1, PutKeeps
  <2>4. CASE Full /\ NextToken /\ UNCHANGED <<line, vals>>
    <3>1. Gone
      BY <2>4 DEF NextToken, Gone
    <3> QED
      BY <1>0, <1>3, <2>1, <2>4, <3>1, FullKeeps DEF Gone
  <2> QED
    BY <1>7, <2>1, <2>3, <2>4 DEF LoneDollar
<1>8. CASE NameChar
  <2>1. /\ pc = "name" /\ i < Len(Input) /\ i' = i + 1 /\ pc' = pc
        /\ UNCHANGED <<token, start, res, cap, rest, failed>>
    BY <1>8 DEF NameChar, InName
  <2>2. Ongoing /\ vals' = vals
    BY <1>0, <2>1, InToken DEF Ongoing, token
  <2>3. Buffer'
    BY <1>0, <2>1 DEF Buffer
  <2> QED
    BY <1>0, <1>3, <2>1, <2>2, <2>3
<1>9. CASE NameEnd
  <2>1. pc = "name" /\ UNCHANGED <<token, i, start, res, cap>>
    BY <1>9 DEF NameEnd
  <2>2. \/ pc' = "append" /\ rest' = ValueOf(SubSeq(Input, start + 1, i)) /\ UNCHANGED failed
        \/ pc' = "loop" /\ failed' = TRUE /\ UNCHANGED rest
    BY <1>9 DEF NameEnd, NoMemory
  <2>3. ValueOf(SubSeq(Input, start + 1, i)) \in Text
    BY <1>0, <1>b DEF ValueOf
  <2>4. Ongoing /\ vals' = vals
    BY <2>1, <2>2, InToken DEF Ongoing, token
  <2>5. failed' \in BOOLEAN
    BY <1>0, <2>2
  <2>6. Buffer'
    BY <1>0, <2>1 DEF Buffer
  <2> QED
    BY <1>0, <1>3, <2>1, <2>2, <2>3, <2>4, <2>5, <2>6
<1>10. CASE AppendStr
  <2>1. pc = "append" /\ UNCHANGED <<token, i, start>>
    BY <1>10 DEF AppendStr
  <2>2. CASE rest = <<>> /\ pc' = "loop" /\ UNCHANGED <<rest, res, cap, failed>>
    <3>1. Ongoing /\ vals' = vals
      BY <2>1, <2>2, InToken DEF Ongoing, token
    <3>2. Buffer'
      BY <1>0, <2>2 DEF Buffer
    <3> QED
      BY <1>0, <1>3, <2>1, <2>2, <3>1, <3>2
  <2>3. CASE rest # <<>> /\ Put(Head(rest)) /\ rest' = Tail(rest) /\ UNCHANGED <<pc, failed>>
    <3>1. Ongoing /\ vals' = vals
      BY <2>1, <2>3, InToken DEF Ongoing, token
    <3>2. Head(rest) \in Char /\ rest' \in Text
      BY <1>0, <2>3 DEF Text
    <3> QED
      BY <1>0, <1>3, <2>1, <2>3, <3>1, <3>2, PutKeeps
  <2>4. CASE rest # <<>> /\ Full /\ pc' = "loop" /\ rest' = <<>>
    <3>1. Ongoing /\ vals' = vals
      BY <2>1, <2>4, InToken DEF Ongoing, token
    <3> QED
      BY <1>0, <1>b, <1>3, <2>1, <2>4, <3>1, FullKeeps
  <2> QED
    BY <1>10, <2>2, <2>3, <2>4 DEF AppendStr
<1>11. CASE End
  <2>1. pc = "loop" /\ UNCHANGED <<start, rest>>
    BY <1>11 DEF End
  <2>2. CASE /\ vals' = [vals EXCEPT ![cur] = res]
             /\ cap' = IF Room THEN cap ELSE Grown
             /\ NextToken
             /\ UNCHANGED <<line, i, res, failed>>
    <3>1. Gone /\ vals' \in [1..Len(line) -> Text]
      BY <1>0, <2>2 DEF NextToken, Gone
    <3>2. Len(res) \in Nat /\ cap' = IF Len(res) + 1 < cap THEN cap ELSE 2 * cap
      BY <1>0, <2>2 DEF Room, Grown, Text
    <3>3. cap' \in Nat /\ Buffer'
      BY <1>0, <1>b, <2>2, <3>2 DEF Buffer
    <3> QED
      BY <1>0, <1>3, <2>1, <2>2, <3>1, <3>3 DEF Gone
  <2>3. CASE GiveUp
    <3>1. Gone /\ Full /\ UNCHANGED <<vals, i>>
      BY <2>3 DEF GiveUp, NextToken, Gone
    <3> QED
      BY <1>0, <1>3, <2>1, <3>1, FullKeeps DEF Gone
  <2> QED
    BY <1>11, <2>2, <2>3 DEF End
<1> QED
  BY <1>1, <1>2, <1>4, <1>5, <1>6, <1>7, <1>8, <1>9, <1>10, <1>11 DEF ExpNext

-----------------------------------------------------------------------------
(***************************************************************************)
(* The passes together.                                                    *)
(***************************************************************************)
\* What one pass leaves to the next: the words are only taken when all tokens
\* are cut, and nothing is being expanded before its stage.
Passes ==
  /\ stage \in {"quotes", "assign", "expand", "error"}
  /\ Len(line) <= Len(tokens)
  /\ mode # "done" => Len(line) = 0
  /\ stage = "quotes" => cur = 1
  /\ stage # "expand" => pc = "list"

Inv == LexInv /\ ExpInv /\ Passes

\* A finite range of numbers has its least and its greatest.
LEMMA LeastGreatest ==
  ASSUME NEW n \in Nat, NEW N, N \subseteq 1..n, N # {}
  PROVE  /\ Min(N) \in N /\ \A k \in N : Min(N) <= k
         /\ Max(N) \in N /\ \A k \in N : k <= Max(N)
<1>1. N \in SUBSET Nat
  OBVIOUS
<1>2. Min(N) \in N /\ \A k \in N : Min(N) <= k
  BY <1>1, MinNat
<1>3. \E x \in N : \A k \in N : k <= x
  <2> DEFINE M == {n - k : k \in N}
  <2>1. M \in SUBSET Nat /\ M # {}
    <3>1. \A k \in N : n - k \in Nat
      OBVIOUS
    <3> QED
      BY <3>1, Zenon
  <2>2. Min(M) \in M /\ \A m \in M : Min(M) <= m
    <3> HIDE DEF M
    <3> QED
      BY <2>1, MinNat
  <2>3. PICK x \in N : Min(M) = n - x
    BY <2>2
  <2>4. \A k \in N : n - x <= n - k
    BY <2>2, <2>3
  <2>5. \A k \in N : k <= x
    BY <1>1, <2>4
  <2> QED
    BY <2>5
<1>4. \E x \in N : \A k \in N : x >= k
  BY <1>1, <1>3
<1>5. Max(N) \in N /\ \A k \in N : Max(N) >= k
  BY <1>4 DEF Max
<1> QED
  BY <1>1, <1>2, <1>5

\* The characters of a token, or some of them, are a text.
LEMMA TextOfTyped ==
  ASSUME LexInv, NEW t \in 1..Len(tokens)
  PROVE  TextOf(t) \in Text /\ Trimmed(TextOf(t)) \in Text
<1>1. input \in Seq(Char) /\ tokens \in Seq(Entry) /\ pos \in Nat /\ pos <= Len(input)
  BY DEF LexInv, LexTypeOK, Entry
<1>2. 1 <= tokens[t].from /\ tokens[t].to <= pos
  BY DEF LexInv, Partition
<1>3. tokens[t] \in Entry
  BY <1>1
<1>4. tokens[t].from \in Nat /\ tokens[t].to \in Nat /\ tokens[t].to <= Len(input)
  BY <1>1, <1>2, <1>3 DEF Entry
<1>5. \A a, b \in Nat : 1 <= a /\ b <= Len(input) => SubSeq(input, a, b) \in Seq(Char)
  BY <1>1
<1>6. TextOf(t) \in Seq(Char)
  BY <1>2, <1>4, <1>5 DEF TextOf
<1>7. ASSUME NEW s \in Seq(Char) PROVE Trimmed(s) \in Seq(Char)
  <2> DEFINE N == {k \in 1..Len(s) : s[k] # "'"}
  <2>1. CASE N = {}
    BY <2>1 DEF Trimmed
  <2>2. CASE N # {}
    <3>0. Len(s) \in Nat /\ N \subseteq 1..Len(s)
      OBVIOUS
    <3>1. Min(N) \in N /\ Max(N) \in N
      <4> HIDE DEF N
      <4> QED
        BY <2>2, <3>0, LeastGreatest
    <3>2. Trimmed(s) = SubSeq(s, Min(N), Max(N))
      BY <2>2 DEF Trimmed
    <3>3. Min(N) \in 1..Len(s) /\ Max(N) \in 1..Len(s)
      BY <3>1
    <3> HIDE DEF N
    <3> QED
      BY <3>2, <3>3
  <2> QED
    BY <2>1, <2>2
<1> QED
  BY <1>6, <1>7 DEF Text

\* What ft_strtrim finds in a token between two quotes is what is between them.
LEMMA TrimmedIs ==
  ASSUME LexInv, NEW t \in 1..Len(tokens), TextOf(t)[1] = "'", ~Opened(TextOf(t))
  PROVE  Trimmed(TextOf(t)) = SubSeq(TextOf(t), 2, Len(TextOf(t)) - 1)
<1> DEFINE f == tokens[t].from
           l == tokens[t].to
           s == TextOf(t)
           N == {k \in 1..Len(s) : s[k] # "'"}
<1>1. f \in Nat /\ l \in Nat /\ 1 <= f /\ f <= l /\ l <= Len(input) /\ input \in Seq(Char)
  <2>1. input \in Seq(Char) /\ tokens \in Seq(Entry) /\ pos \in Nat /\ pos <= Len(input)
    BY DEF LexInv, LexTypeOK, Entry
  <2>2. 1 <= f /\ f <= l /\ l <= pos
    BY DEF LexInv, Partition
  <2>3. tokens[t] \in Entry
    BY <2>1
  <2> QED
    BY <2>1, <2>2, <2>3 DEF Entry
<1>2. Len(s) = l - f + 1 /\ \A k \in 1..Len(s) : s[k] = input[f + k - 1]
  <2> HIDE DEF f, l
  <2>1. s = SubSeq(input, f, l)
    BY DEF TextOf, f, l
  <2> HIDE DEF s
  <2> QED
    BY <1>1, <2>1
<1>3. input[f] = "'" /\ f < l
  <2>1. s[1] = "'" /\ Len(s) # 1
    BY DEF Opened, Quote
  <2> HIDE DEF f, l, s
  <2> QED
    BY <1>1, <1>2, <2>1
<1>4. IsQuoted(f, l)
  <2>1. IsQuoted(f, l) \/ IsUnclosed(f, l) \/ IsOperator(f, l) \/ IsWord(f, l)
    BY DEF LexInv, Shapes
  <2>2. ~IsOperator(f, l) /\ ~IsUnclosed(f, l) /\ ~IsWord(f, l)
    <3> HIDE DEF f, l
    <3> QED
      <4>1. ~IsOperator(f, l)
        BY <1>3 DEF IsOperator, Operator
      <4>2. ~IsUnclosed(f, l)
        BY <1>1, <1>3 DEF IsUnclosed
      <4>3. f \in f..l /\ input[f] \in Stop
        BY <1>1, <1>3 DEF Stop, Quote
      <4> QED
        BY <4>1, <4>2, <4>3 DEF IsWord
  <2> QED
    BY <2>1, <2>2
<1>5. N = 2..(Len(s) - 1)
  <2>1. input[l] = "'" /\ \A c \in (f + 1)..(l - 1) : input[c] # "'"
    BY <1>3, <1>4 DEF IsQuoted
  <2> HIDE DEF f, l, s
  <2>2. ASSUME NEW k \in 1..Len(s) PROVE s[k] # "'" <=> k \in 2..(Len(s) - 1)
    <3>1. s[k] = input[f + k - 1]
      BY <1>2
    <3>2. CASE k = 1 \/ k = Len(s)
      BY <1>1, <1>2, <1>3, <2>1, <3>1, <3>2
    <3>3. CASE k \in 2..(Len(s) - 1)
      <4>1. f + k - 1 \in (f + 1)..(l - 1)
        BY <1>1, <1>2, <3>3
      <4> QED
        BY <2>1, <3>1, <3>3, <4>1
    <3> QED
      BY <1>1, <1>2, <3>2, <3>3
  <2>3. 2..(Len(s) - 1) \subseteq 1..Len(s)
    BY <1>1, <1>2
  <2> QED
    BY <2>2, <2>3
<1>6. Trimmed(s) = IF N = {} THEN <<>> ELSE SubSeq(s, Min(N), Max(N))
  BY DEF Trimmed
<1>7. Len(s) \in Nat /\ s \in Seq(Char)
  BY <1>1, <1>2, TextOfTyped DEF Text
<1> HIDE DEF N, s
<1>8. CASE N = {}
  <2>1. ~(2 <= Len(s) - 1)
    BY <1>5, <1>7, <1>8
  <2>2. SubSeq(s, 2, Len(s) - 1) = <<>>
    BY <1>7, <2>1
  <2> QED
    BY <1>6, <1>8, <2>2 DEF s
<1>9. CASE N # {}
  <2>1. N \subseteq Int /\ 2 \in N /\ Len(s) - 1 \in N
    BY <1>5, <1>7, <1>9
  <2>2. \A k \in N : 2 <= k /\ k <= Len(s) - 1
    BY <1>5, <1>7
  <2>3. /\ Min(N) \in N /\ \A k \in N : Min(N) <= k
        /\ Max(N) \in N /\ \A k \in N : k <= Max(N)
    <3>1. N \subseteq 1..Len(s)
      BY <1>5, <1>7
    <3> QED
      BY <1>7, <1>9, <3>1, LeastGreatest
  <2>4. Min(N) = 2 /\ Max(N) = Len(s) - 1
    <3>1. Min(N) \in Int /\ Max(N) \in Int /\ Len(s) - 1 \in Int
      BY <1>7, <2>1, <2>3
    <3>2. Min(N) <= 2 /\ 2 <= Min(N)
      BY <2>1, <2>2, <2>3
    <3>3. Max(N) <= Len(s) - 1 /\ Len(s) - 1 <= Max(N)
      BY <2>1, <2>2, <2>3
    <3> QED
      BY <3>1, <3>2, <3>3
  <2> QED
    BY <1>6, <1>9, <2>4 DEF s
<1> QED
  BY <1>8, <1>9 DEF s

\* The quote handler appends one word.
LEMMA GiveKeeps ==
  ASSUME Inv, stage = "quotes", mode = "done", Len(line) < Len(tokens),
         NEW v \in Text, NEW k \in BOOLEAN, Give(v, k), failed' \in BOOLEAN
  PROVE  Inv'
<1> DEFINE new == [value |-> v, kept |-> k]
<1>1. /\ line \in Seq(Token) /\ vals \in [1..Len(line) -> Text]
      /\ cur = 1 /\ i \in Nat /\ start \in Nat /\ start <= i
      /\ res \in Text /\ cap \in Nat /\ rest \in Text /\ Buffer
      /\ DOMAIN env \subseteq Text /\ (\A n \in DOMAIN env : env[n] \in Text)
      /\ pc = "list"
  BY DEF Inv, Passes, ExpInv, ExpTypeOK
<1>2. /\ line' = Append(line, new)
      /\ vals' = [t \in 1..(Len(line) + 1) |-> line'[t].value]
      /\ UNCHANGED <<lexVars, env, cur, pc, i, start, res, cap, rest, stage>>
  BY DEF Give
<1>3. new \in Token
  BY DEF Token
<1> HIDE DEF new
<1>4. line' \in Seq(Token) /\ Len(line') = Len(line) + 1 /\ Len(line) \in Nat
  BY <1>1, <1>2, <1>3
<1>5. \A t \in 1..Len(line') : line'[t] \in Token
  BY <1>4
<1>6. vals' \in [1..Len(line') -> Text]
  BY <1>2, <1>4, <1>5 DEF Token
<1>7. ExpTypeOK'
  <2>1. cur' \in 1..(Len(line') + 1)
    BY <1>1, <1>2, <1>4
  <2> QED
    BY <1>1, <1>2, <1>4, <1>6, <2>1 DEF ExpTypeOK
<1>8. Buffer'
  BY <1>1, <1>2 DEF Buffer
<1>9. LexInv'
  BY <1>2, LexInvStep DEF Inv
<1>10. Passes'
  <2>1. tokens \in Seq(Entry) /\ Len(tokens) \in Nat
    BY DEF Inv, LexInv, LexTypeOK, Entry
  <2> QED
    BY <1>1, <1>2, <1>4, <2>1 DEF Inv, Passes, lexVars
<1> QED
  BY <1>7, <1>8, <1>9, <1>10 DEF Inv, ExpInv

\* The expansion leaves its tokens and the environment as they were.
LEMMA ExpandLeaves == ExpNext => UNCHANGED <<env, line>>
BY DEF ExpNext, Keep, Begin, NormalChar, HandleExitStatus, HandleVariable, LoneDollar,
       NameChar, NameEnd, AppendStr, End, GiveUp, token

\* The lexer only works on a line it has not cut yet.
LEMMA LexerLeft == LexNext => mode # "done"
BY DEF LexNext, SkipSpace, EndOfLine, Open, InQuote, CloseQuote, NoClose, TakeOperator,
       Word, InWord, EndWord

LEMMA InvInit == Init => Inv
<1> SUFFICES ASSUME Init PROVE Inv
  OBVIOUS
<1>1. LexInv /\ ExpInv
  BY LexInvInit, ExpInvInit DEF Init
<1>2. line = <<>> /\ cur = 1 /\ pc = "list" /\ stage = "quotes" /\ tokens = <<>>
  BY DEF Init, ExpInit, LexInit
<1>3. Len(line) = 0 /\ Len(tokens) = 0
  BY <1>2
<1>4. Passes
  BY <1>2, <1>3 DEF Passes
<1> QED
  BY <1>1, <1>4 DEF Inv

\* apply_variable_assignment keeps the types of the environment.
LEMMA AssignKeeps == Inv /\ Assign => Inv'
<1> SUFFICES ASSUME Inv, Assign PROVE Inv'
  OBVIOUS
<1> DEFINE s == line[cur].value
<1>1. /\ line \in Seq(Token) /\ vals \in [1..Len(line) -> Text]
      /\ cur \in 1..Len(line) /\ i \in Nat /\ start \in Nat /\ start <= i
      /\ res \in Text /\ cap \in Nat /\ rest \in Text /\ Buffer /\ failed \in BOOLEAN
      /\ DOMAIN env \subseteq Text /\ (\A n \in DOMAIN env : env[n] \in Text)
      /\ pc = "list"
  BY DEF Inv, Passes, ExpInv, ExpTypeOK, Assign, Assigning
<1>2. /\ line' = [line EXCEPT ![cur].kept = TRUE]
      /\ cur' = cur + 1 /\ stage = "assign"
      /\ UNCHANGED <<lexVars, vals, pc, i, start, res, cap, rest, stage>>
  BY DEF Assign, Assigning
<1>3. line[cur] \in Token /\ s \in Seq(Char)
  <2>1. line[cur] \in Token
    BY <1>1
  <2> QED
    BY <2>1 DEF Token, Text
<1>4. PICK e \in 1..(Len(s) - 1) :
        \/ /\ env' = [n \in DOMAIN env \cup {SubSeq(s, 1, e)} |->
                        IF n = SubSeq(s, 1, e) THEN SubSeq(s, e + 2, Len(s)) ELSE env[n]]
           /\ UNCHANGED failed
        \/ NoMemory /\ UNCHANGED env
  BY DEF Assign
<1>5. SubSeq(s, 1, e) \in Text /\ SubSeq(s, e + 2, Len(s)) \in Text
  BY <1>3, <1>4 DEF Text
<1> HIDE DEF s
<1>6. DOMAIN env' \subseteq Text /\ (\A n \in DOMAIN env' : env'[n] \in Text)
  BY <1>1, <1>4, <1>5
<1>7. failed' \in BOOLEAN
  BY <1>1, <1>4 DEF NoMemory
<1>8. line' \in Seq(Token) /\ Len(line') = Len(line)
  <2>1. [line[cur] EXCEPT !.kept = TRUE] \in Token
    BY <1>3 DEF Token
  <2> QED
    BY <1>1, <1>2, <2>1
<1>9. ExpTypeOK'
  <2>1. cur' \in 1..(Len(line') + 1)
    BY <1>1, <1>2, <1>8
  <2> QED
    BY <1>1, <1>2, <1>6, <1>7, <1>8, <2>1 DEF ExpTypeOK
<1>10. Buffer'
  BY <1>1, <1>2 DEF Buffer
<1>11. LexInv'
  BY <1>2, LexInvStep DEF Inv
<1>12. Passes'
  BY <1>1, <1>2, <1>8 DEF Inv, Passes, lexVars
<1> QED
  BY <1>9, <1>10, <1>11, <1>12 DEF Inv, ExpInv

LEMMA InvStep == Inv /\ [Next]_wordsVars => Inv'
<1> SUFFICES ASSUME Inv, [Next]_wordsVars PROVE Inv'
  OBVIOUS
<1>0. LexInv /\ ExpInv /\ Passes
  BY DEF Inv
<1>f. failed \in BOOLEAN
  BY DEF Inv, ExpInv, ExpTypeOK
<1>e. ASSUME UNCHANGED expVars PROVE ExpInv'
  BY <1>0, <1>e DEF expVars, ExpInv, ExpTypeOK, Buffer, Input
<1>1. CASE Cut
  <2>1. LexNext /\ UNCHANGED <<expVars, stage>>
    BY <1>1 DEF Cut
  <2>2. LexInv' /\ ExpInv'
    BY <1>0, <1>e, <2>1, LexInvStep
  <2>3. Len(line) = 0 /\ line' = line /\ cur' = cur /\ pc' = pc /\ stage' = stage
    BY <1>0, <2>1, LexerLeft DEF Passes, expVars
  <2>4. Len(tokens') \in Nat
    BY <2>2 DEF LexInv, LexTypeOK
  <2> QED
    BY <1>0, <2>2, <2>3, <2>4 DEF Inv, Passes
<1> DEFINE u == Len(line) + 1
<1>u. ASSUME Len(line) < Len(tokens) PROVE TextOf(u) \in Text /\ Trimmed(TextOf(u)) \in Text
  <2>1. Len(line) \in Nat /\ Len(tokens) \in Nat
    BY <1>0 DEF ExpInv, ExpTypeOK, LexInv, LexTypeOK
  <2>2. u \in 1..Len(tokens)
    BY <1>u, <2>1
  <2> QED
    BY <1>0, <2>2, TextOfTyped
<1>2. CASE SingleQuotes
  <2>1. stage = "quotes" /\ mode = "done" /\ Len(line) < Len(tokens)
    BY <1>2 DEF SingleQuotes, Quoting
  <2>2. \/ Give(Trimmed(TextOf(u)), TRUE) /\ UNCHANGED failed
        \/ Give(TextOf(u), TRUE) /\ failed' = TRUE
    BY <1>2 DEF SingleQuotes, NoMemory
  <2> QED
    BY <1>f, <1>u, <2>1, <2>2, GiveKeeps
<1>3. CASE DoubleQuotes
  <2>1. stage = "quotes" /\ mode = "done" /\ Len(line) < Len(tokens)
    BY <1>3 DEF DoubleQuotes, Quoting
  <2>2. Give(<<>>, TRUE) /\ UNCHANGED failed
    BY <1>3 DEF DoubleQuotes
  <2>3. <<>> \in Text
    BY DEF Text
  <2> QED
    BY <1>f, <2>1, <2>2, <2>3, GiveKeeps
<1>4. CASE NoQuotes
  <2>1. /\ stage = "quotes" /\ mode = "done" /\ Len(line) < Len(tokens)
        /\ Give(TextOf(u), FALSE) /\ UNCHANGED failed
    BY <1>4 DEF NoQuotes
  <2> QED
    BY <1>f, <1>u, <2>1, GiveKeeps
<1>5. CASE Checked
  <2>1. /\ UNCHANGED <<lexVars, expVars>> /\ stage = "quotes"
        /\ stage' \in {"error", "assign"}
    BY <1>5 DEF Checked
  <2>2. LexInv' /\ ExpInv'
    BY <1>0, <1>e, <2>1, LexInvStep
  <2>3. Passes'
    BY <1>0, <2>1 DEF Passes, lexVars, expVars
  <2> QED
    BY <2>2, <2>3 DEF Inv
<1>6. CASE Assign
  BY <1>6, AssignKeeps
<1>7. CASE BeginList
  <2>1. /\ stage = "assign" /\ stage' = "expand" /\ cur' = 1
        /\ UNCHANGED <<lexVars, env, line, vals, pc, i, start, res, cap, rest, failed>>
    BY <1>7 DEF BeginList
  <2>2. LexInv'
    BY <1>0, <2>1, LexInvStep
  <2>3. Passes' /\ pc = "list"
    BY <1>0, <2>1 DEF Passes, lexVars
  <2>4. Len(line) \in Nat /\ 1 \in 1..(Len(line) + 1)
    <3>1. Len(line) \in Nat
      BY <1>0 DEF ExpInv, ExpTypeOK
    <3> QED
      BY <3>1
  <2>5. ExpTypeOK'
    BY <1>0, <2>1, <2>3, <2>4 DEF ExpInv, ExpTypeOK
  <2>6. Buffer'
    BY <1>0, <2>1 DEF ExpInv, Buffer
  <2> QED
    BY <2>2, <2>3, <2>5, <2>6 DEF Inv, ExpInv
<1>8. CASE ExpandStep
  <2>1. stage = "expand" /\ ExpNext /\ UNCHANGED <<lexVars, stage>>
    BY <1>8 DEF ExpandStep
  <2>2. LexInv' /\ ExpInv'
    BY <1>0, <2>1, LexInvStep, ExpInvStep
  <2>3. Passes'
    BY <1>0, <2>1, ExpandLeaves DEF Passes, lexVars
  <2> QED
    BY <2>2, <2>3 DEF Inv
<1>9. CASE UNCHANGED wordsVars
  <2>1. UNCHANGED <<lexVars, expVars, stage>>
    BY <1>9 DEF wordsVars
  <2>2. LexInv' /\ ExpInv'
    BY <1>0, <1>e, <2>1, LexInvStep
  <2>3. Passes'
    BY <1>0, <2>1 DEF Passes, lexVars, expVars
  <2> QED
    BY <2>2, <2>3 DEF Inv
<1> QED
  BY <1>1, <1>2, <1>3, <1>4, <1>5, <1>6, <1>7, <1>8, <1>9 DEF Next

\* The invariant holds at every step.
LEMMA Invariance == Spec => []Inv
BY InvInit, InvStep, PTL DEF Spec

\* Every variable keeps its type, and neither the line nor a token is read
\* past its end.
THEOREM TypeCorrect == Spec => []TypeOK
<1>1. Inv => TypeOK
  BY DEF Inv, LexInv, ExpInv, Passes, TypeOK
<1> QED
  BY Invariance, <1>1, PTL

\* Cutting a line loses no character of it and uses none twice.
THEOREM NothingLost == Spec => []Partition
<1>1. Inv => Partition
  BY DEF Inv, LexInv
<1> QED
  BY Invariance, <1>1, PTL

\* Every token is a quoted text, an open quote, an operator or a word, each
\* as long as it can be.
THEOREM WellShaped == Spec => []Shapes
<1>1. Inv => Shapes
  BY DEF Inv, LexInv
<1> QED
  BY Invariance, <1>1, PTL

\* What is marked for merging touches what it is merged with.
THEOREM MergesTouch == Spec => []MergeTouches
<1>1. Inv => MergeTouches
  BY DEF Inv, LexInv
<1> QED
  BY Invariance, <1>1, PTL

\* The buffer of the expansion always has room for its string and the zero
\* behind it, and is never more than twice as large as it has to be.
THEOREM BufferFits == Spec => []Buffer
<1>1. Inv => Buffer
  BY DEF Inv, ExpInv
<1> QED
  BY Invariance, <1>1, PTL

-----------------------------------------------------------------------------
(***************************************************************************)
(* What a text stands for.                                                 *)
(***************************************************************************)
\* The value of n in the environment e.
LookUp(e, n) == IF n \in DOMAIN e THEN e[n] ELSE <<>>

\* Expansion, in the environment e.
Meaning(e, s, p) ==
  LET X[k \in 1..(Len(s) + 1)] ==
        CASE k > Len(s) -> <<>>
          [] k < Len(s) /\ s[k] = "$" /\ s[k + 1] = "?" -> ExitStatus \o X[k + 2]
          [] k < Len(s) /\ s[k] = "$" /\ s[k + 1] \in Letter ->
               LookUp(e, SubSeq(s, k + 1, NameStop(s, k))) \o X[NameStop(s, k) + 1]
          [] OTHER -> <<s[k]>> \o X[k + 1]
  IN X[p]

LEMMA ExpansionIs == \A s, p : Expansion(s, p) = Meaning(env, s, p)
BY DEF Expansion, Meaning, ValueOf, LookUp

\* The name that begins behind character p of s ends with character e.
StopsAt(s, p, e) ==
  /\ e \in (p + 1)..Len(s)
  /\ \A k \in (p + 1)..e : ValidVarChar(s[k], k - p - 1)
  /\ e < Len(s) => ~ValidVarChar(s[e + 1], e - p)

\* There is one such character behind a letter, ...
LEMMA NameStops ==
  ASSUME NEW s \in Text, NEW p \in 1..(Len(s) - 1), s[p + 1] \in Letter
  PROVE  StopsAt(s, p, NameStop(s, p))
<1> DEFINE T == {e \in (p + 1)..Len(s) : e = Len(s) \/ ~ValidVarChar(s[e + 1], e - p)}
<1>0. Len(s) \in Nat /\ p + 1 \in (p + 1)..Len(s)
  BY DEF Text
<1>1. T \in SUBSET Nat /\ Len(s) \in T
  BY <1>0
<1>2. PICK m \in T : \A k \in T : m <= k
  <2> HIDE DEF T
  <2> QED
    BY <1>1, LeastNat
<1>3. ASSUME NEW k \in (p + 1)..m PROVE ValidVarChar(s[k], k - p - 1)
  <2>1. CASE k = p + 1
    <3>1. k - p - 1 = 0
      BY <2>1
    <3> QED
      BY <2>1, <3>1 DEF ValidVarChar
  <2>2. CASE k # p + 1
    <3> DEFINE e == k - 1
    <3>1. e \in (p + 1)..Len(s) /\ e < m /\ e # Len(s) /\ e + 1 = k /\ e - p = k - p - 1
      BY <1>0, <1>2, <2>2
    <3>2. e \notin T
      <4> HIDE DEF T
      <4>1. m \in Int
        BY <1>1, <1>2
      <4> QED
        BY <1>2, <3>1, <4>1
    <3>3. ValidVarChar(s[e + 1], e - p)
      <4> HIDE DEF e
      <4> QED
        BY <3>1, <3>2
    <3> QED
      BY <3>1, <3>3
  <2> QED
    BY <2>1, <2>2
<1>4. StopsAt(s, p, m)
  BY <1>0, <1>2, <1>3 DEF StopsAt
<1>5. \E e \in (p + 1)..Len(s) :
        /\ \A k \in (p + 1)..e : ValidVarChar(s[k], k - p - 1)
        /\ e < Len(s) => ~ValidVarChar(s[e + 1], e - p)
  BY <1>4 DEF StopsAt
<1> QED
  BY <1>5, Zenon DEF StopsAt, NameStop

\* ... and only one.
LEMMA OneStop ==
  ASSUME NEW s \in Text, NEW p \in Nat, NEW e, NEW f, StopsAt(s, p, e), StopsAt(s, p, f)
  PROVE  e = f
<1>0. Len(s) \in Nat
  BY DEF Text
<1>1. ASSUME NEW a, NEW b, StopsAt(s, p, a), StopsAt(s, p, b), a < b PROVE FALSE
  <2>1. /\ a \in Int /\ b \in Int /\ a < Len(s) /\ a + 1 \in (p + 1)..b
        /\ (a + 1) - p - 1 = a - p
    BY <1>0, <1>1 DEF StopsAt
  <2>2. ~ValidVarChar(s[a + 1], a - p)
    BY <1>1, <2>1 DEF StopsAt
  <2>3. ValidVarChar(s[a + 1], (a + 1) - p - 1)
    BY <1>1, <2>1 DEF StopsAt
  <2> QED
    BY <2>1, <2>2, <2>3
<1>2. e \in Int /\ f \in Int
  BY <1>0 DEF StopsAt
<1> QED
  BY <1>1, <1>2

\* The expansion of a text, from each of its characters on, is a text, and
\* begins with what stands there.
LEMMA Unfolding ==
  ASSUME NEW e, DOMAIN e \subseteq Text, \A n \in DOMAIN e : e[n] \in Text,
         NEW s \in Text, NEW p \in 1..(Len(s) + 1)
  PROVE  /\ Meaning(e, s, p) \in Seq(Char)
         /\ p > Len(s) => Meaning(e, s, p) = <<>>
         /\ p < Len(s) /\ s[p] = "$" /\ s[p + 1] = "?" =>
              Meaning(e, s, p) = ExitStatus \o Meaning(e, s, p + 2)
         /\ p < Len(s) /\ s[p] = "$" /\ s[p + 1] \in Letter =>
              Meaning(e, s, p) = LookUp(e, SubSeq(s, p + 1, NameStop(s, p)))
                                 \o Meaning(e, s, NameStop(s, p) + 1)
         /\ p <= Len(s) /\ ~(/\ p < Len(s) /\ s[p] = "$"
                             /\ s[p + 1] = "?" \/ s[p + 1] \in Letter) =>
              Meaning(e, s, p) = <<s[p]>> \o Meaning(e, s, p + 1)
<1> DEFINE L == Len(s)
           Status(k) == k < Len(s) /\ s[k] = "$" /\ s[k + 1] = "?"
           Name(k) == k < Len(s) /\ s[k] = "$" /\ s[k + 1] \in Letter
           piece == [k \in 1..L |->
                       IF Status(k) THEN ExitStatus
                       ELSE IF Name(k) THEN LookUp(e, SubSeq(s, k + 1, NameStop(s, k)))
                       ELSE <<s[k]>>]
           next == [k \in 1..L |-> IF Status(k) THEN k + 2
                                   ELSE IF Name(k) THEN NameStop(s, k) + 1 ELSE k + 1]
           A(X) == [k \in 1..(Len(s) + 1) |->
                     CASE k > Len(s) -> <<>>
                       [] Status(k) -> ExitStatus \o X[k + 2]
                       [] Name(k) -> LookUp(e, SubSeq(s, k + 1, NameStop(s, k)))
                                     \o X[NameStop(s, k) + 1]
                       [] OTHER -> <<s[k]>> \o X[k + 1]]
           F == CHOOSE X : X = A(X)
<1>0. s \in Seq(Char) /\ L \in Nat /\ \A k \in 1..L : s[k] \in Char
  BY DEF Text
<1>a. \A k \in 1..L : ~(Status(k) /\ Name(k))
  BY CharAssumption
<1>b. ASSUME NEW k \in 1..L, Name(k)
      PROVE  NameStop(s, k) \in (k + 1)..L
  <2>1. k \in 1..(Len(s) - 1)
    BY <1>0, <1>b
  <2> QED
    BY <1>b, <2>1, NameStops DEF StopsAt
<1>1. piece \in [1..L -> Seq(Char)]
  <2> SUFFICES ASSUME NEW k \in 1..L PROVE piece[k] \in Seq(Char)
    OBVIOUS
  <2>1. ExitStatus \in Seq(Char) /\ <<s[k]>> \in Seq(Char)
    BY <1>0, StatusAssumption DEF Text
  <2>2. \A n : LookUp(e, n) \in Seq(Char)
    <3>1. <<>> \in Seq(Char)
      OBVIOUS
    <3> QED
      BY <3>1 DEF LookUp, Text
  <2> QED
    BY <2>1, <2>2
<1>2. next \in [1..L -> Nat] /\ \A k \in 1..L : k < next[k] /\ next[k] <= L + 1
  <2> SUFFICES ASSUME NEW k \in 1..L
               PROVE  next[k] \in Nat /\ k < next[k] /\ next[k] <= L + 1
    OBVIOUS
  <2>1. CASE Status(k)
    BY <1>0, <2>1
  <2>2. CASE ~Status(k) /\ Name(k)
    BY <1>0, <1>b, <2>2
  <2>3. CASE ~Status(k) /\ ~Name(k)
    BY <1>0, <2>3
  <2> QED
    BY <2>1, <2>2, <2>3
<1>3. \A X : \A k \in 1..(L + 1) :
        A(X)[k] = IF k > L THEN <<>> ELSE piece[k] \o X[next[k]]
  <2> TAKE X
  <2> TAKE k \in 1..(L + 1)
  <2>0. A(X)[k] = CASE k > Len(s) -> <<>>
                    [] Status(k) -> ExitStatus \o X[k + 2]
                    [] Name(k) -> LookUp(e, SubSeq(s, k + 1, NameStop(s, k)))
                                  \o X[NameStop(s, k) + 1]
                    [] OTHER -> <<s[k]>> \o X[k + 1]
    OBVIOUS
  <2> HIDE DEF A
  <2>1. CASE k > L
    <3>1. ~Status(k) /\ ~Name(k)
      BY <1>0, <2>1
    <3> HIDE DEF Status, Name
    <3> QED
      BY <2>0, <2>1, <3>1
  <2>2. CASE ~(k > L)
    <3>1. k \in 1..L
      BY <1>0, <2>2
    <3>2. /\ piece[k] = IF Status(k) THEN ExitStatus
                        ELSE IF Name(k) THEN LookUp(e, SubSeq(s, k + 1, NameStop(s, k)))
                        ELSE <<s[k]>>
          /\ next[k] = IF Status(k) THEN k + 2
                       ELSE IF Name(k) THEN NameStop(s, k) + 1 ELSE k + 1
      BY <3>1
    <3>3. ~(Status(k) /\ Name(k))
      BY <1>a, <3>1
    <3> HIDE DEF Status, Name, piece, next
    <3>4. CASE Status(k)
      BY <2>0, <2>2, <3>2, <3>3, <3>4
    <3>5. CASE Name(k)
      BY <2>0, <2>2, <3>2, <3>3, <3>5
    <3>6. CASE ~Status(k) /\ ~Name(k)
      BY <2>0, <2>2, <3>2, <3>6
    <3> QED
      BY <3>4, <3>5, <3>6
  <2> QED
    BY <2>1, <2>2
<1>4. \E X : X = A(X)
  <2>1. PICK X \in [1..(L + 1) -> Seq(Char)] : Unfolds(X, 1, L, piece, next)
    <3> HIDE DEF piece, next, L
    <3> QED
      BY <1>0, <1>1, <1>2, BackwardExists
  <2>2. DOMAIN X = 1..(L + 1) /\ DOMAIN A(X) = 1..(L + 1)
    OBVIOUS
  <2>3. \A k \in 1..(L + 1) : X[k] = A(X)[k]
    <3> HIDE DEF A, piece, next
    <3> QED
      BY <1>3, <2>1 DEF Unfolds
  <2>4. A(X) = [k \in 1..(L + 1) |-> A(X)[k]]
    OBVIOUS
  <2>5. X = A(X)
    <3> HIDE DEF A
    <3> QED
      BY <2>1, <2>3, <2>4
  <2> QED
    BY <2>5
<1>5. F = A(F)
  <2> HIDE DEF A
  <2> QED
    BY <1>4
<1>6. \A k \in 1..(L + 1) : Meaning(e, s, k) = F[k]
  BY DEF Meaning
<1>7. \A k \in 1..(L + 1) : F[k] = IF k > L THEN <<>> ELSE piece[k] \o F[next[k]]
  <2> HIDE DEF A, F, piece, next
  <2> QED
    BY <1>3, <1>5
<1>8. \A k \in 1..(L + 1) : F[k] \in Seq(Char)
  <2> HIDE DEF F, piece, next, L
  <2>1. Unfolds(F, 1, L, piece, next)
    BY <1>7 DEF Unfolds
  <2> QED
    BY <1>0, <1>1, <1>2, <2>1, BackwardType
<1> HIDE DEF F
<1>9. Meaning(e, s, p) \in Seq(Char)
  BY <1>6, <1>8
<1>10. ASSUME p > Len(s) PROVE Meaning(e, s, p) = <<>>
  BY <1>6, <1>7, <1>10
<1>11. ASSUME p <= L
       PROVE  Meaning(e, s, p) = piece[p] \o Meaning(e, s, next[p])
  <2>1. p \in 1..L /\ p \in 1..(L + 1) /\ ~(p > L)
    BY <1>0, <1>11
  <2>2. next[p] \in 1..(L + 1)
    <3> HIDE DEF next
    <3> QED
      BY <1>0, <1>2, <2>1
  <2>3. F[p] = piece[p] \o F[next[p]]
    <3> HIDE DEF next, piece
    <3> QED
      BY <1>7, <2>1
  <2> HIDE DEF next, piece
  <2> QED
    BY <1>6, <2>1, <2>2, <2>3
<1>12. ASSUME p <= L
       PROVE  /\ piece[p] = IF Status(p) THEN ExitStatus
                            ELSE IF Name(p) THEN LookUp(e, SubSeq(s, p + 1, NameStop(s, p)))
                            ELSE <<s[p]>>
              /\ next[p] = IF Status(p) THEN p + 2
                           ELSE IF Name(p) THEN NameStop(s, p) + 1 ELSE p + 1
              /\ ~(Status(p) /\ Name(p))
  <2>1. p \in 1..L
    BY <1>0, <1>12
  <2> QED
    BY <1>a, <2>1
<1> HIDE DEF piece, next
<1>13. ASSUME Status(p) PROVE Meaning(e, s, p) = ExitStatus \o Meaning(e, s, p + 2)
  <2>1. p <= L
    BY <1>0, <1>13
  <2> HIDE DEF Status, Name
  <2> QED
    BY <1>11, <1>12, <1>13, <2>1
<1>14. ASSUME Name(p)
       PROVE  Meaning(e, s, p) = LookUp(e, SubSeq(s, p + 1, NameStop(s, p)))
                                 \o Meaning(e, s, NameStop(s, p) + 1)
  <2>1. p <= L
    BY <1>0, <1>14
  <2> HIDE DEF Status, Name
  <2> QED
    BY <1>11, <1>12, <1>14, <2>1
<1>15. ASSUME p <= L, ~Status(p), ~Name(p)
       PROVE  Meaning(e, s, p) = <<s[p]>> \o Meaning(e, s, p + 1)
  <2> HIDE DEF Status, Name
  <2> QED
    BY <1>11, <1>12, <1>15
<1> QED
  BY <1>9, <1>10, <1>13, <1>14, <1>15

-----------------------------------------------------------------------------
(***************************************************************************)
(* What has become of the tokens, while memory lasts.                      *)
(***************************************************************************)
\* The tokens that have been taken for assignments.
Ahead == IF stage = "expand" THEN Leading ELSE 1..(cur - 1)

\* No quote is open behind the quote handler.
Closed == stage \in {"assign", "expand"} =>
            /\ Len(line) = Len(tokens)
            /\ \A t \in 1..Len(tokens) : ~Opened(TextOf(t))

\* What the quote handler has made of a token: its text without the quotes,
\* kept if there were quotes or if it is an assignment.
Given ==
  \A t \in 1..Len(line) :
    ~Opened(TextOf(t)) =>
      /\ line[t].value = Unquoted(t)
      /\ line[t].kept <=> TextOf(t)[1] \in Quote \/ t \in Ahead

\* The tokens not expanded yet have the values they were given.
Untouched == \A t \in 1..Len(line) : stage # "expand" \/ cur <= t => vals[t] = line[t].value

\* Only assignments have been taken for assignments.
Prefix == stage # "expand" => \A t \in 1..(cur - 1) : IsValidAssignment(Unquoted(t))

\* The text s assigns a value to n.
Binds(s, n) == Len(n) < Len(s) /\ NameEnds(s, Len(n)) /\ SubSeq(s, 1, Len(n)) = n

\* The environment e follows from the assignments among the tokens S.
AssignedBy(e, S) ==
  \A n \in DOMAIN e \cup DOMAIN Values :
    /\ (\A t \in S : ~Binds(Unquoted(t), n)) =>
         n \in DOMAIN Values /\ LookUp(e, n) = Values[n]
    /\ \A t \in S :
         Binds(Unquoted(t), n) /\ (\A u \in S : Binds(Unquoted(u), n) => u <= t) =>
           LookUp(e, n) = SubSeq(Unquoted(t), Len(n) + 2, Len(Unquoted(t)))

\* The tokens behind the one that is looked at are done.
Written ==
  stage = "expand" =>
    \A t \in 1..(cur - 1) :
      vals[t] = IF line[t].kept THEN line[t].value ELSE Meaning(env, line[t].value, 1)

\* A token half expanded: what the buffer holds, what is to be appended, and
\* what the rest of the token stands for, are together what the token does.
Half ==
  /\ pc # "list" => ~line[cur].kept
  /\ pc = "loop" => res \o Meaning(env, Input, i + 1) = Meaning(env, Input, 1)
  /\ pc = "append" => (res \o rest) \o Meaning(env, Input, i + 1) = Meaning(env, Input, 1)
  /\ pc = "name" =>
       /\ 1 <= start /\ start < Len(Input) /\ Input[start] = "$" /\ Input[start + 1] \in Letter
       /\ \A k \in (start + 1)..i : ValidVarChar(Input[k], k - start - 1)
       /\ res \o Meaning(env, Input, start) = Meaning(env, Input, 1)

Made == Given /\ Untouched /\ Prefix /\ AssignedBy(env, Ahead) /\ Written /\ Half

LineInv == Inv /\ Closed /\ (~failed => Made)

\* What is ahead in the token.
LEMMA Rest ==
  ASSUME Inv, pc # "list"
  PROVE  /\ \A p \in 1..(Len(Input) + 1) : Meaning(env, Input, p) \in Seq(Char)
         /\ i = Len(Input) => Meaning(env, Input, i + 1) = <<>>
         /\ Follows({"?"}) => /\ i + 3 \in 1..(Len(Input) + 1)
                              /\ Meaning(env, Input, i + 1)
                                   = ExitStatus \o Meaning(env, Input, i + 3)
         /\ i < Len(Input) /\ ~(At("$") /\ Follows({"?"} \cup Letter)) =>
              /\ i + 2 \in 1..(Len(Input) + 1)
              /\ Meaning(env, Input, i + 1) = <<Input[i + 1]>> \o Meaning(env, Input, i + 2)
<1>1. /\ Input \in Text /\ Input \in Seq(Char) /\ i \in 0..Len(Input) /\ Len(Input) \in Nat
  BY InToken DEF Inv, Text
<1>2. DOMAIN env \subseteq Text /\ \A n \in DOMAIN env : env[n] \in Text
  BY DEF Inv, ExpInv, ExpTypeOK
<1>3. \A p \in 1..(Len(Input) + 1) : Meaning(env, Input, p) \in Seq(Char)
  BY <1>1, <1>2, Unfolding
<1> DEFINE p == i + 1
<1>4. p \in 1..(Len(Input) + 1) /\ p + 1 = i + 2 /\ p + 2 = i + 3
  BY <1>1
<1>5. /\ p > Len(Input) => Meaning(env, Input, p) = <<>>
      /\ p < Len(Input) /\ Input[p] = "$" /\ Input[p + 1] = "?" =>
              Meaning(env, Input, p) = ExitStatus \o Meaning(env, Input, p + 2)
      /\ p <= Len(Input) /\ ~(/\ p < Len(Input) /\ Input[p] = "$"
                              /\ Input[p + 1] = "?" \/ Input[p + 1] \in Letter) =>
              Meaning(env, Input, p) = <<Input[p]>> \o Meaning(env, Input, p + 1)
  <2> HIDE DEF p
  <2> QED
    BY <1>1, <1>2, <1>4, Unfolding
<1>6. i = Len(Input) => Meaning(env, Input, i + 1) = <<>>
  BY <1>1, <1>5
<1>7. ASSUME Follows({"?"})
      PROVE  /\ i + 3 \in 1..(Len(Input) + 1)
             /\ Meaning(env, Input, i + 1) = ExitStatus \o Meaning(env, Input, i + 3)
  <2>1. i + 1 < Len(Input) /\ Input[i + 1] = "$" /\ Input[i + 2] = "?"
    BY <1>7 DEF Follows, At
  <2> QED
    BY <1>1, <1>4, <1>5, <2>1
<1>8. ASSUME i < Len(Input), ~(At("$") /\ Follows({"?"} \cup Letter))
      PROVE  /\ i + 2 \in 1..(Len(Input) + 1)
             /\ Meaning(env, Input, i + 1) = <<Input[i + 1]>> \o Meaning(env, Input, i + 2)
  <2>1. ~(/\ i + 1 < Len(Input) /\ Input[i + 1] = "$"
          /\ Input[i + 2] = "?" \/ Input[i + 2] \in Letter)
    BY <1>8 DEF Follows, At
  <2>2. i + 1 <= Len(Input) /\ i + 2 \in 1..(Len(Input) + 1)
    BY <1>1, <1>8
  <2> QED
    BY <1>4, <1>5, <2>1, <2>2
<1> QED
  BY <1>3, <1>6, <1>7, <1>8

\* A character goes from the front of what is ahead to the end of the buffer.
LEMMA Over ==
  ASSUME NEW r \in Seq(Char), NEW c \in Char, NEW m \in Seq(Char)
  PROVE  Append(r, c) \o m = r \o (<<c>> \o m)
<1>1. Append(r, c) = r \o <<c>> /\ <<c>> \in Seq(Char)
  BY AppendIsConcat
<1> QED
  BY <1>1, ConcatAssociative

LEMMA TextAssociative ==
  ASSUME NEW r \in Seq(Char), NEW s \in Seq(Char), NEW m \in Seq(Char)
  PROVE  (r \o s) \o m = r \o (s \o m)
BY ConcatAssociative

LEMMA HeadOver ==
  ASSUME NEW r \in Seq(Char), NEW s \in Seq(Char), s # <<>>
  PROVE  Append(r, Head(s)) \o Tail(s) = r \o s
<1>1. Head(s) \in Char /\ Tail(s) \in Seq(Char)
  BY HeadTailProperties
<1>2. <<Head(s)>> \o Tail(s) = s
  OBVIOUS
<1> QED
  BY <1>1, <1>2, Over

\* Every step of the expansion goes on with what is ahead of it.
LEMMA ExpandKeeps ==
  ASSUME Inv, stage = "expand", ExpNext, stage' = stage, ~failed', Untouched, Written, Half
  PROVE  Untouched' /\ Written' /\ Half'
<1>0. /\ line' = line /\ env' = env /\ cur \in 1..(Len(line) + 1) /\ Len(line) \in Nat
      /\ res \in Seq(Char) /\ rest \in Seq(Char) /\ i \in Nat
      /\ vals \in [1..Len(line) -> Text]
  BY ExpandLeaves DEF Inv, ExpInv, ExpTypeOK, Text
<1>m. ~NoMemory /\ ~Full
  BY DEF NoMemory, Full
<1>k. ASSUME UNCHANGED token PROVE Untouched' /\ Written'
  BY <1>0, <1>k DEF token, Untouched, Written
<1>h. ASSUME UNCHANGED token, pc # "list" PROVE Input' = Input /\ ~line'[cur'].kept
  BY <1>h DEF token, Input, Half
<1>1. CASE Keep
  <2>1. /\ cur <= Len(line) /\ line[cur].kept /\ cur' = cur + 1 /\ pc' = "list"
        /\ vals' = vals
    BY <1>1 DEF Keep, NextToken
  <2>2. Half'
    BY <2>1 DEF Half
  <2>3. Untouched'
    BY <1>0, <2>1 DEF Untouched
  <2>4. Written'
    <3>1. vals[cur] = line[cur].value
      BY <1>0, <2>1 DEF Untouched
    <3>2. \A t \in 1..(cur' - 1) : t \in 1..(cur - 1) \/ t = cur
      BY <1>0, <2>1
    <3> QED
      BY <1>0, <2>1, <3>1, <3>2 DEF Written
  <2> QED
    BY <2>2, <2>3, <2>4
<1>2. CASE Begin
  <2>1. /\ pc' = "loop" /\ ~line[cur].kept /\ cur <= Len(line) /\ UNCHANGED <<token, failed>>
        /\ i' = 0 /\ res' = <<>>
    BY <1>m, <1>2 DEF Begin, token
  <2>2. Untouched' /\ Written' /\ Input' = Input
    BY <1>k, <2>1 DEF token, Input
  <2>3. Input \in Text
    <3>1. line \in Seq(Token) /\ cur \in 1..Len(line)
      BY <1>0, <2>1 DEF Inv, ExpInv, ExpTypeOK
    <3>2. line[cur] \in Token
      BY <3>1
    <3> QED
      BY <3>2 DEF Token, Input
  <2>4. Meaning(env, Input, 1) \in Seq(Char)
    <3>1. DOMAIN env \subseteq Text /\ \A n \in DOMAIN env : env[n] \in Text
      BY DEF Inv, ExpInv, ExpTypeOK
    <3>2. 1 \in 1..(Len(Input) + 1)
      <4>1. Len(Input) \in Nat
        BY <2>3 DEF Text
      <4> QED
        BY <4>1
    <3> QED
      BY <2>3, <3>1, <3>2, Unfolding
  <2>5. <<>> \o Meaning(env, Input, 1) = Meaning(env, Input, 1)
    BY <2>4, ConcatEmptySeq
  <2>6. i' + 1 = 1 /\ env' = env
    BY <1>0, <2>1
  <2>7. res' \o Meaning(env', Input', i' + 1) = Meaning(env', Input', 1)
    BY <2>1, <2>2, <2>5, <2>6
  <2>8. Half'
    BY <1>0, <2>1, <2>7 DEF Half, token
  <2> QED
    BY <2>2, <2>8
<1>3. CASE NormalChar
  <2>1. /\ pc = "loop" /\ i < Len(Input) /\ ~At("$") /\ Put(Input[i + 1]) /\ i' = i + 1
        /\ UNCHANGED token /\ pc' = pc
    BY <1>m, <1>3 DEF NormalChar, GiveUp
  <2>2. Untouched' /\ Written' /\ Input' = Input /\ ~line'[cur'].kept
    BY <1>h, <1>k, <2>1
  <2>3. /\ Meaning(env, Input, i + 1) = <<Input[i + 1]>> \o Meaning(env, Input, i + 2)
        /\ Meaning(env, Input, i + 2) \in Seq(Char) /\ Input[i + 1] \in Char
    <3>1. i + 1 \in 1..Len(Input)
      BY <2>1, InToken DEF Inv
    <3> QED
      BY <2>1, <3>1, Rest, InToken DEF Inv
  <2>4. res' = Append(res, Input[i + 1]) /\ i' + 1 = i + 2
    BY <1>0, <2>1 DEF Put
  <2>5. res' \o Meaning(env, Input, i + 2) = Meaning(env, Input, 1)
    BY <1>0, <2>1, <2>3, <2>4, Over, ZenonT(60) DEF Half
  <2>6. res' \o Meaning(env', Input', i' + 1) = Meaning(env', Input', 1)
    BY <1>0, <2>2, <2>4, <2>5
  <2>7. Half'
    BY <2>1, <2>2, <2>6 DEF Half
  <2> QED
    BY <2>2, <2>7
<1>4. CASE HandleExitStatus
  <2>1. /\ pc = "loop" /\ Follows({"?"}) /\ pc' = "append" /\ rest' = ExitStatus /\ i' = i + 2
        /\ UNCHANGED token /\ res' = res
    BY <1>m, <1>4 DEF HandleExitStatus
  <2>2. Untouched' /\ Written' /\ Input' = Input /\ ~line'[cur'].kept
    BY <1>h, <1>k, <2>1
  <2>3. /\ Meaning(env, Input, i + 1) = ExitStatus \o Meaning(env, Input, i + 3)
        /\ Meaning(env, Input, i + 3) \in Seq(Char) /\ ExitStatus \in Seq(Char)
    BY <2>1, Rest, StatusAssumption DEF Text
  <2>4. i' + 1 = i + 3
    BY <1>0, <2>1
  <2>5. (res \o ExitStatus) \o Meaning(env, Input, i + 3) = Meaning(env, Input, 1)
    <3>1. (res \o ExitStatus) \o Meaning(env, Input, i + 3)
            = res \o (ExitStatus \o Meaning(env, Input, i + 3))
      BY <1>0, <2>3, TextAssociative
    <3> QED
      BY <2>1, <2>3, <3>1 DEF Half
  <2>6. (res' \o rest') \o Meaning(env', Input', i' + 1) = Meaning(env', Input', 1)
    BY <1>0, <2>1, <2>2, <2>4, <2>5
  <2>7. Half'
    BY <2>1, <2>2, <2>6 DEF Half
  <2> QED
    BY <2>2, <2>7
<1>5. CASE HandleVariable
  <2>1. /\ pc = "loop" /\ i + 1 < Len(Input) /\ Input[i + 1] = "$" /\ Input[i + 2] \in Letter
        /\ pc' = "name" /\ i' = i + 1 /\ start' = i + 1 /\ UNCHANGED token /\ res' = res
    BY <1>5 DEF HandleVariable, Follows, At
  <2>2. Untouched' /\ Written' /\ Input' = Input /\ ~line'[cur'].kept
    BY <1>h, <1>k, <2>1
  <2>3. /\ 1 <= start' /\ start' < Len(Input') /\ Input'[start'] = "$"
        /\ Input'[start' + 1] \in Letter /\ ~(start' + 1 <= i')
    BY <1>0, <2>1, <2>2
  <2>4. \A k \in (start' + 1)..i' : ValidVarChar(Input'[k], k - start' - 1)
    BY <1>0, <2>1
  <2>5. res' \o Meaning(env', Input', start') = Meaning(env', Input', 1)
    BY <1>0, <2>1, <2>2 DEF Half
  <2>6. Half'
    BY <2>1, <2>2, <2>3, <2>4, <2>5 DEF Half
  <2> QED
    BY <2>2, <2>6
<1>6. CASE LoneDollar
  <2>1. /\ pc = "loop" /\ At("$") /\ ~Follows({"?"} \cup Letter) /\ Put("$") /\ i' = i + 1
        /\ UNCHANGED token /\ pc' = pc
    BY <1>m, <1>6 DEF LoneDollar
  <2>2. Untouched' /\ Written' /\ Input' = Input /\ ~line'[cur'].kept
    BY <1>h, <1>k, <2>1
  <2>3. i < Len(Input) /\ Input[i + 1] = "$" /\ "$" \in Char
    BY <2>1, CharAssumption DEF At
  <2>4. /\ Meaning(env, Input, i + 1) = <<"$">> \o Meaning(env, Input, i + 2)
        /\ Meaning(env, Input, i + 2) \in Seq(Char)
    BY <2>1, <2>3, Rest
  <2>5. res' = Append(res, "$") /\ i' + 1 = i + 2
    BY <1>0, <2>1 DEF Put
  <2>6. res' \o Meaning(env, Input, i + 2) = Meaning(env, Input, 1)
    <3>1. Append(res, "$") \o Meaning(env, Input, i + 2)
            = res \o (<<"$">> \o Meaning(env, Input, i + 2))
      BY <1>0, <2>3, <2>4, Over
    <3> QED
      BY <2>1, <2>4, <2>5, <3>1 DEF Half
  <2>7. res' \o Meaning(env', Input', i' + 1) = Meaning(env', Input', 1)
    BY <1>0, <2>2, <2>5, <2>6
  <2>8. Half'
    BY <2>1, <2>2, <2>7 DEF Half
  <2> QED
    BY <2>2, <2>8
<1>7. CASE NameChar
  <2>1. /\ pc = "name" /\ i < Len(Input) /\ ValidVarChar(Input[i + 1], i - start) /\ i' = i + 1
        /\ pc' = pc /\ UNCHANGED token /\ start' = start /\ res' = res
    BY <1>7 DEF NameChar, InName
  <2>2. Untouched' /\ Written' /\ Input' = Input /\ ~line'[cur'].kept
    BY <1>h, <1>k, <2>1
  <2>3. start \in Nat
    BY DEF Inv, ExpInv, ExpTypeOK
  <2>4. ASSUME NEW k \in (start + 1)..(i + 1) PROVE ValidVarChar(Input[k], k - start - 1)
    <3>1. CASE k = i + 1
      <4>1. k - start - 1 = i - start
        BY <1>0, <2>3, <3>1
      <4> QED
        BY <2>1, <3>1, <4>1
    <3>2. CASE k # i + 1
      <4>1. k \in (start + 1)..i
        BY <1>0, <2>3, <3>2
      <4> QED
        BY <2>1, <4>1 DEF Half
    <3> QED
      BY <3>1, <3>2
  <2>5. Half'
    BY <1>0, <2>1, <2>2, <2>4 DEF Half
  <2> QED
    BY <2>2, <2>5
<1>8. CASE NameEnd
  <2>1. /\ pc = "name" /\ ~InName /\ pc' = "append"
        /\ rest' = ValueOf(SubSeq(Input, start + 1, i)) /\ UNCHANGED <<token, i, start, res>>
    BY <1>m, <1>8 DEF NameEnd
  <2>2. Untouched' /\ Written' /\ Input' = Input /\ ~line'[cur'].kept
    BY <1>h, <1>k, <2>1
  <2>3. /\ start \in Nat /\ start <= i /\ i \in 0..Len(Input) /\ Len(Input) \in Nat
        /\ Input \in Text /\ DOMAIN env \subseteq Text /\ \A n \in DOMAIN env : env[n] \in Text
    BY <2>1, InToken DEF Inv, ExpInv, ExpTypeOK, Text
  <2>4. /\ 1 <= start /\ start < Len(Input) /\ Input[start] = "$" /\ Input[start + 1] \in Letter
        /\ \A k \in (start + 1)..i : ValidVarChar(Input[k], k - start - 1)
        /\ res \o Meaning(env, Input, start) = Meaning(env, Input, 1)
    BY <2>1 DEF Half
  <2>5. i < Len(Input) => ~ValidVarChar(Input[i + 1], i - start)
    BY <2>1 DEF InName
  <2>6. i # start
    <3>1. ASSUME i = start PROVE FALSE
      <4>1. i - start = 0
        BY <2>3, <3>1
      <4>2. ~ValidVarChar(Input[start + 1], 0)
        BY <2>4, <2>5, <3>1, <4>1
      <4> QED
        BY <2>4, <4>2 DEF ValidVarChar
    <3> QED
      BY <3>1
  <2>7. StopsAt(Input, start, i)
    BY <2>3, <2>4, <2>5, <2>6 DEF StopsAt
  <2>8. NameStop(Input, start) = i
    <3>1. start \in 1..(Len(Input) - 1)
      BY <2>3, <2>4
    <3>2. StopsAt(Input, start, NameStop(Input, start))
      BY <2>3, <2>4, <3>1, NameStops
    <3> QED
      BY <2>3, <2>7, <3>2, OneStop
  <2>9. rest' = LookUp(env, SubSeq(Input, start + 1, i))
    BY <2>1 DEF LookUp, ValueOf
  <2>10. /\ Meaning(env, Input, start) = rest' \o Meaning(env, Input, i + 1)
    <3>1. start \in 1..(Len(Input) + 1)
      BY <2>3, <2>4
    <3> QED
      BY <2>3, <2>4, <2>8, <2>9, <3>1, Unfolding
  <2>11. rest' \in Seq(Char) /\ Meaning(env, Input, i + 1) \in Seq(Char)
    <3>1. i + 1 \in 1..(Len(Input) + 1)
      BY <2>3
    <3>2. <<>> \in Seq(Char)
      OBVIOUS
    <3> QED
      BY <2>1, <2>3, <2>9, <3>1, <3>2, Rest DEF LookUp, Text
  <2>12. (res \o rest') \o Meaning(env, Input, i + 1) = Meaning(env, Input, 1)
    <3>1. (res \o rest') \o Meaning(env, Input, i + 1) = res \o (rest' \o Meaning(env, Input, i + 1))
      BY <1>0, <2>11, TextAssociative
    <3> QED
      BY <2>4, <2>10, <3>1
  <2>13. (res' \o rest') \o Meaning(env', Input', i' + 1) = Meaning(env', Input', 1)
    BY <1>0, <2>1, <2>2, <2>12
  <2>14. Half'
    BY <2>1, <2>2, <2>13 DEF Half
  <2> QED
    BY <2>2, <2>14
<1>9. CASE AppendStr
  <2>1. pc = "append" /\ UNCHANGED <<token, i>>
    BY <1>9 DEF AppendStr
  <2>2. Untouched' /\ Written' /\ Input' = Input /\ ~line'[cur'].kept
    BY <1>h, <1>k, <2>1
  <2>3. (res \o rest) \o Meaning(env, Input, i + 1) = Meaning(env, Input, 1)
    BY <2>1 DEF Half
  <2>4. CASE rest = <<>> /\ pc' = "loop" /\ res' = res
    <3>1. res \o rest = res
      BY <1>0, <2>4, ConcatEmptySeq
    <3>2. res' \o Meaning(env', Input', i' + 1) = Meaning(env', Input', 1)
      BY <1>0, <2>1, <2>2, <2>3, <2>4, <3>1
    <3> QED
      BY <2>2, <2>4, <3>2 DEF Half
  <2>5. CASE rest # <<>> /\ Put(Head(rest)) /\ rest' = Tail(rest) /\ pc' = pc
    <3>1. res' \o rest' = res \o rest
      BY <1>0, <2>5, HeadOver DEF Put
    <3>2. (res' \o rest') \o Meaning(env', Input', i' + 1) = Meaning(env', Input', 1)
      BY <1>0, <2>1, <2>2, <2>3, <3>1
    <3> QED
      BY <2>1, <2>2, <2>5, <3>2 DEF Half
  <2> QED
    BY <1>m, <1>9, <2>4, <2>5 DEF AppendStr
<1>10. CASE End
  <2>1. /\ pc = "loop" /\ i = Len(Input) /\ vals' = [vals EXCEPT ![cur] = res]
        /\ pc' = "list" /\ cur' = cur + 1
    BY <1>m, <1>10 DEF End, GiveUp, NextToken
  <2>2. cur \in 1..Len(line)
    BY <2>1, InToken DEF Inv
  <2>3. res = Meaning(env, Input, 1)
    <3>1. Meaning(env, Input, i + 1) = <<>>
      BY <2>1, Rest
    <3>2. res \o <<>> = res
      BY <1>0, ConcatEmptySeq
    <3> QED
      BY <2>1, <3>1, <3>2 DEF Half
  <2>4. vals'[cur] = res /\ \A t \in 1..Len(line) : t # cur => vals'[t] = vals[t]
    BY <1>0, <2>1, <2>2
  <2>5. Half'
    BY <2>1 DEF Half
  <2>6. Untouched'
    BY <1>0, <2>1, <2>2, <2>4 DEF Untouched
  <2>7. Written'
    <3>1. ~line[cur].kept /\ vals'[cur] = Meaning(env, line[cur].value, 1)
      BY <2>1, <2>3, <2>4 DEF Half, Input
    <3>2. \A t \in 1..(cur' - 1) : (t \in 1..(cur - 1) /\ vals'[t] = vals[t]) \/ t = cur
      BY <1>0, <2>1, <2>2, <2>4
    <3> QED
      BY <1>0, <2>1, <3>1, <3>2 DEF Written
  <2> QED
    BY <2>5, <2>6, <2>7
<1> QED
  BY <1>1, <1>2, <1>3, <1>4, <1>5, <1>6, <1>7, <1>8, <1>9, <1>10 DEF ExpNext

\* The texts of the tokens only change while they are cut.
LEMMA SameTexts ==
  ASSUME UNCHANGED <<input, tokens>>
  PROVE  /\ \A t : TextOf(t)' = TextOf(t) /\ Unquoted(t)' = Unquoted(t)
         /\ Leading' = Leading
<1>1. \A t : TextOf(t)' = TextOf(t)
  BY DEF TextOf
<1>2. \A t : Unquoted(t)' = Unquoted(t)
  BY <1>1 DEF Unquoted
<1>3. Leading' = Leading
  BY <1>2 DEF Leading
<1> QED
  BY <1>1, <1>2, <1>3

LEMMA SameAssigned ==
  ASSUME UNCHANGED <<input, tokens, env>>, NEW S, AssignedBy(env, S)
  PROVE  AssignedBy(env, S)'
<1>1. \A t : Unquoted(t)' = Unquoted(t)
  BY SameTexts
<1> QED
  BY <1>1 DEF AssignedBy

\* A text has one name at most in front of its "=".
LEMMA OneName ==
  ASSUME NEW s \in Text, NEW a \in Nat, NEW b \in Nat, a < Len(s), b < Len(s),
         NameEnds(s, a), NameEnds(s, b)
  PROVE  a = b
<1>1. ASSUME NEW c \in Nat, NEW d \in Nat, d < Len(s), NameEnds(s, c), NameEnds(s, d), c < d
      PROVE  FALSE
  <2>1. s[c + 1] = "=" /\ s[1] \in Letter
    BY <1>1 DEF NameEnds
  <2>2. CASE c = 0
    BY <2>1, <2>2, CharAssumption
  <2>3. CASE c # 0
    <3>1. c + 1 \in 2..d
      BY <1>1, <2>3
    <3>2. s[c + 1] \in Letter \cup Digit
      BY <1>1, <3>1 DEF NameEnds
    <3> QED
      BY <2>1, <3>2, CharAssumption
  <2> QED
    BY <2>2, <2>3
<1> QED
  BY <1>1

LEMMA LineInit == Init => LineInv
<1> SUFFICES ASSUME Init PROVE LineInv
  OBVIOUS
<1>1. /\ line = <<>> /\ Len(line) = 0 /\ cur = 1 /\ pc = "list" /\ stage = "quotes" /\ env = Values
  <2>1. line = <<>>
    BY DEF Init, ExpInit
  <2> QED
    BY <2>1 DEF Init, ExpInit
<1>2. Inv
  BY InvInit
<1>3. Ahead = {}
  BY <1>1 DEF Ahead
<1>4. AssignedBy(env, Ahead)
  BY <1>1, <1>3 DEF AssignedBy, LookUp
<1>5. Closed /\ Given /\ Untouched /\ Prefix /\ Written /\ Half
  BY <1>1 DEF Closed, Given, Untouched, Prefix, Written, Half
<1> QED
  BY <1>2, <1>4, <1>5 DEF LineInv, Made

\* Cutting goes before all else.
LEMMA CutKeeps ==
  ASSUME LineInv, Cut
  PROVE  Closed' /\ (~failed' => Made')
<1>1. /\ stage = "quotes" /\ LexNext /\ UNCHANGED <<expVars, stage>>
  BY DEF Cut
<1>2. Len(line) = 0 /\ cur = 1 /\ pc = "list" /\ UNCHANGED <<line, cur, pc, env, failed, stage>>
  BY <1>1, LexerLeft DEF LineInv, Inv, Passes, expVars
<1>3. Ahead = {} /\ Ahead' = {}
  BY <1>1, <1>2 DEF Ahead
<1>4. ASSUME AssignedBy(env, Ahead) PROVE AssignedBy(env, Ahead)'
  BY <1>2, <1>3, <1>4 DEF AssignedBy
<1>5. Closed' /\ Given' /\ Untouched' /\ Prefix' /\ Written' /\ Half'
  BY <1>1, <1>2 DEF Closed, Given, Untouched, Prefix, Written, Half
<1> QED
  BY <1>2, <1>4, <1>5 DEF LineInv, Made

\* The quote handler gives token t the value it says.
LEMMA GiveMakes ==
  ASSUME LineInv, stage = "quotes", mode = "done", Len(line) < Len(tokens), NEW v, NEW k,
         Give(v, k), ~failed' => ~failed,
         LET t == Len(line) + 1
         IN ~failed' /\ ~Opened(TextOf(t)) => v = Unquoted(t) /\ (k <=> TextOf(t)[1] \in Quote)
  PROVE  Closed' /\ (~failed' => Made')
<1> DEFINE t0 == Len(line) + 1
           new == [value |-> v, kept |-> k]
<1>1. /\ line \in Seq(Token) /\ Len(line) \in Nat /\ cur = 1 /\ pc = "list"
  BY DEF LineInv, Inv, ExpInv, ExpTypeOK, Passes
<1>2. /\ line' = Append(line, new) /\ vals' = [t \in 1..(Len(line) + 1) |-> line'[t].value]
      /\ UNCHANGED <<env, cur, pc, stage, input, tokens>>
  BY DEF Give, lexVars
<1>3. Len(line') = t0 /\ line'[t0] = new /\ \A t \in 1..Len(line) : line'[t] = line[t]
  BY <1>1, <1>2
<1>4. Ahead = {} /\ Ahead' = {}
  BY <1>1, <1>2 DEF Ahead
<1>5. Closed' /\ Prefix' /\ Written' /\ Half'
  BY <1>1, <1>2 DEF Closed, Prefix, Written, Half
<1>6. Untouched'
  BY <1>2, <1>3 DEF Untouched
<1> SUFFICES ASSUME ~failed' PROVE Given' /\ AssignedBy(env, Ahead)'
  BY <1>5, <1>6 DEF Made
<1>7. Given /\ AssignedBy(env, Ahead)
  BY DEF LineInv, Made
<1>8. AssignedBy(env, Ahead)'
  BY <1>2, <1>4, <1>7 DEF AssignedBy
<1>9. \A t : TextOf(t)' = TextOf(t) /\ Unquoted(t)' = Unquoted(t)
  BY <1>2, SameTexts
<1>10. ASSUME NEW t \in 1..Len(line'), ~Opened(TextOf(t))
       PROVE  /\ line'[t].value = Unquoted(t)
              /\ line'[t].kept <=> TextOf(t)[1] \in Quote
  <2>1. CASE t = t0
    <3>1. line'[t].value = v /\ line'[t].kept = k
      BY <1>3, <2>1
    <3> QED
      BY <1>10, <2>1, <3>1
  <2>2. CASE t # t0
    <3>1. t \in 1..Len(line)
      BY <1>1, <1>3, <2>2
    <3> QED
      BY <1>3, <1>4, <1>7, <1>10, <3>1 DEF Given
  <2> QED
    BY <2>1, <2>2
<1>11. Given'
  BY <1>4, <1>9, <1>10 DEF Given
<1> QED
  BY <1>8, <1>11

\* An assignment binds its name and leaves the other names as they were.
LEMMA AssignMakes ==
  ASSUME LineInv, Assign
  PROVE  Closed' /\ (~failed' => Made')
<1> DEFINE s == line[cur].value
<1>1. /\ line \in Seq(Token) /\ Len(line) \in Nat /\ cur \in 1..Len(line) /\ pc = "list"
      /\ DOMAIN env \subseteq Text /\ DOMAIN Values \subseteq Text
  BY ValuesAssumption DEF LineInv, Inv, ExpInv, ExpTypeOK, Passes, Assign, Assigning
<1>2. /\ stage = "assign" /\ cur' = cur + 1 /\ IsValidAssignment(s)
      /\ line' = [line EXCEPT ![cur].kept = TRUE]
      /\ UNCHANGED <<vals, pc, stage, input, tokens>>
  BY DEF Assign, Assigning, lexVars
<1>3. PICK e \in 1..(Len(s) - 1) :
        /\ NameEnds(s, e)
        /\ \/ /\ env' = [n \in DOMAIN env \cup {SubSeq(s, 1, e)} |->
                           IF n = SubSeq(s, 1, e) THEN SubSeq(s, e + 2, Len(s)) ELSE env[n]]
              /\ UNCHANGED failed
           \/ NoMemory /\ UNCHANGED env
  BY DEF Assign
<1>4. Closed /\ \A t \in 1..Len(line) : ~Opened(TextOf(t))
  BY <1>2 DEF LineInv, Closed
<1>5. line[cur] \in Token /\ s \in Text /\ Len(s) \in Nat
  <2>1. line[cur] \in Token
    BY <1>1
  <2> QED
    BY <2>1 DEF Token, Text
<1>6. /\ Len(line') = Len(line) /\ line'[cur].kept = TRUE /\ line'[cur].value = s
      /\ \A t \in 1..Len(line) : t # cur => line'[t] = line[t]
  BY <1>1, <1>2, <1>5 DEF Token
<1>7. \A t : TextOf(t)' = TextOf(t) /\ Unquoted(t)' = Unquoted(t)
  BY <1>2, SameTexts
<1>8. Closed'
  BY <1>2, <1>4, <1>6, <1>7 DEF Closed
<1> SUFFICES ASSUME ~failed' PROVE Made'
  BY <1>8
<1>9. /\ ~failed
      /\ env' = [n \in DOMAIN env \cup {SubSeq(s, 1, e)} |->
                   IF n = SubSeq(s, 1, e) THEN SubSeq(s, e + 2, Len(s)) ELSE env[n]]
  BY <1>3 DEF NoMemory
<1>10. Given /\ Untouched /\ Prefix /\ AssignedBy(env, Ahead)
  BY <1>9 DEF LineInv, Made
<1>11. s = Unquoted(cur)
  BY <1>1, <1>4, <1>10 DEF Given
<1>12. Ahead = 1..(cur - 1) /\ Ahead' = 1..cur
  BY <1>1, <1>2 DEF Ahead
<1>13. Given'
  <2>1. ASSUME NEW t \in 1..Len(line)
        PROVE  /\ line'[t].value = Unquoted(t)
               /\ line'[t].kept <=> TextOf(t)[1] \in Quote \/ t \in 1..cur
    <3>1. CASE t = cur
      BY <1>1, <1>6, <1>11, <3>1
    <3>2. CASE t # cur
      <4>1. /\ line'[t] = line[t] /\ line[t].value = Unquoted(t)
            /\ line[t].kept <=> TextOf(t)[1] \in Quote \/ t \in 1..(cur - 1)
        BY <1>4, <1>6, <1>10, <1>12, <3>2 DEF Given
      <4>2. t \in 1..(cur - 1) <=> t \in 1..cur
        BY <1>1, <3>2
      <4> QED
        BY <4>1, <4>2
    <3> QED
      BY <3>1, <3>2
  <2> QED
    BY <1>6, <1>7, <1>12, <2>1 DEF Given
<1>14. Untouched'
  <2>1. \A t \in 1..Len(line) : line'[t].value = line[t].value
    BY <1>6
  <2> QED
    BY <1>2, <1>6, <1>10, <2>1 DEF Untouched
<1>15. Prefix'
  <2>1. \A t \in 1..(cur - 1) : IsValidAssignment(Unquoted(t))
    BY <1>2, <1>10 DEF Prefix
  <2>2. \A t \in 1..(cur' - 1) : t \in 1..(cur - 1) \/ t = cur
    BY <1>1, <1>2
  <2> QED
    BY <1>2, <1>7, <1>11, <2>1, <2>2 DEF Prefix
<1>16. AssignedBy(env, Ahead)'
  <2> DEFINE name == SubSeq(s, 1, e)
  <2>1. /\ name \in Text /\ Len(name) = e
    BY <1>3, <1>5 DEF Text
  <2>2. Binds(s, name)
    <3>1. Len(name) < Len(s)
      BY <1>3, <1>5, <2>1
    <3> QED
      BY <1>3, <2>1, <3>1 DEF Binds
  <2> HIDE DEF s
  <2>3. ASSUME NEW n \in Text, Binds(s, n) PROVE n = name
    <3>1. Len(n) \in Nat /\ e \in Nat /\ e < Len(s)
      BY <1>3, <1>5 DEF Text
    <3>2. Len(n) = e
      BY <1>3, <1>5, <2>3, <3>1, OneName DEF Binds
    <3> QED
      BY <2>3, <3>2 DEF Binds
  <2>4. DOMAIN env' = DOMAIN env \cup {name}
    BY <1>9
  <2>5. LookUp(env', name) = SubSeq(s, e + 2, Len(s))
    BY <1>9, <2>4 DEF LookUp
  <2>6. ASSUME NEW n, n # name PROVE LookUp(env', n) = LookUp(env, n)
    BY <1>9, <2>4, <2>6 DEF LookUp
  <2> HIDE DEF name
  <2>7. ASSUME NEW n \in DOMAIN env' \cup DOMAIN Values
        PROVE  /\ (\A t \in 1..cur : ~Binds(Unquoted(t), n)) =>
                    n \in DOMAIN Values /\ LookUp(env', n) = Values[n]
               /\ \A t \in 1..cur :
                    Binds(Unquoted(t), n)
                    /\ (\A u \in 1..cur : Binds(Unquoted(u), n) => u <= t) =>
                      LookUp(env', n) = SubSeq(Unquoted(t), Len(n) + 2, Len(Unquoted(t)))
    <3>0. cur \in 1..cur
      BY <1>1
    <3>1. CASE n = name
      <4>1. Binds(Unquoted(cur), n)
        BY <1>11, <2>2, <3>1
      <4>2. \A t \in 1..cur : cur <= t => t = cur
        BY <1>1
      <4> QED
        BY <1>11, <2>1, <2>5, <3>0, <3>1, <4>1, <4>2
    <3>2. CASE n # name
      <4>1. n \in DOMAIN env \cup DOMAIN Values /\ n \in Text
        BY <1>1, <2>4, <3>2
      <4>2. ~Binds(Unquoted(cur), n)
        BY <1>11, <2>3, <3>2, <4>1
      <4>3. LookUp(env', n) = LookUp(env, n)
        BY <2>6, <3>2
      <4>4. \A t \in 1..cur : t \in 1..(cur - 1) \/ t = cur
        BY <1>1
      <4>5. \A t \in 1..(cur - 1) : t \in 1..cur
        BY <1>1
      <4>6. /\ (\A t \in 1..(cur - 1) : ~Binds(Unquoted(t), n)) =>
                 n \in DOMAIN Values /\ LookUp(env, n) = Values[n]
            /\ \A t \in 1..(cur - 1) :
                 Binds(Unquoted(t), n)
                 /\ (\A u \in 1..(cur - 1) : Binds(Unquoted(u), n) => u <= t) =>
                   LookUp(env, n) = SubSeq(Unquoted(t), Len(n) + 2, Len(Unquoted(t)))
        BY <1>10, <1>12, <4>1 DEF AssignedBy
      <4> QED
        BY <4>2, <4>3, <4>4, <4>5, <4>6
    <3> QED
      BY <3>1, <3>2
  <2> QED
    BY <1>7, <1>12, <2>7 DEF AssignedBy
<1>17. Written' /\ Half'
  BY <1>1, <1>2 DEF Written, Half
<1> QED
  BY <1>13, <1>14, <1>15, <1>16, <1>17 DEF Made

\* When the assignments are through, those that lead the line have been taken.
LEMMA BeginMakes ==
  ASSUME LineInv, BeginList
  PROVE  Closed' /\ (~failed' => Made')
<1>1. /\ stage = "assign" /\ ~Assigning /\ stage' = "expand" /\ cur' = 1
      /\ UNCHANGED <<line, vals, pc, env, failed, input, tokens>>
  BY DEF BeginList, lexVars
<1>2. /\ Len(line) \in Nat /\ cur \in 1..(Len(line) + 1) /\ pc = "list"
      /\ Len(line) = Len(tokens) /\ \A t \in 1..Len(tokens) : ~Opened(TextOf(t))
  BY <1>1 DEF LineInv, Closed, Inv, ExpInv, ExpTypeOK, Passes
<1>3. (\A t : TextOf(t)' = TextOf(t) /\ Unquoted(t)' = Unquoted(t)) /\ Leading' = Leading
  BY <1>1, SameTexts
<1>4. Closed'
  BY <1>1, <1>2, <1>3 DEF Closed
<1> SUFFICES ASSUME ~failed' PROVE Made'
  BY <1>4
<1>5. Given /\ Untouched /\ Prefix /\ AssignedBy(env, Ahead)
  BY <1>1 DEF LineInv, Made
<1>6. Ahead = 1..(cur - 1) /\ Ahead' = Leading
  BY <1>1, <1>3 DEF Ahead
<1>7. Leading = 1..(cur - 1)
  <2>1. ASSUME NEW t \in 1..(cur - 1) PROVE t \in Leading
    <3>1. t \in 1..Len(tokens) /\ \A u \in 1..t : u \in 1..(cur - 1)
      BY <1>2
    <3> QED
      BY <1>1, <1>5, <3>1 DEF Leading, Prefix
  <2>2. ASSUME NEW t \in Leading, t \notin 1..(cur - 1) PROVE FALSE
    <3>1. t \in 1..Len(line) /\ cur \in 1..t /\ cur \in 1..Len(line)
      BY <1>2, <2>2 DEF Leading
    <3>2. IsValidAssignment(Unquoted(cur))
      BY <2>2, <3>1 DEF Leading
    <3>3. line[cur].value = Unquoted(cur)
      BY <1>2, <1>5, <3>1 DEF Given
    <3> QED
      BY <1>1, <3>1, <3>2, <3>3 DEF Assigning
  <2> QED
    BY <2>1, <2>2
<1>8. Given'
  BY <1>1, <1>3, <1>5, <1>6, <1>7 DEF Given
<1>9. AssignedBy(env, Ahead)'
  BY <1>1, <1>3, <1>5, <1>6, <1>7 DEF AssignedBy
<1>10. Untouched'
  BY <1>1, <1>5 DEF Untouched
<1>11. Prefix' /\ Written' /\ Half'
  BY <1>1, <1>2 DEF Prefix, Written, Half
<1> QED
  BY <1>8, <1>9, <1>10, <1>11 DEF Made

LEMMA LineStep == LineInv /\ [Next]_wordsVars => LineInv'
<1> SUFFICES ASSUME LineInv, [Next]_wordsVars PROVE LineInv'
  OBVIOUS
<1>1. Inv /\ Inv'
  BY InvStep DEF LineInv
<1> SUFFICES Closed' /\ (~failed' => Made')
  BY <1>1 DEF LineInv
<1> DEFINE u == Len(line) + 1
<1>2. failed \in BOOLEAN
  BY <1>1 DEF Inv, ExpInv, ExpTypeOK
<1>3. CASE Cut
  BY <1>3, CutKeeps
<1>4. CASE SingleQuotes
  <2>1. /\ stage = "quotes" /\ mode = "done" /\ Len(line) < Len(tokens)
        /\ TextOf(u)[1] = "'"
    BY <1>4 DEF SingleQuotes, Quoting
  <2>2. Unquoted(u) = Trimmed(TextOf(u)) /\ TextOf(u)[1] \in Quote
    <3>1. ~Opened(TextOf(u)) /\ TextOf(u)[1] \in Quote
      BY <1>4 DEF SingleQuotes, Quoting, Quote
    <3>2. u \in 1..Len(tokens) /\ LexInv
      <4>1. Len(line) \in Nat /\ Len(tokens) \in Nat /\ LexInv
        <5>1. LexInv /\ ExpInv
          BY <1>1 DEF Inv
        <5>2. line \in Seq(Token) /\ tokens \in Seq([from : Nat, to : Nat, merge : BOOLEAN])
          BY <5>1 DEF ExpInv, ExpTypeOK, LexInv, LexTypeOK
        <5> QED
          BY <5>1, <5>2, LenProperties
      <4> QED
        BY <2>1, <4>1
    <3>3. Trimmed(TextOf(u)) = SubSeq(TextOf(u), 2, Len(TextOf(u)) - 1)
      BY <2>1, <3>1, <3>2, TrimmedIs
    <3> QED
      BY <2>1, <3>1, <3>3 DEF Unquoted
  <2>3. CASE Give(Trimmed(TextOf(u)), TRUE) /\ UNCHANGED failed
    BY <2>1, <2>2, <2>3, GiveMakes
  <2>4. CASE Give(TextOf(u), TRUE) /\ failed' = TRUE
    BY <2>1, <2>4, GiveMakes
  <2> QED
    BY <1>4, <2>3, <2>4 DEF SingleQuotes, NoMemory
<1>5. CASE DoubleQuotes
  <2>1. /\ stage = "quotes" /\ mode = "done" /\ Len(line) < Len(tokens)
        /\ TextOf(u)[1] = "\"" /\ Give(<<>>, TRUE) /\ UNCHANGED failed
    BY <1>5 DEF DoubleQuotes, Quoting
  <2>2. Unquoted(u) = <<>> /\ TextOf(u)[1] \in Quote
    BY <2>1 DEF Unquoted, Quote
  <2> QED
    BY <2>1, <2>2, GiveMakes
<1>6. CASE NoQuotes
  <2>1. /\ stage = "quotes" /\ mode = "done" /\ Len(line) < Len(tokens)
        /\ Opened(TextOf(u)) \/ TextOf(u)[1] \notin Quote
        /\ Give(TextOf(u), FALSE) /\ UNCHANGED failed
    BY <1>6 DEF NoQuotes
  <2>2. ~Opened(TextOf(u)) => Unquoted(u) = TextOf(u) /\ TextOf(u)[1] \notin Quote
    BY <2>1 DEF Unquoted, Quote
  <2> QED
    BY <2>1, <2>2, GiveMakes
<1> HIDE DEF u
<1>7. CASE Checked
  <2>1. /\ stage = "quotes" /\ Len(line) = Len(tokens)
        /\ stage' = IF \E t \in 1..Len(tokens) : Opened(TextOf(t)) THEN "error" ELSE "assign"
        /\ UNCHANGED <<line, vals, cur, pc, env, failed, input, tokens>>
    BY <1>7 DEF Checked, expVars, lexVars
  <2>2. stage' \in {"error", "assign"}
    BY <2>1
  <2>3. \A t : TextOf(t)' = TextOf(t) /\ Unquoted(t)' = Unquoted(t)
    BY <2>1, SameTexts
  <2>4. Closed'
    <3>1. stage' = "assign" => \A t \in 1..Len(tokens) : ~Opened(TextOf(t))
      BY <2>1
    <3> QED
      BY <2>1, <2>2, <2>3, <3>1 DEF Closed
  <2>5. Ahead' = Ahead
    BY <2>1, <2>2 DEF Ahead
  <2>6. pc = "list"
    BY <1>1, <2>1 DEF Inv, Passes
  <2>7. ASSUME Made PROVE Made'
    <3>1. Given' /\ AssignedBy(env, Ahead)'
      BY <2>1, <2>3, <2>5, <2>7 DEF Made, Given, AssignedBy
    <3>2. Untouched' /\ Prefix'
      BY <2>1, <2>2, <2>3, <2>7 DEF Made, Untouched, Prefix
    <3>3. Written' /\ Half'
      BY <2>1, <2>2, <2>6 DEF Written, Half
    <3> QED
      BY <3>1, <3>2, <3>3 DEF Made
  <2> QED
    BY <2>1, <2>4, <2>7 DEF LineInv
<1>8. CASE Assign
  BY <1>8, AssignMakes
<1>9. CASE BeginList
  BY <1>9, BeginMakes
<1>10. CASE ExpandStep
  <2>1. stage = "expand" /\ ExpNext /\ UNCHANGED <<input, tokens, stage, line, env>>
    BY <1>10, ExpandLeaves DEF ExpandStep, lexVars
  <2>2. (\A t : TextOf(t)' = TextOf(t) /\ Unquoted(t)' = Unquoted(t)) /\ Ahead' = Ahead
    BY <2>1, SameTexts DEF Ahead
  <2>3. Closed'
    BY <2>1, <2>2 DEF LineInv, Closed
  <2>4. ASSUME ~failed' PROVE Made'
    <3>1. ~failed
      BY <1>2, <2>1, <2>4 DEF ExpNext, Keep, Begin, NormalChar, HandleExitStatus, HandleVariable,
        LoneDollar, NameChar, NameEnd, AppendStr, End, GiveUp, Full, NoMemory
    <3>2. Untouched' /\ Written' /\ Half'
      BY <1>1, <2>1, <2>4, <3>1, ExpandKeeps DEF LineInv, Made
    <3>3. Given' /\ AssignedBy(env, Ahead)' /\ Prefix'
      BY <2>1, <2>2, <3>1 DEF LineInv, Made, Given, AssignedBy, Prefix
    <3> QED
      BY <3>2, <3>3 DEF Made
  <2> QED
    BY <2>3, <2>4
<1>11. CASE UNCHANGED wordsVars
  <2>1. UNCHANGED <<input, tokens, stage, line, vals, cur, pc, i, start, res, rest, env, failed>>
    BY <1>11 DEF wordsVars, lexVars, expVars
  <2>2. (\A t : TextOf(t)' = TextOf(t) /\ Unquoted(t)' = Unquoted(t)) /\ Ahead' = Ahead
        /\ Input' = Input
    BY <2>1, SameTexts DEF Ahead, Input
  <2>3. Closed'
    BY <2>1, <2>2 DEF LineInv, Closed
  <2>4. ASSUME Made PROVE Made'
    <3>1. Given' /\ AssignedBy(env, Ahead)' /\ Prefix' /\ Untouched' /\ Written'
      BY <2>1, <2>2, <2>4 DEF Made, Given, AssignedBy, Prefix, Untouched, Written
    <3>2. Half'
      BY <2>1, <2>2, <2>4 DEF Made, Half
    <3> QED
      BY <3>1, <3>2 DEF Made
  <2> QED
    BY <2>1, <2>3, <2>4 DEF LineInv
<1> QED
  BY <1>3, <1>4, <1>5, <1>6, <1>7, <1>8, <1>9, <1>10, <1>11 DEF Next

\* The last of the assignments to a name counts.
LEMMA LastAssignment ==
  ASSUME AssignedBy(env, Leading), LexInv
  PROVE  Assigned
<1> SUFFICES ASSUME NEW n \in DOMAIN env \cup DOMAIN Values
             PROVE  LET by == {t \in Leading : Len(n) < Len(Unquoted(t)) /\ Assigns(t, n)}
                    IN IF by = {} THEN n \in DOMAIN Values /\ ValueOf(n) = Values[n]
                       ELSE LET s == Unquoted(CHOOSE t \in by : \A u \in by : u <= t)
                            IN ValueOf(n) = SubSeq(s, Len(n) + 2, Len(s))
  BY DEF Assigned
<1> DEFINE by == {t \in Leading : Len(n) < Len(Unquoted(t)) /\ Assigns(t, n)}
           t0 == CHOOSE t \in by : \A u \in by : u <= t
           U == {k \in Nat : \A t \in by : t <= k}
<1>1. ValueOf(n) = LookUp(env, n)
  BY DEF ValueOf, LookUp
<1>2. \A t : t \in by <=> t \in Leading /\ Binds(Unquoted(t), n)
  BY DEF Assigns, Binds
<1>3. Len(tokens) \in Nat /\ \A t \in by : t \in 1..Len(tokens)
  BY DEF LexInv, LexTypeOK, Leading
<1>4. CASE by = {}
  <2>1. n \in DOMAIN Values /\ LookUp(env, n) = Values[n]
    <3> HIDE DEF by
    <3> QED
      BY <1>2, <1>4 DEF AssignedBy
  <2> QED
    BY <1>1, <1>4, <2>1
<1>5. CASE by # {}
  <2>1. \E t \in by : \A u \in by : u <= t
    <3> HIDE DEF by
    <3>1. U \in SUBSET Nat /\ Len(tokens) \in U
      BY <1>3
    <3>2. PICK m \in U : \A k \in U : m <= k
      <4> HIDE DEF U
      <4> QED
        BY <3>1, LeastNat
    <3>3. m \in Nat /\ \A t \in by : t <= m
      BY <3>2
    <3>4. m \in by
      <4>1. SUFFICES ASSUME m \notin by PROVE FALSE
        OBVIOUS
      <4>2. \A t \in by : t <= m - 1 /\ t >= 1
        BY <1>3, <3>3, <4>1
      <4>3. m - 1 \in Nat
        BY <1>3, <1>5, <3>3, <4>2
      <4>4. m - 1 \in U
        BY <4>2, <4>3
      <4> QED
        BY <3>2, <3>3, <4>4
    <3> QED
      BY <3>3, <3>4
  <2>2. t0 \in by /\ \A u \in by : u <= t0
    <3> HIDE DEF by
    <3> QED
      BY <2>1
  <2> HIDE DEF t0
  <2>3. LookUp(env, n) = SubSeq(Unquoted(t0), Len(n) + 2, Len(Unquoted(t0)))
    <3> HIDE DEF by
    <3> QED
      BY <1>2, <2>2 DEF AssignedBy
  <2> QED
    BY <1>1, <1>5, <2>3 DEF t0
<1> QED
  BY <1>4, <1>5

\* While memory lasts, lines of any length become what their characters say:
\* each word is its text without the quotes, or the expansion of its text in
\* the environment that the assignments in front of the line leave.
THEOREM WordsOfLine == Spec => []FromLine
<1>1. Spec => []LineInv
  BY LineInit, LineStep, PTL DEF Spec
<1>2. LineInv => FromLine
  <2> SUFFICES ASSUME LineInv, stage = "expand", ~failed
               PROVE  /\ Assigned
                      /\ \A t \in 1..(cur - 1) :
                           vals[t] = IF t \in Leading \/ TextOf(t)[1] \in Quote THEN Unquoted(t)
                                     ELSE Expansion(TextOf(t), 1)
    BY DEF FromLine
  <2>1. Inv /\ Closed /\ Made /\ Ahead = Leading
    BY DEF LineInv, Ahead
  <2>2. Assigned
    BY <2>1, LastAssignment DEF Made, Inv
  <2>3. ASSUME NEW t \in 1..(cur - 1)
        PROVE  vals[t] = IF t \in Leading \/ TextOf(t)[1] \in Quote THEN Unquoted(t)
                         ELSE Expansion(TextOf(t), 1)
    <3>1. t \in 1..Len(line)
      BY <2>1 DEF Inv, ExpInv, ExpTypeOK
    <3>2. /\ line[t].value = Unquoted(t)
          /\ line[t].kept <=> TextOf(t)[1] \in Quote \/ t \in Leading
      BY <2>1, <3>1 DEF Closed, Made, Given
    <3>3. vals[t] = IF line[t].kept THEN line[t].value ELSE Meaning(env, line[t].value, 1)
      BY <2>1 DEF Made, Written
    <3>4. TextOf(t)[1] \notin Quote => Unquoted(t) = TextOf(t)
      BY DEF Unquoted, Quote
    <3> QED
      BY <3>2, <3>3, <3>4, ExpansionIs
  <2> QED
    BY <2>2, <2>3
<1> QED
  BY <1>1, <1>2, PTL
=============================================================================

------------------------------- MODULE Chars --------------------------------
(***************************************************************************)
(* The characters of a line, as the lexer and the expander tell them apart.*)
(***************************************************************************)
EXTENDS Integers, Sequences

CONSTANTS Char, Letter, Digit   \* "_" counts as a letter

ASSUME CharAssumption == /\ Letter \subseteq Char /\ Digit \subseteq Char
                         /\ {"$", "?", "="} \subseteq Char \ (Letter \cup Digit)

Text == Seq(Char)
=============================================================================

------------------------------- MODULE MCWords -------------------------------
(***************************************************************************)
(* A small instance of Words for TLC: three families of lines, for the     *)
(* borders of tokens, the expansion of one word, and the ways of quoting   *)
(* and assigning; a buffer that starts with two bytes and values longer    *)
(* than it.                                                                *)
(***************************************************************************)
EXTENDS Words, SequencesExt

MCChar == {" ", "'", "\"", "<", "|", ">", "$", "?", "=", "a", "1", "."}
MCLetter == {"a"}
MCDigit == {"1"}

MCLines == SeqOf({" ", "'", "\"", "<", "|", "a"}, 5)
           \cup SeqOf({"$", "?", "a", "1", "."}, 4)
           \cup SeqOf({" ", "'", "\"", "$", "a", "="}, 4)
           \cup {s \o <<" ">> \o t \o <<" ", "$", "a">> : s, t \in SeqOf({"a", "1", "="}, 3)}
           \cup {<<"'">> \o s \o <<"'", " ", "$", "a">> : s \in SeqOf({"$", "a", "="}, 3)}

MCValues == (<<"a">> :> <<"1", "$", "a">>) @@ (<<"a", "1">> :> <<"?">>)
MCExitStatus == <<"1", "1", "1">>
=============================================================================

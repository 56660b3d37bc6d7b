---------------------------- MODULE MCLineReader ----------------------------
(***************************************************************************)
(* Small instances of LineReader for TLC.                                  *)
(***************************************************************************)
EXTENDS LineReader

MCInputs ==
  { [in |-> <<"nl", "b", "nl", "a">>, other |-> <<"b", "nl", "a">>],
    [in |-> <<"nl", "a", "b", "nl">>, other |-> <<"b", "nl">>],
    [in |-> <<"nl", "b", "eof", "a">>, other |-> <<"a">>],
    [in |-> <<"nl", "nul", "a", "nl">>, other |-> <<"nul", "nl">>] }
MCDelimiters == {<<"a">>}
=============================================================================

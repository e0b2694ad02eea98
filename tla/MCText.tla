------------------------------- MODULE MCText -------------------------------
(***************************************************************************)
(* Small instances of Text for TLC.  "e" is a character of two bytes.      *)
(***************************************************************************)
EXTENDS Text

MCHeads ==
    { <<"PRIVMSG", " ">>,
      <<"@", "+", "a", "=", "b", ";", "x", " ", "PRIVMSG", " ">>,        \* a client tag and another
      <<"@", "x", ";", "+", "=", "a", ";", ";", "+", "@", " ", "TAGMSG", " ">>,
      <<"@", " ", ":", "p", " ", "TAGMSG", " ">> }                       \* no tags, and a prefix

MCTagChars == {"x", "s", ";", " ", "\\", ":", "=", "LF"}

MCModeParams == { <<>>, <<<<"p">>>>, <<<<"p">>, <<"q">>>>, <<<<>>, <<"p">>>> }

MCNames == BoundedSeq({"a", "e"}, 3) \ {<<>>}

=============================================================================

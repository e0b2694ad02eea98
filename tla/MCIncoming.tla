----------------------------- MODULE MCIncoming -----------------------------
(***************************************************************************)
(* Small instances of Incoming for TLC: limits of 3 and, with tags, 5      *)
(* bytes, a buffer of 3, and streams around these limits.                  *)
(***************************************************************************)
EXTENDS Incoming

MCStreams ==
    { <<"x", "CR", "LF", "x", "LF">>,                \* lines with both ends
      <<"LF", "CR", "x", "CR", "CR", "LF", "x">>,    \* blank lines, no end at the end
      <<"@", "x", "x", "x", "LF", "x", "LF">>,       \* as long as tags allow
      <<"@", "x", "x", "x", "x", "x", "x", "x", "LF">>,  \* too long, or in too many pieces
      <<"x", "x", "LF", "x", "@", "x", "x">>,        \* the limit is that of the first byte
      <<"x", "LF", "z", "LF", "x", "LF">> }          \* not UTF-8

=============================================================================

------------------------------ MODULE MCControl ------------------------------
(***************************************************************************)
(* Small instances of Control for TLC.                                     *)
(***************************************************************************)
EXTENDS Control

\* Both addresses, one of them, a changed mode, and a certificate that is missing.
TwoAddrs == {"a", "b"}
MCFiles  == { Unreadable, [a |-> "plain", b |-> "plain"], [a |-> "tls"],
              [a |-> "broken", b |-> "plain"] }

=============================================================================

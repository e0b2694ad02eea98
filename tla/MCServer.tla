------------------------------ MODULE MCServer ------------------------------
(***************************************************************************)
(* Small instances of Server for TLC.                                      *)
(***************************************************************************)
EXTENDS Server

MCNicks == {"ann", "bob"}
MCFold  == [n \in {"ann", "bob", "*"} |-> n]
MCMatch == [m \in {} |-> {}]
MCTrips == MCMatch
MCTruncate == [k \in {} |-> ""]

Opers   == [password |-> "", default_chan_mode |-> {}, opers |-> {"root"}]
Secured == [Opers EXCEPT !.password = "pw"]

OpersOnly == {Opers}
Either    == {Opers, Secured}
NoChanges == {NoChange}

KillRequests  == {"Nick", "User", "Quit", "Oper", "Kill"}
TaskRequests  == KillRequests \cup {"Pass", "Authenticate"}
PanicRequests == {"Nick", "User", "MessageAll", "Authenticate"}

=============================================================================

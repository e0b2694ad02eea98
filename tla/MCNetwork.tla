------------------------------ MODULE MCNetwork ------------------------------
(***************************************************************************)
(* Small instances of Network, with its views, for TLC.                    *)
(***************************************************************************)
EXTENDS Views, TLC

\* Nicknames of two clients, one of them in two spellings.
CaseNicks == {"ann", "ANN", "bob"}
MCFold    == [n \in Nicks \cup {"*"} |-> IF n = "ANN" THEN "ann" ELSE n]

\* One key is truncated to the other by keylen, and one is cut inside a character.
MCTruncate == [k \in ChanKeys |-> IF k = "split" THEN None ELSE "key"]

\* A mask on nicknames, one on a full name, and one on nothing.
MCMatch == [m \in Masks |-> CASE m = "*nn" -> {<<"ann">>, <<"ANN">>}
                               [] m = "bob!~usr" -> {<<"bob", "usr">>}
                               [] OTHER -> {}]

\* User names have a character of several bytes, and so has bob.
MCTrips == [m \in Masks |-> CASE m = "*nn" -> {<<"bob">>} \cup (Nicks \X {"usr"})
                               [] m = "*zz" -> Nicks \X {"usr"}
                               [] OTHER -> {}]

Open       == [password |-> "", default_chan_mode |-> {}, opers |-> {}]
Opers      == [Open EXCEPT !.opers = {"root"}]
Restricted == [Opers EXCEPT !.default_chan_mode = {"InviteOnly"}]
Secured    == [Opers EXCEPT !.password = "pw"]
Renewed    == [Opers EXCEPT !.password = "pw2", !.default_chan_mode = {"Secret"}]

OpersOnly   == {Opers}
Passwords   == {Secured, Renewed}
NewPassword == {Open, Secured}
Defaults    == {Opers, Restricted}
Hidden      == {Open, [Open EXCEPT !.password = "pw", !.default_chan_mode = {"Secret"}]}

NoChanges == {NoChange}
Banning   == {NoChange, <<"ChangeBan", TRUE, "*zz">>}
Breaking  == Banning \cup {<<"Key", TRUE, "split">>}
\* Changes of each kind that a join, a rank or another change can depend on.
AccessChanges ==
    { NoChange, <<"InviteOnly", TRUE>>, <<"Key", FALSE>>,
      <<"UserLimit", 1>>, <<"ChangeOperator", TRUE, "bob">>,
      <<"Key", TRUE, "keylong">>, <<"Key", TRUE, "split">>,
      <<"ChangeBan", TRUE, "bob!~usr">>,
      <<"ChangeBan", TRUE, "*nn">>, <<"ChangeException", TRUE, "*nn">>,
      <<"ChangeInvitation", TRUE, "*nn">> }
RankChanges ==
    {NoChange, <<"Moderated", TRUE>>, <<"Secret", TRUE>>, <<"TopicRestricted", TRUE>>}
        \cup ({"ChangeOperator"} \X BOOLEAN \X Nicks) \cup ({"ChangeHalfop"} \X {TRUE} \X Nicks)

LoginRequests ==
    {"Pass", "Nick", "User", "CapLs", "CapReq", "CapEnd", "Quit"}
SessionRequests ==
    LoginRequests \cup
        {"Away", "SetName", "ModeUserSet", "Oper", "Kill",
         "Join", "Part", "PartAll", "Invite", "Kick", "ModeChannelSet", "TopicSet",
         "WhoMask", "MessageAll", "Authenticate"}
ChannelRequests ==
    {"Nick", "User", "Quit", "Join", "Part", "PartAll", "Kick", "ModeChannelSet"}
RankRequests ==
    {"Nick", "User", "Join", "Kick", "ModeChannelSet", "TopicSet", "Oper", "Kill"}
AccessRequests ==
    {"Nick", "User", "Join", "Part", "Kick", "ModeChannelSet", "Invite"}

Symmetry == Permutations(Ids)

\* Where no constant names a nickname or a channel, these are alike too.
FullSymmetry == Symmetry \cup Permutations(Nicks) \cup Permutations(Chans)

=============================================================================

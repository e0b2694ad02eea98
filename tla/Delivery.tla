------------------------------ MODULE Delivery ------------------------------
(***************************************************************************)
(* What the commands of Network send to clients about channels, and what a *)
(* client that believes its messages knows in consequence (`seen`).  The   *)
(* queue of a client is a FIFO that its task writes to the socket, and     *)
(* commands run one at a time, so messages are applied in the step that    *)
(* sends them.  Names in messages are compared as the server does, case    *)
(* folded.  A client knows its own nickname, and leaves a channel in       *)
(* `seen` when a message tells it that it left.  One of whose handlers     *)
(* panicked leaves `seen`: its replies are lost, and its task reads for it *)
(* no more.                                                                *)
(***************************************************************************)
EXTENDS Views

VARIABLE seen  \* id -> channel -> what the client was told of that channel

dvars == <<clients, nicks, channels, config, seen>>

nick(id) == u(clients[id].nick)

DInit == Init /\ seen = EmptyMap

\* What a client may have been told of a channel.
\* MODE changes that a panic kept from it are in `missed`.
View == [ names : SUBSET NickKeys, ops : SUBSET NickKeys,
          topic : Topics \cup {None}, key : ChanKeys \cup {None},
          missed : SUBSET {"ChangeOperator", "Key"} ]

ASSUME ViewAssumption == None \notin View

\* What a client knows of a channel that it was put out of without being told; it matters
\* no more once the client has entered the channel again.
Stale == None

\* The clients in S apply F to what they know of the channels in C.
Told(S, C, F(_)) ==
    [i \in DOMAIN seen |-> [c \in DOMAIN seen[i] |->
        IF i \in S /\ c \in C /\ seen[i][c] # Stale THEN F(seen[i][c]) ELSE seen[i][c]]]

\* A client learns that K are no longer there.
Without(view, K) == [view EXCEPT !.names = @ \ K, !.ops = @ \ K]

\* Mutant: only clients of one of the issuer's channels are told.
Notified1(id) ==
    LET C == {c \in DOMAIN channels : IsMember(id, c)}
    IN  IF C = {} THEN {} ELSE Members(CHOOSE c \in C : TRUE) \ {id}

\* send_notification: whoever shares a channel with the issuer.
Notified(id) ==
    (UNION {Members(c) : c \in {d \in DOMAIN channels : IsMember(id, d)}}) \ {id}

-----------------------------------------------------------------------------
(* Messages about clients *)

\* QUIT, which remove_client sends before it removes the client from its channels.
TellQuit(id) ==
    LET left == IF is_registered(id) THEN Notified(id) ELSE {}
    IN  seen' = Drop(Told(left, Chans, LAMBDA v : Without(v, {nick(id)})), {id})

DeliverRemoval(id) ==
    \/ peer_quit(id) /\ TellQuit(id)
    \/ remove_if_unregistered(id) /\ TellQuit(id)
    \/ cmd_user_refused(id) /\ TellQuit(id)
    \/ cmd_quit(id) /\ TellQuit(id)
    \/ \E n \in Nicks : cmd_kill(id, n) /\ TellQuit(nicks[u(n)])

Renamed(S, old, new) == IF old \in S THEN (S \ {old}) \cup {new} ELSE S

\* NICK of a registered client is sent to it and to those who share a channel with it.
DeliverNick(id, n) ==
    /\ cmd_nick(id, n)
    /\ LET told == IF is_registered(id) THEN Notified(id) \cup {id} ELSE {}
       IN  seen' = Told(told, Chans, LAMBDA v :
                          [v EXCEPT !.names = Renamed(@, nick(id), u(n)),
                                    !.ops   = Renamed(@, nick(id), u(n))])

\* Commands that say nothing of channels.
Quiet(id) ==
    \/ cmd_pass(id) \/ cmd_cap_ls(id) \/ cmd_cap_end(id) \/ cmd_oper(id)
    \/ \E usr \in Users, real \in Reals : cmd_user(id, usr, real)
    \/ \E on \in SUBSET Caps : \E off \in SUBSET (Caps \ on) : cmd_cap_req(id, on, off)
    \/ \E reason \in Reasons \cup {None} : cmd_away(id, reason)
    \/ \E real \in Reals : cmd_setname(id, real)
    \/ \E on \in SUBSET {"invisible"} : \E off \in SUBSET ({"invisible", "operator"} \ on) :
          cmd_mode_user_set(id, on, off)
    \/ \E n \in Nicks, c \in Chans : cmd_invite(id, n, c)

-----------------------------------------------------------------------------
(* Messages about channels *)

\* What JOIN, RPL_TOPIC and RPL_NAMREPLY tell the client that enters; it knows the key
\* that let it in.
Entered(id, c) ==
    [ names |-> {u(e[1]) : e \in send_names(id, c)'},
      ops   |-> {u(e[1]) : e \in {f \in send_names(id, c)' : "operator" \in f[2]}},
      topic |-> channels'[c].topic,
      key   |-> channels'[c].key,
      missed |-> {} ]

\* What client i, another one than the issuer, knows when the issuer has joined some channels.
JoinHeard(id, i, joined) ==
    [c \in DOMAIN seen[i] |->
        IF c \in joined /\ i \in Members(c)
        THEN [seen[i][c] EXCEPT !.names = @ \cup {nick(id)}] ELSE seen[i][c]]

DeliverJoin(id, list) ==
    /\ cmd_join(id, list)
    /\ LET joined == Joinable(id, list)
       IN  seen' = [i \in DOMAIN seen |->
                      IF i = id THEN [c \in DOMAIN seen[i] \cup joined |->
                                        IF c \in joined THEN Entered(id, c) ELSE seen[i][c]]
                      ELSE JoinHeard(id, i, joined)]

\* What those on the channels in C know when the issuer has left them.
PartHeard(id, i, C) ==
    [c \in DOMAIN seen[i] |->
        IF c \in C /\ {id, i} \subseteq Members(c) THEN Without(seen[i][c], {nick(id)})
                                                   ELSE seen[i][c]]

\* Mutant: PART is only sent to those who stay.
TellPartOthers(id, C) == seen' = [i \in DOMAIN seen |-> PartHeard(id, i, C)]

\* PART of each channel in C that the issuer is on, to those who stay and to the issuer.
TellPart(id, C) ==
    seen' = [i \in DOMAIN seen |->
               IF i = id THEN Drop(seen[i], {c \in C : find_member(id, c)})
                         ELSE PartHeard(id, i, C)]

\* Mutant: the kicked client is told, the others are not.
KickHeardByKicked(id, i, c, kicked) ==
    IF i \in kicked THEN Drop(seen[i], {c}) ELSE seen[i]

\* What client i knows once `kicked` were put out of c one by one: each is off the channel
\* before the members that are left are told, so it is not told itself, and from then on
\* hears nothing of a channel it believes to be on.  The issuer is told of all of them.
KickHeard(id, i, c, kicked) ==
    IF i \in kicked
    THEN IF i = id THEN Drop(seen[i], {c}) ELSE [seen[i] EXCEPT ![c] = Stale]
    ELSE IF i \in Members(c)
         THEN [seen[i] EXCEPT ![c] = Without(@, {nick(k) : k \in kicked})]
         ELSE seen[i]

DeliverKick(id, c, who) ==
    /\ cmd_kick(id, c, who)
    /\ LET kicked == {nicks[u(n)] : n \in {m \in who : find_nick(m)}} \cap Members(c)
       IN  seen' = [i \in DOMAIN seen |-> KickHeard(id, i, c, kicked)]

\* Mutant: changes that were not applied are announced as well.
HeardModeAlways(view, ch, change, nick_of) ==
    CASE change[1] = "ChangeOperator" ->
            [view EXCEPT !.ops = Toggle(@, u(change[3]), change[2])]
      [] change[1] = "Key" ->
            [view EXCEPT !.key = IF change[2] THEN change[3] ELSE None]
      [] OTHER -> view

\* What a member that hears of a MODE change makes of it; a change that alters nothing is
\* not announced, and the key is announced as it was given.
HeardMode(view, ch, change, nick_of) ==
    LET kind == change[1]
    IN  IF apply_mode_change(ch, change, nick_of) = ch THEN view
        ELSE CASE kind = "ChangeOperator" ->
                     [view EXCEPT !.ops = Toggle(@, u(change[3]), change[2])]
               [] kind = "Key" ->
                     [view EXCEPT !.key = IF change[2] THEN change[3] ELSE None]
               [] OTHER -> view

DeliverMode(id, c, first, second) ==
    /\ cmd_mode_channel_set(id, c, first, second)
    /\ LET ch == channels[c]
           nick_of == [m \in DOMAIN ch.members |-> clients[m].nick]
       IN  seen' = Told(Members(c), {c}, LAMBDA v :
                      HeardMode(HeardMode(v, ch, first, nick_of),
                                apply_mode_change(ch, first, nick_of), second, nick_of))

(***************************************************************************)
(* Handlers that panic: nobody hears of what they were about to announce,  *)
(* nor the issuer of anything.  A JOIN was announced channel by channel.   *)
(***************************************************************************)
DeliverJoinPanics(id, done, p) ==
    /\ cmd_join_panics(id, done, p)
    /\ seen' = [i \in DOMAIN seen \ {id} |-> JoinHeard(id, i, Joinable(id, done))]

\* The notice of a MODE list is written when all its changes are treated.
DeliverModePanics(id, c, done, change) ==
    /\ cmd_mode_channel_set_panics(id, c, done, change)
    /\ LET missed == IF UNCHANGED channels THEN {} ELSE {done[1]} \cap {"ChangeOperator", "Key"}
       IN  seen' = Drop(Told(Members(c), {c}, LAMBDA v : [v EXCEPT !.missed = @ \cup missed]), {id})

DeliverPanic(id) ==
    \/ panics_before(id) /\ seen' = Drop(seen, {id})
    \/ \E usr \in Users : cmd_user_panics(id, usr) /\ seen' = Drop(seen, {id})
    \/ \E done \in SUBSET (Chans \X (ChanKeys \cup {None})),
          p \in Chans \X (ChanKeys \cup {None}) : DeliverJoinPanics(id, done, p)
    \/ \E c \in Chans : \E done, change \in Changes : DeliverModePanics(id, c, done, change)

DeliverTopic(id, c, topic) ==
    /\ cmd_topic_set(id, c, topic)
    /\ seen' = Told(Members(c), {c}, LAMBDA v : [v EXCEPT !.topic = topic])

\* Mutant: the rank of members on moderated channels does not matter to outsiders.
can_talk_outside(ch, id) ==
    IF "Moderated" \in ch.flags /\ id \in DOMAIN ch.members THEN ch.members[id] # {}
    ELSE "NoPrivMsgFromOutside" \notin ch.flags \/ id \in DOMAIN ch.members

\* Channel::can_talk; every member mode gives a voice (has_voice).
can_talk(ch, id) ==
    IF "Moderated" \in ch.flags THEN id \in DOMAIN ch.members /\ ch.members[id] # {}
    ELSE "NoPrivMsgFromOutside" \notin ch.flags \/ id \in DOMAIN ch.members

\* The clients that PRIVMSG, NOTICE or TAGMSG to channel c reaches.
cmd_message_channel(id, c, tagmsg) ==
    IF c \in DOMAIN channels /\ can_talk(channels[c], id)
    THEN {m \in Members(c) \ {id} : tagmsg => "message_tags" \in clients[m].caps}
    ELSE {}

-----------------------------------------------------------------------------
DNext ==
    \/ rehash /\ UNCHANGED seen
    \/ \E id \in Ids :
          \/ peer_joined(id) /\ seen' = Put(seen, id, EmptyMap)
          \/ DeliverRemoval(id)
          \/ Quiet(id) /\ UNCHANGED seen
          \/ DeliverPanic(id)
          \/ \E n \in Nicks : DeliverNick(id, n)
          \/ \E list \in SUBSET (Chans \X (ChanKeys \cup {None})) : DeliverJoin(id, list)
          \/ \E C \in SUBSET Chans : cmd_part(id, C) /\ TellPart(id, C)
          \/ cmd_part_all(id) /\ TellPart(id, Chans)
          \/ \E c \in Chans :
                \/ \E who \in SUBSET Nicks : DeliverKick(id, c, who)
                \/ \E first, second \in Changes : DeliverMode(id, c, first, second)
                \/ \E topic \in Topics \cup {None} : DeliverTopic(id, c, topic)

DSpec == DInit /\ [][DNext]_dvars

-----------------------------------------------------------------------------
(* Properties *)

\* Whatever joined, left, was kicked, renamed or promoted, in any order and on several
\* channels at once, the messages a member was sent add up to the channel as it is: its
\* members and its topic, whichever handlers panicked; and its operators, and a key that
\* starts with the one that MODE shows it and that JOIN asks for (a longer key than keylen
\* is announced whole and stored cut), unless a MODE list that changed the one or the other
\* panicked at the key before its notice while the member was there.
MembersSeeChannel ==
    \A c \in DOMAIN channels : \A id \in Members(c) \cap DOMAIN seen :
        /\ c \in DOMAIN seen[id] /\ seen[id][c] # Stale
        /\ LET v  == seen[id][c]
               ch == channels[c]
           IN  /\ v.names = {nick(m) : m \in Members(c)}
               /\ v.topic = ch.topic
               /\ "ChangeOperator" \notin v.missed => v.ops = {nick(m) : m \in Operators(c)}
               /\ "Key" \notin v.missed => \A q \in cmd_mode_channel_get(id, c) :
                     IF v.key = None THEN q.key = None
                                     ELSE q.key \in {v.key, Truncate[v.key]} \ {None}

\* A client that leaves a channel and stays on the network is told so, unless an operator
\* of the channel other than itself kicked it: send_kick runs after the removal.  (Clients
\* one of whose handlers panicked are not spoken of.)
LeaversTold ==
    [][\A c \in DOMAIN channels : \A id \in Members(c) \ Members(c)' :
          \/ id \notin DOMAIN seen'
          \/ c \notin DOMAIN seen'[id]
          \/ /\ Operators(c) \ {id} # {}
             /\ c \in DOMAIN channels'
             /\ UNCHANGED <<clients, nicks>>]_dvars

\* A message to a channel only reaches clients that know they are on it, and when the
\* channel is closed to outside messages or moderated, they know its author to be there.
AuthorsKnown ==
    \A id \in RegisteredIds, c \in Chans :
      \A m \in DOMAIN seen \cap UNION {cmd_message_channel(id, c, t) : t \in BOOLEAN} :
        /\ c \in DOMAIN seen[m] /\ seen[m][c] # Stale
        /\ channels[c].flags \cap {"NoPrivMsgFromOutside", "Moderated"} # {}
              => nick(id) \in seen[m][c].names

=============================================================================

------------------------------- MODULE Network -------------------------------
(***************************************************************************)
(* The shared state of the server (StateInner, src/src/state): clients,    *)
(* nicknames and channels, and every command that alters them.  The state  *)
(* is behind one mutex, so a call of State is one step.  A command that is *)
(* refused, or that only replies, leaves this state alone and has no       *)
(* action.  A comma list of targets is a set: the loops over them treat    *)
(* each target on its own, so the order and repetitions do not matter.  A  *)
(* handler that panics leaves what it has done so far, and its replies are *)
(* not sent.                                                               *)
(***************************************************************************)
EXTENDS Channel, Registration

CONSTANTS Nicks, Star,  \* valid nicknames, and "*", the name of a client without one
          Fold,         \* Fold[n]: the case-folded form (UniCase) of nickname n
          Users, Reals, Reasons, Caps,
          Chans,        \* case-folded channel names
          Changes,      \* the MODE changes clients send
          Configs,      \* the configurations a (re)load may find
          NoPassword,   \* the empty password
          Requests,     \* the requests clients send
          Panicking     \* those of them that may be written so that their handler panics

AllNicks == Nicks \cup {Star}
u(n)     == Fold[n]
NickKeys == {u(n) : n \in Nicks}

ASSUME FoldAssumption ==
    /\ DOMAIN Fold = AllNicks
    /\ Star \notin Nicks
    /\ u(Star) \notin NickKeys
ASSUME ChangesAssumption == NoChange \in Changes /\ Changes \subseteq ChannelChange(Nicks)
ASSUME ConfigsAssumption ==
    /\ Configs # {}
    /\ \A cfg \in Configs : cfg.default_chan_mode \subseteq Flags
ASSUME NoneAssumption == None \notin Users /\ None \notin Reasons

VARIABLES clients,   \* Slab<Client>: id -> client
          nicks,     \* HashMap: folded nickname -> id
          channels,  \* HashMap: folded channel name -> channel
          config     \* the part of the configuration that commands read

vars == <<clients, nicks, channels, config>>

(***************************************************************************)
(* Clients (src/src/client.rs).  full_name is nick!~user@host, here the    *)
(* pair <<nick, user>>; None stands for the empty strings of a new client. *)
(***************************************************************************)
ClientFlags == {"has_given_password", "operator", "invisible"}

ClientType ==
    [ state        : ConnectionState,
      nick         : AllNicks,
      user         : Users \cup {None},
      real         : Reals \cup {None},
      full_name    : (AllNicks \X (Users \cup {None})) \cup {None},
      away_message : Reasons \cup {None},
      caps         : SUBSET Caps,
      flags        : SUBSET ClientFlags ]

NewClient ==
    [ state |-> "ConnectionEstablished", nick |-> Star, user |-> None, real |-> None,
      full_name |-> None, away_message |-> None, caps |-> {}, flags |-> {} ]

set_nick(c, n)   == [c EXCEPT !.nick = n, !.full_name = <<n, c.user>>]
set_user(c, usr) == [c EXCEPT !.user = usr, !.full_name = <<c.nick, usr>>]

is_registered(id) == id \in DOMAIN clients /\ clients[id].state = "Registered"

IsOper(id) == "operator" \in clients[id].flags

\* Mutant: the connection state is not consulted.
CanIssueAnything(id, r) == r \in Requests /\ id \in DOMAIN clients

\* Client::can_issue_request, for the requests of this instance.
CanIssue(id, r) ==
    /\ r \in Requests
    /\ id \in DOMAIN clients
    /\ Apply(clients[id].state, r) # Rejected

\* A request whose handler panics when the texts in it are right for that.
MayPanic(id, r) == r \in Panicking /\ CanIssue(id, r)

\* What handle_message does to the issuer's record c once request r has succeeded.
Succeed(id, c, r) ==
    clients' = [clients EXCEPT ![id] = [c EXCEPT !.state = Apply(c.state, r)]]

\* find_nick, find_member
find_nick(n) == u(n) \in DOMAIN nicks /\ is_registered(nicks[u(n)])

find_member(id, c) == c \in DOMAIN channels /\ id \in DOMAIN channels[c].members

(***************************************************************************)
(* Removal of a client.  Its entry in `invites` stays (the source has a    *)
(* TODO).  The sweep that drops empty channels runs over all channels, and *)
(* only when the client was registered.                                    *)
(***************************************************************************)
\* Mutants: the client stays a member; empty channels stay.
SweepNothing(id) == channels
SweepMembers(id) == [c \in DOMAIN channels |-> remove_members(channels[c], {id})]

Sweep(id) ==
    [c \in {d \in DOMAIN channels : DOMAIN channels[d].members \ {id} # {}} |->
        remove_members(channels[c], {id})]

\* Mutant: the nickname is not given back.
remove_client_not_nick(id) ==
    /\ clients'  = Drop(clients, {id})
    /\ channels' = IF is_registered(id) THEN Sweep(id) ELSE channels
    /\ UNCHANGED <<nicks, config>>

remove_client(id) ==
    /\ clients'  = Drop(clients, {id})
    /\ nicks'    = Drop(nicks, {u(clients[id].nick)})
    /\ channels' = IF is_registered(id) THEN Sweep(id) ELSE channels
    /\ UNCHANGED config

-----------------------------------------------------------------------------
(* Calls made by the connection tasks *)

\* State::peer_joined.  The slab returns a vacant key (the last one freed, or a new one).
peer_joined(id) ==
    /\ id \in Ids \ DOMAIN clients
    /\ clients' = Put(clients, id, NewClient)
    /\ UNCHANGED <<nicks, channels, config>>

peer_quit(id) == id \in DOMAIN clients /\ remove_client(id)

remove_if_unregistered(id) ==
    /\ id \in DOMAIN clients
    /\ ~is_registered(id)
    /\ remove_client(id)

\* State::rehash, when the server has been told to reload its configuration.
rehash ==
    /\ config' \in Configs
    /\ UNCHANGED <<clients, nicks, channels>>

-----------------------------------------------------------------------------
(* Session commands *)

\* A wrong password is ignored.
cmd_pass(id) ==
    /\ CanIssue(id, "Pass")
    /\ Succeed(id, [clients[id] EXCEPT !.flags = @ \cup {"has_given_password"}], "Pass")
    /\ UNCHANGED <<nicks, channels, config>>

\* Mutant: a nickname in use is taken over.
cmd_nick_takes_over(id, n) ==
    /\ CanIssue(id, "Nick")
    /\ nicks' = Put(Drop(nicks, {u(clients[id].nick)}), u(n), id)
    /\ Succeed(id, set_nick(clients[id], n), "Nick")
    /\ UNCHANGED <<channels, config>>

cmd_nick(id, n) ==
    /\ CanIssue(id, "Nick")
    /\ u(n) \in DOMAIN nicks => nicks[u(n)] = id
    /\ nicks' = Put(Drop(nicks, {u(clients[id].nick)}), u(n), id)
    /\ Succeed(id, set_nick(clients[id], n), "Nick")
    /\ UNCHANGED <<channels, config>>

\* Mutant: the password is only asked of clients that have a nickname.
MayUserUnnamed(id) ==
    config.password = NoPassword \/ "has_given_password" \in clients[id].flags
                                 \/ clients[id].nick = Star

MayUser(id) == config.password = NoPassword \/ "has_given_password" \in clients[id].flags

cmd_user(id, usr, real) ==
    /\ CanIssue(id, "User")
    /\ MayUser(id)
    /\ Succeed(id, [set_user(clients[id], usr) EXCEPT !.real = real], "User")
    /\ UNCHANGED <<nicks, channels, config>>

\* USER without the server's password removes the client.
cmd_user_refused(id) ==
    /\ CanIssue(id, "User")
    /\ ~MayUser(id)
    /\ remove_client(id)

cmd_cap_ls(id) ==
    /\ CanIssue(id, "CapLs")
    /\ Succeed(id, clients[id], "CapLs")
    /\ UNCHANGED <<nicks, channels, config>>

cmd_cap_req(id, on, off) ==
    /\ CanIssue(id, "CapReq")
    /\ Succeed(id, [clients[id] EXCEPT !.caps = (@ \cup on) \ off], "CapReq")
    /\ UNCHANGED <<nicks, channels, config>>

cmd_cap_end(id) ==
    /\ CanIssue(id, "CapEnd")
    /\ Succeed(id, clients[id], "CapEnd")
    /\ UNCHANGED <<nicks, channels, config>>

cmd_quit(id) == CanIssue(id, "Quit") /\ remove_client(id)

\* Only a change between here and away is accepted.
cmd_away(id, reason) ==
    /\ CanIssue(id, "Away")
    /\ clients[id].away_message = None <=> reason # None
    /\ Succeed(id, [clients[id] EXCEPT !.away_message = reason], "Away")
    /\ UNCHANGED <<nicks, channels, config>>

cmd_setname(id, real) ==
    /\ CanIssue(id, "SetName")
    /\ Succeed(id, [clients[id] EXCEPT !.real = real], "SetName")
    /\ UNCHANGED <<nicks, channels, config>>

\* Clients may give themselves +i and -i, and only take -o.
cmd_mode_user_set(id, on, off) ==
    /\ CanIssue(id, "ModeUserSet")
    /\ Succeed(id, [clients[id] EXCEPT !.flags = (@ \cup on) \ off], "ModeUserSet")
    /\ UNCHANGED <<nicks, channels, config>>

cmd_oper(id) ==
    /\ CanIssue(id, "Oper")
    /\ config.opers # {}
    /\ Succeed(id, [clients[id] EXCEPT !.flags = @ \cup {"operator"}], "Oper")
    /\ UNCHANGED <<nicks, channels, config>>

cmd_kill(id, who) ==
    /\ CanIssue(id, "Kill")
    /\ IsOper(id)
    /\ find_nick(who)
    /\ remove_client(nicks[u(who)])

-----------------------------------------------------------------------------
(* Channel commands *)

\* The channel that JOIN adds a member to.
entry(c) == IF c \in DOMAIN channels THEN channels[c]
                                     ELSE NewChannel(config.default_chan_mode)

\* The channels of a JOIN list of <<channel, key>> pairs that let client id in.
Joinable(id, list) ==
    {c \in Chans : \E p \in list :
        /\ p[1] = c
        /\ c \in DOMAIN channels =>
             check_join(channels[c], id, clients[id].nick, clients[id].full_name, p[2])}

\* Pair p of a JOIN list takes the task down (surely, or else perhaps).
Panics(id, p, sure) ==
    /\ p[1] \in DOMAIN channels
    /\ check_join_panics(channels[p[1]], id, clients[id].nick, clients[id].full_name, p[2], sure)

cmd_join(id, list) ==
    /\ CanIssue(id, "Join")
    /\ \A p \in list : ~Panics(id, p, TRUE)
    /\ LET joined == Joinable(id, list)
       IN  channels' = [c \in DOMAIN channels \cup joined |->
                           IF c \in joined THEN add_member(entry(c), id) ELSE channels[c]]
    /\ UNCHANGED <<clients, nicks, config>>

\* Mutant: the channel stays when its last member leaves.
LeaveOpen(id, C) ==
    [c \in DOMAIN channels |-> IF c \in C /\ find_member(id, c)
                               THEN remove_members(channels[c], {id}) ELSE channels[c]]

\* The channels once id has left those in C; one that it leaves empty is removed.
Leave(id, C) ==
    LET left == {c \in C : find_member(id, c)}
    IN  [c \in {d \in DOMAIN channels : d \in left => DOMAIN channels[d].members # {id}} |->
            IF c \in left THEN remove_members(channels[c], {id}) ELSE channels[c]]

cmd_part(id, C) ==
    /\ CanIssue(id, "Part")
    /\ channels' = Leave(id, C)
    /\ UNCHANGED <<clients, nicks, config>>

\* JOIN 0
cmd_part_all(id) ==
    /\ CanIssue(id, "PartAll")
    /\ channels' = Leave(id, Chans)
    /\ UNCHANGED <<clients, nicks, config>>

\* The issuer's rank is read once; the issuer may be among the kicked, and a channel
\* that loses its last member stays.
cmd_kick(id, c, who) ==
    /\ CanIssue(id, "Kick")
    /\ find_member(id, c)
    /\ "operator" \in channels[c].members[id]
    /\ channels' = [channels EXCEPT
                       ![c] = remove_members(@, {nicks[u(n)] : n \in {m \in who : find_nick(m)}})]
    /\ UNCHANGED <<clients, nicks, config>>

cmd_invite(id, n, c) ==
    /\ CanIssue(id, "Invite")
    /\ find_nick(n)
    /\ c \in DOMAIN channels
    /\ can_invite(channels[c], id)
    /\ nicks[u(n)] \notin DOMAIN channels[c].members \cup channels[c].invites
    /\ channels' = [channels EXCEPT ![c].invites = @ \cup {nicks[u(n)]}]
    /\ UNCHANGED <<clients, nicks, config>>

\* The issuer's rank is read before the first change (MODE with two changes at most).
cmd_mode_channel_set(id, c, first, second) ==
    /\ CanIssue(id, "ModeChannelSet")
    /\ find_member(id, c)
    /\ IsOper(id) \/ /\ can_change(channels[c].members[id], first)
                     /\ can_change(channels[c].members[id], second)
    /\ LET nick_of == [m \in DOMAIN channels[c].members |-> clients[m].nick]
           then    == apply_mode_change(channels[c], first, nick_of)
       IN  /\ ~key_panics(channels[c], first) /\ ~key_panics(then, second)
           /\ channels' = [channels EXCEPT ![c] = apply_mode_change(then, second, nick_of)]
    /\ UNCHANGED <<clients, nicks, config>>

cmd_topic_set(id, c, topic) ==
    /\ CanIssue(id, "TopicSet")
    /\ find_member(id, c)
    /\ "operator" \in channels[c].members[id] \/ "TopicRestricted" \notin channels[c].flags
    /\ channels' = [channels EXCEPT ![c].topic = topic]
    /\ UNCHANGED <<clients, nicks, config>>

-----------------------------------------------------------------------------
(***************************************************************************)
(* Handlers that panic.  A text longer than its limit is cut at a byte     *)
(* offset, and any text a client writes may have a character there; masks  *)
(* and keys are those of Trips and Truncate.                               *)
(***************************************************************************)

\* Before any change: the two todo!(), the cut of an away message, a kick message, a
\* topic or a user name, and a mask of WHO.
panics_before(id) ==
    /\ \/ MayPanic(id, "Authenticate")
       \/ MayPanic(id, "MessageAll")
       \/ MayPanic(id, "User") /\ MayUser(id)
       \/ MayPanic(id, "Away") /\ clients[id].away_message = None
       \/ MayPanic(id, "WhoMask") /\ IsOper(id)
       \/ \E c \in Chans : /\ find_member(id, c)
                           /\ \/ /\ MayPanic(id, "Kick")
                                 /\ "operator" \in channels[c].members[id]
                              \/ /\ MayPanic(id, "TopicSet")
                                 /\ \/ "operator" \in channels[c].members[id]
                                    \/ "TopicRestricted" \notin channels[c].flags
    /\ UNCHANGED vars

\* The real name is cut when the user name has been set.
cmd_user_panics(id, usr) ==
    /\ MayPanic(id, "User")
    /\ MayUser(id)
    /\ clients' = [clients EXCEPT ![id] = set_user(@, usr)]
    /\ UNCHANGED <<nicks, channels, config>>

\* Pair p of a JOIN list panics when the pairs in `done` have been treated.
cmd_join_panics(id, done, p) ==
    /\ MayPanic(id, "Join")
    /\ cmd_join(id, done)
    /\ p[1] \notin Joinable(id, done)
    /\ Panics(id, p, FALSE)

\* A MODE list panics at `change` when the change `done` has been applied.
cmd_mode_channel_set_panics(id, c, done, change) ==
    /\ MayPanic(id, "ModeChannelSet")
    /\ cmd_mode_channel_set(id, c, done, NoChange)
    /\ IsOper(id) \/ can_change(channels[c].members[id], change)
    /\ key_panics(channels'[c], change)

panic(id) ==
    \/ panics_before(id)
    \/ \E usr \in Users : cmd_user_panics(id, usr)
    \/ \E done \in SUBSET (Chans \X (ChanKeys \cup {None})),
          p \in Chans \X (ChanKeys \cup {None}) : cmd_join_panics(id, done, p)
    \/ \E c \in Chans : \E done, change \in Changes :
          cmd_mode_channel_set_panics(id, c, done, change)

-----------------------------------------------------------------------------
Init ==
    /\ clients = EmptyMap /\ nicks = EmptyMap /\ channels = EmptyMap
    /\ config \in Configs

\* handle_message for a command about the client's own session.
Session(id) ==
    \/ cmd_pass(id) \/ cmd_cap_ls(id) \/ cmd_cap_end(id) \/ cmd_oper(id)
    \/ cmd_user_refused(id) \/ cmd_quit(id)
    \/ \E n \in Nicks : cmd_nick(id, n) \/ cmd_kill(id, n)
    \/ \E usr \in Users, real \in Reals : cmd_user(id, usr, real)
    \/ \E on \in SUBSET Caps : \E off \in SUBSET (Caps \ on) : cmd_cap_req(id, on, off)
    \/ \E reason \in Reasons \cup {None} : cmd_away(id, reason)
    \/ \E real \in Reals : cmd_setname(id, real)
    \/ \E on \in SUBSET {"invisible"} : \E off \in SUBSET ({"invisible", "operator"} \ on) :
          cmd_mode_user_set(id, on, off)

\* handle_message for a command about channels.
Channels(id) ==
    \/ \E list \in SUBSET (Chans \X (ChanKeys \cup {None})) : cmd_join(id, list)
    \/ \E C \in SUBSET Chans : cmd_part(id, C)
    \/ cmd_part_all(id)
    \/ \E c \in Chans :
          \/ \E who \in SUBSET Nicks : cmd_kick(id, c, who)
          \/ \E n \in Nicks : cmd_invite(id, n, c)
          \/ \E first, second \in Changes : cmd_mode_channel_set(id, c, first, second)
          \/ \E topic \in Topics \cup {None} : cmd_topic_set(id, c, topic)

handle_message(id) == Session(id) \/ Channels(id)

Next ==
    \/ rehash
    \/ \E id \in Ids : \/ peer_joined(id) \/ peer_quit(id) \/ remove_if_unregistered(id)
                       \/ handle_message(id) \/ panic(id)

Spec == Init /\ [][Next]_vars

-----------------------------------------------------------------------------
(* Properties *)

\* Every variable keeps the type of the Rust field it stands for.
TypeOK ==
    /\ IsMap(clients, Ids, ClientType)
    /\ IsMap(nicks, NickKeys, Ids)
    /\ IsMap(channels, Chans, Range(channels))
    /\ \A c \in DOMAIN channels : IsChannel(channels[c])
    /\ config \in Configs

\* `nicks` and the nicknames in `clients` stay inverse to each other through every
\* NICK, removal and reuse of an id.  find_nick and KILL index the slab with what
\* `nicks` holds, and would panic on a nickname whose client is gone.
NicksConsistent ==
    /\ \A k \in DOMAIN nicks :
          nicks[k] \in DOMAIN clients /\ u(clients[nicks[k]].nick) = k
    /\ \A id \in DOMAIN clients : clients[id].nick # Star =>
          u(clients[id].nick) \in DOMAIN nicks /\ nicks[u(clients[id].nick)] = id

\* A member of a channel is a registered client, whichever way clients left.  The
\* broadcasts of JOIN, KICK, MODE, PART and TOPIC index the slab with every member,
\* and would panic on a member whose client is gone.
MembersRegistered ==
    \A c \in DOMAIN channels : \A id \in DOMAIN channels[c].members : is_registered(id)

\* A client is registered only with a nickname and a user name, and its cached
\* full_name (shown to others, matched by bans) is made of them.  CAP makes the
\* state machine forget and regain NICK and USER on the way.
RegisteredComplete ==
    \A id \in DOMAIN clients : is_registered(id) =>
        /\ clients[id].nick \in Nicks
        /\ clients[id].user \in Users
        /\ clients[id].full_name = <<clients[id].nick, clients[id].user>>

\* If every configuration the server ever loads has a password, a registered client
\* has sent the right one, whatever order PASS, NICK, USER and CAP came in.
PasswordRequired ==
    (\A cfg \in Configs : cfg.password # NoPassword) =>
        \A id \in DOMAIN clients :
            is_registered(id) => "has_given_password" \in clients[id].flags

\* A member of a channel has no pending invitation to it: an invitation lets a client
\* in once, so one who was invited, joined and was kicked is not let in by it again.
InvitesDisjoint ==
    \A c \in DOMAIN channels : channels[c].invites \cap DOMAIN channels[c].members = {}

Members(c)   == IF c \in DOMAIN channels THEN DOMAIN channels[c].members ELSE {}
Operators(c) == {m \in Members(c) : "operator" \in channels[c].members[m]}

\* A client becomes operator of a channel only by entering it while nobody is in it,
\* or while a member is operator of the channel or of the server: half-operators, voiced
\* members and outsiders never make one, so an operator-less channel stays so.
OperatorsFromOperators ==
    [][\A c \in Chans :
          \/ Operators(c)' \subseteq Operators(c)
          \/ Members(c) = {}
          \/ \E m \in Members(c) : m \in Operators(c) \/ IsOper(m)]_vars

\* Whoever enters a channel that others made finds room, is invited if it must be, and
\* is banned neither by its present nickname nor by its present full name: no command
\* but JOIN, and no JOIN of several channels, gets a client past the modes in force.
EntryControlled ==
    [][\A c \in DOMAIN channels : \A id \in Members(c)' \ Members(c) :
          LET ch == channels[c]
              me == clients[id]
          IN  /\ ch.user_limit = None \/ Cardinality(Members(c)') <= ch.user_limit
              /\ is_invited(ch, id, me.nick)
              /\ ~is_banned(ch, <<me.nick>>) /\ ~is_banned(ch, <<me.nick, me.user>>)]_vars

\* After a registered client is removed (QUIT, KILL, lost connection) no channel is
\* empty, the ones that a KICK had emptied before included.
RemovalSweepsChannels ==
    [][\A id \in DOMAIN clients :
          is_registered(id) /\ id \notin DOMAIN clients'
             => \A c \in DOMAIN channels' : Members(c)' # {}]_vars

\* A step that takes the last member out of a channel also removes the channel, except
\* a KICK by one of its operators, who then was among the kicked.
EmptiedOnlyByKick ==
    [][\A c \in DOMAIN channels :
          Members(c) # {} /\ c \in DOMAIN channels' /\ Members(c)' = {}
             => Operators(c) # {} /\ UNCHANGED <<clients, nicks>>]_vars

-----------------------------------------------------------------------------
(* What comments and documentation say, and the code does not ensure *)

\* "Clients need to issue a PASS command with this password to register": the password
\* is looked at by USER only, and a rehash may set it before NICK completes registration.
PasswordToRegister ==
    [][\A id \in DOMAIN clients \cap DOMAIN clients' :
          ~is_registered(id) /\ is_registered(id)' /\ config.password # NoPassword
             => "has_given_password" \in clients'[id].flags]_vars

-----------------------------------------------------------------------------
(***************************************************************************)
(* The network implements Rooms: its users are the registered clients,     *)
(* under their folded nicknames, and its rooms the channels' member sets.  *)
(***************************************************************************)
RegisteredIds == {id \in DOMAIN clients : clients[id].state = "Registered"}

R == INSTANCE Rooms WITH
        Names     <- NickKeys,
        RoomNames <- Chans,
        users     <- [id \in RegisteredIds |-> u(clients[id].nick)],
        rooms     <- [c \in DOMAIN channels |-> DOMAIN channels[c].members]

\* Every command, removal and rehash does to names and member lists what one step of
\* Rooms may do, or nothing; in particular no command moves or renames two users at once.
ImplementsRooms == R!Spec

=============================================================================

-------------------------------- MODULE Views --------------------------------
(***************************************************************************)
(* The commands that only show the state (src/src/state/v1.rs): NAMES,     *)
(* LIST, WHO, WHOIS, LUSERS, TOPIC and MODE queries.  Each is the set of   *)
(* the lines the client `id` gets; numerics that only end a list or say    *)
(* that there is nothing are left out.  A line keeps the fields that tell  *)
(* about clients and channels.                                             *)
(***************************************************************************)
EXTENDS Network

\* "*" is no channel name, and lines, with the names in them, have a bounded length.
ASSUME ChansAssumption == Star \notin Chans /\ IsFiniteSet(Chans)

\* The symbols of the member modes, highest rank first (all_symbols, symbol).
SymbolOrder == <<"founder", "protected", "operator", "halfop", "voice">>

symbol(modes) ==
    {SymbolOrder[i] : i \in {j \in DOMAIN SymbolOrder :
        /\ SymbolOrder[j] \in modes
        /\ \A h \in 1 .. j - 1 : SymbolOrder[h] \notin modes}}

Shown(id, modes) == IF "multi_prefix" \in clients[id].caps THEN modes ELSE symbol(modes)

IsMember(id, c) == id \in DOMAIN channels[c].members
IsSecret(c)     == "Secret" \in channels[c].flags

\* send_names: nobody but a member is shown a secret channel, server operators included.
send_names(id, c) ==
    IF c \in DOMAIN channels /\ (IsSecret(c) => IsMember(id, c))
    THEN {<<clients[m].nick, Shown(id, channels[c].members[m])>> : m \in DOMAIN channels[c].members}
    ELSE {}

\* Mutant: every channel is listed.
cmd_list_secret(id, targets) ==
    {<<c, Cardinality(DOMAIN channels[c].members), channels[c].topic>> :
        c \in targets \cap DOMAIN channels}

\* LIST of some channels, or of all of them (cmd_list_all).
cmd_list(id, targets) ==
    {<<c, Cardinality(DOMAIN channels[c].members), channels[c].topic>> :
        c \in {d \in targets \cap DOMAIN channels :
                  IsSecret(d) => IsOper(id) \/ IsMember(id, d)}}

\* LUSERS: all clients, and the registered operators, unregistered clients and channels
\* it counts apart.
cmd_lusers(id) ==
    [ clients  |-> Cardinality(DOMAIN clients),
      op       |-> Cardinality({i \in DOMAIN clients : is_registered(i) /\ IsOper(i)}),
      unknown  |-> Cardinality({i \in DOMAIN clients : ~is_registered(i)}),
      channels |-> Cardinality({c \in DOMAIN channels : IsSecret(c) => IsMember(id, c)}) ]

\* MODE <channel>: the limit and the key are shown to members and server operators.
cmd_mode_channel_get(id, c) ==
    IF c \in DOMAIN channels
    THEN LET ch == channels[c]
             full_info == IsMember(id, c) \/ IsOper(id)
         IN  {[ flags      |-> ch.flags,
                has        |-> <<ch.user_limit # None, ch.key # None>>,
                user_limit |-> IF full_info THEN ch.user_limit ELSE None,
                key        |-> IF full_info THEN ch.key ELSE None ]}
    ELSE {}

\* TOPIC <channel>
cmd_topic_get(id, c) ==
    IF c \in DOMAIN channels /\ (IsSecret(c) => IsMember(id, c)) THEN {channels[c].topic} ELSE {}

\* who_line
who_line(id, m, c, modes) ==
    [nick |-> clients[m].nick, channel |-> c, modes |-> Shown(id, modes),
     away |-> clients[m].away_message # None]

\* Mutant: secret channels are shown with members who are not invisible.
WhoChannelsPublic(id, m) ==
    {c \in DOMAIN channels :
        IsMember(m, c) /\ (IsOper(id) \/ IsMember(id, c) \/ "invisible" \notin clients[m].flags)}

\* The channels that may go with m on a line for id.
WhoChannels(id, m) ==
    {c \in DOMAIN channels :
        /\ IsMember(m, c)
        /\ \/ IsOper(id) \/ IsMember(id, c)
           \/ "invisible" \notin clients[m].flags /\ ~IsSecret(c)}

\* Mutant: an invisible client does not find itself.
who_user_not_self(id, m, opers_only) ==
    IF (opers_only => IsOper(m)) /\ is_registered(m)
    THEN IF WhoChannels(id, m) # {}
         THEN {who_line(id, m, c, channels[c].members[m]) : c \in WhoChannels(id, m)}
         ELSE IF "invisible" \notin clients[m].flags \/ IsOper(id)
              THEN {who_line(id, m, Star, {})}
              ELSE {}
    ELSE {}

(***************************************************************************)
(* who_user: the lines of which the client gets one, if there are any.     *)
(* The code shows the first channel that it may show in the order of a     *)
(* HashMap, which is any order.                                            *)
(***************************************************************************)
who_user(id, m, opers_only) ==
    IF (opers_only => IsOper(m)) /\ is_registered(m)
    THEN IF WhoChannels(id, m) # {}
         THEN {who_line(id, m, c, channels[c].members[m]) : c \in WhoChannels(id, m)}
         ELSE IF "invisible" \notin clients[m].flags \/ m = id \/ IsOper(id)
              THEN {who_line(id, m, Star, {})}
              ELSE {}
    ELSE {}

\* WHO <nick>
cmd_who_user(id, n, opers_only) ==
    IF u(n) \in DOMAIN nicks THEN who_user(id, nicks[u(n)], opers_only) ELSE {}

\* WHO, and WHO <mask> on nicknames: server operators may list everyone whose folded
\* nickname is in K.
cmd_who_mask(id, K, opers_only) ==
    IF IsOper(id) THEN {who_user(id, nicks[k], opers_only) : k \in DOMAIN nicks \cap K} ELSE {}

\* WHO <mask> on channels, for server operators; the filter is ignored.
cmd_who_mask_channels(id, C) ==
    IF IsOper(id)
    THEN UNION {{who_line(id, m, c, channels[c].members[m]) : m \in DOMAIN channels[c].members} :
                    c \in DOMAIN channels \cap C}
    ELSE {}

\* Mutant: the members of a channel that is not secret are shown to everyone.
cmd_who_channel_all(id, c, opers_only) ==
    IF c \in DOMAIN channels /\ (IsSecret(c) => IsMember(id, c) \/ IsOper(id))
    THEN {who_line(id, m, c, channels[c].members[m]) :
             m \in {n \in DOMAIN channels[c].members : opers_only => IsOper(n)}}
    ELSE {}

\* WHO <channel>
cmd_who_channel(id, c, opers_only) ==
    IF c \in DOMAIN channels /\ (IsSecret(c) => IsMember(id, c) \/ IsOper(id))
    THEN {who_line(id, m, c, channels[c].members[m]) :
             m \in {n \in DOMAIN channels[c].members :
                       /\ opers_only => IsOper(n)
                       /\ \/ IsOper(id) \/ IsMember(id, c) \/ n = id
                          \/ "invisible" \notin clients[n].flags}}
    ELSE {}

\* WHOIS: what is shown of a client does not depend on who asks.
cmd_whois(n) ==
    IF find_nick(n)
    THEN LET c == clients[nicks[u(n)]] IN {<<c.nick, c.user, c.real, c.away_message>>}
    ELSE {}

-----------------------------------------------------------------------------
(* Properties *)

Viewers == RegisteredIds

\* Handlers written apart agree on who is seen where: WHO <channel> shows a member on a
\* channel exactly when WHO <nick> may show it there, for every issuer and filter, and
\* the WHO <mask> of server operators shows what they get name by name.
WhoAgrees ==
    \A id \in Viewers, f \in BOOLEAN :
        LET found == UNION {cmd_who_user(id, n, f) : n \in Nicks}
        IN  /\ \A c \in Chans : cmd_who_channel(id, c, f) = {l \in found : l.channel = c}
            /\ IsOper(id) => /\ UNION cmd_who_mask(id, NickKeys, f) = found
                             /\ cmd_who_mask_channels(id, Chans) =
                                   UNION {cmd_who_channel(id, c, FALSE) : c \in Chans}

\* WHO <nick> finds a client exactly when it is the issuer or is not invisible, or shares
\* a channel with the issuer, or the issuer is a server operator ("issuer must have a
\* channel in common to see it", "IRCops bypass these restrictions").  WHOIS gives the
\* client it finds the same nickname and the same absence.
WhoFinds ==
    \A id, m \in Viewers :
        LET lines == cmd_who_user(id, clients[m].nick, FALSE)
        IN  /\ lines # {} <=>
                 \/ id = m \/ IsOper(id) \/ "invisible" \notin clients[m].flags
                 \/ \E c \in DOMAIN channels : {id, m} \subseteq DOMAIN channels[c].members
            /\ \A l \in lines : \E w \in cmd_whois(l.nick) :
                 w[1] = l.nick /\ (l.away <=> w[4] # None)

\* LIST, LUSERS, NAMES and TOPIC agree on the channels there are for a client that is not a
\* server operator: as many as LUSERS counts, each with the number of members that NAMES
\* gives and the topic that TOPIC gives, and NAMES names nobody on another channel.
ListAgrees ==
    \A id \in Viewers : ~IsOper(id) =>
        /\ cmd_lusers(id).channels = Cardinality(cmd_list(id, Chans))
        /\ \A l \in cmd_list(id, Chans) :
              l[2] = Cardinality(send_names(id, l[1])) /\ cmd_topic_get(id, l[1]) = {l[3]}
        /\ \A c \in Chans :
              send_names(id, c) # {} => \E l \in cmd_list(id, Chans) : l[1] = c

=============================================================================

--------------------------- MODULE NetworkProofs ---------------------------
(***************************************************************************)
(* Proofs about Network, for every value of its constants.                 *)
(***************************************************************************)
EXTENDS Network, MapTheorems, FiniteSetTheorems

-----------------------------------------------------------------------------
(* The connection state machine *)

\* A request that is not rejected leads to a connection state.
LEMMA ApplyType ==
    ASSUME NEW s \in ConnectionState, NEW r, Apply(s, r) # Rejected
    PROVE  Apply(s, r) \in ConnectionState
BY DEF ConnectionState, Apply, BeforeRegistration, Lookup, AfterNick, AfterUser,
       AfterCapEnd, AfterCap, Rejected, Negotiating

\* Registration is never lost except by QUIT.
LEMMA ApplyRegistered ==
    ASSUME NEW r, r # "Quit", Apply("Registered", r) # Rejected
    PROVE  Apply("Registered", r) = "Registered"
BY DEF Apply, Rejected

\* The requests that some unregistered client may issue.
EarlyRequests ==
    {"Nick", "User", "CapEnd", "CapLs", "CapReq", "Authenticate", "Pass", "Ping", "Quit"}

\* Any other request is issued by registered clients only.
LEMMA ApplyLate ==
    ASSUME NEW s \in ConnectionState, NEW r, r \notin EarlyRequests, Apply(s, r) # Rejected
    PROVE  s = "Registered"
BY DEF Apply, BeforeRegistration, Rejected, EarlyRequests

-----------------------------------------------------------------------------
(* Channels *)

\* A new channel is a channel, and nobody is in it.
LEMMA NewChannelType ==
    ASSUME NEW d \in SUBSET Flags
    PROVE  /\ IsChannel(NewChannel(d))
           /\ DOMAIN NewChannel(d).members = {}
           /\ NewChannel(d).invites = {}
BY EmptyMapIsMap DEF IsChannel, NewChannel

\* add_member adds one member and takes it off the invitations.
LEMMA AddMemberType ==
    ASSUME NEW ch, IsChannel(ch), NEW id \in Ids
    PROVE  /\ IsChannel(add_member(ch, id))
           /\ DOMAIN add_member(ch, id).members = DOMAIN ch.members \cup {id}
           /\ add_member(ch, id).invites = ch.invites \ {id}
<1>1. PICK modes \in SUBSET MemberModes :
         modes = IF DOMAIN ch.members = {} THEN {"operator"} ELSE {}
  BY DEF MemberModes
<1>2. IsMap(ch.members, Ids, SUBSET MemberModes)
  BY DEF IsChannel
<1>3. /\ IsMap(Put(ch.members, id, modes), Ids, SUBSET MemberModes)
      /\ DOMAIN Put(ch.members, id, modes) = DOMAIN ch.members \cup {id}
  BY <1>2, PutIsMap
<1>4. add_member(ch, id) = [ch EXCEPT !.members = Put(ch.members, id, modes),
                                      !.invites = ch.invites \ {id}]
  BY <1>1 DEF add_member, IsChannel
<1> QED
  BY <1>3, <1>4 DEF IsChannel

\* remove_members removes the given members and nothing else.
LEMMA RemoveMembersType ==
    ASSUME NEW ch, IsChannel(ch), NEW ids
    PROVE  /\ IsChannel(remove_members(ch, ids))
           /\ DOMAIN remove_members(ch, ids).members = DOMAIN ch.members \ ids
           /\ remove_members(ch, ids).invites = ch.invites
<1>1. IsMap(ch.members, Ids, SUBSET MemberModes)
  BY DEF IsChannel
<1>2. /\ IsMap(Drop(ch.members, ids), Ids, SUBSET MemberModes)
      /\ DOMAIN Drop(ch.members, ids) = DOMAIN ch.members \ ids
  BY <1>1, DropIsMap
<1>3. remove_members(ch, ids) = [ch EXCEPT !.members = Drop(ch.members, ids)]
  BY DEF remove_members, IsChannel
<1> QED
  BY <1>2, <1>3 DEF IsChannel

\* A MODE change leaves the members and the invitations who they are.
LEMMA ModeChangeType ==
    ASSUME NEW ch, IsChannel(ch), NEW change \in ChannelChange(Nicks), NEW nick_of
    PROVE  LET new == apply_mode_change(ch, change, nick_of)
           IN  /\ IsChannel(new)
               /\ DOMAIN new.members = DOMAIN ch.members
               /\ new.invites = ch.invites
<1> DEFINE new == apply_mode_change(ch, change, nick_of)
<1>1. CASE change \in Flags \X BOOLEAN
  <2>1. new = [ch EXCEPT !.flags = Toggle(ch.flags, change[1], change[2])]
    BY <1>1 DEF apply_mode_change, Flags, Lists, Ranks, IsChannel
  <2> QED
    BY <1>1, <2>1 DEF IsChannel, Toggle
<1>2. CASE change \in Lists \X BOOLEAN \X Masks
  <2>1. change[1] \in Lists /\ change[1] \notin Flags \cup Ranks \cup {"Key", "UserLimit"}
    BY <1>2 DEF Flags, Lists, Ranks
  <2>2. new = [ch EXCEPT !.masks = [ch.masks EXCEPT
                  ![change[1]] = Toggle(ch.masks[change[1]], change[3], change[2])]]
    BY <2>1 DEF apply_mode_change, IsChannel
  <2> QED
    BY <1>2, <2>2 DEF IsChannel, Toggle
<1>3. CASE change = <<"Key", FALSE>>
  <2>1. new = [ch EXCEPT !.key = None]
    BY <1>3 DEF apply_mode_change, Flags, Lists, Ranks, IsChannel
  <2> QED
    BY <2>1 DEF IsChannel
<1>4. CASE change \in {"Key"} \X {TRUE} \X ChanKeys
  <2> DEFINE key == IF ch.key = None THEN Truncate[change[3]] ELSE ch.key
  <2>1. new = [ch EXCEPT !.key = key]
    BY <1>4 DEF apply_mode_change, Flags, Lists, Ranks, IsChannel
  <2>2. key \in ChanKeys \cup {None}
    BY <1>4, KeyAssumption DEF IsChannel
  <2> QED
    BY <2>1, <2>2 DEF IsChannel
<1>5. CASE change \in {"UserLimit"} \X (Nat \cup {None})
  <2>1. new = [ch EXCEPT !.user_limit = change[2]]
    BY <1>5 DEF apply_mode_change, Flags, Lists, Ranks, IsChannel
  <2> QED
    BY <1>5, <2>1 DEF IsChannel
<1>6. CASE change \in Ranks \X BOOLEAN \X Nicks
  <2> DEFINE members == [m \in DOMAIN ch.members |->
                            IF nick_of[m] = change[3]
                            THEN Toggle(ch.members[m], RankMode(change[1]), change[2])
                            ELSE ch.members[m]]
  <2>1. new = [ch EXCEPT !.members = members]
    BY <1>6 DEF apply_mode_change, Flags, Lists, Ranks, IsChannel
  <2>2. RankMode(change[1]) \in MemberModes
    BY <1>6 DEF RankMode, Ranks, MemberModes
  <2>3. IsMap(members, Ids, SUBSET MemberModes)
    BY <2>2 DEF IsMap, Toggle, IsChannel
  <2> QED
    BY <2>1, <2>3 DEF IsChannel
<1>7. CASE change = NoChange
  BY <1>7 DEF apply_mode_change, NoChange, Flags, Lists, Ranks
<1> QED
  BY <1>1, <1>2, <1>3, <1>4, <1>5, <1>6, <1>7 DEF ChannelChange

-----------------------------------------------------------------------------
(* Clients *)

\* A successful request changes the issuer's record only, keeps its type, and never
\* takes its registration back.
LEMMA SucceedType ==
    ASSUME TypeOK, NEW id, NEW r, r # "Quit", CanIssue(id, r),
           NEW c \in ClientType, c.state = clients[id].state, Succeed(id, c, r)
    PROVE  /\ IsMap(clients', Ids, ClientType)
           /\ DOMAIN clients' = DOMAIN clients
           /\ id \in DOMAIN clients
           /\ clients'[id] = [c EXCEPT !.state = Apply(c.state, r)]
           /\ \A x \in DOMAIN clients : x # id => clients'[x] = clients[x]
           /\ is_registered(id) => clients'[id].state = "Registered"
<1> DEFINE new == [c EXCEPT !.state = Apply(c.state, r)]
<1>1. id \in DOMAIN clients /\ Apply(c.state, r) # Rejected
  BY DEF CanIssue
<1>2. c.state \in ConnectionState
  BY DEF ClientType
<1>3. Apply(c.state, r) \in ConnectionState
  BY <1>1, <1>2, ApplyType
<1>4. new \in ClientType /\ new.state = Apply(c.state, r)
  BY <1>3 DEF ClientType
<1>5. clients' = [clients EXCEPT ![id] = new] /\ IsMap(clients, Ids, ClientType)
  BY DEF Succeed, TypeOK
<1>6. is_registered(id) => new.state = "Registered"
  BY <1>1, <1>4, ApplyRegistered DEF is_registered
<1> HIDE DEF new
<1>7. /\ IsMap(clients', Ids, ClientType)
      /\ DOMAIN clients' = DOMAIN clients
      /\ clients'[id] = new
      /\ \A x \in DOMAIN clients : x # id => clients'[x] = clients[x]
  BY <1>1, <1>4, <1>5, ExceptIsMap
<1> QED
  BY <1>1, <1>6, <1>7 DEF new

(***************************************************************************)
(* What a client has given by the time it reaches a connection state: the  *)
(* strengthening that makes RegisteredComplete and PasswordRequired        *)
(* inductive.                                                              *)
(***************************************************************************)
NickStates == {"NickGiven", "CapNickGiven", "CapNegotiation", "Registered"}
UserStates == {"UserGiven", "CapUserGiven", "CapNegotiation", "Registered"}

Secured == \A cfg \in Configs : cfg.password # NoPassword

Sane(c) ==
    /\ c.state \in NickStates => c.nick \in Nicks
    /\ c.state \in UserStates => c.user \in Users
    /\ c.nick \in Nicks \/ c.user \in Users => c.full_name = <<c.nick, c.user>>
    /\ Secured /\ c.user \in Users => "has_given_password" \in c.flags

SaneClients == \A id \in DOMAIN clients : Sane(clients[id])

\* Only NICK and USER bring a client to a state that requires them.
LEMMA SaneApply ==
    ASSUME NEW c \in ClientType, Sane(c), NEW r, r \notin {"Nick", "User", "Quit"},
           Apply(c.state, r) # Rejected
    PROVE  Sane([c EXCEPT !.state = Apply(c.state, r)])
<1>1. c.state \in ConnectionState
  BY DEF ClientType
<1>2. /\ Apply(c.state, r) \in NickStates => c.state \in NickStates
      /\ Apply(c.state, r) \in UserStates => c.state \in UserStates
  BY <1>1 DEF ConnectionState, Apply, BeforeRegistration, Lookup, AfterCapEnd, AfterCap,
              Rejected, Negotiating, NickStates, UserStates
<1> QED
  BY <1>2 DEF Sane, ClientType

\* NICK brings the issuer to a state that requires a nickname only with one.
LEMMA SaneNick ==
    ASSUME NEW c \in ClientType, Sane(c), NEW n \in Nicks, Apply(c.state, "Nick") # Rejected
    PROVE  Sane([set_nick(c, n) EXCEPT !.state = Apply(c.state, "Nick")])
<1>1. c.state \in ConnectionState
  BY DEF ClientType
<1>2. Apply(c.state, "Nick") \in UserStates => c.state \in UserStates
  BY <1>1 DEF ConnectionState, Apply, BeforeRegistration, Lookup, AfterNick, Rejected,
              UserStates
<1> QED
  BY <1>2 DEF Sane, ClientType, set_nick

\* USER, which checks the password, brings the issuer to a state that requires a user name
\* only with one.
LEMMA SaneUser ==
    ASSUME NEW c \in ClientType, Sane(c), NEW usr \in Users, NEW real \in Reals,
           Apply(c.state, "User") # Rejected, Secured => "has_given_password" \in c.flags
    PROVE  Sane([[set_user(c, usr) EXCEPT !.real = real]
                    EXCEPT !.state = Apply(c.state, "User")])
<1>1. c.state \in ConnectionState
  BY DEF ClientType
<1>2. Apply(c.state, "User") \in NickStates => c.state \in NickStates
  BY <1>1 DEF ConnectionState, Apply, BeforeRegistration, Lookup, AfterUser, Rejected,
              NickStates
<1> QED
  BY <1>2 DEF Sane, ClientType, set_user

\* A USER that is stopped after it has set the user name keeps what the states require.
LEMMA SaneUserSet ==
    ASSUME NEW c \in ClientType, Sane(c), NEW usr \in Users,
           Secured => "has_given_password" \in c.flags
    PROVE  Sane(set_user(c, usr))
BY DEF Sane, ClientType, set_user

\* A request of client id that leaves its nickname alone.
Update(id) ==
    /\ id \in DOMAIN clients
    /\ IsMap(clients', Ids, ClientType)
    /\ DOMAIN clients' = DOMAIN clients
    /\ clients'[id].nick = clients[id].nick
    /\ is_registered(id) => clients'[id].state = "Registered"
    /\ \A x \in DOMAIN clients : x # id => clients'[x] = clients[x]
    /\ Sane(clients[id]) => Sane(clients'[id])
    /\ UNCHANGED <<nicks, channels, config>>

\* The requests that store a record c with the issuer's names.
LEMMA UpdateByRequest ==
    ASSUME TypeOK, NEW id, NEW r, r \notin {"Nick", "User", "Quit"}, CanIssue(id, r),
           NEW c \in ClientType, Succeed(id, c, r), UNCHANGED <<nicks, channels, config>>,
           c.state = clients[id].state, c.nick = clients[id].nick, c.user = clients[id].user,
           c.full_name = clients[id].full_name,
           "has_given_password" \in clients[id].flags => "has_given_password" \in c.flags
    PROVE  Update(id)
<1>1. /\ IsMap(clients', Ids, ClientType)
      /\ DOMAIN clients' = DOMAIN clients
      /\ id \in DOMAIN clients
      /\ clients'[id] = [c EXCEPT !.state = Apply(c.state, r)]
      /\ \A x \in DOMAIN clients : x # id => clients'[x] = clients[x]
      /\ is_registered(id) => clients'[id].state = "Registered"
  BY SucceedType
<1>2. Sane(clients[id]) => Sane(c)
  BY DEF Sane
<1>3. Sane(c) => Sane(clients'[id])
  BY <1>1, SaneApply DEF CanIssue
<1>4. clients'[id].nick = clients[id].nick
  BY <1>1 DEF ClientType
<1> QED
  BY <1>1, <1>2, <1>3, <1>4 DEF Update

\* The session commands that neither rename nor remove a client.
Updates(id) ==
    \/ cmd_pass(id) \/ cmd_cap_ls(id) \/ cmd_cap_end(id) \/ cmd_oper(id)
    \/ \E usr \in Users, real \in Reals : cmd_user(id, usr, real)
    \/ \E on \in SUBSET Caps : \E off \in SUBSET (Caps \ on) : cmd_cap_req(id, on, off)
    \/ \E reason \in Reasons \cup {None} : cmd_away(id, reason)
    \/ \E real \in Reals : cmd_setname(id, real)
    \/ \E on \in SUBSET {"invisible"} : \E off \in SUBSET ({"invisible", "operator"} \ on) :
          cmd_mode_user_set(id, on, off)

\* They update the issuer's record.
LEMMA UpdateCases ==
    ASSUME TypeOK, NEW id \in Ids, Updates(id)
    PROVE  Update(id)
<1> DEFINE old == clients[id]
<1>1. id \in DOMAIN clients => old \in ClientType
  BY DEF TypeOK, IsMap
<1>2. CASE cmd_pass(id)
  <2>1. [old EXCEPT !.flags = @ \cup {"has_given_password"}] \in ClientType
    BY <1>1, <1>2 DEF cmd_pass, CanIssue, ClientType, ClientFlags
  <2> QED
    BY <1>1, <1>2, <2>1, UpdateByRequest DEF cmd_pass, CanIssue, ClientType
<1>3. CASE cmd_cap_ls(id)
  BY <1>1, <1>3, UpdateByRequest DEF cmd_cap_ls, CanIssue
<1>4. CASE cmd_cap_end(id)
  BY <1>1, <1>4, UpdateByRequest DEF cmd_cap_end, CanIssue
<1>5. CASE cmd_oper(id)
  <2>1. [old EXCEPT !.flags = @ \cup {"operator"}] \in ClientType
    BY <1>1, <1>5 DEF cmd_oper, CanIssue, ClientType, ClientFlags
  <2> QED
    BY <1>1, <1>5, <2>1, UpdateByRequest DEF cmd_oper, CanIssue, ClientType
<1>6. ASSUME NEW usr \in Users, NEW real \in Reals, cmd_user(id, usr, real)
      PROVE  Update(id)
  <2> DEFINE new == [set_user(old, usr) EXCEPT !.real = real]
  <2>1. id \in DOMAIN clients /\ CanIssue(id, "User") /\ MayUser(id)
    BY <1>6 DEF cmd_user, CanIssue
  <2>2. /\ new \in ClientType
        /\ new.state = old.state
        /\ [new EXCEPT !.state = Apply(new.state, "User")].nick = old.nick
    BY <1>1, <2>1 DEF ClientType, set_user
  <2>3. Succeed(id, new, "User")
    BY <1>6 DEF cmd_user
  <2>4. /\ IsMap(clients', Ids, ClientType)
        /\ DOMAIN clients' = DOMAIN clients
        /\ clients'[id] = [new EXCEPT !.state = Apply(new.state, "User")]
        /\ \A x \in DOMAIN clients : x # id => clients'[x] = clients[x]
        /\ is_registered(id) => clients'[id].state = "Registered"
    <3> HIDE DEF new
    <3> QED
      BY <2>1, <2>2, <2>3, SucceedType
  <2>5. Secured => "has_given_password" \in old.flags
    BY <2>1 DEF Secured, MayUser, TypeOK
  <2>6. Sane(old) => Sane([new EXCEPT !.state = Apply(old.state, "User")])
    BY <1>1, <2>1, <2>5, SaneUser DEF CanIssue
  <2> QED
    BY <1>6, <2>1, <2>2, <2>4, <2>6 DEF Update, cmd_user
<1>7. ASSUME NEW on \in SUBSET Caps, NEW off, cmd_cap_req(id, on, off)
      PROVE  Update(id)
  <2>1. [old EXCEPT !.caps = (@ \cup on) \ off] \in ClientType
    BY <1>1, <1>7 DEF cmd_cap_req, CanIssue, ClientType
  <2> QED
    BY <1>1, <1>7, <2>1, UpdateByRequest DEF cmd_cap_req, CanIssue, ClientType
<1>8. ASSUME NEW reason \in Reasons \cup {None}, cmd_away(id, reason)
       PROVE  Update(id)
  <2>1. [old EXCEPT !.away_message = reason] \in ClientType
    BY <1>1, <1>8 DEF cmd_away, CanIssue, ClientType
  <2> QED
    BY <1>1, <1>8, <2>1, UpdateByRequest DEF cmd_away, CanIssue, ClientType
<1>9. ASSUME NEW real \in Reals, cmd_setname(id, real)
       PROVE  Update(id)
  <2>1. [old EXCEPT !.real = real] \in ClientType
    BY <1>1, <1>9 DEF cmd_setname, CanIssue, ClientType
  <2> QED
    BY <1>1, <1>9, <2>1, UpdateByRequest DEF cmd_setname, CanIssue, ClientType
<1>10. ASSUME NEW on \in SUBSET {"invisible"}, NEW off \in SUBSET {"invisible", "operator"},
              cmd_mode_user_set(id, on, off)
       PROVE  Update(id)
  <2>1. [old EXCEPT !.flags = (@ \cup on) \ off] \in ClientType
    BY <1>1, <1>10 DEF cmd_mode_user_set, CanIssue, ClientType, ClientFlags
  <2> QED
    BY <1>1, <1>10, <2>1, UpdateByRequest DEF cmd_mode_user_set, CanIssue, ClientType
<1> QED
  BY <1>2, <1>3, <1>4, <1>5, <1>6, <1>7, <1>8, <1>9, <1>10 DEF Updates

\* Every session command updates the issuer's record, renames it or removes a client.
LEMMA SessionCases ==
    ASSUME TypeOK, NEW id \in Ids, Session(id)
    PROVE  \/ Update(id)
           \/ \E n \in Nicks : cmd_nick(id, n)
           \/ \E x \in DOMAIN clients : remove_client(x)
<1>1. CASE cmd_user_refused(id) \/ cmd_quit(id)
  BY <1>1 DEF cmd_user_refused, cmd_quit, CanIssue
<1>2. ASSUME NEW n \in Nicks, cmd_nick(id, n) \/ cmd_kill(id, n)
      PROVE  \/ \E m \in Nicks : cmd_nick(id, m)
             \/ \E x \in DOMAIN clients : remove_client(x)
  BY <1>2 DEF cmd_kill, find_nick, is_registered
<1>3. CASE Updates(id)
  BY <1>3, UpdateCases
<1> QED
  BY <1>1, <1>2, <1>3 DEF Session, Updates

-----------------------------------------------------------------------------
(* Channel commands *)

\* What any channel command of client id amounts to: it is registered, nobody else
\* enters a channel, and nobody is both a member and invited.
Disjoint(ch) == ch.invites \cap DOMAIN ch.members = {}

ChannelStep(id) ==
    /\ UNCHANGED <<clients, nicks, config>>
    /\ is_registered(id)
    /\ IsMap(channels', Chans, Range(channels'))
    /\ \A c \in DOMAIN channels' :
          /\ IsChannel(channels'[c])
          /\ DOMAIN channels'[c].members \subseteq Members(c) \cup {id}
          /\ InvitesDisjoint => Disjoint(channels'[c])

\* A request that needs registration is issued by a registered client.
LEMMA LateRequest ==
    ASSUME TypeOK, NEW id, NEW r, r \notin EarlyRequests, CanIssue(id, r)
    PROVE  is_registered(id)
<1>1. id \in DOMAIN clients /\ clients[id].state \in ConnectionState
  BY DEF CanIssue, TypeOK, IsMap, ClientType
<1> QED
  BY <1>1, ApplyLate DEF CanIssue, is_registered

\* Replacing one channel by a channel with no new members is a ChannelStep.
LEMMA OneChannelStep ==
    ASSUME TypeOK, NEW id, is_registered(id), UNCHANGED <<clients, nicks, config>>,
           NEW c \in DOMAIN channels, NEW new, IsChannel(new),
           DOMAIN new.members \subseteq DOMAIN channels[c].members,
           Disjoint(channels[c]) => Disjoint(new),
           channels' = [channels EXCEPT ![c] = new]
    PROVE  ChannelStep(id)
<1>1. IsMap(channels', Chans, Range(channels')) /\ DOMAIN channels' = DOMAIN channels
  BY DEF TypeOK, IsMap, Range
<1>2. channels'[c] = new /\ \A d \in DOMAIN channels : d # c => channels'[d] = channels[d]
  BY DEF TypeOK, IsMap
<1>3. ASSUME NEW d \in DOMAIN channels'
      PROVE  /\ IsChannel(channels'[d])
             /\ DOMAIN channels'[d].members \subseteq Members(d) \cup {id}
             /\ InvitesDisjoint => Disjoint(channels'[d])
  <2>1. CASE d = c
    BY <1>1, <1>2, <2>1 DEF Members, InvitesDisjoint, Disjoint
  <2>2. CASE d # c
    BY <1>1, <1>2, <1>3, <2>2 DEF Members, InvitesDisjoint, Disjoint, TypeOK
  <2> QED
    BY <2>1, <2>2
<1> QED
  BY <1>1, <1>3 DEF ChannelStep

\* JOIN lets in its issuer only, and uses its invitations up (add_member).
LEMMA JoinStep ==
    ASSUME TypeOK, NEW id \in Ids, NEW list, cmd_join(id, list)
    PROVE  ChannelStep(id)
<1> DEFINE joined == Joinable(id, list)
<1>1. is_registered(id) /\ UNCHANGED <<clients, nicks, config>>
  BY LateRequest DEF cmd_join, EarlyRequests
<1>2. channels' = [c \in DOMAIN channels \cup joined |->
                      IF c \in joined THEN add_member(entry(c), id) ELSE channels[c]]
  BY DEF cmd_join
<1>3. joined \subseteq Chans
  BY DEF Joinable
<1>4. ASSUME NEW c
      PROVE  /\ IsChannel(entry(c))
             /\ DOMAIN entry(c).members = Members(c)
             /\ InvitesDisjoint => Disjoint(entry(c))
  <2>1. CASE c \in DOMAIN channels
    BY <2>1 DEF entry, Members, InvitesDisjoint, Disjoint, TypeOK
  <2>2. CASE c \notin DOMAIN channels
    <3>1. config.default_chan_mode \in SUBSET Flags
      BY ConfigsAssumption DEF TypeOK
    <3> QED
      BY <2>2, <3>1, NewChannelType DEF entry, Members, Disjoint
  <2> QED
    BY <2>1, <2>2
<1> HIDE DEF joined
<1>5. IsMap(channels', Chans, Range(channels')) /\ DOMAIN channels' = DOMAIN channels \cup joined
  BY <1>2, <1>3 DEF TypeOK, IsMap, Range
<1>6. ASSUME NEW c \in DOMAIN channels'
      PROVE  /\ IsChannel(channels'[c])
             /\ DOMAIN channels'[c].members \subseteq Members(c) \cup {id}
             /\ InvitesDisjoint => Disjoint(channels'[c])
  <2>1. CASE c \in joined
    <3>1. channels'[c] = add_member(entry(c), id)
      BY <1>2, <2>1
    <3>2. /\ IsChannel(add_member(entry(c), id))
          /\ DOMAIN add_member(entry(c), id).members = Members(c) \cup {id}
          /\ add_member(entry(c), id).invites = entry(c).invites \ {id}
      BY <1>4, AddMemberType
    <3> QED
      BY <1>4, <3>1, <3>2 DEF Disjoint
  <2>2. CASE c \notin joined
    <3>1. c \in DOMAIN channels /\ channels'[c] = channels[c]
      BY <1>2, <1>5, <1>6, <2>2
    <3> QED
      BY <3>1 DEF Members, InvitesDisjoint, Disjoint, TypeOK
  <2> QED
    BY <2>1, <2>2
<1> QED
  BY <1>1, <1>5, <1>6 DEF ChannelStep

\* PART and JOIN 0 take their issuer out and remove the channels they empty.
LEMMA LeaveStep ==
    ASSUME TypeOK, NEW id, is_registered(id), NEW C, channels' = Leave(id, C),
           UNCHANGED <<clients, nicks, config>>
    PROVE  ChannelStep(id)
<1>1. /\ DOMAIN channels' \subseteq DOMAIN channels
      /\ IsMap(channels', Chans, Range(channels'))
      /\ \A c \in DOMAIN channels' :
            channels'[c] \in {remove_members(channels[c], {id}), channels[c]}
  BY DEF Leave, TypeOK, IsMap, Range
<1>2. ASSUME NEW c \in DOMAIN channels'
      PROVE  /\ IsChannel(channels'[c])
             /\ DOMAIN channels'[c].members \subseteq Members(c) \cup {id}
             /\ InvitesDisjoint => Disjoint(channels'[c])
  <2>1. c \in DOMAIN channels /\ IsChannel(channels[c])
    BY <1>1, <1>2 DEF TypeOK
  <2>2. /\ IsChannel(remove_members(channels[c], {id}))
        /\ DOMAIN remove_members(channels[c], {id}).members = DOMAIN channels[c].members \ {id}
        /\ remove_members(channels[c], {id}).invites = channels[c].invites
    BY <2>1, RemoveMembersType
  <2> QED
    BY <1>1, <2>1, <2>2 DEF Members, InvitesDisjoint, Disjoint
<1> QED
  BY <1>1, <1>2 DEF ChannelStep

\* KICK takes members out of one channel.
LEMMA KickStep ==
    ASSUME TypeOK, NEW id, NEW c, NEW who, cmd_kick(id, c, who)
    PROVE  ChannelStep(id)
<1> DEFINE ids == {nicks[u(n)] : n \in {m \in who : find_nick(m)}}
<1>1. is_registered(id) /\ UNCHANGED <<clients, nicks, config>> /\ c \in DOMAIN channels
  BY LateRequest DEF cmd_kick, EarlyRequests, find_member
<1>2. channels' = [channels EXCEPT ![c] = remove_members(channels[c], ids)]
  BY DEF cmd_kick
<1> HIDE DEF ids
<1>3. IsChannel(channels[c])
  BY <1>1 DEF TypeOK
<1>4. /\ IsChannel(remove_members(channels[c], ids))
      /\ DOMAIN remove_members(channels[c], ids).members = DOMAIN channels[c].members \ ids
      /\ remove_members(channels[c], ids).invites = channels[c].invites
  BY <1>3, RemoveMembersType
<1> QED
  BY <1>1, <1>2, <1>4, OneChannelStep DEF Disjoint

\* INVITE puts a client that is no member on the list of one channel.
LEMMA InviteStep ==
    ASSUME TypeOK, NEW id, NEW n, NEW c, cmd_invite(id, n, c)
    PROVE  ChannelStep(id)
<1> DEFINE guest == nicks[u(n)]
           new   == [channels[c] EXCEPT !.invites = @ \cup {guest}]
<1>1. is_registered(id) /\ UNCHANGED <<clients, nicks, config>> /\ c \in DOMAIN channels
  BY LateRequest DEF cmd_invite, EarlyRequests
<1>2. guest \in Ids /\ guest \notin DOMAIN channels[c].members
  BY DEF cmd_invite, find_nick, TypeOK, IsMap
<1>3. channels' = [channels EXCEPT ![c] = new]
  BY DEF cmd_invite
<1>4. IsChannel(channels[c])
  BY <1>1 DEF TypeOK
<1>5. /\ IsChannel(new)
      /\ new.members = channels[c].members
      /\ new.invites = channels[c].invites \cup {guest}
  BY <1>2, <1>4 DEF IsChannel
<1> HIDE DEF guest, new
<1> QED
  BY <1>1, <1>2, <1>3, <1>5, OneChannelStep DEF Disjoint

\* MODE alters one channel, and neither its members nor its invitations.
LEMMA ModeStep ==
    ASSUME TypeOK, NEW id, NEW c, NEW first \in Changes, NEW second \in Changes,
           cmd_mode_channel_set(id, c, first, second)
    PROVE  ChannelStep(id)
<1> DEFINE nick_of == [m \in DOMAIN channels[c].members |-> clients[m].nick]
           mid     == apply_mode_change(channels[c], first, nick_of)
           new     == apply_mode_change(mid, second, nick_of)
<1>1. is_registered(id) /\ UNCHANGED <<clients, nicks, config>> /\ c \in DOMAIN channels
  BY LateRequest DEF cmd_mode_channel_set, EarlyRequests, find_member
<1>2. channels' = [channels EXCEPT ![c] = new]
  BY DEF cmd_mode_channel_set
<1>3. IsChannel(channels[c])
  BY <1>1 DEF TypeOK
<1>4. first \in ChannelChange(Nicks) /\ second \in ChannelChange(Nicks)
  BY ChangesAssumption
<1> HIDE DEF nick_of
<1>5. /\ IsChannel(mid)
      /\ DOMAIN mid.members = DOMAIN channels[c].members
      /\ mid.invites = channels[c].invites
  BY <1>3, <1>4, ModeChangeType
<1> HIDE DEF mid
<1>6. /\ IsChannel(new)
      /\ DOMAIN new.members = DOMAIN mid.members
      /\ new.invites = mid.invites
  BY <1>4, <1>5, ModeChangeType
<1> HIDE DEF new
<1> QED
  BY <1>1, <1>2, <1>5, <1>6, OneChannelStep DEF Disjoint

\* TOPIC alters the topic of one channel.
LEMMA TopicStep ==
    ASSUME TypeOK, NEW id, NEW c, NEW topic \in Topics \cup {None}, cmd_topic_set(id, c, topic)
    PROVE  ChannelStep(id)
<1> DEFINE new == [channels[c] EXCEPT !.topic = topic]
<1>1. is_registered(id) /\ UNCHANGED <<clients, nicks, config>> /\ c \in DOMAIN channels
  BY LateRequest DEF cmd_topic_set, EarlyRequests, find_member
<1>2. channels' = [channels EXCEPT ![c] = new]
  BY DEF cmd_topic_set
<1>3. IsChannel(channels[c])
  BY <1>1 DEF TypeOK
<1>4. IsChannel(new) /\ new.members = channels[c].members /\ new.invites = channels[c].invites
  BY <1>3 DEF IsChannel
<1> HIDE DEF new
<1> QED
  BY <1>1, <1>2, <1>4, OneChannelStep DEF Disjoint

\* Every channel command is a ChannelStep of its issuer.
LEMMA ChannelsCases ==
    ASSUME TypeOK, NEW id \in Ids, Channels(id)
    PROVE  ChannelStep(id)
<1>1. ASSUME NEW list, cmd_join(id, list) PROVE ChannelStep(id)
  BY <1>1, JoinStep
<1>2. ASSUME NEW C, cmd_part(id, C) PROVE ChannelStep(id)
  BY <1>2, LeaveStep, LateRequest DEF cmd_part, EarlyRequests
<1>3. CASE cmd_part_all(id)
  BY <1>3, LeaveStep, LateRequest DEF cmd_part_all, EarlyRequests
<1>4. ASSUME NEW c, NEW who, cmd_kick(id, c, who) PROVE ChannelStep(id)
  BY <1>4, KickStep
<1>5. ASSUME NEW c, NEW n, cmd_invite(id, n, c) PROVE ChannelStep(id)
  BY <1>5, InviteStep
<1>6. ASSUME NEW c, NEW first \in Changes, NEW second \in Changes,
             cmd_mode_channel_set(id, c, first, second)
      PROVE  ChannelStep(id)
  BY <1>6, ModeStep
<1>7. ASSUME NEW c, NEW topic \in Topics \cup {None}, cmd_topic_set(id, c, topic)
      PROVE  ChannelStep(id)
  BY <1>7, TopicStep
<1> QED
  BY <1>1, <1>2, <1>3, <1>4, <1>5, <1>6, <1>7 DEF Channels

-----------------------------------------------------------------------------
(* Handlers that panic *)

\* A USER that panics at the real name updates the issuer's record.
LEMMA UserPanicUpdates ==
    ASSUME TypeOK, NEW id, NEW usr \in Users, cmd_user_panics(id, usr)
    PROVE  Update(id)
<1> DEFINE old == clients[id]
           new == set_user(old, usr)
<1>1. /\ id \in DOMAIN clients
      /\ clients' = [clients EXCEPT ![id] = new]
      /\ UNCHANGED <<nicks, channels, config>>
  BY DEF cmd_user_panics, MayPanic, CanIssue
<1>2. IsMap(clients, Ids, ClientType) /\ old \in ClientType
  BY <1>1 DEF TypeOK, IsMap
<1>3. new \in ClientType /\ new.state = old.state /\ new.nick = old.nick
  BY <1>2 DEF ClientType, set_user
<1>4. Secured => "has_given_password" \in old.flags
  BY DEF cmd_user_panics, Secured, MayUser, TypeOK
<1>5. Sane(old) => Sane(new)
  BY <1>2, <1>4, SaneUserSet
<1> HIDE DEF new
<1>6. /\ IsMap(clients', Ids, ClientType)
      /\ DOMAIN clients' = DOMAIN clients
      /\ clients'[id] = new
      /\ \A x \in DOMAIN clients : x # id => clients'[x] = clients[x]
  BY <1>1, <1>2, <1>3, ExceptIsMap
<1> QED
  BY <1>1, <1>3, <1>5, <1>6 DEF Update, is_registered

\* What a handler leaves that panics is nothing, an update of the issuer's record, or what a
\* shorter command about channels would have left.
LEMMA PanicCases ==
    ASSUME TypeOK, NEW id \in Ids, panic(id)
    PROVE  UNCHANGED vars \/ Update(id) \/ Channels(id)
<1>1. CASE panics_before(id)
  BY <1>1 DEF panics_before
<1>2. ASSUME NEW usr \in Users, cmd_user_panics(id, usr) PROVE Update(id)
  BY <1>2, UserPanicUpdates
<1>3. ASSUME NEW done \in SUBSET (Chans \X (ChanKeys \cup {None})), NEW p,
             cmd_join_panics(id, done, p)
      PROVE  Channels(id)
  BY <1>3 DEF cmd_join_panics, Channels
<1>4. ASSUME NEW c \in Chans, NEW done \in Changes, NEW change,
             cmd_mode_channel_set_panics(id, c, done, change)
      PROVE  Channels(id)
  <2>1. cmd_mode_channel_set(id, c, done, NoChange) /\ NoChange \in Changes
    BY <1>4, ChangesAssumption DEF cmd_mode_channel_set_panics
  <2> QED
    BY <2>1 DEF Channels
<1> QED
  BY <1>1, <1>2, <1>3, <1>4 DEF panic

-----------------------------------------------------------------------------
(* The steps of the network, by what they do to the state *)

\* Every step is a reload, a new connection, an update of a record, a NICK, a change of
\* channels or the removal of a client.
LEMMA NextCases ==
    ASSUME TypeOK, [Next]_vars
    PROVE  \/ UNCHANGED vars
           \/ rehash
           \/ \E id \in Ids : peer_joined(id)
           \/ \E id \in Ids : Update(id)
           \/ \E id \in Ids, n \in Nicks : cmd_nick(id, n)
           \/ \E id \in Ids : ChannelStep(id)
           \/ \E id \in DOMAIN clients : remove_client(id)
<1>1. ASSUME NEW id \in Ids, peer_quit(id) \/ remove_if_unregistered(id)
      PROVE  \E x \in DOMAIN clients : remove_client(x)
  BY <1>1 DEF peer_quit, remove_if_unregistered
<1>2. ASSUME NEW id \in Ids, handle_message(id)
      PROVE  \/ Update(id)
             \/ \E n \in Nicks : cmd_nick(id, n)
             \/ ChannelStep(id)
             \/ \E x \in DOMAIN clients : remove_client(x)
  BY <1>2, SessionCases, ChannelsCases DEF handle_message
<1>3. ASSUME NEW id \in Ids, panic(id)
      PROVE  UNCHANGED vars \/ Update(id) \/ ChannelStep(id)
  BY <1>3, PanicCases, ChannelsCases
<1> QED
  BY <1>1, <1>2, <1>3 DEF Next

\* A new client gets a vacant id and starts with a clean record.
LEMMA JoinedFacts ==
    ASSUME TypeOK, NEW id \in Ids, peer_joined(id)
    PROVE  /\ id \notin DOMAIN clients
           /\ IsMap(clients', Ids, ClientType)
           /\ DOMAIN clients' = DOMAIN clients \cup {id}
           /\ clients'[id] = NewClient
           /\ \A x \in DOMAIN clients : clients'[x] = clients[x]
           /\ UNCHANGED <<nicks, channels, config>>
<1>1. NewClient \in ClientType
  BY DEF NewClient, ClientType, ConnectionState, AllNicks
<1>2. IsMap(clients, Ids, ClientType) /\ clients' = Put(clients, id, NewClient)
      /\ id \notin DOMAIN clients
  BY DEF TypeOK, peer_joined
<1> HIDE DEF NewClient
<1>3. /\ IsMap(clients', Ids, ClientType)
      /\ DOMAIN clients' = DOMAIN clients \cup {id}
      /\ clients'[id] = NewClient
      /\ \A x \in DOMAIN clients : x # id => clients'[x] = clients[x]
  BY <1>1, <1>2, PutIsMap
<1> QED
  BY <1>2, <1>3 DEF peer_joined

\* NICK moves the issuer's entry in `nicks` and changes its names.
LEMMA NickFacts ==
    ASSUME TypeOK, NEW id \in Ids, NEW n \in Nicks, cmd_nick(id, n)
    PROVE  /\ id \in DOMAIN clients
           /\ IsMap(clients', Ids, ClientType)
           /\ DOMAIN clients' = DOMAIN clients
           /\ clients'[id].nick = n
           /\ is_registered(id) => clients'[id].state = "Registered"
           /\ Sane(clients[id]) => Sane(clients'[id])
           /\ \A x \in DOMAIN clients : x # id => clients'[x] = clients[x]
           /\ IsMap(nicks', NickKeys, Ids)
           /\ DOMAIN nicks' = (DOMAIN nicks \ {u(clients[id].nick)}) \cup {u(n)}
           /\ nicks'[u(n)] = id
           /\ \A k \in DOMAIN nicks \ {u(clients[id].nick)} : k # u(n) => nicks'[k] = nicks[k]
           /\ UNCHANGED <<channels, config>>
<1> DEFINE old == clients[id]
           new == set_nick(old, n)
           rest == Drop(nicks, {u(old.nick)})
<1>1. id \in DOMAIN clients /\ CanIssue(id, "Nick") /\ Succeed(id, new, "Nick")
  BY DEF cmd_nick, CanIssue
<1>2. old \in ClientType
  BY <1>1 DEF TypeOK, IsMap
<1>3. new \in ClientType /\ new.state = old.state /\ new.nick = n
  BY <1>2 DEF ClientType, set_nick, AllNicks
<1>4. /\ IsMap(clients', Ids, ClientType)
      /\ DOMAIN clients' = DOMAIN clients
      /\ clients'[id] = [new EXCEPT !.state = Apply(new.state, "Nick")]
      /\ \A x \in DOMAIN clients : x # id => clients'[x] = clients[x]
      /\ is_registered(id) => clients'[id].state = "Registered"
  <2> HIDE DEF new
  <2> QED
    BY <1>1, <1>3, SucceedType
<1>5. Sane(old) => Sane([new EXCEPT !.state = Apply(old.state, "Nick")])
  BY <1>1, <1>2, SaneNick DEF CanIssue
<1>6. clients'[id].nick = n
  BY <1>3, <1>4 DEF ClientType
<1>7. u(n) \in NickKeys /\ nicks' = Put(rest, u(n), id) /\ IsMap(nicks, NickKeys, Ids)
  BY DEF cmd_nick, NickKeys, TypeOK
<1>8. /\ IsMap(rest, NickKeys, Ids)
      /\ DOMAIN rest = DOMAIN nicks \ {u(old.nick)}
      /\ \A k \in DOMAIN nicks \ {u(old.nick)} : rest[k] = nicks[k]
  BY <1>7, DropIsMap
<1> HIDE DEF rest
<1>9. /\ IsMap(nicks', NickKeys, Ids)
      /\ DOMAIN nicks' = DOMAIN rest \cup {u(n)}
      /\ nicks'[u(n)] = id
      /\ \A k \in DOMAIN rest : k # u(n) => nicks'[k] = rest[k]
  BY <1>7, <1>8, PutIsMap
<1> QED
  BY <1>1, <1>3, <1>4, <1>5, <1>6, <1>8, <1>9 DEF cmd_nick

\* Removing a client removes its record and its nickname, and takes it out of channels.
LEMMA RemoveFacts ==
    ASSUME TypeOK, NEW id \in DOMAIN clients, remove_client(id)
    PROVE  /\ IsMap(clients', Ids, ClientType)
           /\ DOMAIN clients' = DOMAIN clients \ {id}
           /\ \A x \in DOMAIN clients' : clients'[x] = clients[x]
           /\ IsMap(nicks', NickKeys, Ids)
           /\ DOMAIN nicks' = DOMAIN nicks \ {u(clients[id].nick)}
           /\ \A k \in DOMAIN nicks' : nicks'[k] = nicks[k]
           /\ IsMap(channels', Chans, Range(channels'))
           /\ DOMAIN channels' \subseteq DOMAIN channels
           /\ \A c \in DOMAIN channels' :
                 /\ IsChannel(channels'[c])
                 /\ DOMAIN channels'[c].members \subseteq DOMAIN channels[c].members
                 /\ is_registered(id) => id \notin DOMAIN channels'[c].members
                 /\ is_registered(id) => DOMAIN channels'[c].members # {}
                 /\ channels'[c].invites = channels[c].invites
           /\ UNCHANGED config
<1>1. /\ IsMap(clients', Ids, ClientType)
      /\ DOMAIN clients' = DOMAIN clients \ {id}
      /\ \A x \in DOMAIN clients' : clients'[x] = clients[x]
  BY DropIsMap, SMTT(20) DEF remove_client, TypeOK
<1>2. /\ IsMap(nicks', NickKeys, Ids)
      /\ DOMAIN nicks' = DOMAIN nicks \ {u(clients[id].nick)}
      /\ \A k \in DOMAIN nicks' : nicks'[k] = nicks[k]
  <2> DEFINE gone == {u(clients[id].nick)}
  <2>1. IsMap(nicks, NickKeys, Ids) /\ nicks' = Drop(nicks, gone)
    BY DEF remove_client, TypeOK
  <2> HIDE DEF gone
  <2>2. /\ IsMap(nicks', NickKeys, Ids)
        /\ DOMAIN nicks' = DOMAIN nicks \ gone
        /\ \A k \in DOMAIN nicks' : nicks'[k] = nicks[k]
    BY <2>1, DropIsMap
  <2> QED
    BY <2>2 DEF gone
<1>3. CASE ~is_registered(id)
  <2>1. channels' = channels /\ UNCHANGED config
    BY <1>3 DEF remove_client
  <2> QED
    BY <1>1, <1>2, <1>3, <2>1 DEF TypeOK
<1>4. CASE is_registered(id)
  <2>1. channels' = Sweep(id) /\ UNCHANGED config
    BY <1>4 DEF remove_client
  <2>2. /\ IsMap(channels', Chans, Range(channels'))
        /\ DOMAIN channels' \subseteq DOMAIN channels
        /\ \A c \in DOMAIN channels' : /\ channels'[c] = remove_members(channels[c], {id})
                                       /\ DOMAIN channels[c].members \ {id} # {}
    BY <2>1 DEF Sweep, TypeOK, IsMap, Range
  <2>3. ASSUME NEW c \in DOMAIN channels'
        PROVE  /\ IsChannel(channels'[c])
               /\ DOMAIN channels'[c].members = DOMAIN channels[c].members \ {id}
               /\ channels'[c].invites = channels[c].invites
    <3>1. IsChannel(channels[c])
      BY <2>2, <2>3 DEF TypeOK
    <3> QED
      BY <2>2, <2>3, <3>1, RemoveMembersType
  <2> QED
    BY <1>1, <1>2, <2>1, <2>2, <2>3
<1> QED
  BY <1>3, <1>4

-----------------------------------------------------------------------------
(***************************************************************************)
(* The inductive invariant.  Its parts need each other: channels are swept *)
(* of a client only if it was registered, so MembersRegistered needs that  *)
(* registration is never lost; NicksConsistent needs that a client without *)
(* a nickname gives none back.                                             *)
(***************************************************************************)
IInv == TypeOK /\ NicksConsistent /\ MembersRegistered /\ InvitesDisjoint /\ SaneClients

\* The initial state satisfies the invariant: nobody is there.
LEMMA InitIInv == Init => IInv
<1> SUFFICES ASSUME Init PROVE IInv
  OBVIOUS
<1>1. /\ clients = EmptyMap /\ nicks = EmptyMap /\ channels = EmptyMap
      /\ config \in Configs
  BY DEF Init
<1>2. /\ IsMap(clients, Ids, ClientType) /\ DOMAIN clients = {}
      /\ IsMap(nicks, NickKeys, Ids) /\ DOMAIN nicks = {}
      /\ IsMap(channels, Chans, Range(channels)) /\ DOMAIN channels = {}
  BY <1>1, EmptyMapIsMap
<1> QED
  BY <1>1, <1>2 DEF IInv, TypeOK, NicksConsistent, MembersRegistered, InvitesDisjoint, SaneClients

\* Every nickname but "*" folds to a key that `nicks` may have.
LEMMA FoldFacts ==
    ASSUME NEW n \in AllNicks
    PROVE  u(n) \in NickKeys <=> n # Star
BY FoldAssumption DEF AllNicks, NickKeys

\* Every step keeps the types.
LEMMA TypeStep ==
    ASSUME IInv, [Next]_vars
    PROVE  TypeOK'
<1> USE DEF IInv
<1>1. CASE UNCHANGED vars \/ rehash
  BY <1>1 DEF vars, rehash, TypeOK
<1>2. ASSUME NEW id \in Ids, peer_joined(id) PROVE TypeOK'
  BY <1>2, JoinedFacts DEF TypeOK
<1>3. ASSUME NEW id \in Ids, Update(id) PROVE TypeOK'
  BY <1>3 DEF Update, TypeOK
<1>4. ASSUME NEW id \in Ids, NEW n \in Nicks, cmd_nick(id, n) PROVE TypeOK'
  BY <1>4, NickFacts DEF TypeOK
<1>5. ASSUME NEW id \in Ids, ChannelStep(id) PROVE TypeOK'
  BY <1>5 DEF ChannelStep, TypeOK
<1>6. ASSUME NEW id \in DOMAIN clients, remove_client(id) PROVE TypeOK'
  BY <1>6, RemoveFacts DEF TypeOK
<1> QED
  BY <1>1, <1>2, <1>3, <1>4, <1>5, <1>6, NextCases

\* Every step keeps `nicks` and the nicknames inverse to each other.
LEMMA NicksStep ==
    ASSUME IInv, [Next]_vars
    PROVE  NicksConsistent'
<1> USE DEF IInv
<1>0. \A id \in DOMAIN clients : clients[id].nick \in AllNicks
  BY DEF TypeOK, IsMap, ClientType
<1>1. CASE UNCHANGED vars \/ rehash
  BY <1>1 DEF vars, rehash, NicksConsistent
<1>2. ASSUME NEW id \in Ids, peer_joined(id) PROVE NicksConsistent'
  <2>1. /\ DOMAIN clients' = DOMAIN clients \cup {id}
        /\ clients'[id] = NewClient
        /\ id \notin DOMAIN clients
        /\ \A x \in DOMAIN clients : clients'[x] = clients[x]
        /\ nicks' = nicks
    BY <1>2, JoinedFacts
  <2>2. NewClient.nick = Star
    BY DEF NewClient
  <2> QED
    BY <2>1, <2>2 DEF NicksConsistent
<1>3. ASSUME NEW id \in Ids, Update(id) PROVE NicksConsistent'
  <2>1. /\ DOMAIN clients' = DOMAIN clients
        /\ \A x \in DOMAIN clients : clients'[x].nick = clients[x].nick
        /\ nicks' = nicks
    BY <1>3 DEF Update
  <2> QED
    BY <2>1 DEF NicksConsistent, TypeOK, IsMap
<1>4. ASSUME NEW id \in Ids, NEW n \in Nicks, cmd_nick(id, n) PROVE NicksConsistent'
  <2>1. u(n) \in DOMAIN nicks => nicks[u(n)] = id
    BY <1>4 DEF cmd_nick
  <2>2. /\ id \in DOMAIN clients /\ DOMAIN clients' = DOMAIN clients
        /\ clients'[id].nick = n
        /\ \A x \in DOMAIN clients : x # id => clients'[x] = clients[x]
        /\ DOMAIN nicks' = (DOMAIN nicks \ {u(clients[id].nick)}) \cup {u(n)}
        /\ nicks'[u(n)] = id
        /\ \A k \in DOMAIN nicks \ {u(clients[id].nick)} : k # u(n) => nicks'[k] = nicks[k]
    BY <1>4, NickFacts
  <2>3. ASSUME NEW k \in DOMAIN nicks'
        PROVE  nicks'[k] \in DOMAIN clients' /\ u(clients'[nicks'[k]].nick) = k
    BY <2>2, <2>3 DEF NicksConsistent
  <2>4. ASSUME NEW x \in DOMAIN clients', clients'[x].nick # Star
        PROVE  u(clients'[x].nick) \in DOMAIN nicks' /\ nicks'[u(clients'[x].nick)] = x
    <3>1. CASE x = id
      BY <2>2, <3>1
    <3>2. CASE x # id
      <4>1. /\ clients'[x] = clients[x]
            /\ u(clients[x].nick) \in DOMAIN nicks /\ nicks[u(clients[x].nick)] = x
        BY <2>2, <2>4, <3>2 DEF NicksConsistent
      <4>2. u(clients[x].nick) # u(n)
        BY <2>1, <3>2, <4>1
      <4>3. u(clients[x].nick) # u(clients[id].nick)
        BY <1>0, <2>2, <2>4, <3>2, <4>1, FoldFacts DEF NicksConsistent
      <4> QED
        BY <2>2, <4>1, <4>2, <4>3
    <3> QED
      BY <3>1, <3>2
  <2> QED
    BY <2>3, <2>4 DEF NicksConsistent
<1>5. ASSUME NEW id \in Ids, ChannelStep(id) PROVE NicksConsistent'
  BY <1>5 DEF ChannelStep, NicksConsistent
<1>6. ASSUME NEW id \in DOMAIN clients, remove_client(id) PROVE NicksConsistent'
  <2>1. /\ DOMAIN clients' = DOMAIN clients \ {id}
        /\ \A x \in DOMAIN clients' : clients'[x] = clients[x]
        /\ DOMAIN nicks' = DOMAIN nicks \ {u(clients[id].nick)}
        /\ \A k \in DOMAIN nicks' : nicks'[k] = nicks[k]
    BY <1>6, RemoveFacts
  <2>2. ASSUME NEW k \in DOMAIN nicks'
        PROVE  nicks'[k] \in DOMAIN clients' /\ u(clients'[nicks'[k]].nick) = k
    BY <2>1, <2>2 DEF NicksConsistent
  <2>3. ASSUME NEW x \in DOMAIN clients', clients'[x].nick # Star
        PROVE  u(clients'[x].nick) \in DOMAIN nicks' /\ nicks'[u(clients'[x].nick)] = x
    <3>1. /\ x \in DOMAIN clients /\ x # id /\ clients'[x] = clients[x]
          /\ u(clients[x].nick) \in DOMAIN nicks /\ nicks[u(clients[x].nick)] = x
      BY <2>1, <2>3 DEF NicksConsistent
    <3>2. u(clients[x].nick) # u(clients[id].nick)
      BY <1>0, <2>3, <3>1, FoldFacts DEF NicksConsistent
    <3> QED
      BY <2>1, <3>1, <3>2
  <2> QED
    BY <2>2, <2>3 DEF NicksConsistent
<1> QED
  BY <1>1, <1>2, <1>3, <1>4, <1>5, <1>6, NextCases

\* Every step keeps the members registered: registration is lost only by removal, and the
\* removal of a registered client sweeps the channels.
LEMMA MembersStep ==
    ASSUME IInv, [Next]_vars
    PROVE  MembersRegistered'
<1> USE DEF IInv
<1>1. CASE UNCHANGED vars \/ rehash
  BY <1>1 DEF vars, rehash, MembersRegistered, is_registered
<1>2. ASSUME UNCHANGED channels,
             \A x \in DOMAIN clients : is_registered(x) =>
                 x \in DOMAIN clients' /\ clients'[x].state = "Registered"
      PROVE  MembersRegistered'
  BY <1>2 DEF MembersRegistered, is_registered
<1>3. ASSUME NEW id \in Ids, peer_joined(id) PROVE MembersRegistered'
  BY <1>2, <1>3, JoinedFacts DEF is_registered
<1>4. ASSUME NEW id \in Ids, Update(id) PROVE MembersRegistered'
  BY <1>2, <1>4 DEF Update, is_registered
<1>5. ASSUME NEW id \in Ids, NEW n \in Nicks, cmd_nick(id, n) PROVE MembersRegistered'
  BY <1>2, <1>5, NickFacts DEF is_registered
<1>6. ASSUME NEW id \in Ids, ChannelStep(id) PROVE MembersRegistered'
  BY <1>6 DEF ChannelStep, MembersRegistered, is_registered, Members
<1>7. ASSUME NEW id \in DOMAIN clients, remove_client(id) PROVE MembersRegistered'
  <2>1. /\ DOMAIN clients' = DOMAIN clients \ {id}
        /\ \A x \in DOMAIN clients' : clients'[x] = clients[x]
        /\ DOMAIN channels' \subseteq DOMAIN channels
        /\ \A c \in DOMAIN channels' :
              /\ DOMAIN channels'[c].members \subseteq DOMAIN channels[c].members
              /\ is_registered(id) => id \notin DOMAIN channels'[c].members
    BY <1>7, RemoveFacts
  <2> QED
    BY <2>1 DEF MembersRegistered, is_registered
<1> QED
  BY <1>1, <1>3, <1>4, <1>5, <1>6, <1>7, NextCases

\* Every step keeps members off the invitations.
LEMMA InvitesStep ==
    ASSUME IInv, [Next]_vars
    PROVE  InvitesDisjoint'
<1> USE DEF IInv
<1>1. CASE UNCHANGED channels
  BY <1>1 DEF InvitesDisjoint
<1>2. ASSUME NEW id \in Ids, ChannelStep(id) PROVE InvitesDisjoint'
  BY <1>2 DEF ChannelStep, InvitesDisjoint, Disjoint
<1>3. ASSUME NEW id \in DOMAIN clients, remove_client(id) PROVE InvitesDisjoint'
  <2>1. /\ DOMAIN channels' \subseteq DOMAIN channels
        /\ \A c \in DOMAIN channels' :
              /\ DOMAIN channels'[c].members \subseteq DOMAIN channels[c].members
              /\ channels'[c].invites = channels[c].invites
    BY <1>3, RemoveFacts
  <2> QED
    BY <2>1 DEF InvitesDisjoint
<1> QED
  BY <1>1, <1>2, <1>3, NextCases DEF vars, rehash, peer_joined, Update, cmd_nick

\* Every step keeps what the connection states require.
LEMMA SaneStep ==
    ASSUME IInv, [Next]_vars
    PROVE  SaneClients'
<1> USE DEF IInv
<1>1. CASE UNCHANGED clients
  BY <1>1 DEF SaneClients
<1>2. ASSUME NEW id \in Ids, peer_joined(id) PROVE SaneClients'
  <2>1. Sane(NewClient)
    BY FoldAssumption, NoneAssumption DEF Sane, NewClient, NickStates, UserStates
  <2> QED
    BY <1>2, <2>1, JoinedFacts DEF SaneClients
<1>3. ASSUME NEW id \in Ids, Update(id) PROVE SaneClients'
  BY <1>3 DEF Update, SaneClients
<1>4. ASSUME NEW id \in Ids, NEW n \in Nicks, cmd_nick(id, n) PROVE SaneClients'
  BY <1>4, NickFacts DEF SaneClients
<1>5. ASSUME NEW id \in DOMAIN clients, remove_client(id) PROVE SaneClients'
  BY <1>5, RemoveFacts DEF SaneClients
<1> QED
  BY <1>1, <1>2, <1>3, <1>4, <1>5, NextCases DEF vars, rehash, ChannelStep

\* The invariant holds in every reachable state.
THEOREM Invariance == Spec => []IInv
<1>1. IInv /\ [Next]_vars => IInv'
  BY TypeStep, NicksStep, MembersStep, InvitesStep, SaneStep DEF IInv
<1> QED
  BY <1>1, InitIInv, PTL DEF Spec

\* Every variable keeps its type, for any number of clients, names and channels.
THEOREM TypeCorrect == Spec => []TypeOK
<1>1. IInv => TypeOK
  BY DEF IInv
<1> QED
  BY <1>1, Invariance, PTL

\* `nicks` and the nicknames of clients stay inverse to each other (cmd_nick and
\* remove_client keep both in step).
THEOREM NicksStayConsistent == Spec => []NicksConsistent
<1>1. IInv => NicksConsistent
  BY DEF IInv
<1> QED
  BY <1>1, Invariance, PTL

\* Only registered clients are members of channels, so that broadcasts find them all.
THEOREM MembersStayRegistered == Spec => []MembersRegistered
<1>1. IInv => MembersRegistered
  BY DEF IInv
<1> QED
  BY <1>1, Invariance, PTL

\* Joining uses an invitation up, and INVITE refuses members.
THEOREM InvitationsUsedUp == Spec => []InvitesDisjoint
<1>1. IInv => InvitesDisjoint
  BY DEF IInv
<1> QED
  BY <1>1, Invariance, PTL

\* Whatever order NICK, USER and CAP come in, a registered client has its names.
THEOREM RegistrationComplete == Spec => []RegisteredComplete
<1>1. IInv => RegisteredComplete
  BY DEF IInv, SaneClients, Sane, RegisteredComplete, is_registered, NickStates, UserStates
<1> QED
  BY <1>1, Invariance, PTL

\* With a password in every configuration, who is registered has given it.
THEOREM PasswordNeeded == Spec => []PasswordRequired
<1>1. IInv => PasswordRequired
  BY DEF IInv, SaneClients, Sane, Secured, PasswordRequired, is_registered, UserStates
<1> QED
  BY <1>1, Invariance, PTL

\* After the removal of a registered client no channel is empty.
THEOREM RemovalSweeps == Spec => RemovalSweepsChannels
<1> DEFINE Swept == \A id \in DOMAIN clients :
                       is_registered(id) /\ id \notin DOMAIN clients'
                          => \A c \in DOMAIN channels' : Members(c)' # {}
<1>1. TypeOK /\ [Next]_vars => [Swept]_vars
  <2> SUFFICES ASSUME TypeOK, [Next]_vars PROVE Swept
    OBVIOUS
  <2>1. ASSUME DOMAIN clients \subseteq DOMAIN clients' PROVE Swept
    BY <2>1
  <2>2. ASSUME NEW id \in DOMAIN clients, remove_client(id) PROVE Swept
    BY <2>2, RemoveFacts DEF Members
  <2>3. ASSUME NEW id \in Ids, peer_joined(id) PROVE Swept
    BY <2>1, <2>3, JoinedFacts
  <2>4. ASSUME NEW id \in Ids, NEW n \in Nicks, cmd_nick(id, n) PROVE Swept
    BY <2>1, <2>4, NickFacts
  <2>5. ASSUME NEW id \in Ids, Update(id) \/ ChannelStep(id) PROVE Swept
    BY <2>1, <2>5 DEF Update, ChannelStep
  <2>6. CASE UNCHANGED vars \/ rehash
    BY <2>1, <2>6 DEF vars, rehash
  <2> QED
    BY <2>2, <2>3, <2>4, <2>5, <2>6, NextCases
<1> QED
  BY <1>1, TypeCorrect, PTL DEF Spec, RemovalSweepsChannels

-----------------------------------------------------------------------------
(***************************************************************************)
(* The channel commands in detail: which members every channel has after   *)
(* the command, and with which ranks.                                      *)
(***************************************************************************)

\* add_member makes the first member an operator and gives later ones no rank.
LEMMA AddMemberFacts ==
    ASSUME NEW ch, IsChannel(ch), NEW id \in Ids
    PROVE  LET new == add_member(ch, id)
           IN  /\ new.members[id] = IF DOMAIN ch.members = {} THEN {"operator"} ELSE {}
               /\ \A m \in DOMAIN ch.members \ {id} : new.members[m] = ch.members[m]
               /\ new.topic = ch.topic /\ new.key = ch.key /\ new.flags = ch.flags
<1>1. PICK modes \in SUBSET MemberModes :
         modes = IF DOMAIN ch.members = {} THEN {"operator"} ELSE {}
  BY DEF MemberModes
<1>2. add_member(ch, id) = [ch EXCEPT !.members = Put(ch.members, id, modes),
                                      !.invites = ch.invites \ {id}]
  BY <1>1 DEF add_member, IsChannel
<1>3. /\ Put(ch.members, id, modes)[id] = modes
      /\ \A m \in DOMAIN ch.members : m # id => Put(ch.members, id, modes)[m] = ch.members[m]
  BY DEF Put
<1>4. LET new == add_member(ch, id)
      IN  /\ new.members = Put(ch.members, id, modes)
          /\ new.topic = ch.topic /\ new.key = ch.key /\ new.flags = ch.flags
  BY <1>2 DEF IsChannel
<1> QED
  BY <1>1, <1>3, <1>4

\* remove_members leaves the others their ranks.
LEMMA RemoveMembersFacts ==
    ASSUME NEW ch, IsChannel(ch), NEW ids
    PROVE  LET new == remove_members(ch, ids)
           IN  /\ \A m \in DOMAIN ch.members \ ids : new.members[m] = ch.members[m]
               /\ new.topic = ch.topic /\ new.key = ch.key /\ new.flags = ch.flags
<1>1. \A m \in DOMAIN ch.members \ ids : Drop(ch.members, ids)[m] = ch.members[m]
  BY DEF Drop, Restrict
<1>2. remove_members(ch, ids) = [ch EXCEPT !.members = Drop(ch.members, ids)]
  BY DEF remove_members, IsChannel
<1>3. LET new == remove_members(ch, ids)
      IN  /\ new.members = Drop(ch.members, ids)
          /\ new.topic = ch.topic /\ new.key = ch.key /\ new.flags = ch.flags
  BY <1>2 DEF IsChannel
<1> QED
  BY <1>1, <1>3

\* What a MODE change does to the ranks, the key and the topic.
LEMMA ModeChangeFacts ==
    ASSUME NEW ch, IsChannel(ch), NEW change \in ChannelChange(Nicks), NEW nick_of
    PROVE  LET new == apply_mode_change(ch, change, nick_of)
           IN  /\ new.topic = ch.topic
               /\ change[1] # "Key" => new.key = ch.key
               /\ change[1] = "Key" =>
                     \/ ~change[2] /\ new.key = None
                     \/ /\ change[2] /\ change[3] \in ChanKeys
                        /\ new.key = IF ch.key = None THEN Truncate[change[3]] ELSE ch.key
               /\ change[1] \notin Ranks => new.members = ch.members
               /\ change[1] \in Ranks =>
                     /\ change[2] \in BOOLEAN /\ change[3] \in Nicks
                     /\ \A m \in DOMAIN ch.members :
                           new.members[m] = IF nick_of[m] = change[3]
                                            THEN Toggle(ch.members[m], RankMode(change[1]), change[2])
                                            ELSE ch.members[m]
<1> DEFINE new == apply_mode_change(ch, change, nick_of)
<1>1. CASE change \in Flags \X BOOLEAN
  <2>1. new = [ch EXCEPT !.flags = Toggle(ch.flags, change[1], change[2])]
    BY <1>1 DEF apply_mode_change, Flags, Lists, Ranks, IsChannel
  <2> QED
    BY <1>1, <2>1 DEF IsChannel, Flags, Ranks
<1>2. CASE change \in Lists \X BOOLEAN \X Masks
  <2>1. change[1] \in Lists /\ change[1] \notin Flags \cup Ranks \cup {"Key", "UserLimit"}
    BY <1>2 DEF Flags, Lists, Ranks
  <2>2. new = [ch EXCEPT !.masks = [ch.masks EXCEPT
                  ![change[1]] = Toggle(ch.masks[change[1]], change[3], change[2])]]
    BY <2>1 DEF apply_mode_change, IsChannel
  <2> QED
    BY <2>1, <2>2 DEF IsChannel
<1>3. CASE change = <<"Key", FALSE>>
  <2>1. new = [ch EXCEPT !.key = None]
    BY <1>3 DEF apply_mode_change, Flags, Lists, Ranks, IsChannel
  <2> QED
    BY <1>3, <2>1 DEF IsChannel, Ranks
<1>4. CASE change \in {"Key"} \X {TRUE} \X ChanKeys
  <2> DEFINE key == IF ch.key = None THEN Truncate[change[3]] ELSE ch.key
  <2>1. new = [ch EXCEPT !.key = key]
    BY <1>4 DEF apply_mode_change, Flags, Lists, Ranks, IsChannel
  <2> QED
    BY <1>4, <2>1 DEF IsChannel, Ranks
<1>5. CASE change \in {"UserLimit"} \X (Nat \cup {None})
  <2>1. new = [ch EXCEPT !.user_limit = change[2]]
    BY <1>5 DEF apply_mode_change, Flags, Lists, Ranks, IsChannel
  <2> QED
    BY <1>5, <2>1 DEF IsChannel, Ranks
<1>6. CASE change \in Ranks \X BOOLEAN \X Nicks
  <2> DEFINE members == [m \in DOMAIN ch.members |->
                            IF nick_of[m] = change[3]
                            THEN Toggle(ch.members[m], RankMode(change[1]), change[2])
                            ELSE ch.members[m]]
  <2>1. new = [ch EXCEPT !.members = members]
    BY <1>6 DEF apply_mode_change, Flags, Lists, Ranks, IsChannel
  <2>2. new.members = members /\ new.topic = ch.topic /\ new.key = ch.key
    BY <2>1 DEF IsChannel
  <2> QED
    BY <1>6, <2>2 DEF Ranks
<1>7. CASE change = NoChange
  BY <1>7 DEF apply_mode_change, NoChange, Flags, Lists, Ranks
<1> QED
  BY <1>1, <1>2, <1>3, <1>4, <1>5, <1>6, <1>7 DEF ChannelChange

\* Replacing one channel leaves the others alone.
LEMMA ReplaceFacts ==
    ASSUME TypeOK, NEW c \in DOMAIN channels, NEW new, channels' = [channels EXCEPT ![c] = new]
    PROVE  /\ DOMAIN channels' = DOMAIN channels
           /\ channels'[c] = new
           /\ \A d \in DOMAIN channels : d # c => channels'[d] = channels[d]
BY DEF TypeOK, IsMap

\* JOIN adds its issuer to the channels that let it in, new ones included.
LEMMA JoinFacts ==
    ASSUME TypeOK, NEW id \in Ids, NEW list, cmd_join(id, list)
    PROVE  /\ is_registered(id)
           /\ UNCHANGED <<clients, nicks, config>>
           /\ DOMAIN channels' = DOMAIN channels \cup Joinable(id, list)
           /\ \A c \in DOMAIN channels \ Joinable(id, list) : channels'[c] = channels[c]
           /\ \A c \in Joinable(id, list) :
                 /\ id \notin Members(c)
                 /\ c \in DOMAIN channels => \E key :
                       check_join(channels[c], id, clients[id].nick, clients[id].full_name, key)
                 /\ DOMAIN channels'[c].members = Members(c) \cup {id}
                 /\ channels'[c].members[id] = IF Members(c) = {} THEN {"operator"} ELSE {}
                 /\ \A m \in Members(c) : channels'[c].members[m] = channels[c].members[m]
                 /\ c \in DOMAIN channels =>
                       channels'[c].topic = channels[c].topic /\ channels'[c].key = channels[c].key
<1> DEFINE joined == Joinable(id, list)
<1>1. is_registered(id) /\ UNCHANGED <<clients, nicks, config>>
  BY LateRequest DEF cmd_join, EarlyRequests
<1>2. channels' = [c \in DOMAIN channels \cup joined |->
                      IF c \in joined THEN add_member(entry(c), id) ELSE channels[c]]
  BY DEF cmd_join
<1>3. \A c \in joined : c \in DOMAIN channels => \E key :
         check_join(channels[c], id, clients[id].nick, clients[id].full_name, key)
  BY DEF Joinable
<1>4. \A c \in joined : id \notin Members(c)
  BY <1>3 DEF check_join, Members
<1> HIDE DEF joined
<1>5. ASSUME NEW c
      PROVE  IsChannel(entry(c)) /\ DOMAIN entry(c).members = Members(c)
  <2>1. CASE c \in DOMAIN channels
    BY <2>1 DEF entry, Members, TypeOK
  <2>2. CASE c \notin DOMAIN channels
    <3>1. config.default_chan_mode \in SUBSET Flags
      BY ConfigsAssumption DEF TypeOK
    <3> QED
      BY <2>2, <3>1, NewChannelType DEF entry, Members
  <2> QED
    BY <2>1, <2>2
<1>6. ASSUME NEW c \in joined
      PROVE  /\ DOMAIN channels'[c].members = Members(c) \cup {id}
             /\ channels'[c].members[id] = IF Members(c) = {} THEN {"operator"} ELSE {}
             /\ \A m \in Members(c) : channels'[c].members[m] = channels[c].members[m]
             /\ c \in DOMAIN channels =>
                   channels'[c].topic = channels[c].topic /\ channels'[c].key = channels[c].key
  <2>1. channels'[c] = add_member(entry(c), id)
    BY <1>2, <1>6
  <2>2. DOMAIN channels'[c].members = Members(c) \cup {id}
    BY <1>5, <2>1, AddMemberType
  <2>3. /\ channels'[c].members[id] = IF Members(c) = {} THEN {"operator"} ELSE {}
        /\ \A m \in Members(c) \ {id} : channels'[c].members[m] = entry(c).members[m]
        /\ channels'[c].topic = entry(c).topic /\ channels'[c].key = entry(c).key
    BY <1>5, <2>1, AddMemberFacts
  <2> QED
    BY <1>4, <1>6, <2>2, <2>3 DEF entry, Members
<1> QED
  BY <1>1, <1>2, <1>3, <1>4, <1>6 DEF joined

\* PART takes the issuer out of the channels it names and is on, and removes the ones that
\* this empties.
LEMMA LeaveFacts ==
    ASSUME TypeOK, NEW id, NEW C, channels' = Leave(id, C)
    PROVE  /\ DOMAIN channels' \subseteq DOMAIN channels
           /\ \A c \in DOMAIN channels : c \in DOMAIN channels' <=> ~(c \in C /\ Members(c) = {id})
           /\ \A c \in DOMAIN channels' : c \in C /\ id \in Members(c) =>
                 /\ DOMAIN channels'[c].members = Members(c) \ {id}
                 /\ \A m \in Members(c) \ {id} : channels'[c].members[m] = channels[c].members[m]
                 /\ channels'[c].topic = channels[c].topic
                 /\ channels'[c].key = channels[c].key
           /\ \A c \in DOMAIN channels' :
                 ~(c \in C /\ id \in Members(c)) => channels'[c] = channels[c]
<1>1. /\ DOMAIN channels' = {c \in DOMAIN channels : ~(c \in C /\ Members(c) = {id})}
      /\ \A c \in DOMAIN channels' :
            channels'[c] = IF c \in C /\ id \in Members(c)
                           THEN remove_members(channels[c], {id}) ELSE channels[c]
  BY DEF Leave, find_member, Members
<1>2. ASSUME NEW c \in DOMAIN channels', c \in C, id \in Members(c)
      PROVE  /\ DOMAIN channels'[c].members = Members(c) \ {id}
             /\ \A m \in Members(c) \ {id} : channels'[c].members[m] = channels[c].members[m]
             /\ channels'[c].topic = channels[c].topic
             /\ channels'[c].key = channels[c].key
  <2>1. c \in DOMAIN channels /\ IsChannel(channels[c])
    BY <1>1, <1>2 DEF TypeOK
  <2>2. channels'[c] = remove_members(channels[c], {id})
    BY <1>1, <1>2
  <2> QED
    BY <2>1, <2>2, RemoveMembersType, RemoveMembersFacts DEF Members
<1> QED
  BY <1>1, <1>2

\* KICK takes the clients it names out of one channel, at the word of one of its operators.
LEMMA KickFacts ==
    ASSUME TypeOK, NEW id, NEW c, NEW who, cmd_kick(id, c, who)
    PROVE  LET ids == {nicks[u(n)] : n \in {m \in who : find_nick(m)}}
           IN  /\ is_registered(id)
               /\ UNCHANGED <<clients, nicks, config>>
               /\ c \in DOMAIN channels /\ id \in Operators(c)
               /\ DOMAIN channels' = DOMAIN channels
               /\ \A d \in DOMAIN channels : d # c => channels'[d] = channels[d]
               /\ DOMAIN channels'[c].members = Members(c) \ ids
               /\ \A m \in Members(c) \ ids : channels'[c].members[m] = channels[c].members[m]
               /\ channels'[c].topic = channels[c].topic /\ channels'[c].key = channels[c].key
<1> DEFINE ids == {nicks[u(n)] : n \in {m \in who : find_nick(m)}}
<1>1. is_registered(id) /\ UNCHANGED <<clients, nicks, config>>
  BY LateRequest DEF cmd_kick, EarlyRequests
<1>2. c \in DOMAIN channels /\ id \in Operators(c)
  BY DEF cmd_kick, find_member, Operators, Members
<1>3. channels' = [channels EXCEPT ![c] = remove_members(channels[c], ids)]
  BY DEF cmd_kick
<1> HIDE DEF ids
<1>4. /\ DOMAIN channels' = DOMAIN channels
      /\ channels'[c] = remove_members(channels[c], ids)
      /\ \A d \in DOMAIN channels : d # c => channels'[d] = channels[d]
  BY <1>2, <1>3, ReplaceFacts
<1>5. IsChannel(channels[c])
  BY <1>2 DEF TypeOK
<1>6. /\ DOMAIN channels'[c].members = Members(c) \ ids
      /\ \A m \in Members(c) \ ids : channels'[c].members[m] = channels[c].members[m]
      /\ channels'[c].topic = channels[c].topic /\ channels'[c].key = channels[c].key
  BY <1>2, <1>4, <1>5, RemoveMembersType, RemoveMembersFacts DEF Members
<1> QED
  BY <1>1, <1>2, <1>4, <1>6 DEF ids

\* What MODE does, with the nicknames it consults.
LEMMA ModeOutcome ==
    ASSUME TypeOK, NEW id, NEW c, NEW first \in Changes, NEW second \in Changes,
           cmd_mode_channel_set(id, c, first, second)
    PROVE  LET nick_of == [m \in DOMAIN channels[c].members |-> clients[m].nick]
               mid     == apply_mode_change(channels[c], first, nick_of)
           IN  /\ UNCHANGED <<clients, nicks, config>>
               /\ c \in DOMAIN channels
               /\ first \in ChannelChange(Nicks) /\ second \in ChannelChange(Nicks)
               /\ DOMAIN channels' = DOMAIN channels
               /\ \A d \in DOMAIN channels : d # c => channels'[d] = channels[d]
               /\ IsChannel(channels[c]) /\ IsChannel(mid)
               /\ DOMAIN mid.members = Members(c)
               /\ channels'[c] = apply_mode_change(mid, second, nick_of)
               /\ DOMAIN channels'[c].members = Members(c)
<1> DEFINE nick_of == [m \in DOMAIN channels[c].members |-> clients[m].nick]
           mid     == apply_mode_change(channels[c], first, nick_of)
           new     == apply_mode_change(mid, second, nick_of)
<1>1. /\ UNCHANGED <<clients, nicks, config>>
      /\ c \in DOMAIN channels
      /\ channels' = [channels EXCEPT ![c] = new]
  BY DEF cmd_mode_channel_set, find_member
<1>2. first \in ChannelChange(Nicks) /\ second \in ChannelChange(Nicks)
  BY ChangesAssumption
<1>3. IsChannel(channels[c]) /\ Members(c) = DOMAIN channels[c].members
  BY <1>1 DEF TypeOK, Members
<1> HIDE DEF nick_of
<1>4. IsChannel(mid) /\ DOMAIN mid.members = Members(c)
  BY <1>2, <1>3, ModeChangeType
<1> HIDE DEF mid
<1>5. DOMAIN new.members = Members(c)
  BY <1>2, <1>4, ModeChangeType
<1> HIDE DEF new
<1>6. /\ DOMAIN channels' = DOMAIN channels
      /\ channels'[c] = new
      /\ \A d \in DOMAIN channels : d # c => channels'[d] = channels[d]
  BY <1>1, ReplaceFacts
<1> QED
  BY <1>1, <1>2, <1>3, <1>4, <1>5, <1>6 DEF new, mid, nick_of

\* MODE changes no other channel, and nobody's membership.
LEMMA ModeMembers ==
    ASSUME TypeOK, NEW id, NEW c, NEW first \in Changes, NEW second \in Changes,
           cmd_mode_channel_set(id, c, first, second)
    PROVE  /\ DOMAIN channels' = DOMAIN channels
           /\ \A d \in DOMAIN channels : d # c => channels'[d] = channels[d]
           /\ DOMAIN channels'[c].members = Members(c)
<1> DEFINE nick_of == [m \in DOMAIN channels[c].members |-> clients[m].nick]
           mid     == apply_mode_change(channels[c], first, nick_of)
<1>1. /\ DOMAIN channels' = DOMAIN channels
      /\ \A d \in DOMAIN channels : d # c => channels'[d] = channels[d]
      /\ channels'[c] = apply_mode_change(mid, second, nick_of)
      /\ DOMAIN channels'[c].members = Members(c)
  BY ModeOutcome
<1> QED
  BY <1>1

\* MODE alters one channel that its issuer is on, twice.
LEMMA ModeFacts ==
    ASSUME TypeOK, NEW id, NEW c, NEW first \in Changes, NEW second \in Changes,
           cmd_mode_channel_set(id, c, first, second)
    PROVE  LET nick_of == [m \in DOMAIN channels[c].members |-> clients[m].nick]
               mid     == apply_mode_change(channels[c], first, nick_of)
           IN  /\ is_registered(id)
               /\ UNCHANGED <<clients, nicks, config>>
               /\ c \in DOMAIN channels /\ id \in Members(c)
               /\ IsOper(id) \/ /\ can_change(channels[c].members[id], first)
                                /\ can_change(channels[c].members[id], second)
               /\ first \in ChannelChange(Nicks) /\ second \in ChannelChange(Nicks)
               /\ DOMAIN channels' = DOMAIN channels
               /\ \A d \in DOMAIN channels : d # c => channels'[d] = channels[d]
               /\ IsChannel(channels[c]) /\ IsChannel(mid)
               /\ DOMAIN mid.members = Members(c)
               /\ channels'[c] = apply_mode_change(mid, second, nick_of)
               /\ DOMAIN channels'[c].members = Members(c)
<1>1. is_registered(id)
  BY LateRequest DEF cmd_mode_channel_set, EarlyRequests
<1>2. /\ id \in Members(c)
      /\ IsOper(id) \/ /\ can_change(channels[c].members[id], first)
                       /\ can_change(channels[c].members[id], second)
  BY DEF cmd_mode_channel_set, find_member, Members
<1> QED
  BY <1>1, <1>2, ModeOutcome

\* INVITE and TOPIC leave the members and their ranks alone.
LEMMA InviteTopicFacts ==
    ASSUME TypeOK, NEW id, NEW c, NEW x, cmd_invite(id, x, c) \/ cmd_topic_set(id, c, x)
    PROVE  /\ is_registered(id)
           /\ UNCHANGED <<clients, nicks, config>>
           /\ c \in DOMAIN channels
           /\ DOMAIN channels' = DOMAIN channels
           /\ \A d \in DOMAIN channels : d # c => channels'[d] = channels[d]
           /\ channels'[c].members = channels[c].members
           /\ channels'[c].key = channels[c].key
           /\ cmd_invite(id, x, c) => channels'[c].topic = channels[c].topic
           /\ cmd_topic_set(id, c, x) => channels'[c].topic = x
<1>1. /\ is_registered(id)
      /\ UNCHANGED <<clients, nicks, config>>
      /\ c \in DOMAIN channels
  BY LateRequest DEF cmd_invite, cmd_topic_set, EarlyRequests, find_member
<1>2. IsChannel(channels[c])
  BY <1>1 DEF TypeOK
<1>3. CASE cmd_invite(id, x, c)
  <2> DEFINE new == [channels[c] EXCEPT !.invites = @ \cup {nicks[u(x)]}]
  <2>1. channels' = [channels EXCEPT ![c] = new]
    BY <1>3 DEF cmd_invite
  <2>2. new.members = channels[c].members /\ new.key = channels[c].key /\ new.topic = channels[c].topic
    BY <1>2 DEF IsChannel
  <2> HIDE DEF new
  <2>3. /\ DOMAIN channels' = DOMAIN channels
        /\ channels'[c] = new
        /\ \A d \in DOMAIN channels : d # c => channels'[d] = channels[d]
    BY <1>1, <2>1, ReplaceFacts
  <2>4. ~cmd_topic_set(id, c, x) \/ channels'[c].topic = x
    <3>1. SUFFICES ASSUME cmd_topic_set(id, c, x) PROVE channels'[c].topic = x
      OBVIOUS
    <3>2. channels' = [channels EXCEPT ![c] = [channels[c] EXCEPT !.topic = x]]
      BY <3>1 DEF cmd_topic_set
    <3>3. channels'[c] = [channels[c] EXCEPT !.topic = x]
      BY <1>1, <3>2, ReplaceFacts
    <3> QED
      BY <1>2, <3>3 DEF IsChannel
  <2> QED
    BY <1>1, <2>2, <2>3, <2>4
<1>4. CASE cmd_topic_set(id, c, x)
  <2> DEFINE new == [channels[c] EXCEPT !.topic = x]
  <2>1. channels' = [channels EXCEPT ![c] = new]
    BY <1>4 DEF cmd_topic_set
  <2>2. new.members = channels[c].members /\ new.key = channels[c].key /\ new.topic = x
    BY <1>2 DEF IsChannel
  <2> HIDE DEF new
  <2>3. /\ DOMAIN channels' = DOMAIN channels
        /\ channels'[c] = new
        /\ \A d \in DOMAIN channels : d # c => channels'[d] = channels[d]
    BY <1>1, <2>1, ReplaceFacts
  <2> QED
    BY <1>1, <1>3, <2>2, <2>3
<1> QED
  BY <1>3, <1>4

\* The ranks after one MODE change: founder and protected are never given, and operator
\* only by a change of operators.
LEMMA ModeChangeRanks ==
    ASSUME NEW ch, IsChannel(ch), NEW change \in ChannelChange(Nicks), NEW nick_of,
           NEW m \in DOMAIN ch.members
    PROVE  LET new == apply_mode_change(ch, change, nick_of)
           IN  /\ new.members[m] \subseteq ch.members[m] \cup {"operator", "halfop", "voice"}
               /\ "operator" \in new.members[m] \ ch.members[m] => change[1] = "ChangeOperator"
<1>1. CASE change[1] \notin Ranks
  BY <1>1, ModeChangeFacts
<1>2. CASE change[1] \in Ranks
  <2>1. LET new == apply_mode_change(ch, change, nick_of)
        IN  \/ new.members[m] = ch.members[m]
            \/ new.members[m] = Toggle(ch.members[m], RankMode(change[1]), change[2])
    BY <1>2, ModeChangeFacts
  <2>2. /\ RankMode(change[1]) \in {"operator", "halfop", "voice"}
        /\ RankMode(change[1]) = "operator" => change[1] = "ChangeOperator"
    BY <1>2 DEF Ranks, RankMode
  <2> QED
    BY <2>1, <2>2 DEF Toggle
<1> QED
  BY <1>1, <1>2

-----------------------------------------------------------------------------
(***************************************************************************)
(* What a step may do to one channel: take its issuer in, let members go,  *)
(* or alter it for a member.                                               *)
(***************************************************************************)
TakesIn(id, c) ==
    /\ is_registered(id)
    /\ id \notin Members(c)
    /\ c \in DOMAIN channels => \E key :
          check_join(channels[c], id, clients[id].nick, clients[id].full_name, key)
    /\ DOMAIN channels'[c].members = Members(c) \cup {id}
    /\ channels'[c].members[id] = IF Members(c) = {} THEN {"operator"} ELSE {}
    /\ \A m \in Members(c) : channels'[c].members[m] = channels[c].members[m]

LetsGo(c, ids) ==
    /\ c \in DOMAIN channels
    /\ DOMAIN channels'[c].members = Members(c) \ ids
    /\ \A m \in Members(c) \ ids : channels'[c].members[m] = channels[c].members[m]
    /\ Members(c) # {} /\ Members(c) \subseteq ids
          => Operators(c) # {} /\ UNCHANGED <<clients, nicks>>

Alters(id, c) ==
    /\ c \in DOMAIN channels
    /\ id \in Members(c)
    /\ DOMAIN channels'[c].members = Members(c)
    /\ \A m \in Members(c) :
          /\ channels'[c].members[m] \subseteq
                channels[c].members[m] \cup {"operator", "halfop", "voice"}
          /\ "operator" \in channels'[c].members[m] \ channels[c].members[m]
                => IsOper(id) \/ is_at_least_op(channels[c].members[id])

\* MODE alters a channel, and only operators of it or of the server make operators.
LEMMA ModeAlters ==
    ASSUME TypeOK, NEW id, NEW c, NEW first \in Changes, NEW second \in Changes,
           cmd_mode_channel_set(id, c, first, second)
    PROVE  Alters(id, c)
<1> DEFINE nick_of == [m \in DOMAIN channels[c].members |-> clients[m].nick]
           mid     == apply_mode_change(channels[c], first, nick_of)
<1>1. /\ c \in DOMAIN channels /\ id \in Members(c)
      /\ IsOper(id) \/ /\ can_change(channels[c].members[id], first)
                       /\ can_change(channels[c].members[id], second)
      /\ first \in ChannelChange(Nicks) /\ second \in ChannelChange(Nicks)
      /\ IsChannel(channels[c]) /\ IsChannel(mid)
      /\ DOMAIN mid.members = Members(c)
      /\ channels'[c] = apply_mode_change(mid, second, nick_of)
      /\ DOMAIN channels'[c].members = Members(c)
  BY ModeFacts
<1>2. Members(c) = DOMAIN channels[c].members
  BY <1>1 DEF Members
<1> HIDE DEF nick_of
<1>3. \A m \in Members(c) :
         /\ mid.members[m] \subseteq channels[c].members[m] \cup {"operator", "halfop", "voice"}
         /\ "operator" \in mid.members[m] \ channels[c].members[m] => first[1] = "ChangeOperator"
  BY <1>1, <1>2, ModeChangeRanks
<1> HIDE DEF mid
<1>4. \A m \in Members(c) :
         /\ channels'[c].members[m] \subseteq mid.members[m] \cup {"operator", "halfop", "voice"}
         /\ "operator" \in channels'[c].members[m] \ mid.members[m] => second[1] = "ChangeOperator"
  BY <1>1, ModeChangeRanks
<1>5. \A change : change[1] = "ChangeOperator" /\ can_change(channels[c].members[id], change)
         => is_at_least_op(channels[c].members[id])
  BY DEF can_change, OpChanges
<1>6. \A m \in Members(c) : "operator" \in channels'[c].members[m] \ channels[c].members[m]
         => IsOper(id) \/ is_at_least_op(channels[c].members[id])
  BY <1>1, <1>3, <1>4, <1>5
<1> QED
  BY <1>1, <1>3, <1>4, <1>6 DEF Alters

\* The removal of a client lets it go from every channel that stays.
LEMMA RemovalLetsGo ==
    ASSUME TypeOK, NEW id \in DOMAIN clients, remove_client(id), NEW c \in DOMAIN channels'
    PROVE  \/ c \in DOMAIN channels /\ channels'[c] = channels[c]
           \/ LetsGo(c, {id})
<1>1. CASE ~is_registered(id)
  BY <1>1 DEF remove_client
<1>2. CASE is_registered(id)
  <2>1. channels' = Sweep(id)
    BY <1>2 DEF remove_client
  <2>2. /\ c \in DOMAIN channels /\ DOMAIN channels[c].members \ {id} # {}
        /\ channels'[c] = remove_members(channels[c], {id})
    BY <2>1 DEF Sweep
  <2>3. IsChannel(channels[c]) /\ Members(c) = DOMAIN channels[c].members
    BY <2>2 DEF TypeOK, Members
  <2>4. /\ DOMAIN channels'[c].members = Members(c) \ {id}
        /\ \A m \in Members(c) \ {id} : channels'[c].members[m] = channels[c].members[m]
    BY <2>2, <2>3, RemoveMembersType, RemoveMembersFacts
  <2> QED
    BY <2>2, <2>3, <2>4 DEF LetsGo
<1> QED
  BY <1>1, <1>2

\* The channel commands take their issuer in, let members go, or alter a channel.
LEMMA CommandEvolves ==
    ASSUME TypeOK, NEW id \in Ids, Channels(id), NEW c \in DOMAIN channels'
    PROVE  \/ c \in DOMAIN channels /\ channels'[c] = channels[c]
           \/ TakesIn(id, c)
           \/ \E ids : LetsGo(c, ids)
           \/ Alters(id, c)
           \/ c \in DOMAIN channels /\ channels'[c].members = channels[c].members
<1> DEFINE Goal == \/ c \in DOMAIN channels /\ channels'[c] = channels[c]
                   \/ TakesIn(id, c)
                   \/ \E ids : LetsGo(c, ids)
                   \/ Alters(id, c)
                   \/ c \in DOMAIN channels /\ channels'[c].members = channels[c].members
<1>1. ASSUME NEW list, cmd_join(id, list) PROVE Goal
  <2>1. CASE c \in Joinable(id, list)
    <3>1. /\ is_registered(id) /\ id \notin Members(c)
          /\ c \in DOMAIN channels => \E key :
                check_join(channels[c], id, clients[id].nick, clients[id].full_name, key)
          /\ DOMAIN channels'[c].members = Members(c) \cup {id}
          /\ channels'[c].members[id] = IF Members(c) = {} THEN {"operator"} ELSE {}
          /\ \A m \in Members(c) : channels'[c].members[m] = channels[c].members[m]
      BY <1>1, <2>1, JoinFacts
    <3>2. TakesIn(id, c)
      BY <3>1 DEF TakesIn
    <3> QED
      BY <3>2
  <2>2. CASE c \notin Joinable(id, list)
    <3>1. /\ DOMAIN channels' = DOMAIN channels \cup Joinable(id, list)
          /\ \A d \in DOMAIN channels \ Joinable(id, list) : channels'[d] = channels[d]
      BY <1>1, JoinFacts
    <3> QED
      BY <2>2, <3>1
  <2> QED
    BY <2>1, <2>2
<1>2. ASSUME NEW C, channels' = Leave(id, C) PROVE Goal
  <2>1. CASE c \in C /\ id \in Members(c)
    <3>1. /\ c \in DOMAIN channels /\ Members(c) # {id}
          /\ DOMAIN channels'[c].members = Members(c) \ {id}
          /\ \A m \in Members(c) \ {id} : channels'[c].members[m] = channels[c].members[m]
      BY <1>2, <2>1, LeaveFacts
    <3>2. LetsGo(c, {id})
      BY <2>1, <3>1 DEF LetsGo
    <3> QED
      BY <3>2
  <2>2. CASE ~(c \in C /\ id \in Members(c))
    BY <1>2, <2>2, LeaveFacts
  <2> QED
    BY <2>1, <2>2
<1>3. ASSUME NEW d, NEW who, cmd_kick(id, d, who) PROVE Goal
  <2> DEFINE ids == {nicks[u(n)] : n \in {m \in who : find_nick(m)}}
  <2>1. /\ UNCHANGED <<clients, nicks, config>>
        /\ d \in DOMAIN channels /\ id \in Operators(d)
        /\ DOMAIN channels' = DOMAIN channels
        /\ \A e \in DOMAIN channels : e # d => channels'[e] = channels[e]
        /\ DOMAIN channels'[d].members = Members(d) \ ids
        /\ \A m \in Members(d) \ ids : channels'[d].members[m] = channels[d].members[m]
    BY <1>3, KickFacts
  <2> HIDE DEF ids
  <2>2. LetsGo(d, ids)
    BY <2>1 DEF LetsGo
  <2> QED
    BY <2>1, <2>2
<1>4. ASSUME NEW d, NEW x, cmd_invite(id, x, d) \/ cmd_topic_set(id, d, x) PROVE Goal
  BY <1>4, InviteTopicFacts
<1>5. ASSUME NEW d, NEW first \in Changes, NEW second \in Changes,
             cmd_mode_channel_set(id, d, first, second)
      PROVE  Goal
  <2>1. /\ DOMAIN channels' = DOMAIN channels
        /\ \A e \in DOMAIN channels : e # d => channels'[e] = channels[e]
    BY <1>5, ModeFacts
  <2> QED
    BY <1>5, <2>1, ModeAlters
<1> HIDE DEF Goal
<1>6. Goal
  BY <1>1, <1>2, <1>3, <1>4, <1>5 DEF Channels, cmd_part, cmd_part_all
<1> QED
  BY <1>6 DEF Goal

\* A step that changes channels removes a client or is a channel command.
LEMMA ChannelsChange ==
    ASSUME TypeOK, [Next]_vars
    PROVE  \/ UNCHANGED channels
           \/ \E id \in DOMAIN clients : remove_client(id)
           \/ \E id \in Ids : Channels(id)
<1>1. ASSUME NEW id \in Ids, Session(id)
      PROVE  UNCHANGED channels \/ \E x \in DOMAIN clients : remove_client(x)
  BY <1>1, SessionCases DEF Update, cmd_nick
<1>2. ASSUME NEW id \in Ids, panic(id)
      PROVE  UNCHANGED channels \/ Channels(id)
  BY <1>2, PanicCases DEF Update, vars
<1> QED
  BY <1>1, <1>2 DEF Next, vars, rehash, peer_joined, peer_quit, remove_if_unregistered, handle_message

\* Every step leaves a channel its members and ranks, takes one client in, lets members
\* go, or alters it for a member.
LEMMA ChannelEvolves ==
    ASSUME TypeOK, [Next]_vars, NEW c \in DOMAIN channels'
    PROVE  \/ c \in DOMAIN channels /\ channels'[c].members = channels[c].members
           \/ \E id \in Ids : TakesIn(id, c)
           \/ \E ids : LetsGo(c, ids)
           \/ \E id \in Ids : Alters(id, c)
<1>1. CASE UNCHANGED channels
  BY <1>1
<1>2. CASE \E id \in DOMAIN clients : remove_client(id)
  BY <1>2, RemovalLetsGo
<1>3. CASE \E id \in Ids : Channels(id)
  BY <1>3, CommandEvolves
<1> QED
  BY <1>1, <1>2, <1>3, ChannelsChange

-----------------------------------------------------------------------------
(***************************************************************************)
(* Who gets into a channel and who runs it.  The parts that IInv lacks:    *)
(* nobody is founder or protected (can_change accepts founders, whom       *)
(* nothing makes), and channels have finitely many members (the user limit *)
(* is compared with their number).                                         *)
(***************************************************************************)
RanksGiven ==
    \A c \in DOMAIN channels : \A m \in DOMAIN channels[c].members :
        channels[c].members[m] \subseteq {"operator", "halfop", "voice"}

FiniteMembers == \A c \in DOMAIN channels : IsFiniteSet(DOMAIN channels[c].members)

AccessInv == IInv /\ RanksGiven /\ FiniteMembers

\* Every step keeps the ranks among the three that MODE and the first JOIN give.
LEMMA RanksStep ==
    ASSUME TypeOK, RanksGiven, [Next]_vars
    PROVE  RanksGiven'
<1> SUFFICES ASSUME NEW c \in DOMAIN channels', NEW m \in DOMAIN channels'[c].members
             PROVE  channels'[c].members[m] \subseteq {"operator", "halfop", "voice"}
  BY DEF RanksGiven
<1>1. \A x \in Members(c) : channels[c].members[x] \subseteq {"operator", "halfop", "voice"}
  BY DEF RanksGiven, Members
<1>2. CASE c \in DOMAIN channels /\ channels'[c].members = channels[c].members
  BY <1>1, <1>2 DEF Members
<1>3. ASSUME NEW id, TakesIn(id, c)
      PROVE  channels'[c].members[m] \subseteq {"operator", "halfop", "voice"}
  BY <1>1, <1>3 DEF TakesIn
<1>4. ASSUME NEW ids, LetsGo(c, ids)
      PROVE  channels'[c].members[m] \subseteq {"operator", "halfop", "voice"}
  BY <1>1, <1>4 DEF LetsGo
<1>5. ASSUME NEW id, Alters(id, c)
      PROVE  channels'[c].members[m] \subseteq {"operator", "halfop", "voice"}
  BY <1>1, <1>5 DEF Alters
<1> QED
  BY <1>2, <1>3, <1>4, <1>5, ChannelEvolves

\* Every step keeps channels finite.
LEMMA FiniteStep ==
    ASSUME TypeOK, FiniteMembers, [Next]_vars
    PROVE  FiniteMembers'
<1> SUFFICES ASSUME NEW c \in DOMAIN channels'
             PROVE  IsFiniteSet(DOMAIN channels'[c].members)
  BY DEF FiniteMembers
<1>1. IsFiniteSet(Members(c))
  BY FS_EmptySet DEF FiniteMembers, Members
<1>2. CASE c \in DOMAIN channels /\ channels'[c].members = channels[c].members
  BY <1>1, <1>2 DEF Members
<1>3. ASSUME NEW id, TakesIn(id, c)
      PROVE  IsFiniteSet(DOMAIN channels'[c].members)
  BY <1>1, <1>3, FS_AddElement DEF TakesIn
<1>4. ASSUME NEW ids, LetsGo(c, ids)
      PROVE  IsFiniteSet(DOMAIN channels'[c].members)
  BY <1>1, <1>4, FS_Difference DEF LetsGo
<1>5. ASSUME NEW id, Alters(id, c)
      PROVE  IsFiniteSet(DOMAIN channels'[c].members)
  BY <1>1, <1>5 DEF Alters
<1> QED
  BY <1>2, <1>3, <1>4, <1>5, ChannelEvolves

\* Every step keeps the invariant with its two additions.
LEMMA AccessStep == AccessInv /\ [Next]_vars => AccessInv'
BY TypeStep, NicksStep, MembersStep, InvitesStep, SaneStep, RanksStep, FiniteStep
   DEF AccessInv, IInv

\* It holds initially: there is no channel.
LEMMA InitAccess == Init => AccessInv
<1>1. Init => DOMAIN channels = {}
  BY EmptyMapIsMap DEF Init
<1> QED
  BY <1>1, InitIInv DEF AccessInv, RanksGiven, FiniteMembers

\* The invariant with its two additions holds in every reachable state.
THEOREM AccessInvariance == Spec => []AccessInv
BY InitAccess, AccessStep, PTL DEF Spec

\* Nobody becomes operator of a channel that has members but through an operator of it or
\* of the server who is on it.
THEOREM OperatorsMadeByOperators == Spec => OperatorsFromOperators
<1> DEFINE Made == \A c \in Chans :
                      \/ Operators(c)' \subseteq Operators(c)
                      \/ Members(c) = {}
                      \/ \E m \in Members(c) : m \in Operators(c) \/ IsOper(m)
<1>1. AccessInv /\ [Next]_vars => [Made]_vars
  <2> SUFFICES ASSUME AccessInv, [Next]_vars, NEW c \in Chans, NEW m \in Operators(c)',
                      m \notin Operators(c), Members(c) # {}
               PROVE  \E x \in Members(c) : x \in Operators(c) \/ IsOper(x)
    OBVIOUS
  <2>1. /\ c \in DOMAIN channels' /\ m \in DOMAIN channels'[c].members
        /\ "operator" \in channels'[c].members[m]
    BY DEF Operators, Members
  <2>2. c \in DOMAIN channels /\ TypeOK
    BY DEF Members, AccessInv, IInv
  <2>3. m \in Members(c) => "operator" \notin channels[c].members[m]
    BY DEF Operators
  <2>4. ~(channels'[c].members = channels[c].members)
    BY <2>1, <2>2, <2>3 DEF Members
  <2>5. ASSUME NEW id \in Ids PROVE ~TakesIn(id, c)
    BY <2>1, <2>3 DEF TakesIn
  <2>6. ASSUME NEW ids PROVE ~LetsGo(c, ids)
    BY <2>1, <2>3 DEF LetsGo
  <2>7. PICK id \in Ids : Alters(id, c)
    BY <2>1, <2>2, <2>4, <2>5, <2>6, ChannelEvolves
  <2>8. id \in Members(c) /\ (IsOper(id) \/ is_at_least_op(channels[c].members[id]))
    BY <2>1, <2>3, <2>7 DEF Alters
  <2>9. channels[c].members[id] \subseteq {"operator", "halfop", "voice"}
    BY <2>2, <2>8 DEF AccessInv, RanksGiven, Members
  <2> QED
    BY <2>8, <2>9 DEF Operators, is_at_least_op
<1> QED
  BY <1>1, AccessInvariance, PTL DEF Spec, OperatorsFromOperators

\* Whoever enters a channel that is there fits under its limit, is invited if it must be,
\* and is not banned under the names it has at that moment.
THEOREM EntryStaysControlled == Spec => EntryControlled
<1> DEFINE Let(c, id) ==
              /\ channels[c].user_limit = None \/ Cardinality(Members(c)') <= channels[c].user_limit
              /\ is_invited(channels[c], id, clients[id].nick)
              /\ ~is_banned(channels[c], <<clients[id].nick>>)
              /\ ~is_banned(channels[c], <<clients[id].nick, clients[id].user>>)
           Entry ==
              \A c \in DOMAIN channels : \A id \in Members(c)' \ Members(c) :
                 LET ch == channels[c]
                     me == clients[id]
                 IN  /\ ch.user_limit = None \/ Cardinality(Members(c)') <= ch.user_limit
                     /\ is_invited(ch, id, me.nick)
                     /\ ~is_banned(ch, <<me.nick>>) /\ ~is_banned(ch, <<me.nick, me.user>>)
<1>1. AccessInv /\ [Next]_vars => [Entry]_vars
  <2> SUFFICES ASSUME AccessInv, [Next]_vars, NEW c \in DOMAIN channels,
                      NEW id \in Members(c)' \ Members(c)
               PROVE  Let(c, id)
    OBVIOUS
  <2>1. /\ c \in DOMAIN channels' /\ Members(c)' = DOMAIN channels'[c].members
        /\ Members(c) = DOMAIN channels[c].members /\ TypeOK
    BY DEF Members, AccessInv, IInv
  <2>2. PICK x \in Ids : TakesIn(x, c)
    BY <2>1, ChannelEvolves DEF LetsGo, Alters
  <2>3. /\ id = x /\ is_registered(id) /\ id \notin Members(c)
        /\ Members(c)' = Members(c) \cup {id}
    BY <2>1, <2>2 DEF TakesIn
  <2>4. PICK key :
           check_join(channels[c], id, clients[id].nick, clients[id].full_name, key)
    BY <2>2, <2>3 DEF TakesIn
  <2>5. clients[id].full_name = <<clients[id].nick, clients[id].user>>
    BY <2>3 DEF AccessInv, IInv, SaneClients, Sane, is_registered, NickStates
  <2>6. IsFiniteSet(Members(c)) /\ channels[c].user_limit \in Nat \cup {None}
    BY <2>1 DEF AccessInv, FiniteMembers, TypeOK, IsChannel
  <2>7. /\ Cardinality(Members(c)) \in Nat
        /\ Cardinality(Members(c)') = Cardinality(Members(c)) + 1
    BY <2>3, <2>6, FS_CardinalityType, FS_AddElement
  <2>8. channels[c].user_limit # None => Cardinality(Members(c)) < channels[c].user_limit
    BY <2>1, <2>4 DEF check_join
  <2>9. channels[c].user_limit # None => Cardinality(Members(c)') <= channels[c].user_limit
    BY <2>6, <2>7, <2>8
  <2> QED
    BY <2>4, <2>5, <2>9 DEF check_join
<1> QED
  BY <1>1, AccessInvariance, PTL DEF Spec, EntryControlled

\* A channel that stays without members was emptied by one of its operators' KICK.
THEOREM EmptiedByKick == Spec => EmptiedOnlyByKick
<1> DEFINE Emptied == \A c \in DOMAIN channels :
                         Members(c) # {} /\ c \in DOMAIN channels' /\ Members(c)' = {}
                            => Operators(c) # {} /\ UNCHANGED <<clients, nicks>>
<1>1. TypeOK /\ [Next]_vars => [Emptied]_vars
  <2> SUFFICES ASSUME TypeOK, [Next]_vars, NEW c \in DOMAIN channels, Members(c) # {},
                      c \in DOMAIN channels', Members(c)' = {}
               PROVE  Operators(c) # {} /\ UNCHANGED <<clients, nicks>>
    OBVIOUS
  <2>1. DOMAIN channels'[c].members = {} /\ Members(c) = DOMAIN channels[c].members
    BY DEF Members
  <2>2. PICK ids : LetsGo(c, ids)
    BY <2>1, ChannelEvolves DEF TakesIn, Alters
  <2> QED
    BY <2>1, <2>2 DEF LetsGo
<1> QED
  BY <1>1, TypeCorrect, PTL DEF Spec, EmptiedOnlyByKick

-----------------------------------------------------------------------------
(***************************************************************************)
(* The network implements Rooms.                                           *)
(***************************************************************************)
UsersBar == [id \in RegisteredIds |-> u(clients[id].nick)]
RoomsBar == [c \in DOMAIN channels |-> DOMAIN channels[c].members]

\* A step that changes at most the record of client id, and leaves the others and the
\* channels alone, is a registration, a change of name, or nothing to Rooms.
LEMMA RecordImplements ==
    ASSUME IInv, IInv', UNCHANGED channels, NEW id \in DOMAIN clients,
           DOMAIN clients' = DOMAIN clients,
           \A x \in DOMAIN clients : x # id => clients'[x] = clients[x],
           is_registered(id) => clients'[id].state = "Registered"
    PROVE  [R!Next]_<<UsersBar, RoomsBar>>
<1> DEFINE name == u(clients'[id].nick)
<1>1. id \in Ids /\ RoomsBar' = RoomsBar
  BY DEF IInv, TypeOK, IsMap, RoomsBar
<1>2. CASE clients'[id].state # "Registered"
  <2>1. RegisteredIds' = RegisteredIds /\ \A x \in RegisteredIds : clients'[x] = clients[x]
    BY <1>2 DEF RegisteredIds, is_registered
  <2> QED
    BY <1>1, <2>1 DEF UsersBar
<1>3. CASE clients'[id].state = "Registered"
  <2>1. /\ clients'[id].nick \in Nicks
        /\ name \in NickKeys
    BY <1>3 DEF IInv, SaneClients, Sane, NickStates, NickKeys
  <2>2. RegisteredIds' = RegisteredIds \cup {id}
    BY <1>3 DEF RegisteredIds
  <2>3. \A x \in RegisteredIds : x # id => u(clients[x].nick) # name
    <3> SUFFICES ASSUME NEW x \in RegisteredIds, x # id, u(clients[x].nick) = name
                 PROVE  FALSE
      OBVIOUS
    <3>1. clients'[x] = clients[x] /\ x \in DOMAIN clients' /\ clients'[x].nick \in Nicks
      BY DEF RegisteredIds, IInv, SaneClients, Sane, NickStates
    <3>2. nicks'[u(clients'[x].nick)] = x /\ nicks'[name] = id
      BY <2>1, <3>1, FoldAssumption DEF IInv, NicksConsistent
    <3> QED
      BY <3>1, <3>2
  <2>4. UsersBar' = Put(UsersBar, id, name)
    BY <2>2 DEF UsersBar, Put, RegisteredIds
  <2>5. CASE id \in RegisteredIds
    <3>1. R!Rename(id, name)
      BY <1>1, <2>3, <2>4, <2>5 DEF R!Rename, R!Drop, R!Restrict, R!Range, R!Put, Put, UsersBar, RoomsBar
    <3> QED
      BY <1>1, <2>1, <3>1 DEF R!Next
  <2>6. CASE id \notin RegisteredIds
    <3>1. R!Register(id, name)
      BY <1>1, <2>3, <2>4, <2>6 DEF R!Register, R!Range, R!Put, Put, UsersBar, RoomsBar
    <3> QED
      BY <1>1, <2>1, <3>1 DEF R!Next
  <2> QED
    BY <2>5, <2>6
<1> QED
  BY <1>2, <1>3

\* A step that leaves the clients alone leaves the users of Rooms alone.
LEMMA SameUsers ==
    ASSUME UNCHANGED clients
    PROVE  UsersBar' = UsersBar
BY DEF UsersBar, RegisteredIds

\* Removing a client is its leaving the network, or nothing if it was not registered.
LEMMA RemovalImplements ==
    ASSUME IInv, NEW id \in DOMAIN clients, remove_client(id)
    PROVE  [R!Next]_<<UsersBar, RoomsBar>>
<1>1. id \in Ids /\ TypeOK
  BY DEF IInv, TypeOK, IsMap
<1>2. /\ DOMAIN clients' = DOMAIN clients \ {id}
      /\ \A x \in DOMAIN clients' : clients'[x] = clients[x]
  BY <1>1, RemoveFacts
<1>3. /\ RegisteredIds' = RegisteredIds \ {id}
      /\ \A x \in RegisteredIds' : clients'[x] = clients[x]
  BY <1>2 DEF RegisteredIds
<1>4. CASE ~is_registered(id)
  <2>1. channels' = channels
    BY <1>4 DEF remove_client
  <2>2. UsersBar' = UsersBar
    BY <1>3, <1>4 DEF UsersBar, RegisteredIds, is_registered
  <2> QED
    BY <2>1, <2>2 DEF RoomsBar
<1>5. CASE is_registered(id)
  <2>1. id \in RegisteredIds
    BY <1>5 DEF RegisteredIds, is_registered
  <2>2. channels' = Sweep(id)
    BY <1>5 DEF remove_client
  <2>3. DOMAIN channels' = {q \in DOMAIN channels : DOMAIN channels[q].members \ {id} # {}}
    BY <2>2 DEF Sweep
  <2>4. \A c \in DOMAIN channels' :
           DOMAIN channels'[c].members = DOMAIN channels[c].members \ {id}
    <3> SUFFICES ASSUME NEW c \in DOMAIN channels'
                 PROVE  DOMAIN channels'[c].members = DOMAIN channels[c].members \ {id}
      OBVIOUS
    <3>1. IsChannel(channels[c]) /\ channels'[c] = remove_members(channels[c], {id})
      BY <1>1, <2>2, <2>3 DEF Sweep, TypeOK
    <3> QED
      BY <3>1, RemoveMembersType
  <2>5. UsersBar' = R!Drop(UsersBar, {id})
    BY <1>3 DEF UsersBar, R!Drop, R!Restrict
  <2>6. RoomsBar' = [r \in {q \in DOMAIN RoomsBar : RoomsBar[q] \ {id} # {}} |-> RoomsBar[r] \ {id}]
    BY <2>3, <2>4 DEF RoomsBar
  <2>7. R!LeaveNetwork(id)
    BY <2>1, <2>5, <2>6 DEF R!LeaveNetwork, UsersBar, RoomsBar
  <2> QED
    BY <1>1, <2>7 DEF R!Next
<1> QED
  BY <1>4, <1>5

\* JOIN enters the channels that let its issuer in.
LEMMA JoinImplements ==
    ASSUME IInv, NEW id \in Ids, NEW list, cmd_join(id, list)
    PROVE  [R!Next]_<<UsersBar, RoomsBar>>
<1> DEFINE joined == Joinable(id, list)
<1>1. /\ id \in RegisteredIds /\ UNCHANGED clients
      /\ DOMAIN channels' = DOMAIN channels \cup joined
      /\ \A c \in DOMAIN channels \ joined : channels'[c] = channels[c]
      /\ \A c \in joined : DOMAIN channels'[c].members = Members(c) \cup {id}
  BY JoinFacts DEF RegisteredIds, is_registered, IInv
<1>2. PICK J \in SUBSET Chans : J = joined
  BY DEF Joinable
<1> HIDE DEF joined
<1>3. RoomsBar' = [c \in DOMAIN channels \cup joined |->
                      IF c \in joined THEN Members(c) \cup {id} ELSE DOMAIN channels[c].members]
  BY <1>1 DEF RoomsBar
<1>4. R!Enter(id, J)
  BY <1>1, <1>2, <1>3, SameUsers DEF R!Enter, R!Occupants, UsersBar, RoomsBar, Members
<1> QED
  BY <1>4 DEF R!Next

\* PART and JOIN 0 exit channels.
LEMMA LeaveImplements ==
    ASSUME IInv, NEW id \in Ids, NEW C \in SUBSET Chans, channels' = Leave(id, C),
           UNCHANGED clients
    PROVE  [R!Next]_<<UsersBar, RoomsBar>>
<1> DEFINE left == {c \in C : id \in Members(c)}
<1>1. /\ DOMAIN channels' \subseteq DOMAIN channels
      /\ \A c \in DOMAIN channels : c \in DOMAIN channels' <=> ~(c \in C /\ Members(c) = {id})
      /\ \A c \in DOMAIN channels' : c \in C /\ id \in Members(c) =>
            DOMAIN channels'[c].members = Members(c) \ {id}
      /\ \A c \in DOMAIN channels' : ~(c \in C /\ id \in Members(c)) => channels'[c] = channels[c]
  BY LeaveFacts DEF IInv
<1>2. \A c \in left : c \in DOMAIN channels /\ id \in DOMAIN channels[c].members
  BY DEF Members
<1>3. DOMAIN channels' = {q \in DOMAIN channels : ~(q \in left /\ DOMAIN channels[q].members = {id})}
  <2>1. \A q \in DOMAIN channels : q \in left /\ DOMAIN channels[q].members = {id}
                                      <=> q \in C /\ Members(q) = {id}
    BY DEF Members
  <2> QED
    BY <1>1, <2>1
<1>4. \A c \in DOMAIN channels' :
         DOMAIN channels'[c].members = IF c \in left THEN DOMAIN channels[c].members \ {id}
                                                     ELSE DOMAIN channels[c].members
  BY <1>1 DEF Members
<1>5. PICK L \in SUBSET Chans : L = left
  OBVIOUS
<1> HIDE DEF left
<1>6. R!Exit(id, L)
  BY <1>2, <1>3, <1>4, <1>5, SameUsers DEF R!Exit, UsersBar, RoomsBar
<1> QED
  BY <1>6 DEF R!Next

\* KICK puts clients out of a room for one of its members.
LEMMA KickImplements ==
    ASSUME IInv, NEW id \in Ids, NEW c \in Chans, NEW who, cmd_kick(id, c, who)
    PROVE  [R!Next]_<<UsersBar, RoomsBar>>
<1> DEFINE ids == {nicks[u(n)] : n \in {m \in who : find_nick(m)}}
<1>1. /\ UNCHANGED clients
      /\ c \in DOMAIN channels /\ id \in Operators(c)
      /\ DOMAIN channels' = DOMAIN channels
      /\ \A d \in DOMAIN channels : d # c => channels'[d] = channels[d]
      /\ DOMAIN channels'[c].members = Members(c) \ ids
  BY KickFacts DEF IInv
<1>2. PICK K \in SUBSET Ids : K = ids
  BY DEF IInv, TypeOK, IsMap, find_nick
<1> HIDE DEF ids
<1>3. id \in DOMAIN channels[c].members /\ Members(c) = DOMAIN channels[c].members
  BY <1>1 DEF Operators, Members
<1>4. R!PutOut(id, c, K)
  BY <1>1, <1>2, <1>3, SameUsers DEF R!PutOut, UsersBar, RoomsBar
<1> QED
  BY <1>4 DEF R!Next

\* INVITE, MODE and TOPIC are nothing to Rooms.
LEMMA OtherImplements ==
    ASSUME UNCHANGED clients, DOMAIN channels' = DOMAIN channels,
           \A c \in DOMAIN channels : DOMAIN channels'[c].members = DOMAIN channels[c].members
    PROVE  UNCHANGED <<UsersBar, RoomsBar>>
BY SameUsers DEF RoomsBar

\* Every step of the network is a step of Rooms or leaves users and rooms as they are.
LEMMA StepImplements ==
    ASSUME IInv, IInv', [Next]_vars
    PROVE  [R!Next]_<<UsersBar, RoomsBar>>
<1>0. TypeOK /\ DOMAIN clients \subseteq Ids
  BY DEF IInv, TypeOK, IsMap
<1>1. CASE UNCHANGED vars \/ rehash
  BY <1>1, OtherImplements DEF vars, rehash
<1>2. ASSUME NEW id \in Ids, peer_joined(id)
      PROVE  UNCHANGED <<UsersBar, RoomsBar>>
  <2>1. /\ DOMAIN clients' = DOMAIN clients \cup {id} /\ id \notin DOMAIN clients
        /\ clients'[id] = NewClient
        /\ \A x \in DOMAIN clients : clients'[x] = clients[x]
        /\ UNCHANGED channels
    BY <1>0, <1>2, JoinedFacts
  <2>2. NewClient.state # "Registered"
    BY DEF NewClient
  <2>3. RegisteredIds' = RegisteredIds /\ \A x \in RegisteredIds : clients'[x] = clients[x]
    BY <2>1, <2>2 DEF RegisteredIds
  <2> QED
    BY <2>1, <2>3 DEF UsersBar, RoomsBar
<1>3. ASSUME NEW id \in DOMAIN clients, remove_client(id)
      PROVE  [R!Next]_<<UsersBar, RoomsBar>>
  BY <1>3, RemovalImplements
<1>4. ASSUME NEW id \in Ids, Session(id)
      PROVE  [R!Next]_<<UsersBar, RoomsBar>>
  <2>1. CASE Update(id)
    BY <2>1, RecordImplements DEF Update
  <2>2. ASSUME NEW n \in Nicks, cmd_nick(id, n)
        PROVE  [R!Next]_<<UsersBar, RoomsBar>>
    <3>1. /\ UNCHANGED channels /\ id \in DOMAIN clients
          /\ DOMAIN clients' = DOMAIN clients
          /\ \A x \in DOMAIN clients : x # id => clients'[x] = clients[x]
          /\ is_registered(id) => clients'[id].state = "Registered"
      BY <1>0, <2>2, NickFacts
    <3> QED
      BY <3>1, RecordImplements
  <2> QED
    BY <1>0, <1>3, <1>4, <2>1, <2>2, SessionCases
<1>5. ASSUME NEW id \in Ids, NEW c, NEW x, cmd_invite(id, x, c) \/ cmd_topic_set(id, c, x)
      PROVE  UNCHANGED <<UsersBar, RoomsBar>>
  <2>1. /\ UNCHANGED clients /\ DOMAIN channels' = DOMAIN channels
        /\ \A d \in DOMAIN channels : d # c => channels'[d] = channels[d]
        /\ channels'[c].members = channels[c].members
    BY <1>0, <1>5, InviteTopicFacts
  <2> QED
    BY <2>1, OtherImplements
<1>6. ASSUME NEW id \in Ids, NEW c, NEW first \in Changes, NEW second \in Changes,
             cmd_mode_channel_set(id, c, first, second)
      PROVE  UNCHANGED <<UsersBar, RoomsBar>>
  <2>1. /\ UNCHANGED clients /\ DOMAIN channels' = DOMAIN channels
        /\ \A d \in DOMAIN channels : d # c => channels'[d] = channels[d]
        /\ c \in DOMAIN channels /\ DOMAIN channels'[c].members = Members(c)
    BY <1>0, <1>6, ModeFacts
  <2> QED
    BY <2>1, OtherImplements DEF Members
<1>7. ASSUME NEW id \in Ids, Channels(id)
      PROVE  [R!Next]_<<UsersBar, RoomsBar>>
  <2>1. ASSUME NEW C \in SUBSET Chans, cmd_part(id, C) PROVE [R!Next]_<<UsersBar, RoomsBar>>
    BY <2>1, LeaveImplements DEF cmd_part
  <2>2. CASE cmd_part_all(id)
    BY <2>2, LeaveImplements DEF cmd_part_all
  <2> QED
    BY <1>5, <1>6, <1>7, <2>1, <2>2, JoinImplements, KickImplements DEF Channels
<1>8. ASSUME NEW id \in Ids, panic(id)
      PROVE  [R!Next]_<<UsersBar, RoomsBar>>
  <2>1. CASE Update(id)
    BY <2>1, RecordImplements DEF Update
  <2> QED
    BY <1>0, <1>1, <1>7, <1>8, <2>1, PanicCases
<1> QED
  BY <1>0, <1>1, <1>2, <1>3, <1>4, <1>7, <1>8
     DEF Next, handle_message, peer_quit, remove_if_unregistered

\* Every command, removal and rehash does to names and member lists what one step of Rooms
\* may do, or nothing.
THEOREM NetworkImplementsRooms == Spec => ImplementsRooms
<1>1. Init => R!Init
  BY DEF Init, R!Init, R!EmptyMap, EmptyMap, RegisteredIds
<1>2. IInv /\ IInv' /\ [Next]_vars => [R!Next]_<<UsersBar, RoomsBar>>
  BY StepImplements
<1> QED
  BY <1>1, <1>2, Invariance, PTL DEF Spec, ImplementsRooms, R!Spec, UsersBar, RoomsBar

=============================================================================

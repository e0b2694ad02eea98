---------------------------- MODULE LayerProofs -----------------------------
(***************************************************************************)
(* Proofs about what is built on Network.  Server: the connection tasks    *)
(* only make calls of State, and no client is left without the task that   *)
(* will remove it.  Views and Delivery: what clients are shown when they   *)
(* ask, and what the messages they are sent add up to.                     *)
(***************************************************************************)
EXTENDS Server, Delivery, NetworkProofs, FunctionTheorems

-----------------------------------------------------------------------------
(* Server *)

\* A message is only handled for an id that some client has.
LEMMA HandledForClient ==
    ASSUME NEW id, handle_message(id)
    PROVE  id \in DOMAIN clients
<1>1. \A r : CanIssue(id, r) => id \in DOMAIN clients
  BY DEF CanIssue
<1>2. CASE Session(id)
  BY <1>1, <1>2 DEF Session, cmd_pass, cmd_cap_ls, cmd_cap_end, cmd_oper, cmd_user_refused,
     cmd_quit, cmd_nick, cmd_kill, cmd_user, cmd_cap_req, cmd_away, cmd_setname, cmd_mode_user_set
<1>3. CASE Channels(id)
  BY <1>1, <1>3 DEF Channels, cmd_join, cmd_part, cmd_part_all, cmd_kick, cmd_invite,
     cmd_mode_channel_set, cmd_topic_set
<1> QED
  BY <1>2, <1>3 DEF handle_message

\* A handler only panics on a message of some client.
LEMMA PanicForClient ==
    ASSUME NEW id, panic(id)
    PROVE  id \in DOMAIN clients
<1>1. \A r : MayPanic(id, r) => id \in DOMAIN clients
  BY DEF MayPanic, CanIssue
<1> QED
  BY <1>1 DEF panic, panics_before, cmd_user_panics, cmd_join_panics, cmd_mode_channel_set_panics

\* A handler that panics adds no client and removes none.
LEMMA PanicsKeepClients ==
    ASSUME TypeOK, NEW id \in Ids, panic(id)
    PROVE  DOMAIN clients' = DOMAIN clients
<1>1. UNCHANGED vars => DOMAIN clients' = DOMAIN clients
  BY DEF vars
<1>2. Update(id) \/ ChannelStep(id) => DOMAIN clients' = DOMAIN clients
  BY DEF Update, ChannelStep
<1> QED
  BY <1>1, <1>2, PanicCases, ChannelsCases

\* Every step of a task, a timer or a reload is a call of State or leaves it alone, with
\* stale ids too.
LEMMA ServerStep ==
    ASSUME TypeOK, [ServerNext]_serverVars
    PROVE  [Next]_vars
<1>1. DOMAIN clients \subseteq Ids
  BY DEF TypeOK, IsMap
<1>2. CASE UNCHANGED serverVars \/ server_rehash
  BY <1>2 DEF serverVars, server_rehash, Next
<1>3. ASSUME NEW c \in Conns, NEW id \in Ids, accept(c, id)
      PROVE  Next
  BY <1>3 DEF accept, Next
<1>4. ASSUME NEW c \in Conns, handle_buffer(c)
      PROVE  Next
  <2>1. handle_message(slot[c])
    BY <1>4 DEF handle_buffer
  <2>2. slot[c] \in Ids
    BY <1>1, <2>1, HandledForClient
  <2> QED
    BY <2>1, <2>2 DEF Next
<1>5. ASSUME NEW c \in Conns, handle_vacant(c) \/ connection_error(c) \/ queue_closed(c)
      PROVE  UNCHANGED vars
  BY <1>5 DEF handle_vacant, connection_error, queue_closed
<1>6. ASSUME NEW c \in Conns, close(c)
      PROVE  [Next]_vars
  BY <1>1, <1>6 DEF close, Next
<1>7. ASSUME NEW c \in Conns, login_timeout(c)
      PROVE  [Next]_vars
  BY <1>1, <1>7 DEF login_timeout, Next
<1>8. ASSUME NEW c \in Conns, handler_panic(c)
      PROVE  Next
  <2>1. panic(slot[c])
    BY <1>8 DEF handler_panic
  <2>2. slot[c] \in Ids
    BY <1>1, <2>1, PanicForClient
  <2> QED
    BY <2>1, <2>2 DEF Next
<1> QED
  BY <1>2, <1>3, <1>4, <1>5, <1>6, <1>7, <1>8 DEF ServerNext

\* The shared state under the connection tasks satisfies the invariant of Network.
THEOREM ServerInvariance == ServerSpec => []IInv
<1>1. ServerInit => IInv
  BY InitIInv DEF ServerInit
<1>2. IInv /\ [ServerNext]_serverVars => IInv'
  BY ServerStep, TypeStep, NicksStep, MembersStep, InvitesStep, SaneStep DEF IInv
<1> QED
  BY <1>1, <1>2, PTL DEF ServerSpec

\* The tasks take the steps of Network, by their definitions: what is proved of it holds of
\* the shared state under them.
LEMMA ServerTakesNetworkSteps == ServerSpec => Spec
<1>1. ServerInit => Init
  BY DEF ServerInit
<1>2. IInv /\ [ServerNext]_serverVars => [Next]_vars
  BY ServerStep DEF IInv
<1> QED
  BY <1>1, <1>2, ServerInvariance, PTL DEF ServerSpec, Spec

-----------------------------------------------------------------------------
(***************************************************************************)
(* No orphans.  The step of a task or timer that may remove clients drops  *)
(* their queues with them; what is left to show is that a task stops being *)
(* open or closing only when its own client is gone.                       *)
(***************************************************************************)
SInv == IInv /\ ServerTypeOK /\ NoOrphans

\* handle_message adds no client.
LEMMA HandlingAddsNobody ==
    ASSUME TypeOK, NEW id \in Ids, handle_message(id)
    PROVE  DOMAIN clients' \subseteq DOMAIN clients
<1>1. ASSUME NEW x \in DOMAIN clients, remove_client(x)
      PROVE  DOMAIN clients' \subseteq DOMAIN clients
  BY <1>1, RemoveFacts
<1>2. ASSUME NEW n \in Nicks, cmd_nick(id, n)
      PROVE  DOMAIN clients' \subseteq DOMAIN clients
  BY <1>2, NickFacts
<1>3. ASSUME Update(id) \/ ChannelStep(id)
      PROVE  DOMAIN clients' \subseteq DOMAIN clients
  BY <1>3 DEF Update, ChannelStep
<1> QED
  BY <1>1, <1>2, <1>3, SessionCases, ChannelsCases DEF handle_message

\* Dropping the queues of removed clients leaves every other queue to its connection.
LEMMA DroppedQueues ==
    ASSUME ServerTypeOK, DOMAIN clients' \subseteq DOMAIN clients, DropQueues
    PROVE  /\ IsMap(owner', Ids, Conns)
           /\ DOMAIN owner' = DOMAIN clients'
           /\ \A x \in DOMAIN clients' : x \in DOMAIN clients /\ owner'[x] = owner[x]
BY DEF ServerTypeOK, DropQueues, Restrict, IsMap

\* No task but that of c changes.
OnlyTask(c) ==
    /\ task' \in [Conns -> TaskState] /\ slot' \in [Conns -> Ids \cup {None}]
    /\ \A d \in Conns : d # c => task'[d] = task[d] /\ slot'[d] = slot[d]

\* A client of task c keeps a task that will remove it.
Kept(c, id) == task'[c] = "panicked" \/ (slot'[c] = id /\ task'[c] \in {"open", "closing"})

\* A step that adds no client, after which task c is as it should be, makes no orphan.
LEMMA TaskStep ==
    ASSUME SInv, NEW c \in Conns, DOMAIN clients' \subseteq DOMAIN clients, DropQueues,
           OnlyTask(c), timer' \subseteq Conns,
           \A id \in DOMAIN clients' : owner[id] = c => Kept(c, id)
    PROVE  (ServerTypeOK /\ NoOrphans)'
<1> USE DEF SInv, OnlyTask, Kept
<1>1. /\ IsMap(owner', Ids, Conns)
      /\ DOMAIN owner' = DOMAIN clients'
      /\ \A x \in DOMAIN clients' : x \in DOMAIN clients /\ owner'[x] = owner[x]
  BY DroppedQueues
<1>2. \A x \in DOMAIN clients : owner[x] \in Conns
  BY DEF ServerTypeOK, IsMap
<1>3. ASSUME NEW x \in DOMAIN clients'
      PROVE  \/ task'[owner'[x]] = "panicked"
             \/ slot'[owner'[x]] = x /\ task'[owner'[x]] \in {"open", "closing"}
  <2>1. CASE owner[x] = c
    BY <1>1, <1>3, <2>1
  <2>2. CASE owner[x] # c
    BY <1>1, <1>2, <1>3, <2>2 DEF NoOrphans
  <2> QED
    BY <2>1, <2>2
<1> QED
  BY <1>1, <1>3 DEF ServerTypeOK, NoOrphans

\* Every step keeps the types and makes no orphan.
LEMMA OrphansStep ==
    ASSUME SInv, [ServerNext]_serverVars
    PROVE  (ServerTypeOK /\ NoOrphans)'
<1>a. IInv /\ TypeOK /\ SaneClients /\ ServerTypeOK /\ NoOrphans
  BY DEF SInv, IInv
<1>0. /\ task \in [Conns -> TaskState] /\ slot \in [Conns -> Ids \cup {None}]
      /\ timer \subseteq Conns
      /\ DOMAIN owner = DOMAIN clients /\ DOMAIN clients \subseteq Ids
      /\ owner \in [DOMAIN clients -> Conns]
  BY <1>a DEF ServerTypeOK, IsMap
<1>1. CASE UNCHANGED serverVars
  BY <1>a, <1>1 DEF serverVars, connVars, vars, ServerTypeOK, NoOrphans
<1>2. CASE server_rehash
  BY <1>a, <1>2 DEF server_rehash, rehash, connVars, ServerTypeOK, NoOrphans
<1>3. ASSUME NEW c \in Conns, NEW id \in Ids, accept(c, id)
      PROVE  (ServerTypeOK /\ NoOrphans)'
  <2>1. DOMAIN clients' = DOMAIN clients \cup {id} /\ id \notin DOMAIN clients
    BY <1>3, <1>a, JoinedFacts DEF accept
  <2>2. IsMap(owner, Ids, Conns) /\ owner' = Put(owner, id, c)
    BY <1>a, <1>3 DEF accept, ServerTypeOK
  <2>3. /\ IsMap(owner', Ids, Conns)
        /\ DOMAIN owner' = DOMAIN owner \cup {id}
        /\ owner'[id] = c
        /\ \A x \in DOMAIN owner : x # id => owner'[x] = owner[x]
    <3>1. id \in Ids /\ c \in Conns
      BY <1>3
    <3>2. /\ IsMap(Put(owner, id, c), Ids, Conns)
          /\ DOMAIN Put(owner, id, c) = DOMAIN owner \cup {id}
          /\ Put(owner, id, c)[id] = c
          /\ \A x \in DOMAIN owner : x # id => Put(owner, id, c)[x] = owner[x]
      BY <2>2, <3>1, PutIsMap
    <3> QED
      BY <2>2, <3>2
  <2>4. \A x \in DOMAIN owner : owner[x] # c
    BY <1>3 DEF accept, Range
  <2>5. /\ task' \in [Conns -> TaskState] /\ slot' \in [Conns -> Ids \cup {None}]
        /\ timer' \subseteq Conns
        /\ task'[c] = "open" /\ slot'[c] = id
        /\ \A d \in Conns : d # c => task'[d] = task[d] /\ slot'[d] = slot[d]
    BY <1>0, <1>3 DEF accept, TaskState
  <2>6. ASSUME NEW x \in DOMAIN clients'
        PROVE  \/ task'[owner'[x]] = "panicked"
               \/ slot'[owner'[x]] = x /\ task'[owner'[x]] \in {"open", "closing"}
    <3>1. CASE x = id
      BY <2>3, <2>5, <3>1
    <3>2. CASE x # id
      BY <1>a, <1>0, <2>1, <2>3, <2>4, <2>5, <2>6, <3>2 DEF NoOrphans
    <3> QED
      BY <3>1, <3>2
  <2> QED
    BY <1>0, <2>1, <2>3, <2>5, <2>6 DEF ServerTypeOK, NoOrphans
<1>4. ASSUME NEW c \in Conns, handle_buffer(c)
      PROVE  (ServerTypeOK /\ NoOrphans)'
  <2>1. slot[c] \in DOMAIN clients /\ handle_message(slot[c])
    BY <1>4, HandledForClient DEF handle_buffer
  <2>2. DOMAIN clients' \subseteq DOMAIN clients
    BY <1>a, <1>0, <2>1, HandlingAddsNobody
  <2>3. /\ OnlyTask(c) /\ DropQueues /\ timer' \subseteq Conns
        /\ slot'[c] = slot[c] /\ task[c] = "open"
        /\ task'[c] = IF slot[c] \in DOMAIN clients' THEN "open" ELSE "muted"
    BY <1>0, <1>4 DEF handle_buffer, OnlyTask, TaskState
  <2>4. \A x \in DOMAIN clients' : owner[x] = c => Kept(c, x)
    BY <1>a, <2>2, <2>3 DEF NoOrphans, Kept
  <2> QED
    BY <2>2, <2>3, <2>4, TaskStep
<1>5. ASSUME NEW c \in Conns,
             DOMAIN clients' = DOMAIN clients, UNCHANGED <<slot, timer, owner>>,
             NEW t \in TaskState, task' = [task EXCEPT ![c] = t],
             t \in {"panicked", "closing"} \/ slot[c] \notin DOMAIN clients,
             task[c] \in {"open", "muted"}
      PROVE  (ServerTypeOK /\ NoOrphans)'
  <2>1. /\ OnlyTask(c) /\ task'[c] = t /\ slot' = slot
        /\ DOMAIN clients' = DOMAIN clients /\ timer' = timer /\ owner' = owner
    BY <1>0, <1>5 DEF OnlyTask
  <2>2. DropQueues
    BY <1>0, <2>1 DEF DropQueues, Restrict
  <2>3. \A x \in DOMAIN clients' : owner[x] = c => Kept(c, x)
    BY <1>a, <1>5, <2>1 DEF NoOrphans, Kept
  <2>4. DOMAIN clients' \subseteq DOMAIN clients /\ timer' \subseteq Conns
    BY <1>0, <2>1
  <2> QED
    BY <2>1, <2>2, <2>3, <2>4, TaskStep
<1>6. ASSUME NEW c \in Conns, handle_vacant(c)
      PROVE  (ServerTypeOK /\ NoOrphans)'
  BY <1>5, <1>6 DEF handle_vacant, TaskState, vars
<1>7. ASSUME NEW c \in Conns, handler_panic(c)
      PROVE  (ServerTypeOK /\ NoOrphans)'
  <2>1. panic(slot[c])
    BY <1>7 DEF handler_panic
  <2>2. DOMAIN clients' = DOMAIN clients
    BY <1>a, <1>0, <2>1, PanicForClient, PanicsKeepClients
  <2> QED
    BY <1>5, <1>7, <2>2 DEF handler_panic, TaskState
<1>8. ASSUME NEW c \in Conns, connection_error(c) \/ queue_closed(c)
      PROVE  (ServerTypeOK /\ NoOrphans)'
  BY <1>5, <1>8 DEF connection_error, queue_closed, TaskState, vars
<1>9. ASSUME NEW c \in Conns, close(c)
      PROVE  (ServerTypeOK /\ NoOrphans)'
  <2>1. DOMAIN clients' = DOMAIN clients \ {slot[c]}
    <3>1. CASE slot[c] \in DOMAIN clients
      BY <1>9, <3>1, <1>a, RemoveFacts DEF close, peer_quit
    <3>2. CASE slot[c] \notin DOMAIN clients
      BY <1>9, <3>2 DEF close, vars
    <3> QED
      BY <3>1, <3>2
  <2>2. OnlyTask(c) /\ DropQueues /\ timer' \subseteq Conns /\ task[c] = "closing"
    BY <1>0, <1>9 DEF close, Forget, OnlyTask, TaskState
  <2>3. \A x \in DOMAIN clients' : owner[x] = c => Kept(c, x)
    BY <1>a, <2>1, <2>2 DEF NoOrphans
  <2> QED
    BY <2>1, <2>2, <2>3, TaskStep
<1>10. ASSUME NEW c \in Conns, login_timeout(c)
       PROVE  (ServerTypeOK /\ NoOrphans)'
  <2>1. DOMAIN clients' \subseteq DOMAIN clients
    <3>1. CASE slot[c] \in DOMAIN clients /\ ~is_registered(slot[c])
      BY <1>10, <3>1, <1>a, RemoveFacts DEF login_timeout, remove_if_unregistered
    <3>2. CASE ~(slot[c] \in DOMAIN clients /\ ~is_registered(slot[c]))
      BY <1>10, <3>2 DEF login_timeout, vars
    <3> QED
      BY <3>1, <3>2
  <2>2. /\ OnlyTask(c) /\ DropQueues /\ timer' \subseteq Conns /\ task'[c] = task[c]
        /\ slot'[c] = slot[c] \/ task[c] \in {"idle", "panicked"}
    BY <1>0, <1>10 DEF login_timeout, Forget, OnlyTask
  <2>3. \A x \in DOMAIN clients' : owner[x] = c => Kept(c, x)
    BY <1>a, <2>1, <2>2 DEF NoOrphans, Kept
  <2> QED
    BY <2>1, <2>2, <2>3, TaskStep
<1> QED
  BY <1>1, <1>2, <1>3, <1>4, <1>6, <1>7, <1>8, <1>9, <1>10 DEF ServerNext

\* The tasks, timers and reloads keep the invariant, for any number of connections, ids and
\* timers, and with ids reused.
THEOREM SInvariance == ServerSpec => []SInv
<1>1. ServerInit => SInv
  <2> SUFFICES ASSUME ServerInit PROVE SInv
    OBVIOUS
  <2>1. IInv
    BY InitIInv DEF ServerInit
  <2>2. DOMAIN clients = {} /\ IsMap(owner, Ids, Conns) /\ DOMAIN owner = {}
    BY EmptyMapIsMap DEF ServerInit, Init
  <2> QED
    BY <2>1, <2>2 DEF SInv, ServerInit, ServerTypeOK, NoOrphans, TaskState
<1>2. SInv /\ [ServerNext]_serverVars => SInv'
  <2>1. IInv /\ [ServerNext]_serverVars => IInv'
    BY ServerStep, TypeStep, NicksStep, MembersStep, InvitesStep, SaneStep DEF IInv
  <2> QED
    BY <2>1, OrphansStep DEF SInv
<1> QED
  BY <1>1, <1>2, PTL DEF ServerSpec

\* Every queue belongs to a client and to the connection it was made for.
THEOREM ServerTypeCorrect == ServerSpec => []ServerTypeOK
<1>1. SInv => ServerTypeOK
  BY DEF SInv
<1> QED
  BY <1>1, SInvariance, PTL

\* Every client has a task that will remove it, unless that task panicked.
THEOREM NobodyOrphaned == ServerSpec => []NoOrphans
<1>1. SInv => NoOrphans
  BY DEF SInv
<1> QED
  BY <1>1, SInvariance, PTL

\* The rules on ranks, entry and empty channels, and the abstract rooms, hold of the shared
\* state whatever the tasks, timers and stale ids do.
THEOREM ServerKeepsRules ==
    ServerSpec => OperatorsFromOperators /\ EntryControlled /\ EmptiedOnlyByKick /\ ImplementsRooms
  BY ServerTakesNetworkSteps, OperatorsMadeByOperators, EntryStaysControlled, EmptiedByKick,
     NetworkImplementsRooms, PTL

-----------------------------------------------------------------------------
(* Views and Delivery *)

\* A registered client is found under its nickname.
LEMMA Found ==
    ASSUME IInv, NEW m \in RegisteredIds
    PROVE  /\ m \in DOMAIN clients /\ is_registered(m)
           /\ clients[m].nick \in Nicks /\ nick(m) \in NickKeys
           /\ nick(m) \in DOMAIN nicks /\ nicks[nick(m)] = m
           /\ find_nick(clients[m].nick)
<1>1. m \in DOMAIN clients /\ is_registered(m)
  BY DEF RegisteredIds, is_registered
<1>2. clients[m].nick \in Nicks /\ nick(m) \in NickKeys
  BY <1>1 DEF IInv, SaneClients, Sane, NickStates, is_registered, NickKeys, nick
<1>3. nick(m) \in DOMAIN nicks /\ nicks[nick(m)] = m
  BY <1>1, <1>2, FoldAssumption DEF IInv, NicksConsistent, nick
<1> QED
  BY <1>1, <1>2, <1>3 DEF find_nick, nick

\* Registered clients have different nicknames, case aside.
LEMMA NicksDiffer ==
    ASSUME IInv, NEW m \in RegisteredIds, NEW n \in RegisteredIds, nick(m) = nick(n)
    PROVE  m = n
BY Found

\* Members of channels are registered.
LEMMA MembersAreRegistered ==
    ASSUME IInv, NEW c, NEW m \in Members(c)
    PROVE  m \in RegisteredIds
BY DEF IInv, MembersRegistered, Members, RegisteredIds, is_registered

-----------------------------------------------------------------------------
(* Views *)

\* WHO <nick> shows the client that has the nickname.
LEMMA WhoUserIs ==
    ASSUME IInv, NEW m \in RegisteredIds, NEW id, NEW f
    PROVE  cmd_who_user(id, clients[m].nick, f) = who_user(id, m, f)
BY Found DEF cmd_who_user, nick

\* WHO <nick> finds whom it should, and WHOIS agrees with it.
THEOREM WhoFindsWhomItShould == Spec => []WhoFinds
<1>1. IInv => WhoFinds
  <2> SUFFICES ASSUME IInv, NEW id \in Viewers, NEW m \in Viewers
               PROVE  LET lines == cmd_who_user(id, clients[m].nick, FALSE)
                      IN  /\ lines # {} <=>
                               \/ id = m \/ IsOper(id) \/ "invisible" \notin clients[m].flags
                               \/ \E c \in DOMAIN channels : {id, m} \subseteq DOMAIN channels[c].members
                          /\ \A l \in lines : \E w \in cmd_whois(l.nick) :
                               w[1] = l.nick /\ (l.away <=> w[4] # None)
    BY DEF WhoFinds
  <2> DEFINE lines == who_user(id, m, FALSE)
  <2>1. cmd_who_user(id, clients[m].nick, FALSE) = lines
    BY WhoUserIs DEF Viewers
  <2>2. is_registered(m) /\ find_nick(clients[m].nick) /\ nicks[u(clients[m].nick)] = m
    BY Found DEF Viewers, nick
  <2>3. WhoChannels(id, m) # {} => lines # {}
    BY <2>2 DEF who_user
  <2>4. WhoChannels(id, m) = {} =>
           (lines # {} <=> \/ "invisible" \notin clients[m].flags \/ m = id \/ IsOper(id))
    BY <2>2 DEF who_user
  <2>5. WhoChannels(id, m) # {} =>
           \/ id = m \/ IsOper(id) \/ "invisible" \notin clients[m].flags
           \/ \E c \in DOMAIN channels : {id, m} \subseteq DOMAIN channels[c].members
    BY DEF WhoChannels, IsMember
  <2>6. (\E c \in DOMAIN channels : {id, m} \subseteq DOMAIN channels[c].members)
           => WhoChannels(id, m) # {}
    BY DEF WhoChannels, IsMember
  <2>7. \A l \in lines : l.nick = clients[m].nick /\ (l.away <=> clients[m].away_message # None)
    <3>1. \A l \in lines : \E c, modes : l = who_line(id, m, c, modes)
      BY DEF who_user
    <3>2. \A c, modes : /\ who_line(id, m, c, modes).nick = clients[m].nick
                        /\ who_line(id, m, c, modes).away <=> clients[m].away_message # None
      BY Zenon DEF who_line
    <3> SUFFICES ASSUME NEW l \in lines
                 PROVE  l.nick = clients[m].nick /\ (l.away <=> clients[m].away_message # None)
      OBVIOUS
    <3>3. PICK c, modes : l = who_line(id, m, c, modes)
      BY <3>1
    <3> QED
      BY <3>2, <3>3, Zenon
  <2>8. \E w \in cmd_whois(clients[m].nick) :
           w[1] = clients[m].nick /\ w[4] = clients[m].away_message
    BY <2>2 DEF cmd_whois
  <2> HIDE DEF lines
  <2> QED
    BY <2>1, <2>3, <2>4, <2>5, <2>6, <2>7, <2>8
<1> QED
  BY <1>1, Invariance, PTL

\* A line of WHO names the channel and the client it is about.
LEMMA WhoLineFields ==
    ASSUME NEW id, NEW m, NEW c, NEW modes
    PROVE  who_line(id, m, c, modes).channel = c
BY Zenon DEF who_line

\* WHO <nick> shows a client on a channel exactly if that channel may go with it.
LEMMA WhoUserOnChannel ==
    ASSUME NEW id, NEW m, NEW f, NEW c \in Chans, NEW l
    PROVE  l \in who_user(id, m, f) /\ l.channel = c
              <=> /\ f => IsOper(m)
                  /\ is_registered(m)
                  /\ c \in WhoChannels(id, m)
                  /\ l = who_line(id, m, c, channels[c].members[m])
<1>1. ASSUME l \in who_user(id, m, f), l.channel = c
      PROVE  /\ f => IsOper(m)
             /\ is_registered(m)
             /\ c \in WhoChannels(id, m)
             /\ l = who_line(id, m, c, channels[c].members[m])
  <2>1. /\ f => IsOper(m)
        /\ is_registered(m)
    BY <1>1 DEF who_user
  <2>2. \/ \E d \in WhoChannels(id, m) : l = who_line(id, m, d, channels[d].members[m])
        \/ l = who_line(id, m, Star, {})
    BY <1>1 DEF who_user
  <2> QED
    BY <1>1, <2>1, <2>2, WhoLineFields, ChansAssumption
<1>2. ASSUME f => IsOper(m), is_registered(m), c \in WhoChannels(id, m),
             l = who_line(id, m, c, channels[c].members[m])
      PROVE  l \in who_user(id, m, f) /\ l.channel = c
  BY <1>2, WhoLineFields DEF who_user
<1> QED
  BY <1>1, <1>2

\* WHO <channel> shows the members that may be shown there.
LEMMA WhoChannelIs ==
    ASSUME NEW id, NEW f, NEW c, NEW l
    PROVE  l \in cmd_who_channel(id, c, f)
              <=> \E m \in Members(c) :
                     /\ f => IsOper(m)
                     /\ c \in WhoChannels(id, m)
                     /\ l = who_line(id, m, c, channels[c].members[m])
<1>1. CASE c \notin DOMAIN channels
  BY <1>1 DEF cmd_who_channel, Members
<1>2. CASE c \in DOMAIN channels
  <2>1. \A m \in DOMAIN channels[c].members :
           c \in WhoChannels(id, m) <=>
              /\ IsSecret(c) => IsMember(id, c) \/ IsOper(id)
              /\ \/ IsOper(id) \/ IsMember(id, c) \/ m = id
                 \/ "invisible" \notin clients[m].flags
    BY <1>2 DEF WhoChannels, IsMember
  <2>2. l \in cmd_who_channel(id, c, f)
           <=> \E m \in DOMAIN channels[c].members :
                  /\ f => IsOper(m)
                  /\ IsSecret(c) => IsMember(id, c) \/ IsOper(id)
                  /\ \/ IsOper(id) \/ IsMember(id, c) \/ m = id
                     \/ "invisible" \notin clients[m].flags
                  /\ l = who_line(id, m, c, channels[c].members[m])
    BY <1>2 DEF cmd_who_channel
  <2> QED
    BY <1>2, <2>1, <2>2 DEF Members
<1> QED
  BY <1>1, <1>2

\* Together, WHO <nick> for every nickname shows every registered client that may be shown.
LEMMA WhoFoundIs ==
    ASSUME IInv, NEW id, NEW f, NEW l
    PROVE  l \in UNION {cmd_who_user(id, n, f) : n \in Nicks}
              <=> \E m \in RegisteredIds : l \in who_user(id, m, f)
<1>1. ASSUME NEW m \in RegisteredIds, l \in who_user(id, m, f)
      PROVE  \E n \in Nicks : l \in cmd_who_user(id, n, f)
  BY <1>1, Found, WhoUserIs
<1>2. ASSUME NEW n \in Nicks, l \in cmd_who_user(id, n, f)
      PROVE  \E m \in RegisteredIds : l \in who_user(id, m, f)
  <2>1. l \in who_user(id, nicks[u(n)], f)
    BY <1>2 DEF cmd_who_user
  <2>2. is_registered(nicks[u(n)])
    BY <2>1 DEF who_user
  <2> QED
    BY <2>1, <2>2 DEF is_registered, RegisteredIds
<1> QED
  BY <1>1, <1>2

\* The forms of WHO agree on who is seen where.
THEOREM WhoFormsAgree == Spec => []WhoAgrees
<1>1. IInv => WhoAgrees
  <2> SUFFICES ASSUME IInv, NEW id \in Viewers, NEW f \in BOOLEAN
               PROVE  LET found == UNION {cmd_who_user(id, n, f) : n \in Nicks}
                      IN  /\ \A c \in Chans : cmd_who_channel(id, c, f) = {l \in found : l.channel = c}
                          /\ IsOper(id) => /\ UNION cmd_who_mask(id, NickKeys, f) = found
                                           /\ cmd_who_mask_channels(id, Chans) =
                                                 UNION {cmd_who_channel(id, c, FALSE) : c \in Chans}
    BY Zenon DEF WhoAgrees
  <2> DEFINE found == UNION {cmd_who_user(id, n, f) : n \in Nicks}
  <2>1. ASSUME NEW c \in Chans
        PROVE  cmd_who_channel(id, c, f) = {l \in found : l.channel = c}
    <3> SUFFICES ASSUME NEW l
                 PROVE  l \in cmd_who_channel(id, c, f) <=> l \in found /\ l.channel = c
      OBVIOUS
    <3>1. l \in found <=> \E m \in RegisteredIds : l \in who_user(id, m, f)
      BY WhoFoundIs
    <3> HIDE DEF found
    <3>2. ASSUME l \in found, l.channel = c
          PROVE  l \in cmd_who_channel(id, c, f)
      <4>1. PICK m \in RegisteredIds : l \in who_user(id, m, f)
        BY <3>1, <3>2
      <4>2. /\ f => IsOper(m)
            /\ c \in WhoChannels(id, m)
            /\ l = who_line(id, m, c, channels[c].members[m])
        BY <3>2, <4>1, WhoUserOnChannel
      <4>3. m \in Members(c)
        BY <4>2 DEF WhoChannels, IsMember, Members
      <4> QED
        BY <4>2, <4>3, WhoChannelIs
    <3>3. ASSUME l \in cmd_who_channel(id, c, f)
          PROVE  l \in found /\ l.channel = c
      <4>1. PICK m \in Members(c) : /\ f => IsOper(m)
                                    /\ c \in WhoChannels(id, m)
                                    /\ l = who_line(id, m, c, channels[c].members[m])
        BY <3>3, WhoChannelIs
      <4>2. m \in RegisteredIds /\ is_registered(m)
        BY <4>1, MembersAreRegistered, Found
      <4>3. l \in who_user(id, m, f) /\ l.channel = c
        BY <4>1, <4>2, WhoUserOnChannel
      <4> QED
        BY <3>1, <4>2, <4>3
    <3> QED
      BY <3>2, <3>3
  <2>2. ASSUME IsOper(id)
        PROVE  UNION cmd_who_mask(id, NickKeys, f) = found
    <3>1. ASSUME NEW l, NEW k \in DOMAIN nicks, l \in who_user(id, nicks[k], f)
          PROVE  \E m \in RegisteredIds : l \in who_user(id, m, f)
      <4>1. is_registered(nicks[k])
        BY <3>1 DEF who_user
      <4> QED
        BY <3>1, <4>1 DEF is_registered, RegisteredIds
    <3>2. ASSUME NEW l, NEW m \in RegisteredIds, l \in who_user(id, m, f)
          PROVE  \E k \in DOMAIN nicks \cap NickKeys : l \in who_user(id, nicks[k], f)
      BY <3>2, Found
    <3>3. UNION cmd_who_mask(id, NickKeys, f)
             = UNION {who_user(id, nicks[k], f) : k \in DOMAIN nicks \cap NickKeys}
      BY <2>2 DEF cmd_who_mask
    <3>4. \A l : l \in UNION cmd_who_mask(id, NickKeys, f)
                    <=> \E k \in DOMAIN nicks \cap NickKeys : l \in who_user(id, nicks[k], f)
      BY <3>3, Zenon
    <3>5. \A l : l \in UNION cmd_who_mask(id, NickKeys, f) <=> l \in found
      BY <3>1, <3>2, <3>4, WhoFoundIs, Zenon
    <3> QED
      BY <3>5, Zenon
  <2>3. ASSUME IsOper(id)
        PROVE  cmd_who_mask_channels(id, Chans)
                  = UNION {cmd_who_channel(id, c, FALSE) : c \in Chans}
    <3> SUFFICES ASSUME NEW l
                 PROVE  l \in cmd_who_mask_channels(id, Chans)
                           <=> \E c \in Chans : l \in cmd_who_channel(id, c, FALSE)
      OBVIOUS
    <3>1. l \in cmd_who_mask_channels(id, Chans)
             <=> \E c \in DOMAIN channels \cap Chans : \E m \in DOMAIN channels[c].members :
                    l = who_line(id, m, c, channels[c].members[m])
      BY <2>3 DEF cmd_who_mask_channels
    <3>2. ASSUME NEW c
          PROVE  l \in cmd_who_channel(id, c, FALSE)
                    <=> \E m \in Members(c) : l = who_line(id, m, c, channels[c].members[m])
      <4>1. \A m \in Members(c) : c \in WhoChannels(id, m)
        BY <2>3 DEF WhoChannels, IsMember, Members
      <4>2. PICK g \in BOOLEAN : g = FALSE
        OBVIOUS
      <4>3. l \in cmd_who_channel(id, c, g)
               <=> \E m \in Members(c) : /\ g => IsOper(m)
                                         /\ c \in WhoChannels(id, m)
                                         /\ l = who_line(id, m, c, channels[c].members[m])
        BY WhoChannelIs
      <4>4. l \in cmd_who_channel(id, c, g)
               <=> \E m \in Members(c) : l = who_line(id, m, c, channels[c].members[m])
        BY <4>1, <4>2, <4>3
      <4> QED
        BY <4>2, <4>4, Zenon
    <3> QED
      BY <3>1, <3>2 DEF Members
  <2> HIDE DEF found
  <2> QED
    BY <2>1, <2>2, <2>3, Zenon DEF found
<1> QED
  BY <1>1, Invariance, PTL

\* A list that names each of finitely many things once has as many entries as there are.
LEMMA SameNumber ==
    ASSUME NEW f, f \in [DOMAIN f -> Range(f)], IsFiniteSet(DOMAIN f),
           \A x, y \in DOMAIN f : f[x] = f[y] => x = y
    PROVE  Cardinality(Range(f)) = Cardinality(DOMAIN f)
<1>1. f \in Injection(DOMAIN f, Range(f))
  BY Fun_IsInj
<1>2. f \in Bijection(DOMAIN f, Range(f))
  BY <1>1, Fun_IsBij DEF Range
<1> QED
  BY <1>2, FS_Bijection, Fun_ExistsBij

\* NAMES of a channel that the client may see has a name for each of its members.
LEMMA NamesCount ==
    ASSUME AccessInv, NEW id, NEW c \in DOMAIN channels, IsSecret(c) => IsMember(id, c)
    PROVE  Cardinality(send_names(id, c)) = Cardinality(DOMAIN channels[c].members)
<1> DEFINE M == DOMAIN channels[c].members
           f == [m \in M |-> <<clients[m].nick, Shown(id, channels[c].members[m])>>]
<1>1. DOMAIN f = M /\ Range(f) = send_names(id, c) /\ f \in [DOMAIN f -> Range(f)]
  BY DEF Range, send_names
<1>2. IsFiniteSet(M)
  BY DEF AccessInv, FiniteMembers
<1>3. ASSUME NEW x \in M, NEW y \in M, f[x] = f[y]
      PROVE  x = y
  <2>1. clients[x].nick = clients[y].nick
    BY <1>3
  <2>2. x \in RegisteredIds /\ y \in RegisteredIds
    BY MembersAreRegistered DEF AccessInv, Members
  <2> QED
    BY <2>1, <2>2, NicksDiffer DEF AccessInv, nick
<1> HIDE DEF f, M
<1>4. Cardinality(Range(f)) = Cardinality(DOMAIN f)
  BY <1>1, <1>2, <1>3, SameNumber
<1> QED
  BY <1>1, <1>4 DEF M

\* LIST, LUSERS, NAMES and TOPIC agree on the channels there are for a client.
THEOREM ListsAgree == Spec => []ListAgrees
<1>1. AccessInv => ListAgrees
  <2> SUFFICES ASSUME AccessInv, NEW id \in Viewers, ~IsOper(id)
               PROVE  /\ cmd_lusers(id).channels = Cardinality(cmd_list(id, Chans))
                      /\ \A l \in cmd_list(id, Chans) :
                            /\ l[2] = Cardinality(send_names(id, l[1]))
                            /\ cmd_topic_get(id, l[1]) = {l[3]}
                      /\ \A c \in Chans : send_names(id, c) # {}
                            => \E l \in cmd_list(id, Chans) : l[1] = c
    BY DEF ListAgrees
  <2> DEFINE S == {c \in DOMAIN channels : IsSecret(c) => IsMember(id, c)}
             f == [c \in S |-> <<c, Cardinality(DOMAIN channels[c].members), channels[c].topic>>]
  <2>1. DOMAIN channels \subseteq Chans
    BY DEF AccessInv, IInv, TypeOK, IsMap
  <2>2. {d \in Chans \cap DOMAIN channels : IsSecret(d) => IsOper(id) \/ IsMember(id, d)} = S
    BY <2>1
  <2>3. cmd_list(id, Chans) = {f[c] : c \in S}
    BY <2>2 DEF cmd_list
  <2>4. cmd_lusers(id).channels = Cardinality(cmd_list(id, Chans))
    <3>1. cmd_lusers(id).channels = Cardinality(S)
      BY DEF cmd_lusers
    <3>2. DOMAIN f = S /\ Range(f) = cmd_list(id, Chans) /\ f \in [DOMAIN f -> Range(f)]
      BY <2>3 DEF Range
    <3>3. IsFiniteSet(S)
      BY <2>1, ChansAssumption, FS_Subset
    <3>4. \A x, y \in S : f[x] = f[y] => x = y
      OBVIOUS
    <3> HIDE DEF f, S
    <3>5. Cardinality(Range(f)) = Cardinality(DOMAIN f)
      BY <3>2, <3>3, <3>4, SameNumber
    <3> QED
      BY <3>1, <3>2, <3>5
  <2>5. ASSUME NEW l \in cmd_list(id, Chans)
        PROVE  /\ l[2] = Cardinality(send_names(id, l[1]))
               /\ cmd_topic_get(id, l[1]) = {l[3]}
    <3>1. PICK c \in S : l = <<c, Cardinality(DOMAIN channels[c].members), channels[c].topic>>
      BY <2>3, <2>5
    <3>2. Cardinality(send_names(id, c)) = Cardinality(DOMAIN channels[c].members)
      BY NamesCount
    <3>3. cmd_topic_get(id, c) = {channels[c].topic}
      BY DEF cmd_topic_get
    <3> QED
      BY <3>1, <3>2, <3>3
  <2>6. ASSUME NEW c \in Chans, send_names(id, c) # {}
        PROVE  \E l \in cmd_list(id, Chans) : l[1] = c
    <3>1. c \in S
      BY <2>6 DEF send_names
    <3>2. f[c] \in cmd_list(id, Chans) /\ f[c][1] = c
      BY <2>3, <3>1
    <3> QED
      BY <3>2
  <2> HIDE DEF S, f
  <2> QED
    BY <2>4, <2>5, <2>6
<1> QED
  BY <1>1, AccessInvariance, PTL

-----------------------------------------------------------------------------
(***************************************************************************)
(* What the messages add up to.  Told of a channel rightly means that the  *)
(* names, the operators, the topic and the key known are those it has; the *)
(* operators and the key, unless a change of them was missed.              *)
(***************************************************************************)
KeyFits(told, key) ==
    IF told = None THEN key = None ELSE key \in {told, Truncate[told]} \ {None}

Pictures(v, names, ops, topic, key) ==
    /\ v \in View
    /\ v.names = names /\ v.topic = topic
    /\ "ChangeOperator" \notin v.missed => v.ops = ops
    /\ "Key" \notin v.missed => KeyFits(v.key, key)

NamesOf(S) == {nick(m) : m \in S}

Informed(i, c) ==
    /\ c \in DOMAIN seen[i]
    /\ Pictures(seen[i][c], NamesOf(Members(c)), NamesOf(Operators(c)),
                channels[c].topic, channels[c].key)

\* The inductive invariant: every member of a channel was told of it rightly.
Accurate == \A c \in DOMAIN channels : \A i \in Members(c) \cap DOMAIN seen : Informed(i, c)

DInv == AccessInv /\ DOMAIN seen \subseteq DOMAIN clients /\ Accurate

\* A view is not Stale.
LEMMA ViewIsFresh ==
    ASSUME NEW v, NEW N, NEW O, NEW t, NEW k, Pictures(v, N, O, t, k)
    PROVE  v # Stale
BY ViewAssumption DEF Pictures, Stale

\* Being told that some are gone.
LEMMA PicturesWithout ==
    ASSUME NEW v, NEW N, NEW O, NEW t, NEW k, Pictures(v, N, O, t, k), NEW K
    PROVE  Pictures(Without(v, K), N \ K, O \ K, t, k)
BY DEF Pictures, View, Without

\* Being told of a new name for one.
LEMMA PicturesRenamed ==
    ASSUME NEW v, NEW N, NEW O, NEW t, NEW k, Pictures(v, N, O, t, k), NEW a, NEW b \in NickKeys
    PROVE  Pictures([v EXCEPT !.names = Renamed(@, a, b), !.ops = Renamed(@, a, b)],
                    Renamed(N, a, b), Renamed(O, a, b), t, k)
BY DEF Pictures, View, Renamed

\* Being told that one came, without a rank.
LEMMA PicturesJoined ==
    ASSUME NEW v, NEW N, NEW O, NEW t, NEW k, Pictures(v, N, O, t, k), NEW n \in NickKeys
    PROVE  Pictures([v EXCEPT !.names = @ \cup {n}], N \cup {n}, O, t, k)
BY DEF Pictures, View

\* Being told of another topic.
LEMMA PicturesTopic ==
    ASSUME NEW v, NEW N, NEW O, NEW t, NEW k, Pictures(v, N, O, t, k), NEW x \in Topics \cup {None}
    PROVE  Pictures([v EXCEPT !.topic = x], N, O, x, k)
BY DEF Pictures, View

\* Missing the notice of changes.
LEMMA PicturesMissed ==
    ASSUME NEW v, NEW N, NEW O, NEW t, NEW k, Pictures(v, N, O, t, k), NEW P, NEW l,
           NEW S, S \subseteq {"ChangeOperator", "Key"},
           "ChangeOperator" \notin S => P = O, "Key" \notin S => l = k
    PROVE  Pictures([v EXCEPT !.missed = @ \cup S], N, P, t, l)
BY DEF Pictures, View

\* Told rightly means what MembersSeeChannel says.
LEMMA AccurateIsSeeing ==
    ASSUME DInv
    PROVE  MembersSeeChannel
<1> SUFFICES ASSUME NEW c \in DOMAIN channels, NEW id \in Members(c) \cap DOMAIN seen
             PROVE  /\ c \in DOMAIN seen[id] /\ seen[id][c] # Stale
                    /\ LET v  == seen[id][c]
                           ch == channels[c]
                       IN  /\ v.names = {nick(m) : m \in Members(c)}
                           /\ v.topic = ch.topic
                           /\ "ChangeOperator" \notin v.missed =>
                                 v.ops = {nick(m) : m \in Operators(c)}
                           /\ "Key" \notin v.missed => \A q \in cmd_mode_channel_get(id, c) :
                                 IF v.key = None THEN q.key = None
                                    ELSE q.key \in {v.key, Truncate[v.key]} \ {None}
  BY DEF MembersSeeChannel
<1>1. /\ c \in DOMAIN seen[id]
      /\ Pictures(seen[id][c], NamesOf(Members(c)), NamesOf(Operators(c)),
                  channels[c].topic, channels[c].key)
  BY DEF DInv, Accurate, Informed
<1>2. seen[id][c] # Stale
  BY <1>1, ViewIsFresh
<1>3. \A q \in cmd_mode_channel_get(id, c) : q.key = channels[c].key
  BY DEF cmd_mode_channel_get, Members, IsMember
<1> QED
  BY <1>1, <1>2, <1>3 DEF Pictures, KeyFits, NamesOf

-----------------------------------------------------------------------------
(* The steps of Delivery *)

\* Delivery adds messages to the steps of Network and changes none of them.
LEMMA DeliveryStep ==
    ASSUME [DNext]_dvars
    PROVE  [Next]_vars
<1>1. ASSUME NEW id \in Ids, DeliverRemoval(id)
      PROVE  Next
  BY <1>1 DEF DeliverRemoval, Next, handle_message, Session
<1>2. ASSUME NEW id \in Ids, Quiet(id)
      PROVE  Next
  BY <1>2 DEF Quiet, Next, handle_message, Session, Channels
<1>3. ASSUME NEW id \in Ids, NEW n \in Nicks, cmd_nick(id, n)
      PROVE  Next
  BY <1>3 DEF Next, handle_message, Session
<1>4. ASSUME NEW id \in Ids, Channels(id)
      PROVE  Next
  BY <1>4 DEF Next, handle_message
<1>5. CASE UNCHANGED dvars
  BY <1>5 DEF dvars, vars
<1>7. ASSUME NEW id \in Ids, DeliverPanic(id)
      PROVE  Next
  <2>1. panic(id)
    BY <1>7 DEF DeliverPanic, DeliverJoinPanics, DeliverModePanics, panic
  <2> QED
    BY <2>1 DEF Next
<1>6. CASE DNext
  <2>1. CASE rehash \/ \E id \in Ids : peer_joined(id)
    BY <2>1 DEF Next
  <2>2. CASE \E id \in Ids : DeliverRemoval(id) \/ Quiet(id) \/ \E n \in Nicks : DeliverNick(id, n)
    BY <1>1, <1>2, <1>3, <2>2 DEF DeliverNick
  <2>3. CASE \E id \in Ids :
                \/ \E list \in SUBSET (Chans \X (ChanKeys \cup {None})) : DeliverJoin(id, list)
                \/ \E C \in SUBSET Chans : cmd_part(id, C)
                \/ cmd_part_all(id)
                \/ \E c \in Chans :
                      \/ \E who \in SUBSET Nicks : DeliverKick(id, c, who)
                      \/ \E first, second \in Changes : DeliverMode(id, c, first, second)
                      \/ \E topic \in Topics \cup {None} : DeliverTopic(id, c, topic)
    BY <1>4, <2>3 DEF Channels, DeliverJoin, DeliverKick, DeliverMode, DeliverTopic
  <2> QED
    BY <1>6, <1>7, <2>1, <2>2, <2>3 DEF DNext
<1> QED
  BY <1>5, <1>6

\* The steps by what clients are told.
LEMMA DeliveryCases ==
    ASSUME TypeOK, [DNext]_dvars
    PROVE  \/ UNCHANGED dvars
           \/ rehash /\ UNCHANGED seen
           \/ \E id \in Ids : peer_joined(id) /\ seen' = Put(seen, id, EmptyMap)
           \/ \E id \in DOMAIN clients : remove_client(id) /\ TellQuit(id)
           \/ \E id \in Ids : Update(id) /\ UNCHANGED seen
           \/ \E id, n, c : cmd_invite(id, n, c) /\ UNCHANGED seen
           \/ \E id \in Ids, n \in Nicks : DeliverNick(id, n)
           \/ \E id \in Ids : \E list : DeliverJoin(id, list)
           \/ \E id \in Ids : \E C : /\ channels' = Leave(id, C) /\ UNCHANGED <<clients, nicks, config>>
                                     /\ is_registered(id) /\ TellPart(id, C)
           \/ \E id, c, who : DeliverKick(id, c, who)
           \/ \E id, c : \E first, second \in Changes : DeliverMode(id, c, first, second)
           \/ \E id, c : \E topic \in Topics \cup {None} : DeliverTopic(id, c, topic)
           \/ \E id \in Ids : (UNCHANGED vars \/ Update(id)) /\ seen' = Drop(seen, {id})
           \/ \E id \in Ids : \E done, p : DeliverJoinPanics(id, done, p)
           \/ \E id, c : \E done, change \in Changes : DeliverModePanics(id, c, done, change)
<1>1. ASSUME NEW id \in Ids, DeliverRemoval(id)
      PROVE  \E x \in DOMAIN clients : remove_client(x) /\ TellQuit(x)
  <2>1. CASE /\ \/ peer_quit(id) \/ remove_if_unregistered(id) \/ cmd_user_refused(id)
                \/ cmd_quit(id)
             /\ TellQuit(id)
    BY <2>1 DEF peer_quit, remove_if_unregistered, cmd_user_refused, cmd_quit, CanIssue
  <2>2. ASSUME NEW n \in Nicks, cmd_kill(id, n), TellQuit(nicks[u(n)])
        PROVE  \E x \in DOMAIN clients : remove_client(x) /\ TellQuit(x)
    <3>1. nicks[u(n)] \in DOMAIN clients /\ remove_client(nicks[u(n)])
      BY <2>2 DEF cmd_kill, find_nick, is_registered
    <3> QED
      BY <2>2, <3>1
  <2> QED
    BY <1>1, <2>1, <2>2 DEF DeliverRemoval
<1>2. ASSUME NEW id \in Ids, Quiet(id)
      PROVE  Update(id) \/ \E n, c : cmd_invite(id, n, c)
  BY <1>2, UpdateCases DEF Quiet, Updates
<1>3. ASSUME NEW id \in Ids, NEW C, cmd_part(id, C)
      PROVE  /\ channels' = Leave(id, C) /\ UNCHANGED <<clients, nicks, config>>
             /\ is_registered(id)
  BY <1>3, LateRequest DEF cmd_part, EarlyRequests
<1>4. ASSUME NEW id \in Ids, cmd_part_all(id)
      PROVE  /\ channels' = Leave(id, Chans) /\ UNCHANGED <<clients, nicks, config>>
             /\ is_registered(id)
  BY <1>4, LateRequest DEF cmd_part_all, EarlyRequests
<1>5. ASSUME NEW id \in Ids, DeliverPanic(id)
      PROVE  \/ (UNCHANGED vars \/ Update(id)) /\ seen' = Drop(seen, {id})
             \/ \E done, p : DeliverJoinPanics(id, done, p)
             \/ \E c : \E done, change \in Changes : DeliverModePanics(id, c, done, change)
  <2>1. panics_before(id) => UNCHANGED vars
    BY DEF panics_before
  <2>2. \A usr \in Users : cmd_user_panics(id, usr) => Update(id)
    BY UserPanicUpdates
  <2> QED
    BY <1>5, <2>1, <2>2 DEF DeliverPanic
<1> QED
  BY <1>1, <1>2, <1>3, <1>4, <1>5 DEF DNext

-----------------------------------------------------------------------------
(* How a member stays informed of one channel *)

\* Nothing changes on the channel and the member is told nothing.
LEMMA StaysInformed ==
    ASSUME NEW c \in DOMAIN channels, NEW i \in Members(c), Informed(i, c),
           c \in DOMAIN channels', channels'[c].members = channels[c].members,
           channels'[c].topic = channels[c].topic, channels'[c].key = channels[c].key,
           \A m \in Members(c) : clients'[m].nick = clients[m].nick,
           c \in DOMAIN seen'[i], seen'[i][c] = seen[i][c]
    PROVE  Informed(i, c)'
<1>1. Members(c)' = Members(c)
  BY DEF Members
<1>2. Operators(c)' = Operators(c)
  BY <1>1 DEF Operators
<1>3. NamesOf(Members(c))' = NamesOf(Members(c))
  BY <1>1 DEF NamesOf, nick
<1>4. NamesOf(Operators(c))' = NamesOf(Operators(c))
  BY <1>2 DEF NamesOf, nick, Operators
<1> QED
  BY <1>3, <1>4 DEF Informed

\* Clients leave the channel and the member is told their names.
LEMMA HearsOfLeavers ==
    ASSUME NEW c \in DOMAIN channels, NEW i \in Members(c), Informed(i, c), NEW ids, NEW K,
           \A m \in Members(c) : nick(m) \in K <=> m \in ids,
           c \in DOMAIN channels', DOMAIN channels'[c].members = Members(c) \ ids,
           \A m \in Members(c) \ ids : channels'[c].members[m] = channels[c].members[m],
           channels'[c].topic = channels[c].topic, channels'[c].key = channels[c].key,
           \A m \in Members(c) \ ids : clients'[m].nick = clients[m].nick,
           c \in DOMAIN seen'[i], seen'[i][c] = Without(seen[i][c], K)
    PROVE  Informed(i, c)'
<1>1. Members(c)' = Members(c) \ ids
  BY DEF Members
<1>2. Operators(c)' = Operators(c) \ ids
  BY <1>1 DEF Operators
<1>3. NamesOf(Members(c))' = NamesOf(Members(c)) \ K
  BY <1>1 DEF NamesOf, nick
<1>4. NamesOf(Operators(c))' = NamesOf(Operators(c)) \ K
  BY <1>2 DEF NamesOf, nick, Operators
<1>5. Pictures(Without(seen[i][c], K), NamesOf(Members(c)) \ K, NamesOf(Operators(c)) \ K,
               channels[c].topic, channels[c].key)
  BY PicturesWithout DEF Informed
<1> QED
  BY <1>3, <1>4, <1>5 DEF Informed

\* What the invariant says of a member.
LEMMA MemberFacts ==
    ASSUME DInv, NEW c \in DOMAIN channels, NEW i \in Members(c)
    PROVE  /\ c \in Chans /\ i \in RegisteredIds /\ i \in DOMAIN clients
           /\ i \in DOMAIN seen =>
                 Informed(i, c) /\ c \in DOMAIN seen[i] /\ seen[i][c] # Stale
<1>1. c \in Chans
  BY DEF DInv, AccessInv, IInv, TypeOK, IsMap
<1>2. i \in RegisteredIds /\ i \in DOMAIN clients
  BY MembersAreRegistered DEF DInv, AccessInv, RegisteredIds
<1>3. i \in DOMAIN seen => Informed(i, c)
  BY DEF DInv, Accurate
<1>4. Informed(i, c) => c \in DOMAIN seen[i] /\ seen[i][c] # Stale
  BY ViewIsFresh DEF Informed
<1> QED
  BY <1>1, <1>2, <1>3, <1>4

\* A notification reaches those who are with the client on some channel.
LEMMA NotifiedIs ==
    ASSUME NEW id, NEW i
    PROVE  i \in Notified(id) <=> i # id /\ \E c \in DOMAIN channels : {id, i} \subseteq Members(c)
<1> DEFINE D == {d \in DOMAIN channels : IsMember(id, d)}
<1>1. \A c : c \in D <=> c \in DOMAIN channels /\ id \in Members(c)
  BY DEF IsMember, Members
<1> HIDE DEF D
<1>2. i \in UNION {Members(c) : c \in D} <=> \E c \in D : i \in Members(c)
  BY Zenon
<1>3. Notified(id) = (UNION {Members(c) : c \in D}) \ {id}
  BY DEF Notified, D
<1> QED
  BY <1>1, <1>2, <1>3

\* Nobody is told anything, and nothing that clients are told of changes.
LEMMA QuietStep ==
    ASSUME DInv, DOMAIN channels' = DOMAIN channels,
           \A c \in DOMAIN channels : /\ channels'[c].members = channels[c].members
                                      /\ channels'[c].topic = channels[c].topic
                                      /\ channels'[c].key = channels[c].key,
           \A i \in DOMAIN clients : clients'[i].nick = clients[i].nick,
           \A i \in DOMAIN clients \cap DOMAIN seen' : i \in DOMAIN seen /\ seen'[i] = seen[i]
    PROVE  Accurate'
<1> SUFFICES ASSUME NEW c \in DOMAIN channels', NEW i \in Members(c)' \cap DOMAIN seen'
             PROVE  Informed(i, c)'
  BY DEF Accurate
<1>1. c \in DOMAIN channels /\ i \in Members(c)
  BY DEF Members
<1>2. \A m \in Members(c) : m \in DOMAIN clients
  BY <1>1, MemberFacts
<1>3. i \in DOMAIN seen /\ seen'[i] = seen[i]
  BY <1>1, <1>2
<1>4. Informed(i, c) /\ c \in DOMAIN seen[i]
  BY <1>1, <1>3, MemberFacts
<1> QED
  BY <1>1, <1>2, <1>3, <1>4, StaysInformed

\* A connection is opened.
LEMMA ConnectTold ==
    ASSUME DInv, NEW id \in Ids, peer_joined(id), seen' = Put(seen, id, EmptyMap)
    PROVE  DOMAIN seen' \subseteq DOMAIN clients' /\ Accurate'
<1>1. /\ id \notin DOMAIN clients
      /\ DOMAIN clients' = DOMAIN clients \cup {id}
      /\ \A x \in DOMAIN clients : clients'[x] = clients[x]
      /\ UNCHANGED channels
  BY JoinedFacts DEF DInv, AccessInv, IInv
<1>2. DOMAIN seen \subseteq DOMAIN clients
  BY DEF DInv
<1>3. DOMAIN seen' = DOMAIN seen \cup {id} /\ \A i \in DOMAIN seen : i # id => seen'[i] = seen[i]
  BY DEF Put
<1> QED
  BY <1>1, <1>2, <1>3, QuietStep

\* A client is removed, and those it shares channels with are told that it quit.
LEMMA QuitTold ==
    ASSUME DInv, NEW id \in DOMAIN clients, remove_client(id), TellQuit(id)
    PROVE  DOMAIN seen' \subseteq DOMAIN clients' /\ Accurate'
<1> DEFINE left == IF is_registered(id) THEN Notified(id) ELSE {}
           heard(i) == [c \in DOMAIN seen[i] |->
                          IF i \in left /\ c \in Chans /\ seen[i][c] # Stale
                          THEN Without(seen[i][c], {nick(id)}) ELSE seen[i][c]]
<1>1. /\ DOMAIN clients' = DOMAIN clients \ {id}
      /\ \A x \in DOMAIN clients' : clients'[x] = clients[x]
      /\ DOMAIN channels' \subseteq DOMAIN channels
      /\ \A c \in DOMAIN channels' :
            DOMAIN channels'[c].members \subseteq DOMAIN channels[c].members
  BY RemoveFacts DEF DInv, AccessInv, IInv
<1>2. DOMAIN seen \subseteq DOMAIN clients
  BY DEF DInv
<1>3. /\ DOMAIN seen' = DOMAIN seen \ {id}
      /\ \A i \in DOMAIN seen \ {id} : seen'[i] = heard(i)
  BY DEF TellQuit, Told, Drop, Restrict
<1>4. ASSUME NEW c \in DOMAIN channels', NEW i \in Members(c)' \cap DOMAIN seen'
      PROVE  Informed(i, c)'
  <2>1. c \in DOMAIN channels /\ i \in Members(c) /\ Members(c) = DOMAIN channels[c].members
    BY <1>1, <1>4 DEF Members
  <2>2. /\ c \in Chans /\ i \in DOMAIN seen /\ Informed(i, c)
        /\ c \in DOMAIN seen[i] /\ seen[i][c] # Stale
    BY <1>3, <1>4, <2>1, MemberFacts
  <2>3. CASE ~is_registered(id)
    <3>1. channels' = channels
      BY <2>3 DEF remove_client
    <3>2. \A m \in Members(c) : m \in RegisteredIds /\ m # id /\ m \in DOMAIN clients
      BY <2>1, <2>3, MemberFacts DEF RegisteredIds, is_registered
    <3>3. seen'[i][c] = seen[i][c] /\ c \in DOMAIN seen'[i]
      BY <1>3, <2>1, <2>2, <2>3, <3>2
    <3> QED
      BY <1>1, <2>1, <2>2, <3>1, <3>2, <3>3, StaysInformed
  <2>4. CASE is_registered(id)
    <3>1. /\ channels'[c] = remove_members(channels[c], {id})
          /\ IsChannel(channels[c])
      BY <1>4, <2>1, <2>4 DEF remove_client, Sweep, DInv, AccessInv, IInv, TypeOK
    <3>2. /\ DOMAIN channels'[c].members = Members(c) \ {id}
          /\ \A m \in Members(c) \ {id} : channels'[c].members[m] = channels[c].members[m]
          /\ channels'[c].topic = channels[c].topic /\ channels'[c].key = channels[c].key
      BY <2>1, <3>1, RemoveMembersType, RemoveMembersFacts
    <3>3. id \in RegisteredIds /\ i # id
      BY <1>4, <2>4, <3>2 DEF RegisteredIds, is_registered, Members
    <3>4. \A m \in Members(c) : m \in RegisteredIds /\ m \in DOMAIN clients
      BY <2>1, MemberFacts
    <3>5. CASE id \in Members(c)
      <4>1. i \in left
        BY <2>1, <2>4, <3>3, <3>5, NotifiedIs
      <4>2. seen'[i][c] = Without(seen[i][c], {nick(id)}) /\ c \in DOMAIN seen'[i]
        BY <1>3, <2>2, <3>3, <4>1
      <4>3. \A m \in Members(c) : nick(m) \in {nick(id)} <=> m \in {id}
        BY <3>3, <3>4, NicksDiffer DEF DInv, AccessInv
      <4>4. \A m \in Members(c) \ {id} : clients'[m].nick = clients[m].nick
        BY <1>1, <3>4
      <4> QED
        BY <1>4, <2>1, <2>2, <3>2, <4>2, <4>3, <4>4, HearsOfLeavers
    <3>6. CASE id \notin Members(c)
      <4>1. \A m \in Members(c) : nick(m) # nick(id) /\ m # id
        BY <3>3, <3>4, <3>6, NicksDiffer DEF DInv, AccessInv
      <4>2. \A m \in Members(c) \ {id} : clients'[m].nick = clients[m].nick
        BY <1>1, <3>4
      <4>3. CASE i \in left
        <5>1. seen'[i][c] = Without(seen[i][c], {nick(id)}) /\ c \in DOMAIN seen'[i]
          BY <1>3, <2>2, <3>3, <4>3
        <5>2. \A m \in Members(c) : nick(m) \in {nick(id)} <=> m \in {id}
          BY <4>1
        <5> QED
          BY <1>4, <2>1, <2>2, <3>2, <4>2, <5>1, <5>2, HearsOfLeavers
      <4>4. CASE i \notin left
        <5>1. seen'[i][c] = seen[i][c] /\ c \in DOMAIN seen'[i]
          BY <1>3, <2>2, <3>3, <4>4
        <5>2. channels'[c].members = channels[c].members
          <6>1. channels'[c].members = Drop(channels[c].members, {id})
            BY <3>1 DEF remove_members, IsChannel
          <6> QED
            BY <2>1, <3>1, <3>6, <6>1 DEF Drop, Restrict, IsChannel, IsMap
        <5> QED
          BY <1>4, <2>1, <2>2, <3>2, <4>1, <4>2, <5>1, <5>2, StaysInformed
      <4> QED
        BY <4>3, <4>4
    <3> QED
      BY <3>5, <3>6
  <2> QED
    BY <2>3, <2>4
<1> QED
  BY <1>1, <1>2, <1>3, <1>4 DEF Accurate

\* NICK changes one of the names there are.
LEMMA NamesRenamed ==
    ASSUME IInv, NEW id \in RegisteredIds, NEW n, clients'[id].nick = n,
           \A x \in DOMAIN clients : x # id => clients'[x] = clients[x],
           NEW S, S \subseteq RegisteredIds
    PROVE  {u(clients'[m].nick) : m \in S} = Renamed({nick(m) : m \in S}, nick(id), u(n))
<1>1. \A m \in S : m # id => u(clients'[m].nick) = nick(m) /\ nick(m) # nick(id)
  BY NicksDiffer DEF RegisteredIds, nick
<1>2. CASE id \in S
  <2>1. nick(id) \in {nick(m) : m \in S}
    BY <1>2
  <2> QED
    BY <1>1, <1>2, <2>1 DEF Renamed
<1>3. CASE id \notin S
  <2>1. nick(id) \notin {nick(m) : m \in S}
    BY <1>1, <1>3
  <2> QED
    BY <1>1, <1>3, <2>1 DEF Renamed
<1> QED
  BY <1>2, <1>3

\* A client takes another nickname, and it and those it shares channels with are told.
LEMMA NickTold ==
    ASSUME DInv, NEW id \in Ids, NEW n \in Nicks, DeliverNick(id, n)
    PROVE  DOMAIN seen' \subseteq DOMAIN clients' /\ Accurate'
<1> DEFINE told == IF is_registered(id) THEN Notified(id) \cup {id} ELSE {}
           new(v) == [v EXCEPT !.names = Renamed(@, nick(id), u(n)),
                               !.ops   = Renamed(@, nick(id), u(n))]
<1>1. /\ DOMAIN clients' = DOMAIN clients
      /\ clients'[id].nick = n
      /\ \A x \in DOMAIN clients : x # id => clients'[x] = clients[x]
      /\ UNCHANGED channels
  BY NickFacts DEF DeliverNick, DInv, AccessInv, IInv
<1>2. /\ DOMAIN seen' = DOMAIN seen
      /\ \A i \in DOMAIN seen : DOMAIN seen'[i] = DOMAIN seen[i]
      /\ \A i \in DOMAIN seen : \A c \in DOMAIN seen[i] :
            seen'[i][c] = IF i \in told /\ c \in Chans /\ seen[i][c] # Stale
                          THEN new(seen[i][c]) ELSE seen[i][c]
  BY DEF DeliverNick, Told
<1>3. ASSUME NEW c \in DOMAIN channels', NEW i \in Members(c)' \cap DOMAIN seen'
      PROVE  Informed(i, c)'
  <2>1. c \in DOMAIN channels /\ i \in Members(c)
    BY <1>1, <1>3 DEF Members
  <2>2. /\ c \in Chans /\ i \in DOMAIN seen /\ Informed(i, c)
        /\ c \in DOMAIN seen[i] /\ seen[i][c] # Stale
    BY <1>2, <1>3, <2>1, MemberFacts
  <2>3. \A m \in Members(c) : m \in RegisteredIds /\ m \in DOMAIN clients
    BY <2>1, MemberFacts
  <2> HIDE DEF told, new
  <2>4. CASE i \in told
    <3>1. seen'[i][c] = new(seen[i][c]) /\ c \in DOMAIN seen'[i]
      BY <1>2, <2>2, <2>4
    <3>2. is_registered(id) /\ id \in RegisteredIds
      BY <2>4 DEF told, is_registered, RegisteredIds
    <3>3. u(n) \in NickKeys
      BY DEF NickKeys
    <3>4. Pictures(new(seen[i][c]), Renamed(NamesOf(Members(c)), nick(id), u(n)),
                   Renamed(NamesOf(Operators(c)), nick(id), u(n)),
                   channels[c].topic, channels[c].key)
      BY <2>2, <3>3, PicturesRenamed DEF Informed, new
    <3>5. Members(c)' = Members(c) /\ Operators(c)' = Operators(c)
      BY <1>1 DEF Members, Operators
    <3>6. Operators(c) \subseteq RegisteredIds /\ Members(c) \subseteq RegisteredIds
      BY <2>3 DEF Operators
    <3>a. IInv /\ clients'[id].nick = n /\ \A x \in DOMAIN clients : x # id => clients'[x] = clients[x]
      BY <1>1 DEF DInv, AccessInv
    <3>b. ASSUME NEW S, S \subseteq RegisteredIds
          PROVE  {u(clients'[m].nick) : m \in S} = Renamed({nick(m) : m \in S}, nick(id), u(n))
      BY <3>2, <3>a, <3>b, NamesRenamed
    <3>7. NamesOf(Members(c))' = Renamed(NamesOf(Members(c)), nick(id), u(n))
      <4>1. NamesOf(Members(c))' = {u(clients'[m].nick) : m \in Members(c)}
        BY <3>5 DEF NamesOf, nick
      <4>2. NamesOf(Members(c)) = {nick(m) : m \in Members(c)}
        BY DEF NamesOf
      <4> QED BY <3>6, <3>b, <4>1, <4>2
    <3>8. NamesOf(Operators(c))' = Renamed(NamesOf(Operators(c)), nick(id), u(n))
      <4>1. NamesOf(Operators(c))' = {u(clients'[m].nick) : m \in Operators(c)}
        BY <3>5 DEF NamesOf, nick
      <4>2. NamesOf(Operators(c)) = {nick(m) : m \in Operators(c)}
        BY DEF NamesOf
      <4> QED BY <3>6, <3>b, <4>1, <4>2
    <3> QED
      BY <1>1, <3>1, <3>4, <3>7, <3>8 DEF Informed
  <2>5. CASE i \notin told
    <3>1. id \notin Members(c)
      <4>1. SUFFICES ASSUME id \in Members(c) PROVE FALSE
        OBVIOUS
      <4>2. is_registered(id)
        BY <2>3, <4>1 DEF is_registered, RegisteredIds
      <4>3. i \in Notified(id) \cup {id}
        BY <2>1, <4>1, NotifiedIs
      <4> QED
        BY <2>5, <4>2, <4>3 DEF told
    <3>2. \A m \in Members(c) : clients'[m].nick = clients[m].nick
      BY <1>1, <2>3, <3>1
    <3>3. seen'[i][c] = seen[i][c] /\ c \in DOMAIN seen'[i]
      BY <1>2, <2>2, <2>5
    <3> QED
      BY <1>1, <2>1, <2>2, <3>2, <3>3, StaysInformed
  <2> QED
    BY <2>4, <2>5
<1> QED
  BY <1>1, <1>2, <1>3 DEF Accurate, DInv

\* A topic is set, and the members are told.
LEMMA TopicTold ==
    ASSUME DInv, NEW id, NEW d, NEW topic \in Topics \cup {None}, DeliverTopic(id, d, topic)
    PROVE  DOMAIN seen' \subseteq DOMAIN clients' /\ Accurate'
<1>1. /\ UNCHANGED clients
      /\ d \in DOMAIN channels
      /\ DOMAIN channels' = DOMAIN channels
      /\ \A c \in DOMAIN channels : c # d => channels'[c] = channels[c]
      /\ channels'[d].members = channels[d].members
      /\ channels'[d].key = channels[d].key
      /\ channels'[d].topic = topic
  BY InviteTopicFacts DEF DeliverTopic, DInv, AccessInv, IInv
<1>2. /\ DOMAIN seen' = DOMAIN seen
      /\ \A i \in DOMAIN seen : DOMAIN seen'[i] = DOMAIN seen[i]
      /\ \A i \in DOMAIN seen : \A c \in DOMAIN seen[i] :
            seen'[i][c] = IF i \in Members(d) /\ c \in {d} /\ seen[i][c] # Stale
                          THEN [seen[i][c] EXCEPT !.topic = topic] ELSE seen[i][c]
  BY DEF DeliverTopic, Told
<1>3. ASSUME NEW c \in DOMAIN channels', NEW i \in Members(c)' \cap DOMAIN seen'
      PROVE  Informed(i, c)'
  <2>1. /\ c \in DOMAIN channels /\ i \in Members(c)
        /\ Members(c)' = Members(c) /\ Operators(c)' = Operators(c)
    BY <1>1, <1>3 DEF Members, Operators
  <2>2. /\ i \in DOMAIN seen /\ Informed(i, c)
        /\ c \in DOMAIN seen[i] /\ seen[i][c] # Stale
    BY <1>2, <1>3, <2>1, MemberFacts
  <2>3. CASE c = d
    <3>1. seen'[i][c] = [seen[i][c] EXCEPT !.topic = topic] /\ c \in DOMAIN seen'[i]
      BY <1>2, <2>1, <2>2, <2>3
    <3>2. Pictures(seen'[i][c], NamesOf(Members(c)), NamesOf(Operators(c)), topic, channels[c].key)
      BY <2>2, <3>1, PicturesTopic DEF Informed
    <3>3. NamesOf(Members(c))' = NamesOf(Members(c)) /\ NamesOf(Operators(c))' = NamesOf(Operators(c))
      BY <1>1, <2>1 DEF NamesOf, nick
    <3> QED
      BY <1>1, <2>3, <3>1, <3>2, <3>3 DEF Informed
  <2>4. CASE c # d
    BY <1>1, <1>2, <2>1, <2>2, <2>4, StaysInformed
  <2> QED
    BY <2>3, <2>4
<1> QED
  BY <1>1, <1>2, <1>3 DEF Accurate, DInv

\* A client leaves channels, and it and those who stay are told.
LEMMA PartTold ==
    ASSUME DInv, NEW id, NEW C, is_registered(id), channels' = Leave(id, C),
           UNCHANGED <<clients, nicks, config>>, TellPart(id, C)
    PROVE  DOMAIN seen' \subseteq DOMAIN clients' /\ Accurate'
<1>1. /\ DOMAIN channels' \subseteq DOMAIN channels
      /\ \A c \in DOMAIN channels' : c \in C /\ id \in Members(c) =>
            /\ DOMAIN channels'[c].members = Members(c) \ {id}
            /\ \A m \in Members(c) \ {id} : channels'[c].members[m] = channels[c].members[m]
            /\ channels'[c].topic = channels[c].topic
            /\ channels'[c].key = channels[c].key
      /\ \A c \in DOMAIN channels' :
            ~(c \in C /\ id \in Members(c)) => channels'[c] = channels[c]
  BY LeaveFacts DEF DInv, AccessInv, IInv
<1>2. id \in RegisteredIds
  BY DEF is_registered, RegisteredIds
<1> DEFINE off == {c \in C : find_member(id, c)}
<1>3. DOMAIN seen' = DOMAIN seen
  BY DEF TellPart
<1>4. \A i \in DOMAIN seen :
         seen'[i] = IF i = id THEN Drop(seen[i], off) ELSE PartHeard(id, i, C)
  BY DEF TellPart
<1> HIDE DEF off
<1>5. \A i \in DOMAIN seen : \A c \in DOMAIN seen[i] :
         /\ c \in DOMAIN PartHeard(id, i, C)
         /\ PartHeard(id, i, C)[c] = IF c \in C /\ {id, i} \subseteq Members(c)
                                     THEN Without(seen[i][c], {nick(id)}) ELSE seen[i][c]
  BY DEF PartHeard
<1>6. \A i \in DOMAIN seen : \A c \in DOMAIN seen[i] \ off :
         c \in DOMAIN Drop(seen[i], off) /\ Drop(seen[i], off)[c] = seen[i][c]
  BY DEF Drop, Restrict
<1>7. ASSUME NEW c \in DOMAIN channels', NEW i \in Members(c)' \cap DOMAIN seen'
      PROVE  Informed(i, c)'
  <2>1. c \in DOMAIN channels /\ i \in DOMAIN seen
    BY <1>1, <1>3, <1>7
  <2>2. CASE c \in C /\ id \in Members(c)
    <3>1. i \in Members(c) /\ i # id
      BY <1>1, <1>7, <2>2 DEF Members
    <3>2. Informed(i, c) /\ c \in DOMAIN seen[i]
      BY <2>1, <3>1, MemberFacts
    <3>3. seen'[i][c] = Without(seen[i][c], {nick(id)}) /\ c \in DOMAIN seen'[i]
      BY <1>4, <1>5, <2>1, <2>2, <3>1, <3>2
    <3>4. \A m \in Members(c) : m \in RegisteredIds
      BY <2>1, MemberFacts
    <3>5. \A m \in Members(c) : nick(m) \in {nick(id)} <=> m \in {id}
      BY <1>2, <3>4, NicksDiffer DEF DInv, AccessInv
    <3> QED
      BY <1>1, <1>7, <2>1, <2>2, <3>1, <3>2, <3>3, <3>5, HearsOfLeavers
  <2>3. CASE ~(c \in C /\ id \in Members(c))
    <3>1. i \in Members(c) /\ channels'[c] = channels[c]
      BY <1>1, <1>7, <2>1, <2>3 DEF Members
    <3>2. Informed(i, c) /\ c \in DOMAIN seen[i]
      BY <2>1, <3>1, MemberFacts
    <3>3. c \notin off
      BY <2>3 DEF off, find_member, Members
    <3>4. seen'[i][c] = seen[i][c] /\ c \in DOMAIN seen'[i]
      BY <1>4, <1>5, <1>6, <2>1, <2>3, <3>2, <3>3
    <3> QED
      BY <1>7, <2>1, <3>1, <3>2, <3>4, StaysInformed
  <2> QED
    BY <2>2, <2>3
<1> QED
  BY <1>3, <1>7 DEF Accurate, DInv

\* Clients are kicked, and those who stay on the channel are told.
LEMMA KickTold ==
    ASSUME DInv, NEW id, NEW d, NEW who, DeliverKick(id, d, who)
    PROVE  DOMAIN seen' \subseteq DOMAIN clients' /\ Accurate'
<1> DEFINE ids == {nicks[u(n)] : n \in {m \in who : find_nick(m)}}
           kicked == ids \cap Members(d)
<1>1. /\ UNCHANGED clients
      /\ d \in DOMAIN channels
      /\ DOMAIN channels' = DOMAIN channels
      /\ \A c \in DOMAIN channels : c # d => channels'[c] = channels[c]
      /\ DOMAIN channels'[d].members = Members(d) \ ids
      /\ \A m \in Members(d) \ ids : channels'[d].members[m] = channels[d].members[m]
      /\ channels'[d].topic = channels[d].topic /\ channels'[d].key = channels[d].key
  BY KickFacts DEF DeliverKick, DInv, AccessInv, IInv
<1>2. seen' = [i \in DOMAIN seen |-> KickHeard(id, i, d, kicked)]
  BY DEF DeliverKick
<1> HIDE DEF ids
<1>3. DOMAIN seen' = DOMAIN seen /\ \A i \in DOMAIN seen : seen'[i] = KickHeard(id, i, d, kicked)
  BY <1>2
<1>4. ASSUME NEW c \in DOMAIN channels', NEW i \in Members(c)' \cap DOMAIN seen'
      PROVE  Informed(i, c)'
  <2>1. CASE c = d
    <3>1. i \in Members(d) /\ i \notin kicked
      BY <1>1, <1>4, <2>1 DEF Members
    <3>2. i \in DOMAIN seen /\ Informed(i, d) /\ d \in DOMAIN seen[i]
      BY <1>1, <1>3, <1>4, <3>1, MemberFacts
    <3> DEFINE K == {nick(k) : k \in kicked}
    <3>3. seen'[i] = [seen[i] EXCEPT ![d] = Without(seen[i][d], K)]
      BY <1>3, <3>1, <3>2 DEF KickHeard
    <3>4. \A m \in Members(d) : m \in RegisteredIds
      BY <1>1, MemberFacts
    <3>5. \A m \in Members(d) : nick(m) \in K <=> m \in ids
      BY <3>4, NicksDiffer DEF DInv, AccessInv
    <3> HIDE DEF K
    <3>6. seen'[i][d] = Without(seen[i][d], K) /\ d \in DOMAIN seen'[i]
      BY <3>2, <3>3
    <3>7. Informed(i, d)'
      BY <1>1, <3>1, <3>2, <3>5, <3>6, HearsOfLeavers
    <3> QED
      BY <2>1, <3>7
  <2>2. CASE c # d
    <3>1. c \in DOMAIN channels /\ i \in Members(c) /\ channels'[c] = channels[c]
      BY <1>1, <1>4, <2>2 DEF Members
    <3>2. i \in DOMAIN seen /\ Informed(i, c) /\ c \in DOMAIN seen[i]
      BY <1>3, <1>4, <3>1, MemberFacts
    <3>3. c \in DOMAIN KickHeard(id, i, d, kicked) /\ KickHeard(id, i, d, kicked)[c] = seen[i][c]
      BY <2>2, <3>2 DEF KickHeard, Drop, Restrict
    <3> QED
      BY <1>1, <1>3, <1>4, <3>1, <3>2, <3>3, StaysInformed
  <2> QED
    BY <2>1, <2>2
<1> QED
  BY <1>1, <1>3, <1>4 DEF Accurate, DInv

\* The symbol shown of a member that MODE or the first JOIN ranked tells an operator.
LEMMA SymbolOfOperator ==
    ASSUME NEW modes, modes \subseteq {"operator", "halfop", "voice"}
    PROVE  "operator" \in symbol(modes) <=> "operator" \in modes
<1>1. SymbolOrder[3] = "operator" /\ 3 \in DOMAIN SymbolOrder
  BY DEF SymbolOrder
<1>2. \A j \in DOMAIN SymbolOrder : SymbolOrder[j] = "operator" => j = 3
  BY DEF SymbolOrder
<1>3. \A h \in 1 .. 2 : SymbolOrder[h] \notin modes
  BY DEF SymbolOrder
<1>4. "operator" \in symbol(modes) => "operator" \in modes
  BY DEF symbol
<1>5. ASSUME "operator" \in modes
      PROVE  "operator" \in symbol(modes)
  <2>1. 3 \in {j \in DOMAIN SymbolOrder :
                 SymbolOrder[j] \in modes /\ \A h \in 1 .. j - 1 : SymbolOrder[h] \notin modes}
    BY <1>1, <1>3, <1>5
  <2> QED
    BY <1>1, <2>1 DEF symbol
<1> QED
  BY <1>4, <1>5

\* The names in a list of names with something else.
LEMMA FirstOfPairs ==
    ASSUME NEW S, NEW L,
           \A e \in L : \E m \in S : e[1] = clients[m].nick,
           \A m \in S : \E e \in L : e[1] = clients[m].nick
    PROVE  {u(e[1]) : e \in L} = {nick(m) : m \in S}
<1>1. \A e \in L : \E m \in S : u(e[1]) = nick(m)
  BY DEF nick
<1>2. \A m \in S : \E e \in L : u(e[1]) = nick(m)
  BY DEF nick
<1> QED
  BY <1>1, <1>2

\* Who enters a channel is told its members, its operators, its topic and its key.
LEMMA EnteredPictures ==
    ASSUME IInv, UNCHANGED clients, NEW id, NEW c \in DOMAIN channels',
           id \in DOMAIN channels'[c].members, IsChannel(channels'[c]),
           \A m \in DOMAIN channels'[c].members :
              /\ m \in RegisteredIds
              /\ channels'[c].members[m] \subseteq {"operator", "halfop", "voice"}
    PROVE  Pictures(Entered(id, c), NamesOf(Members(c))', NamesOf(Operators(c))',
                    channels'[c].topic, channels'[c].key)
<1> DEFINE M == DOMAIN channels'[c].members
           modes(m) == channels'[c].members[m]
           shown == [m \in M |-> IF "multi_prefix" \in clients[id].caps THEN modes(m)
                                                                      ELSE symbol(modes(m))]
           names == {<<clients[m].nick, shown[m]>> : m \in M}
<1>1. send_names(id, c)' = names
  BY DEF send_names, Shown, IsSecret, IsMember
<1>2. Members(c)' = M /\ Operators(c)' = {m \in M : "operator" \in modes(m)}
  BY DEF Members, Operators
<1>3. \A m \in M : "operator" \in shown[m] <=> "operator" \in modes(m)
  BY SymbolOfOperator
<1>4. NamesOf(Members(c))' = {nick(m) : m \in M}
  BY <1>2 DEF NamesOf, nick
<1>5. NamesOf(Operators(c))' = {nick(m) : m \in {x \in M : "operator" \in modes(x)}}
  BY <1>2 DEF NamesOf, nick
<1> HIDE DEF M, modes, shown
<1>6. {u(e[1]) : e \in names} = {nick(m) : m \in M}
  <2>1. \A e \in names : \E m \in M : e[1] = clients[m].nick
    OBVIOUS
  <2>2. ASSUME NEW m \in M PROVE \E e \in names : e[1] = clients[m].nick
    <3>1. <<clients[m].nick, shown[m]>> \in names
      OBVIOUS
    <3> QED BY <3>1
  <2> HIDE DEF names
  <2> QED BY <2>1, <2>2, FirstOfPairs
<1>7. {u(e[1]) : e \in {f \in names : "operator" \in f[2]}}
         = {nick(m) : m \in {x \in M : "operator" \in modes(x)}}
  <2> DEFINE ops == {x \in M : "operator" \in modes(x)}
             listed == {f \in names : "operator" \in f[2]}
  <2>1. \A e \in listed : \E m \in ops : e[1] = clients[m].nick
    BY <1>3
  <2>2. ASSUME NEW m \in ops PROVE \E e \in listed : e[1] = clients[m].nick
    <3>1. <<clients[m].nick, shown[m]>> \in listed
      BY <1>3
    <3> QED BY <3>1
  <2> HIDE DEF ops, listed
  <2>3. {u(e[1]) : e \in listed} = {nick(m) : m \in ops}
    BY <2>1, <2>2, FirstOfPairs
  <2> QED
    BY <2>3 DEF listed, ops
<1>8. \A m \in M : nick(m) \in NickKeys
  BY Found DEF M
<1>9. channels'[c].topic \in Topics \cup {None} /\ channels'[c].key \in ChanKeys \cup {None}
  BY DEF IsChannel
<1> HIDE DEF names
<1>10. Entered(id, c) = [ names |-> {nick(m) : m \in M},
                          ops   |-> {nick(m) : m \in {x \in M : "operator" \in modes(x)}},
                          topic |-> channels'[c].topic,
                          key   |-> channels'[c].key,
                          missed |-> {} ]
  BY <1>1, <1>6, <1>7 DEF Entered
<1> QED
  BY <1>4, <1>5, <1>8, <1>9, <1>10 DEF Pictures, View, KeyFits

\* Another client, of which it is heard that the issuer entered channels.
LEMMA HearsOfJoin ==
    ASSUME DInv, NEW id \in Ids, NEW list, cmd_join(id, list),
           NEW c \in DOMAIN channels', NEW i \in Members(c)' \cap DOMAIN seen, i # id,
           seen'[i] = JoinHeard(id, i, Joinable(id, list))
    PROVE  Informed(i, c)'
<1> DEFINE joined == Joinable(id, list)
<1>0. TypeOK
  BY DEF DInv, AccessInv, IInv
<1>1. /\ is_registered(id)
      /\ UNCHANGED clients
      /\ DOMAIN channels' = DOMAIN channels \cup joined
      /\ \A d \in DOMAIN channels \ joined : channels'[d] = channels[d]
      /\ \A d \in joined :
            /\ id \notin Members(d)
            /\ DOMAIN channels'[d].members = Members(d) \cup {id}
            /\ \A m \in Members(d) : channels'[d].members[m] = channels[d].members[m]
            /\ d \in DOMAIN channels =>
                  channels'[d].topic = channels[d].topic /\ channels'[d].key = channels[d].key
  <2>1. is_registered(id) /\ UNCHANGED clients /\ DOMAIN channels' = DOMAIN channels \cup joined
    BY <1>0, JoinFacts
  <2>2. \A d \in DOMAIN channels \ joined : channels'[d] = channels[d]
    BY <1>0, JoinFacts
  <2>3. ASSUME NEW d \in joined
        PROVE  /\ id \notin Members(d)
               /\ DOMAIN channels'[d].members = Members(d) \cup {id}
               /\ \A m \in Members(d) : channels'[d].members[m] = channels[d].members[m]
               /\ d \in DOMAIN channels =>
                     channels'[d].topic = channels[d].topic /\ channels'[d].key = channels[d].key
    <3>1. id \notin Members(d) /\ DOMAIN channels'[d].members = Members(d) \cup {id}
      BY <1>0, <2>3, JoinFacts
    <3>2. \A m \in Members(d) : channels'[d].members[m] = channels[d].members[m]
      BY <1>0, <2>3, JoinFacts
    <3>3. d \in DOMAIN channels =>
             channels'[d].topic = channels[d].topic /\ channels'[d].key = channels[d].key
      BY <1>0, <2>3, JoinFacts
    <3> QED
      BY <3>1, <3>2, <3>3
  <2> QED
    BY <2>1, <2>2, <2>3
<1>2. nick(id) \in NickKeys
  BY <1>1, Found DEF DInv, AccessInv, is_registered, RegisteredIds
<1> HIDE DEF joined
<1>3. \A d \in DOMAIN seen[i] :
         /\ d \in DOMAIN seen'[i]
         /\ seen'[i][d] = IF d \in joined /\ i \in Members(d)
                          THEN [seen[i][d] EXCEPT !.names = @ \cup {nick(id)}] ELSE seen[i][d]
  BY DEF JoinHeard, joined
<1>4. CASE c \in joined
  <2>1. i \in Members(c) /\ c \in DOMAIN channels
    BY <1>1, <1>4 DEF Members
  <2>2. Informed(i, c) /\ c \in DOMAIN seen[i]
    BY <2>1, MemberFacts
  <2>3. /\ seen'[i][c] = [seen[i][c] EXCEPT !.names = @ \cup {nick(id)}]
        /\ c \in DOMAIN seen'[i]
    BY <1>3, <1>4, <2>1, <2>2
  <2>4. Pictures(seen'[i][c], NamesOf(Members(c)) \cup {nick(id)}, NamesOf(Operators(c)),
                 channels[c].topic, channels[c].key)
    BY <1>2, <2>2, <2>3, PicturesJoined DEF Informed
  <2>5. Members(c)' = Members(c) \cup {id}
    BY <1>1, <1>4 DEF Members
  <2>a. channels'[c].members[id] = {}
    BY <1>0, <1>4, <2>1, JoinFacts DEF joined
  <2>6. Operators(c)' = Operators(c)
    BY <1>1, <1>4, <2>1, <2>5, <2>a DEF Operators
  <2>7. NamesOf(Members(c))' = NamesOf(Members(c)) \cup {nick(id)}
    BY <1>1, <2>5 DEF NamesOf, nick
  <2>8. NamesOf(Operators(c))' = NamesOf(Operators(c))
    BY <1>1, <2>6 DEF NamesOf, nick
  <2> QED
    BY <1>1, <1>4, <2>1, <2>3, <2>4, <2>7, <2>8 DEF Informed
<1>5. CASE c \notin joined
  <2>1. c \in DOMAIN channels /\ i \in Members(c) /\ channels'[c] = channels[c]
    BY <1>1, <1>5 DEF Members
  <2>2. Informed(i, c) /\ c \in DOMAIN seen[i]
    BY <2>1, MemberFacts
  <2>3. seen'[i][c] = seen[i][c] /\ c \in DOMAIN seen'[i]
    BY <1>3, <1>5, <2>2
  <2> QED
    BY <1>1, <2>1, <2>2, <2>3, StaysInformed
<1> QED
  BY <1>4, <1>5

\* A client enters channels; those on them are told, and it is told what is there.
LEMMA JoinTold ==
    ASSUME DInv, AccessInv', NEW id \in Ids, NEW list, DeliverJoin(id, list)
    PROVE  DOMAIN seen' \subseteq DOMAIN clients' /\ Accurate'
<1> DEFINE joined == Joinable(id, list)
<1>1. /\ is_registered(id)
      /\ UNCHANGED clients
      /\ DOMAIN channels' = DOMAIN channels \cup joined
      /\ \A c \in DOMAIN channels \ joined : channels'[c] = channels[c]
      /\ \A c \in joined : DOMAIN channels'[c].members = Members(c) \cup {id}
  BY JoinFacts DEF DeliverJoin, DInv, AccessInv, IInv
<1>2. id \in RegisteredIds /\ cmd_join(id, list)
  BY <1>1 DEF is_registered, RegisteredIds, DeliverJoin
<1>3. /\ DOMAIN seen' = DOMAIN seen
      /\ \A i \in DOMAIN seen : i # id => seen'[i] = JoinHeard(id, i, Joinable(id, list))
  BY DEF DeliverJoin
<1>4. id \in DOMAIN seen =>
         seen'[id] = [c \in DOMAIN seen[id] \cup joined |->
                        IF c \in joined THEN Entered(id, c) ELSE seen[id][c]]
  BY DEF DeliverJoin
<1> HIDE DEF joined
<1>5. ASSUME NEW c \in DOMAIN channels', NEW i \in Members(c)' \cap DOMAIN seen'
      PROVE  Informed(i, c)'
  <2>1. CASE i # id
    BY <1>2, <1>3, <1>5, <2>1, HearsOfJoin
  <2>2. CASE c \in joined /\ i = id
    <3>1. \A m \in DOMAIN channels'[c].members :
             /\ m \in RegisteredIds
             /\ channels'[c].members[m] \subseteq {"operator", "halfop", "voice"}
      <4>1. \A m \in Members(c) : m \in RegisteredIds
        BY MembersAreRegistered DEF DInv, AccessInv
      <4>2. \A m \in DOMAIN channels'[c].members : m \in RegisteredIds
        BY <1>1, <1>2, <2>2, <4>1
      <4>3. \A m \in DOMAIN channels'[c].members :
               channels'[c].members[m] \subseteq {"operator", "halfop", "voice"}
        BY <1>5 DEF AccessInv, RanksGiven
      <4> QED
        BY <4>2, <4>3
    <3>2. IsChannel(channels'[c])
      BY <1>5 DEF AccessInv, IInv, TypeOK
    <3>3. Pictures(Entered(id, c), NamesOf(Members(c))', NamesOf(Operators(c))',
                   channels'[c].topic, channels'[c].key)
      BY <1>1, <1>5, <2>2, <3>1, <3>2, EnteredPictures DEF DInv, AccessInv
    <3>4. seen'[id][c] = Entered(id, c) /\ c \in DOMAIN seen'[id]
      BY <1>3, <1>4, <1>5, <2>2
    <3> QED
      BY <2>2, <3>3, <3>4 DEF Informed
  <2>3. CASE c \notin joined /\ i = id
    <3>1. c \in DOMAIN channels /\ id \in Members(c) /\ channels'[c] = channels[c]
      BY <1>1, <1>5, <2>3 DEF Members
    <3>2. id \in DOMAIN seen /\ Informed(id, c) /\ c \in DOMAIN seen[id]
      BY <1>3, <1>5, <2>3, <3>1, MemberFacts
    <3>3. seen'[id][c] = seen[id][c] /\ c \in DOMAIN seen'[id]
      BY <1>4, <2>3, <3>2
    <3> QED
      BY <1>1, <1>5, <2>3, <3>1, <3>2, <3>3, StaysInformed
  <2> QED
    BY <2>1, <2>2, <2>3
<1> QED
  BY <1>1, <1>3, <1>5 DEF Accurate, DInv

\* A JOIN list panics: the others were told of the channels that were entered before.
LEMMA JoinPanicTold ==
    ASSUME DInv, NEW id \in Ids, NEW done, NEW p, DeliverJoinPanics(id, done, p)
    PROVE  DOMAIN seen' \subseteq DOMAIN clients' /\ Accurate'
<1>1. cmd_join(id, done) /\ UNCHANGED clients
  BY JoinFacts DEF DeliverJoinPanics, cmd_join_panics, DInv, AccessInv, IInv
<1>2. /\ DOMAIN seen' = DOMAIN seen \ {id}
      /\ \A i \in DOMAIN seen \ {id} : seen'[i] = JoinHeard(id, i, Joinable(id, done))
  BY DEF DeliverJoinPanics
<1>3. ASSUME NEW c \in DOMAIN channels', NEW i \in Members(c)' \cap DOMAIN seen'
      PROVE  Informed(i, c)'
  BY <1>1, <1>2, <1>3, HearsOfJoin
<1> QED
  BY <1>1, <1>2, <1>3 DEF Accurate, DInv

\* The names of the operators of a channel whose members have the nicknames nick_of.
OpsOf(ch, nick_of) ==
    {u(nick_of[m]) : m \in {x \in DOMAIN ch.members : "operator" \in ch.members[x]}}

\* A change of operators gives the mode to, or takes it from, the one client it names.
LEMMA OperatorToggled ==
    ASSUME NEW ch, IsChannel(ch), NEW change \in ChannelChange(Nicks), NEW nick_of,
           \A m, x \in DOMAIN ch.members : u(nick_of[m]) = u(nick_of[x]) => m = x,
           change[1] = "ChangeOperator", apply_mode_change(ch, change, nick_of) # ch
    PROVE  OpsOf(apply_mode_change(ch, change, nick_of), nick_of)
              = Toggle(OpsOf(ch, nick_of), u(change[3]), change[2])
<1> DEFINE new == apply_mode_change(ch, change, nick_of)
           M == DOMAIN ch.members
<1>1. change \in Ranks \X BOOLEAN \X Nicks
  <2>1. change # NoChange /\ change # <<"Key", FALSE>>
    <3>1. ASSUME change = NoChange PROVE FALSE
      <4>1. change[1] = "GetBans"
        BY <3>1 DEF NoChange
      <4> QED
        BY <4>1
    <3>2. ASSUME change = <<"Key", FALSE>> PROVE FALSE
      <4>1. change[1] = "Key"
        BY <3>2
      <4> QED
        BY <4>1
    <3> QED
      BY <3>1, <3>2
  <2>2. change \notin Flags \X BOOLEAN
    BY DEF Flags
  <2>3. change \notin Lists \X BOOLEAN \X Masks
    BY DEF Lists
  <2>4. change \notin {"Key"} \X {TRUE} \X ChanKeys /\ change \notin {"UserLimit"} \X (Nat \cup {None})
    OBVIOUS
  <2> QED
    BY <2>1, <2>2, <2>3, <2>4 DEF ChannelChange
<1> DEFINE members == [m \in M |-> IF nick_of[m] = change[3]
                                   THEN Toggle(ch.members[m], "operator", change[2])
                                   ELSE ch.members[m]]
<1>2. new = [ch EXCEPT !.members = members]
  BY DEF apply_mode_change, Flags, Lists, Ranks, RankMode
<1>3. new.members = members
  BY <1>2 DEF IsChannel
<1>4. ASSUME \A m \in M : nick_of[m] # change[3]
      PROVE  FALSE
  <2>1. members = ch.members
    BY <1>4 DEF IsChannel, IsMap
  <2>2. new = ch
    BY <1>2, <2>1 DEF IsChannel
  <2> QED
    BY <2>2
<1>5. PICK m \in M : nick_of[m] = change[3]
  BY <1>4
<1>6. \A x \in M : (u(nick_of[x]) = u(change[3]) <=> x = m) /\ (nick_of[x] = change[3] => x = m)
  BY <1>5
<1>7. DOMAIN new.members = M
  BY <1>3
<1>8. CASE change[2]
  <2>1. \A x \in M : "operator" \in new.members[x] <=> x = m \/ "operator" \in ch.members[x]
    BY <1>3, <1>5, <1>6, <1>8 DEF Toggle
  <2> HIDE DEF new
  <2>2. OpsOf(new, nick_of) = OpsOf(ch, nick_of) \cup {u(change[3])}
    BY <1>5, <1>6, <1>7, <2>1 DEF OpsOf
  <2> QED
    BY <1>8, <2>2 DEF Toggle, new
<1>9. CASE ~change[2]
  <2>1. \A x \in M : "operator" \in new.members[x] <=> x # m /\ "operator" \in ch.members[x]
    BY <1>3, <1>5, <1>6, <1>9 DEF Toggle
  <2> HIDE DEF new
  <2>2. OpsOf(new, nick_of) = OpsOf(ch, nick_of) \ {u(change[3])}
    BY <1>5, <1>6, <1>7, <2>1 DEF OpsOf
  <2> QED
    BY <1>9, <2>2 DEF Toggle, new
<1> QED
  BY <1>1, <1>8, <1>9

\* Other changes make and unmake no operator.
LEMMA OperatorsKept ==
    ASSUME NEW ch, IsChannel(ch), NEW change \in ChannelChange(Nicks), NEW nick_of,
           change[1] # "ChangeOperator"
    PROVE  OpsOf(apply_mode_change(ch, change, nick_of), nick_of) = OpsOf(ch, nick_of)
<1> DEFINE new == apply_mode_change(ch, change, nick_of)
<1>1. DOMAIN new.members = DOMAIN ch.members
  BY ModeChangeType
<1>2. \A m \in DOMAIN ch.members : "operator" \in new.members[m] <=> "operator" \in ch.members[m]
  <2>1. CASE change[1] \notin Ranks
    <3>1. new.members = ch.members
      BY <2>1, ModeChangeFacts
    <3> QED
      BY <3>1
  <2>2. CASE change[1] \in Ranks
    <3>1. \A m \in DOMAIN ch.members :
             new.members[m] = IF nick_of[m] = change[3]
                              THEN Toggle(ch.members[m], RankMode(change[1]), change[2])
                              ELSE ch.members[m]
      BY <2>2, ModeChangeFacts
    <3>2. RankMode(change[1]) # "operator"
      BY <2>2 DEF RankMode, Ranks
    <3> HIDE DEF new
    <3> QED
      BY <3>1, <3>2 DEF Toggle
  <2> QED
    BY <2>1, <2>2
<1> HIDE DEF new
<1>3. OpsOf(new, nick_of) = OpsOf(ch, nick_of)
  BY <1>1, <1>2 DEF OpsOf
<1> QED
  BY <1>3 DEF new

\* A member who is told of one change knows the channel as the change leaves it.
LEMMA HeardPictures ==
    ASSUME NEW ch, IsChannel(ch), NEW change \in ChannelChange(Nicks), NEW nick_of,
           \A m, x \in DOMAIN ch.members : u(nick_of[m]) = u(nick_of[x]) => m = x,
           ~key_panics(ch, change),
           NEW v, NEW N, Pictures(v, N, OpsOf(ch, nick_of), ch.topic, ch.key),
           NEW new, new = apply_mode_change(ch, change, nick_of)
    PROVE  Pictures(HeardMode(v, ch, change, nick_of), N, OpsOf(new, nick_of), new.topic, new.key)
<1> DEFINE heard == HeardMode(v, ch, change, nick_of)
<1>1. CASE new = ch
  <2>1. heard = v
    BY <1>1 DEF HeardMode
  <2> QED
    BY <1>1, <2>1
<1>2. CASE new # ch /\ change[1] = "ChangeOperator"
  <2>1. heard = [v EXCEPT !.ops = Toggle(@, u(change[3]), change[2])]
    BY <1>2 DEF HeardMode
  <2>2. OpsOf(new, nick_of) = Toggle(OpsOf(ch, nick_of), u(change[3]), change[2])
    BY <1>2, OperatorToggled
  <2>3. new.topic = ch.topic /\ new.key = ch.key /\ change[3] \in Nicks
    BY <1>2, ModeChangeFacts DEF Ranks
  <2>4. u(change[3]) \in NickKeys
    BY <2>3 DEF NickKeys
  <2> HIDE DEF heard
  <2>5. Pictures(heard, N, OpsOf(new, nick_of), new.topic, new.key)
    BY <2>1, <2>2, <2>3, <2>4 DEF Pictures, View, Toggle
  <2> QED
    BY <2>5 DEF heard
<1>3. CASE new # ch /\ change[1] = "Key"
  <2>1. heard = [v EXCEPT !.key = IF change[2] THEN change[3] ELSE None]
    BY <1>3 DEF HeardMode
  <2>2. OpsOf(new, nick_of) = OpsOf(ch, nick_of)
    BY <1>3, OperatorsKept
  <2>3. /\ new.topic = ch.topic
        /\ \/ ~change[2] /\ new.key = None
           \/ /\ change[2] /\ change[3] \in ChanKeys
              /\ new.key = IF ch.key = None THEN Truncate[change[3]] ELSE ch.key
    BY <1>3, ModeChangeFacts
  <2>4. CASE ~change[2]
    <3>1. heard = [v EXCEPT !.key = None] /\ new.key = None
      BY <2>1, <2>3, <2>4
    <3> HIDE DEF heard
    <3>2. Pictures(heard, N, OpsOf(new, nick_of), new.topic, new.key)
      BY <2>2, <2>3, <3>1 DEF Pictures, View, KeyFits
    <3> QED
      BY <3>2 DEF heard
  <2>5. CASE change[2]
    <3>1. heard = [v EXCEPT !.key = change[3]] /\ change[3] \in ChanKeys
      BY <2>1, <2>3, <2>5
    <3>2. CASE ch.key = None
      <4>1. new.key = Truncate[change[3]] /\ new.key # None
        BY <1>3, <2>3, <2>5, <3>2 DEF key_panics
      <4> HIDE DEF heard
      <4>2. Pictures(heard, N, OpsOf(new, nick_of), new.topic, new.key)
        BY <2>2, <2>3, <3>1, <4>1, KeyAssumption DEF Pictures, View, KeyFits
      <4> QED
        BY <4>2 DEF heard
    <3>3. CASE ch.key # None
      <4> DEFINE kept == ch.key
      <4>1. new = [ch EXCEPT !.key = kept]
        BY <1>3, <2>5, <3>3 DEF apply_mode_change, Flags, Lists, Ranks, IsChannel
      <4>2. [ch EXCEPT !.key = kept] = ch
        BY DEF IsChannel
      <4>3. new = ch
        BY <4>1, <4>2
      <4> QED
        BY <1>3, <4>3
    <3> QED
      BY <3>2, <3>3
  <2> QED
    BY <2>4, <2>5
<1>4. CASE new # ch /\ change[1] # "ChangeOperator" /\ change[1] # "Key"
  <2>1. heard = v
    BY <1>4 DEF HeardMode
  <2>2. OpsOf(new, nick_of) = OpsOf(ch, nick_of)
    BY <1>4, OperatorsKept
  <2>3. new.topic = ch.topic /\ new.key = ch.key
    BY <1>4, ModeChangeFacts
  <2> HIDE DEF heard
  <2>4. Pictures(heard, N, OpsOf(new, nick_of), new.topic, new.key)
    BY <2>1, <2>2, <2>3
  <2> QED
    BY <2>4 DEF heard
<1> QED
  BY <1>1, <1>2, <1>3, <1>4

\* Modes are changed, and the members are told of the changes that altered something.
LEMMA ModeTold ==
    ASSUME DInv, NEW id, NEW d, NEW first \in Changes, NEW second \in Changes,
           DeliverMode(id, d, first, second)
    PROVE  DOMAIN seen' \subseteq DOMAIN clients' /\ Accurate'
<1> DEFINE nick_of == [m \in DOMAIN channels[d].members |-> clients[m].nick]
           mid     == apply_mode_change(channels[d], first, nick_of)
           new     == apply_mode_change(mid, second, nick_of)
<1>1. /\ UNCHANGED <<clients, nicks, config>>
      /\ d \in DOMAIN channels
      /\ first \in ChannelChange(Nicks) /\ second \in ChannelChange(Nicks)
      /\ DOMAIN channels' = DOMAIN channels
      /\ \A c \in DOMAIN channels : c # d => channels'[c] = channels[c]
      /\ IsChannel(channels[d]) /\ IsChannel(mid)
      /\ DOMAIN mid.members = Members(d)
      /\ channels'[d] = new
      /\ DOMAIN channels'[d].members = Members(d)
      /\ ~key_panics(channels[d], first) /\ ~key_panics(mid, second)
  <2>1. TypeOK /\ cmd_mode_channel_set(id, d, first, second)
    BY DEF DeliverMode, DInv, AccessInv, IInv
  <2>2. ~key_panics(channels[d], first) /\ ~key_panics(mid, second)
    BY <2>1 DEF cmd_mode_channel_set
  <2> QED
    BY <2>1, <2>2, ModeOutcome
<1> DEFINE heard(v) == HeardMode(HeardMode(v, channels[d], first, nick_of), mid, second, nick_of)
<1>2. /\ DOMAIN seen' = DOMAIN seen
      /\ \A i \in DOMAIN seen : DOMAIN seen'[i] = DOMAIN seen[i]
      /\ \A i \in DOMAIN seen : \A c \in DOMAIN seen[i] :
            seen'[i][c] = IF i \in Members(d) /\ c \in {d} /\ seen[i][c] # Stale
                          THEN heard(seen[i][c]) ELSE seen[i][c]
  BY DEF DeliverMode, Told
<1>3. Members(d) = DOMAIN channels[d].members /\ \A m \in Members(d) : m \in RegisteredIds
  BY <1>1, MemberFacts DEF Members
<1>4. \A m, x \in Members(d) : u(nick_of[m]) = u(nick_of[x]) => m = x
  BY <1>3, NicksDiffer DEF nick, DInv, AccessInv
<1>5. \A m \in Members(d) : u(nick_of[m]) = nick(m)
  BY <1>3 DEF nick
<1>6. OpsOf(channels[d], nick_of) = NamesOf(Operators(d))
  BY <1>3, <1>5 DEF OpsOf, NamesOf, Operators
<1>7. OpsOf(channels'[d], nick_of) = NamesOf(Operators(d))'
  <2>1. Operators(d)' = {x \in DOMAIN channels'[d].members : "operator" \in channels'[d].members[x]}
    BY <1>1 DEF Operators, Members
  <2>2. \A m \in Members(d) : nick(m)' = u(nick_of[m])
    BY <1>1, <1>5 DEF nick
  <2> HIDE DEF nick_of, new
  <2> QED
    BY <1>1, <2>1, <2>2 DEF OpsOf, NamesOf
<1>8. NamesOf(Members(d))' = NamesOf(Members(d))
  BY <1>1 DEF NamesOf, Members, nick
<1> HIDE DEF nick_of, mid, new
<1>9. ASSUME NEW c \in DOMAIN channels', NEW i \in Members(c)' \cap DOMAIN seen'
      PROVE  Informed(i, c)'
  <2>1. c \in DOMAIN channels /\ i \in Members(c)
    BY <1>1, <1>9 DEF Members
  <2>2. /\ i \in DOMAIN seen /\ Informed(i, c)
        /\ c \in DOMAIN seen[i] /\ seen[i][c] # Stale
    BY <1>2, <1>9, <2>1, MemberFacts
  <2>3. CASE c = d
    <3> DEFINE v == seen[i][c]
               w == HeardMode(v, channels[d], first, nick_of)
               N == NamesOf(Members(d))
    <3>1. Pictures(v, N, OpsOf(channels[d], nick_of), channels[d].topic, channels[d].key)
      BY <1>6, <2>2, <2>3 DEF Informed
    <3>2. Pictures(w, N, OpsOf(mid, nick_of), mid.topic, mid.key)
      <4> HIDE DEF v, N
      <4> QED
        BY <1>1, <1>3, <1>4, <3>1, HeardPictures DEF mid
    <3>3. Pictures(HeardMode(w, mid, second, nick_of), N, OpsOf(new, nick_of), new.topic, new.key)
      <4> HIDE DEF w, N
      <4> QED
        BY <1>1, <1>4, <3>2, HeardPictures DEF new
    <3>4. seen'[i][c] = heard(v) /\ c \in DOMAIN seen'[i]
      BY <1>2, <2>1, <2>2, <2>3
    <3>5. Pictures(seen'[i][d], NamesOf(Members(d))', NamesOf(Operators(d))',
                   channels'[d].topic, channels'[d].key)
      BY <1>1, <1>7, <1>8, <2>3, <3>3, <3>4
    <3> QED
      BY <2>3, <3>4, <3>5 DEF Informed
  <2>4. CASE c # d
    BY <1>1, <1>2, <2>1, <2>2, <2>4, StaysInformed
  <2> QED
    BY <2>3, <2>4
<1> QED
  BY <1>1, <1>2, <1>9 DEF Accurate, DInv

\* A MODE list panics: the members that stay in `seen` hear nothing, and have missed the
\* change that was applied if it altered something.
LEMMA ModePanicTold ==
    ASSUME DInv, NEW id, NEW d, NEW done \in Changes, NEW change \in Changes,
           DeliverModePanics(id, d, done, change)
    PROVE  DOMAIN seen' \subseteq DOMAIN clients' /\ Accurate'
<1> DEFINE nick_of == [m \in DOMAIN channels[d].members |-> clients[m].nick]
           new     == apply_mode_change(channels[d], done, nick_of)
           missed  == IF UNCHANGED channels THEN {} ELSE {done[1]} \cap {"ChangeOperator", "Key"}
           heard(v) == [v EXCEPT !.missed = @ \cup missed]
<1>1. /\ UNCHANGED <<clients, nicks, config>>
      /\ d \in DOMAIN channels
      /\ done \in ChannelChange(Nicks)
      /\ DOMAIN channels' = DOMAIN channels
      /\ \A c \in DOMAIN channels : c # d => channels'[c] = channels[c]
      /\ IsChannel(channels[d])
      /\ channels'[d] = new
      /\ DOMAIN channels'[d].members = Members(d)
  <2>1. TypeOK /\ cmd_mode_channel_set(id, d, done, NoChange) /\ NoChange \in Changes
    BY ChangesAssumption DEF DeliverModePanics, cmd_mode_channel_set_panics, DInv, AccessInv, IInv
  <2>2. apply_mode_change(new, NoChange, nick_of) = new
    BY DEF apply_mode_change, NoChange, Flags, Lists, Ranks
  <2> HIDE DEF nick_of
  <2>3. /\ UNCHANGED <<clients, nicks, config>>
        /\ d \in DOMAIN channels
        /\ done \in ChannelChange(Nicks)
        /\ DOMAIN channels' = DOMAIN channels
        /\ \A c \in DOMAIN channels : c # d => channels'[c] = channels[c]
        /\ IsChannel(channels[d])
        /\ channels'[d] = apply_mode_change(new, NoChange, nick_of)
        /\ DOMAIN channels'[d].members = Members(d)
    BY <2>1, ModeOutcome DEF nick_of
  <2> QED
    BY <2>2, <2>3
<1>2. /\ DOMAIN seen' = DOMAIN seen \ {id}
      /\ \A i \in DOMAIN seen \ {id} : DOMAIN seen'[i] = DOMAIN seen[i]
      /\ \A i \in DOMAIN seen \ {id} : \A c \in DOMAIN seen[i] :
            seen'[i][c] = IF i \in Members(d) /\ c \in {d} /\ seen[i][c] # Stale
                          THEN heard(seen[i][c]) ELSE seen[i][c]
  BY DEF DeliverModePanics, Told, Drop, Restrict
<1>3. Members(d) = DOMAIN channels[d].members /\ \A m \in Members(d) : m \in RegisteredIds
  BY <1>1, MemberFacts DEF Members
<1>4. \A m \in Members(d) : u(nick_of[m]) = nick(m)
  BY <1>3 DEF nick
<1>5. OpsOf(channels[d], nick_of) = NamesOf(Operators(d))
  BY <1>3, <1>4 DEF OpsOf, NamesOf, Operators
<1>6. OpsOf(channels'[d], nick_of) = NamesOf(Operators(d))'
  <2>1. Operators(d)' = {x \in DOMAIN channels'[d].members : "operator" \in channels'[d].members[x]}
    BY <1>1 DEF Operators, Members
  <2>2. \A m \in Members(d) : nick(m)' = u(nick_of[m])
    BY <1>1, <1>4 DEF nick
  <2> HIDE DEF nick_of, new
  <2> QED
    BY <1>1, <2>1, <2>2 DEF OpsOf, NamesOf
<1>7. NamesOf(Members(d))' = NamesOf(Members(d))
  BY <1>1 DEF NamesOf, Members, nick
<1>8. /\ missed \subseteq {"ChangeOperator", "Key"}
      /\ UNCHANGED channels => missed = {}
      /\ ~UNCHANGED channels =>
            /\ "ChangeOperator" \notin missed => done[1] # "ChangeOperator"
            /\ "Key" \notin missed => done[1] # "Key"
  OBVIOUS
<1> HIDE DEF nick_of, new, missed
<1>9. /\ "ChangeOperator" \notin missed => NamesOf(Operators(d))' = NamesOf(Operators(d))
      /\ "Key" \notin missed => channels'[d].key = channels[d].key
      /\ channels'[d].topic = channels[d].topic
  <2>1. CASE UNCHANGED channels
    <3>1. channels'[d] = channels[d]
      BY <2>1
    <3> QED
      BY <1>5, <1>6, <3>1
  <2>2. CASE ~UNCHANGED channels
    <3>1. done[1] # "ChangeOperator" => OpsOf(new, nick_of) = OpsOf(channels[d], nick_of)
      BY <1>1, OperatorsKept DEF new
    <3>2. new.topic = channels[d].topic
      BY <1>1, ModeChangeFacts DEF new
    <3>3. done[1] # "Key" => new.key = channels[d].key
      BY <1>1, ModeChangeFacts DEF new
    <3> QED
      BY <1>1, <1>5, <1>6, <1>8, <2>2, <3>1, <3>2, <3>3
  <2> QED
    BY <2>1, <2>2
<1>10. ASSUME NEW c \in DOMAIN channels', NEW i \in Members(c)' \cap DOMAIN seen'
       PROVE  Informed(i, c)'
  <2>1. c \in DOMAIN channels /\ i \in Members(c) /\ i \in DOMAIN seen \ {id}
    BY <1>1, <1>2, <1>10 DEF Members
  <2>2. /\ i \in DOMAIN seen /\ Informed(i, c)
        /\ c \in DOMAIN seen[i] /\ seen[i][c] # Stale
    BY <2>1, MemberFacts
  <2>3. CASE c = d
    <3>1. Pictures(seen[i][d], NamesOf(Members(d)), NamesOf(Operators(d)),
                   channels[d].topic, channels[d].key)
      BY <2>2, <2>3 DEF Informed
    <3>2. Pictures(heard(seen[i][d]), NamesOf(Members(d)), NamesOf(Operators(d))',
                   channels[d].topic, channels'[d].key)
      BY <1>8, <1>9, <3>1, PicturesMissed
    <3>3. seen'[i][d] = heard(seen[i][d]) /\ d \in DOMAIN seen'[i]
      BY <1>2, <2>1, <2>2, <2>3
    <3> QED
      BY <1>7, <1>9, <2>3, <3>2, <3>3 DEF Informed
  <2>4. CASE c # d
    BY <1>1, <1>2, <2>1, <2>2, <2>4, StaysInformed
  <2> QED
    BY <2>3, <2>4
<1> QED
  BY <1>1, <1>2, <1>10 DEF Accurate, DInv

-----------------------------------------------------------------------------
(* Theorems *)

\* Every step keeps what members were told right.
LEMMA DInvStep == DInv /\ [DNext]_dvars => DInv'
<1> SUFFICES ASSUME DInv, [DNext]_dvars PROVE DInv'
  OBVIOUS
<1>1. TypeOK /\ AccessInv
  BY DEF DInv, AccessInv, IInv
<1>2. AccessInv'
  BY <1>1, AccessStep, DeliveryStep
<1>3. CASE UNCHANGED dvars \/ (rehash /\ UNCHANGED seen)
  <2>1. UNCHANGED <<clients, channels, seen>>
    BY <1>3 DEF dvars, rehash
  <2> QED
    BY <1>1, <1>2, <2>1, QuietStep DEF DInv
<1>4. ASSUME NEW id \in Ids, peer_joined(id), seen' = Put(seen, id, EmptyMap)
      PROVE  DInv'
  BY <1>2, <1>4, ConnectTold DEF DInv
<1>5. ASSUME NEW id \in DOMAIN clients, remove_client(id), TellQuit(id)
      PROVE  DInv'
  BY <1>2, <1>5, QuitTold DEF DInv
<1>6. ASSUME NEW id \in Ids, Update(id), UNCHANGED seen
      PROVE  DInv'
  <2>1. /\ DOMAIN clients' = DOMAIN clients /\ UNCHANGED channels
        /\ \A i \in DOMAIN clients : clients'[i].nick = clients[i].nick
    BY <1>6 DEF Update
  <2> QED
    BY <1>2, <1>6, <2>1, QuietStep DEF DInv
<1>7. ASSUME NEW id, NEW n, NEW c, cmd_invite(id, n, c), UNCHANGED seen
      PROVE  DInv'
  <2>1. /\ UNCHANGED <<clients, nicks, config>>
        /\ DOMAIN channels' = DOMAIN channels
        /\ \A d \in DOMAIN channels : d # c => channels'[d] = channels[d]
        /\ channels'[c].members = channels[c].members
        /\ channels'[c].key = channels[c].key
        /\ channels'[c].topic = channels[c].topic
    BY <1>1, <1>7, InviteTopicFacts
  <2> QED
    BY <1>2, <1>7, <2>1, QuietStep DEF DInv
<1>8. ASSUME NEW id \in Ids, NEW n \in Nicks, DeliverNick(id, n)
      PROVE  DInv'
  BY <1>2, <1>8, NickTold DEF DInv
<1>9. ASSUME NEW id \in Ids, NEW list, DeliverJoin(id, list)
      PROVE  DInv'
  BY <1>2, <1>9, JoinTold DEF DInv
<1>10. ASSUME NEW id \in Ids, NEW C, channels' = Leave(id, C), UNCHANGED <<clients, nicks, config>>,
              is_registered(id), TellPart(id, C)
       PROVE  DInv'
  BY <1>2, <1>10, PartTold DEF DInv
<1>11. ASSUME NEW id, NEW c, NEW who, DeliverKick(id, c, who)
       PROVE  DInv'
  BY <1>2, <1>11, KickTold DEF DInv
<1>12. ASSUME NEW id, NEW c, NEW first \in Changes, NEW second \in Changes,
              DeliverMode(id, c, first, second)
       PROVE  DInv'
  BY <1>2, <1>12, ModeTold DEF DInv
<1>13. ASSUME NEW id, NEW c, NEW topic \in Topics \cup {None}, DeliverTopic(id, c, topic)
       PROVE  DInv'
  BY <1>2, <1>13, TopicTold DEF DInv
<1>14. ASSUME NEW id \in Ids, UNCHANGED vars \/ Update(id), seen' = Drop(seen, {id})
       PROVE  DInv'
  <2>1. /\ DOMAIN clients' = DOMAIN clients /\ UNCHANGED channels
        /\ \A i \in DOMAIN clients : clients'[i].nick = clients[i].nick
    BY <1>14 DEF Update, vars
  <2>2. DOMAIN seen' \subseteq DOMAIN seen /\ \A i \in DOMAIN seen' : seen'[i] = seen[i]
    BY <1>14 DEF Drop, Restrict
  <2> QED
    BY <1>2, <2>1, <2>2, QuietStep DEF DInv
<1>15. ASSUME NEW id \in Ids, NEW done, NEW p, DeliverJoinPanics(id, done, p)
       PROVE  DInv'
  BY <1>2, <1>15, JoinPanicTold DEF DInv
<1>16. ASSUME NEW id, NEW c, NEW done \in Changes, NEW change \in Changes,
              DeliverModePanics(id, c, done, change)
       PROVE  DInv'
  BY <1>2, <1>16, ModePanicTold DEF DInv
<1> QED
  BY <1>1, <1>3, <1>4, <1>5, <1>6, <1>7, <1>8, <1>9, <1>10, <1>11, <1>12, <1>13, <1>14, <1>15,
     <1>16, DeliveryCases

\* In every reachable state every member of a channel was told of it rightly, whichever
\* handlers panicked, but for its operators and its key when a MODE list that changed them
\* panicked before its notice.
THEOREM DeliveryInvariance == DSpec => []DInv
<1>1. DInit => DInv
  <2>1. DInit => DOMAIN channels = {} /\ DOMAIN seen = {} /\ DOMAIN clients = {}
    BY EmptyMapIsMap DEF DInit, Init
  <2> QED
    BY <2>1, InitAccess DEF DInit, DInv, Accurate
<1> QED
  BY <1>1, DInvStep, PTL DEF DSpec

\* The messages that a member was sent add up to the channel as it is, with the exception
\* that MembersSeeChannel states for MODE lists that panic.
THEOREM MembersSeeTheirChannels == DSpec => []MembersSeeChannel
BY DeliveryInvariance, AccurateIsSeeing, PTL

\* A message to a channel reaches clients that know they are on it, and that know its
\* author to be there when outsiders may not speak.
THEOREM AuthorsAreKnown == DSpec => []AuthorsKnown
<1>1. DInv => AuthorsKnown
  <2> SUFFICES ASSUME DInv, NEW id \in RegisteredIds, NEW c \in Chans, NEW t \in BOOLEAN,
                      NEW m \in cmd_message_channel(id, c, t), m \in DOMAIN seen
               PROVE  /\ c \in DOMAIN seen[m] /\ seen[m][c] # Stale
                      /\ channels[c].flags \cap {"NoPrivMsgFromOutside", "Moderated"} # {}
                            => nick(id) \in seen[m][c].names
    BY Zenon DEF AuthorsKnown
  <2>1. c \in DOMAIN channels /\ can_talk(channels[c], id) /\ m \in Members(c)
    BY DEF cmd_message_channel
  <2>2. Informed(m, c) /\ c \in DOMAIN seen[m] /\ seen[m][c] # Stale
    BY <2>1, MemberFacts
  <2>3. channels[c].flags \cap {"NoPrivMsgFromOutside", "Moderated"} # {} => id \in Members(c)
    BY <2>1 DEF can_talk, Members
  <2>4. seen[m][c].names = {nick(x) : x \in Members(c)}
    BY <2>2 DEF Informed, Pictures, NamesOf
  <2> QED
    BY <2>2, <2>3, <2>4
<1> QED
  BY <1>1, DeliveryInvariance, PTL

\* How a client may leave channel c in a step and stay on the network.
LeavesFairly(c, id) ==
    \/ id \notin DOMAIN seen'
    \/ c \notin DOMAIN seen'[id]
    \/ /\ Operators(c) \ {id} # {}
       /\ c \in DOMAIN channels'
       /\ UNCHANGED <<clients, nicks>>

\* Who leaves by a removal is the client that is removed.
LEMMA QuitLeavers ==
    ASSUME TypeOK, NEW x \in DOMAIN clients, remove_client(x), TellQuit(x),
           NEW c \in DOMAIN channels, NEW id \in Members(c) \ Members(c)'
    PROVE  id \notin DOMAIN seen'
<1>1. x \notin DOMAIN seen'
  BY DEF TellQuit, Drop, Restrict
<1>2. CASE ~is_registered(x)
  <2>1. channels' = channels
    BY <1>2 DEF remove_client
  <2> QED
    BY <2>1 DEF Members
<1>3. CASE is_registered(x)
  <2>1. /\ channels' = Sweep(x)
        /\ Members(c) = DOMAIN channels[c].members /\ IsChannel(channels[c])
    BY <1>3 DEF remove_client, Members, TypeOK
  <2>2. c \in DOMAIN channels' <=> Members(c) \ {x} # {}
    BY <2>1 DEF Sweep
  <2>3. c \in DOMAIN channels' => channels'[c] = remove_members(channels[c], {x})
    BY <2>1 DEF Sweep
  <2>4. c \in DOMAIN channels' => Members(c)' = Members(c) \ {x}
    BY <2>1, <2>3, RemoveMembersType DEF Members
  <2> QED
    BY <1>1, <2>2, <2>4
<1> QED
  BY <1>2, <1>3

\* Who leaves by PART is the issuer, and it is told.
LEMMA PartLeavers ==
    ASSUME DInv, NEW x, NEW C, is_registered(x), channels' = Leave(x, C), TellPart(x, C),
           NEW c \in DOMAIN channels, NEW id \in Members(c) \ Members(c)'
    PROVE  id \notin DOMAIN seen' \/ c \notin DOMAIN seen'[id]
<1>1. /\ c \in DOMAIN channels' <=> ~(c \in C /\ Members(c) = {x})
      /\ c \in DOMAIN channels' /\ c \in C /\ x \in Members(c) =>
            DOMAIN channels'[c].members = Members(c) \ {x}
      /\ c \in DOMAIN channels' /\ ~(c \in C /\ x \in Members(c)) => channels'[c] = channels[c]
  BY LeaveFacts DEF DInv, AccessInv, IInv
<1>2. id = x /\ c \in C /\ find_member(x, c)
  BY <1>1 DEF Members, find_member
<1> DEFINE off == {d \in C : find_member(x, d)}
<1>4. x \in DOMAIN seen' => seen'[x] = Drop(seen[x], off)
  BY DEF TellPart
<1>5. c \in off
  BY <1>2
<1> HIDE DEF off
<1> QED
  BY <1>2, <1>4, <1>5 DEF Drop, Restrict

\* Who leaves by KICK is told if it kicked itself; else its kicker is an operator.
LEMMA KickLeavers ==
    ASSUME DInv, NEW x, NEW d, NEW who, DeliverKick(x, d, who),
           NEW c \in DOMAIN channels, NEW id \in Members(c) \ Members(c)'
    PROVE  LeavesFairly(c, id)
<1> DEFINE ids == {nicks[u(n)] : n \in {m \in who : find_nick(m)}}
           kicked == ids \cap Members(d)
<1>1. /\ UNCHANGED <<clients, nicks, config>>
      /\ d \in DOMAIN channels /\ x \in Operators(d)
      /\ DOMAIN channels' = DOMAIN channels
      /\ \A e \in DOMAIN channels : e # d => channels'[e] = channels[e]
      /\ DOMAIN channels'[d].members = Members(d) \ ids
  BY KickFacts DEF DeliverKick, DInv, AccessInv, IInv
<1>2. seen' = [i \in DOMAIN seen |-> KickHeard(x, i, d, kicked)]
  BY DEF DeliverKick
<1> HIDE DEF ids
<1>3. c = d /\ id \in kicked
  BY <1>1 DEF Members
<1>4. CASE id \notin DOMAIN seen
  BY <1>2, <1>4 DEF LeavesFairly
<1>5. CASE id \in DOMAIN seen /\ id = x
  <2>1. seen'[id] = Drop(seen[id], {c})
    BY <1>2, <1>3, <1>5 DEF KickHeard
  <2> QED
    BY <2>1 DEF Drop, Restrict, LeavesFairly
<1>6. CASE id # x
  BY <1>1, <1>3, <1>6 DEF LeavesFairly
<1> QED
  BY <1>4, <1>5, <1>6

\* A client that leaves a channel and stays on the network is told so, unless another
\* operator of the channel kicked it.
THEOREM LeaversAreTold == DSpec => LeaversTold
<1> DEFINE A == \A c \in DOMAIN channels : \A id \in Members(c) \ Members(c)' :
                   \/ id \notin DOMAIN seen'
                   \/ c \notin DOMAIN seen'[id]
                   \/ /\ Operators(c) \ {id} # {}
                      /\ c \in DOMAIN channels'
                      /\ UNCHANGED <<clients, nicks>>
<1>1. ASSUME DInv, [DNext]_dvars PROVE A
  <2> SUFFICES ASSUME NEW c \in DOMAIN channels, NEW id \in Members(c) \ Members(c)'
               PROVE  LeavesFairly(c, id)
    BY DEF LeavesFairly
  <2>1. TypeOK
    BY <1>1 DEF DInv, AccessInv, IInv
  <2>2. CASE UNCHANGED channels
    BY <2>2 DEF Members
  <2>3. ASSUME NEW x, NEW y, NEW d, cmd_invite(x, y, d) \/ cmd_topic_set(x, d, y)
        PROVE  FALSE
    <3>1. /\ DOMAIN channels' = DOMAIN channels
          /\ \A e \in DOMAIN channels : e # d => channels'[e] = channels[e]
          /\ channels'[d].members = channels[d].members
      BY <2>1, <2>3, InviteTopicFacts
    <3> QED
      BY <3>1 DEF Members
  <2>4. ASSUME NEW x \in DOMAIN clients, remove_client(x), TellQuit(x)
        PROVE  LeavesFairly(c, id)
    BY <2>1, <2>4, QuitLeavers DEF LeavesFairly
  <2>5. ASSUME NEW x \in Ids, NEW list, cmd_join(x, list)
        PROVE  FALSE
    <3>1. /\ DOMAIN channels' = DOMAIN channels \cup Joinable(x, list)
          /\ \A e \in DOMAIN channels \ Joinable(x, list) : channels'[e] = channels[e]
          /\ \A e \in Joinable(x, list) : DOMAIN channels'[e].members = Members(e) \cup {x}
      BY <2>1, <2>5, JoinFacts
    <3> QED
      BY <3>1 DEF Members
  <2>6. ASSUME NEW x \in Ids, NEW C, channels' = Leave(x, C), is_registered(x), TellPart(x, C)
        PROVE  LeavesFairly(c, id)
    BY <1>1, <2>6, PartLeavers DEF LeavesFairly
  <2>7. ASSUME NEW x, NEW d, NEW who, DeliverKick(x, d, who)
        PROVE  LeavesFairly(c, id)
    BY <1>1, <2>7, KickLeavers
  <2>8. ASSUME NEW x, NEW d, NEW first \in Changes, NEW second \in Changes,
               cmd_mode_channel_set(x, d, first, second)
        PROVE  FALSE
    <3>1. /\ DOMAIN channels' = DOMAIN channels
          /\ \A e \in DOMAIN channels : e # d => channels'[e] = channels[e]
          /\ DOMAIN channels'[d].members = Members(d)
      BY <2>1, <2>8, ModeMembers
    <3> QED
      BY <3>1 DEF Members
  <2>9. ASSUME NEW x \in Ids, \/ peer_joined(x) \/ Update(x) \/ UNCHANGED vars
                              \/ \E n \in Nicks : DeliverNick(x, n)
        PROVE  UNCHANGED channels
    BY <2>9 DEF peer_joined, Update, DeliverNick, cmd_nick, vars
  <2>10. UNCHANGED dvars \/ rehash => UNCHANGED channels
    BY DEF dvars, rehash
  <2>11. ASSUME NEW x \in Ids, NEW done, NEW p, DeliverJoinPanics(x, done, p)
         PROVE  FALSE
    BY <2>5, <2>11 DEF DeliverJoinPanics, cmd_join_panics
  <2>12. ASSUME NEW x, NEW d, NEW done \in Changes, NEW change, DeliverModePanics(x, d, done, change)
         PROVE  FALSE
    BY <2>8, <2>12, ChangesAssumption DEF DeliverModePanics, cmd_mode_channel_set_panics
  <2> QED
    BY <1>1, <2>1, <2>2, <2>3, <2>4, <2>5, <2>6, <2>7, <2>8, <2>9, <2>10, <2>11, <2>12,
       DeliveryCases
       DEF DeliverTopic, DeliverJoin, DeliverMode
<1>2. [DNext]_dvars /\ DInv => [A]_dvars
  BY <1>1
<1> QED
  BY <1>2, DeliveryInvariance, PTL DEF DSpec, LeaversTold

=============================================================================

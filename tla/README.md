# A TLA+ model of ellidri

ellidri is an IRC server. This directory holds a formal model of it: the shared state
behind the server's mutex with every command that changes it, what clients are told of
the changes and what they are shown of the state, the connection tasks and timers, the
reading branch of a connection with its line reader, replies and rate limiter, the
control task with its bindings, and the algorithms on text. TLC checks the model on small
instances, and TLAPS proves the most important properties for every instance.

## 1. Inventory

### The parts and how they interact

```
 main / Control  --binding commands-->  listeners  --spawn-->  connection tasks (one per client)
      |                                                          |  handle, IrcReader, RateLimiter
      | rehash                                                   |  peer_joined / handle_message / peer_quit
      v                                                          v
  State = Arc<Mutex<StateInner>>   <--remove_if_unregistered--  login_timeout (one per client)
      clients (slab)   nicks (map)   channels (map)   configuration
      |
      +--> per-client message queues --> the writing half of the connection tasks
```

| Component | State | Operations | What makes it correct |
|---|---|---|---|
| Shared state (`state/mod.rs`) | `clients`: slab id -> client; `nicks`: folded nickname -> id; `channels`; password, default channel modes, operators | `peer_joined`, `peer_quit`, `remove_client`, `remove_if_unregistered`, `rehash`, `handle_message` | The three maps agree with each other although ids are reused: handlers index the slab with what the other maps hold, and would panic otherwise |
| Registration (`client.rs`) | nine connection states | `apply` for each request | Nobody is registered without nickname, user name and password |
| Channels (`channel.rs`) | members with ranks, invitations, flags, key, limit, mask lists, topic | `add_member`, `apply_mode_change`, permission queries | Ranks come from ranks; the modes in force decide who gets in |
| Commands (`state/v1.rs`, `state/v3.rs`) | none | one handler per request | Each takes the shared state from one consistent state to another |
| Connection tasks (`net.rs`) | the remembered id, where the task waits | `handle`, `handle_buffer`, `login_timeout` | They serve and remove their own client, every client is removed in the end, every removed client's connection ends |
| Message delivery (`state/mod.rs`, `state/v1.rs`) | none | `send_notification`, `broadcast` and the notices of each command | What a member was told adds up to the channel as it is |
| Read-only commands (`state/v1.rs`) | none | LIST, LUSERS, NAMES, TOPIC, MODE queries, WHO, WHOIS | They agree with each other on what a client may see |
| Rate limiter (`net.rs`) | used points, last round | `rate_limit!` | A client gets no more through than the burst and the rate; its waits end |
| Control (`control.rs`, `main.rs`) | bindings and their channels | start, rehash, failures | The bindings served are those configured |
| Line reader (`ellidri-reader`) | buffer, chunk counter | `poll_read` | Lines within the limits come out whole, longer ones are refused |
| Reply buffers (`ellidri-tokens/src/buffers.rs`) | buffer, label, open batch | `message`, `lr_batch_begin`, `lr_end` | One well-formed labelled response per labelled message |
| Masks, modes, messages (`util.rs`, `ellidri-tokens`, `ellidri-unicase`, `data/`) | text | parsing, matching, formatting | The algorithm computes what its text format means; what one client writes is what the others read |
| Configuration (`config.rs`) | none after loading | parsing, validation | |

The whole shared state is behind one `tokio` mutex, and no handler awaits while it
holds the lock, so a call of `State` is atomic. What is hard is what happens *between*
calls: tasks and timers keep an id across awaits while the client it named is removed
and the id given away; a rehash changes the configuration between two commands of one
registration; a failed binding reports to a control task that has already replaced it,
over bounded channels in both directions; an invitation outlives its client; a panic
takes a task down before it cleaned up, or stops a `JOIN` list, a `MODE` list or a USER
half-way; a `MODE` list or a `JOIN` list takes effect while it is being executed; a line arrives in pieces that end anywhere, between a CR and its LF
too; the points of a client, the time since they were counted and the wait they cost are
32-bit numbers; lists of masks and queries of modes are text that is taken apart again.
`PROJECT.json` lists these hazards at their lines.

### Modules

| Module | Models | Notes |
|---|---|---|
| `Maps` | `HashMap`, `Slab` | functions whose domain is the set of keys in use |
| `Registration` | `ConnectionState::apply` | one table per request |
| `Channel` | `channel.rs`, `check_join` | channels as records, operators without state |
| `Network` | `StateInner` and all state-changing commands | the core: variables `clients`, `nicks`, `channels`, `config` |
| `Rooms` | what the network promises its users | abstract specification, no ids to reuse, no modes |
| `Server` | connection tasks and timers around `Network` | EXTENDS `Network`; variables `task`, `slot`, `timer`, `owner` |
| `Control` | `control.rs` and `net::listen` | variables `phase`, `new_bindings`, `todo`, `bindings`, `tasks`, `failures`; meets `Network` only in `finish_rehash`, whose effect there is the action `rehash` |
| `Views` | the read-only commands | EXTENDS `Network`; each command is the set of lines its issuer gets |
| `Delivery` | what commands send to clients about channels, `can_talk`, channel messages | EXTENDS `Views`; variable `seen`: what each client knows from its messages |
| `IrcReader` | `ellidri-reader` | variables `wire`, `closed`, `available`, `bytes`, `n`; one step per turn of `read_line` |
| `ReplyBuffer` | labels and batches of `ReplyBuffer` | records, operators without state |
| `RateLimit` | `rate_limit!` | `u32` arithmetic modulo `Word`; `now`, and the history variable `total` |
| `Incoming` | the reading branch of `handle` | composes `IrcReader`, `ReplyBuffer` and `RateLimit` |
| `Strings` | the `str` methods used | strings are sequences of characters (external) |
| `MaskSet` | `MaskSet`, `match_mask` | the list is the comma-separated string it is in the code; offsets are in bytes |
| `ModeQuery` | `mode.rs`, the notice of `cmd_mode_channel_set` | operators without state |
| `Message` | `Message::parse`, tags, `MessageBuffer`, `message_build` | operators without state |
| `Text` | composes the last three | a behaviour types a line, a tag value or a query, or changes a mask list |
| `MCNetwork`, `MCDelivery`, `MCServer`, `MCControl`, `MCIncoming`, `MCText` | instances for TLC | nicknames, changes, configurations, request sets, configuration files, streams, heads of lines |
| `MapTheorems`, `NetworkProofs`, `RoomsProofs`, `LayerProofs`, `ControlProofs`, `IncomingProofs`, `StringProofs`, `TextProofs` | theorems | |

### How the model corresponds to the code

* Definitions keep the code's names. The action of a handler is the whole handler:
  its early returns are guards, its writes are primed variables, and
  `handle_message`'s trailing `apply_request` is `Succeed`. Commands that are refused,
  and requests that only reply, do not change the shared state and have no action.
* **Ids.** `peer_joined` may return any vacant id. The slab returns the last one freed,
  or a new one: the model allows more orders than the code, and all the code's.
* **Comma lists** (`JOIN`, `PART`, `KICK`) are sets. The loops treat each target on
  its own: a repeated target finds the client already in (or already out) and is
  refused. A `KICK` reads the issuer's rank once, before the loop, so a client may
  kick itself in the middle of its list. A `JOIN` of one channel with two keys
  succeeds if one of them is right, in either order.
* **MODE.** A list has at most two changes, either of which may be `NoChange`. Two are
  enough for the one effect of a list that single changes do not have: the issuer's
  rank is read before the first change, and a first change may take that rank away.
  Ranks are changed for the member whose nickname equals the parameter exactly, as in
  the code (other commands fold the case).
* **Keys.** `+k` stores the first `keylen` bytes (`Truncate`; it is `None` where that cut
  falls inside a character, and then the handler panics), `JOIN` compares the key as given.
  A channel without a key refuses a join *with* one, as in `check_join`.
* **Text.** Nicknames, user names, masks, keys and topics are opaque. `Fold` is the
  case folding of nicknames; `Match` says which nicknames and full names a mask covers.
  A full name is the pair of nickname and user name; the host, which never changes
  after `peer_joined`, is left out. `None` stands for the empty strings of a new client
  (so the configuration `userlen: 0`, with which a user name would be empty, is outside
  the model).
* **Requests.** The constant `Requests` restricts an instance to some commands, so that
  each run can afford the commands its question is about. The proofs hold for every
  set of requests.
* **Configuration.** A rehash picks any member of `Configs`. Only fields that commands
  read are kept. `has_given_password` is not revoked by a rehash, as in the code.
* **Tasks.** `task[c]` says where the `handle` of connection `c` is: `open` (in
  `select!`), `muted` (a line was answered with 999 999 points, so the reading half
  sleeps for hours while the writing half goes on), `closing` (waiting for the mutex to
  call `peer_quit`), `panicked`. `slot[c]` is the `peer_id` both the task and its timer
  remember. `owner[id]` is the connection at the other end of the client's queue; the
  queue closes when the client is dropped. A connection that has ended stands for a
  later one again, once its timer has fired and its queue is closed.
* **Panics.** A panic unwinds the task without `peer_quit`; the `tokio` mutex is not
  poisoned, what the handler has written stays, and the replies to its issuer are lost. Two
  things in the handlers panic:
  - a `todo!()`: AUTHENTICATE (`v3.rs:60`), and PRIVMSG, NOTICE and TAGMSG to everyone
    (`v1.rs:1385`);
  - a slice of a `str` at a byte inside a character. Texts that are longer than the limit are
    cut so by AWAY (`v1.rs:42`), KICK (346), TOPIC (984), USER (1029 and 1030) and MODE `+k`
    (`channel.rs:280`), and `match_mask` cuts the text it compares (`util.rs:78`): in JOIN for
    the masks of the channel, and in WHO (`v1.rs:1217`, 1229).

  Most of these come before the first write (`panics_before`). The three that come after one
  are actions of their own: USER has set the user name but not the real name
  (`cmd_user_panics`); JOIN has entered, and announced, the channels of its list up to the one
  whose mask panics (`cmd_join_panics`); MODE has applied the changes before `+k` and announces
  none of them, as the notice is written after the loop (`cmd_mode_channel_set_panics`). The
  constant `Panicking` holds the requests that an instance lets panic, `Trips` the texts on which
  `match_mask` panics with a mask. `handler_panic` of `Server` is any of these panics.
* **Bindings.** A reload may be asked for at any time (REHASH, SIGUSR1) and the file then
  holds any member of `Files`. `do_rehash` is not one step: it awaits every
  `Sender::send`, so loading the file and dropping bindings (`do_rehash`), each command
  or new task (`send_command`, `spawn_binding`) and the end (`finish_rehash`) are
  actions between which binding tasks run; `todo` holds the addresses to come, in any
  order (the code goes through them in the order of the file). `run` reads failures only between
  reloads. Start-up is a reload that finds an empty list.
* A binding task is a record in `tasks` until it returns. It is `spawned`, then `online`,
  or `failing` until there is room for its report in the `stop` channel. A command
  channel is closed for the task when no entry of `bindings` names it, and for Control
  when the task is no longer in `tasks`; then a send fails and the code spawns a new
  task. Task names are used again when neither a task nor an entry has them, and
  `do_rehash` waits for enough free names: that is the only bound of `Control`.
* An address occurs once in a configuration (`config.rs` does not check this). `run`
  keeps a `stop` sender of its own, so its branch for a closed `stop` channel, which
  would end the server, cannot be taken and is left out.
* **What clients know.** `seen[id][c]` is what a client that believes its messages knows
  of channel `c`: names, operators, topic and key. A queue is a FIFO and commands run one
  at a time, so a message is applied in the step that sends it; nothing orders the queues
  of different clients and no property relates them at different times. KICK removes the
  member *before* the members are told, so a kicked client is not told: its entry becomes
  `Stale`, and is replaced when it joins again. A client that kicks itself is told, as the
  issuer. A client whose handler panicked leaves `seen`, as its task reads nothing more. What a
  MODE list applied before it panicked is noted in `missed` of each member that was not told.
* **What clients are shown.** A command of `Views` is a set of lines; replies that only end
  a list are left out. `who_user` shows one channel, the first in the order of a
  `HashMap`: the operator is the set of lines it may be.
* **The reading branch.** A stream is cut into pieces in every way: `Fill` is what
  `poll_fill_buf` may return. A byte is a line end, `@` (which raises the limit), any other
  byte, or one that is not UTF-8. A handler is any sequence of up to `MaxReplies` of the
  calls handlers make on their `ReplyBuffer`; what it does to the shared state is
  `Network`. `Word` stands for 2^32.
* **Text algorithms.** In `Text` and its parts text is not opaque. White space is space, CR
  and LF: tabs and the white space of Unicode, which Rust's `trim` removes too but which do not
  end a word (`message.rs:16-19`), are left out, so nothing is said of lines with them.
  A behaviour appends one character at a time, so the properties, which are invariants, hold
  for every text up to the bound. Characters that no branch of the code tells apart are
  represented by one; command names are one character, as are the message id and the time
  that the server adds.

## 2. Runs

Passing runs (bounds in the `.cfg` of each; deadlock is checked in all but `control`,
`incoming` and `text`):

| Run | Question | Bounds and why they are enough |
|---|---|---|
| `session` | Do `clients` and `nicks` stay inverse, and are registered clients complete and authenticated, for every order of PASS, NICK, USER, CAP, AWAY, SETNAME, MODE, OPER, KILL, QUIT, channel commands, timeouts and rehashes, whichever handlers panic? Do WHO and WHOIS find whom they should, and do the forms of WHO agree, for invisible, absent and server operators' clients on and off a channel that may be secret? | 2 clients, 3 nicknames of which two differ by case only (so renaming to the same folded name, collisions and reuse after a removal all happen), 1 channel, 2 configurations with different passwords and default modes, a ban whose mask panics and a key that is cut inside a character. Names, and a line of WHO, relate at most two clients at a time. A capability only decides how many ranks a line shows (and, in `Delivery`, who gets TAGMSG), so none is negotiated here: that is left to the theorems. |
| `channels` | Is a member always a registered client, are empty channels removed when they should be, does the network implement `Rooms`, does what members were told add up to the channels, is who leaves told, and do LIST, LUSERS, NAMES and TOPIC agree, with handlers that panic in a JOIN list and in USER? | 3 clients (a third one is needed to take over an id while two others share a channel), 2 channels (a JOIN/PART list with one success and one refusal, and clients that share one channel of two), channels that are secret by default and ones that are not, a password that may be set (so USER removes clients), a ban with a mask that panics on a nickname, so that a JOIN list may stop between its channels. |
| `ranks` | Can anybody but an operator make an operator, with MODE lists and self-KICK? Does every member hear of it? Do messages come from authors their readers know? | 3 clients, 1 channel (commands never relate ranks of two channels), operators and half-operators made, operators unmade, and the flags that guard TOPIC, messages and views. No handler panics here: `access` has the panic that concerns ranks. |
| `access` | Does whoever enters a channel come in within the limit, with an invitation if one is needed, and unbanned? Do members know the operators and the key, whatever they are not told when MODE panics at the key? | 2 clients, 2 nicknames, 1 channel, one or two changes of each kind of mode, keys within `keylen`, longer and with the cut inside a character (after another change of the list and alone), limit 1 (reached by the first member), a nickname mask and a full-name mask, one of which panics on a name that it does not cover, default modes that change at a rehash. |
| `tasks` | With stale ids and panics, does every client still have a task that will remove it, except those whose task panicked? Under fairness, do unregistered clients vanish and do connections of removed clients end? | 2 connections, 2 ids, a password that may be set (so USER removes clients). An ended connection stands for a later one, and a connection may end while the other one gets its id, so two are enough for every stale use; no symmetry, as liveness is checked. |
| `control` | Does the list of bindings agree with the configuration after any interleaving of reloads, failures and reports, do dropped bindings close, do reloads end? | 2 addresses, 3 task names (an address may have an old and a new task while the other one has its own), files that add, drop, change and break a binding, capacities 1 instead of 8, so that both kinds of channel fill. |
| `incoming` | Are lines handled whole, once and in order however the stream is cut, and refused only for cause? Are labelled responses well formed? Does the limiter keep the rate, with its arithmetic modulo a word? Is everything that was sent handled in the end? | Limits of 3 bytes, and 5 with tags, at most 4 reads per line as in the code, a buffer of 3 (smaller than a line, so a line fills it and a CR may end it); six streams on, below and above these limits, with both line ends, blank lines, no end at the end, and a line that is not UTF-8. At most 3 replies: an opening of the batch, one message inside, and a second opening that must do nothing. Costs of 1, 2 and 5 points with burst 3 (the last one alone is more than the burst), idle time up to 3 between lines (more than a point costs), words of 16. |
| `text` | Do the parsers, writers and the mask matcher compute what their definitions say, and does what one client writes reach the others? | All lines of up to 6 characters after heads with and without tags and prefix (the limit of the parameters is 3 instead of 15, so it is passed); tag values of up to 3 of all the characters that are escaped, or that escapes make; queries of up to 4 letters with no, one, two and an empty parameter; lists of up to 5 bytes made of masks of up to 4, matched against names of up to 3 characters, one of them two bytes wide. |

Where no constant names a nickname or a channel, permutations of these are a symmetry
too (`FullSymmetry`). In `text` every behaviour stops at its bound, and
in `incoming` when the stream has been handled or the connection has ended, so deadlock is
not checked there.

Deadlock is not checked in `control` because Control and a binding can really wait for
each other (`Stuck`): a binding that failed waits for room in the full `stop` channel,
which Control does not read during a reload, while the reload waits for room in that
binding's full command channel. With capacity 8 that takes eight unread reports and nine
reloads during one attempt to bind and report; `ReloadEnds` says that nothing else stops
a reload.

Runs that show a disagreement between the code and what the repository says of it:

| Run | Stated | What the code does |
|---|---|---|
| `password` | "Clients need to issue a PASS command with this password to register" (`state/mod.rs:134`) | only USER looks at the password; a rehash between USER and NICK lets a client in without PASS |
| `stale_task` | The id "must be used to handle messages from this client" (`state/mod.rs:76`) | after KILL or a timeout a task goes on with an id that may belong to a younger connection; the timer of a connection that has ended, which is never cancelled, does the same |
| `panic` | `remove_client` does "the various cleanup needed when a client disconnects" (`state/mod.rs:235`) | a handler that panics ends its task without `peer_quit`; a registered client stays for ever |
| `lost_binding` | "If a binding is present in both configurations, `Control` will keep the binding" (`control.rs:35`) | the failure report of a task that a reload has already replaced removes the address from the list, and with it the working task |

None of the passing properties depends on these being absent: the same model, with
stale ids, stale timers, leftover invitations and panics, satisfies them all.

### Fairness

`FairServerSpec` assumes weak fairness of `queue_closed`, `close` and `login_timeout`
for each connection, and of nothing else. `login_timeout` is a sleep followed by a call
under the mutex; `close` waits for the mutex, which `tokio` hands over in order of
arrival; `queue_closed` becomes possible when the client has been dropped and stays so,
and the writing half ends once the peer has taken the rest of the queue or TCP has given
up. No client has to send anything, to disconnect or to be read from, so there is no
fairness on `handle_buffer` or `connection_error`.

`FairControlSpec` assumes weak fairness of each binding task (`TaskStep`), of the
sends and spawns of a reload for each address, and of `finish_rehash`: the runtime polls
a task that can go on. There is none on `do_rehash` (nobody has to ask) nor on
`receive_failure` (`select!` picks among ready branches, and reloads may always be
ready).

`IncomingSpec` assumes weak fairness of reading what has arrived, of a handler's return and
of the charge that follows (the runtime polls a task that can go on, and no handler loops),
and of time during a delay. Peers need not send more or close; `wire` holds what TCP will
deliver.

### Observations

Behaviour that the modelling met, that the properties above take as it is, and that a
maintainer may want to know:

* A kicked client is not told, as it is removed before the members are (`v1.rs:351`);
  it goes on believing that it is on the channel (`LeaversTold` allows just this).
* Invitations name ids: `remove_client` leaves them behind (a TODO at `state/mod.rs:241`),
  and the next client with the id is invited. No property speaks against it: to
  `EntryControlled` such an invitation is one like others, and the key, which `check_join`
  compares in the same state, is no part of it either.
* `MODE +ok bob <key>` with a key that is cut inside a character makes bob an operator, panics,
  and tells nobody: neither the members nor bob learn it from a MODE message (`channel.rs:280`
  comes before the notice of `v1.rs:573-594`). The same holds of `-o`, and of a key that an
  earlier `-k` of the list removed. `MembersSeeChannel` excepts exactly these (`missed`).
* A JOIN list that panics at the mask of one channel leaves its issuer on the channels before
  it, announced, without the names and topics, and without a task.
* `MODE +k` announces a key whole and stores its first `keylen` bytes; whoever joins with
  the announced key is refused (`MembersSeeChannel` allows the two to differ so).
* `MODE +I` without a parameter lists the exceptions (`v1.rs:528`).
* NAMES and TOPIC hide a secret channel from server operators, LIST and WHO do not
  (`ListAgrees` is about other clients).
* The reader's documentation allows 4096 + `message_max` bytes to a line with tags; such a
  line is also refused if it takes more than four reads, and the last read of a line that
  is accepted may bring it past the limit by up to one buffer (`ReaderBounded`).
* The reply `ERR_INPUTTOOLONG` is written to a buffer that is dropped.
* KICK lists and echoed messages write several messages outside a batch, so that only the
  first of them has the label.
* Labels are answered whether or not the client negotiated `labeled-response`
  (`has_labeled_response` has no caller), and a label is echoed escaped a second time.
* `match_mask` slices the text one byte further where `*` is tried (`util.rs:77`), which
  panics inside a character of several bytes. `MatchesByDefinition` is about the texts for
  which it does not, and `Trips` stands for those for which it does.
* A `MaskSet` keeps an empty piece for each mask that was removed, and a mask with a comma
  is several masks, so that one of them can be in the list twice.
* The last parameter of a MODE query may have a space or start with a colon; the members
  then read another parameter than was applied.
* `Rfc1459Strict` maps `\` to itself where its comment says `|`.

## 3. Proofs

All theorems hold for every value of the constants that satisfies the named
assumptions: `FoldAssumption` (folding is defined on nicknames and `*`, and no
nickname folds to what `*` folds to), `KeyAssumption`, `ChangesAssumption`,
`ConfigsAssumption`, `NoneAssumption` (which make `None` and the constant sets what
their comments say), `LimitAssumption`, `MatchAssumption`, and for `Control`
`FileAssumption` and `CapAssumption`. What clients are told and shown needs two more:
`ChansAssumption` (the channel names are a finite set without `*`, so that LIST can count them) and
`ViewAssumption` (`None` is no view). The theorems about `Incoming` rest on
`ReaderAssumption` (limits and buffer are positive numbers, of any size),
`BatchAssumption` (`NoBatch` is no number), `StreamsAssumption` (streams are finite
sequences of bytes, of any length) and the assumptions of `RateLimit`; those of `Text` are
named in its paragraph. TLC evaluates all of them in every run of the module.
Nothing bounds the numbers of clients, nicknames, channels, connections or bindings.

**Network** (`NetworkProofs`). The inductive invariant is

    IInv == TypeOK /\ NicksConsistent /\ MembersRegistered /\ InvitesDisjoint /\ SaneClients

`NicksConsistent` and `MembersRegistered` are not inductive alone: that a client is
removed from `nicks` under its *own* nickname needs the type of the record and the
inverse direction of the map, and that KICK and PART remove members only needs the types
of channels. `RegisteredComplete` and `PasswordRequired` do not speak of the states on the way
to registration; `SaneClients` does: for each connection state it says what must have
been given so far (a nickname in `NickGiven`, a user name and the password in
`UserGiven`, and so on; nothing in `CapGiven`, where CAP forgets).

The twenty commands are first reduced to a few kinds of step (`NextCases`): an update of
the issuer's own record that keeps nicknames (`Update`), a change of nickname
(`cmd_nick`), a removal (`remove_client`), a new client, a rehash, and a change of
channels only (`ChannelStep`, which bounds what may happen to members and invitations).
Handlers that panic are no new kinds (`PanicCases`): what they have written is such an update,
a change of channels, or nothing.
Each part of the invariant then has one lemma with one case per kind of step.
Consequences: `TypeCorrect`, `NicksStayConsistent`, `MembersStayRegistered`,
`InvitationsUsedUp`, `RegistrationComplete`, `PasswordNeeded`, and the action property
`RemovalSweeps`.

The rules of channels need a little more than `IInv`: `AccessInv` adds that nobody is
founder or protected (`can_change` accepts founders, so who could make one decides who
could make an operator) and that channels have finitely many members (a limit is compared
with their number). From it follow three action properties. `OperatorsMadeByOperators`:
only a mode change and entering an empty channel give that rank, and of a change that gives
it `can_change` asks that the issuer has it. `EntryStaysControlled`: only JOIN adds members,
and each channel of its list is checked in the state that the JOIN finds, in a list that
panics too. `EmptiedByKick`: PART, QUIT and removals drop the channels they empty. `NetworkImplementsRooms` shows, kind of step by kind
of step, that a state of `Network` with everything but nicknames and members hidden takes
steps of `Rooms`: the mapping of a removal needs `MembersRegistered` (who is removed from
the clients leaves all rooms), that of NICK needs `NicksConsistent`.

**Views and Delivery** (`LayerProofs`). `WhoFindsWhomItShould`, `WhoFormsAgree` and
`ListsAgree` hold in every state that satisfies `AccessInv`: the handlers of WHO look clients
up by name, through channels and one after another, and `NicksConsistent` and
`MembersRegistered` make the three ways lead to the same clients. `ListsAgree` counts, so it
rests on bijections: of channels with lines of LIST, and of members with the names of
NAMES. For `Delivery` the inductive invariant

    DInv == AccessInv /\ DOMAIN seen \subseteq DOMAIN clients /\ Accurate

has one lemma per message, and one for each handler that panics after a write. `Accurate` is
`MembersSeeChannel` with the key as stored in place of the one that MODE shows, and with its
exception for what a panic kept from a member: a MODE list that panics at the key (`ModePanicTold`)
must have changed nothing, or operators, or have removed the key, and has then noted it in
`missed` of all members; a JOIN list that panics (`JoinPanicTold`) tells the members of the
channels it entered, and its issuer is told of no more. It is inductive only with
`NicksConsistent`: messages carry names, so removing one name from what others know must
remove one member and no other. The hardest steps are JOIN (who enters is told names, ranks, topic and key as they will be after
the step) and MODE (of two changes the second may undo the first). Results: `MembersSeeTheirChannels`, `AuthorsAreKnown` (which uses
that a speaker on a closed or moderated channel is a member) and `LeaversAreTold`.

**Server** (`LayerProofs`). The tasks of `Server` take steps of `Network` or leave its
variables alone by their definitions (a lemma says so, `ServerTakesNetworkSteps`), so the
theorems about `Network` hold under them. `NobodyOrphaned`: the
invariant is `NoOrphans` with the types and `IInv`; the argument is that a task stops
being `open` or `closing` only when its own client is gone or by a panic, and that a step
which removes somebody else's client drops that client's queue too. The same invariant
(`SInvariance`) gives `ServerTypeCorrect`. `ServerKeepsRules` carries the action properties
and the refinement of `Rooms` over: with tasks, timers and stale ids the network still
implements `Rooms`.

**Control** (`ControlProofs`). The inductive invariant is

    CInv == ControlTypeOK /\ DeadBindingsReported /\ Covered /\ Serving

`BindingsAsConfigured` speaks of the time between reloads, and `ReloadCompletesList` of a
reload's last step. What a reload keeps on the way is `Covered` (the list never exceeds
the configuration, and the list and `todo` together cover it) and `Serving` (every
listed live task belongs to its address, and once treated ends up in its configured
mode). A failure report drops an entry between reloads only, which is why `Covered`
promises the lower bound during a reload only. Results: `FailuresAreReported`,
`ConfigurationInForce`, `ReloadRestores`, `ControlTypeCorrect`.

**RateLimit** (in `IncomingProofs`). `RateBounded` is not inductive: it speaks of the time,
and a charge compares points with the time since `last_round` only. The invariant is

    RateInv == RateTypeOK /\ used_points <= Burst
               /\ total * Rate <= used_points * Rate + last_round
               /\ (Awake => last_round <= now) /\ (last_round > now => last_round = wake)

All points not paid for by the time before `last_round` are in `used_points`. A charge
rounds the paid points down, so the division loses time and never points; after a wait
`last_round` is the end of the wait, so that the time waited for is not counted again.
`RateAssumption` says that the burst and the cost of one line fit into 32 bits, also in
milliseconds: 999 999 points at the rates of the code do. The arithmetic modulo a word then
never wraps, which the proof shows from the invariant (`used_points <= Burst`).
Results: `RateInductive`, `RateBoundedHolds`.

**Incoming** (`IncomingProofs`). The inductive invariant is

    IncomingInv == IncomingTypeOK /\ ReaderInv /\ RepliesInv

`LinesHandledInOrder` compares what was handled with `LinesOf(stream)`, which scans the whole
stream with the recursive function `LinesUpTo`; it says nothing of the line that is being
read. `ReaderInv` does (`InStep`): after as many bytes as the reader has used, the scan has
made exactly the lines handled and holds the bytes of the open line. With `RestIsAhead` (what
is buffered and on the wire is the rest of the stream) a turn of `read_line` is then a run
of the scan over the bytes it uses, up to and with the first line end (`FirstEnd`), which is
shown by induction over the number of bytes. `LineIsOpen` says that the open line has no
line end yet and that its limit comes from its first byte; `RefusalsHaveCause` needs it.
`RepliesInv` follows the reply buffer: the messages so far are in order for a batch that is
open, or for one that is not, and `lr_end` closes the only one there can be. Results:
`ReaderIsBounded`, `LinesAreHandledInOrder`, `RefusalsHaveCause`, `ResponsesAreLabelled`, and
`IncomingRateBounded`, to which `RateInv` carries over because the actions call `RateLimit`'s
(`IncomingImplementsRateLimit`, a lemma).

Induction over data is used here in the form of sets, as the provers cannot instantiate
the library's induction rules: `SetInduction` says that a set of numbers that has 0 and, with
each number, the next one has all numbers; it follows from the least element of a set
(`WFMin`, for a relation that is a set). `LinesUpToDef` shows with it that the recursive
definition of the function is satisfied, which is not given for a function that is
defined by CHOOSE.

**MaskSet** (`StringProofs`). `MatchMaskIsGlob` is about the algorithm: for every mask and
every text `match_mask` ends and answers as `Glob` says, the definition by cuts of the text,
or panics for the two causes together. A turn of the loop (`TurnFacts`) cuts off the mask's
stars and the chunk after them. `GlobCut` and `GlobJoin` translate that for the definition: a
mask matches exactly if its chunk has a place in the text from where the rest matches.
`FirstPlace` is why the loop never has to come back: the rest of the mask is empty, and then
the chunk must end where the text ends, or it starts with a star, and then whatever a later
place leaves for it an earlier one leaves too (`GlobStar`). Each turn shortens the mask, so
`Len(mask) + 1` turns are enough (`AfterThen`, by `SetInduction` over the turns; `TurnsDef`
shows that the recursive function is defined). The list's inductive invariant is

    MaskIInv == raw \in Seq(Char) /\ ListIsKept /\ DOMAIN listed \subseteq Masks

`JoinCount` says that two strings with a comma between them have the pieces of both, each as
often; `insert` makes such a string, and `RemoveCount` takes one apart around the removed mask,
whether a comma follows it or not, and puts it together again. Results: `MatchMaskIsGlob`,
`MaskInvariance`, `ListsAreKept`, `ListsMatchByDefinition`. `MaskAssumption` only says that
masks and names are strings and that the bounds are numbers.

**Rooms** (`RoomsProofs`). `RoomsSound`: the abstract specification itself keeps names
distinct and rooms made of users.

**Text** (queries and escapes in `StringProofs`, messages in `TextProofs`). Each property of `Text` speaks of one text, so it is proved for every
text of characters, and `TypedInvariance` (texts and parameters are sequences of strings,
whatever is typed) carries it to the states. The bounds `MaxLine`, `MaxTag` and `MaxModes` play
no part. Three more inductive invariants say what the text of a job is made of, and how it
began:

    RelayIInv  == TypedIInv /\ (job = "relay" => \A i \in 1 .. Len(text) : text[i] \notin {"CR", "LF"})
    HeadIInv   == TypedIInv /\ (job = "relay" => Inner(text) /\ \E h \in Heads : IsPrefix(h, text))
    NoticeIInv == TypedIInv /\ (job = "modes" => params \in ModeParams)

The assumptions are `TextAssumption` (texts are made of strings); `ParamsAssumption` (a line
has at least two parameters); `LineAssumption` (no CR or LF before the end of a line, as the
reader ends it at the first one, and no NUL: `parse` refuses such a line); `HeadAssumption` (a
line begins with tags and a prefix or without, and a command, which is not empty, with a space
after each); and `QueryAssumption` (the parameters of a query are single words and fewer than a
line may have: the channel and the modes are parameters too). The last one leaves out a last
parameter with a space or a leading colon, for which the property is false (see Observations).

* *Folds.* The code that is a loop over a text is a `FoldLeft`. `FoldExists` and `FoldRun` turn
  a fold into its values after each number of steps, about which `SetInduction` can be used;
  every fold of `Message` and `ModeQuery` has a lemma of this form (`QueryFold`, `ChangesFold`,
  `WriteFold`, `ReadFold`, `TaggedFold`, `ParamFold`, `NoticeFold`).
* `QueriesReadByDefinition`: after i characters the letters read are those up to place i, each
  with the sign in force there (`LettersRead`), and after m letters the parameters taken are as
  many as there were letters with a parameter, or all (`ChangesRead`). Letters are found by
  their rank (`Rank`, `Ordinal`: how many letters are not after this one, and the letter with
  that rank), which translates between places of the text and places in the list.
* `ReadWhatIsWritten` and `TagValuesAreKept`: reading the escaped form of one character leaves
  the reader as before it, with the character read (`ReadOne`); and an escaped text has no
  character that ends a value or a tag (`WrittenIsClean`), so that cutting the tags at `;` and
  `=` finds it whole (`TagBufRead`).
* `MessagesAreRelayedAsWritten`: `parse` is taken apart into tags, prefix, command and
  parameters, each a cut of the line (`ParseParts`), and the message that is built is written
  as such cuts (`LineWritten`, `TaggedMessage`). Splitting a text that was joined at a
  character gives the pieces back (`SplitCut`), and what is trimmed stays as it is when it is
  trimmed again. The client's tags are written from a buffer that is itself read again for each
  recipient (`TagsAreRead`).
* `ParamsAreWords` is about `parse_params` and every text without NUL, CR and LF, trimmed as
  `parse` does it: its loop ends with the words by definition (`ParamsIn`). The invariant of
  the loop (`LoopAt`, over the turns) is that the parameters so far, followed by those of the
  rest, are those of the whole, and the step rests on `ParamsOfCut`, which takes the first word
  off the definition. For `ParametersAreWords`, the head of a line is taken off its tags,
  prefix and command (`HeadParsed`), and trimming what is left changes no parameter
  (`ParamsTrimmed`).
* `NoticesReadAsApplied`: after k changes the notice reads as the letters of these k with their
  signs (`ModesWritten`: reading what was written so far and one more letter gives one more
  letter, and the sign is written exactly where it would be read wrongly without), and its
  parameters are those of the changes that have one (`GivenWritten`). A line of single words is
  read as these words up to the limit (`ListHeard`), so the last parameters may be cut off.
  They were no more than the query had, unless they were made by the server (the `*` of `-k`):
  a change whose rank in the notice is past the limit had at least that rank in the query
  (`RanksKept`), which gave fewer parameters, so it has none of its own and reads the same
  without (`AsRead`, `ChangesHeard`).

The type invariants `ServerTypeOK` and `ControlTypeOK`, and `InvitesDisjoint`, are proved for
every instance, so no run repeats them.

Only model-checked: the liveness properties `RegistrationTimesOut`,
`RemovedConnectionEnds`, `DroppedBindingsClose`, `ReloadEnds` and `InputConsumed`, as the
prover does not handle fairness. All other properties of the passing runs are theorems.

## 4. Not modelled

* Commands that tell nothing of clients or channels (ADMIN, INFO, MOTD, TIME, VERSION,
  PING) and the wording of replies (`lines.rs`). PRIVMSG to a user is in `Text` only as
  the message it relays.
* Times (idle, sign-on) and hosts, which no command decides anything by.
* The dispatch of `Request::new` for commands whose arguments go into a handler as they
  are: the quantifiers of `Network` stand for it. `UniCase` is the constant `Fold`; its
  case mappings compare bytes with tables.
* Reading and validating the configuration (`config.rs`), which happens before the state
  modelled here exists or is replaced.
* SASL: `cmd_authenticate` is a `todo!()`, and its helpers have no caller.
* `db.rs` and `state/test.rs` are not compiled.
* TLS, sockets and certificates are I/O of libraries. Connections are plain: a TLS
  handshake precedes `accept` and changes no shared state.

## 5. Plan

The model is complete but for the parts of section 4, and every property of the passing runs
that is not about liveness is a theorem. What could still be added:

1. SASL, once `cmd_authenticate` is written: a subphase of registration in `Registration` and
   `Network`, with `SaneClients` saying what an interrupted exchange may leave behind.
2. `config.rs`, if validation gets rules that later code relies on (that an address is
   bound once is one: `Control` assumes it).

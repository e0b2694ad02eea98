------------------------------- MODULE Server -------------------------------
(***************************************************************************)
(* The connection tasks (src/src/net.rs) around the shared state of        *)
(* Network.  Every connection has a task (handle) and a registration timer *)
(* (login_timeout).  Both remember the id that peer_joined returned, and   *)
(* use it when they get the mutex again, while the client may have been    *)
(* removed by itself, by KILL or by the timer, and its id given to the     *)
(* next connection.                                                        *)
(***************************************************************************)
EXTENDS Network

CONSTANT Conns  \* connections; one that has ended stands for a later one again

VARIABLES task,   \* conn -> where its `handle` is
          slot,   \* conn -> peer_id, None before peer_joined
          timer,  \* the connections whose login_timeout has not run yet
          owner   \* id -> the connection at the other end of the client's queue

connVars   == <<task, slot, timer, owner>>
serverVars == <<vars, connVars>>

(***************************************************************************)
(* idle      no connection                                                 *)
(* open      in select!: reading lines, writing the queue                  *)
(* muted     handle_message answered 999_999 points: the reading branch    *)
(*           sleeps for hours, the writing branch goes on                  *)
(* closing   out of select!, waiting for the mutex to call peer_quit       *)
(* panicked  a handler panicked: the task is gone without calling it       *)
(***************************************************************************)
TaskState == {"idle", "open", "muted", "closing", "panicked"}

ServerTypeOK ==
    /\ task  \in [Conns -> TaskState]
    /\ slot  \in [Conns -> Ids \cup {None}]
    /\ timer \subseteq Conns
    /\ IsMap(owner, Ids, Conns)
    /\ DOMAIN owner = DOMAIN clients

\* Once a client is removed its queue has no sender left.
DropQueues == owner' = Restrict(owner, DOMAIN clients')

\* What c remembers once neither its task nor its timer needs the id.
Forget(c) == slot' = [slot EXCEPT ![c] = None]

accept(c, id) ==
    /\ task[c] \in {"idle", "panicked"} /\ c \notin timer /\ c \notin Range(owner)
    /\ peer_joined(id)
    /\ task'  = [task EXCEPT ![c] = "open"]
    /\ slot'  = [slot EXCEPT ![c] = id]
    /\ timer' = timer \cup {c}
    /\ owner' = Put(owner, id, c)

\* A line is handled for whichever client has the id now.
handle_buffer(c) ==
    /\ task[c] = "open"
    /\ handle_message(slot[c])
    /\ task' = [task EXCEPT ![c] = IF slot[c] \in DOMAIN clients' THEN "open" ELSE "muted"]
    /\ DropQueues
    /\ UNCHANGED <<slot, timer>>

\* A line of a connection whose id nobody has.
handle_vacant(c) ==
    /\ task[c] = "open"
    /\ slot[c] \notin DOMAIN clients
    /\ task' = [task EXCEPT ![c] = "muted"]
    /\ UNCHANGED <<vars, slot, timer, owner>>

\* A panic unwinds the task; the mutex is not poisoned and the client stays.
handler_panic(c) ==
    /\ task[c] = "open"
    /\ panic(slot[c])
    /\ task' = [task EXCEPT ![c] = "panicked"]
    /\ UNCHANGED <<slot, timer, owner>>

\* End of file or a read error, which a sleeping reader does not see, or a write error.
connection_error(c) ==
    /\ task[c] \in {"open", "muted"}
    /\ task' = [task EXCEPT ![c] = "closing"]
    /\ UNCHANGED <<vars, slot, timer, owner>>

\* Mutant: the writing branch sleeps with the reading one.
queue_closed_open(c) ==
    /\ task[c] = "open"
    /\ c \notin Range(owner)
    /\ task' = [task EXCEPT ![c] = "closing"]
    /\ UNCHANGED <<vars, slot, timer, owner>>

\* The queue is closed and written out: the writing branch ends.
queue_closed(c) ==
    /\ task[c] \in {"open", "muted"}
    /\ c \notin Range(owner)
    /\ task' = [task EXCEPT ![c] = "closing"]
    /\ UNCHANGED <<vars, slot, timer, owner>>

\* Mutant: the task ends without calling peer_quit.
close_silently(c) ==
    /\ task[c] = "closing"
    /\ UNCHANGED vars
    /\ task' = [task EXCEPT ![c] = "idle"]
    /\ DropQueues
    /\ IF c \in timer THEN UNCHANGED slot ELSE Forget(c)
    /\ UNCHANGED timer

\* peer_quit with the remembered id, and the end of the task.
close(c) ==
    /\ task[c] = "closing"
    /\ IF slot[c] \in DOMAIN clients THEN peer_quit(slot[c]) ELSE UNCHANGED vars
    /\ task' = [task EXCEPT ![c] = "idle"]
    /\ DropQueues
    /\ IF c \in timer THEN UNCHANGED slot ELSE Forget(c)
    /\ UNCHANGED timer

\* Mutant: the timer has no effect.
login_timeout_idle(c) ==
    /\ c \in timer
    /\ timer' = timer \ {c}
    /\ UNCHANGED <<vars, task, slot, owner>>

login_timeout(c) ==
    /\ c \in timer
    /\ IF slot[c] \in DOMAIN clients /\ ~is_registered(slot[c])
          THEN remove_if_unregistered(slot[c]) ELSE UNCHANGED vars
    /\ timer' = timer \ {c}
    /\ DropQueues
    /\ IF task[c] \in {"idle", "panicked"} THEN Forget(c) ELSE UNCHANGED slot
    /\ UNCHANGED task

server_rehash == rehash /\ UNCHANGED connVars

ServerInit ==
    /\ Init
    /\ task  = [c \in Conns |-> "idle"]
    /\ slot  = [c \in Conns |-> None]
    /\ timer = {}
    /\ owner = EmptyMap

ServerNext ==
    \/ server_rehash
    \/ \E c \in Conns :
          \/ \E id \in Ids : accept(c, id)
          \/ handle_buffer(c) \/ handle_vacant(c) \/ handler_panic(c)
          \/ connection_error(c) \/ queue_closed(c) \/ close(c) \/ login_timeout(c)

ServerSpec == ServerInit /\ [][ServerNext]_serverVars

(***************************************************************************)
(* Fairness: the runtime runs a task that can go on, the mutex is handed   *)
(* over in order of arrival, timers expire, and a peer takes what is left  *)
(* in its queue (or TCP gives it up).  Nobody has to send anything.        *)
(***************************************************************************)
Fairness ==
    \A c \in Conns : /\ WF_serverVars(queue_closed(c))
                     /\ WF_serverVars(close(c))
                     /\ WF_serverVars(login_timeout(c))

FairServerSpec == ServerSpec /\ Fairness

-----------------------------------------------------------------------------
(* Properties *)

\* Every client in the slab has a task that will call peer_quit with its id, although
\* tasks and timers with stale ids remove clients of others; the only exception is a task
\* whose handler panicked.  Otherwise a nickname and memberships would stay for good.
NoOrphans ==
    \A id \in DOMAIN clients :
        \/ task[owner[id]] = "panicked"
        \/ slot[owner[id]] = id /\ task[owner[id]] \in {"open", "closing"}

Unregistered(c) == \E id \in DOMAIN clients : owner[id] = c /\ ~is_registered(id)

\* A client that does not complete its registration is removed, even one whose task has
\* panicked: the timer of its own connection is pending as long as it is unregistered.
RegistrationTimesOut == \A c \in Conns : Unregistered(c) ~> ~Unregistered(c)

\* A connection whose client was removed (QUIT, KILL, timeout, wrong password, or another
\* connection's stale id) ends, although its reading branch may sleep or wait for a line.
RemovedConnectionEnds ==
    \A c \in Conns :
        task[c] \in {"open", "muted"} /\ c \notin Range(owner) ~> task[c] \in {"idle", "panicked"}

-----------------------------------------------------------------------------
(* What comments and documentation say, and the code does not ensure *)

\* "Each connection is identified by an integer [...], which must be used to handle
\* messages from this client", and peer_quit "removes the given connection": the id a task
\* passes to handle_message and peer_quit is that of its own client, or of none.
TaskUsesOwnClient ==
    \A c \in Conns : task[c] \in {"open", "closing"} /\ slot[c] \in DOMAIN clients
                        => owner[slot[c]] = c

\* "Cleanup needed when a client disconnects: remove the client": a connection whose task
\* is gone does not leave its client behind for ever.
DeadConnectionsVanish ==
    \A c \in Conns : task[c] = "panicked" ~> c \notin Range(owner)

=============================================================================

------------------------------ MODULE Control ------------------------------
(***************************************************************************)
(* The control task (src/src/control.rs) and the binding tasks             *)
(* (net::listen in src/src/net.rs).  Control keeps, for every address it   *)
(* listens on, the sending end of the command channel of a binding task;   *)
(* dropping it tells the task to stop.  A task that cannot bind reports    *)
(* its address through the `stop` channel, which Control reads between two *)
(* reloads.  Both kinds of channel are bounded: a sender waits for room.   *)
(*                                                                         *)
(* A reload may be asked for (REHASH, SIGUSR1) at any time.  `run` keeps a *)
(* sender of the `stop` channel itself, so the receiver never returns None *)
(* and the branch that would exit the server is never taken.  An address   *)
(* occurs once in a configuration, and the order in which do_rehash goes   *)
(* through the addresses is left open.                                     *)
(***************************************************************************)
EXTENDS Naturals, Sequences, FiniteSets, Maps

CONSTANTS Addrs,       \* socket addresses
          Tasks,       \* names of binding tasks; a name is used again once nothing refers to it
          Files,       \* what the configuration file may hold
          Unreadable,  \* ... among them a file that cannot be read or parsed
          CommandCap,  \* capacity of a command channel (8 in the code)
          FailureCap   \* capacity of the `stop` channel (8 in the code)

Modes == {"plain", "tls"}

\* The bindings in a file: the addresses and how to listen on them, "broken" when the
\* certificate or its key cannot be loaded.
ASSUME FileAssumption == \A f \in Files \ {Unreadable} : IsMap(f, Addrs, Modes \cup {"broken"})
ASSUME CapAssumption  == CommandCap \in Nat \ {0} /\ FailureCap \in Nat \ {0}

VARIABLES phase,         \* what `run` does: "select", or "rehash" (in do_rehash)
          new_bindings,  \* the bindings of the configuration loaded last: address -> mode
          todo,          \* in do_rehash: the addresses of new_bindings still to be treated
          bindings,      \* address -> the task whose command channel Control can send to
          tasks,         \* the binding tasks that have not returned
          failures       \* the `stop` channel

controlVars == <<phase, new_bindings, todo, bindings, tasks, failures>>

IsTask(t) ==
    /\ t \in [ addr     : Addrs,
               state    : {"spawned", "online", "failing"},
               acceptor : Modes,
               commands : {t.commands} ]
    /\ t.commands \in Seq(Modes)

NewTask(a, m) == [addr |-> a, state |-> "spawned", acceptor |-> m, commands |-> <<>>]

\* load_bindings and reload_bindings: a binding that cannot be generated is left out.
Loaded(f) == Restrict(f, {a \in DOMAIN f : f[a] # "broken"})

\* Names for new tasks, and the next one.
Unused == Tasks \ (DOMAIN tasks \cup Range(bindings))
Fresh  == CHOOSE t \in Unused : TRUE

-----------------------------------------------------------------------------
(* Control *)

\* do_rehash up to its first send: load the file, drop what it does not have.  The bound:
\* a reload starts only when there are names for all the tasks it may spawn.  (A file that
\* cannot be read changes nothing.)
do_rehash(f) ==
    /\ phase = "select"
    /\ f # Unreadable
    /\ Cardinality(Unused) > Cardinality(DOMAIN Loaded(f) \ DOMAIN bindings)
    /\ phase' = "rehash"
    /\ new_bindings' = Loaded(f)
    /\ todo' = DOMAIN Loaded(f)
    /\ bindings' = Restrict(bindings, DOMAIN bindings \cap DOMAIN Loaded(f))
    /\ UNCHANGED <<tasks, failures>>

\* Mutant: a binding that keeps its place is not told about its new mode.
send_command_nothing(a) ==
    /\ phase = "rehash"
    /\ a \in todo \cap DOMAIN bindings
    /\ bindings[a] \in DOMAIN tasks
    /\ todo' = todo \ {a}
    /\ UNCHANGED <<phase, new_bindings, bindings, tasks, failures>>

\* A binding that stays is told how to listen, once there is room in its channel.
send_command(a) ==
    /\ phase = "rehash"
    /\ a \in todo \cap DOMAIN bindings
    /\ bindings[a] \in DOMAIN tasks
    /\ Len(tasks[bindings[a]].commands) < CommandCap
    /\ todo' = todo \ {a}
    /\ tasks' = [tasks EXCEPT ![bindings[a]].commands = Append(@, new_bindings[a])]
    /\ UNCHANGED <<phase, new_bindings, bindings, failures>>

\* Mutant: a binding whose task has returned is skipped, not replaced.
spawn_binding_new(a) ==
    /\ phase = "rehash"
    /\ a \in todo
    /\ a \in DOMAIN bindings => bindings[a] \notin DOMAIN tasks
    /\ Unused # {}
    /\ todo' = todo \ {a}
    /\ IF a \in DOMAIN bindings
          THEN bindings' = Drop(bindings, {a}) /\ UNCHANGED tasks
          ELSE /\ bindings' = Put(bindings, a, Fresh)
               /\ tasks' = Put(tasks, Fresh, NewTask(a, new_bindings[a]))
    /\ UNCHANGED <<phase, new_bindings, failures>>

\* Mutant: a send that failed is tried again.
spawn_binding_retry(a) ==
    /\ phase = "rehash"
    /\ a \in todo \ DOMAIN bindings
    /\ Unused # {}
    /\ todo' = todo \ {a}
    /\ bindings' = Put(bindings, a, Fresh)
    /\ tasks' = Put(tasks, Fresh, NewTask(a, new_bindings[a]))
    /\ UNCHANGED <<phase, new_bindings, failures>>

\* A new binding, or one whose task has returned, gets a new task.
spawn_binding(a) ==
    /\ phase = "rehash"
    /\ a \in todo
    /\ a \in DOMAIN bindings => bindings[a] \notin DOMAIN tasks
    /\ Unused # {}
    /\ todo' = todo \ {a}
    /\ bindings' = Put(bindings, a, Fresh)
    /\ tasks' = Put(tasks, Fresh, NewTask(a, new_bindings[a]))
    /\ UNCHANGED <<phase, new_bindings, failures>>

\* shared.rehash (the action rehash of Network), and back to select!.
finish_rehash ==
    /\ phase = "rehash"
    /\ todo = {}
    /\ phase' = "select"
    /\ UNCHANGED <<new_bindings, todo, bindings, tasks, failures>>

\* Mutant: a failure is only logged.
receive_failure_ignored ==
    /\ phase = "select"
    /\ failures # <<>>
    /\ failures' = Tail(failures)
    /\ UNCHANGED <<phase, new_bindings, todo, bindings, tasks>>

\* Whichever task the address has now is forgotten.
receive_failure ==
    /\ phase = "select"
    /\ failures # <<>>
    /\ bindings' = Drop(bindings, {Head(failures)})
    /\ failures' = Tail(failures)
    /\ UNCHANGED <<phase, new_bindings, todo, tasks>>

-----------------------------------------------------------------------------
(* Binding tasks (net::listen) *)

InState(t, s) == t \in DOMAIN tasks /\ tasks[t].state = s

\* The socket can be bound when no other task has it.
bind(t) ==
    /\ InState(t, "spawned")
    /\ \A d \in DOMAIN tasks : tasks[d].addr = tasks[t].addr => tasks[d].state # "online"
    /\ tasks' = [tasks EXCEPT ![t].state = "online"]
    /\ UNCHANGED <<phase, new_bindings, todo, bindings, failures>>

\* It may be taken by another task or another program, or not be permitted.
bind_fails(t) ==
    /\ InState(t, "spawned")
    /\ tasks' = [tasks EXCEPT ![t].state = "failing"]
    /\ UNCHANGED <<phase, new_bindings, todo, bindings, failures>>

\* The failure is sent once there is room, and the task returns.
report_failure(t) ==
    /\ InState(t, "failing")
    /\ Len(failures) < FailureCap
    /\ failures' = Append(failures, tasks[t].addr)
    /\ tasks' = Drop(tasks, {t})
    /\ UNCHANGED <<phase, new_bindings, todo, bindings>>

receive_command(t) ==
    /\ InState(t, "online")
    /\ tasks[t].commands # <<>>
    /\ tasks' = [tasks EXCEPT ![t].acceptor = Head(tasks[t].commands),
                              ![t].commands = Tail(@)]
    /\ UNCHANGED <<phase, new_bindings, todo, bindings, failures>>

\* Mutant: the end of the channel is taken for "no command".
commands_closed_spinning(t) ==
    /\ InState(t, "online")
    /\ tasks[t].commands = <<>>
    /\ t \notin Range(bindings)
    /\ UNCHANGED controlVars

\* Control has dropped its end of the channel and all commands have been read.
commands_closed(t) ==
    /\ InState(t, "online")
    /\ tasks[t].commands = <<>>
    /\ t \notin Range(bindings)
    /\ tasks' = Drop(tasks, {t})
    /\ UNCHANGED <<phase, new_bindings, todo, bindings, failures>>

-----------------------------------------------------------------------------
\* Start-up: load_bindings goes through the bindings like a reload that finds none, and
\* exits the program when one cannot be generated.
ControlInit ==
    /\ phase = "rehash"
    /\ new_bindings \in {f \in Files \ {Unreadable} : Loaded(f) = f}
    /\ todo = DOMAIN new_bindings
    /\ bindings = EmptyMap /\ tasks = EmptyMap /\ failures = <<>>

ControlStep ==
    \/ finish_rehash \/ receive_failure
    \/ \E f \in Files : do_rehash(f)
    \/ \E a \in Addrs : send_command(a) \/ spawn_binding(a)

TaskStep(t) ==
    \/ bind(t) \/ bind_fails(t) \/ report_failure(t)
    \/ receive_command(t) \/ commands_closed(t)

ControlNext == ControlStep \/ \E t \in Tasks : TaskStep(t)

ControlSpec == ControlInit /\ [][ControlNext]_controlVars

(***************************************************************************)
(* Fairness: the runtime polls a task that can go on.  Nobody has to ask   *)
(* for a reload, and select! may prefer reloads to failures.               *)
(***************************************************************************)
FairControlSpec ==
    /\ ControlSpec
    /\ WF_controlVars(finish_rehash)
    /\ \A a \in Addrs : WF_controlVars(send_command(a) \/ spawn_binding(a))
    /\ \A t \in Tasks : WF_controlVars(TaskStep(t))

-----------------------------------------------------------------------------
(* Properties *)

ControlTypeOK ==
    /\ phase \in {"select", "rehash"}
    /\ IsMap(new_bindings, Addrs, Modes)
    /\ todo \subseteq DOMAIN new_bindings
    /\ IsMap(bindings, Addrs, Tasks)
    /\ IsMap(tasks, Tasks, Range(tasks))
    /\ \A t \in DOMAIN tasks : IsTask(tasks[t])
    /\ failures \in Seq(Addrs)

\* A binding whose task is gone has a failure report on its way to Control: without it
\* the address would stay in the list, with nobody listening, and nothing would tell.
\* Tasks report while reloads replace tasks of the same address.
DeadBindingsReported ==
    \A a \in DOMAIN bindings :
        bindings[a] \in DOMAIN tasks \/ \E i \in 1..Len(failures) : failures[i] = a

\* How a task will listen once it has executed the commands in its channel.
FinalMode(task) == IF task.commands = <<>> THEN task.acceptor
                                           ELSE task.commands[Len(task.commands)]

\* Between two reloads every binding is one of the configuration loaded last, and its
\* task listens on that address as configured, or will do so after the commands in its
\* channel, whatever the reloads and failures before.
BindingsAsConfigured ==
    phase = "select" =>
        \A a \in DOMAIN bindings :
            /\ a \in DOMAIN new_bindings
            /\ bindings[a] \in DOMAIN tasks =>
                  /\ tasks[bindings[a]].addr = a
                  /\ FinalMode(tasks[bindings[a]]) = new_bindings[a]

\* At its end a reload has every binding of the configuration in the list, the ones that
\* had failed before included, and no other.
ReloadCompletesList ==
    [][phase = "rehash" /\ phase' = "select" => DOMAIN bindings' = DOMAIN new_bindings]_controlVars

\* A task whose binding was dropped closes its socket, although commands may be queued.
DroppedBindingsClose ==
    \A t \in Tasks : InState(t, "online") /\ t \notin Range(bindings) ~> ~InState(t, "online")

\* Control waits for room in the channel of a task that waits for room in Control's.
Stuck ==
    /\ Len(failures) = FailureCap
    /\ \E a \in todo \cap DOMAIN bindings :
          InState(bindings[a], "failing") /\ Len(tasks[bindings[a]].commands) = CommandCap

\* A reload comes to its end although it waits for room in command channels; the one
\* thing that can stop it is a binding that itself waits for room in the full `stop`
\* channel, which nobody empties during a reload.
ReloadEnds == phase = "rehash" ~> phase = "select" \/ Stuck

-----------------------------------------------------------------------------
(* What the documentation says, and the code does not ensure *)

\* "If an old binding is not present in the new configuration, Control drops the binding";
\* one that is present in both is kept.  So a working binding is only dropped by a reload
\* of a configuration without it.  (A late failure report of an earlier task of the same
\* address drops it too.)
WorkingBindingsKept ==
    [][\A a \in DOMAIN bindings \ DOMAIN bindings' :
          InState(bindings[a], "online") => a \notin DOMAIN new_bindings']_controlVars

=============================================================================

--------------------------- MODULE ControlProofs ---------------------------
(***************************************************************************)
(* Proofs about Control, for any addresses, files and capacities.          *)
(***************************************************************************)
EXTENDS Control, MapTheorems, SequenceTheorems

-----------------------------------------------------------------------------
(* Channels and tasks *)

\* The last element after a send is what was sent.
LEMMA LastSent ==
    ASSUME NEW S, NEW q \in Seq(S), NEW e \in S
    PROVE  /\ Append(q, e) \in Seq(S)
           /\ Append(q, e) # <<>>
           /\ Append(q, e)[Len(Append(q, e))] = e
OBVIOUS

\* Receiving the first element leaves the last one, if there is another.
LEMMA LastKept ==
    ASSUME NEW S, NEW q \in Seq(S), q # <<>>
    PROVE  /\ Tail(q) \in Seq(S) /\ Head(q) \in S
           /\ Tail(q) = <<>> => Head(q) = q[Len(q)]
           /\ Tail(q) # <<>> => Tail(q)[Len(Tail(q))] = q[Len(q)]
<1>1. /\ Head(q) \in S /\ Tail(q) \in Seq(S)
      /\ Len(Tail(q)) = Len(q) - 1
      /\ \A i \in 1 .. Len(Tail(q)) : Tail(q)[i] = q[i + 1]
  BY HeadTailProperties
<1>2. Len(q) \in Nat /\ Head(q) = q[1] /\ Len(q) # 0 /\ Len(Tail(q)) \in Nat
  BY <1>1, EmptySeq, LenProperties
<1>3. Tail(q) = <<>> <=> Len(Tail(q)) = 0
  BY <1>1, EmptySeq
<1> QED
  BY <1>1, <1>2, <1>3

\* A new task has nothing in its channel and listens as it was told.
LEMMA NewTaskFacts ==
    ASSUME NEW a \in Addrs, NEW m \in Modes
    PROVE  IsTask(NewTask(a, m)) /\ NewTask(a, m).addr = a /\ FinalMode(NewTask(a, m)) = m
BY DEF IsTask, NewTask, FinalMode

\* A send decides how the task will listen in the end.
LEMMA SentFacts ==
    ASSUME NEW r, IsTask(r), NEW m \in Modes
    PROVE  LET s == [r EXCEPT !.commands = Append(@, m)]
           IN  IsTask(s) /\ s.addr = r.addr /\ FinalMode(s) = m
<1> DEFINE s == [r EXCEPT !.commands = Append(@, m)]
<1>1. r.commands \in Seq(Modes)
  BY DEF IsTask
<1>2. /\ Append(r.commands, m) \in Seq(Modes) /\ Append(r.commands, m) # <<>>
      /\ Append(r.commands, m)[Len(Append(r.commands, m))] = m
  BY <1>1, LastSent
<1>3. s.commands = Append(r.commands, m) /\ s.addr = r.addr
  BY DEF IsTask
<1>4. IsTask(s)
  BY <1>2, <1>3 DEF IsTask
<1> HIDE DEF s
<1>5. FinalMode(s) = m
  BY <1>2, <1>3 DEF FinalMode
<1> QED
  BY <1>3, <1>4, <1>5 DEF s

\* Executing a command does not change how the task will listen in the end.
LEMMA ReceivedFacts ==
    ASSUME NEW r, IsTask(r), r.commands # <<>>
    PROVE  LET s == [r EXCEPT !.acceptor = Head(r.commands), !.commands = Tail(@)]
           IN  IsTask(s) /\ s.addr = r.addr /\ FinalMode(s) = FinalMode(r)
<1> DEFINE s == [r EXCEPT !.acceptor = Head(r.commands), !.commands = Tail(@)]
<1>1. r.commands \in Seq(Modes)
  BY DEF IsTask
<1>2. /\ Tail(r.commands) \in Seq(Modes) /\ Head(r.commands) \in Modes
      /\ Tail(r.commands) = <<>> => Head(r.commands) = r.commands[Len(r.commands)]
      /\ Tail(r.commands) # <<>> =>
            Tail(r.commands)[Len(Tail(r.commands))] = r.commands[Len(r.commands)]
  BY <1>1, LastKept
<1>3. s.commands = Tail(r.commands) /\ s.acceptor = Head(r.commands) /\ s.addr = r.addr
  BY DEF IsTask
<1>4. IsTask(s)
  BY <1>2, <1>3 DEF IsTask
<1> HIDE DEF s
<1>5. FinalMode(s) = FinalMode(r)
  BY <1>2, <1>3 DEF FinalMode
<1> QED
  BY <1>3, <1>4, <1>5 DEF s

\* Binding, or failing to, changes nothing else.
LEMMA StateFacts ==
    ASSUME NEW r, IsTask(r), NEW st \in {"spawned", "online", "failing"}
    PROVE  LET s == [r EXCEPT !.state = st]
           IN  IsTask(s) /\ s.addr = r.addr /\ FinalMode(s) = FinalMode(r)
BY DEF IsTask, FinalMode

-----------------------------------------------------------------------------
(***************************************************************************)
(* The inductive invariant.  BindingsAsConfigured speaks of the time       *)
(* between reloads only; during a reload the list and what is left to do   *)
(* make up the configuration, and what is done is as configured.           *)
(***************************************************************************)
Covered ==
    /\ DOMAIN bindings \subseteq DOMAIN new_bindings
    /\ phase = "rehash" => DOMAIN new_bindings \subseteq DOMAIN bindings \cup todo

Serving ==
    \A a \in DOMAIN bindings : bindings[a] \in DOMAIN tasks =>
        /\ tasks[bindings[a]].addr = a
        /\ phase = "select" \/ a \notin todo => FinalMode(tasks[bindings[a]]) = new_bindings[a]

CInv == ControlTypeOK /\ DeadBindingsReported /\ Covered /\ Serving

\* It holds before the first binding is loaded.
LEMMA ControlInitInv == ControlInit => CInv
<1> SUFFICES ASSUME ControlInit PROVE CInv
  OBVIOUS
<1>1. DOMAIN bindings = {} /\ DOMAIN tasks = {}
  BY EmptyMapIsMap DEF ControlInit
<1>2. IsMap(bindings, Addrs, Tasks) /\ IsMap(tasks, Tasks, Range(tasks))
  BY EmptyMapIsMap DEF ControlInit
<1>3. IsMap(new_bindings, Addrs, Modes)
  BY FileAssumption DEF ControlInit, IsMap, Loaded, Restrict
<1>4. failures \in Seq(Addrs)
  BY DEF ControlInit
<1> QED
  BY <1>1, <1>2, <1>3, <1>4
     DEF ControlInit, CInv, ControlTypeOK, DeadBindingsReported, Covered, Serving

\* Changing one task in place, keeping its address, keeps tasks well-formed.
LEMMA ChangedTask ==
    ASSUME ControlTypeOK, NEW t \in DOMAIN tasks, NEW r, IsTask(r), r.addr = tasks[t].addr,
           tasks' = [tasks EXCEPT ![t] = r]
    PROVE  /\ IsMap(tasks', Tasks, Range(tasks'))
           /\ \A d \in DOMAIN tasks' : IsTask(tasks'[d])
           /\ DOMAIN tasks' = DOMAIN tasks
           /\ tasks'[t] = r
           /\ \A d \in DOMAIN tasks : d # t => tasks'[d] = tasks[d]
BY DEF ControlTypeOK, IsMap, Range

\* A task that changes in place, and will listen in the end as before, keeps the invariant.
LEMMA SteadyTask ==
    ASSUME CInv, NEW t \in DOMAIN tasks, NEW r, IsTask(r), r.addr = tasks[t].addr,
           FinalMode(r) = FinalMode(tasks[t]), tasks' = [tasks EXCEPT ![t] = r],
           UNCHANGED <<phase, new_bindings, todo, bindings, failures>>
    PROVE  CInv'
<1> USE DEF CInv
<1>1. /\ IsMap(tasks', Tasks, Range(tasks'))
      /\ \A d \in DOMAIN tasks' : IsTask(tasks'[d])
      /\ DOMAIN tasks' = DOMAIN tasks
      /\ tasks'[t] = r
      /\ \A d \in DOMAIN tasks : d # t => tasks'[d] = tasks[d]
  BY ChangedTask
<1>2. ControlTypeOK'
  BY <1>1 DEF ControlTypeOK
<1>3. DeadBindingsReported'
  BY <1>1 DEF DeadBindingsReported
<1>4. Covered'
  BY DEF Covered
<1>5. Serving'
  BY <1>1 DEF Serving
<1> QED
  BY <1>2, <1>3, <1>4, <1>5

\* A task that returns keeps types, and what is said of the other tasks.
LEMMA ReturnedTask ==
    ASSUME ControlTypeOK, NEW t, tasks' = Drop(tasks, {t})
    PROVE  /\ IsMap(tasks', Tasks, Range(tasks'))
           /\ \A d \in DOMAIN tasks' : IsTask(tasks'[d])
           /\ DOMAIN tasks' = DOMAIN tasks \ {t}
           /\ \A d \in DOMAIN tasks' : tasks'[d] = tasks[d]
BY DEF ControlTypeOK, IsMap, Range, Drop, Restrict

\* Every step of a binding task keeps the invariant.
LEMMA TaskStepInv ==
    ASSUME CInv, NEW t \in Tasks, TaskStep(t)
    PROVE  CInv'
<1> USE DEF CInv, InState
<1>1. \A d \in DOMAIN tasks : IsTask(tasks[d])
  BY DEF ControlTypeOK
<1>2. CASE bind(t)
  <2>1. t \in DOMAIN tasks /\ IsTask(tasks[t])
    BY <1>1, <1>2 DEF bind
  <2> DEFINE r == [tasks[t] EXCEPT !.state = "online"]
  <2>2. IsTask(r) /\ r.addr = tasks[t].addr /\ FinalMode(r) = FinalMode(tasks[t])
    BY <2>1, StateFacts
  <2>3. /\ tasks' = [tasks EXCEPT ![t] = r]
        /\ UNCHANGED <<phase, new_bindings, todo, bindings, failures>>
    BY <1>2, <2>1 DEF bind
  <2> HIDE DEF r
  <2> QED
    BY <2>1, <2>2, <2>3, SteadyTask
<1>3. CASE bind_fails(t)
  <2>1. t \in DOMAIN tasks /\ IsTask(tasks[t])
    BY <1>1, <1>3 DEF bind_fails
  <2> DEFINE r == [tasks[t] EXCEPT !.state = "failing"]
  <2>2. IsTask(r) /\ r.addr = tasks[t].addr /\ FinalMode(r) = FinalMode(tasks[t])
    BY <2>1, StateFacts
  <2>3. /\ tasks' = [tasks EXCEPT ![t] = r]
        /\ UNCHANGED <<phase, new_bindings, todo, bindings, failures>>
    BY <1>3, <2>1 DEF bind_fails
  <2> HIDE DEF r
  <2> QED
    BY <2>1, <2>2, <2>3, SteadyTask
<1>4. CASE receive_command(t)
  <2>1. t \in DOMAIN tasks /\ IsTask(tasks[t]) /\ tasks[t].commands # <<>>
    BY <1>1, <1>4 DEF receive_command
  <2> DEFINE r == [tasks[t] EXCEPT !.acceptor = Head(tasks[t].commands), !.commands = Tail(@)]
  <2>2. IsTask(r) /\ r.addr = tasks[t].addr /\ FinalMode(r) = FinalMode(tasks[t])
    BY <2>1, ReceivedFacts
  <2>3. /\ tasks' = [tasks EXCEPT ![t] = r]
        /\ UNCHANGED <<phase, new_bindings, todo, bindings, failures>>
    BY <1>4, <2>1 DEF receive_command
  <2> HIDE DEF r
  <2> QED
    BY <2>1, <2>2, <2>3, SteadyTask
<1>5. CASE report_failure(t)
  <2>1. /\ t \in DOMAIN tasks /\ tasks' = Drop(tasks, {t})
        /\ failures' = Append(failures, tasks[t].addr)
        /\ UNCHANGED <<phase, new_bindings, todo, bindings>>
    BY <1>5 DEF report_failure
  <2>2. /\ IsMap(tasks', Tasks, Range(tasks'))
        /\ \A d \in DOMAIN tasks' : IsTask(tasks'[d])
        /\ DOMAIN tasks' = DOMAIN tasks \ {t}
        /\ \A d \in DOMAIN tasks' : tasks'[d] = tasks[d]
    BY <2>1, ReturnedTask
  <2>3. failures \in Seq(Addrs) /\ tasks[t].addr \in Addrs
    BY <1>1, <2>1 DEF ControlTypeOK, IsTask
  <2>4. /\ failures' \in Seq(Addrs)
        /\ Len(failures') = Len(failures) + 1
        /\ Len(failures) \in Nat
        /\ failures'[Len(failures')] = tasks[t].addr
        /\ \A i \in 1 .. Len(failures) : failures'[i] = failures[i]
    BY <2>1, <2>3
  <2>5. ControlTypeOK'
    BY <2>1, <2>2, <2>4 DEF ControlTypeOK
  <2>6. DeadBindingsReported'
    <3> SUFFICES ASSUME NEW a \in DOMAIN bindings, bindings[a] \notin DOMAIN tasks'
                 PROVE  \E i \in 1 .. Len(failures') : failures'[i] = a
      BY <2>1 DEF DeadBindingsReported
    <3>1. CASE bindings[a] = t
      BY <2>1, <2>4, <3>1 DEF Serving
    <3>2. CASE bindings[a] # t
      BY <2>2, <2>4, <3>2 DEF DeadBindingsReported
    <3> QED
      BY <3>1, <3>2
  <2>7. Covered' /\ Serving'
    BY <2>1, <2>2 DEF Covered, Serving
  <2> QED
    BY <2>5, <2>6, <2>7
<1>6. CASE commands_closed(t)
  <2>1. /\ tasks' = Drop(tasks, {t}) /\ t \notin Range(bindings)
        /\ UNCHANGED <<phase, new_bindings, todo, bindings, failures>>
    BY <1>6 DEF commands_closed
  <2>2. /\ IsMap(tasks', Tasks, Range(tasks'))
        /\ \A d \in DOMAIN tasks' : IsTask(tasks'[d])
        /\ DOMAIN tasks' = DOMAIN tasks \ {t}
        /\ \A d \in DOMAIN tasks' : tasks'[d] = tasks[d]
    BY <2>1, ReturnedTask
  <2>3. \A a \in DOMAIN bindings : bindings[a] # t
    BY <2>1 DEF Range
  <2> QED
    BY <2>1, <2>2, <2>3 DEF ControlTypeOK, DeadBindingsReported, Covered, Serving
<1> QED
  BY <1>2, <1>3, <1>4, <1>5, <1>6 DEF TaskStep

\* Every step of the control task keeps the invariant.
LEMMA ControlStepInv ==
    ASSUME CInv, ControlStep
    PROVE  CInv'
<1> USE DEF CInv
<1>1. CASE finish_rehash
  BY <1>1 DEF finish_rehash, ControlTypeOK, DeadBindingsReported, Covered, Serving
<1>2. CASE receive_failure
  <2>1. /\ bindings' = Drop(bindings, {Head(failures)}) /\ failures' = Tail(failures)
        /\ failures # <<>> /\ phase = "select"
        /\ UNCHANGED <<phase, new_bindings, todo, tasks>>
    BY <1>2 DEF receive_failure
  <2>2. /\ IsMap(bindings', Addrs, Tasks)
        /\ DOMAIN bindings' = DOMAIN bindings \ {Head(failures)}
        /\ \A a \in DOMAIN bindings' : bindings'[a] = bindings[a]
    <3>1. IsMap(bindings, Addrs, Tasks)
      BY DEF ControlTypeOK
    <3> DEFINE kept == Drop(bindings, {Head(failures)})
    <3>2. /\ IsMap(kept, Addrs, Tasks)
          /\ DOMAIN kept = DOMAIN bindings \ {Head(failures)}
          /\ \A a \in DOMAIN bindings \ {Head(failures)} : kept[a] = bindings[a]
      BY <3>1, DropIsMap
    <3> QED
      BY <2>1, <3>2
  <2>3. failures \in Seq(Addrs)
    BY DEF ControlTypeOK
  <2>4. /\ failures' \in Seq(Addrs)
        /\ \A i \in 1 .. Len(failures) :
              failures[i] # Head(failures) => \E j \in 1 .. Len(failures') : failures'[j] = failures[i]
    <3>1. /\ Tail(failures) \in Seq(Addrs)
          /\ Len(Tail(failures)) = Len(failures) - 1
          /\ \A i \in 1 .. Len(Tail(failures)) : Tail(failures)[i] = failures[i + 1]
      BY <2>1, <2>3, HeadTailProperties
    <3>2. Len(failures) \in Nat /\ Head(failures) = failures[1]
      BY <2>3, LenProperties
    <3>3. ASSUME NEW i \in 1 .. Len(failures), failures[i] # Head(failures)
          PROVE  \E j \in 1 .. Len(Tail(failures)) : Tail(failures)[j] = failures[i]
      <4>1. i # 1 /\ i - 1 \in 1 .. Len(Tail(failures)) /\ (i - 1) + 1 = i
        BY <3>1, <3>2, <3>3
      <4>2. Tail(failures)[i - 1] = failures[i]
        BY <3>1, <4>1
      <4> QED
        BY <4>1, <4>2
    <3> QED
      BY <2>1, <3>1, <3>3
  <2>5. ControlTypeOK'
    BY <2>1, <2>2, <2>4 DEF ControlTypeOK
  <2>6. DeadBindingsReported'
    <3> SUFFICES ASSUME NEW a \in DOMAIN bindings', bindings'[a] \notin DOMAIN tasks
                 PROVE  \E j \in 1 .. Len(failures') : failures'[j] = a
      BY <2>1 DEF DeadBindingsReported
    <3>1. PICK i \in 1 .. Len(failures) : failures[i] = a
      BY <2>2 DEF DeadBindingsReported
    <3> QED
      BY <2>2, <2>4, <3>1
  <2>7. Covered' /\ Serving'
    BY <2>1, <2>2 DEF Covered, Serving
  <2> QED
    BY <2>5, <2>6, <2>7
<1>3. ASSUME NEW f \in Files, do_rehash(f)
      PROVE  CInv'
  <2>1. /\ f # Unreadable /\ phase' = "rehash" /\ new_bindings' = Loaded(f)
        /\ todo' = DOMAIN Loaded(f) /\ UNCHANGED <<tasks, failures>>
        /\ bindings' = Restrict(bindings, DOMAIN bindings \cap DOMAIN Loaded(f))
    BY <1>3 DEF do_rehash
  <2>2. IsMap(Loaded(f), Addrs, Modes)
    BY <2>1, FileAssumption DEF IsMap, Loaded, Restrict
  <2>3. /\ IsMap(bindings', Addrs, Tasks)
        /\ DOMAIN bindings' = DOMAIN bindings \cap DOMAIN Loaded(f)
        /\ \A a \in DOMAIN bindings' : bindings'[a] = bindings[a]
    BY <2>1 DEF ControlTypeOK, IsMap, Restrict
  <2>4. ControlTypeOK'
    BY <2>1, <2>2, <2>3 DEF ControlTypeOK
  <2>5. DeadBindingsReported'
    BY <2>1, <2>3 DEF DeadBindingsReported
  <2>6. Covered' /\ Serving'
    BY <2>1, <2>3 DEF Covered, Serving
  <2> QED
    BY <2>4, <2>5, <2>6
<1>4. ASSUME NEW a \in Addrs, send_command(a)
      PROVE  CInv'
  <2> DEFINE t == bindings[a]
             r == [tasks[t] EXCEPT !.commands = Append(@, new_bindings[a])]
  <2>1. /\ phase = "rehash" /\ a \in todo /\ a \in DOMAIN bindings /\ t \in DOMAIN tasks
        /\ todo' = todo \ {a} /\ tasks' = [tasks EXCEPT ![t] = r]
        /\ UNCHANGED <<phase, new_bindings, bindings, failures>>
    BY <1>4 DEF send_command
  <2>2. IsTask(tasks[t]) /\ new_bindings[a] \in Modes
    BY <2>1 DEF ControlTypeOK, IsMap
  <2>3. IsTask(r) /\ r.addr = tasks[t].addr /\ FinalMode(r) = new_bindings[a]
    BY <2>2, SentFacts
  <2> HIDE DEF r
  <2>4. /\ IsMap(tasks', Tasks, Range(tasks'))
        /\ \A d \in DOMAIN tasks' : IsTask(tasks'[d])
        /\ DOMAIN tasks' = DOMAIN tasks
        /\ tasks'[t] = r
        /\ \A d \in DOMAIN tasks : d # t => tasks'[d] = tasks[d]
    BY <2>1, <2>3, ChangedTask
  <2>5. ControlTypeOK'
    BY <2>1, <2>4 DEF ControlTypeOK
  <2>6. DeadBindingsReported' /\ Covered'
    BY <2>1, <2>4 DEF DeadBindingsReported, Covered
  <2>7. \A b \in DOMAIN bindings : b # a => bindings[b] # t
    BY <2>1 DEF Serving
  <2>8. Serving'
    BY <2>1, <2>3, <2>4, <2>7 DEF Serving
  <2> QED
    BY <2>5, <2>6, <2>8
<1>5. ASSUME NEW a \in Addrs, spawn_binding(a)
      PROVE  CInv'
  <2> DEFINE r == NewTask(a, new_bindings[a])
  <2>1. /\ phase = "rehash" /\ a \in todo /\ todo' = todo \ {a} /\ Unused # {}
        /\ bindings' = Put(bindings, a, Fresh) /\ tasks' = Put(tasks, Fresh, r)
        /\ UNCHANGED <<phase, new_bindings, failures>>
    BY <1>5 DEF spawn_binding
  <2>2. Fresh \in Tasks /\ Fresh \notin DOMAIN tasks /\ Fresh \notin Range(bindings)
    BY <2>1 DEF Fresh, Unused
  <2>3. \A b \in DOMAIN bindings : bindings[b] # Fresh
    BY <2>2 DEF Range
  <2>4. a \in DOMAIN new_bindings /\ new_bindings[a] \in Modes
    BY <2>1 DEF ControlTypeOK, IsMap
  <2>5. IsTask(r) /\ r.addr = a /\ FinalMode(r) = new_bindings[a]
    BY <1>5, <2>4, NewTaskFacts
  <2> HIDE DEF r
  <2>6. /\ IsMap(bindings', Addrs, Tasks)
        /\ DOMAIN bindings' = DOMAIN bindings \cup {a}
        /\ bindings'[a] = Fresh
        /\ \A b \in DOMAIN bindings : b # a => bindings'[b] = bindings[b]
    <3>1. IsMap(bindings, Addrs, Tasks) /\ a \in Addrs
      BY <1>5 DEF ControlTypeOK
    <3> QED
      BY <2>1, <2>2, <3>1, PutIsMap
  <2>7. /\ IsMap(tasks', Tasks, Range(tasks'))
        /\ DOMAIN tasks' = DOMAIN tasks \cup {Fresh}
        /\ tasks'[Fresh] = r
        /\ \A d \in DOMAIN tasks : tasks'[d] = tasks[d]
    BY <2>1, <2>2 DEF ControlTypeOK, IsMap, Put, Range
  <2>8. ControlTypeOK'
    BY <2>1, <2>5, <2>6, <2>7 DEF ControlTypeOK
  <2>9. DeadBindingsReported' /\ Covered'
    BY <2>1, <2>4, <2>6, <2>7 DEF DeadBindingsReported, Covered
  <2>10. Serving'
    BY <2>1, <2>3, <2>5, <2>6, <2>7 DEF Serving
  <2> QED
    BY <2>8, <2>9, <2>10
<1> QED
  BY <1>1, <1>2, <1>3, <1>4, <1>5 DEF ControlStep

\* The control task and the binding tasks keep the invariant, for any number of addresses
\* and reloads and any capacity of the channels.
THEOREM ControlInvariance == ControlSpec => []CInv
<1>1. CInv /\ [ControlNext]_controlVars => CInv'
  <2> SUFFICES ASSUME CInv, [ControlNext]_controlVars PROVE CInv'
    OBVIOUS
  <2>1. CASE UNCHANGED controlVars
    BY <2>1 DEF controlVars, CInv, ControlTypeOK, DeadBindingsReported, Covered, Serving
  <2> QED
    BY <2>1, TaskStepInv, ControlStepInv DEF ControlNext
<1> QED
  BY <1>1, ControlInitInv, PTL DEF ControlSpec

\* The list, the tasks, their commands and the failure reports keep their types.
THEOREM ControlTypeCorrect == ControlSpec => []ControlTypeOK
<1>1. CInv => ControlTypeOK
  BY DEF CInv
<1> QED
  BY <1>1, ControlInvariance, PTL

\* A binding whose task is gone always has a failure report on its way.
THEOREM FailuresAreReported == ControlSpec => []DeadBindingsReported
<1>1. CInv => DeadBindingsReported
  BY DEF CInv
<1> QED
  BY <1>1, ControlInvariance, PTL

\* Between reloads the list agrees with the configuration loaded last.
THEOREM ConfigurationInForce == ControlSpec => []BindingsAsConfigured
<1>1. CInv => BindingsAsConfigured
  BY DEF CInv, Covered, Serving, BindingsAsConfigured
<1> QED
  BY <1>1, ControlInvariance, PTL

\* A reload ends with all the bindings of its configuration in the list.
THEOREM ReloadRestores == ControlSpec => ReloadCompletesList
<1>1. CInv /\ [ControlNext]_controlVars
         => [phase = "rehash" /\ phase' = "select"
                => DOMAIN bindings' = DOMAIN new_bindings]_controlVars
  <2> SUFFICES ASSUME CInv, ControlNext, phase = "rehash", phase' = "select"
               PROVE  DOMAIN bindings' = DOMAIN new_bindings
    OBVIOUS
  <2>1. finish_rehash
    BY DEF ControlNext, ControlStep, TaskStep, do_rehash, send_command, spawn_binding,
       receive_failure, bind, bind_fails, report_failure, receive_command, commands_closed
  <2> QED
    BY <2>1 DEF finish_rehash, CInv, Covered
<1> QED
  BY <1>1, ControlInvariance, PTL DEF ControlSpec, ReloadCompletesList

=============================================================================

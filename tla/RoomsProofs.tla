----------------------------- MODULE RoomsProofs -----------------------------
(***************************************************************************)
(* What every implementation of Rooms inherits.                            *)
(***************************************************************************)
EXTENDS Rooms, MapTheorems

\* users and rooms are maps.
Shape ==
    /\ IsMap(users, Ids, Range(users))
    /\ IsMap(rooms, DOMAIN rooms, Range(rooms))

\* Nobody shares a name on the network, whoever registers, renames and leaves.
LEMMA NamesStep ==
    ASSUME Shape, Sound, [Next]_<<users, rooms>>
    PROVE  /\ IsMap(users', Ids, Range(users'))
           /\ \A i, j \in DOMAIN users' : users'[i] = users'[j] => i = j
<1>1. CASE UNCHANGED users
  BY <1>1 DEF Shape, Sound, Range
<1>2. ASSUME NEW id \in Ids, NEW name, Register(id, name) \/ Rename(id, name)
      PROVE  /\ IsMap(users', Ids, Range(users'))
             /\ \A i, j \in DOMAIN users' : users'[i] = users'[j] => i = j
  <2>1. users' = Put(users, id, name)
    BY <1>2 DEF Register, Rename
  <2>2. \A x \in DOMAIN users : x # id => users[x] # name
    BY <1>2 DEF Register, Rename, Drop, Restrict, Range
  <2>3. /\ IsMap(users', Ids, Range(users'))
        /\ DOMAIN users' = DOMAIN users \cup {id}
        /\ users'[id] = name
        /\ \A x \in DOMAIN users : x # id => users'[x] = users[x]
    BY <2>1 DEF Put, IsMap, Range, Shape
  <2> QED
    BY <2>2, <2>3 DEF Sound
<1>3. ASSUME NEW id \in Ids, LeaveNetwork(id)
      PROVE  /\ IsMap(users', Ids, Range(users'))
             /\ \A i, j \in DOMAIN users' : users'[i] = users'[j] => i = j
  <2>1. /\ IsMap(users', Ids, Range(users'))
        /\ DOMAIN users' = DOMAIN users \ {id}
        /\ \A x \in DOMAIN users' : users'[x] = users[x]
    BY <1>3 DEF LeaveNetwork, Drop, Restrict, IsMap, Range, Shape
  <2> QED
    BY <2>1 DEF Sound
<1> QED
  BY <1>1, <1>2, <1>3 DEF Next, Enter, Exit, PutOut

\* Only users of the network are in rooms, whoever leaves the network or a room.
LEMMA RoomsStep ==
    ASSUME Shape, Sound, [Next]_<<users, rooms>>
    PROVE  /\ IsMap(rooms', DOMAIN rooms', Range(rooms'))
           /\ \A r \in DOMAIN rooms' : rooms'[r] \subseteq DOMAIN users'
<1> USE DEF Shape, Sound, IsMap, Range
<1>1. CASE UNCHANGED <<users, rooms>>
  BY <1>1
<1>2. ASSUME NEW id \in Ids, NEW name, Register(id, name) \/ Rename(id, name)
      PROVE  /\ IsMap(rooms', DOMAIN rooms', Range(rooms'))
             /\ \A r \in DOMAIN rooms' : rooms'[r] \subseteq DOMAIN users'
  BY <1>2 DEF Register, Rename, Put
<1>3. ASSUME NEW id \in Ids, LeaveNetwork(id)
      PROVE  /\ IsMap(rooms', DOMAIN rooms', Range(rooms'))
             /\ \A r \in DOMAIN rooms' : rooms'[r] \subseteq DOMAIN users'
  BY <1>3 DEF LeaveNetwork, Drop, Restrict
<1>4. ASSUME NEW id \in Ids, NEW R, Enter(id, R)
      PROVE  /\ IsMap(rooms', DOMAIN rooms', Range(rooms'))
             /\ \A r \in DOMAIN rooms' : rooms'[r] \subseteq DOMAIN users'
  BY <1>4 DEF Enter, Occupants
<1>5. ASSUME NEW id \in Ids, NEW R, Exit(id, R)
      PROVE  /\ IsMap(rooms', DOMAIN rooms', Range(rooms'))
             /\ \A r \in DOMAIN rooms' : rooms'[r] \subseteq DOMAIN users'
  BY <1>5 DEF Exit
<1>6. ASSUME NEW id \in Ids, NEW r, NEW ids, PutOut(id, r, ids)
      PROVE  /\ IsMap(rooms', DOMAIN rooms', Range(rooms'))
             /\ \A q \in DOMAIN rooms' : rooms'[q] \subseteq DOMAIN users'
  BY <1>6 DEF PutOut
<1> QED
  BY <1>1, <1>2, <1>3, <1>4, <1>5, <1>6 DEF Next

\* Names on the network are distinct and rooms are made of users: what a server that
\* implements Rooms promises in every state.
THEOREM RoomsSound == Spec => []Sound
<1>1. Init => Shape /\ Sound
  BY EmptyMapIsMap DEF Init, Shape, Sound
<1>2. Shape /\ Sound /\ [Next]_<<users, rooms>> => (Shape /\ Sound)'
  BY NamesStep, RoomsStep DEF Shape, Sound
<1> QED
  BY <1>1, <1>2, PTL DEF Spec

=============================================================================

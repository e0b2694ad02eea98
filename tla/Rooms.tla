-------------------------------- MODULE Rooms --------------------------------
(***************************************************************************)
(* What the network promises its users, without ids that come and go,      *)
(* modes or connection states: users with distinct names, and rooms made   *)
(* of users.  A room appears with its first member; a user enters and      *)
(* leaves for itself, and is otherwise only put out by a member of the     *)
(* room; who leaves the network leaves every room, and no empty room       *)
(* remains then.                                                           *)
(***************************************************************************)
EXTENDS Maps

CONSTANTS Ids, Names, RoomNames

VARIABLES users,  \* id -> name, for the users on the network
          rooms   \* room name -> set of ids

Init == users = EmptyMap /\ rooms = EmptyMap

Register(id, name) ==
    /\ id \in Ids \ DOMAIN users
    /\ name \notin Range(users)
    /\ users' = Put(users, id, name)
    /\ UNCHANGED rooms

Rename(id, name) ==
    /\ id \in DOMAIN users
    /\ name \notin Range(Drop(users, {id}))
    /\ users' = Put(users, id, name)
    /\ UNCHANGED rooms

LeaveNetwork(id) ==
    /\ id \in DOMAIN users
    /\ users' = Drop(users, {id})
    /\ rooms' = [r \in {q \in DOMAIN rooms : rooms[q] \ {id} # {}} |-> rooms[r] \ {id}]

Occupants(r) == IF r \in DOMAIN rooms THEN rooms[r] ELSE {}

Enter(id, R) ==
    /\ id \in DOMAIN users
    /\ rooms' = [r \in DOMAIN rooms \cup R |->
                    IF r \in R THEN Occupants(r) \cup {id} ELSE rooms[r]]
    /\ UNCHANGED users

Exit(id, R) ==
    /\ \A r \in R : r \in DOMAIN rooms /\ id \in rooms[r]
    /\ rooms' = [r \in {q \in DOMAIN rooms : ~(q \in R /\ rooms[q] = {id})} |->
                    IF r \in R THEN rooms[r] \ {id} ELSE rooms[r]]
    /\ UNCHANGED users

PutOut(id, r, ids) ==
    /\ r \in DOMAIN rooms
    /\ id \in rooms[r]
    /\ rooms' = [rooms EXCEPT ![r] = @ \ ids]
    /\ UNCHANGED users

Next ==
    \E id \in Ids :
        \/ \E name \in Names : Register(id, name) \/ Rename(id, name)
        \/ LeaveNetwork(id)
        \/ \E R \in SUBSET RoomNames : Enter(id, R) \/ Exit(id, R)
        \/ \E r \in RoomNames, ids \in SUBSET Ids : PutOut(id, r, ids)

Spec == Init /\ [][Next]_<<users, rooms>>

\* Nobody on the network shares a name, and only users of the network are in rooms.
Sound ==
    /\ \A i, j \in DOMAIN users : users[i] = users[j] => i = j
    /\ \A r \in DOMAIN rooms : rooms[r] \subseteq DOMAIN users

=============================================================================

-------------------------------- MODULE Pool --------------------------------
(***************************************************************************)
(* What internal/pool promises: an object belongs to one user at a time,   *)
(* and one that belongs to nobody carries nothing of its previous use.     *)
(***************************************************************************)
CONSTANTS
    Objects,    \* the objects the pool has handed out so far
    Users       \* whoever calls Get and Put

VARIABLES
    users,      \* the users of each object
    dirty       \* the objects that are not in their initial state

Init ==
    /\ users = [o \in Objects |-> {}]
    /\ dirty = {}

\* Get, and perhaps the first use.
Get(u, o) ==
    /\ users[o] = {} /\ o \notin dirty
    /\ users' = [users EXCEPT ![o] = {u}]
    /\ dirty' \in {dirty, dirty \cup {o}}

Use(u, o) ==
    /\ users[o] = {u}
    /\ dirty' \in {dirty \cup {o}, dirty \ {o}}
    /\ UNCHANGED users

\* Put resets the object before it is handed out again.
Put(u, o) ==
    /\ users[o] = {u}
    /\ users' = [users EXCEPT ![o] = {}]
    /\ dirty' = dirty \ {o}

Next == \E u \in Users, o \in Objects : Get(u, o) \/ Use(u, o) \/ Put(u, o)

Spec == Init /\ [][Next]_<<users, dirty>>
=============================================================================

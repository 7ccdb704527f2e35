----------------------------- MODULE RoomLeases -----------------------------
(***************************************************************************)
(* What the rendezvous server promises about room ids, with tasks, clients *)
(* and addresses left out: an id is leased to one connection at a time,    *)
(* and the lease ends in one of two ways, when its time is over or when    *)
(* the contacts go out to the two clients of the room. Nothing else takes  *)
(* a room away, no message to or timer of an earlier room of its id in     *)
(* particular.                                                             *)
(***************************************************************************)
CONSTANTS Conns, RoomIds, None

VARIABLES
    live,    \* the ids that name a room
    lease,   \* Conns -> the id leased to this connection, or None
    told     \* the connections with contacts on their way to the client

vars == <<live, lease, told>>

Init ==
    /\ live = {}
    /\ lease = [c \in Conns |-> None]
    /\ told = {}

\* A connection that holds no lease is given an id nobody else has.
Grant(c, r) ==
    /\ lease[c] = None
    /\ r \notin live
    /\ live' = live \cup {r}
    /\ lease' = [lease EXCEPT ![c] = r]
    /\ told' = told

\* The lease of c ends, and takes the room with it.
End(c) ==
    /\ lease[c] # None
    /\ live' = live \ {lease[c]}
    /\ lease' = [lease EXCEPT ![c] = None]

\* Its time is over.
Expire(c) == End(c) /\ told' = told

\* Two clients have met in the room, and both are told.
Meet(c, d, e) ==
    /\ End(c)
    /\ d # e
    /\ told' = told \cup {d, e}

\* A client is sent the contacts.
Hear(c) ==
    /\ c \in told
    /\ told' = told \ {c}
    /\ UNCHANGED <<live, lease>>

Next ==
    \E c \in Conns :
        \/ \E r \in RoomIds : Grant(c, r)
        \/ Expire(c)
        \/ \E d, e \in Conns : Meet(c, d, e)
        \/ Hear(c)

Spec == Init /\ [][Next]_vars
=============================================================================

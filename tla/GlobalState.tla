---------------------------- MODULE GlobalState ----------------------------
(***************************************************************************)
(* The state shared by every task of the rendezvous server:                *)
(* gday_hole_punch/src/server/global_state.rs.                             *)
(*                                                                         *)
(* `rooms` is the HashMap behind one std Mutex. Every method of State      *)
(* locks it, works, and unlocks it on return, so a method is one step.     *)
(* The exception is create_room, which draws ids in a loop with the mutex  *)
(* held: when no id is free it never returns and `lock` is never released. *)
(***************************************************************************)
EXTENDS Naturals

CONSTANTS
    Conns,     \* connections to the server; a connection names its task too
    RoomIds,   \* the ids create_room draws from, 0..1_048_575 in the code
    Addrs,     \* socket addresses
    V6Addrs,   \* those that are SocketAddr::V6; the others are V4
    None       \* Option::None, in every place one occurs

Scopes == {"private", "public"}

Families == {"v6", "v4"}

\* Contact and FullContact of lib.rs: an optional address per scope and family.
FullContact == [Scopes -> [Families -> Addrs \cup {None}]]

\* A client of a room. Its oneshot sender is named by the connection whose
\* task holds the receiver.
Client == [contact : FullContact, sender : Conns \cup {None}]

\* Room.creator is room[TRUE] and Room.joiner is room[FALSE].
Room == [BOOLEAN -> Client]

ASSUME NoneAssumption ==
    /\ None \notin Conns
    /\ None \notin RoomIds
    /\ None \notin Addrs
    /\ None \notin Room

ASSUME AddrAssumption == V6Addrs \subseteq Addrs

VARIABLES
    lock,      \* the connection spinning in create_room with the mutex held
    rooms,     \* RoomIds -> Room, or None where the map has no such key
    timers,    \* Conns -> the room the sleeping room_timeout task of the
               \* create_room call of this connection will remove, or None
    delivered  \* Conns -> what was sent into this connection's oneshot

globalVars == <<lock, rooms, timers, delivered>>

GlobalTypeOK ==
    /\ lock \in Conns \cup {None}
    /\ rooms \in [RoomIds -> Room \cup {None}]
    /\ timers \in [Conns -> RoomIds \cup {None}]
    /\ delivered \in [Conns -> (FullContact \X FullContact) \cup {None}]

DefaultRoom ==
    [is_creator \in BOOLEAN |->
        [contact |-> [s \in Scopes |-> [f \in Families |-> None]],
         sender  |-> None]]

GlobalInit ==
    /\ lock = None
    /\ rooms = [r \in RoomIds |-> None]
    /\ timers = [c \in Conns |-> None]
    /\ delivered = [c \in Conns |-> None]

----------------------------------------------------------------------------
\* State::room_exists
RoomExists(r) == rooms[r] # None

\* Bug: a room id is taken without asking whether it is in use.
CreateRoomUnchecked(c, r) ==
    /\ lock = None
    /\ rooms' = [rooms EXCEPT ![r] = DefaultRoom]
    /\ timers' = [timers EXCEPT ![c] = r]
    /\ UNCHANGED <<lock, delivered>>

\* Bug: create_room forgets to call room_timeout.
CreateRoomNoTimeout(c, r) ==
    /\ lock = None
    /\ ~RoomExists(r)
    /\ rooms' = [rooms EXCEPT ![r] = DefaultRoom]
    /\ UNCHANGED <<lock, timers, delivered>>

\* State::create_room: draw ids until one is unused, insert a default room
\* and spawn the task that removes it ten minutes later.
CreateRoom(c, r) ==
    /\ lock = None
    /\ ~RoomExists(r)
    /\ rooms' = [rooms EXCEPT ![r] = DefaultRoom]
    /\ timers' = [timers EXCEPT ![c] = r]
    /\ UNCHANGED <<lock, delivered>>

\* State::create_room when every id is in use: the loop draws for ever, and
\* the mutex that anybody needs to remove a room stays locked.
SpinForRoomId(c) ==
    /\ lock = None
    /\ \A r \in RoomIds : RoomExists(r)
    /\ lock' = c
    /\ UNCHANGED <<rooms, timers, delivered>>

\* Any method that returns Err(NoSuchRoomId).
NoSuchRoom(r) ==
    /\ lock = None
    /\ ~RoomExists(r)
    /\ UNCHANGED globalVars

Family(addr) == IF addr \in V6Addrs THEN "v6" ELSE "v4"

\* Bug: update_client makes the room when it is missing (HashMap::entry).
UpdateClientOrInsert(r, is_creator, addr, scope) ==
    /\ lock = None
    /\ rooms' = [rooms EXCEPT ![r] =
                    [IF @ = None THEN DefaultRoom ELSE @ EXCEPT
                        ![is_creator].contact[scope][Family(addr)] = addr]]
    /\ UNCHANGED <<lock, timers, delivered>>

\* State::update_client
UpdateClient(r, is_creator, addr, scope) ==
    /\ lock = None
    /\ RoomExists(r)
    /\ rooms' = [rooms EXCEPT
                    ![r][is_creator].contact[scope][Family(addr)] = addr]
    /\ UNCHANGED <<lock, timers, delivered>>

\* Both senders are used and the room is removed; its timeout is not.
Exchange(c, r, is_creator) ==
    LET client == rooms[r][is_creator].contact
        peer   == rooms[r][~is_creator].contact
    IN  /\ delivered' = [delivered EXCEPT
                            ![c] = <<client, peer>>,
                            ![rooms[r][~is_creator].sender] = <<peer, client>>]
        /\ rooms' = [rooms EXCEPT ![r] = None]

\* Bug: the room is removed as soon as one client is done.
SetClientDoneRemovesRoom(c, r, is_creator) ==
    /\ lock = None
    /\ RoomExists(r)
    /\ IF rooms[r][~is_creator].sender # None
       THEN Exchange(c, r, is_creator)
       ELSE /\ rooms' = [rooms EXCEPT ![r] = None]
            /\ UNCHANGED delivered
    /\ UNCHANGED <<lock, timers>>

\* State::set_client_done stores the sender of a new oneshot, replacing (and
\* dropping) an older one, and at once takes it out again. If the peer has a
\* sender in the room the two are used. If not, the sender just taken goes
\* out of scope: the client's slot is empty when the mutex is unlocked.
SetClientDone(c, r, is_creator) ==
    /\ lock = None
    /\ RoomExists(r)
    /\ IF rooms[r][~is_creator].sender # None
       THEN Exchange(c, r, is_creator)
       ELSE /\ rooms' = [rooms EXCEPT ![r][is_creator].sender = None]
            /\ UNCHANGED delivered
    /\ UNCHANGED <<lock, timers>>

\* The receiver of c resolves to Err once no room holds the sender any more.
SenderAlive(c) ==
    \E r \in RoomIds, is_creator \in BOOLEAN :
        RoomExists(r) /\ rooms[r][is_creator].sender = c

\* The task spawned by room_timeout wakes up.
RoomTimeout(c) ==
    /\ lock = None
    /\ timers[c] # None
    /\ rooms' = [rooms EXCEPT ![timers[c]] = None]
    /\ timers' = [timers EXCEPT ![c] = None]
    /\ UNCHANGED <<lock, delivered>>
============================================================================

------------------------- MODULE ConnectionHandler -------------------------
(***************************************************************************)
(* The rendezvous server as its clients see it: one task per connection    *)
(* runs ConnectionHandler::start (connection_handler.rs) over the shared   *)
(* rooms of GlobalState. Clients are arbitrary here: a task may receive    *)
(* any message of the protocol, or fail to read one, at any await.         *)
(***************************************************************************)
EXTENDS Messenger, Sequences

CONSTANT PeerAddr    \* Conns -> the remote address of the TCP stream

ASSUME PeerAddrAssumption == PeerAddr \in [Conns -> Addrs]

VARIABLES
    pc,           \* where each connection's task is
    roomId,       \* ConnectionHandler.room_id
    isCreator,    \* ConnectionHandler.is_creator
    privateAddr,  \* the address handle_message has yet to store, or None
    outbox        \* every message written to the connection, in order

handlerVars == <<pc, roomId, isCreator, privateAddr, outbox>>

vars == <<globalVars, handlerVars>>

(***************************************************************************)
(* start: awaiting the first message. main: awaiting a message in the      *)
(* loop. private: between the two update_client calls of SendPrivateAddr.  *)
(* await: awaiting the oneshot. spin: inside create_room, no id free.      *)
(* closed: the task has returned and the connection is closed.             *)
(***************************************************************************)
PCs == {"start", "main", "private", "await", "spin", "closed"}

\* Messenger::next_msg returns a message or an error (end of stream, a length
\* above the buffer's, bytes that do not decode).
ReadError == [type |-> "ReadError"]

Incoming == ClientMessage \cup {ReadError}

Init ==
    /\ GlobalInit
    /\ pc = [c \in Conns |-> "start"]
    /\ roomId = [c \in Conns |-> None]
    /\ isCreator = [c \in Conns |-> FALSE]
    /\ privateAddr = [c \in Conns |-> None]
    /\ outbox = [c \in Conns |-> <<>>]

----------------------------------------------------------------------------
Goto(c, where) == pc' = [pc EXCEPT ![c] = where]

\* Messenger::write_msg and the `?` behind it: the message is written and the
\* task goes on at `where`, or the write fails and the task returns. A message
\* that does not fit the buffer is never written.
Send(c, msg, where) ==
    \/ /\ Fits(msg)
       /\ outbox' = [outbox EXCEPT ![c] = Append(@, msg)]
       /\ Goto(c, where)
    \/ /\ Goto(c, "closed")
       /\ UNCHANGED outbox

EnterRoom(c, r, is_creator) ==
    /\ roomId' = [roomId EXCEPT ![c] = r]
    /\ isCreator' = [isCreator EXCEPT ![c] = is_creator]

\* start: the first message is CreateRoom.
StartCreateRoom(c, msg) ==
    /\ pc[c] = "start"
    /\ msg.type = "CreateRoom"
    /\ \E r \in RoomIds :
        /\ CreateRoom(c, r)
        /\ EnterRoom(c, r, TRUE)
        /\ Send(c, RoomCreated(r), "main")
    /\ UNCHANGED privateAddr

\* start: the first message is CreateRoom and create_room cannot return.
StartSpin(c, msg) ==
    /\ pc[c] = "start"
    /\ msg.type = "CreateRoom"
    /\ SpinForRoomId(c)
    /\ Goto(c, "spin")
    /\ UNCHANGED <<roomId, isCreator, privateAddr, outbox>>

\* Bug: the task goes on after it has answered ErrorNoSuchRoomID.
StartJoinRoomNoReturn(c, msg) ==
    /\ pc[c] = "start"
    /\ msg.type = "JoinRoom"
    /\ \/ /\ lock = None
          /\ RoomExists(msg.room_id)
          /\ Send(c, RoomJoined, "main")
          /\ UNCHANGED globalVars
       \/ /\ NoSuchRoom(msg.room_id)
          /\ Send(c, ErrorNoSuchRoomID, "main")
    /\ EnterRoom(c, msg.room_id, FALSE)
    /\ UNCHANGED privateAddr

\* start: the first message is JoinRoom. Whether somebody else has joined is
\* not asked.
StartJoinRoom(c, msg) ==
    /\ pc[c] = "start"
    /\ msg.type = "JoinRoom"
    /\ \/ /\ lock = None
          /\ RoomExists(msg.room_id)
          /\ EnterRoom(c, msg.room_id, FALSE)
          /\ Send(c, RoomJoined, "main")
          /\ UNCHANGED globalVars
       \/ /\ NoSuchRoom(msg.room_id)
          /\ Send(c, ErrorNoSuchRoomID, "closed")
          /\ UNCHANGED <<roomId, isCreator>>
    /\ UNCHANGED privateAddr

\* start and handle_message: any other message, and any read error, is
\* answered with SyntaxError and ends the task.
Reject(c, msg) ==
    /\ \/ pc[c] = "start" /\ msg.type \notin {"CreateRoom", "JoinRoom"}
       \/ pc[c] = "main" /\ msg.type \notin {"SendPrivateAddr", "DoneSending"}
    /\ Send(c, SyntaxError, "closed")
    /\ UNCHANGED <<globalVars, roomId, isCreator, privateAddr>>

\* update_client of the handler failed: send_no_such_room ends the task.
SendNoSuchRoom(c) ==
    /\ NoSuchRoom(roomId[c])
    /\ Send(c, ErrorNoSuchRoomID, "closed")
    /\ UNCHANGED <<roomId, isCreator, privateAddr>>

\* Bug: the second update_client is made whether or not there is an address.
HandleSendPrivateAddrUnwrapped(c, msg) ==
    /\ pc[c] = "main"
    /\ msg.type = "SendPrivateAddr"
    /\ UpdateClient(roomId[c], isCreator[c], PeerAddr[c], "public")
    /\ privateAddr' = [privateAddr EXCEPT ![c] = msg.addr]
    /\ Goto(c, "private")
    /\ UNCHANGED <<roomId, isCreator, outbox>>

\* handle_message: SendPrivateAddr stores the remote address of the stream as
\* the public one, unless peer_addr fails; the private one is stored under
\* another lock of the mutex.
HandleSendPrivateAddr(c, msg) ==
    /\ pc[c] = "main"
    /\ msg.type = "SendPrivateAddr"
    /\ \/ /\ UpdateClient(roomId[c], isCreator[c], PeerAddr[c], "public")
          /\ privateAddr' = [privateAddr EXCEPT ![c] = msg.addr]
          /\ Goto(c, IF msg.addr = None THEN "main" ELSE "private")
          /\ UNCHANGED <<roomId, isCreator, outbox>>
       \/ SendNoSuchRoom(c)
       \/ /\ Goto(c, "closed")
          /\ UNCHANGED <<globalVars, roomId, isCreator, privateAddr, outbox>>

\* Bug: the second call says, like the first, that the address is public.
HandlePrivateAddrAsPublic(c) ==
    /\ pc[c] = "private"
    /\ \/ /\ UpdateClient(roomId[c], isCreator[c], privateAddr[c], "public")
          /\ privateAddr' = [privateAddr EXCEPT ![c] = None]
          /\ Goto(c, "main")
          /\ UNCHANGED <<roomId, isCreator, outbox>>
       \/ SendNoSuchRoom(c)

\* handle_message: the second update_client call of SendPrivateAddr.
HandlePrivateAddr(c) ==
    /\ pc[c] = "private"
    /\ \/ /\ UpdateClient(roomId[c], isCreator[c], privateAddr[c], "private")
          /\ privateAddr' = [privateAddr EXCEPT ![c] = None]
          /\ Goto(c, "main")
          /\ UNCHANGED <<roomId, isCreator, outbox>>
       \/ SendNoSuchRoom(c)

\* handle_message: DoneSending, up to the await of the receiver.
HandleDoneSending(c, msg) ==
    /\ pc[c] = "main"
    /\ msg.type = "DoneSending"
    /\ \/ /\ SetClientDone(c, roomId[c], isCreator[c])
          /\ Goto(c, "await")
          /\ UNCHANGED <<roomId, isCreator, privateAddr, outbox>>
       \/ SendNoSuchRoom(c)

\* Bug: the error of a dropped sender is not looked at.
HandleContactsIgnoringDrop(c) ==
    /\ pc[c] = "await"
    /\ delivered[c] # None
    /\ Send(c, SharePeerContacts(delivered[c]), "main")
    /\ delivered' = [delivered EXCEPT ![c] = None]
    /\ UNCHANGED <<lock, rooms, timers, roomId, isCreator, privateAddr>>

\* handle_message: the receiver resolves, to the contacts that were sent or,
\* if the sender is gone, to the error that ends the task without a word.
HandleContacts(c) ==
    /\ pc[c] = "await"
    /\ delivered[c] # None \/ ~SenderAlive(c)
    /\ IF delivered[c] # None
       THEN Send(c, SharePeerContacts(delivered[c]), "main")
       ELSE Goto(c, "closed") /\ UNCHANGED outbox
    /\ delivered' = [delivered EXCEPT ![c] = None]
    /\ UNCHANGED <<lock, rooms, timers, roomId, isCreator, privateAddr>>

Receive(c, msg) ==
    \/ StartCreateRoom(c, msg)
    \/ StartSpin(c, msg)
    \/ StartJoinRoom(c, msg)
    \/ Reject(c, msg)
    \/ HandleSendPrivateAddr(c, msg)
    \/ HandleDoneSending(c, msg)

Timeout(c) == RoomTimeout(c) /\ UNCHANGED handlerVars

Next ==
    \E c \in Conns :
        \/ \E msg \in Incoming : Receive(c, msg)
        \/ HandlePrivateAddr(c)
        \/ HandleContacts(c)
        \/ Timeout(c)

Spec == Init /\ [][Next]_vars

\* The runtime polls every task that can go on, and a sleep ends. Nothing
\* makes a client send.
Fairness ==
    \A c \in Conns :
        /\ WF_vars(HandlePrivateAddr(c))
        /\ WF_vars(HandleContacts(c))
        /\ WF_vars(Timeout(c))

FairSpec == Spec /\ Fairness
----------------------------------------------------------------------------
TypeOK ==
    /\ GlobalTypeOK
    /\ pc \in [Conns -> PCs]
    /\ roomId \in [Conns -> RoomIds \cup {None}]
    /\ isCreator \in [Conns -> BOOLEAN]
    /\ privateAddr \in [Conns -> Addrs \cup {None}]
    /\ outbox \in [Conns -> Seq(ServerMessage)]
    /\ \A c \in Conns :
        /\ pc[c] \in {"main", "private", "await"} => roomId[c] # None
        /\ pc[c] = "private" => privateAddr[c] # None

\* Every room has one sleeping room_timeout task, the one its own create_room
\* spawned, and no other task will remove it: a room can be neither leaked nor
\* cut short by the timer of an earlier room with the same id (room_timeout
\* removes by id alone).
OneTimerPerRoom ==
    /\ \A r \in RoomIds : RoomExists(r) <=> \E c \in Conns : timers[c] = r
    /\ \A c, d \in Conns : timers[c] = timers[d] /\ timers[c] # None => c = d

\* What has been written to a connection fits what its task believes: the
\* first message tells the room the task is in, an error is the last message
\* and the task is gone, and a task in a room has told its client so.
ConversationOK ==
    \A c \in Conns :
        LET out == outbox[c]
            isError(i) == out[i] \in {SyntaxError, ErrorNoSuchRoomID}
        IN  /\ \A i \in DOMAIN out :
                isError(i) => i = Len(out) /\ pc[c] = "closed"
            /\ out # <<>> /\ ~isError(1) =>
                out[1] = IF isCreator[c] THEN RoomCreated(roomId[c])
                                         ELSE RoomJoined
            /\ pc[c] \in {"main", "private", "await"} => out # <<>>

\* A room enters the map only empty, and with a new timer, whatever tasks of
\* an earlier room with the same id are still doing: update_client between
\* two locks of the mutex never brings an expired room back.
RoomsBornEmpty ==
    [][\A r \in RoomIds :
        ~RoomExists(r) /\ RoomExists(r)' =>
            /\ rooms'[r] = DefaultRoom
            /\ \E c \in Conns : timers[c] = None /\ timers'[c] = r]_vars

\* The rooms and their timers are leases of ids, which end by their timeout or
\* by an exchange of contacts. A timer whose room has gone before it is no lease,
\* unless its id has a room again: it would then end a lease of somebody else.
Leases == INSTANCE RoomLeases WITH
    live  <- {r \in RoomIds : RoomExists(r)},
    lease <- [c \in Conns |->
                IF timers[c] # None /\ RoomExists(timers[c])
                THEN timers[c] ELSE None],
    told  <- {c \in Conns : delivered[c] # None}

ImplementsLeases == Leases!Spec

\* "Removes the room with `room_id` from `self.rooms` after 10 minutes"
\* (room_timeout): no room stays for ever.
RoomsExpire == \A r \in RoomIds : RoomExists(r) ~> ~RoomExists(r)

\* "`Some` if the client is done sending their contact info" (Client.sender):
\* while a done client waits in its room, the room holds its sender.
DoneClientHasSender ==
    \A c \in Conns :
        pc[c] = "await" /\ delivered[c] = None /\ RoomExists(roomId[c]) =>
            rooms[roomId[c]][isCreator[c]].sender = c
============================================================================

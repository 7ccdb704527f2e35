---------------------- MODULE ConnectionHandlerProofs ----------------------
(***************************************************************************)
(* The safety of the rendezvous server, for every number of connections,   *)
(* room ids and addresses.                                                 *)
(***************************************************************************)
EXTENDS ConnectionHandler, TLAPS

----------------------------------------------------------------------------
\* The types of what the actions build.

\* Storing an address in a room, as update_client does, gives a room.
LEMMA StoredRoomIsRoom ==
    ASSUME NEW room \in Room, NEW b \in BOOLEAN, NEW s \in Scopes,
           NEW a \in Addrs
    PROVE  [room EXCEPT ![b].contact[s][Family(a)] = a] \in Room
<1>1. Family(a) \in Families
    BY DEF Family, Families
<1>2. room[b] \in Client /\ room[b].contact \in FullContact
    BY DEF Room, Client
<1>3. [room[b].contact EXCEPT ![s][Family(a)] = a] \in FullContact
    BY <1>1, <1>2 DEF FullContact
<1>4. [room[b] EXCEPT !.contact[s][Family(a)] = a] \in Client
    BY <1>2, <1>3 DEF Client
<1>. QED
    BY <1>4 DEF Room

\* Replacing a sender in a room, as set_client_done does, gives a room.
LEMMA SenderRoomIsRoom ==
    ASSUME NEW room \in Room, NEW b \in BOOLEAN, NEW x \in Conns \cup {None}
    PROVE  [room EXCEPT ![b].sender = x] \in Room
<1>1. [room[b] EXCEPT !.sender = x] \in Client
    BY DEF Room, Client
<1>. QED
    BY <1>1 DEF Room

LEMMA DefaultRoomIsRoom == DefaultRoom \in Room
BY DEF DefaultRoom, Room, Client, FullContact

LEMMA RepliesAreServerMessages ==
    /\ \A r \in RoomIds : RoomCreated(r) \in ServerMessage
    /\ {RoomJoined, SyntaxError, ErrorNoSuchRoomID} \subseteq ServerMessage
    /\ \A contacts \in FullContact \X FullContact :
        SharePeerContacts(contacts) \in ServerMessage
BY DEF ServerMessage, SharePeerContacts

\* Whether or not a write succeeds, the outbox and the pc keep their types.
LEMMA SendType ==
    ASSUME TypeOK, NEW c \in Conns, NEW msg \in ServerMessage,
           NEW where \in PCs, Send(c, msg, where)
    PROVE  /\ outbox' \in [Conns -> Seq(ServerMessage)]
           /\ pc' \in [Conns -> PCs]
           /\ pc'[c] \in {where, "closed"}
           /\ \A d \in Conns \ {c} : pc'[d] = pc[d]
<1>1. pc \in [Conns -> PCs] /\ outbox \in [Conns -> Seq(ServerMessage)]
    BY DEF TypeOK
<1>2. outbox[c] \in Seq(ServerMessage)
    BY <1>1
<1>3. Append(outbox[c], msg) \in Seq(ServerMessage)
    BY <1>2
<1>4. outbox' \in [Conns -> Seq(ServerMessage)]
    BY <1>1, <1>3 DEF Send
<1>5. pc' \in [Conns -> PCs]
    BY <1>1 DEF Send, Goto, PCs
<1>. QED
    BY <1>1, <1>4, <1>5 DEF Send, Goto

----------------------------------------------------------------------------
\* Type correctness, one lemma per action that builds something.

LEMMA CreateRoomType ==
    ASSUME GlobalTypeOK, NEW c \in Conns, NEW r \in RoomIds, CreateRoom(c, r)
    PROVE  GlobalTypeOK'
BY DefaultRoomIsRoom DEF GlobalTypeOK, CreateRoom

LEMMA UpdateClientType ==
    ASSUME GlobalTypeOK, NEW r \in RoomIds, NEW b \in BOOLEAN,
           NEW a \in Addrs, NEW s \in Scopes, UpdateClient(r, b, a, s)
    PROVE  GlobalTypeOK'
<1>1. rooms[r] \in Room
    BY DEF GlobalTypeOK, UpdateClient, RoomExists
<1>2. [rooms[r] EXCEPT ![b].contact[s][Family(a)] = a] \in Room
    BY <1>1, StoredRoomIsRoom
<1>. QED
    BY <1>2 DEF GlobalTypeOK, UpdateClient

LEMMA SetClientDoneType ==
    ASSUME GlobalTypeOK, NEW c \in Conns, NEW r \in RoomIds,
           NEW b \in BOOLEAN, SetClientDone(c, r, b)
    PROVE  GlobalTypeOK'
<1>1. rooms[r] \in Room
    BY DEF GlobalTypeOK, SetClientDone, RoomExists
<1>2. CASE rooms[r][~b].sender # None
    <2>1. rooms[r][b] \in Client /\ rooms[r][~b] \in Client
        BY <1>1 DEF Room
    <2>2. rooms[r][~b].sender \in Conns
        BY <2>1, <1>2 DEF Client
    <2>3. /\ rooms[r][b].contact \in FullContact
          /\ rooms[r][~b].contact \in FullContact
        BY <2>1 DEF Client
    <2>4. delivered' \in [Conns -> (FullContact \X FullContact) \cup {None}]
        BY <1>2, <2>2, <2>3 DEF GlobalTypeOK, SetClientDone, Exchange
    <2>. QED
        BY <1>2, <2>4 DEF GlobalTypeOK, SetClientDone, Exchange
<1>3. CASE rooms[r][~b].sender = None
    <2>1. [rooms[r] EXCEPT ![b].sender = None] \in Room
        BY <1>1, SenderRoomIsRoom
    <2>. QED
        BY <1>3, <2>1 DEF GlobalTypeOK, SetClientDone
<1>. QED
    BY <1>2, <1>3

\* What connects a task's place with the values it needs there.
HandlerTypeOK ==
    /\ pc \in [Conns -> PCs]
    /\ roomId \in [Conns -> RoomIds \cup {None}]
    /\ isCreator \in [Conns -> BOOLEAN]
    /\ privateAddr \in [Conns -> Addrs \cup {None}]
    /\ outbox \in [Conns -> Seq(ServerMessage)]
    /\ \A c \in Conns :
        /\ pc[c] \in {"main", "private", "await"} => roomId[c] # None
        /\ pc[c] = "private" => privateAddr[c] # None

\* A task that sends its last words, or that goes on in the same room, keeps
\* the handler's types.
LEMMA HandlerStepType ==
    ASSUME TypeOK, NEW c \in Conns,
           pc' \in [Conns -> PCs],
           outbox' \in [Conns -> Seq(ServerMessage)],
           \A d \in Conns \ {c} : pc'[d] = pc[d],
           pc'[c] \in {"main", "await", "spin", "closed"},
           pc'[c] \in {"main", "await"} => roomId[c] # None,
           UNCHANGED <<roomId, isCreator, privateAddr>>
    PROVE  HandlerTypeOK'
BY DEF TypeOK, HandlerTypeOK

LEMMA SendNoSuchRoomType ==
    ASSUME TypeOK, NEW c \in Conns, SendNoSuchRoom(c)
    PROVE  TypeOK'
<1>1. GlobalTypeOK'
    BY DEF TypeOK, SendNoSuchRoom, NoSuchRoom, globalVars, GlobalTypeOK
<1>2. Send(c, ErrorNoSuchRoomID, "closed")
    BY DEF SendNoSuchRoom
<1>3. HandlerTypeOK'
    BY <1>2, SendType, HandlerStepType, RepliesAreServerMessages
       DEF SendNoSuchRoom, PCs
<1>. QED
    BY <1>1, <1>3 DEF TypeOK, HandlerTypeOK

LEMMA TypeStep == TypeOK /\ [Next]_vars => TypeOK'
<1>. SUFFICES ASSUME TypeOK, [Next]_vars PROVE TypeOK'
    OBVIOUS
<1>. USE DEF PCs
<1>1. ASSUME NEW c \in Conns, NEW msg \in Incoming, StartCreateRoom(c, msg)
      PROVE  TypeOK'
    <2>1. PICK r \in RoomIds : /\ CreateRoom(c, r)
                               /\ EnterRoom(c, r, TRUE)
                               /\ Send(c, RoomCreated(r), "main")
        BY <1>1 DEF StartCreateRoom
    <2>2. GlobalTypeOK'
        BY <2>1, CreateRoomType DEF TypeOK
    <2>3. /\ outbox' \in [Conns -> Seq(ServerMessage)]
          /\ pc' \in [Conns -> PCs]
          /\ pc'[c] \in {"main", "closed"}
          /\ \A d \in Conns \ {c} : pc'[d] = pc[d]
        BY <2>1, SendType, RepliesAreServerMessages
    <2>4. privateAddr' = privateAddr
        BY <1>1 DEF StartCreateRoom
    <2>. QED
        BY <2>1, <2>2, <2>3, <2>4, NoneAssumption DEF TypeOK, EnterRoom
<1>2. ASSUME NEW c \in Conns, NEW msg \in Incoming, StartSpin(c, msg)
      PROVE  TypeOK'
    BY <1>2 DEF StartSpin, SpinForRoomId, Goto, TypeOK, GlobalTypeOK
<1>3. ASSUME NEW c \in Conns, NEW msg \in Incoming, StartJoinRoom(c, msg)
      PROVE  TypeOK'
    <2>1. UNCHANGED <<globalVars, privateAddr>>
        BY <1>3 DEF StartJoinRoom, NoSuchRoom
    <2>2. GlobalTypeOK'
        BY <2>1 DEF TypeOK, GlobalTypeOK, globalVars
    <2>3. msg.room_id \in RoomIds
        BY <1>3 DEF StartJoinRoom, Incoming, ClientMessage, ReadError
    <2>4. CASE EnterRoom(c, msg.room_id, FALSE) /\ Send(c, RoomJoined, "main")
        <3>1. /\ outbox' \in [Conns -> Seq(ServerMessage)]
              /\ pc' \in [Conns -> PCs]
              /\ pc'[c] \in {"main", "closed"}
              /\ \A d \in Conns \ {c} : pc'[d] = pc[d]
            BY <2>4, SendType, RepliesAreServerMessages
        <3>. QED
            BY <2>1, <2>2, <2>3, <2>4, <3>1, NoneAssumption
               DEF TypeOK, EnterRoom
    <2>5. CASE /\ Send(c, ErrorNoSuchRoomID, "closed")
               /\ UNCHANGED <<roomId, isCreator>>
        <3>1. HandlerTypeOK'
            BY <2>1, <2>5, SendType, HandlerStepType, RepliesAreServerMessages
        <3>. QED
            BY <2>2, <3>1 DEF TypeOK, HandlerTypeOK
    <2>. QED
        BY <1>3, <2>4, <2>5 DEF StartJoinRoom
<1>4. ASSUME NEW c \in Conns, NEW msg \in Incoming, Reject(c, msg)
      PROVE  TypeOK'
    <2>1. Send(c, SyntaxError, "closed")
        BY <1>4 DEF Reject
    <2>2. HandlerTypeOK'
        BY <1>4, <2>1, SendType, HandlerStepType, RepliesAreServerMessages
           DEF Reject
    <2>. QED
        BY <1>4, <2>2 DEF Reject, TypeOK, HandlerTypeOK, GlobalTypeOK,
                          globalVars
<1>5. ASSUME NEW c \in Conns, NEW msg \in Incoming,
             HandleSendPrivateAddr(c, msg)
      PROVE  TypeOK'
    <2>1. /\ msg.addr \in Addrs \cup {None}
          /\ roomId[c] \in RoomIds /\ isCreator[c] \in BOOLEAN
          /\ PeerAddr[c] \in Addrs
        BY <1>5, PeerAddrAssumption
           DEF HandleSendPrivateAddr, Incoming, ClientMessage, ReadError, TypeOK
    <2>2. CASE /\ UpdateClient(roomId[c], isCreator[c], PeerAddr[c], "public")
               /\ privateAddr' = [privateAddr EXCEPT ![c] = msg.addr]
               /\ Goto(c, IF msg.addr = None THEN "main" ELSE "private")
               /\ UNCHANGED <<roomId, isCreator, outbox>>
        <3>1. GlobalTypeOK'
            BY <2>1, <2>2, UpdateClientType DEF TypeOK, Scopes
        <3>. QED
            BY <2>1, <2>2, <3>1, NoneAssumption DEF TypeOK, Goto
    <2>3. CASE SendNoSuchRoom(c)
        BY <2>3, SendNoSuchRoomType
    <2>4. CASE /\ Goto(c, "closed")
               /\ UNCHANGED <<globalVars, roomId, isCreator, privateAddr, outbox>>
        BY <2>4 DEF TypeOK, GlobalTypeOK, globalVars, Goto
    <2>. QED
        BY <1>5, <2>2, <2>3, <2>4 DEF HandleSendPrivateAddr
<1>6. ASSUME NEW c \in Conns, NEW msg \in Incoming, HandleDoneSending(c, msg)
      PROVE  TypeOK'
    <2>1. roomId[c] \in RoomIds /\ isCreator[c] \in BOOLEAN
        BY <1>6 DEF HandleDoneSending, TypeOK
    <2>2. CASE /\ SetClientDone(c, roomId[c], isCreator[c])
               /\ Goto(c, "await")
               /\ UNCHANGED <<roomId, isCreator, privateAddr, outbox>>
        <3>1. GlobalTypeOK'
            BY <2>1, <2>2, SetClientDoneType DEF TypeOK
        <3>. QED
            BY <2>1, <2>2, <3>1, NoneAssumption DEF TypeOK, Goto
    <2>3. CASE SendNoSuchRoom(c)
        BY <2>3, SendNoSuchRoomType
    <2>. QED
        BY <1>6, <2>2, <2>3 DEF HandleDoneSending
<1>7. ASSUME NEW c \in Conns, HandlePrivateAddr(c)
      PROVE  TypeOK'
    <2>1. /\ roomId[c] \in RoomIds /\ isCreator[c] \in BOOLEAN
          /\ privateAddr[c] \in Addrs
        BY <1>7 DEF HandlePrivateAddr, TypeOK
    <2>2. CASE /\ UpdateClient(roomId[c], isCreator[c], privateAddr[c], "private")
               /\ privateAddr' = [privateAddr EXCEPT ![c] = None]
               /\ Goto(c, "main")
               /\ UNCHANGED <<roomId, isCreator, outbox>>
        <3>1. GlobalTypeOK'
            BY <2>1, <2>2, UpdateClientType DEF TypeOK, Scopes
        <3>. QED
            BY <2>1, <2>2, <3>1, NoneAssumption DEF TypeOK, Goto
    <2>3. CASE SendNoSuchRoom(c)
        BY <2>3, SendNoSuchRoomType
    <2>. QED
        BY <1>7, <2>2, <2>3 DEF HandlePrivateAddr
<1>8. ASSUME NEW c \in Conns, HandleContacts(c)
      PROVE  TypeOK'
    <2>1. GlobalTypeOK'
        BY <1>8 DEF HandleContacts, TypeOK, GlobalTypeOK
    <2>2. UNCHANGED <<roomId, isCreator, privateAddr>> /\ roomId[c] # None
        BY <1>8 DEF HandleContacts, TypeOK
    <2>3. CASE /\ delivered[c] # None
               /\ Send(c, SharePeerContacts(delivered[c]), "main")
        <3>1. delivered[c] \in FullContact \X FullContact
            BY <2>3 DEF TypeOK, GlobalTypeOK
        <3>2. HandlerTypeOK'
            BY <2>2, <2>3, <3>1, SendType, HandlerStepType,
               RepliesAreServerMessages
        <3>. QED
            BY <2>1, <3>2 DEF TypeOK, HandlerTypeOK
    <2>4. CASE Goto(c, "closed") /\ UNCHANGED outbox
        BY <2>1, <2>2, <2>4 DEF TypeOK, Goto
    <2>. QED
        BY <1>8, <2>3, <2>4 DEF HandleContacts
<1>9. ASSUME NEW c \in Conns, Timeout(c)
      PROVE  TypeOK'
    BY <1>9 DEF Timeout, RoomTimeout, handlerVars, TypeOK, GlobalTypeOK
<1>10. CASE UNCHANGED vars
    BY <1>10 DEF vars, globalVars, handlerVars, TypeOK, GlobalTypeOK
<1>. QED
    BY <1>1, <1>2, <1>3, <1>4, <1>5, <1>6, <1>7, <1>8, <1>9, <1>10
       DEF Next, Receive

LEMMA TypeInit == Init => TypeOK
BY DEF Init, GlobalInit, TypeOK, GlobalTypeOK, PCs

\* Every state of the server is well formed: a task that is in a room has the
\* id of one, and a task between the two locks of SendPrivateAddr still has
\* the address it is to store.
THEOREM TypeCorrect == Spec => []TypeOK
BY TypeInit, TypeStep, PTL DEF Spec

----------------------------------------------------------------------------
\* The inductive invariant. OneTimerPerRoom needs the other two: a room goes
\* before its timer when an exchange happens, which takes a sender left in a
\* room; and a second create_room on one connection would lose a timer.

\* No sender outlives the set_client_done call that made it.
SendersEmpty ==
    \A r \in RoomIds, b \in BOOLEAN :
        RoomExists(r) => rooms[r][b].sender = None

\* A connection's only create_room call comes with its first message.
StartHasNoTimer == \A c \in Conns : pc[c] = "start" => timers[c] = None

\* So no exchange happens.
NothingDelivered == \A c \in Conns : delivered[c] = None

IInv ==
    /\ TypeOK
    /\ SendersEmpty
    /\ StartHasNoTimer
    /\ OneTimerPerRoom
    /\ NothingDelivered

\* update_client and set_client_done without an exchange keep every room in
\* the map, and the timers.
RoomsKept ==
    /\ timers' = timers
    /\ \A r \in RoomIds : RoomExists(r)' <=> RoomExists(r)

RoomGranted ==
    \E c \in Conns, r \in RoomIds :
        pc[c] = "start" /\ pc'[c] # "start" /\ CreateRoom(c, r)

RoomExpired == \E c \in Conns : RoomTimeout(c)

LEMMA UpdateClientKeepsRooms ==
    ASSUME GlobalTypeOK, GlobalTypeOK', SendersEmpty,
           NEW r \in RoomIds, NEW b \in BOOLEAN, NEW a \in Addrs,
           NEW s \in Scopes, UpdateClient(r, b, a, s)
    PROVE  RoomsKept /\ SendersEmpty' /\ delivered' = delivered
<1>1. rooms[r] \in Room
    BY DEF GlobalTypeOK, UpdateClient, RoomExists
<1>2. [rooms[r] EXCEPT ![b].contact[s][Family(a)] = a] \in Room
    BY <1>1, StoredRoomIsRoom
<1>3. rooms'[r] = [rooms[r] EXCEPT ![b].contact[s][Family(a)] = a]
    BY DEF GlobalTypeOK, UpdateClient
<1>4. \A q \in RoomIds \ {r} : rooms'[q] = rooms[q]
    BY DEF GlobalTypeOK, UpdateClient
<1>5. RoomsKept
    BY <1>2, <1>3, <1>4, NoneAssumption DEF RoomsKept, RoomExists, UpdateClient
<1>6. \A d \in BOOLEAN : rooms'[r][d].sender = rooms[r][d].sender
    BY <1>1, <1>3 DEF Room, Client
<1>7. SendersEmpty'
    BY <1>4, <1>5, <1>6 DEF SendersEmpty, RoomsKept, RoomExists
<1>. QED
    BY <1>5, <1>7 DEF UpdateClient

\* The branch in which both senders are used is never taken.
LEMMA SetClientDoneKeepsRooms ==
    ASSUME GlobalTypeOK, SendersEmpty,
           NEW c \in Conns, NEW r \in RoomIds, NEW b \in BOOLEAN,
           SetClientDone(c, r, b)
    PROVE  RoomsKept /\ SendersEmpty' /\ delivered' = delivered
<1>1. rooms[r] \in Room /\ rooms[r][~b].sender = None
    BY DEF GlobalTypeOK, SetClientDone, RoomExists, SendersEmpty
<1>2. [rooms[r] EXCEPT ![b].sender = None] \in Room
    BY <1>1, SenderRoomIsRoom
<1>3. /\ rooms'[r] = [rooms[r] EXCEPT ![b].sender = None]
      /\ \A q \in RoomIds \ {r} : rooms'[q] = rooms[q]
      /\ UNCHANGED <<timers, delivered>>
    BY <1>1 DEF GlobalTypeOK, SetClientDone
<1>4. RoomsKept
    BY <1>1, <1>2, <1>3, NoneAssumption DEF RoomsKept, RoomExists
<1>5. \A d \in BOOLEAN : rooms[r][d].sender = None
    BY DEF SetClientDone, SendersEmpty
<1>6. \A d \in BOOLEAN : rooms'[r][d].sender = None
    BY <1>1, <1>3, <1>5 DEF Room, Client
<1>7. SendersEmpty'
    BY <1>3, <1>4, <1>6 DEF SendersEmpty, RoomsKept, RoomExists
<1>. QED
    BY <1>3, <1>4, <1>7

NobodyStarts == \A c \in Conns : pc'[c] = "start" => pc[c] = "start"

\* What every step preserves besides the types and the timers.
StepKeeps == SendersEmpty' /\ delivered' = delivered /\ NobodyStarts

LEMMA SendKeeps ==
    ASSUME TypeOK, NEW c \in Conns, NEW msg \in ServerMessage,
           NEW where \in PCs \ {"start"}, Send(c, msg, where)
    PROVE  NobodyStarts
<1>1. /\ pc'[c] \in {where, "closed"}
      /\ \A d \in Conns \ {c} : pc'[d] = pc[d]
    BY SendType
<1>. QED
    BY <1>1 DEF NobodyStarts

\* A step that leaves the shared state alone keeps every room.
LEMMA GlobalUnchangedKeeps ==
    ASSUME SendersEmpty, UNCHANGED globalVars
    PROVE  RoomsKept /\ SendersEmpty' /\ delivered' = delivered
BY DEF SendersEmpty, globalVars, RoomsKept, RoomExists

\* A step that moves one task on.
LEMMA GotoKeeps ==
    ASSUME TypeOK, NEW c \in Conns, NEW where \in PCs \ {"start"}, Goto(c, where)
    PROVE  NobodyStarts
BY DEF TypeOK, NobodyStarts, Goto

LEMMA SendNoSuchRoomKeeps ==
    ASSUME TypeOK, SendersEmpty, NEW c \in Conns, SendNoSuchRoom(c)
    PROVE  RoomsKept /\ StepKeeps
<1>1. UNCHANGED globalVars /\ Send(c, ErrorNoSuchRoomID, "closed")
    BY DEF SendNoSuchRoom, NoSuchRoom
<1>2. NobodyStarts
    BY <1>1, SendKeeps, RepliesAreServerMessages DEF PCs, ErrorNoSuchRoomID
<1>. QED
    BY <1>1, <1>2, GlobalUnchangedKeeps DEF StepKeeps

\* Every step grants a room, lets one expire, or keeps the rooms that are.
LEMMA StepKinds ==
    ASSUME IInv, TypeOK', [Next]_vars
    PROVE  (RoomGranted \/ RoomExpired \/ RoomsKept) /\ StepKeeps
<1>. USE DEF PCs
<1>0. /\ TypeOK /\ GlobalTypeOK /\ SendersEmpty
      /\ \A c \in Conns : delivered[c] = None
    BY DEF IInv, TypeOK, NothingDelivered
<1>1. ASSUME NEW c \in Conns, NEW msg \in Incoming, StartCreateRoom(c, msg)
      PROVE  RoomGranted /\ StepKeeps
    <2>1. PICK r \in RoomIds : /\ CreateRoom(c, r)
                               /\ Send(c, RoomCreated(r), "main")
        BY <1>1 DEF StartCreateRoom
    <2>2. pc[c] = "start" /\ pc'[c] \in {"main", "closed"}
        BY <1>0, <1>1, <2>1, SendType, RepliesAreServerMessages
           DEF StartCreateRoom
    <2>3. NobodyStarts
        BY <1>0, <2>1, SendKeeps, RepliesAreServerMessages DEF RoomCreated
    <2>4. SendersEmpty'
        BY <1>0, <2>1 DEF CreateRoom, DefaultRoom, SendersEmpty, GlobalTypeOK,
                          RoomExists
    <2>5. delivered' = delivered
        BY <2>1 DEF CreateRoom
    <2>. QED
        BY <2>1, <2>2, <2>3, <2>4, <2>5 DEF RoomGranted, StepKeeps
<1>2. ASSUME NEW c \in Conns, NEW msg \in Incoming, StartSpin(c, msg)
      PROVE  RoomsKept /\ StepKeeps
    <2>1. UNCHANGED <<rooms, timers, delivered>>
        BY <1>2 DEF StartSpin, SpinForRoomId
    <2>2. NobodyStarts
        BY <1>0, <1>2, GotoKeeps DEF StartSpin
    <2>. QED
        BY <1>0, <2>1, <2>2 DEF StepKeeps, RoomsKept, RoomExists, SendersEmpty
<1>3. ASSUME NEW c \in Conns, NEW msg \in Incoming, StartJoinRoom(c, msg)
      PROVE  RoomsKept /\ StepKeeps
    <2>1. UNCHANGED globalVars
        BY <1>3 DEF StartJoinRoom, NoSuchRoom
    <2>2. \/ Send(c, RoomJoined, "main")
          \/ Send(c, ErrorNoSuchRoomID, "closed")
        BY <1>3 DEF StartJoinRoom
    <2>3. NobodyStarts
        BY <1>0, <2>2, SendKeeps, RepliesAreServerMessages
           DEF RoomJoined, ErrorNoSuchRoomID
    <2>. QED
        BY <1>0, <2>1, <2>3, GlobalUnchangedKeeps DEF StepKeeps
<1>4. ASSUME NEW c \in Conns, NEW msg \in Incoming, Reject(c, msg)
      PROVE  RoomsKept /\ StepKeeps
    <2>1. UNCHANGED globalVars /\ Send(c, SyntaxError, "closed")
        BY <1>4 DEF Reject
    <2>2. NobodyStarts
        BY <1>0, <2>1, SendKeeps, RepliesAreServerMessages DEF SyntaxError
    <2>. QED
        BY <1>0, <2>1, <2>2, GlobalUnchangedKeeps DEF StepKeeps
<1>5. ASSUME NEW c \in Conns, NEW msg \in Incoming,
             HandleSendPrivateAddr(c, msg)
      PROVE  RoomsKept /\ StepKeeps
    <2>1. /\ roomId[c] \in RoomIds /\ isCreator[c] \in BOOLEAN
          /\ PeerAddr[c] \in Addrs /\ "public" \in Scopes
        BY <1>0, <1>5, PeerAddrAssumption
           DEF HandleSendPrivateAddr, TypeOK, Scopes
    <2>2. CASE /\ UpdateClient(roomId[c], isCreator[c], PeerAddr[c], "public")
               /\ Goto(c, IF msg.addr = None THEN "main" ELSE "private")
               /\ outbox' = outbox
        <3>1. RoomsKept /\ SendersEmpty' /\ delivered' = delivered
            BY <1>0, <2>1, <2>2, UpdateClientKeepsRooms DEF TypeOK
        <3>2. NobodyStarts
            BY <1>0, <2>2, GotoKeeps
        <3>. QED
            BY <3>1, <3>2 DEF StepKeeps
    <2>3. CASE SendNoSuchRoom(c)
        BY <1>0, <2>3, SendNoSuchRoomKeeps
    <2>4. CASE /\ Goto(c, "closed")
               /\ UNCHANGED <<globalVars, outbox>>
        BY <1>0, <2>4, GotoKeeps, GlobalUnchangedKeeps DEF StepKeeps
    <2>. QED
        BY <1>5, <2>2, <2>3, <2>4 DEF HandleSendPrivateAddr
<1>6. ASSUME NEW c \in Conns, NEW msg \in Incoming, HandleDoneSending(c, msg)
      PROVE  RoomsKept /\ StepKeeps
    <2>1. roomId[c] \in RoomIds /\ isCreator[c] \in BOOLEAN
        BY <1>0, <1>6 DEF HandleDoneSending, TypeOK
    <2>2. CASE /\ SetClientDone(c, roomId[c], isCreator[c])
               /\ Goto(c, "await") /\ outbox' = outbox
        <3>1. RoomsKept /\ SendersEmpty' /\ delivered' = delivered
            BY <1>0, <2>1, <2>2, SetClientDoneKeepsRooms
        <3>2. NobodyStarts
            BY <1>0, <2>2, GotoKeeps
        <3>. QED
            BY <3>1, <3>2 DEF StepKeeps
    <2>3. CASE SendNoSuchRoom(c)
        BY <1>0, <2>3, SendNoSuchRoomKeeps
    <2>. QED
        BY <1>6, <2>2, <2>3 DEF HandleDoneSending
<1>7. ASSUME NEW c \in Conns, HandlePrivateAddr(c)
      PROVE  RoomsKept /\ StepKeeps
    <2>1. /\ roomId[c] \in RoomIds /\ isCreator[c] \in BOOLEAN
          /\ privateAddr[c] \in Addrs /\ "private" \in Scopes
        BY <1>0, <1>7 DEF HandlePrivateAddr, TypeOK, Scopes
    <2>2. CASE /\ UpdateClient(roomId[c], isCreator[c], privateAddr[c], "private")
               /\ Goto(c, "main") /\ outbox' = outbox
        <3>1. RoomsKept /\ SendersEmpty' /\ delivered' = delivered
            BY <1>0, <2>1, <2>2, UpdateClientKeepsRooms DEF TypeOK
        <3>2. NobodyStarts
            BY <1>0, <2>2, GotoKeeps
        <3>. QED
            BY <3>1, <3>2 DEF StepKeeps
    <2>3. CASE SendNoSuchRoom(c)
        BY <1>0, <2>3, SendNoSuchRoomKeeps
    <2>. QED
        BY <1>7, <2>2, <2>3 DEF HandlePrivateAddr
<1>8. ASSUME NEW c \in Conns, HandleContacts(c)
      PROVE  RoomsKept /\ StepKeeps
    <2>1. Goto(c, "closed") /\ UNCHANGED <<outbox, rooms, timers>>
        BY <1>0, <1>8 DEF HandleContacts
    <2>2. delivered' = delivered
        BY <1>0, <1>8 DEF HandleContacts, GlobalTypeOK
    <2>3. NobodyStarts
        BY <1>0, <2>1, GotoKeeps
    <2>. QED
        BY <1>0, <2>1, <2>2, <2>3
           DEF StepKeeps, RoomsKept, RoomExists, SendersEmpty
<1>9. ASSUME NEW c \in Conns, Timeout(c)
      PROVE  RoomExpired /\ StepKeeps
    <2>1. RoomTimeout(c) /\ UNCHANGED <<pc, outbox, delivered>>
        BY <1>9 DEF Timeout, RoomTimeout, handlerVars
    <2>2. SendersEmpty'
        BY <1>0, <2>1 DEF RoomTimeout, SendersEmpty, GlobalTypeOK, RoomExists
    <2>. QED
        BY <1>0, <2>1, <2>2
           DEF RoomExpired, StepKeeps, NobodyStarts
<1>10. CASE UNCHANGED vars
    BY <1>0, <1>10, GlobalUnchangedKeeps
       DEF vars, handlerVars, StepKeeps, NobodyStarts
<1>. QED
    BY <1>1, <1>2, <1>3, <1>4, <1>5, <1>6, <1>7, <1>8, <1>9, <1>10
       DEF Next, Receive

LEMMA InvInit == Init => IInv
<1>. SUFFICES ASSUME Init PROVE IInv
    OBVIOUS
<1>1. TypeOK
    BY TypeInit
<1>. QED
    BY <1>1, NoneAssumption
       DEF Init, GlobalInit, IInv, SendersEmpty, StartHasNoTimer,
           OneTimerPerRoom, NothingDelivered, RoomExists

\* The timers stay one to one with the rooms.
LEMMA TimersStep ==
    ASSUME IInv, TypeOK', NobodyStarts, RoomGranted \/ RoomExpired \/ RoomsKept
    PROVE  OneTimerPerRoom' /\ StartHasNoTimer'
<1>0. /\ rooms \in [RoomIds -> Room \cup {None}]
      /\ timers \in [Conns -> RoomIds \cup {None}]
      /\ pc \in [Conns -> PCs]
      /\ OneTimerPerRoom /\ StartHasNoTimer
    BY DEF IInv, TypeOK, GlobalTypeOK
<1>1. CASE RoomGranted
    <2>1. PICK c \in Conns, r \in RoomIds :
            pc[c] = "start" /\ pc'[c] # "start" /\ CreateRoom(c, r)
        BY <1>1 DEF RoomGranted
    <2>2. /\ timers[c] = None
          /\ \A d \in Conns : timers[d] # r
        BY <1>0, <2>1 DEF StartHasNoTimer, OneTimerPerRoom, CreateRoom
    <2>3. /\ timers'[c] = r
          /\ \A d \in Conns \ {c} : timers'[d] = timers[d]
          /\ RoomExists(r)'
          /\ \A q \in RoomIds \ {r} : RoomExists(q)' <=> RoomExists(q)
        BY <1>0, <2>1, DefaultRoomIsRoom, NoneAssumption
           DEF CreateRoom, RoomExists
    <2>4. OneTimerPerRoom'
        <3>1. ASSUME NEW q \in RoomIds
              PROVE  RoomExists(q)' <=> \E d \in Conns : timers'[d] = q
            BY <1>0, <2>2, <2>3, NoneAssumption DEF OneTimerPerRoom
        <3>2. ASSUME NEW d \in Conns, NEW e \in Conns,
                     timers'[d] = timers'[e], timers'[d] # None
              PROVE  d = e
            BY <1>0, <2>2, <2>3, <3>2 DEF OneTimerPerRoom
        <3>. QED
            BY <3>1, <3>2 DEF OneTimerPerRoom
    <2>5. StartHasNoTimer'
        BY <1>0, <2>1, <2>3 DEF StartHasNoTimer, NobodyStarts
    <2>. QED
        BY <2>4, <2>5
<1>2. CASE RoomExpired
    <2>1. PICK c \in Conns, r \in RoomIds : RoomTimeout(c) /\ timers[c] = r
        BY <1>0, <1>2 DEF RoomExpired, RoomTimeout
    <2>2. /\ timers[c] = r /\ timers'[c] = None
          /\ \A d \in Conns \ {c} : timers'[d] = timers[d]
          /\ ~RoomExists(r)'
          /\ \A q \in RoomIds \ {r} : RoomExists(q)' <=> RoomExists(q)
        BY <1>0, <2>1 DEF RoomTimeout, RoomExists
    <2>3. \A d \in Conns \ {c} : timers[d] # r
        BY <1>0, <2>2, NoneAssumption DEF OneTimerPerRoom
    <2>4. OneTimerPerRoom'
        <3>1. ASSUME NEW q \in RoomIds
              PROVE  RoomExists(q)' <=> \E d \in Conns : timers'[d] = q
            BY <1>0, <2>2, <2>3, NoneAssumption DEF OneTimerPerRoom
        <3>2. ASSUME NEW d \in Conns, NEW e \in Conns,
                     timers'[d] = timers'[e], timers'[d] # None
              PROVE  d = e
            BY <1>0, <2>2, <3>2 DEF OneTimerPerRoom
        <3>. QED
            BY <3>1, <3>2 DEF OneTimerPerRoom
    <2>5. StartHasNoTimer'
        BY <1>0, <2>2 DEF StartHasNoTimer, NobodyStarts
    <2>. QED
        BY <2>4, <2>5
<1>3. CASE RoomsKept
    BY <1>0, <1>3 DEF RoomsKept, OneTimerPerRoom, StartHasNoTimer, NobodyStarts,
                      RoomExists
<1>. QED
    BY <1>1, <1>2, <1>3

LEMMA InvStep == IInv /\ [Next]_vars => IInv'
<1>. SUFFICES ASSUME IInv, [Next]_vars PROVE IInv'
    OBVIOUS
<1>1. TypeOK'
    BY TypeStep DEF IInv
<1>2. (RoomGranted \/ RoomExpired \/ RoomsKept) /\ StepKeeps
    BY <1>1, StepKinds
<1>3. OneTimerPerRoom' /\ StartHasNoTimer'
    BY <1>1, <1>2, TimersStep DEF StepKeeps
<1>4. NothingDelivered'
    BY <1>2 DEF IInv, StepKeeps, NothingDelivered
<1>. QED
    BY <1>1, <1>2, <1>3, <1>4 DEF IInv, StepKeeps

LEMMA Invariance == Spec => []IInv
BY InvInit, InvStep, PTL DEF Spec

\* Every room of the server has one sleeping room_timeout task, its own: no
\* room is leaked, and none is cut short by the timer of an earlier room.
THEOREM TimersMatchRooms == Spec => []OneTimerPerRoom
<1>1. IInv => OneTimerPerRoom
    BY DEF IInv
<1>. QED
    BY <1>1, Invariance, PTL

\* A room enters the map only through create_room, empty and with a timer of
\* a connection that had none.
THEOREM BirthOfRooms == Spec => RoomsBornEmpty
<1>1. ASSUME IInv, IInv', [Next]_vars, NEW r \in RoomIds,
             ~RoomExists(r), RoomExists(r)'
      PROVE  /\ rooms'[r] = DefaultRoom
             /\ \E c \in Conns : timers[c] = None /\ timers'[c] = r
    <2>1. RoomGranted
        <3>1. ~RoomsKept
            BY <1>1 DEF RoomsKept
        <3>2. ~RoomExpired
            BY <1>1 DEF RoomExpired, RoomTimeout, RoomExists, IInv, TypeOK,
                        GlobalTypeOK
        <3>. QED
            BY <1>1, <3>1, <3>2, StepKinds DEF IInv
    <2>2. PICK c \in Conns, q \in RoomIds : pc[c] = "start" /\ CreateRoom(c, q)
        BY <2>1 DEF RoomGranted
    <2>3. /\ rooms \in [RoomIds -> Room \cup {None}]
          /\ timers \in [Conns -> RoomIds \cup {None}]
          /\ timers[c] = None
        BY <1>1, <2>2 DEF IInv, TypeOK, GlobalTypeOK, StartHasNoTimer
    <2>4. q = r
        BY <1>1, <2>2, <2>3 DEF CreateRoom, RoomExists
    <2>. QED
        BY <2>2, <2>3, <2>4 DEF CreateRoom
<1>2. IInv /\ IInv' /\ [Next]_vars =>
        [\A r \in RoomIds :
            ~RoomExists(r) /\ RoomExists(r)' =>
                /\ rooms'[r] = DefaultRoom
                /\ \E c \in Conns : timers[c] = None /\ timers'[c] = r]_vars
    BY <1>1
<1>. QED
    BY <1>2, Invariance, PTL DEF Spec, RoomsBornEmpty

\* The server implements the leases of RoomLeases: whatever tasks and clients
\* do, an id is granted to one connection at a time, and is free again only
\* when its own timeout has removed the room or contacts were exchanged in it.
THEOREM LeasesImplemented == Spec => ImplementsLeases
<1>1. Init => Leases!Init
    BY DEF Init, GlobalInit, Leases!Init, RoomExists
<1>2. ASSUME IInv, IInv', [Next]_vars
      PROVE  [Leases!Next]_(Leases!vars)
    <2>0. /\ rooms \in [RoomIds -> Room \cup {None}]
          /\ timers \in [Conns -> RoomIds \cup {None}]
          /\ StartHasNoTimer
        BY <1>2 DEF IInv, TypeOK, GlobalTypeOK
    <2>1. (RoomGranted \/ RoomExpired \/ RoomsKept) /\ delivered' = delivered
        BY <1>2, StepKinds DEF IInv, StepKeeps
    <2>a. /\ timers \in [Conns -> RoomIds \cup {None}] /\ OneTimerPerRoom
          /\ timers' \in [Conns -> RoomIds \cup {None}] /\ OneTimerPerRoom'
        BY <1>2 DEF IInv, TypeOK, GlobalTypeOK
    \* Every timer has its room, so the timers are the leases.
    <2>b. /\ [c \in Conns |-> IF timers[c] # None /\ RoomExists(timers[c])
                             THEN timers[c] ELSE None] = timers
          /\ [c \in Conns |-> IF timers'[c] # None /\ RoomExists(timers[c])'
                             THEN timers'[c] ELSE None] = timers'
        BY <2>a DEF OneTimerPerRoom, RoomExists
    <2>2. CASE RoomGranted
        <3>1. PICK c \in Conns, r \in RoomIds :
                pc[c] = "start" /\ CreateRoom(c, r)
            BY <2>2 DEF RoomGranted
        <3>2. Leases!Grant(c, r)
            BY <2>0, <2>1, <2>b, <3>1, DefaultRoomIsRoom, NoneAssumption
               DEF Leases!Grant, CreateRoom, RoomExists, StartHasNoTimer
        <3>. QED
            BY <3>2 DEF Leases!Next
    <2>3. CASE RoomExpired
        <3>1. PICK c \in Conns : RoomTimeout(c)
            BY <2>3 DEF RoomExpired
        <3>2. Leases!Expire(c)
            BY <2>0, <2>1, <2>b, <3>1
               DEF Leases!Expire, Leases!End, RoomTimeout, RoomExists
        <3>. QED
            BY <3>2 DEF Leases!Next
    <2>4. CASE RoomsKept
        BY <2>1, <2>b, <2>4 DEF RoomsKept, Leases!vars
    <2>. QED
        BY <2>1, <2>2, <2>3, <2>4
<1>. QED
    BY <1>1, <1>2, Invariance, PTL DEF Spec, Leases!Spec, ImplementsLeases

----------------------------------------------------------------------------
\* What one task has said. A task that has read nothing has said nothing.

Errors == {SyntaxError, ErrorNoSuchRoomID}

Greeting(is_creator, r) == IF is_creator THEN RoomCreated(r) ELSE RoomJoined

Conversation(out, where, is_creator, r) ==
    /\ \A i \in 1..Len(out) :
        out[i] \in Errors => i = Len(out) /\ where = "closed"
    /\ out # <<>> /\ out[1] \notin Errors => out[1] = Greeting(is_creator, r)
    /\ where \in {"main", "private", "await"} => out # <<>>
    /\ where \in {"start", "spin"} => out = <<>>

ConversationInv ==
    \A c \in Conns : Conversation(outbox[c], pc[c], isCreator[c], roomId[c])

LEMMA ErrorsAndGreetings ==
    /\ Errors \subseteq ServerMessage
    /\ RoomJoined \notin Errors
    /\ \A r : RoomCreated(r) \notin Errors
    /\ \A contacts : SharePeerContacts(contacts) \notin Errors
BY DEF Errors, ServerMessage, RoomJoined, RoomCreated, SyntaxError,
       ErrorNoSuchRoomID, SharePeerContacts

\* A task ends without a word.
LEMMA ConversationEnds ==
    ASSUME NEW out \in Seq(ServerMessage), NEW where, NEW b, NEW r,
           Conversation(out, where, b, r)
    PROVE  Conversation(out, "closed", b, r)
BY DEF Conversation

\* A task in a room goes on there.
LEMMA ConversationGoesOn ==
    ASSUME NEW out \in Seq(ServerMessage), NEW where, NEW b, NEW r,
           NEW to \in {"main", "private", "await"},
           where \in {"main", "private", "await"},
           Conversation(out, where, b, r)
    PROVE  Conversation(out, to, b, r)
BY DEF Conversation

\* The first reply.
LEMMA ConversationBegins ==
    ASSUME NEW b \in BOOLEAN, NEW r
    PROVE  Conversation(<<Greeting(b, r)>>, "main", b, r)
<1>. DEFINE g == Greeting(b, r)
<1>1. g \notin Errors
    BY ErrorsAndGreetings DEF Greeting
<1>. HIDE DEF g
<1>2. Conversation(<<g>>, "main", b, r) <=> g = Greeting(b, r)
    BY <1>1 DEF Conversation
<1>. QED
    BY <1>2 DEF g

\* A message is written behind those that a task has written.
LEMMA ConversationAppends ==
    ASSUME NEW out \in Seq(ServerMessage), NEW msg \in ServerMessage,
           NEW where, NEW to, NEW b, NEW r,
           where # "closed", Conversation(out, where, b, r),
           \/ msg \in Errors /\ to = "closed"
           \/ /\ msg \notin Errors /\ out # <<>>
              /\ to \in {"main", "closed"}
    PROVE  Conversation(Append(out, msg), to, b, r)
<1>. DEFINE new == Append(out, msg)
<1>1. /\ Len(new) = Len(out) + 1 /\ Len(out) \in Nat /\ new # <<>>
      /\ new[Len(out) + 1] = msg
      /\ \A i \in 1..Len(out) : new[i] = out[i]
    OBVIOUS
<1>2. \A i \in 1..Len(out) : out[i] \notin Errors
    BY DEF Conversation
<1>. HIDE DEF new
<1>3. ASSUME NEW i \in 1..Len(new), new[i] \in Errors
      PROVE  i = Len(new) /\ to = "closed"
    BY <1>1, <1>2, <1>3
<1>4. ASSUME new[1] \notin Errors
      PROVE  new[1] = Greeting(b, r)
    <2>1. out # <<>>
        BY <1>1, <1>4
    <2>2. Len(out) >= 1
        BY <2>1
    <2>. QED
        BY <1>1, <1>2, <2>1, <2>2 DEF Conversation
<1>5. Conversation(new, to, b, r)
    BY <1>1, <1>3, <1>4 DEF Conversation
<1>. QED
    BY <1>5 DEF new

\* The others' conversations are not touched by a step of c.
LEMMA ConversationStep ==
    ASSUME ConversationInv, NEW c \in Conns,
           \A d \in Conns \ {c} :
                /\ outbox'[d] = outbox[d] /\ pc'[d] = pc[d]
                /\ isCreator'[d] = isCreator[d] /\ roomId'[d] = roomId[d],
           Conversation(outbox'[c], pc'[c], isCreator'[c], roomId'[c])
    PROVE  ConversationInv'
BY DEF ConversationInv

\* What Send does to the connection it is for, and to the others.
LEMMA SendEffect ==
    ASSUME TypeOK, NEW c \in Conns, NEW msg, NEW where, Send(c, msg, where)
    PROVE  /\ \/ outbox'[c] = Append(outbox[c], msg) /\ pc'[c] = where
              \/ outbox'[c] = outbox[c] /\ pc'[c] = "closed"
           /\ \A d \in Conns \ {c} : outbox'[d] = outbox[d] /\ pc'[d] = pc[d]
           /\ outbox[c] \in Seq(ServerMessage) /\ pc[c] \in PCs
BY DEF TypeOK, Send, Goto

\* Last words.
LEMMA SendErrorConversation ==
    ASSUME TypeOK, ConversationInv, NEW c \in Conns, NEW msg \in Errors,
           Send(c, msg, "closed"), pc[c] # "closed",
           UNCHANGED <<roomId, isCreator>>
    PROVE  ConversationInv'
<1>1. Conversation(outbox[c], pc[c], isCreator[c], roomId[c])
    BY DEF ConversationInv
<1>2. /\ \/ outbox'[c] = Append(outbox[c], msg) /\ pc'[c] = "closed"
         \/ outbox'[c] = outbox[c] /\ pc'[c] = "closed"
      /\ \A d \in Conns \ {c} : outbox'[d] = outbox[d] /\ pc'[d] = pc[d]
      /\ outbox[c] \in Seq(ServerMessage)
    BY SendEffect
<1>3. msg \in ServerMessage
    BY ErrorsAndGreetings
<1>4. Conversation(outbox'[c], pc'[c], isCreator[c], roomId[c])
    BY <1>1, <1>2, <1>3, ConversationAppends, ConversationEnds
<1>. QED
    BY <1>2, <1>4, ConversationStep

\* A move without a word.
LEMMA GotoConversation ==
    ASSUME TypeOK, ConversationInv, NEW c \in Conns, NEW where,
           Goto(c, where), UNCHANGED <<outbox, roomId, isCreator>>,
           \/ where = "closed"
           \/ /\ where \in {"main", "private", "await"}
              /\ pc[c] \in {"main", "private", "await"}
           \/ where = "spin" /\ pc[c] = "start"
    PROVE  ConversationInv'
<1>1. /\ Conversation(outbox[c], pc[c], isCreator[c], roomId[c])
      /\ outbox[c] \in Seq(ServerMessage)
    BY DEF ConversationInv, TypeOK
<1>2. pc'[c] = where /\ \A d \in Conns \ {c} : pc'[d] = pc[d]
    BY DEF Goto, TypeOK
<1>3. Conversation(outbox[c], where, isCreator[c], roomId[c])
    <2>1. CASE where = "spin" /\ pc[c] = "start"
        BY <1>1, <2>1 DEF Conversation
    <2>. QED
        BY <1>1, <2>1, ConversationEnds, ConversationGoesOn
<1>. QED
    BY <1>2, <1>3, ConversationStep

\* The first reply puts the task into a room.
LEMMA EnterRoomConversation ==
    ASSUME TypeOK, ConversationInv, NEW c \in Conns, NEW r, NEW b \in BOOLEAN,
           pc[c] = "start", EnterRoom(c, r, b),
           Send(c, Greeting(b, r), "main")
    PROVE  ConversationInv'
<1>. DEFINE g == Greeting(b, r)
<1>1. outbox[c] = <<>>
    BY DEF ConversationInv, Conversation
<1>2. /\ \/ outbox'[c] = Append(outbox[c], g) /\ pc'[c] = "main"
         \/ outbox'[c] = outbox[c] /\ pc'[c] = "closed"
      /\ \A d \in Conns \ {c} : outbox'[d] = outbox[d] /\ pc'[d] = pc[d]
    BY SendEffect
<1>3. /\ roomId'[c] = r /\ isCreator'[c] = b
      /\ \A d \in Conns \ {c} : roomId'[d] = roomId[d] /\ isCreator'[d] = isCreator[d]
    BY DEF EnterRoom, TypeOK
<1>. HIDE DEF g
<1>4. Conversation(outbox'[c], pc'[c], b, r)
    <2>1. CASE outbox'[c] = Append(outbox[c], g) /\ pc'[c] = "main"
        <3>1. outbox'[c] = <<g>>
            BY <1>1, <2>1
        <3>. QED
            BY <2>1, <3>1, ConversationBegins DEF g
    <2>2. CASE outbox'[c] = outbox[c] /\ pc'[c] = "closed"
        BY <1>1, <2>2 DEF Conversation
    <2>. QED
        BY <1>2, <2>1, <2>2
<1>. QED
    BY <1>2, <1>3, <1>4, ConversationStep

LEMMA ReceiveConversation ==
    ASSUME TypeOK, ConversationInv, NEW c \in Conns, NEW msg, Receive(c, msg)
    PROVE  ConversationInv'
<1>0. {SyntaxError, ErrorNoSuchRoomID} \subseteq Errors
    BY DEF Errors
<1>1. CASE StartCreateRoom(c, msg)
    <2>1. PICK r \in RoomIds : EnterRoom(c, r, TRUE) /\ Send(c, RoomCreated(r), "main")
        BY <1>1 DEF StartCreateRoom
    <2>2. pc[c] = "start" /\ Greeting(TRUE, r) = RoomCreated(r)
        BY <1>1 DEF StartCreateRoom, Greeting
    <2>. QED
        BY <2>1, <2>2, EnterRoomConversation
<1>2. CASE StartSpin(c, msg)
    BY <1>2, GotoConversation DEF StartSpin
<1>3. CASE StartJoinRoom(c, msg)
    <2>1. pc[c] = "start" /\ Greeting(FALSE, msg.room_id) = RoomJoined
        BY <1>3 DEF StartJoinRoom, Greeting
    <2>2. CASE EnterRoom(c, msg.room_id, FALSE) /\ Send(c, RoomJoined, "main")
        BY <2>1, <2>2, EnterRoomConversation
    <2>3. CASE /\ Send(c, ErrorNoSuchRoomID, "closed")
               /\ UNCHANGED <<roomId, isCreator>>
        BY <1>0, <2>1, <2>3, SendErrorConversation
    <2>. QED
        BY <1>3, <2>2, <2>3 DEF StartJoinRoom
<1>4. CASE Reject(c, msg)
    <2>1. /\ pc[c] # "closed" /\ Send(c, SyntaxError, "closed")
          /\ UNCHANGED <<roomId, isCreator>>
        BY <1>4 DEF Reject
    <2>. QED
        BY <1>0, <2>1, SendErrorConversation
<1>5. ASSUME pc[c] # "closed", SendNoSuchRoom(c)
      PROVE  ConversationInv'
    <2>1. /\ Send(c, ErrorNoSuchRoomID, "closed")
          /\ UNCHANGED <<roomId, isCreator>>
        BY <1>5 DEF SendNoSuchRoom
    <2>. QED
        BY <1>0, <1>5, <2>1, SendErrorConversation
<1>6. CASE HandleSendPrivateAddr(c, msg)
    <2>1. pc[c] = "main"
        BY <1>6 DEF HandleSendPrivateAddr
    <2>2. \/ SendNoSuchRoom(c)
          \/ /\ \E where \in {"main", "private", "closed"} : Goto(c, where)
             /\ UNCHANGED <<outbox, roomId, isCreator>>
        BY <1>6 DEF HandleSendPrivateAddr
    <2>. QED
        BY <1>5, <2>1, <2>2, GotoConversation
<1>7. CASE HandleDoneSending(c, msg)
    <2>1. pc[c] = "main"
        BY <1>7 DEF HandleDoneSending
    <2>2. \/ SendNoSuchRoom(c)
          \/ Goto(c, "await") /\ UNCHANGED <<outbox, roomId, isCreator>>
        BY <1>7 DEF HandleDoneSending
    <2>. QED
        BY <1>5, <2>1, <2>2, GotoConversation
<1>. QED
    BY <1>1, <1>2, <1>3, <1>4, <1>6, <1>7 DEF Receive

LEMMA HandleContactsConversation ==
    ASSUME TypeOK, ConversationInv, NEW c \in Conns, HandleContacts(c)
    PROVE  ConversationInv'
<1>0. pc[c] = "await" /\ UNCHANGED <<roomId, isCreator>>
    BY DEF HandleContacts
<1>1. CASE /\ delivered[c] # None
           /\ Send(c, SharePeerContacts(delivered[c]), "main")
    <2>. DEFINE msg == SharePeerContacts(delivered[c])
    <2>1. msg \in ServerMessage /\ msg \notin Errors
        <3>1. delivered[c] \in FullContact \X FullContact
            BY <1>1 DEF TypeOK, GlobalTypeOK
        <3>. QED
            BY <3>1, RepliesAreServerMessages, ErrorsAndGreetings
    <2>. HIDE DEF msg
    <2>2. /\ \/ outbox'[c] = Append(outbox[c], msg) /\ pc'[c] = "main"
             \/ outbox'[c] = outbox[c] /\ pc'[c] = "closed"
          /\ \A d \in Conns \ {c} : outbox'[d] = outbox[d] /\ pc'[d] = pc[d]
          /\ outbox[c] \in Seq(ServerMessage)
        BY <1>1, SendEffect DEF msg
    <2>3. /\ Conversation(outbox[c], pc[c], isCreator[c], roomId[c])
          /\ outbox[c] # <<>>
        BY <1>0 DEF ConversationInv, Conversation
    <2>4. Conversation(outbox'[c], pc'[c], isCreator[c], roomId[c])
        BY <1>0, <2>1, <2>2, <2>3, ConversationAppends, ConversationEnds
    <2>. QED
        BY <1>0, <2>2, <2>4, ConversationStep
<1>2. CASE Goto(c, "closed") /\ UNCHANGED outbox
    BY <1>0, <1>2, GotoConversation
<1>. QED
    BY <1>1, <1>2 DEF HandleContacts

LEMMA ConversationNext ==
    TypeOK /\ ConversationInv /\ [Next]_vars => ConversationInv'
<1>. SUFFICES ASSUME TypeOK, ConversationInv, [Next]_vars PROVE ConversationInv'
    OBVIOUS
<1>1. ASSUME NEW c \in Conns, NEW msg \in Incoming, Receive(c, msg)
      PROVE  ConversationInv'
    BY <1>1, ReceiveConversation
<1>2. ASSUME NEW c \in Conns, HandlePrivateAddr(c)
      PROVE  ConversationInv'
    <2>1. pc[c] = "private"
        BY <1>2 DEF HandlePrivateAddr
    <2>2. CASE SendNoSuchRoom(c)
        <3>1. /\ Send(c, ErrorNoSuchRoomID, "closed")
              /\ UNCHANGED <<roomId, isCreator>>
            BY <2>2 DEF SendNoSuchRoom
        <3>. QED
            BY <2>1, <3>1, SendErrorConversation DEF Errors
    <2>3. CASE Goto(c, "main") /\ UNCHANGED <<outbox, roomId, isCreator>>
        BY <2>1, <2>3, GotoConversation
    <2>. QED
        BY <1>2, <2>2, <2>3 DEF HandlePrivateAddr
<1>3. ASSUME NEW c \in Conns, HandleContacts(c)
      PROVE  ConversationInv'
    BY <1>3, HandleContactsConversation
<1>4. CASE UNCHANGED handlerVars
    BY <1>4 DEF handlerVars, ConversationInv
<1>. QED
    BY <1>1, <1>2, <1>3, <1>4 DEF Next, Timeout, vars

LEMMA ConversationInit == Init => ConversationInv
<1>1. ASSUME NEW b, NEW r PROVE Conversation(<<>>, "start", b, r)
    BY DEF Conversation
<1>. QED
    BY <1>1 DEF Init, ConversationInv

LEMMA ConversationImplies ==
    ASSUME TypeOK, ConversationInv
    PROVE  ConversationOK
<1>. SUFFICES ASSUME NEW c \in Conns
              PROVE  /\ \A i \in DOMAIN outbox[c] :
                        outbox[c][i] \in Errors =>
                            i = Len(outbox[c]) /\ pc[c] = "closed"
                     /\ outbox[c] # <<>> /\ outbox[c][1] \notin Errors =>
                        outbox[c][1] = Greeting(isCreator[c], roomId[c])
                     /\ pc[c] \in {"main", "private", "await"} =>
                            outbox[c] # <<>>
    BY DEF ConversationOK, Errors, Greeting
<1>1. outbox[c] \in Seq(ServerMessage)
    BY DEF TypeOK
<1>2. DOMAIN outbox[c] = 1..Len(outbox[c])
    BY <1>1
<1>. QED
    BY <1>2 DEF ConversationInv, Conversation

LEMMA ConversationInvariance == Spec => []ConversationInv
BY ConversationInit, ConversationNext, TypeCorrect, PTL DEF Spec

\* What has been written to a connection fits what its task believes: the
\* first message names the room and the role the task has, an error is the
\* last message of a task that is gone, and a task works in a room only after
\* it has told its client so.
THEOREM ConversationsKept == Spec => []ConversationOK
<1>1. TypeOK /\ ConversationInv => ConversationOK
    BY ConversationImplies
<1>. QED
    BY <1>1, ConversationInvariance, TypeCorrect, PTL

----------------------------------------------------------------------------
\* The buffer of a Messenger.

\* An Option takes one byte, and with an address in it 18 to 20 for IPv6 and
\* 6 to 8 for IPv4.
LEMMA OptionLenIs ==
    ASSUME NEW contact \in FullContact, NEW s \in Scopes
    PROVE  /\ contact[s]["v6"] = None => OptionLen(contact, s, "v6") = 1
           /\ contact[s]["v6"] # None => OptionLen(contact, s, "v6") \in 18..20
           /\ contact[s]["v4"] = None => OptionLen(contact, s, "v4") = 1
           /\ contact[s]["v4"] # None => OptionLen(contact, s, "v4") \in 6..8
<1>1. \A f \in Families :
        contact[s][f] # None => PortLen[contact[s][f]] \in 1..3
    BY PortLenAssumption DEF FullContact
<1>. QED
    BY <1>1 DEF OptionLen, IpLen, Families

\* Two clients that have both stored a private and a public IPv6 address cannot
\* be told of each other, however short their ports are: write_msg has no room
\* for four IPv6 addresses in its 68 bytes.
THEOREM FourIPv6DoNotFit ==
    ASSUME NEW mine \in FullContact, NEW theirs \in FullContact,
           \A s \in Scopes : mine[s]["v6"] # None /\ theirs[s]["v6"] # None
    PROVE  ~Fits(SharePeerContacts(<<mine, theirs>>))
<1>. DEFINE msg == SharePeerContacts(<<mine, theirs>>)
<1>1. /\ msg.type = "SharePeerContacts" /\ msg.client_contact = mine
      /\ msg.peer_contact = theirs
    BY DEF SharePeerContacts
<1>. HIDE DEF msg
<1>2. EncodedLen(msg) = 1 + ContactLen(mine) + ContactLen(theirs)
    BY <1>1 DEF EncodedLen
<1>3. ASSUME NEW contact \in FullContact,
             \A s \in Scopes : contact[s]["v6"] # None
      PROVE  ContactLen(contact) \in Nat /\ ContactLen(contact) >= 38
    <2>1. \A s \in Scopes : /\ OptionLen(contact, s, "v6") \in 18..20
                            /\ OptionLen(contact, s, "v4") \in 1..8
        BY <1>3, OptionLenIs
    <2>. QED
        BY <2>1 DEF ContactLen, Scopes
<1>. QED
    BY <1>2, <1>3 DEF Fits, BufLen, LengthLen, msg
============================================================================

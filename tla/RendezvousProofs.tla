-------------------------- MODULE RendezvousProofs --------------------------
(***************************************************************************)
(* The rendezvous server with the clients of this repository, for any      *)
(* number of them: what holds of the server for arbitrary clients holds    *)
(* here, and client and server agree on the room they are in.              *)
(***************************************************************************)
EXTENDS Rendezvous, ConnectionHandlerProofs, FiniteSetTheorems

----------------------------------------------------------------------------
\* The streams of a client.

LEMMA ConnIs ==
    /\ \A p \in Peers, f \in Families : <<p, f>> \in Conns
    /\ \A c \in Conns : c[1] \in Peers /\ c[2] \in Families /\ c = <<c[1], c[2]>>
BY RendezvousAssumption

LEMMA AnyMessengerIs ==
    ASSUME NEW p \in Peers
    PROVE  /\ AnyMessenger(p) \in Conns /\ AnyMessenger(p)[1] = p
           /\ \A q \in Peers : AnyMessenger(p) = AnyMessenger(q) => p = q
BY ConnIs DEF AnyMessenger, Families

\* The list that get_all_messengers returns has the messenger of create_room
\* and join_room in front.
LEMMA AllMessengersIs ==
    ASSUME NEW p \in Peers, streams[p] \in SUBSET Families
    PROVE  /\ Len(AllMessengers(p)) \in 0..2
           /\ \A i \in 1..Len(AllMessengers(p)) :
                AllMessengers(p)[i] \in Conns /\ AllMessengers(p)[i][1] = p
           /\ streams[p] # {} =>
                /\ Len(AllMessengers(p)) >= 1
                /\ AllMessengers(p)[1] = AnyMessenger(p)
<1>. DEFINE messenger(f) == IF f \in streams[p] THEN <<<<p, f>>>> ELSE <<>>
            six == messenger("v6")
            four == messenger("v4")
            all == six \o four
<1>1. AllMessengers(p) = all
    BY DEF AllMessengers
<1>2. <<p, "v6">> \in Conns /\ <<p, "v4">> \in Conns
    BY ConnIs DEF Families
<1>3. CASE "v6" \in streams[p] /\ "v4" \in streams[p]
    <2>1. six = <<<<p, "v6">>>> /\ four = <<<<p, "v4">>>>
        BY <1>3
    <2>2. Len(all) = 2 /\ all[1] = <<p, "v6">> /\ all[2] = <<p, "v4">>
        BY <2>1
    <2>. QED
        BY <1>1, <1>2, <1>3, <2>2 DEF AnyMessenger
<1>4. CASE "v6" \in streams[p] /\ "v4" \notin streams[p]
    <2>1. six = <<<<p, "v6">>>> /\ four = <<>>
        BY <1>4
    <2>2. Len(all) = 1 /\ all[1] = <<p, "v6">>
        BY <2>1
    <2>. QED
        BY <1>1, <1>2, <1>4, <2>2 DEF AnyMessenger
<1>5. CASE "v6" \notin streams[p] /\ "v4" \in streams[p]
    <2>1. six = <<>> /\ four = <<<<p, "v4">>>>
        BY <1>5
    <2>2. Len(all) = 1 /\ all[1] = <<p, "v4">>
        BY <2>1
    <2>. QED
        BY <1>1, <1>2, <1>5, <2>2 DEF AnyMessenger
<1>6. CASE "v6" \notin streams[p] /\ "v4" \notin streams[p]
    <2>1. six = <<>> /\ four = <<>> /\ streams[p] = {}
        BY <1>6 DEF Families
    <2>2. Len(all) = 0
        BY <2>1
    <2>. QED
        BY <1>1, <2>1, <2>2
<1>. QED
    BY <1>3, <1>4, <1>5, <1>6

----------------------------------------------------------------------------
\* The inductive invariant, client by client.

\* Nothing has happened on a stream.
Fresh(c) == inbox[c] = <<>> /\ pc[c] = "start"

\* A stream that the room was not requested on: its task is refused at the
\* first address it is sent.
Idle(c) ==
    /\ pc[c] \in {"start", "closed"}
    /\ \A i \in 1..Len(inbox[c]) : inbox[c][i].type = "SendPrivateAddr"

Request(p) ==
    IF p \in Creators THEN [type |-> "CreateRoom"]
                      ELSE [type |-> "JoinRoom", room_id |-> code[p]]

\* The request is on its way.
Asked(p, c) == pc[c] = "start" /\ inbox[c] = <<Request(p)>>

\* The server has read the request, and its reply, if there is one and it is
\* not an error, puts the task into the room the client has asked for.
Answered(p, c) ==
    /\ pc[c] # "start"
    /\ outbox[c] # <<>> /\ outbox[c][1] \notin Errors =>
        /\ isCreator[c] = (p \in Creators)
        /\ p \notin Creators => roomId[c] = code[p]

\* Client and server are in the same room.
Agreed(p, c) ==
    /\ pc[c] # "start"
    /\ roomId[c] = code[p]
    /\ isCreator[c] = (p \in Creators)

ClientInv(p) ==
    /\ clientPc[p] \in {"connect", "request", "response"} => heard[p] = 0
    /\ clientPc[p] \in {"send", "contacts"} => heard[p] = 1
    /\ clientPc[p] = "connect" => streams[p] = {}
    /\ clientPc[p] \in {"request", "response", "send", "contacts"} =>
        streams[p] # {}
    /\ streams[p] = {} \/ clientPc[p] = "request" =>
        \A f \in Families : Fresh(<<p, f>>)
    /\ clientPc[p] = "response" =>
        /\ p \notin Creators => code[p] # None
        /\ Asked(p, AnyMessenger(p)) \/ Answered(p, AnyMessenger(p))
    /\ clientPc[p] \in {"send", "contacts"} => Agreed(p, AnyMessenger(p))
    /\ \A f \in Families : <<p, f>> # AnyMessenger(p) => Idle(<<p, f>>)

\* The only private address that is sent on a stream is its own.
OwnAddress(c) ==
    /\ privateAddr[c] \in {None, LocalAddr[c]}
    /\ \A i \in 1..Len(inbox[c]) :
        inbox[c][i].type = "SendPrivateAddr" => inbox[c][i].addr = LocalAddr[c]

RInv ==
    /\ RTypeOK
    /\ ConversationInv
    /\ \A p \in Peers : ClientInv(p)
    /\ \A c \in Conns : OwnAddress(c)

\* A client, its streams and their tasks are left alone.
SameConn(c) ==
    /\ inbox'[c] = inbox[c] /\ pc'[c] = pc[c] /\ outbox'[c] = outbox[c]
    /\ roomId'[c] = roomId[c] /\ isCreator'[c] = isCreator[c]

SameClient(p) ==
    /\ clientPc'[p] = clientPc[p] /\ streams'[p] = streams[p]
    /\ code'[p] = code[p] /\ heard'[p] = heard[p]

LEMMA ClientInvFrame ==
    ASSUME NEW p \in Peers, ClientInv(p), SameClient(p),
           \A f \in Families : SameConn(<<p, f>>)
    PROVE  ClientInv(p)'
<1>1. AnyMessenger(p)' = AnyMessenger(p)
    BY DEF AnyMessenger, SameClient
<1>2. \A f \in Families : /\ Fresh(<<p, f>>)' = Fresh(<<p, f>>)
                          /\ Idle(<<p, f>>)' = Idle(<<p, f>>)
    BY DEF Fresh, Idle, SameConn
<1>3. PICK f \in Families : AnyMessenger(p) = <<p, f>>
    BY DEF AnyMessenger, Families
<1>4. Request(p)' = Request(p)
    BY DEF Request, SameClient
<1>5. /\ Asked(p, <<p, f>>)' = Asked(p, <<p, f>>)
      /\ Answered(p, <<p, f>>)' = Answered(p, <<p, f>>)
      /\ Agreed(p, <<p, f>>)' = Agreed(p, <<p, f>>)
    BY <1>4 DEF Asked, Answered, Agreed, SameConn, SameClient
<1>. QED
    BY <1>1, <1>2, <1>3, <1>5 DEF ClientInv, SameClient

----------------------------------------------------------------------------
\* The steps of a client.

LEMMA ServerUnchanged ==
    ASSUME UNCHANGED vars
    PROVE  /\ UNCHANGED <<pc, roomId, isCreator, privateAddr, outbox, rooms>>
           /\ TypeOK => TypeOK'
           /\ ConversationInv => ConversationInv'
<1>1. UNCHANGED <<lock, rooms, timers, delivered>>
    BY DEF vars, globalVars
<1>2. UNCHANGED <<pc, roomId, isCreator, privateAddr, outbox>>
    BY DEF vars, handlerVars
<1>. QED
    BY <1>1, <1>2 DEF TypeOK, GlobalTypeOK, ConversationInv

\* A step of one client disturbs nothing of another's.
LEMMA ClientStepInv ==
    ASSUME RInv, NEW p \in Peers, UNCHANGED vars, RTypeOK',
           \A q \in Peers \ {p} : SameClient(q),
           \A d \in Conns : d[1] # p => inbox'[d] = inbox[d],
           ClientInv(p)', \A f \in Families : OwnAddress(<<p, f>>)'
    PROVE  RInv'
<1>1. UNCHANGED <<pc, roomId, isCreator, privateAddr, outbox, rooms>>
    BY ServerUnchanged
<1>2. ConversationInv'
    BY ServerUnchanged DEF RInv
<1>3. ASSUME NEW q \in Peers PROVE ClientInv(q)'
    <2>1. CASE q = p
        BY <2>1
    <2>2. CASE q # p
        <3>1. \A f \in Families : SameConn(<<q, f>>)
            BY <1>1, <2>2, ConnIs DEF SameConn
        <3>. QED
            BY <2>2, <3>1, ClientInvFrame DEF RInv
    <2>. QED
        BY <2>1, <2>2
<1>4. ASSUME NEW c \in Conns PROVE OwnAddress(c)'
    <2>1. CASE c[1] = p
        BY <2>1, ConnIs
    <2>2. CASE c[1] # p
        BY <1>1, <2>2 DEF RInv, OwnAddress
    <2>. QED
        BY <2>1, <2>2
<1>. QED
    BY <1>2, <1>3, <1>4 DEF RInv

\* A client that moves on without writing anything: what it needs is that its
\* own invariant holds again.
LEMMA SilentStepInv ==
    ASSUME RInv, NEW p \in Peers, UNCHANGED <<vars, inbox>>, RTypeOK',
           \A q \in Peers \ {p} : SameClient(q),
           ClientInv(p)'
    PROVE  RInv'
<1>1. \A c \in Conns : OwnAddress(c)'
    BY ServerUnchanged DEF RInv, OwnAddress
<1>. QED
    BY <1>1, ClientStepInv, ConnIs

\* A process that has ended needs little.
LEMMA ExitStepInv ==
    ASSUME RInv, NEW p \in Peers, UNCHANGED <<vars, inbox, streams>>, RTypeOK',
           \A q \in Peers \ {p} : SameClient(q),
           clientPc'[p] \in {"exited", "connector"}
    PROVE  RInv'
<1>1. UNCHANGED <<pc, roomId, isCreator, privateAddr, outbox, rooms>>
    BY ServerUnchanged
<1>2. AnyMessenger(p)' = AnyMessenger(p)
    BY DEF AnyMessenger
<1>3. \A f \in Families : /\ Fresh(<<p, f>>)' = Fresh(<<p, f>>)
                          /\ Idle(<<p, f>>)' = Idle(<<p, f>>)
    BY <1>1 DEF Fresh, Idle
<1>4. ClientInv(p)'
    BY <1>2, <1>3 DEF ClientInv, RInv
<1>. QED
    BY <1>4, SilentStepInv

LEMMA QuitStep ==
    ASSUME RInv, NEW p \in Peers, Quit(p)
    PROVE  RInv'
<1>1. /\ clientPc' = [clientPc EXCEPT ![p] = "exited"]
      /\ UNCHANGED <<vars, streams, code, sent, heard, inbox>>
    BY DEF Quit, ClientGoto
<1>2. TypeOK'
    BY <1>1, ServerUnchanged DEF RInv, RTypeOK
<1>3. /\ clientPc \in [Peers -> ClientPCs] /\ clientPc'[p] = "exited"
      /\ \A q \in Peers \ {p} : clientPc'[q] = clientPc[q]
      /\ clientPc' \in [Peers -> ClientPCs]
    BY <1>1 DEF RInv, RTypeOK, ClientPCs
<1>4. RTypeOK'
    BY <1>1, <1>2, <1>3 DEF RInv, RTypeOK
<1>. QED
    BY <1>1, <1>3, <1>4, ExitStepInv DEF SameClient

LEMMA ReadFailsStep ==
    ASSUME RInv, NEW p \in Peers, NEW c, ReadFails(p, c)
    PROVE  RInv'
<1>1. /\ clientPc' = [clientPc EXCEPT ![p] = "exited"]
      /\ UNCHANGED <<vars, streams, code, sent, heard, inbox>>
    BY DEF ReadFails, ClientGoto
<1>2. TypeOK'
    BY <1>1, ServerUnchanged DEF RInv, RTypeOK
<1>3. /\ clientPc \in [Peers -> ClientPCs] /\ clientPc'[p] = "exited"
      /\ \A q \in Peers \ {p} : clientPc'[q] = clientPc[q]
      /\ clientPc' \in [Peers -> ClientPCs]
    BY <1>1 DEF RInv, RTypeOK, ClientPCs
<1>4. RTypeOK'
    BY <1>1, <1>2, <1>3 DEF RInv, RTypeOK
<1>. QED
    BY <1>1, <1>3, <1>4, ExitStepInv DEF SameClient

LEMMA ConnectStep ==
    ASSUME RInv, NEW p \in Peers, Connect(p)
    PROVE  RInv'
<1>1. PICK families \in SUBSET Families :
        /\ streams' = [streams EXCEPT ![p] = families]
        /\ clientPc' = [clientPc EXCEPT ![p] = ServerConnectionNew(families)]
    BY DEF Connect, ClientGoto
<1>2. clientPc[p] = "connect" /\ UNCHANGED <<vars, code, sent, heard, inbox>>
    BY DEF Connect
<1>3. ServerConnectionNew(families) \in {"exited", "request"}
    BY DEF ServerConnectionNew
<1>4. /\ streams' \in [Peers -> SUBSET Families] /\ streams'[p] = families
      /\ clientPc' \in [Peers -> ClientPCs]
      /\ clientPc'[p] = ServerConnectionNew(families)
      /\ \A q \in Peers \ {p} : SameClient(q)
    BY <1>1, <1>2, <1>3 DEF RInv, RTypeOK, ClientPCs, SameClient
<1>5. TypeOK'
    BY <1>2, ServerUnchanged DEF RInv, RTypeOK
<1>6. RTypeOK'
    BY <1>2, <1>3, <1>4, <1>5 DEF RInv, RTypeOK, SameClient
<1>7. /\ streams[p] = {} /\ heard[p] = 0
      /\ \A f \in Families : Fresh(<<p, f>>)
    BY <1>2 DEF RInv, ClientInv
<1>8. \A f \in Families : Fresh(<<p, f>>)' /\ Idle(<<p, f>>)'
    BY <1>2, <1>7, ServerUnchanged DEF Fresh, Idle
<1>9. ClientInv(p)'
    BY <1>2, <1>4, <1>7, <1>8 DEF ClientInv, ServerConnectionNew
<1>. QED
    BY <1>2, <1>4, <1>6, <1>7, <1>9, SilentStepInv

LEMMA ClientMessages ==
    /\ [type |-> "CreateRoom"] \in ClientMessage
    /\ [type |-> "DoneSending"] \in ClientMessage
    /\ \A r \in RoomIds : [type |-> "JoinRoom", room_id |-> r] \in ClientMessage
    /\ \A a \in Addrs : [type |-> "SendPrivateAddr", addr |-> a] \in ClientMessage
BY DEF ClientMessage

LEMMA WriteEffect ==
    ASSUME RTypeOK, NEW c \in Conns, NEW msg \in ClientMessage, Write(c, msg)
    PROVE  /\ inbox' \in [Conns -> Seq(ClientMessage)]
           /\ inbox[c] \in Seq(ClientMessage)
           /\ inbox'[c] = Append(inbox[c], msg)
           /\ \A d \in Conns \ {c} : inbox'[d] = inbox[d]
<1>1. inbox \in [Conns -> Seq(ClientMessage)] /\ inbox[c] \in Seq(ClientMessage)
    BY DEF RTypeOK
<1>2. Append(inbox[c], msg) \in Seq(ClientMessage)
    BY <1>1
<1>. QED
    BY <1>1, <1>2 DEF Write

\* Writing to a stream keeps the addresses on it its own.
LEMMA WriteOwnAddress ==
    ASSUME RInv, NEW c \in Conns, NEW msg \in ClientMessage, Write(c, msg),
           privateAddr' = privateAddr,
           msg.type = "SendPrivateAddr" => msg.addr = LocalAddr[c]
    PROVE  \A d \in Conns : OwnAddress(d)'
<1>1. /\ inbox[c] \in Seq(ClientMessage)
      /\ inbox'[c] = Append(inbox[c], msg)
      /\ \A d \in Conns \ {c} : inbox'[d] = inbox[d]
    BY WriteEffect DEF RInv
<1>2. \A d \in Conns \ {c} : OwnAddress(d)'
    BY <1>1 DEF RInv, OwnAddress
<1>3. OwnAddress(c)'
    BY <1>1 DEF RInv, OwnAddress
<1>. QED
    BY <1>2, <1>3

\* The request of a client, on its first stream.
LEMMA RequestStepInv ==
    ASSUME RInv, NEW p \in Peers, UNCHANGED <<vars, streams, sent, heard>>,
           clientPc[p] = "request", ClientGoto(p, "response"),
           code' \in [Peers -> RoomIds \cup {None}],
           \A q \in Peers \ {p} : code'[q] = code[q],
           p \notin Creators => code'[p] \in RoomIds,
           Write(AnyMessenger(p), Request(p)')
    PROVE  RInv'
<1>. DEFINE c == AnyMessenger(p)
            msg == Request(p)'
<1>1. c \in Conns /\ c[1] = p /\ AnyMessenger(p)' = c
    BY AnyMessengerIs DEF AnyMessenger
<1>2. msg \in ClientMessage /\ msg.type # "SendPrivateAddr"
    BY ClientMessages DEF Request
<1>. HIDE DEF c, msg
<1>3. Write(c, msg)
    BY DEF c, msg
<1>4. /\ inbox' \in [Conns -> Seq(ClientMessage)]
      /\ inbox'[c] = Append(inbox[c], msg)
      /\ \A d \in Conns \ {c} : inbox'[d] = inbox[d]
    BY <1>1, <1>2, <1>3, WriteEffect DEF RInv
<1>5. /\ clientPc' \in [Peers -> ClientPCs] /\ clientPc'[p] = "response"
      /\ \A q \in Peers \ {p} : SameClient(q)
    BY DEF RInv, RTypeOK, ClientPCs, ClientGoto, SameClient
<1>6. TypeOK'
    BY ServerUnchanged DEF RInv, RTypeOK
<1>7. RTypeOK'
    BY <1>4, <1>5, <1>6 DEF RInv, RTypeOK, SameClient
<1>8. /\ streams[p] # {} /\ heard[p] = 0
      /\ \A f \in Families : Fresh(<<p, f>>)
    BY DEF RInv, ClientInv
<1>9. Fresh(c) /\ pc' = pc
    BY <1>1, <1>8, ConnIs, ServerUnchanged
<1>10. inbox'[c] = <<msg>> /\ pc'[c] = "start"
    BY <1>4, <1>9 DEF Fresh
<1>11. Asked(p, AnyMessenger(p))'
    BY <1>1, <1>10 DEF Asked, msg
<1>12. \A f \in Families : <<p, f>> # c => Idle(<<p, f>>)'
    BY <1>4, <1>8, <1>9, ConnIs DEF Fresh, Idle
<1>13. p \notin Creators => code'[p] # None
    BY NoneAssumption
<1>14. ClientInv(p)'
    BY <1>1, <1>5, <1>8, <1>11, <1>12, <1>13 DEF ClientInv
<1>15. \A d \in Conns : OwnAddress(d)'
    BY <1>1, <1>2, <1>3, WriteOwnAddress, ServerUnchanged
<1>16. \A d \in Conns : d[1] # p => inbox'[d] = inbox[d]
    BY <1>1, <1>4
<1>. QED
    BY <1>5, <1>7, <1>14, <1>15, <1>16, ClientStepInv, ConnIs

LEMMA RequestJoinStep ==
    ASSUME RInv, NEW p \in Peers, RequestJoin(p)
    PROVE  RInv'
<1>1. PICK r \in RoomIds :
        /\ Write(AnyMessenger(p), [type |-> "JoinRoom", room_id |-> r])
        /\ code' = [code EXCEPT ![p] = r]
    BY DEF RequestJoin
<1>2. /\ clientPc[p] = "request" /\ p \notin Creators
      /\ ClientGoto(p, "response")
      /\ UNCHANGED <<vars, streams, sent, heard>>
    BY DEF RequestJoin
<1>3. /\ code' \in [Peers -> RoomIds \cup {None}] /\ code'[p] = r
      /\ \A q \in Peers \ {p} : code'[q] = code[q]
    BY <1>1 DEF RInv, RTypeOK
<1>4. Request(p)' = [type |-> "JoinRoom", room_id |-> r]
    BY <1>2, <1>3 DEF Request
<1>. QED
    BY <1>1, <1>2, <1>3, <1>4, RequestStepInv

LEMMA RequestCreateStep ==
    ASSUME RInv, NEW p \in Peers, RequestCreate(p)
    PROVE  RInv'
<1>1. /\ clientPc[p] = "request" /\ p \in Creators
      /\ Write(AnyMessenger(p), [type |-> "CreateRoom"])
      /\ ClientGoto(p, "response")
      /\ UNCHANGED <<vars, streams, code, sent, heard>>
    BY DEF RequestCreate
<1>2. Request(p)' = [type |-> "CreateRoom"]
    BY <1>1 DEF Request
<1>3. code' \in [Peers -> RoomIds \cup {None}]
    BY <1>1 DEF RInv, RTypeOK
<1>. QED
    BY <1>1, <1>2, <1>3, RequestStepInv

\* A client that is in its room writes a message that does not concern its
\* other streams, or an address.
LEMMA InRoomStepInv ==
    ASSUME RInv, NEW p \in Peers, UNCHANGED <<vars, streams, code, heard>>,
           clientPc[p] = "send", clientPc' \in [Peers -> ClientPCs],
           clientPc'[p] \in {"send", "contacts"},
           \A q \in Peers \ {p} : clientPc'[q] = clientPc[q],
           sent' \in [Peers -> 0..2],
           NEW c \in Conns, c[1] = p, NEW msg \in ClientMessage, Write(c, msg),
           \/ msg.type = "SendPrivateAddr" /\ msg.addr = LocalAddr[c]
           \/ msg.type = "DoneSending" /\ c = AnyMessenger(p)
    PROVE  RInv'
<1>1. /\ inbox' \in [Conns -> Seq(ClientMessage)]
      /\ inbox[c] \in Seq(ClientMessage)
      /\ inbox'[c] = Append(inbox[c], msg)
      /\ \A d \in Conns \ {c} : inbox'[d] = inbox[d]
    BY WriteEffect DEF RInv
<1>2. TypeOK'
    BY ServerUnchanged DEF RInv, RTypeOK
<1>3. RTypeOK'
    BY <1>1, <1>2 DEF RInv, RTypeOK
<1>4. /\ streams[p] # {} /\ heard[p] = 1
      /\ Agreed(p, AnyMessenger(p))
      /\ \A f \in Families : <<p, f>> # AnyMessenger(p) => Idle(<<p, f>>)
    BY DEF RInv, ClientInv
<1>5. AnyMessenger(p)' = AnyMessenger(p)
    BY DEF AnyMessenger
<1>6. UNCHANGED <<pc, roomId, isCreator, privateAddr, outbox, rooms>>
    BY ServerUnchanged
<1>7. Agreed(p, AnyMessenger(p))'
    BY <1>4, <1>5, <1>6 DEF Agreed, AnyMessenger
<1>8. ASSUME NEW f \in Families, <<p, f>> # AnyMessenger(p)
      PROVE  Idle(<<p, f>>)'
    <2>1. Idle(<<p, f>>) /\ <<p, f>> \in Conns
        BY <1>4, <1>8, ConnIs
    <2>2. CASE <<p, f>> = c
        <3>1. msg.type = "SendPrivateAddr" /\ Idle(c)
            BY <1>8, <2>1, <2>2
        <3>2. Idle(c)'
            BY <1>1, <1>6, <3>1 DEF Idle
        <3>. QED
            BY <2>2, <3>2
    <2>3. CASE <<p, f>> # c
        BY <1>1, <1>6, <2>1, <2>3 DEF Idle
    <2>. QED
        BY <2>2, <2>3
<1>9. ClientInv(p)'
    BY <1>4, <1>5, <1>7, <1>8 DEF ClientInv
<1>10. \A d \in Conns : OwnAddress(d)'
    BY <1>6, WriteOwnAddress
<1>11. /\ \A q \in Peers \ {p} : SameClient(q)
       /\ \A d \in Conns : d[1] # p => inbox'[d] = inbox[d]
    BY <1>1 DEF SameClient
<1>. QED
    BY <1>3, <1>9, <1>10, <1>11, ClientStepInv, ConnIs

LEMMA SendPrivateAddrStep ==
    ASSUME RInv, NEW p \in Peers, SendPrivateAddr(p)
    PROVE  RInv'
<1>. DEFINE n == sent[p] + 1
            c == AllMessengers(p)[n]
            msg == [type |-> "SendPrivateAddr", addr |-> LocalAddr[c]]
<1>1. /\ clientPc[p] = "send" /\ sent[p] < Len(AllMessengers(p))
      /\ Write(c, msg)
      /\ sent' = [sent EXCEPT ![p] = n]
      /\ UNCHANGED <<vars, clientPc, streams, code, heard>>
    BY DEF SendPrivateAddr
<1>2. /\ sent \in [Peers -> 0..2] /\ streams[p] \in SUBSET Families
      /\ clientPc \in [Peers -> ClientPCs]
    BY DEF RInv, RTypeOK
<1>3. Len(AllMessengers(p)) \in 0..2
    BY <1>2, AllMessengersIs
<1>4. n \in 1..Len(AllMessengers(p)) /\ n \in 0..2
    BY <1>1, <1>2, <1>3
<1>5. c \in Conns /\ c[1] = p
    BY <1>2, <1>4, AllMessengersIs
<1>. HIDE DEF c, n
<1>6. /\ msg \in ClientMessage /\ msg.type = "SendPrivateAddr"
      /\ msg.addr = LocalAddr[c]
    BY <1>5, ClientMessages, RendezvousAssumption
<1>. HIDE DEF msg
<1>7. sent' \in [Peers -> 0..2]
    BY <1>1, <1>2, <1>4
<1>. QED
    BY <1>1, <1>2, <1>5, <1>6, <1>7, InRoomStepInv

LEMMA SendDoneStep ==
    ASSUME RInv, NEW p \in Peers, SendDone(p)
    PROVE  RInv'
<1>. DEFINE msg == [type |-> "DoneSending"]
<1>1. /\ clientPc[p] = "send" /\ Write(AllMessengers(p)[1], msg)
      /\ clientPc' = [clientPc EXCEPT ![p] = "contacts"]
      /\ UNCHANGED <<vars, streams, code, sent, heard>>
    BY DEF SendDone, ClientGoto
<1>2. /\ sent' \in [Peers -> 0..2] /\ streams[p] \in SUBSET Families
      /\ clientPc' \in [Peers -> ClientPCs] /\ clientPc'[p] = "contacts"
      /\ \A q \in Peers \ {p} : clientPc'[q] = clientPc[q]
    BY <1>1 DEF RInv, RTypeOK, ClientPCs
<1>3. streams[p] # {}
    BY <1>1 DEF RInv, ClientInv
<1>4. AllMessengers(p)[1] = AnyMessenger(p)
    BY <1>2, <1>3, AllMessengersIs
<1>5. AnyMessenger(p) \in Conns /\ AnyMessenger(p)[1] = p
    BY AnyMessengerIs
<1>6. msg \in ClientMessage /\ msg.type = "DoneSending"
    BY ClientMessages
<1>. HIDE DEF msg
<1>. QED
    BY <1>1, <1>2, <1>4, <1>5, <1>6, InRoomStepInv

\* The reply to the request. The client goes on only with the reply that it
\* expects, which tells it the room that the server has put it into.
LEMMA ReadResponseStep ==
    ASSUME RInv, NEW p \in Peers, ReadResponse(p)
    PROVE  RInv'
<1>. DEFINE c == AnyMessenger(p)
            reply == outbox[c][1]
            expected == IF p \in Creators THEN "RoomCreated" ELSE "RoomJoined"
<1>1. CASE ReadFails(p, c)
    BY <1>1, ReadFailsStep
<1>2. CASE /\ ReadReply(p, c, {expected}, "send")
           /\ KeepId(p, NextReply(p, c))
    <2>1. /\ clientPc[p] = "response" /\ heard[p] = 0 /\ streams[p] # {}
          /\ p \notin Creators => code[p] # None
          /\ Asked(p, c) \/ Answered(p, c)
          /\ \A f \in Families : <<p, f>> # c => Idle(<<p, f>>)
        BY DEF ReadResponse, RInv, ClientInv
    <2>2. c \in Conns /\ AnyMessenger(p)' = AnyMessenger(p)
        BY <1>2, AnyMessengerIs DEF AnyMessenger, ReadReply
    <2>3. /\ outbox[c] \in Seq(ServerMessage) /\ pc[c] \in PCs
          /\ isCreator[c] \in BOOLEAN
          /\ Conversation(outbox[c], pc[c], isCreator[c], roomId[c])
        BY <2>2 DEF RInv, RTypeOK, TypeOK, ConversationInv
    <2>4. NextReply(p, c) = reply /\ 0 < Len(outbox[c])
        BY <1>2, <2>1 DEF NextReply, ReadReply
    <2>5. outbox[c] # <<>> /\ reply \in ServerMessage
        BY <2>3, <2>4
    <2>6. Answered(p, c)
        BY <2>1, <2>3, <2>5 DEF Asked, Conversation
    <2>7. /\ UNCHANGED <<vars, streams, sent, inbox>>
          /\ clientPc' = [clientPc EXCEPT ![p] =
                            IF reply.type = expected THEN "send" ELSE "exited"]
          /\ heard' = [heard EXCEPT ![p] = @ + 1]
          /\ code' = [code EXCEPT ![p] =
                        IF reply.type = "RoomCreated" THEN reply.room_id ELSE @]
        BY <1>2, <2>4 DEF ReadReply, ClientGoto, KeepId
    <2>8. UNCHANGED <<pc, roomId, isCreator, privateAddr, outbox, rooms>>
        BY <2>7, ServerUnchanged
    <2>9. reply.type = "RoomCreated" =>
            reply.room_id \in RoomIds /\ reply = RoomCreated(reply.room_id)
        BY <2>5 DEF ServerMessage, RoomCreated, RoomJoined, SyntaxError,
                    ErrorNoSuchRoomID
    <2>. HIDE DEF c, reply
    <2>10. /\ clientPc' \in [Peers -> ClientPCs] /\ heard' \in [Peers -> 0..2]
           /\ code' \in [Peers -> RoomIds \cup {None}]
           /\ heard'[p] = 1
           /\ \A q \in Peers \ {p} : SameClient(q)
        BY <2>1, <2>7, <2>9 DEF RInv, RTypeOK, ClientPCs, SameClient
    <2>11. clientPc'[p] = IF reply.type = expected THEN "send" ELSE "exited"
        BY <2>7 DEF RInv, RTypeOK
    <2>12. code'[p] = IF reply.type = "RoomCreated" THEN reply.room_id
                                                     ELSE code[p]
        BY <2>7 DEF RInv, RTypeOK
    <2>13. TypeOK'
        BY <2>7, ServerUnchanged DEF RInv, RTypeOK
    <2>14. ASSUME reply.type = expected
           PROVE  /\ code'[p] # None /\ roomId[c] = code'[p]
                  /\ isCreator[c] = (p \in Creators)
        <3>1. reply \notin Errors
            BY <2>14 DEF Errors, SyntaxError, ErrorNoSuchRoomID
        <3>2. /\ reply = Greeting(isCreator[c], roomId[c])
              /\ isCreator[c] = (p \in Creators)
              /\ p \notin Creators => roomId[c] = code[p]
            BY <2>3, <2>5, <2>6, <3>1 DEF Conversation, Answered, reply
        <3>3. CASE p \in Creators
            <4>1. reply = RoomCreated(roomId[c])
                BY <3>2, <3>3 DEF Greeting
            <4>2. reply.room_id = roomId[c]
                BY <4>1 DEF RoomCreated
            <4>. QED
                BY <2>9, <2>12, <2>14, <3>2, <3>3, <4>2, NoneAssumption
        <3>4. CASE p \notin Creators
            BY <2>1, <2>12, <2>14, <3>2, <3>4
        <3>. QED
            BY <3>3, <3>4
    <2>15. RTypeOK'
        BY <2>7, <2>10, <2>11, <2>13, <2>14 DEF RInv, RTypeOK, SameClient
    <2>16. clientPc'[p] = "send" => Agreed(p, AnyMessenger(p))'
        BY <2>2, <2>6, <2>8, <2>11, <2>14 DEF Agreed, Answered, c
    <2>17. \A f \in Families : Idle(<<p, f>>)' = Idle(<<p, f>>)
        BY <2>7, <2>8 DEF Idle
    <2>18. ClientInv(p)'
        BY <2>1, <2>2, <2>7, <2>10, <2>11, <2>16, <2>17 DEF ClientInv, c
    <2>. QED
        BY <2>7, <2>10, <2>15, <2>18, SilentStepInv
<1>. QED
    BY <1>1, <1>2 DEF ReadResponse

LEMMA ReadContactsStep ==
    ASSUME RInv, NEW p \in Peers, ReadContacts(p)
    PROVE  RInv'
<1>. DEFINE c == AllMessengers(p)[1]
            where == IF NextReply(p, c).type \in {"SharePeerContacts"}
                     THEN "connector" ELSE "exited"
<1>1. CASE ReadFails(p, c)
    BY <1>1, ReadFailsStep
<1>2. CASE /\ ReadReply(p, c, {"SharePeerContacts"}, "connector")
           /\ UNCHANGED code
    <2>1. clientPc[p] = "contacts" /\ heard[p] = 1
        BY DEF ReadContacts, RInv, ClientInv
    <2>2. /\ UNCHANGED <<vars, streams, sent, code, inbox>>
          /\ clientPc' = [clientPc EXCEPT ![p] = where]
          /\ heard' = [heard EXCEPT ![p] = @ + 1]
        BY <1>2 DEF ReadReply, ClientGoto
    <2>3. where \in {"connector", "exited"}
        OBVIOUS
    <2>. HIDE DEF where
    <2>4. /\ clientPc' \in [Peers -> ClientPCs] /\ heard' \in [Peers -> 0..2]
          /\ clientPc'[p] \in {"connector", "exited"}
          /\ \A q \in Peers \ {p} : SameClient(q)
        BY <2>1, <2>2, <2>3 DEF RInv, RTypeOK, ClientPCs, SameClient
    <2>5. TypeOK'
        BY <2>2, ServerUnchanged DEF RInv, RTypeOK
    <2>6. RTypeOK'
        BY <2>2, <2>4, <2>5 DEF RInv, RTypeOK, SameClient
    <2>. QED
        BY <2>2, <2>4, <2>6, ExitStepInv
<1>. QED
    BY <1>1, <1>2 DEF ReadContacts

----------------------------------------------------------------------------
\* The steps of the server.

\* A step of the task of connection c, or of the timer it has started.
HandlerStep(c) ==
    \/ \E msg \in Incoming : Receive(c, msg)
    \/ HandlePrivateAddr(c)
    \/ HandleContacts(c)
    \/ Timeout(c)

LEMMA HandlerFrame ==
    ASSUME TypeOK, NEW c \in Conns, HandlerStep(c)
    PROVE  \A d \in Conns \ {c} :
            /\ pc'[d] = pc[d] /\ outbox'[d] = outbox[d]
            /\ roomId'[d] = roomId[d] /\ isCreator'[d] = isCreator[d]
            /\ privateAddr'[d] = privateAddr[d]
<1>. USE DEF TypeOK
<1>1. \A msg, where : Send(c, msg, where) =>
        \A d \in Conns \ {c} : pc'[d] = pc[d] /\ outbox'[d] = outbox[d]
    BY SendEffect
<1>2. \A where : Goto(c, where) => \A d \in Conns \ {c} : pc'[d] = pc[d]
    BY DEF Goto
<1>3. \A r, b : EnterRoom(c, r, b) =>
        \A d \in Conns \ {c} :
            roomId'[d] = roomId[d] /\ isCreator'[d] = isCreator[d]
    BY DEF EnterRoom
<1>4. ASSUME NEW msg \in Incoming, Receive(c, msg)
      PROVE  \A d \in Conns \ {c} :
            /\ pc'[d] = pc[d] /\ outbox'[d] = outbox[d]
            /\ roomId'[d] = roomId[d] /\ isCreator'[d] = isCreator[d]
            /\ privateAddr'[d] = privateAddr[d]
    <2>1. CASE StartCreateRoom(c, msg)
        BY <1>1, <1>3, <2>1 DEF StartCreateRoom
    <2>2. CASE StartSpin(c, msg)
        BY <1>2, <2>2 DEF StartSpin
    <2>3. CASE StartJoinRoom(c, msg)
        BY <1>1, <1>3, <2>3 DEF StartJoinRoom
    <2>4. CASE Reject(c, msg)
        BY <1>1, <2>4 DEF Reject
    <2>5. CASE HandleSendPrivateAddr(c, msg)
        BY <1>1, <1>2, <2>5 DEF HandleSendPrivateAddr, SendNoSuchRoom
    <2>6. CASE HandleDoneSending(c, msg)
        BY <1>1, <1>2, <2>6 DEF HandleDoneSending, SendNoSuchRoom
    <2>. QED
        BY <1>4, <2>1, <2>2, <2>3, <2>4, <2>5, <2>6 DEF Receive
<1>5. CASE HandlePrivateAddr(c)
    BY <1>1, <1>2, <1>5 DEF HandlePrivateAddr, SendNoSuchRoom
<1>6. CASE HandleContacts(c)
    BY <1>1, <1>2, <1>6 DEF HandleContacts
<1>7. CASE Timeout(c)
    BY <1>7 DEF Timeout, handlerVars
<1>. QED
    BY <1>4, <1>5, <1>6, <1>7 DEF HandlerStep

\* A task that has read its first message keeps its room and its role, and
\* takes back nothing it has written.
LEMMA PastTheStart ==
    ASSUME TypeOK, NEW c \in Conns, HandlerStep(c), pc[c] # "start"
    PROVE  /\ roomId'[c] = roomId[c] /\ isCreator'[c] = isCreator[c]
           /\ pc'[c] # "start"
           /\ \/ outbox'[c] = outbox[c]
              \/ /\ pc[c] \in {"main", "private", "await"}
                 /\ \E msg : outbox'[c] = Append(outbox[c], msg)
<1>. USE DEF TypeOK
<1>1. \A msg : \A where \in {"main", "closed"} : Send(c, msg, where) =>
        /\ pc'[c] # "start"
        /\ outbox'[c] = outbox[c] \/ \E m : outbox'[c] = Append(outbox[c], m)
    BY SendEffect
<1>2. \A where : Goto(c, where) => pc'[c] = where
    BY DEF Goto
<1>3. ASSUME NEW msg \in Incoming, Receive(c, msg)
      PROVE  /\ roomId'[c] = roomId[c] /\ isCreator'[c] = isCreator[c]
             /\ pc'[c] # "start" /\ pc[c] = "main"
             /\ outbox'[c] = outbox[c] \/ \E m : outbox'[c] = Append(outbox[c], m)
    <2>1. CASE Reject(c, msg)
        BY <1>1, <2>1 DEF Reject
    <2>2. CASE HandleSendPrivateAddr(c, msg)
        BY <1>1, <1>2, <2>2 DEF HandleSendPrivateAddr, SendNoSuchRoom
    <2>3. CASE HandleDoneSending(c, msg)
        BY <1>1, <1>2, <2>3 DEF HandleDoneSending, SendNoSuchRoom
    <2>. QED
        BY <1>3, <2>1, <2>2, <2>3
           DEF Receive, StartCreateRoom, StartSpin, StartJoinRoom
<1>4. CASE HandlePrivateAddr(c)
    BY <1>1, <1>2, <1>4 DEF HandlePrivateAddr, SendNoSuchRoom
<1>5. CASE HandleContacts(c)
    BY <1>1, <1>2, <1>5 DEF HandleContacts
<1>6. CASE Timeout(c)
    BY <1>6 DEF Timeout, handlerVars
<1>. QED
    BY <1>3, <1>4, <1>5, <1>6 DEF HandlerStep

\* A task past the start agrees with its client as it did.
LEMMA AgreementStays ==
    ASSUME TypeOK, ConversationInv, NEW c \in Conns, HandlerStep(c),
           pc[c] # "start", NEW p \in Peers, code' = code
    PROVE  /\ Agreed(p, c) =>
                /\ pc'[c] # "start" /\ roomId'[c] = code[p]
                /\ isCreator'[c] = (p \in Creators)
           /\ Answered(p, c) =>
                /\ pc'[c] # "start"
                /\ outbox'[c] # <<>> /\ outbox'[c][1] \notin Errors =>
                    /\ isCreator'[c] = (p \in Creators)
                    /\ p \notin Creators => roomId'[c] = code[p]
<1>1. /\ roomId'[c] = roomId[c] /\ isCreator'[c] = isCreator[c]
      /\ pc'[c] # "start"
      /\ \/ outbox'[c] = outbox[c]
         \/ /\ pc[c] \in {"main", "private", "await"}
            /\ \E msg : outbox'[c] = Append(outbox[c], msg)
    BY PastTheStart
<1>2. CASE outbox'[c] = outbox[c]
    BY <1>1, <1>2 DEF Agreed, Answered
<1>3. ASSUME NEW msg, outbox'[c] = Append(outbox[c], msg),
             pc[c] \in {"main", "private", "await"}
      PROVE  outbox[c] # <<>> /\ outbox'[c][1] = outbox[c][1]
    <2>1. outbox[c] # <<>> /\ outbox[c] \in Seq(ServerMessage)
        BY <1>3 DEF ConversationInv, Conversation, TypeOK
    <2>2. Len(outbox[c]) >= 1
        BY <2>1
    <2>. QED
        BY <1>3, <2>1, <2>2
<1>. QED
    BY <1>1, <1>2, <1>3 DEF Agreed, Answered

\* The first message is the client's request.
LEMMA RequestIsAnswered ==
    ASSUME TypeOK, ConversationInv, NEW c \in Conns, NEW p \in Peers,
           pc[c] = "start", Receive(c, Request(p)), code' = code
    PROVE  /\ pc'[c] # "start"
           /\ outbox'[c] # <<>> /\ outbox'[c][1] \notin Errors =>
                /\ isCreator'[c] = (p \in Creators)
                /\ p \notin Creators => roomId'[c] = code[p]
<1>. DEFINE msg == Request(p)
<1>1. outbox[c] = <<>>
    BY DEF ConversationInv, Conversation
<1>2. /\ p \in Creators => msg.type = "CreateRoom"
      /\ p \notin Creators => msg.type = "JoinRoom" /\ msg.room_id = code[p]
    BY DEF Request
<1>. HIDE DEF msg
<1>3. ASSUME NEW m, NEW where, Send(c, m, where)
      PROVE  /\ pc'[c] \in {where, "closed"}
             /\ outbox'[c] = <<>> \/ outbox'[c] = <<m>>
    BY <1>1, <1>3, SendEffect
<1>4. ASSUME NEW r, NEW b, EnterRoom(c, r, b)
      PROVE  roomId'[c] = r /\ isCreator'[c] = b
    BY <1>4 DEF EnterRoom, TypeOK
<1>5. CASE p \in Creators
    <2>1. CASE StartCreateRoom(c, msg)
        <3>1. isCreator'[c] = TRUE
            BY <1>4, <2>1 DEF StartCreateRoom
        <3>2. pc'[c] # "start"
            BY <1>3, <2>1 DEF StartCreateRoom
        <3>. QED
            BY <1>5, <3>1, <3>2
    <2>2. CASE StartSpin(c, msg)
        BY <1>1, <2>2 DEF StartSpin, Goto, TypeOK
    <2>. QED
        BY <1>2, <1>5, <2>1, <2>2
           DEF Receive, StartJoinRoom, Reject, HandleSendPrivateAddr,
               HandleDoneSending, msg
<1>6. CASE p \notin Creators
    <2>1. StartJoinRoom(c, msg)
        BY <1>2, <1>6 DEF Receive, StartCreateRoom, StartSpin, Reject,
                          HandleSendPrivateAddr, HandleDoneSending, msg
    <2>2. CASE EnterRoom(c, msg.room_id, FALSE) /\ Send(c, RoomJoined, "main")
        <3>1. isCreator'[c] = FALSE /\ roomId'[c] = code[p]
            BY <1>2, <1>4, <1>6, <2>2
        <3>2. pc'[c] # "start"
            BY <1>3, <2>2
        <3>3. (p \in Creators) = FALSE
            BY <1>6
        <3>4. isCreator'[c] = (p \in Creators)
            BY <3>1, <3>3
        <3>. QED
            BY <3>1, <3>2, <3>4
    <2>3. CASE Send(c, ErrorNoSuchRoomID, "closed")
        <3>1. pc'[c] # "start" /\ (outbox'[c] = <<>> \/ outbox'[c] = <<ErrorNoSuchRoomID>>)
            BY <1>3, <2>3
        <3>2. ErrorNoSuchRoomID \in Errors
            BY DEF Errors
        <3>. QED
            BY <3>1, <3>2
    <2>. QED
        BY <2>1, <2>2, <2>3 DEF StartJoinRoom
<1>. QED
    BY <1>5, <1>6

\* An address, or the end, is not what a task waits for at the start.
LEMMA IdleIsRefused ==
    ASSUME TypeOK, NEW c \in Conns, NEW msg, Receive(c, msg),
           pc[c] \in {"start", "closed"},
           msg.type \in {"SendPrivateAddr", "ReadError"}
    PROVE  pc'[c] = "closed"
<1>1. Reject(c, msg)
    BY DEF Receive, StartCreateRoom, StartSpin, StartJoinRoom,
           HandleSendPrivateAddr, HandleDoneSending
<1>2. Send(c, SyntaxError, "closed")
    BY <1>1 DEF Reject
<1>. QED
    BY <1>2, SendEffect

\* What a step of the task of c does to its client, if the inbox of c is left
\* with the messages `rest`.
LEMMA HandlerClientInv ==
    ASSUME RInv, NEW c \in Conns, HandlerStep(c),
           UNCHANGED <<clientPc, streams, code, heard>>,
           \A d \in Conns \ {c} : inbox'[d] = inbox[d],
           streams[c[1]] # {}, clientPc[c[1]] # "request",
           c # AnyMessenger(c[1]) => Idle(c)',
           c = AnyMessenger(c[1]) /\ clientPc[c[1]] = "response" =>
                \/ Answered(c[1], c)
                \/ pc[c] = "start" /\ Receive(c, Request(c[1]))
    PROVE  \A q \in Peers : ClientInv(q)'
<1>1. \A d \in Conns \ {c} : SameConn(d)
    BY HandlerFrame DEF RInv, RTypeOK, SameConn
<1>2. ASSUME NEW q \in Peers, q # c[1] PROVE ClientInv(q)'
    <2>1. \A f \in Families : SameConn(<<q, f>>)
        BY <1>1, <1>2, ConnIs
    <2>. QED
        BY <2>1, ClientInvFrame DEF RInv, SameClient
<1>. DEFINE p == c[1]
            m == AnyMessenger(p)
<1>3. p \in Peers /\ c = <<p, c[2]>> /\ ClientInv(p)
    BY ConnIs DEF RInv
<1>4. m \in Conns /\ AnyMessenger(p)' = m
    BY <1>3, AnyMessengerIs DEF AnyMessenger
<1>. HIDE DEF p
<1>5. ASSUME NEW f \in Families, <<p, f>> # m PROVE Idle(<<p, f>>)'
    <2>1. CASE <<p, f>> = c
        BY <1>5, <2>1 DEF p
    <2>2. CASE <<p, f>> # c
        <3>1. Idle(<<p, f>>) /\ SameConn(<<p, f>>)
            BY <1>1, <1>3, <1>5, <2>2, ConnIs DEF ClientInv
        <3>. QED
            BY <3>1 DEF Idle, SameConn
    <2>. QED
        BY <2>1, <2>2
<1>6. TypeOK /\ ConversationInv
    BY DEF RInv, RTypeOK
<1>7. clientPc[p] \in {"send", "contacts"} =>
        /\ pc'[m] # "start" /\ roomId'[m] = code[p]
        /\ isCreator'[m] = (p \in Creators)
    <2>. SUFFICES ASSUME clientPc[p] \in {"send", "contacts"}
                  PROVE  /\ pc'[m] # "start" /\ roomId'[m] = code[p]
                         /\ isCreator'[m] = (p \in Creators)
        OBVIOUS
    <2>1. Agreed(p, m)
        BY <1>3 DEF ClientInv
    <2>2. CASE m = c
        <3>1. Agreed(p, c) /\ pc[c] # "start"
            BY <2>1, <2>2 DEF Agreed
        <3>2. /\ pc'[c] # "start" /\ roomId'[c] = code[p]
              /\ isCreator'[c] = (p \in Creators)
            BY <1>3, <1>6, <3>1, AgreementStays
        <3>. QED
            BY <2>2, <3>2
    <2>3. CASE m # c
        BY <1>1, <1>4, <2>1, <2>3 DEF Agreed, SameConn
    <2>. QED
        BY <2>2, <2>3
<1>8. clientPc[p] = "response" => (Asked(p, AnyMessenger(p)) \/ Answered(p, AnyMessenger(p)))'
    <2>. SUFFICES ASSUME clientPc[p] = "response"
                  PROVE  (Asked(p, AnyMessenger(p)) \/ Answered(p, AnyMessenger(p)))'
        OBVIOUS
    <2>1. CASE m = c
        <3>1. /\ pc'[c] # "start"
              /\ outbox'[c] # <<>> /\ outbox'[c][1] \notin Errors =>
                    /\ isCreator'[c] = (p \in Creators)
                    /\ p \notin Creators => roomId'[c] = code[p]
            <4>1. CASE Answered(p, c)
                <5>1. pc[c] # "start"
                    BY <4>1 DEF Answered
                <5>. QED
                    BY <1>3, <1>6, <4>1, <5>1, AgreementStays
            <4>2. CASE pc[c] = "start" /\ Receive(c, Request(p))
                BY <1>3, <1>6, <4>2, RequestIsAnswered
            <4>. QED
                BY <2>1, <4>1, <4>2 DEF p
        <3>. QED
            BY <1>4, <2>1, <3>1 DEF Answered
    <2>2. CASE m # c
        <3>1. SameConn(m) /\ (Asked(p, m) \/ Answered(p, m))
            BY <1>1, <1>3, <1>4, <2>2 DEF ClientInv
        <3>2. Request(p)' = Request(p)
            BY DEF Request
        <3>. HIDE DEF m
        <3>. QED
            BY <1>4, <3>1, <3>2 DEF Asked, Answered, SameConn
    <2>. QED
        BY <2>1, <2>2
<1>9. clientPc[p] \in {"send", "contacts"} => Agreed(p, AnyMessenger(p))'
    BY <1>4, <1>7 DEF Agreed
<1>10. ClientInv(p)'
    BY <1>3, <1>4, <1>5, <1>8, <1>9 DEF ClientInv, p
<1>. QED
    BY <1>2, <1>10 DEF p

----------------------------------------------------------------------------
\* The addresses in the rooms.

\* update_client changes one address of one side of one room.
LEMMA UpdateClientEffect ==
    ASSUME GlobalTypeOK, NEW r \in RoomIds, NEW b \in BOOLEAN, NEW a \in Addrs,
           NEW s \in Scopes, UpdateClient(r, b, a, s),
           NEW q \in RoomIds, NEW d \in BOOLEAN, NEW t \in Scopes,
           NEW f \in Families, rooms'[q] # None
    PROVE  \/ /\ rooms[q] # None
              /\ rooms'[q][d].contact[t][f] = rooms[q][d].contact[t][f]
           \/ /\ q = r /\ d = b /\ t = s /\ f = Family(a)
              /\ rooms'[q][d].contact[t][f] = a
<1>1. rooms[r] \in Room /\ rooms[r] # None
    BY DEF GlobalTypeOK, UpdateClient, RoomExists
<1>. DEFINE room == rooms[r]
            contact == room[b].contact
            newContact == [contact EXCEPT ![s][Family(a)] = a]
            newClient == [room[b] EXCEPT !.contact = newContact]
            newRoom == [room EXCEPT ![b] = newClient]
<1>2. /\ rooms'[r] = newRoom
      /\ \A x \in RoomIds \ {r} : rooms'[x] = rooms[x]
    BY DEF GlobalTypeOK, UpdateClient
<1>3. room[b] \in Client /\ contact \in FullContact
    BY <1>1 DEF Room, Client
<1>4. newClient.contact = newContact
    BY <1>3 DEF Client
<1>. HIDE DEF newClient
<1>5. newRoom[b] = newClient /\ newRoom[~b] = room[~b]
    BY <1>1 DEF Room
<1>6. newContact[t][f] = IF t = s /\ f = Family(a) THEN a ELSE contact[t][f]
    BY <1>3 DEF FullContact, Family, Families
<1>. HIDE DEF newRoom, newContact
<1>7. CASE q # r
    BY <1>2, <1>7
<1>8. CASE q = r /\ d # b
    <2>1. d = ~b
        BY <1>8
    <2>2. rooms'[q][d] = rooms[r][d]
        BY <1>2, <1>5, <1>8, <2>1
    <2>. QED
        BY <1>1, <1>8, <2>2
<1>9. CASE q = r /\ d = b
    <2>1. rooms'[q][d].contact = newContact
        BY <1>2, <1>4, <1>5, <1>9
    <2>. QED
        BY <1>1, <1>6, <1>9, <2>1
<1>. QED
    BY <1>7, <1>8, <1>9

\* set_client_done changes no address.
LEMMA SetClientDoneEffect ==
    ASSUME GlobalTypeOK, NEW c \in Conns, NEW r \in RoomIds, NEW b \in BOOLEAN,
           SetClientDone(c, r, b),
           NEW q \in RoomIds, NEW d \in BOOLEAN, rooms'[q] # None
    PROVE  rooms[q] # None /\ rooms'[q][d].contact = rooms[q][d].contact
<1>1. rooms[r] \in Room /\ rooms[r] # None
    BY DEF GlobalTypeOK, SetClientDone, RoomExists
<1>. DEFINE newClient == [rooms[r][b] EXCEPT !.sender = None]
<1>2. /\ rooms'[r] = None \/ rooms'[r] = [rooms[r] EXCEPT ![b] = newClient]
      /\ \A x \in RoomIds \ {r} : rooms'[x] = rooms[x]
    BY DEF GlobalTypeOK, SetClientDone, Exchange
<1>3. newClient.contact = rooms[r][b].contact
    BY <1>1 DEF Room, Client
<1>. HIDE DEF newClient
<1>4. rooms'[r] # None =>
        \A x \in BOOLEAN : rooms'[r][x].contact = rooms[r][x].contact
    BY <1>1, <1>2, <1>3 DEF Room
<1>. QED
    BY <1>1, <1>2, <1>4

\* Only the stream that the room was requested on gets a task into it.
LEMMA InRoomIsFirst ==
    ASSUME RInv, NEW c \in Conns, pc[c] \notin {"start", "closed"}
    PROVE  /\ c = AnyMessenger(c[1])
           /\ streams[c[1]] # {} /\ clientPc[c[1]] # "request"
<1>1. c[1] \in Peers /\ c[2] \in Families /\ c = <<c[1], c[2]>> /\ ClientInv(c[1])
    BY ConnIs DEF RInv
<1>2. ~Fresh(c) /\ ~Idle(c)
    BY DEF Fresh, Idle
<1>. QED
    BY <1>1, <1>2 DEF ClientInv

\* The client of c has begun to send addresses on it.
Sending(c) ==
    \/ pc[c] = "private"
    \/ \E i \in 1..Len(inbox[c]) : inbox[c][i].type = "SendPrivateAddr"

\* A step of the task of c, given a message of its client.
GivenStep(c) ==
    \/ \E msg \in Incoming :
        Receive(c, msg) /\ (msg.type = "SendPrivateAddr" => Sending(c))
    \/ HandlePrivateAddr(c) \/ HandleContacts(c) \/ Timeout(c)

\* An address of a room was there before, or the task of c has put it there: in
\* its room, on the side of its role, and it is the address that its stream has
\* in this scope.
Stored(c, q, d, t, f) ==
    \/ /\ rooms[q] # None
       /\ rooms'[q][d].contact[t][f] = rooms[q][d].contact[t][f]
    \/ /\ pc[c] \in {"main", "private"} /\ Sending(c)
       /\ q = roomId[c] /\ d = isCreator[c] /\ f = c[2]
       /\ rooms'[q][d].contact[t][f] = AddrOf(c, t)

LEMMA HandlerStores ==
    ASSUME RInv, NEW c \in Conns, GivenStep(c),
           NEW q \in RoomIds, NEW d \in BOOLEAN, NEW t \in Scopes,
           NEW f \in Families, rooms'[q] # None,
           rooms'[q][d].contact[t][f] # None
    PROVE  Stored(c, q, d, t, f)
<1>0. TypeOK /\ GlobalTypeOK /\ privateAddr[c] \in {None, LocalAddr[c]}
    BY DEF RInv, RTypeOK, TypeOK, OwnAddress
<1>a. /\ LocalAddr[c] \in Addrs /\ PeerAddr[c] \in Addrs
      /\ Family(LocalAddr[c]) = c[2] /\ Family(PeerAddr[c]) = c[2]
      /\ AddrOf(c, "public") = PeerAddr[c] /\ AddrOf(c, "private") = LocalAddr[c]
    BY ConnIs, RendezvousAssumption, PeerAddrAssumption DEF AddrOf
<1>1. ASSUME rooms' = rooms PROVE Stored(c, q, d, t, f)
    BY <1>1 DEF Stored
<1>2. ASSUME NoSuchRoom(roomId[c]) PROVE Stored(c, q, d, t, f)
    BY <1>1, <1>2 DEF NoSuchRoom, globalVars
<1>3. ASSUME NEW msg \in Incoming, Receive(c, msg),
             msg.type = "SendPrivateAddr" => Sending(c)
      PROVE  Stored(c, q, d, t, f)
    <2>1. CASE StartCreateRoom(c, msg)
        <3>1. PICK r \in RoomIds : CreateRoom(c, r)
            BY <2>1 DEF StartCreateRoom
        <3>2. /\ rooms'[r] = DefaultRoom
              /\ \A x \in RoomIds \ {r} : rooms'[x] = rooms[x]
            BY <1>0, <3>1 DEF CreateRoom, GlobalTypeOK
        <3>3. DefaultRoom[d].contact[t][f] = None
            BY DEF DefaultRoom
        <3>. QED
            BY <3>2, <3>3 DEF Stored
    <2>2. CASE StartSpin(c, msg)
        BY <1>1, <2>2 DEF StartSpin, SpinForRoomId
    <2>3. CASE StartJoinRoom(c, msg)
        BY <1>1, <2>3 DEF StartJoinRoom, NoSuchRoom, globalVars
    <2>4. CASE Reject(c, msg)
        BY <1>1, <2>4 DEF Reject, globalVars
    <2>5. CASE HandleSendPrivateAddr(c, msg)
        <3>1. /\ pc[c] = "main" /\ roomId[c] \in RoomIds
              /\ isCreator[c] \in BOOLEAN /\ Sending(c)
            BY <1>0, <1>3, <2>5 DEF HandleSendPrivateAddr, TypeOK
        <3>2. CASE UpdateClient(roomId[c], isCreator[c], PeerAddr[c], "public")
            BY <1>0, <1>a, <3>1, <3>2, UpdateClientEffect DEF Scopes, Stored
        <3>. QED
            BY <1>1, <1>2, <2>5, <3>2
               DEF HandleSendPrivateAddr, SendNoSuchRoom, globalVars
    <2>6. CASE HandleDoneSending(c, msg)
        <3>1. roomId[c] \in RoomIds /\ isCreator[c] \in BOOLEAN
            BY <1>0, <2>6 DEF HandleDoneSending, TypeOK
        <3>2. CASE SetClientDone(c, roomId[c], isCreator[c])
            BY <1>0, <3>1, <3>2, SetClientDoneEffect DEF Stored
        <3>. QED
            BY <1>2, <2>6, <3>2 DEF HandleDoneSending, SendNoSuchRoom
    <2>. QED
        BY <1>3, <2>1, <2>2, <2>3, <2>4, <2>5, <2>6 DEF Receive
<1>4. CASE HandlePrivateAddr(c)
    <2>1. /\ pc[c] = "private" /\ roomId[c] \in RoomIds
          /\ isCreator[c] \in BOOLEAN /\ privateAddr[c] = LocalAddr[c]
          /\ Sending(c)
        BY <1>0, <1>4 DEF HandlePrivateAddr, TypeOK, Sending
    <2>2. CASE UpdateClient(roomId[c], isCreator[c], privateAddr[c], "private")
        BY <1>0, <1>a, <2>1, <2>2, UpdateClientEffect DEF Scopes, Stored
    <2>. QED
        BY <1>2, <1>4, <2>2 DEF HandlePrivateAddr, SendNoSuchRoom
<1>5. CASE HandleContacts(c)
    BY <1>1, <1>5 DEF HandleContacts
<1>6. CASE Timeout(c)
    <2>1. RoomTimeout(c)
        BY <1>6 DEF Timeout
    <2>2. rooms'[q] = rooms[q]
        BY <1>0, <2>1 DEF RoomTimeout, GlobalTypeOK
    <2>. QED
        BY <2>2 DEF Stored
<1>. QED
    BY <1>3, <1>4, <1>5, <1>6 DEF GivenStep

\* Every step of a task is a step of the server with arbitrary clients.
LEMMA HandlerStepIsNext ==
    ASSUME NEW c \in Conns, HandlerStep(c)
    PROVE  Next
BY DEF HandlerStep, Next

\* The parts of the invariant that do not depend on the inbox.
LEMMA HandlerKeeps ==
    ASSUME RInv, NEW c \in Conns, HandlerStep(c)
    PROVE  TypeOK' /\ ConversationInv'
BY HandlerStepIsNext, TypeStep, ConversationNext DEF RInv, RTypeOK

\* The address that is yet to be stored is that of the stream itself.
LEMMA PrivateAddrIs ==
    ASSUME TypeOK, NEW c \in Conns, OwnAddress(c),
           \/ \E msg : /\ Receive(c, msg)
                       /\ msg.type = "SendPrivateAddr" => msg.addr = LocalAddr[c]
           \/ HandlePrivateAddr(c) \/ HandleContacts(c) \/ Timeout(c)
    PROVE  privateAddr'[c] \in {None, LocalAddr[c]}
<1>0. privateAddr[c] \in {None, LocalAddr[c]}
    BY DEF OwnAddress
<1>1. ASSUME NEW msg, Receive(c, msg),
             msg.type = "SendPrivateAddr" => msg.addr = LocalAddr[c]
      PROVE  privateAddr'[c] \in {None, LocalAddr[c]}
    <2>1. CASE HandleSendPrivateAddr(c, msg)
        BY <1>0, <1>1, <2>1 DEF HandleSendPrivateAddr, SendNoSuchRoom, TypeOK
    <2>2. CASE privateAddr' = privateAddr
        BY <1>0, <2>2
    <2>. QED
        BY <1>1, <2>1, <2>2 DEF Receive, StartCreateRoom, StartSpin,
           StartJoinRoom, Reject, HandleDoneSending, SendNoSuchRoom
<1>2. CASE HandlePrivateAddr(c)
    BY <1>0, <1>2 DEF HandlePrivateAddr, SendNoSuchRoom, TypeOK
<1>3. CASE HandleContacts(c) \/ Timeout(c)
    BY <1>0, <1>3 DEF HandleContacts, Timeout, handlerVars
<1>. QED
    BY <1>1, <1>2, <1>3

\* What a step of the task of c leaves to be shown.
LEMMA TaskStepInv ==
    ASSUME RInv, NEW c \in Conns, HandlerStep(c),
           UNCHANGED <<clientPc, streams, code, sent, heard>>,
           inbox' \in [Conns -> Seq(ClientMessage)],
           \A d \in Conns \ {c} : inbox'[d] = inbox[d],
           OwnAddress(c)', \A q \in Peers : ClientInv(q)'
    PROVE  RInv'
<1>1. TypeOK' /\ ConversationInv'
    BY HandlerKeeps
<1>2. RTypeOK'
    BY <1>1 DEF RInv, RTypeOK
<1>3. \A d \in Conns \ {c} : privateAddr'[d] = privateAddr[d]
    BY HandlerFrame DEF RInv, RTypeOK
<1>4. \A d \in Conns : OwnAddress(d)'
    <2>. SUFFICES ASSUME NEW d \in Conns, d # c
                  PROVE  OwnAddress(d)'
        OBVIOUS
    <2>1. OwnAddress(d) /\ privateAddr'[d] = privateAddr[d] /\ inbox'[d] = inbox[d]
        BY <1>3 DEF RInv
    <2>. QED
        BY <2>1 DEF OwnAddress
<1>. QED
    BY <1>1, <1>2, <1>4 DEF RInv

LEMMA DeliverStep ==
    ASSUME RInv, NEW c \in Conns, Deliver(c)
    PROVE  RInv'
<1>. DEFINE msg == Head(inbox[c])
            p == c[1]
<1>1. /\ inbox[c] # <<>> /\ Receive(c, msg)
      /\ inbox' = [inbox EXCEPT ![c] = Tail(@)]
      /\ UNCHANGED <<clientPc, streams, code, sent, heard>>
    BY DEF Deliver
<1>2. TypeOK /\ inbox \in [Conns -> Seq(ClientMessage)] /\ OwnAddress(c)
    BY DEF RInv, RTypeOK
<1>3. inbox[c] \in Seq(ClientMessage)
    BY <1>2
<1>4. /\ msg \in ClientMessage /\ msg = inbox[c][1] /\ Len(inbox[c]) >= 1
      /\ Tail(inbox[c]) \in Seq(ClientMessage)
      /\ Len(Tail(inbox[c])) = Len(inbox[c]) - 1
      /\ \A i \in 1..Len(Tail(inbox[c])) :
            i + 1 \in 1..Len(inbox[c]) /\ Tail(inbox[c])[i] = inbox[c][i + 1]
    BY <1>1, <1>3
<1>5. /\ inbox' \in [Conns -> Seq(ClientMessage)]
      /\ inbox'[c] = Tail(inbox[c])
      /\ \A d \in Conns \ {c} : inbox'[d] = inbox[d]
    BY <1>1, <1>2, <1>4
<1>. HIDE DEF msg
<1>6. HandlerStep(c)
    BY <1>1, <1>4 DEF HandlerStep, Incoming
<1>7. msg.type = "SendPrivateAddr" => msg.addr = LocalAddr[c]
    BY <1>2, <1>4 DEF OwnAddress
<1>8. OwnAddress(c)'
    <2>1. privateAddr'[c] \in {None, LocalAddr[c]}
        BY <1>1, <1>2, <1>7, PrivateAddrIs
    <2>2. ASSUME NEW i \in 1..Len(inbox'[c]),
                 inbox'[c][i].type = "SendPrivateAddr"
          PROVE  inbox'[c][i].addr = LocalAddr[c]
        BY <1>2, <1>4, <1>5, <2>2 DEF OwnAddress
    <2>. QED
        BY <2>1, <2>2 DEF OwnAddress
<1>9. p \in Peers /\ c[2] \in Families /\ c = <<p, c[2]>> /\ ClientInv(p)
    BY ConnIs DEF RInv
<1>10. streams[p] # {} /\ clientPc[p] # "request"
    <2>1. ~Fresh(c)
        BY <1>1 DEF Fresh
    <2>. QED
        BY <1>9, <2>1 DEF ClientInv
<1>11. c # AnyMessenger(p) => Idle(c)'
    <2>. SUFFICES ASSUME c # AnyMessenger(p) PROVE Idle(c)'
        OBVIOUS
    <2>1. Idle(c)
        BY <1>9 DEF ClientInv
    <2>2. msg.type = "SendPrivateAddr" /\ pc[c] \in {"start", "closed"}
        BY <1>4, <2>1 DEF Idle
    <2>3. pc'[c] = "closed"
        BY <1>1, <1>2, <2>2, IdleIsRefused
    <2>4. \A i \in 1..Len(inbox'[c]) : inbox'[c][i].type = "SendPrivateAddr"
        BY <1>4, <1>5, <2>1 DEF Idle
    <2>. QED
        BY <2>3, <2>4 DEF Idle
<1>12. c = AnyMessenger(p) /\ clientPc[p] = "response" =>
        \/ Answered(p, c)
        \/ pc[c] = "start" /\ Receive(c, Request(p))
    <2>. SUFFICES ASSUME c = AnyMessenger(p), clientPc[p] = "response"
                  PROVE  \/ Answered(p, c)
                         \/ pc[c] = "start" /\ Receive(c, Request(p))
        OBVIOUS
    <2>1. Asked(p, c) \/ Answered(p, c)
        BY <1>9 DEF ClientInv
    <2>2. CASE Asked(p, c)
        <3>1. msg = Request(p) /\ pc[c] = "start"
            BY <1>4, <2>2 DEF Asked
        <3>. QED
            BY <1>1, <3>1
    <2>. QED
        BY <2>1, <2>2
<1>13. \A q \in Peers : ClientInv(q)'
    BY <1>1, <1>5, <1>6, <1>10, <1>11, <1>12, HandlerClientInv
<1>. QED
    BY <1>1, <1>5, <1>6, <1>8, <1>13, TaskStepInv

LEMMA EofStep ==
    ASSUME RInv, NEW c \in Conns, Eof(c)
    PROVE  RInv'
<1>. DEFINE p == c[1]
<1>1. /\ clientPc[p] \in {"connector", "exited"} /\ c[2] \in streams[p]
      /\ Receive(c, ReadError)
      /\ UNCHANGED <<clientPc, streams, code, sent, heard, inbox>>
    BY DEF Eof, Gone, clientVars
<1>2. TypeOK /\ inbox \in [Conns -> Seq(ClientMessage)] /\ OwnAddress(c)
    BY DEF RInv, RTypeOK
<1>3. HandlerStep(c) /\ ReadError.type = "ReadError"
    BY <1>1 DEF HandlerStep, Incoming, ReadError
<1>4. OwnAddress(c)'
    <2>1. privateAddr'[c] \in {None, LocalAddr[c]}
        BY <1>1, <1>2, <1>3, PrivateAddrIs
    <2>. QED
        BY <1>1, <1>2, <2>1 DEF OwnAddress
<1>5. p \in Peers /\ c[2] \in Families /\ c = <<p, c[2]>> /\ ClientInv(p)
    BY ConnIs DEF RInv
<1>6. c # AnyMessenger(p) => Idle(c)'
    <2>. SUFFICES ASSUME c # AnyMessenger(p) PROVE Idle(c)'
        OBVIOUS
    <2>1. Idle(c)
        BY <1>5 DEF ClientInv
    <2>2. pc'[c] = "closed"
        BY <1>1, <1>2, <1>3, <2>1, IdleIsRefused DEF Idle
    <2>. QED
        BY <1>1, <2>1, <2>2 DEF Idle
<1>7. \A q \in Peers : ClientInv(q)'
    BY <1>1, <1>3, <1>6, HandlerClientInv
<1>. QED
    BY <1>1, <1>2, <1>3, <1>4, <1>7, TaskStepInv

LEMMA ServerStepStep ==
    ASSUME RInv, NEW c \in Conns, ServerStep(c)
    PROVE  RInv'
<1>. DEFINE p == c[1]
<1>1. /\ HandlePrivateAddr(c) \/ HandleContacts(c) \/ Timeout(c)
      /\ UNCHANGED <<clientPc, streams, code, sent, heard, inbox>>
    BY DEF ServerStep, clientVars
<1>2. TypeOK /\ inbox \in [Conns -> Seq(ClientMessage)] /\ OwnAddress(c)
    BY DEF RInv, RTypeOK
<1>3. HandlerStep(c)
    BY <1>1 DEF HandlerStep
<1>4. OwnAddress(c)'
    <2>1. privateAddr'[c] \in {None, LocalAddr[c]}
        BY <1>1, <1>2, PrivateAddrIs
    <2>. QED
        BY <1>1, <1>2, <2>1 DEF OwnAddress
<1>5. p \in Peers /\ c[2] \in Families /\ c = <<p, c[2]>> /\ ClientInv(p)
    BY ConnIs DEF RInv
<1>6. \A q \in Peers : ClientInv(q)'
    <2>1. CASE Timeout(c)
        <3>1. \A d \in Conns : SameConn(d)
            BY <1>1, <2>1 DEF Timeout, handlerVars, SameConn
        <3>. QED
            BY <1>1, <3>1, ClientInvFrame, ConnIs DEF RInv, SameClient
    <2>2. CASE HandlePrivateAddr(c) \/ HandleContacts(c)
        <3>1. pc[c] \in {"private", "await"}
            BY <2>2 DEF HandlePrivateAddr, HandleContacts
        <3>2. c = AnyMessenger(p) /\ streams[p] # {} /\ clientPc[p] # "request"
            BY <3>1, InRoomIsFirst
        <3>3. clientPc[p] = "response" => Answered(p, c)
            BY <1>5, <3>1, <3>2 DEF ClientInv, Asked
        <3>. QED
            BY <1>1, <1>3, <3>2, <3>3, HandlerClientInv
    <2>. QED
        BY <1>1, <2>1, <2>2
<1>. QED
    BY <1>1, <1>2, <1>3, <1>4, <1>6, TaskStepInv

----------------------------------------------------------------------------
LEMMA RInvInit == RInit => RInv
<1>. SUFFICES ASSUME RInit PROVE RInv
    OBVIOUS
<1>1. TypeOK /\ ConversationInv
    BY TypeInit, ConversationInit DEF RInit
<1>2. RTypeOK
    BY <1>1 DEF RInit, RTypeOK, ClientPCs
<1>0. ASSUME NEW c \in Conns, NEW i \in 1..Len(inbox[c]) PROVE FALSE
    <2>1. inbox[c] = <<>>
        BY DEF RInit
    <2>2. Len(inbox[c]) = 0
        BY <2>1
    <2>. QED
        BY <2>2
<1>3. \A p \in Peers, f \in Families : Fresh(<<p, f>>) /\ Idle(<<p, f>>)
    <2>1. \A c \in Conns : Fresh(c)
        BY DEF RInit, Init, Fresh
    <2>2. \A c \in Conns : pc[c] = "start"
        BY DEF RInit, Init
    <2>3. \A c \in Conns : Idle(c)
        BY <1>0, <2>2 DEF Idle
    <2>. QED
        BY <2>1, <2>3, ConnIs
<1>4. \A p \in Peers : ClientInv(p)
    BY <1>3 DEF RInit, ClientInv
<1>5. \A c \in Conns : OwnAddress(c)
    <2>1. \A c \in Conns : privateAddr[c] = None
        BY DEF RInit, Init
    <2>. QED
        BY <1>0, <2>1 DEF OwnAddress
<1>. QED
    BY <1>1, <1>2, <1>4, <1>5 DEF RInv

LEMMA RInvStep == RInv /\ [RNext]_rVars => RInv'
<1>. SUFFICES ASSUME RInv, [RNext]_rVars PROVE RInv'
    OBVIOUS
<1>1. ASSUME NEW p \in Peers, ClientStep(p) \/ Quit(p) PROVE RInv'
    BY <1>1, ConnectStep, RequestJoinStep, RequestCreateStep, ReadResponseStep,
       SendPrivateAddrStep, SendDoneStep, ReadContactsStep, QuitStep
       DEF ClientStep
<1>2. ASSUME NEW c \in Conns, Deliver(c) \/ Eof(c) \/ ServerStep(c) PROVE RInv'
    BY <1>2, DeliverStep, EofStep, ServerStepStep
<1>3. CASE UNCHANGED rVars
    <2>1. UNCHANGED vars /\ UNCHANGED <<clientPc, streams, code, sent, heard, inbox>>
        BY <1>3 DEF rVars, clientVars
    <2>2. UNCHANGED <<pc, roomId, isCreator, privateAddr, outbox, rooms>>
        BY <2>1, ServerUnchanged
    <2>3. TypeOK' /\ ConversationInv'
        BY <2>1, ServerUnchanged DEF RInv, RTypeOK
    <2>4. RTypeOK'
        BY <2>1, <2>3 DEF RInv, RTypeOK
    <2>5. \A p \in Peers : ClientInv(p)'
        BY <2>1, <2>2, ClientInvFrame DEF RInv, SameClient, SameConn
    <2>6. \A c \in Conns : OwnAddress(c)'
        BY <2>1, <2>2 DEF RInv, OwnAddress
    <2>. QED
        BY <2>3, <2>4, <2>5, <2>6 DEF RInv
<1>. QED
    BY <1>1, <1>2, <1>3 DEF RNext

LEMMA RInvariance == RSpec => []RInv
BY RInvInit, RInvStep, PTL DEF RSpec

\* The clients of this repository are among the arbitrary ones of the server's
\* own specification: they send it messages of the protocol only. So all that
\* is proved of the server holds with them.
THEOREM ClientsAreClients == RSpec => Spec
<1>1. RInit => Init
    BY DEF RInit
<1>2. ASSUME RInv, [RNext]_rVars PROVE [Next]_vars
    <2>1. ASSUME NEW p \in Peers, ClientStep(p) \/ Quit(p) PROVE UNCHANGED vars
        BY <2>1 DEF ClientStep, Connect, RequestJoin, RequestCreate, ReadResponse,
           SendPrivateAddr, SendDone, ReadContacts, ReadReply, ReadFails, Quit
    <2>2. ASSUME NEW c \in Conns, Deliver(c) PROVE Next
        <3>1. inbox[c] \in Seq(ClientMessage) /\ inbox[c] # <<>>
            BY <1>2, <2>2 DEF RInv, RTypeOK, Deliver
        <3>2. Head(inbox[c]) \in Incoming
            BY <3>1 DEF Incoming
        <3>. QED
            BY <2>2, <3>2 DEF Deliver, Next
    <2>3. ASSUME NEW c \in Conns, Eof(c) \/ ServerStep(c) PROVE Next
        BY <2>3 DEF Eof, ServerStep, Next, Incoming
    <2>4. CASE UNCHANGED rVars
        BY <2>4 DEF rVars
    <2>. QED
        BY <1>2, <2>1, <2>2, <2>3, <2>4 DEF RNext
<1>. QED
    BY <1>1, <1>2, RInvariance, PTL DEF RSpec, Spec

\* Client and server states stay well formed, and a client that sends its
\* addresses has a room id.
THEOREM RTypeCorrect == RSpec => []RTypeOK
<1>1. RInv => RTypeOK
    BY DEF RInv
<1>. QED
    BY <1>1, RInvariance, PTL

\* A client that believes it is in a room is in that room for the server too,
\* in the role it was started for.
THEOREM ClientAndServerAgree == RSpec => []ClientServerAgree
<1>1. ASSUME RInv PROVE ClientServerAgree
    <2>. SUFFICES ASSUME NEW p \in Peers, clientPc[p] \in {"send", "contacts"}
                  PROVE  /\ roomId[AllMessengers(p)[1]] = code[p]
                         /\ isCreator[AllMessengers(p)[1]] = (p \in Creators)
        BY DEF ClientServerAgree
    <2>1. streams[p] \in SUBSET Families
        BY <1>1 DEF RInv, RTypeOK
    <2>2. streams[p] # {} /\ Agreed(p, AnyMessenger(p))
        BY <1>1 DEF RInv, ClientInv
    <2>3. AllMessengers(p)[1] = AnyMessenger(p)
        BY <2>1, <2>2, AllMessengersIs
    <2>. QED
        BY <2>2, <2>3 DEF Agreed
<1>. QED
    BY <1>1, RInvariance, PTL

----------------------------------------------------------------------------
\* Whose addresses a room holds.

\* A task in a room has the role its client was started for, and so have the
\* requests that are still under way, whether or not the client is still there.
InRole(c) ==
    /\ pc[c] \in {"main", "private", "await"} =>
        isCreator[c] = (c[1] \in Creators)
    /\ \A i \in 1..Len(inbox[c]) :
        /\ inbox[c][i].type = "CreateRoom" => c[1] \in Creators
        /\ inbox[c][i].type = "JoinRoom" => c[1] \notin Creators

\* The client does not change its room any more.
Past(p) == clientPc[p] \in {"send", "contacts", "connector", "exited"}

\* Once addresses are sent on the stream that the room was requested on, the
\* room of its task is that of the client, whether or not either is still there.
InRoomOf(c) ==
    Sending(c) /\ c = AnyMessenger(c[1]) =>
        /\ Past(c[1]) /\ streams[c[1]] # {}
        /\ pc[c] # "start" /\ roomId[c] = code[c[1]]

\* An address in scope s and of family f, on a side of room r, is that of p.
Owner(p, r, is_creator, s, f, addr) ==
    /\ Past(p) /\ streams[p] # {} /\ AnyMessenger(p) = <<p, f>>
    /\ code[p] = r /\ is_creator = (p \in Creators)
    /\ addr = AddrOf(<<p, f>>, s)

RoomsHold ==
    \A r \in RoomIds, b \in BOOLEAN, s \in Scopes, f \in Families :
        RoomExists(r) /\ rooms[r][b].contact[s][f] # None =>
            \E p \in Peers : Owner(p, r, b, s, f, rooms[r][b].contact[s][f])

RoleInv == (\A c \in Conns : InRole(c) /\ InRoomOf(c)) /\ RoomsHold

LEMMA RoleInit == RInit => RoleInv
<1>. SUFFICES ASSUME RInit PROVE RoleInv
    OBVIOUS
<1>1. ASSUME NEW c \in Conns PROVE InRole(c) /\ InRoomOf(c)
    <2>1. pc[c] = "start" /\ inbox[c] = <<>>
        BY DEF RInit, Init
    <2>2. Len(inbox[c]) = 0
        BY <2>1
    <2>. QED
        BY <2>1, <2>2 DEF InRole, InRoomOf, Sending
<1>2. RoomsHold
    BY DEF RInit, Init, GlobalInit, RoomsHold, RoomExists
<1>. QED
    BY <1>1, <1>2 DEF RoleInv

\* A client writes only requests of its role.
LEMMA WriteInRole ==
    ASSUME NEW c \in Conns, NEW m \in ClientMessage, Write(c, m),
           inbox \in [Conns -> Seq(ClientMessage)],
           pc' = pc, isCreator' = isCreator,
           m.type = "CreateRoom" => c[1] \in Creators,
           m.type = "JoinRoom" => c[1] \notin Creators,
           \A d \in Conns : InRole(d)
    PROVE  \A d \in Conns : InRole(d)'
<1>. SUFFICES ASSUME NEW d \in Conns PROVE InRole(d)'
    OBVIOUS
<1>1. InRole(d)
    OBVIOUS
<1>2. CASE d # c
    <2>1. inbox'[d] = inbox[d]
        BY <1>2 DEF Write
    <2>. QED
        BY <1>1, <2>1 DEF InRole
<1>3. CASE d = c
    <2>1. inbox[c] \in Seq(ClientMessage) /\ inbox'[c] = Append(inbox[c], m)
        BY DEF Write
    <2>2. /\ Len(inbox'[c]) = Len(inbox[c]) + 1
          /\ \A i \in 1..Len(inbox'[c]) :
                \/ i \in 1..Len(inbox[c]) /\ inbox'[c][i] = inbox[c][i]
                \/ inbox'[c][i] = m
        BY <2>1
    <2>. QED
        BY <1>1, <1>3, <2>2 DEF InRole
<1>. QED
    BY <1>2, <1>3

\* Only a SendPrivateAddr begins the sending of addresses.
LEMMA WriteSending ==
    ASSUME NEW c \in Conns, NEW m \in ClientMessage, Write(c, m),
           inbox \in [Conns -> Seq(ClientMessage)], pc' = pc,
           NEW d \in Conns, Sending(d)'
    PROVE  Sending(d) \/ (m.type = "SendPrivateAddr" /\ d = c)
<1>1. CASE d # c
    <2>1. inbox'[d] = inbox[d]
        BY <1>1 DEF Write
    <2>. QED
        BY <2>1 DEF Sending
<1>2. CASE d = c
    <2>1. inbox[c] \in Seq(ClientMessage) /\ inbox'[c] = Append(inbox[c], m)
        BY DEF Write
    <2>2. /\ Len(inbox'[c]) = Len(inbox[c]) + 1
          /\ \A i \in 1..Len(inbox'[c]) :
                \/ i \in 1..Len(inbox[c]) /\ inbox'[c][i] = inbox[c][i]
                \/ inbox'[c][i] = m
        BY <2>1
    <2>. QED
        BY <1>2, <2>2 DEF Sending
<1>. QED
    BY <1>1, <1>2

\* No step of a client undoes what its addresses were recorded with.
LEMMA PastStays ==
    ASSUME RTypeOK, NEW p \in Peers, ClientStep(p) \/ Quit(p),
           NEW q \in Peers, Past(q)
    PROVE  /\ Past(q)' /\ code'[q] = code[q] /\ streams'[q] = streams[q]
           /\ AnyMessenger(q)' = AnyMessenger(q)
<1>0. /\ clientPc \in [Peers -> ClientPCs]
      /\ streams \in [Peers -> SUBSET Families]
      /\ code \in [Peers -> RoomIds \cup {None}]
    BY DEF RTypeOK
<1>. SUFFICES Past(q)' /\ code'[q] = code[q] /\ streams'[q] = streams[q]
    BY DEF AnyMessenger
<1>1. CASE Connect(p)
    BY <1>0, <1>1 DEF Connect, ClientGoto, Past
<1>2. CASE RequestJoin(p) \/ RequestCreate(p)
    BY <1>0, <1>2 DEF RequestJoin, RequestCreate, ClientGoto, Past
<1>3. CASE ReadResponse(p)
    BY <1>0, <1>3 DEF ReadResponse, ReadReply, ReadFails, KeepId, ClientGoto, Past
<1>4. CASE SendPrivateAddr(p)
    BY <1>0, <1>4 DEF SendPrivateAddr, Past
<1>5. CASE SendDone(p)
    BY <1>0, <1>5 DEF SendDone, ClientGoto, Past
<1>6. CASE ReadContacts(p)
    BY <1>0, <1>6 DEF ReadContacts, ReadReply, ReadFails, ClientGoto, Past
<1>7. CASE Quit(p)
    BY <1>0, <1>7 DEF Quit, ClientGoto, Past
<1>. QED
    BY <1>1, <1>2, <1>3, <1>4, <1>5, <1>6, <1>7 DEF ClientStep

\* So the rooms keep their owners, and a client that begins no sending stays in
\* the room it sends to.
LEMMA ClientKeepsRooms ==
    ASSUME RInv, RoleInv, NEW p \in Peers, ClientStep(p) \/ Quit(p), UNCHANGED vars
    PROVE  /\ RoomsHold'
           /\ streams' = streams /\ (\A c \in Conns : Sending(c)' => Sending(c)) =>
                \A c \in Conns : InRoomOf(c)'
<1>0. /\ RTypeOK /\ pc' = pc /\ roomId' = roomId /\ rooms' = rooms
      /\ RoomsHold /\ \A c \in Conns : InRoomOf(c)
    BY ServerUnchanged DEF RInv, RoleInv
<1>1. ASSUME NEW q \in Peers, NEW r, NEW b, NEW s, NEW f, NEW a,
             Owner(q, r, b, s, f, a)
      PROVE  Owner(q, r, b, s, f, a)'
    <2>1. /\ Past(q)' /\ code'[q] = code[q] /\ streams'[q] = streams[q]
          /\ AnyMessenger(q)' = AnyMessenger(q)
        BY <1>0, <1>1, PastStays DEF Owner
    <2>. QED
        BY <1>1, <2>1 DEF Owner, AddrOf
<1>2. RoomsHold'
    <2>. SUFFICES ASSUME NEW r \in RoomIds, NEW b \in BOOLEAN, NEW s \in Scopes,
                         NEW f \in Families, rooms[r] # None,
                         rooms[r][b].contact[s][f] # None
                  PROVE  \E q \in Peers :
                            Owner(q, r, b, s, f, rooms[r][b].contact[s][f])'
        BY <1>0 DEF RoomsHold, RoomExists
    <2>1. PICK q \in Peers : Owner(q, r, b, s, f, rooms[r][b].contact[s][f])
        BY <1>0 DEF RoomsHold, RoomExists
    <2>2. PICK a : a = rooms[r][b].contact[s][f]
        OBVIOUS
    <2>3. rooms'[r][b].contact[s][f] = a /\ Owner(q, r, b, s, f, a)'
        BY <1>0, <1>1, <2>1, <2>2
    <2>. QED
        BY <2>3 DEF Owner
<1>3. ASSUME streams' = streams, NEW c \in Conns, Sending(c)' => Sending(c)
      PROVE  InRoomOf(c)'
    <2>1. c[1] \in Peers /\ InRoomOf(c)
        BY <1>0, ConnIs
    <2>2. AnyMessenger(c[1])' = AnyMessenger(c[1])
        BY <1>3 DEF AnyMessenger
    <2>3. CASE Sending(c) /\ c = AnyMessenger(c[1])
        <3>1. /\ Past(c[1]) /\ streams[c[1]] # {}
              /\ pc[c] # "start" /\ roomId[c] = code[c[1]]
            BY <2>1, <2>3 DEF InRoomOf
        <3>2. Past(c[1])' /\ code'[c[1]] = code[c[1]]
            BY <1>0, <2>1, <3>1, PastStays
        <3>. QED
            BY <1>0, <1>3, <3>1, <3>2 DEF InRoomOf
    <2>. QED
        BY <1>3, <2>2, <2>3 DEF InRoomOf
<1>. QED
    BY <1>2, <1>3

LEMMA ClientStepRole ==
    ASSUME RInv, RoleInv, NEW p \in Peers, ClientStep(p) \/ Quit(p)
    PROVE  RoleInv'
<1>0. /\ inbox \in [Conns -> Seq(ClientMessage)]
      /\ streams \in [Peers -> SUBSET Families]
      /\ \A c \in Conns : InRole(c) /\ InRoomOf(c)
      /\ ClientInv(p)
    BY DEF RInv, RTypeOK, RoleInv
<1>1. UNCHANGED vars
    BY DEF ClientStep, Connect, RequestJoin, RequestCreate, ReadResponse,
       SendPrivateAddr, SendDone, ReadContacts, ReadReply, ReadFails, Quit
<1>2. pc' = pc /\ isCreator' = isCreator /\ roomId' = roomId /\ rooms' = rooms
    BY <1>1, ServerUnchanged
<1>3. RoomsHold'
    BY <1>1, ClientKeepsRooms
<1>4. ASSUME streams' = streams, NEW c \in Conns, NEW m \in ClientMessage,
             Write(c, m), m.type # "SendPrivateAddr",
             m.type = "CreateRoom" => c[1] \in Creators,
             m.type = "JoinRoom" => c[1] \notin Creators
      PROVE  RoleInv'
    <2>1. \A d \in Conns : InRole(d)'
        BY <1>0, <1>2, <1>4, WriteInRole
    <2>2. \A d \in Conns : Sending(d)' => Sending(d)
        BY <1>0, <1>2, <1>4, WriteSending
    <2>. QED
        BY <1>1, <1>3, <1>4, <2>1, <2>2, ClientKeepsRooms DEF RoleInv
<1>5. AnyMessenger(p) \in Conns /\ AnyMessenger(p)[1] = p
    BY AnyMessengerIs
<1>6. CASE Connect(p)
    <2>1. /\ inbox' = inbox /\ \A f \in Families : Fresh(<<p, f>>)
          /\ \A q \in Peers \ {p} : /\ streams'[q] = streams[q]
                                     /\ clientPc'[q] = clientPc[q]
          /\ code' = code
        BY <1>0, <1>6 DEF Connect, ClientGoto, ClientInv
    <2>2. ASSUME NEW c \in Conns PROVE InRole(c)' /\ InRoomOf(c)'
        <3>1. InRole(c)'
            BY <1>0, <1>2, <2>1 DEF InRole
        <3>2. CASE c[1] = p
            <4>1. Fresh(c)
                BY <2>1, <3>2, ConnIs
            <4>2. ~Sending(c)'
                BY <1>2, <2>1, <4>1 DEF Fresh, Sending
            <4>. QED
                BY <3>1, <4>2 DEF InRoomOf
        <3>3. CASE c[1] # p
            <4>1. /\ c[1] \in Peers \ {p} /\ InRoomOf(c)
                  /\ streams'[c[1]] = streams[c[1]]
                  /\ clientPc'[c[1]] = clientPc[c[1]]
                BY <1>0, <2>1, <3>3, ConnIs
            <4>2. /\ AnyMessenger(c[1])' = AnyMessenger(c[1])
                  /\ Sending(c)' = Sending(c) /\ Past(c[1])' = Past(c[1])
                BY <1>2, <2>1, <4>1 DEF AnyMessenger, Sending, Past
            <4>. QED
                BY <1>2, <2>1, <3>1, <4>1, <4>2 DEF InRoomOf
        <3>. QED
            BY <3>2, <3>3
    <2>. QED
        BY <1>3, <2>2 DEF RoleInv
<1>7. CASE RequestJoin(p)
    <2>1. PICK r \in RoomIds :
            Write(AnyMessenger(p), [type |-> "JoinRoom", room_id |-> r])
        BY <1>7 DEF RequestJoin
    <2>2. PICK m : m = [type |-> "JoinRoom", room_id |-> r]
        OBVIOUS
    <2>3. m \in ClientMessage /\ m.type = "JoinRoom"
        BY <2>2, ClientMessages
    <2>4. p \notin Creators /\ streams' = streams
        BY <1>7 DEF RequestJoin
    <2>. QED
        BY <1>4, <1>5, <2>1, <2>2, <2>3, <2>4
<1>8. CASE RequestCreate(p)
    <2>1. PICK m : m = [type |-> "CreateRoom"]
        OBVIOUS
    <2>2. m \in ClientMessage /\ m.type = "CreateRoom"
        BY <2>1, ClientMessages
    <2>3. Write(AnyMessenger(p), m) /\ p \in Creators /\ streams' = streams
        BY <1>8, <2>1 DEF RequestCreate
    <2>. QED
        BY <1>4, <1>5, <2>2, <2>3
<1>9. CASE SendPrivateAddr(p)
    <2>1. PICK conn : /\ conn = AllMessengers(p)[sent[p] + 1]
                      /\ Write(conn, [type |-> "SendPrivateAddr",
                                      addr |-> LocalAddr[conn]])
                      /\ sent[p] < Len(AllMessengers(p))
        BY <1>9 DEF SendPrivateAddr
    <2>a. /\ clientPc[p] = "send" /\ clientPc' = clientPc /\ code' = code
          /\ streams' = streams
        BY <1>9 DEF SendPrivateAddr
    <2>2. conn \in Conns /\ conn[1] = p
        <3>1. sent[p] + 1 \in 1..Len(AllMessengers(p))
            <4>1. sent[p] \in 0..2 /\ Len(AllMessengers(p)) \in 0..2
                BY <1>0, AllMessengersIs DEF RInv, RTypeOK
            <4>. QED
                BY <2>1, <4>1
        <3>. QED
            BY <1>0, <2>1, <3>1, AllMessengersIs
    <2>3. PICK m : m = [type |-> "SendPrivateAddr", addr |-> LocalAddr[conn]]
        OBVIOUS
    <2>4. m \in ClientMessage /\ m.type = "SendPrivateAddr"
        BY <2>2, <2>3, RendezvousAssumption DEF ClientMessage
    <2>5. \A c \in Conns : InRole(c)'
        BY <1>0, <1>2, <2>1, <2>2, <2>3, <2>4, WriteInRole
    <2>6. ASSUME NEW c \in Conns PROVE InRoomOf(c)'
        <3>1. Sending(c)' => Sending(c) \/ c = conn
            BY <1>0, <1>2, <2>1, <2>2, <2>3, <2>4, WriteSending
        <3>2. /\ AnyMessenger(c[1])' = AnyMessenger(c[1])
              /\ Past(c[1])' = Past(c[1])
            BY <2>a DEF AnyMessenger, Past
        <3>3. CASE c = conn /\ c = AnyMessenger(c[1])
            <4>1. Agreed(p, c) /\ streams[p] # {} /\ Past(p) /\ c[1] = p
                BY <1>0, <2>2, <2>a, <3>3 DEF ClientInv, Past
            <4>. QED
                BY <1>2, <2>a, <3>2, <4>1 DEF InRoomOf, Agreed
        <3>. QED
            BY <1>0, <1>2, <2>a, <3>1, <3>2, <3>3 DEF InRoomOf
    <2>. QED
        BY <1>3, <2>5, <2>6 DEF RoleInv
<1>10. CASE SendDone(p)
    <2>1. PICK m : m = [type |-> "DoneSending"]
        OBVIOUS
    <2>2. m \in ClientMessage /\ m.type = "DoneSending"
        BY <2>1, ClientMessages
    <2>3. PICK conn : conn = AllMessengers(p)[1]
        OBVIOUS
    <2>4. Write(conn, m) /\ streams' = streams
        BY <1>10, <2>1, <2>3 DEF SendDone
    <2>5. conn \in Conns
        BY <1>0, <1>5, <1>10, <2>3, AllMessengersIs DEF ClientInv, SendDone
    <2>. QED
        BY <1>4, <2>2, <2>4, <2>5
<1>11. CASE ReadResponse(p) \/ ReadContacts(p) \/ Quit(p)
    <2>1. inbox' = inbox /\ streams' = streams
        BY <1>11 DEF ReadResponse, ReadContacts, ReadReply, ReadFails, Quit
    <2>2. \A c \in Conns : InRole(c)' /\ (Sending(c)' => Sending(c))
        BY <1>0, <1>2, <2>1 DEF InRole, Sending
    <2>. QED
        BY <1>1, <1>3, <2>1, <2>2, ClientKeepsRooms DEF RoleInv
<1>. QED
    BY <1>6, <1>7, <1>8, <1>9, <1>10, <1>11 DEF ClientStep

\* The task of c, given a message of the role of its client, keeps that role.
LEMMA TaskKeepsRole ==
    ASSUME TypeOK, NEW c \in Conns, InRole(c),
           \/ \E msg \in Incoming :
                /\ Receive(c, msg)
                /\ msg.type = "CreateRoom" => c[1] \in Creators
                /\ msg.type = "JoinRoom" => c[1] \notin Creators
           \/ HandlePrivateAddr(c) \/ HandleContacts(c) \/ Timeout(c)
    PROVE  pc'[c] \in {"main", "private", "await"} =>
            isCreator'[c] = (c[1] \in Creators)
<1>. DEFINE Kept == pc'[c] \in {"main", "private", "await"} =>
                        isCreator'[c] = (c[1] \in Creators)
<1>0. /\ pc[c] \in {"main", "private", "await"} =>
            isCreator[c] = (c[1] \in Creators)
      /\ HandlerStep(c)
    BY DEF InRole, HandlerStep
<1>1. CASE pc[c] \in {"main", "private", "await"}
    BY <1>0, <1>1, PastTheStart
<1>2. CASE pc[c] \notin {"main", "private", "await"}
    <2>1. ASSUME NEW msg \in Incoming, Receive(c, msg),
                 msg.type = "CreateRoom" => c[1] \in Creators,
                 msg.type = "JoinRoom" => c[1] \notin Creators
          PROVE  Kept
        <3>1. CASE StartCreateRoom(c, msg)
            <4>1. isCreator'[c] = TRUE /\ msg.type = "CreateRoom"
                BY <3>1 DEF StartCreateRoom, EnterRoom, TypeOK
            <4>. QED
                BY <2>1, <4>1
        <3>2. CASE StartJoinRoom(c, msg)
            <4>1. CASE Send(c, ErrorNoSuchRoomID, "closed")
                BY <4>1 DEF Send, Goto, TypeOK
            <4>2. CASE EnterRoom(c, msg.room_id, FALSE)
                <5>1. isCreator'[c] = FALSE /\ msg.type = "JoinRoom"
                    BY <3>2, <4>2 DEF StartJoinRoom, EnterRoom, TypeOK
                <5>2. (c[1] \in Creators) = FALSE
                    BY <2>1, <5>1
                <5>. QED
                    BY <5>1, <5>2, Zenon
            <4>. QED
                BY <3>2, <4>1, <4>2 DEF StartJoinRoom
        <3>3. CASE StartSpin(c, msg)
            BY <3>3 DEF StartSpin, Goto, TypeOK
        <3>4. CASE Reject(c, msg)
            BY <3>4 DEF Reject, Send, Goto, TypeOK
        <3>. QED
            BY <1>2, <2>1, <3>1, <3>2, <3>3, <3>4
               DEF Receive, HandleSendPrivateAddr, HandleDoneSending
    <2>2. CASE Timeout(c)
        BY <1>2, <2>2 DEF Timeout, handlerVars
    <2>. QED
        BY <1>2, <2>1, <2>2 DEF HandlePrivateAddr, HandleContacts
<1>. QED
    BY <1>1, <1>2

\* A task has an address to store only after its client has sent it one.
LEMMA TaskSending ==
    ASSUME TypeOK, NEW c \in Conns, GivenStep(c), pc'[c] = "private"
    PROVE  Sending(c)
<1>. USE DEF TypeOK
<1>1. \A msg : \A where \in {"main", "closed"} :
        Send(c, msg, where) => pc'[c] # "private"
    BY SendEffect
<1>2. \A where : Goto(c, where) => pc'[c] = where
    BY DEF Goto
<1>3. ASSUME NEW msg \in Incoming, Receive(c, msg),
             msg.type = "SendPrivateAddr" => Sending(c)
      PROVE  Sending(c)
    <2>1. CASE Reject(c, msg)
        BY <1>1, <2>1 DEF Reject
    <2>2. CASE HandleSendPrivateAddr(c, msg)
        BY <1>3, <2>2 DEF HandleSendPrivateAddr
    <2>3. CASE HandleDoneSending(c, msg)
        BY <1>1, <1>2, <2>3 DEF HandleDoneSending, SendNoSuchRoom
    <2>4. CASE StartCreateRoom(c, msg)
        BY <1>1, <2>4 DEF StartCreateRoom
    <2>5. CASE StartJoinRoom(c, msg)
        BY <1>1, <2>5 DEF StartJoinRoom
    <2>6. CASE StartSpin(c, msg)
        BY <1>2, <2>6 DEF StartSpin
    <2>. QED
        BY <1>3, <2>1, <2>2, <2>3, <2>4, <2>5, <2>6 DEF Receive
<1>4. CASE HandlePrivateAddr(c)
    BY <1>4 DEF HandlePrivateAddr, Sending
<1>5. CASE HandleContacts(c)
    BY <1>1, <1>2, <1>5 DEF HandleContacts
<1>6. CASE Timeout(c)
    BY <1>6 DEF Timeout, handlerVars, Sending
<1>. QED
    BY <1>3, <1>4, <1>5, <1>6 DEF GivenStep

\* The task of c stores the addresses of its client only, in the client's room
\* and on the client's side.
LEMMA TaskKeepsRooms ==
    ASSUME RInv, RoleInv, NEW c \in Conns, GivenStep(c),
           UNCHANGED <<clientPc, streams, code>>
    PROVE  RoomsHold'
<1>1. ASSUME NEW q \in RoomIds, NEW d \in BOOLEAN, NEW t \in Scopes,
             NEW f \in Families, rooms'[q] # None, NEW a,
             a = rooms'[q][d].contact[t][f], a # None
      PROVE  \E p \in Peers : Owner(p, q, d, t, f, a)
    <2>1. Stored(c, q, d, t, f)
        BY <1>1, HandlerStores
    <2>2. CASE /\ rooms[q] # None
               /\ rooms'[q][d].contact[t][f] = rooms[q][d].contact[t][f]
        BY <1>1, <2>2 DEF RoleInv, RoomsHold, RoomExists
    <2>3. CASE /\ pc[c] \in {"main", "private"} /\ Sending(c)
               /\ q = roomId[c] /\ d = isCreator[c] /\ f = c[2]
               /\ rooms'[q][d].contact[t][f] = AddrOf(c, t)
        <3>1. c = AnyMessenger(c[1]) /\ streams[c[1]] # {}
            BY <2>3, InRoomIsFirst
        <3>2. c[1] \in Peers /\ c = <<c[1], f>>
            BY <2>3, ConnIs
        <3>3. d = (c[1] \in Creators)
            BY <2>3 DEF RoleInv, InRole
        <3>4. Past(c[1]) /\ code[c[1]] = q
            BY <2>3, <3>1 DEF RoleInv, InRoomOf
        <3>5. a = AddrOf(<<c[1], f>>, t)
            BY <1>1, <2>3, <3>2
        <3>. QED
            BY <3>1, <3>2, <3>3, <3>4, <3>5 DEF Owner
    <2>. QED
        BY <2>1, <2>2, <2>3 DEF Stored
<1>2. \A p, q, d, t, f, a :
        Owner(p, q, d, t, f, a)' <=> Owner(p, q, d, t, f, a)
    BY DEF Owner, Past, AnyMessenger, AddrOf
<1>. SUFFICES ASSUME NEW q \in RoomIds, NEW d \in BOOLEAN, NEW t \in Scopes,
                     NEW f \in Families, rooms'[q] # None,
                     rooms'[q][d].contact[t][f] # None
              PROVE  \E p \in Peers :
                        Owner(p, q, d, t, f, rooms[q][d].contact[t][f])'
    BY DEF RoomsHold, RoomExists
<1>3. PICK a : a = rooms'[q][d].contact[t][f]
    OBVIOUS
<1>4. PICK p \in Peers : Owner(p, q, d, t, f, a)
    BY <1>1, <1>3
<1>5. Owner(p, q, d, t, f, a)'
    BY <1>2, <1>4
<1>. QED
    BY <1>3, <1>5 DEF Owner

LEMMA TaskStepRole ==
    ASSUME RInv, RoleInv, NEW c \in Conns, Deliver(c) \/ Eof(c) \/ ServerStep(c)
    PROVE  RoleInv'
<1>0. /\ TypeOK /\ InRole(c) /\ inbox \in [Conns -> Seq(ClientMessage)]
      /\ inbox[c] \in Seq(ClientMessage) /\ InRoomOf(c)
    BY DEF RInv, RTypeOK, RoleInv
<1>1. ASSUME GivenStep(c), HandlerStep(c), UNCHANGED <<clientPc, streams, code>>,
             \A d \in Conns \ {c} : inbox'[d] = inbox[d], InRole(c)',
             \A i \in 1..Len(inbox'[c]) :
                \E j \in 1..Len(inbox[c]) : inbox'[c][i] = inbox[c][j]
      PROVE  RoleInv'
    <2>1. RoomsHold'
        BY <1>1, TaskKeepsRooms
    <2>2. \A d \in Conns : /\ AnyMessenger(d[1])' = AnyMessenger(d[1])
                           /\ Past(d[1])' = Past(d[1])
        BY <1>1 DEF AnyMessenger, Past
    <2>3. ASSUME NEW d \in Conns, d # c PROVE InRole(d)' /\ InRoomOf(d)'
        <3>1. /\ pc'[d] = pc[d] /\ isCreator'[d] = isCreator[d]
              /\ roomId'[d] = roomId[d] /\ inbox'[d] = inbox[d]
              /\ InRole(d) /\ InRoomOf(d)
            BY <1>0, <1>1, <2>3, HandlerFrame DEF RoleInv
        <3>. QED
            BY <1>1, <2>2, <3>1 DEF InRole, InRoomOf, Sending
    <2>4. InRoomOf(c)'
        <3>1. Sending(c)' => Sending(c)
            BY <1>0, <1>1, TaskSending DEF Sending
        <3>2. pc[c] # "start" => pc'[c] # "start" /\ roomId'[c] = roomId[c]
            BY <1>0, <1>1, PastTheStart
        <3>. QED
            BY <1>0, <1>1, <2>2, <3>1, <3>2 DEF InRoomOf
    <2>. QED
        BY <1>1, <2>1, <2>3, <2>4 DEF RoleInv
<1>2. CASE Deliver(c)
    <2>1. PICK msg : msg = Head(inbox[c])
        OBVIOUS
    <2>2. /\ inbox[c] # <<>> /\ Receive(c, msg)
          /\ inbox' = [inbox EXCEPT ![c] = Tail(@)]
          /\ UNCHANGED <<clientPc, streams, code>>
        BY <1>2, <2>1 DEF Deliver
    <2>3. /\ msg \in ClientMessage /\ msg = inbox[c][1] /\ Len(inbox[c]) >= 1
          /\ Len(Tail(inbox[c])) = Len(inbox[c]) - 1
          /\ \A i \in 1..Len(Tail(inbox[c])) :
                i + 1 \in 1..Len(inbox[c]) /\ Tail(inbox[c])[i] = inbox[c][i + 1]
        BY <1>0, <2>1, <2>2
    <2>4. /\ inbox'[c] = Tail(inbox[c])
          /\ \A d \in Conns \ {c} : inbox'[d] = inbox[d]
        BY <1>0, <2>2
    <2>5. /\ msg.type = "CreateRoom" => c[1] \in Creators
          /\ msg.type = "JoinRoom" => c[1] \notin Creators
        BY <1>0, <2>3 DEF InRole
    <2>6. msg \in Incoming /\ HandlerStep(c)
        BY <2>2, <2>3 DEF Incoming, HandlerStep
    <2>7. GivenStep(c)
        <3>1. msg.type = "SendPrivateAddr" => Sending(c)
            BY <1>0, <2>3 DEF Sending
        <3>. QED
            BY <2>2, <2>6, <3>1 DEF GivenStep
    <2>8. pc'[c] \in {"main", "private", "await"} =>
            isCreator'[c] = (c[1] \in Creators)
        BY <1>0, <2>2, <2>5, <2>6, TaskKeepsRole
    <2>9. InRole(c)'
        BY <1>0, <2>3, <2>4, <2>8 DEF InRole
    <2>10. \A i \in 1..Len(inbox'[c]) :
            \E j \in 1..Len(inbox[c]) : inbox'[c][i] = inbox[c][j]
        BY <2>3, <2>4
    <2>. QED
        BY <1>1, <2>2, <2>4, <2>6, <2>7, <2>9, <2>10
<1>3. CASE Eof(c) \/ ServerStep(c)
    <2>1. inbox' = inbox /\ UNCHANGED <<clientPc, streams, code>>
        BY <1>3 DEF Eof, ServerStep, clientVars
    <2>2. /\ ReadError \in Incoming /\ ReadError.type = "ReadError"
          /\ \/ Receive(c, ReadError)
             \/ HandlePrivateAddr(c) \/ HandleContacts(c) \/ Timeout(c)
        BY <1>3 DEF Eof, ServerStep, Incoming, ReadError
    <2>3. HandlerStep(c) /\ GivenStep(c)
        <3>. HIDE DEF ReadError
        <3>. QED
            BY <2>2 DEF HandlerStep, GivenStep
    <2>4. pc'[c] \in {"main", "private", "await"} =>
            isCreator'[c] = (c[1] \in Creators)
        <3>. HIDE DEF ReadError
        <3>. QED
            BY <1>0, <2>2, TaskKeepsRole
    <2>5. InRole(c)'
        BY <1>0, <2>1, <2>4 DEF InRole
    <2>. QED
        BY <1>1, <2>1, <2>3, <2>5
<1>. QED
    BY <1>2, <1>3

LEMMA RoleStep == RInv /\ RoleInv /\ [RNext]_rVars => RoleInv'
<1>. SUFFICES ASSUME RInv, RoleInv, [RNext]_rVars PROVE RoleInv'
    OBVIOUS
<1>1. CASE UNCHANGED rVars
    <2>1. UNCHANGED vars /\ UNCHANGED <<inbox, streams, clientPc, code>>
        BY <1>1 DEF rVars, clientVars
    <2>2. pc' = pc /\ isCreator' = isCreator /\ roomId' = roomId /\ rooms' = rooms
        BY <2>1, ServerUnchanged
    <2>3. \A c \in Conns : InRole(c)' /\ InRoomOf(c)'
        BY <2>1, <2>2 DEF RoleInv, InRole, InRoomOf, Sending, Past, AnyMessenger
    <2>4. \A p, q, d, s, f, a : Owner(p, q, d, s, f, a)' <=> Owner(p, q, d, s, f, a)
        BY <2>1 DEF Owner, Past, AnyMessenger, AddrOf
    <2>5. RoomsHold'
        <3>1. RoomsHold
            BY DEF RoleInv
        <3>. SUFFICES ASSUME NEW q \in RoomIds, NEW d \in BOOLEAN, NEW s \in Scopes,
                             NEW f \in Families, rooms[q] # None,
                             rooms[q][d].contact[s][f] # None
                      PROVE  \E p \in Peers :
                                Owner(p, q, d, s, f, rooms[q][d].contact[s][f])'
            BY <2>2 DEF RoomsHold, RoomExists
        <3>2. PICK a : a = rooms[q][d].contact[s][f]
            OBVIOUS
        <3>3. PICK p \in Peers : Owner(p, q, d, s, f, a)
            BY <3>1, <3>2 DEF RoomsHold, RoomExists
        <3>4. Owner(p, q, d, s, f, a)'
            BY <2>4, <3>3
        <3>. QED
            BY <2>2, <3>2, <3>4 DEF Owner
    <2>. QED
        BY <2>3, <2>5 DEF RoleInv
<1>. QED
    BY <1>1, ClientStepRole, TaskStepRole DEF RNext

LEMMA RoleInvariance == RSpec => []RoleInv
BY RInvariance, RoleInit, RoleStep, PTL DEF RSpec

\* Every address that a room holds is that of a stream of a client which works
\* with this room and was started for this side, for any number of clients and
\* rooms: no task between its two update_client calls, no room that expires
\* meanwhile and no id that is used again gets an address into another place.
THEOREM AddressesOfItsClients == RSpec => []RecordedForItsClient
<1>1. ASSUME RInv, RoleInv PROVE RecordedForItsClient
    <2>. SUFFICES ASSUME NEW r \in RoomIds, NEW b \in BOOLEAN, NEW s \in Scopes,
                         NEW f \in Families, RoomExists(r),
                         Contacts(r, b)[s][f] # None
                  PROVE  \E p \in Peers :
                            /\ f \in streams[p]
                            /\ code[p] = r
                            /\ b = (p \in Creators)
                            /\ Contacts(r, b)[s][f] = AddrOf(<<p, f>>, s)
        BY DEF RecordedForItsClient
    <2>1. PICK p \in Peers : Owner(p, r, b, s, f, Contacts(r, b)[s][f])
        BY <1>1 DEF RoleInv, RoomsHold, Contacts
    <2>2. f \in streams[p]
        <3>1. streams[p] # {} /\ streams[p] \subseteq Families
              /\ AnyMessenger(p) = <<p, f>>
            BY <1>1, <2>1 DEF Owner, RInv, RTypeOK
        <3>. QED
            BY <3>1 DEF AnyMessenger, Families
    <2>. QED
        BY <2>1, <2>2 DEF Owner
<1>. QED
    BY <1>1, RInvariance, RoleInvariance, PTL

----------------------------------------------------------------------------
\* The IPv6 addresses of a room, one at a time.
LEMMA CountOne ==
    ASSUME NEW S, IsFiniteSet(S), NEW x, x \notin S, NEW there \in BOOLEAN,
           NEW T, T = IF there THEN S \cup {x} ELSE S
    PROVE  /\ IsFiniteSet(T) /\ Cardinality(T) \in Nat
           /\ Cardinality(T) = Cardinality(S) + (IF there THEN 1 ELSE 0)
<1>1. Cardinality(S) \in Nat
    BY FS_CardinalityType
<1>2. CASE there
    <2>1. IsFiniteSet(S \cup {x}) /\ Cardinality(S \cup {x}) = Cardinality(S) + 1
        BY FS_AddElement
    <2>. QED
        BY <1>1, <1>2, <2>1
<1>. QED
    BY <1>1, <1>2

Bit(b) == IF b THEN 1 ELSE 0

LEMMA CountFour ==
    ASSUME NEW a \in BOOLEAN, NEW b \in BOOLEAN, NEW c \in BOOLEAN,
           NEW d \in BOOLEAN, NEW S, S \subseteq BOOLEAN \X Scopes,
           <<TRUE, "private">> \in S <=> a, <<TRUE, "public">> \in S <=> b,
           <<FALSE, "private">> \in S <=> c, <<FALSE, "public">> \in S <=> d
    PROVE  Cardinality(S) = Bit(a) + Bit(b) + Bit(c) + Bit(d)
<1>1. PICK w, x, y, z : /\ w = <<TRUE, "private">> /\ x = <<TRUE, "public">>
                        /\ y = <<FALSE, "private">> /\ z = <<FALSE, "public">>
    OBVIOUS
<1>2. /\ w # x /\ w # y /\ w # z /\ x # y /\ x # z /\ y # z
    BY <1>1
<1>3. /\ S \subseteq {w, x, y, z}
      /\ w \in S <=> a
      /\ x \in S <=> b
      /\ y \in S <=> c
      /\ z \in S <=> d
    <2>1. ASSUME NEW e \in BOOLEAN \X Scopes PROVE e \in {w, x, y, z}
        <3>1. PICK i \in BOOLEAN, s \in Scopes : e = <<i, s>>
            OBVIOUS
        <3>2. i = TRUE \/ i = FALSE
            OBVIOUS
        <3>. QED
            BY <1>1, <3>1, <3>2 DEF Scopes
    <2>. QED
        BY <1>1, <2>1
<1>4. PICK S1 : S1 = IF a THEN {} \cup {w} ELSE {}
    OBVIOUS
<1>5. PICK S2 : S2 = IF b THEN S1 \cup {x} ELSE S1
    OBVIOUS
<1>6. PICK S3 : S3 = IF c THEN S2 \cup {y} ELSE S2
    OBVIOUS
<1>7. S = IF d THEN S3 \cup {z} ELSE S3
    BY <1>3, <1>4, <1>5, <1>6
<1>8. IsFiniteSet({}) /\ Cardinality({}) = 0
    BY FS_EmptySet
<1>9. IsFiniteSet(S1) /\ Cardinality(S1) = Bit(a)
    <2>1. w \notin {} /\ 0 + Bit(a) = Bit(a)
        BY DEF Bit
    <2>. QED
        BY <1>4, <1>8, <2>1, CountOne DEF Bit
<1>10. IsFiniteSet(S2) /\ Cardinality(S2) = Bit(a) + Bit(b)
    <2>1. x \notin S1
        BY <1>2, <1>4
    <2>. QED
        BY <1>5, <1>9, <2>1, CountOne DEF Bit
<1>11. IsFiniteSet(S3) /\ Cardinality(S3) = Bit(a) + Bit(b) + Bit(c)
    <2>1. y \notin S2
        BY <1>2, <1>4, <1>5
    <2>. QED
        BY <1>6, <1>10, <2>1, CountOne DEF Bit
<1>12. z \notin S3
    BY <1>2, <1>4, <1>5, <1>6
<1>. QED
    BY <1>7, <1>11, <1>12, CountOne DEF Bit

\* The bytes of a contact, at most: a byte for each of its four options, and 19
\* or 7 for each of its addresses.
LEMMA ContactLenAtMost ==
    ASSUME NEW contact \in FullContact
    PROVE  /\ ContactLen(contact) \in Nat
           /\ ContactLen(contact) <=
                4 + 19 * Bit(contact["private"]["v6"] # None)
                  + 19 * Bit(contact["public"]["v6"] # None)
                  + 7 * Bit(contact["private"]["v4"] # None)
                  + 7 * Bit(contact["public"]["v4"] # None)
<1>1. ASSUME NEW s \in Scopes
      PROVE  /\ OptionLen(contact, s, "v6") \in 1..20
             /\ OptionLen(contact, s, "v6") <= 1 + 19 * Bit(contact[s]["v6"] # None)
             /\ OptionLen(contact, s, "v4") \in 1..8
             /\ OptionLen(contact, s, "v4") <= 1 + 7 * Bit(contact[s]["v4"] # None)
    BY OptionLenIs DEF Bit
<1>2. \A s \in Scopes, f \in Families : Bit(contact[s][f] # None) \in 0..1
    BY DEF Bit
<1>. QED
    BY <1>1, <1>2 DEF ContactLen, Scopes, Families

\* One client creates a room and one joins it, as the program is meant to be
\* used. A second joiner may put addresses of another family on the same side.
OneClientPerRole ==
    \A p, q \in Peers : (p \in Creators <=> q \in Creators) => p = q

LEMMA OneFamilyPerSide ==
    ASSUME OneClientPerRole, RoleInv, NEW r \in RoomIds, RoomExists(r),
           NEW b \in BOOLEAN, NEW s \in Scopes, NEW t \in Scopes
    PROVE  \/ rooms[r][b].contact[s]["v6"] = None
           \/ rooms[r][b].contact[t]["v4"] = None
<1>. SUFFICES ASSUME rooms[r][b].contact[s]["v6"] # None,
                     rooms[r][b].contact[t]["v4"] # None
              PROVE  FALSE
    OBVIOUS
<1>1. PICK p \in Peers : Owner(p, r, b, s, "v6", rooms[r][b].contact[s]["v6"])
    BY DEF RoleInv, RoomsHold, Families
<1>2. PICK q \in Peers : Owner(q, r, b, t, "v4", rooms[r][b].contact[t]["v4"])
    BY DEF RoleInv, RoomsHold, Families
<1>3. p = q
    BY <1>1, <1>2 DEF OneClientPerRole, Owner
<1>. QED
    BY <1>1, <1>2, <1>3 DEF Owner

\* Where one client creates a room and one joins it, the contacts of the room
\* fit the buffer of a Messenger as long as at most two of them are IPv6
\* addresses, whatever the addresses and ports are, however far the two clients
\* have come and whichever streams they could open: no side of a room holds
\* addresses of both families.
THEOREM TwoIPv6Fit ==
    ASSUME OneClientPerRole
    PROVE  RSpec => []TwoIPv6AddressesFit
<1>1. ASSUME RInv, RoleInv PROVE TwoIPv6AddressesFit
    <2>. SUFFICES ASSUME NEW r \in RoomIds, RoomExists(r), NEW v6,
                         v6 = V6Contacts(r), Cardinality(v6) <= 2,
                         NEW msg, msg = SharePeerContacts(
                                    <<Contacts(r, TRUE), Contacts(r, FALSE)>>)
                  PROVE  Fits(msg)
        BY DEF TwoIPv6AddressesFit, ContactsFit
    <2>1. PICK mine, theirs :
            /\ mine = Contacts(r, TRUE) /\ theirs = Contacts(r, FALSE)
        OBVIOUS
    <2>a. mine \in FullContact /\ theirs \in FullContact
        BY <1>1, <2>1 DEF Contacts, RInv, RTypeOK, TypeOK, GlobalTypeOK,
           RoomExists, Room, Client
    <2>2. PICK a \in BOOLEAN, b \in BOOLEAN, c \in BOOLEAN, d \in BOOLEAN :
            /\ a = (mine["private"]["v6"] # None)
            /\ b = (mine["public"]["v6"] # None)
            /\ c = (theirs["private"]["v6"] # None)
            /\ d = (theirs["public"]["v6"] # None)
        OBVIOUS
    <2>3. Cardinality(v6) = Bit(a) + Bit(b) + Bit(c) + Bit(d)
        <3>1. /\ v6 \subseteq BOOLEAN \X Scopes
              /\ <<TRUE, "private">> \in v6 <=> a
              /\ <<TRUE, "public">> \in v6 <=> b
              /\ <<FALSE, "private">> \in v6 <=> c
              /\ <<FALSE, "public">> \in v6 <=> d
            BY <2>1, <2>2 DEF Scopes, V6Contacts
        <3>. QED
            BY <3>1, CountFour
    <2>4. PICK e \in BOOLEAN, f \in BOOLEAN, g \in BOOLEAN, h \in BOOLEAN :
            /\ e = (mine["private"]["v4"] # None)
            /\ f = (mine["public"]["v4"] # None)
            /\ g = (theirs["private"]["v4"] # None)
            /\ h = (theirs["public"]["v4"] # None)
        OBVIOUS
    <2>5. /\ ContactLen(mine) \in Nat /\ ContactLen(theirs) \in Nat
          /\ ContactLen(mine) <=
                4 + 19 * Bit(a) + 19 * Bit(b) + 7 * Bit(e) + 7 * Bit(f)
          /\ ContactLen(theirs) <=
                4 + 19 * Bit(c) + 19 * Bit(d) + 7 * Bit(g) + 7 * Bit(h)
        BY <2>a, <2>2, <2>4, ContactLenAtMost
    <2>6. EncodedLen(msg) = 1 + ContactLen(mine) + ContactLen(theirs)
        <3>1. /\ msg.type = "SharePeerContacts" /\ msg.client_contact = mine
              /\ msg.peer_contact = theirs
            BY <2>1 DEF SharePeerContacts
        <3>. QED
            BY <3>1 DEF EncodedLen
    <2>7. /\ ~((a \/ b) /\ (e \/ f))
          /\ ~((c \/ d) /\ (g \/ h))
        <3>1. \A s, t \in Scopes :
                /\ mine[s]["v6"] = None \/ mine[t]["v4"] = None
                /\ theirs[s]["v6"] = None \/ theirs[t]["v4"] = None
            BY <1>1, <2>1, OneFamilyPerSide DEF Contacts
        <3>. QED
            BY <2>2, <2>4, <3>1 DEF Scopes
    <2>. QED
        BY <2>3, <2>5, <2>6, <2>7 DEF Bit, Fits, BufLen, LengthLen
<1>. QED
    BY <1>1, RInvariance, RoleInvariance, PTL
============================================================================

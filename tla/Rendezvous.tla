---------------------------- MODULE Rendezvous ----------------------------
(***************************************************************************)
(* The rendezvous server together with the clients this repository has:    *)
(* `gday send` and `gday chat` create a room, `gday join` joins one. Each  *)
(* runs ContactSharer (client/contact_sharer.rs) over up to two            *)
(* connections, one per address family (server_connection.rs).             *)
(*                                                                         *)
(* A connection is a pair of a peer and a family. Messages to the server   *)
(* travel through `inbox`; those to the client are read from the outbox of *)
(* the connection's task. The server's own steps are the actions of        *)
(* ConnectionHandler, unchanged.                                           *)
(***************************************************************************)
EXTENDS ConnectionHandler, FiniteSets

CONSTANTS
    Peers,      \* running gday processes
    Creators,   \* those started with `send` or `chat`; the others `join`
    LocalAddr   \* Conns -> local_addr of the client's end of the stream

ASSUME RendezvousAssumption ==
    /\ Conns = Peers \X Families
    /\ Creators \subseteq Peers
    /\ LocalAddr \in [Conns -> Addrs]
    /\ \A p \in Peers, f \in Families :
        Family(LocalAddr[<<p, f>>]) = f /\ Family(PeerAddr[<<p, f>>]) = f

VARIABLES
    clientPc,   \* where each gday process is
    streams,    \* Peers -> the families it has a stream to the server for
    code,       \* Peers -> the room id it works with, or None
    sent,       \* Peers -> how many messengers SendPrivateAddr was sent on
    heard,      \* Peers -> how many replies it has read
    inbox       \* Conns -> messages written by the client and not yet read

clientVars == <<clientPc, streams, code, sent, heard, inbox>>

rVars == <<vars, clientVars>>

(***************************************************************************)
(* connect: in connect_to_server. request, response: in create_room or     *)
(* join_room. send, contacts: in get_peer_connector. connector: a          *)
(* PeerConnector was returned. exited: the process has ended.              *)
(***************************************************************************)
ClientPCs ==
    {"connect", "request", "response", "send", "contacts", "connector",
     "exited"}

\* The streams are closed: ContactSharer is consumed, or the process is gone.
Gone(p) == clientPc[p] \in {"connector", "exited"}

RInit ==
    /\ Init
    /\ clientPc = [p \in Peers |-> "connect"]
    /\ streams = [p \in Peers |-> {}]
    /\ code = [p \in Peers |-> None]
    /\ sent = [p \in Peers |-> 0]
    /\ heard = [p \in Peers |-> 0]
    /\ inbox = [c \in Conns |-> <<>>]

----------------------------------------------------------------------------
\* ServerConnection::get_any_messenger
AnyMessenger(p) == <<p, IF "v6" \in streams[p] THEN "v6" ELSE "v4">>

\* ServerConnection::get_all_messengers
AllMessengers(p) ==
    LET messenger(f) == IF f \in streams[p] THEN <<<<p, f>>>> ELSE <<>>
    IN  messenger("v6") \o messenger("v4")

ClientGoto(p, where) == clientPc' = [clientPc EXCEPT ![p] = where]

Write(c, msg) == inbox' = [inbox EXCEPT ![c] = Append(@, msg)]

\* ServerConnection::new: where the client goes on with the streams it has.
\* Without any it returns NoAddressProvided and the process exits.
ServerConnectionNew(families) == IF families = {} THEN "exited" ELSE "request"

\* connect_to_server keeps the streams that could be opened.
Connect(p) ==
    /\ clientPc[p] = "connect"
    /\ \E families \in SUBSET Families :
        /\ streams' = [streams EXCEPT ![p] = families]
        /\ ClientGoto(p, ServerConnectionNew(families))
    /\ UNCHANGED <<vars, code, sent, heard, inbox>>

\* ContactSharer::join_room, up to the reply. The id is what the user typed.
RequestJoin(p) ==
    /\ clientPc[p] = "request"
    /\ p \notin Creators
    /\ \E r \in RoomIds :
        /\ Write(AnyMessenger(p), [type |-> "JoinRoom", room_id |-> r])
        /\ code' = [code EXCEPT ![p] = r]
    /\ ClientGoto(p, "response")
    /\ UNCHANGED <<vars, streams, sent, heard>>

\* ContactSharer::create_room, up to the reply.
RequestCreate(p) ==
    /\ clientPc[p] = "request"
    /\ p \in Creators
    /\ Write(AnyMessenger(p), [type |-> "CreateRoom"])
    /\ ClientGoto(p, "response")
    /\ UNCHANGED <<vars, streams, code, sent, heard>>

NextReply(p, c) == outbox[c][heard[p] + 1]

\* Messenger::next_msg of the client returns a reply. The client goes on if it
\* is one of those expected. Any other is InvalidServerReply: main exits.
ReadReply(p, c, expected, where) ==
    /\ heard[p] < Len(outbox[c])
    /\ ClientGoto(p, IF NextReply(p, c).type \in expected
                     THEN where ELSE "exited")
    /\ heard' = [heard EXCEPT ![p] = @ + 1]
    /\ UNCHANGED <<vars, streams, sent, inbox>>

\* next_msg fails: the server has closed the connection. Replies that were
\* not read may be lost with it, when the server left data unread.
ReadFails(p, c) ==
    /\ pc[c] = "closed"
    /\ ClientGoto(p, "exited")
    /\ UNCHANGED <<vars, streams, code, sent, heard, inbox>>

\* create_room returns the id of its room, to be passed on to a joiner.
KeepId(p, reply) ==
    code' = [code EXCEPT ![p] =
                IF reply.type = "RoomCreated" THEN reply.room_id ELSE @]

\* Bug: join_room takes any reply for RoomJoined.
ReadResponseUnchecked(p) ==
    LET c == AnyMessenger(p)
    IN  /\ clientPc[p] = "response"
        /\ \/ /\ ReadReply(p, c, {NextReply(p, c).type}, "send")
              /\ KeepId(p, NextReply(p, c))
           \/ ReadFails(p, c)

\* Bug: create_room does not keep the id of the room.
ReadResponseForgetsId(p) ==
    LET c == AnyMessenger(p)
        expected == IF p \in Creators THEN "RoomCreated" ELSE "RoomJoined"
    IN  /\ clientPc[p] = "response"
        /\ \/ ReadReply(p, c, {expected}, "send") /\ UNCHANGED code
           \/ ReadFails(p, c)

\* The reply to create_room or join_room.
ReadResponse(p) ==
    LET c == AnyMessenger(p)
        expected == IF p \in Creators THEN "RoomCreated" ELSE "RoomJoined"
    IN  /\ clientPc[p] = "response"
        /\ \/ /\ ReadReply(p, c, {expected}, "send")
              /\ KeepId(p, NextReply(p, c))
           \/ ReadFails(p, c)

\* get_peer_connector: one turn of the loop over the messengers.
SendPrivateAddr(p) ==
    /\ clientPc[p] = "send"
    /\ sent[p] < Len(AllMessengers(p))
    /\ LET conn == AllMessengers(p)[sent[p] + 1]
       IN  Write(conn, [type |-> "SendPrivateAddr", addr |-> LocalAddr[conn]])
    /\ sent' = [sent EXCEPT ![p] = @ + 1]
    /\ UNCHANGED <<vars, clientPc, streams, code, heard>>

\* get_peer_connector: DoneSending is sent on conns[0] only.
SendDone(p) ==
    /\ clientPc[p] = "send"
    /\ sent[p] = Len(AllMessengers(p))
    /\ Write(AllMessengers(p)[1], [type |-> "DoneSending"])
    /\ ClientGoto(p, "contacts")
    /\ UNCHANGED <<vars, streams, code, sent, heard>>

\* get_peer_connector: the reply, read from conns[0].
ReadContacts(p) ==
    LET c == AllMessengers(p)[1]
    IN  /\ clientPc[p] = "contacts"
        /\ \/ /\ ReadReply(p, c, {"SharePeerContacts"}, "connector")
              /\ UNCHANGED code
           \/ ReadFails(p, c)

\* The process is stopped, or a write or local_addr fails and it exits.
Quit(p) ==
    /\ ~Gone(p)
    /\ ClientGoto(p, "exited")
    /\ UNCHANGED <<vars, streams, code, sent, heard, inbox>>

ClientStep(p) ==
    \/ Connect(p)
    \/ RequestJoin(p)
    \/ RequestCreate(p)
    \/ ReadResponse(p)
    \/ SendPrivateAddr(p)
    \/ SendDone(p)
    \/ ReadContacts(p)

----------------------------------------------------------------------------
\* The task of connection c is given the next message of its client.
Deliver(c) ==
    /\ inbox[c] # <<>>
    /\ Receive(c, Head(inbox[c]))
    /\ inbox' = [inbox EXCEPT ![c] = Tail(@)]
    /\ UNCHANGED <<clientPc, streams, code, sent, heard>>

\* The client has closed the stream. Messages in flight may be lost.
Eof(c) ==
    /\ Gone(c[1]) /\ c[2] \in streams[c[1]]
    /\ Receive(c, ReadError)
    /\ UNCHANGED clientVars

\* The steps of the server that no client message causes.
ServerStep(c) ==
    /\ HandlePrivateAddr(c) \/ HandleContacts(c) \/ Timeout(c)
    /\ UNCHANGED clientVars

RNext ==
    \/ \E p \in Peers : ClientStep(p) \/ Quit(p)
    \/ \E c \in Conns : Deliver(c) \/ Eof(c) \/ ServerStep(c)

RSpec == RInit /\ [][RNext]_rVars

\* Processes are scheduled, messages and ends of stream are delivered, and
\* sleeps end. No client works for ever, so a step of one cannot hold up
\* another's for good: it is enough that the system does not rest too early.
RFairness ==
    WF_rVars(\/ \E p \in Peers : ClientStep(p)
             \/ \E c \in Conns : Deliver(c) \/ Eof(c) \/ ServerStep(c))

RFairSpec == RSpec /\ RFairness
----------------------------------------------------------------------------
RTypeOK ==
    /\ TypeOK
    /\ clientPc \in [Peers -> ClientPCs]
    /\ streams \in [Peers -> SUBSET Families]
    /\ code \in [Peers -> RoomIds \cup {None}]
    /\ sent \in [Peers -> 0..2]
    /\ heard \in [Peers -> 0..2]
    /\ inbox \in [Conns -> Seq(ClientMessage)]
    /\ \A p \in Peers : clientPc[p] \in {"send", "contacts"} => code[p] # None

\* A client that believes it is in a room is in that room for the server too,
\* in the role it was started for, and keeps being so while its messages are
\* on their way, rooms expire and ids are used again.
ClientServerAgree ==
    \A p \in Peers :
        clientPc[p] \in {"send", "contacts"} =>
            LET conn == AllMessengers(p)[1]
            IN  /\ roomId[conn] = code[p]
                /\ isCreator[conn] = (p \in Creators)

\* The address that the server is to record for a scope of this stream.
AddrOf(conn, s) == IF s = "public" THEN PeerAddr[conn] ELSE LocalAddr[conn]

Contacts(r, is_creator) == rooms[r][is_creator].contact

\* Addresses are recorded for the client they belong to, whichever tasks are
\* between their two update_client calls and whichever clients have gone since:
\* each address in a room is that of a stream, in its scope and its family, of
\* a client that works with this room id and was started for this side.
RecordedForItsClient ==
    \A r \in RoomIds, is_creator \in BOOLEAN, s \in Scopes, f \in Families :
        RoomExists(r) /\ Contacts(r, is_creator)[s][f] # None =>
            \E p \in Peers :
                /\ f \in streams[p]
                /\ code[p] = r
                /\ is_creator = (p \in Creators)
                /\ Contacts(r, is_creator)[s][f] = AddrOf(<<p, f>>, s)

V6Contacts(r) ==
    {x \in BOOLEAN \X Scopes : Contacts(r, x[1])[x[2]]["v6"] # None}

ContactsFit(r) ==
    Fits(SharePeerContacts(<<Contacts(r, TRUE), Contacts(r, FALSE)>>))

\* The buffer of a Messenger is long enough for the contacts of two clients, of
\* which one at most uses IPv6, however long their ports are and however far
\* they have come with sending them.
TwoIPv6AddressesFit ==
    \A r \in RoomIds :
        RoomExists(r) /\ Cardinality(V6Contacts(r)) <= 2 => ContactsFit(r)

\* No client waits for ever: each gets a connector or exits, as every request
\* is answered or its connection closed.
ClientsFinish == <>(\A p \in Peers : Gone(p))

\* Nothing is leaked: in the end the task of every connection that was opened
\* has returned, and no room is left, whichever of them went first.
ServerComesToRest ==
    <>[](/\ \A c \in Conns : c[2] \in streams[c[1]] => pc[c] = "closed"
         /\ \A r \in RoomIds : ~RoomExists(r))

AddrsOf(p) == UNION {{LocalAddr[c], PeerAddr[c]} : c \in {p} \X Families}

\* The addresses recorded for one side of a room.
Recorded(r, is_creator) ==
    {rooms[r][is_creator].contact[s][f] : s \in Scopes, f \in Families}
      \ {None}

\* "The known private and public IP addresses of this client" and "A room
\* holds 2 [Client]s" (struct Client, struct Room): the addresses recorded
\* for one side of a room are those of a single client.
OneClientPerSide ==
    \A r \in RoomIds, is_creator \in BOOLEAN :
        RoomExists(r) => \E p \in Peers : Recorded(r, is_creator) \subseteq AddrsOf(p)
============================================================================

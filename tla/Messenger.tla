----------------------------- MODULE Messenger -----------------------------
(***************************************************************************)
(* The messages between client and server and their framing:               *)
(* gday_hole_punch/src/lib.rs. A message is encoded with postcard behind   *)
(* four bytes of length, in a buffer whose size is fixed when the          *)
(* Messenger is made. What decides whether it can be sent is its length;   *)
(* the encoding is modelled by the number of bytes it takes.               *)
(***************************************************************************)
EXTENDS GlobalState

CONSTANT PortLen   \* Addrs -> the bytes that the port of the address takes

\* A port is a u16, encoded as a variable-length integer of seven bits a byte.
ASSUME PortLenAssumption == PortLen \in [Addrs -> 1..3]

ClientMessage ==
    [type : {"CreateRoom", "DoneSending"}]
      \cup [type : {"JoinRoom"}, room_id : RoomIds]
      \cup [type : {"SendPrivateAddr"}, addr : Addrs \cup {None}]

RoomCreated(r) == [type |-> "RoomCreated", room_id |-> r]
RoomJoined == [type |-> "RoomJoined"]
SyntaxError == [type |-> "SyntaxError"]
ErrorNoSuchRoomID == [type |-> "ErrorNoSuchRoomID"]
SharePeerContacts(contacts) ==
    [type |-> "SharePeerContacts", client_contact |-> contacts[1],
     peer_contact |-> contacts[2]]

ServerMessage ==
    {RoomJoined, SyntaxError, ErrorNoSuchRoomID}
      \cup {RoomCreated(r) : r \in RoomIds}
      \cup [type : {"SharePeerContacts"}, client_contact : FullContact,
            peer_contact : FullContact]

----------------------------------------------------------------------------
\* The size both ends give their buffer (Messenger::with_capacity).
BufLen == 68

\* The bytes of the length, at the front of the buffer.
LengthLen == 4

\* The bytes of an IP address.
IpLen(f) == IF f = "v6" THEN 16 ELSE 4

\* An Option is a byte, and the value if there is one: an IP address and a port.
OptionLen(contact, s, f) ==
    IF contact[s][f] = None THEN 1 ELSE 1 + IpLen(f) + PortLen[contact[s][f]]

\* FullContact: private and public, each with an address per family.
ContactLen(contact) ==
    OptionLen(contact, "private", "v6") + OptionLen(contact, "private", "v4")
      + OptionLen(contact, "public", "v6") + OptionLen(contact, "public", "v4")

\* A server message: a byte for the variant, then its fields. A room id is
\* below 2^20, which takes up to three bytes: room enough in any case.
EncodedLen(msg) ==
    CASE msg.type = "RoomCreated" -> 1 + 3
      [] msg.type = "SharePeerContacts" ->
            1 + ContactLen(msg.client_contact) + ContactLen(msg.peer_contact)
      [] OTHER -> 1

\* Bug: the buffer is made for the longest message alone, and the length is
\* taken off that.
FitsShortBuffer(msg) == EncodedLen(msg) <= BufLen - 2 * LengthLen

\* to_slice of write_msg has the buffer behind the length.
Fits(msg) == EncodedLen(msg) <= BufLen - LengthLen
============================================================================

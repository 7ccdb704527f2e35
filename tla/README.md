# A TLA+ model of gday

gday lets two people exchange files and messages directly. A rendezvous server
tells each of them the other's addresses; they connect, authenticate each other
with a short code, and talk over an encrypted stream. This directory holds
TLA+ modules that model the parts of the program in which order, concurrency and
failure matter, TLC configurations that check them on small instances, and
proofs, checked by TLAPS, that hold for every size.

## The system

| part | source | state | operations |
|---|---|---|---|
| shared room state of the server | `gday_hole_punch/src/server/global_state.rs` | the map of rooms behind a mutex, one sleeping `room_timeout` task per `create_room` | `create_room`, `room_exists`, `update_client`, `set_client_done`, the timeout |
| connection handler | `server/connection_handler.rs`, message types in `lib.rs` | one task per connection: room id, role | `start`, `handle_message` |
| accept loop | `server.rs` | the map `blocked`, one sleeping task per served stream | `run`, `serve_client` |
| rendezvous client | `client/contact_sharer.rs`, `server_connection.rs`, `gday/src/main.rs`, `gday/src/server_connector.rs` | up to two streams to the server, the room id | `create_room`, `join_room`, `get_peer_connector` |
| framing | `Messenger` in `lib.rs` | a 68 byte buffer | `next_msg`, `write_msg` |
| peer connector | `client/peer_connector.rs`, `establish_peer_connection` in `main.rs` | up to six connection attempts | `connect_to_peer`, `try_connect`, `try_accept`, `verify_peer` |
| encrypted stream | `gday_encryption/src/` | the buffers of writer and reader, cipher counters | `poll_write`, `poll_flush`, `poll_shutdown`, `poll_read`, `poll_fill_buf`, `consume` |
| chat and files | `gday_chat/src/` | offer and answer, the files in transfer | `creator_run`, `not_creator_run`, `send_files`, `receive_files`, `start_chat` |
| dialogs | `gday_chat/src/file_dialog.rs` | the list of files | `confirm_send`, `confirm_receive` |
| commands and room code | `gday/src/main.rs`, `base32.rs` | the code | `send`, `chat`, `join`; `to_string`, `from_string` |
| server executable | `gday_server/src/main.rs` | none | set-up |

The handlers and the timeouts share the rooms. Two handlers of one room meet
only through it: the second to be done is to wake the first through a oneshot
channel. A client talks to its handlers by messages over one or two TLS
streams. The accept loop hands each stream to a new handler. The contacts a
client gets are the input of the peer connector, whose stream the encrypted
reader and writer wrap for the chat and the files.

What is hard, and what makes each part correct:

* **Rooms.** Every task may run between any two locks of the mutex. Ids are
  used again. Correct: a room lives from its `create_room` until its own timeout
  or the exchange of its contacts; nobody else's timer or message brings it back
  or cuts it short;
  addresses belong to the client they are recorded for; both clients get both
  contacts.
* **Handlers.** Messages come in any order, reads and writes fail, rooms expire
  under a task. Correct: what a client was told fits what its task believes; no
  task waits for ever.
* **Accept loop.** Two threads look up, unlock, and insert later. Correct: no
  address stays blocked; every stream is served or dropped for a reason.
* **Clients.** Two streams to two tasks, no order between them. Correct: client
  and server agree on room and role; every client comes to an end.
* **Encrypted stream.** Partial reads and writes, buffers that run full, an end
  of stream at any byte. Correct: the reader returns what was written, in order,
  and its calls return.
* **Peer connector.** All attempts of both sides run at once, some lead to
  strangers or back to oneself, and each side keeps the first connection that it
  has verified. Correct: only the peer is kept; both keep the same one or find
  out that they do not.
* **Session.** Files and chat are one stream of bytes without marks; either side
  may leave, and files may change under the sender. Correct: every byte ends up
  in the file or the line it belongs to, and nobody waits for ever.
* **Commands.** The walk follows links; numbers are typed by people. Correct: the
  list has the files the user named; a code leads to the room it was shown for.

The full list of hazards, each at its line and with the properties that cover
it, is `hazards` in `PROJECT.json`.

## Modules

| module | models | built on |
|---|---|---|
| `GlobalState` | the rooms, their mutex and their timers | |
| `Messenger` | the messages and the buffer they must fit in | `GlobalState` |
| `ConnectionHandler` | the server with arbitrary clients | `Messenger` |
| `RoomLeases` | abstract: what the server promises about room ids | |
| `Rendezvous` | the server with the clients of this repository | `ConnectionHandler` |
| `AcceptLoop` | the accept loop and its limit per address | |
| `EncryptedStream` | writer, stream and reader | |
| `BytePipe` | abstract: what the encrypted stream promises | |
| `PeerConnector` | two peers that look for a connection | |
| `Session` | two peers with a connection: files and chat | what `BytePipe` states |
| `FileDialog` | `confirm_send` and its walk | |
| `Base32` | the room code, as operators | |
| `CommandLine` | the commands up to the room | `FileDialog`, `Base32` |
| `ConnectionHandlerProofs`, `RendezvousProofs`, `AcceptLoopProofs`, `EncryptedStreamProofs`, `PeerConnectorProofs`, `SessionProofs`, `CommandLineProofs` | the theorems about these modules | the module of that name |
| `DataInduction` | induction and recursion over the natural numbers, for the proofs | |
| `MCConnectionHandler`, `MCRendezvous`, `MCAcceptLoop`, `MCPeerConnector`, `MCSession`, `MCCommandLine` | constants and symmetry for TLC | |

Definitions that begin with a comment `Bug:` are variants of the definition
that follows them, each with one plausible mistake. They are used by no
specification. `PROJECT.json` lists, for every property, a variant that breaks
it when put in place of the original.

### GlobalState and ConnectionHandler

A method of `State` locks the mutex, works and unlocks it, so each is one step.
`create_room` is the exception: when no id is free it draws for ever with the
mutex locked, which `SpinForRoomId` models by setting `lock` for good; every
other step that needs the mutex has `lock = None` as a guard.

Each connection has a task that is at one of its awaits (`pc`): `start` (first
message), `main` (the loop), `private` (between the two `update_client` calls of
`SendPrivateAddr`), `await` (the oneshot). A handler that answers at once is one
step up to the next await or lock: `StartCreateRoom` is `create_room` and the
write of `RoomCreated`, since what comes between concerns this task alone. A
write may fail (`Send`), and so may a read (`ReadError`) and `peer_addr`.
The sender in a room is named by the connection that holds its receiver;
`delivered` is what was sent into a oneshot. `timers[c]` is the room that the
task spawned by the `create_room` call of connection `c` will remove. The
rooms' contacts are functions from scope and family to an address.

`SetClientDone` follows the code to the letter: the caller's own sender is put
into the room and taken out again, and if the peer has none the slot is left
empty. This is the defect that `sender_dropped` reports.

`RoomLeases` states what the server promises about ids: an id is leased to one
connection at a time, and a lease ends when its time is over or when two clients
are told of each other, in one step with the room. The exchange is there although
the defect keeps this commit from it, so that the promise does not rest on the
defect. It was tried on repaired code. With the sender left in the room until the
peer is done, and the timer cancelled by the exchange, the server still
implements `RoomLeases` and keeps its other properties (3 connections, 1 id). With
the sender left and the timer not cancelled it does not: `room_timeout` of the
exchanged room then removes a later room with its id. A repair of line 133 has to
see to the timer as well.

`Messenger` has the sizes of the encoded messages: `Send` succeeds only if the
message fits the 68 byte buffer behind its length. A port takes one to three
bytes, by its value (`PortLen`, `PortLenAssumption`). The instances for TLC use
the longest, those of ports above 16383; the theorems hold for all.

### Rendezvous

A connection is a pair of a peer and an address family. A client connects (each
stream may fail), asks for its room on the IPv6 stream if it has one, sends the
local address of each stream on that stream, then `DoneSending` on the first,
and reads one reply. It may exit at any time. The tasks get its messages in the
order of each stream, and the end of the stream once it is gone; messages in
flight may then be lost. A joiner may type any id: its peer's, that of an
expired room, or a wrong one. The server's steps are those of
`ConnectionHandler`. It is assumed that a stream's addresses are of its family
(`RendezvousAssumption`), which holds for the streams `server_connector::connect`
makes.

### AcceptLoop

A stream is in the loop (`loop`), parked in the map (`waiting`), taken out of
it by a task that woke up (`taken`), or past `serve_client`. From `loop` and
`taken`, `ServeClient` locks the map a second time: the window in which the
other side can act. `arrived` numbers the accepted streams; it is there for the
properties only.

### EncryptedStream

Bytes are numbered as they are written. A chunk is a length, bytes and a tag,
of the sizes given by the constants. The reader's buffers are records of the
data and of the cursor before it, since the room that consumed data takes up
decides when a buffer is full. Each turn of a loop of the reader is a step. At
an end of the stream with data buffered, the loop repeats without effect; this
is the state `spin`. Decryption errors and errors of the inner writer are left
out. `ImplementsPipe` shows that all this is, to the two applications, the pipe
of `BytePipe`: bytes in order, none missing before the end is reported if they
were flushed.

### PeerConnector

`attempt` is where each future of `connect_to_peer` is, `conn` the TCP
connections with their two ends. A connection comes from a dial that reaches the
peer's listener, the peer's dial in the other direction (simultaneous open), the
caller's own listener, or a stranger, as the address allows (`Reaches`); a
listener holds others in its backlog while it verifies one. `verify_peer` writes
before it reads, and its writes are small, so that its steps are its two reads;
the nonces of the encrypted streams follow in the same way. A read from an end
that was closed gives what was written before or fails, since the kernel may
reset the connection. SPAKE2 is ideal: the keys of the ends of a connection are
equal if and only if the secrets are, and a stranger can at best send back what
it got. One address family is modelled; a second would add a listener and dials
of the same kind. With this commit no peer ever gets the contacts this part
starts from (see `sender_dropped`): it is modelled as it works once they are
given.

### Session

`pc` follows `creator_run` and `not_creator_run`. `pipe[p]` are the bytes on
their way to `p`, of which the creator's writer holds the last `held` back until
a chunk is full or it flushes: this is the part of `BytePipe` that matters here.
`tokio::io::copy` flushes at the end of a file and whenever the file is slow.
A line, like each of the two messages, is one byte. The files a side has
still to copy are `sendQ` and `recvQ`, by their place in the offer; each side
makes its own list from the answer (`Accepted`). `saved` is the joiner's folder,
byte by byte, so that bytes out of place show. A side whose peer is gone fails,
reaches the end of the stream, or spins in the reader (`reader_at_eof`). Either
side may leave at any time (`Quit`), which also stands for a file that cannot be
opened or created. `changed` and `before` are there for the properties only.

### FileDialog, Base32 and CommandLine

The file system is a tree whose nodes are directories, files and links, some of
which cannot be opened; a link leads to the node it resolves to or nowhere. The
recursion of `get_file_metadatas_helper` is a stack of calls, each with the
directories it is in the middle of: a call for one of these again is the
recursion that does not end. It keeps a directory open at every level, and ends
with an error of `read_dir` at the limit on open files or with an overflow of the
stack, whichever comes first. The entries of a directory come in any order, as
`read_dir` leaves it open. The root directory itself is neither given nor linked
to (`FileDialogAssumption`: finitely many nodes, and `Nowhere` is none of them).

`Base32` takes base and width as parameters. TLC uses digits of two bits and
numbers of five: as in the program, the last digit with a place value may be too
large, and the next one to its left has none. A build with overflow checks panics there
and one without wraps; `checked` stands for either.

## Runs

| run | instance | checks |
|---|---|---|
| `server` | 3 connections, 2 ids, one address per family | `TypeOK`, `OneTimerPerRoom`, `ConversationOK`, `RoomsBornEmpty`, `ImplementsLeases` |
| `rendezvous` | a creator and a joiner with 2 streams each, 2 ids | `RTypeOK`, `ClientServerAgree`, `RecordedForItsClient`, `TwoIPv6AddressesFit`, `ClientsFinish`, `ServerComesToRest` |
| `accept` | 4 streams of one address | `TypeOK`, `BlockedHasSleeper`, `WaitingIsNewest`, `WaitingLostToNewerOrTaken`, `AcceptedSettles` |
| `stream` | chunks of 2 bytes, 4 bytes, 2 flushes | `TypeOK`, `BytesConserved`, `WrapNeverPanics`, `FalseMeansData`, `ImplementsPipe`, `FlushedArrives` |
| `peers` | 2 addresses, 2 connections at a time | `TypeOK`, `KeptIsThePeer`, `SharedByBoth`, `MeetingSettles` |
| `session` | offers of up to 3 files of up to 2 bytes, 2 lines each way | `TypeOK`, `SavedIsPrefix`, `FilesIntact`, `ChatFaithful`, `SendEnds`, `ReceiveEnds`, `LinesArrive` |
| `command_line` | every tree of 4 nodes with up to 2 links, 2 paths; parts of up to 4 letters | `TypeOK`, `ListedOnce`, `PublicPathsDiffer`, `CrashNeedsLink`, `CodeRoundTrip`, `TypedOrTooLong` |
| `rooms_exhausted` | 2 connections, 1 id | `RoomsExpire` **fails** |
| `sender_dropped` | 2 connections, 2 ids | `DoneClientHasSender` **fails** |
| `two_joiners` | a creator and two joiners, 1 id | `OneClientPerSide` **fails** |
| `reader_at_eof` | 1 byte | `ReadReturns` **fails** |
| `option_two` | as `session` | `OptionTwoAcceptsNewOnly` **fails** |

The bounds. Three connections are a creator, a joiner, and a third that joins
too, creates a second room or takes the id of an expired one; with two ids they
can also run out. In the rendezvous, a creator and a joiner with two streams
each are four tasks; with two ids the joiner's is right, wrong or expired. Streams of
different addresses share nothing but the map; four streams of
one address are the fewest with which one is parked while an older one is
between the map and `serve_client`. The sizes of `stream` are the
smallest at which a chunk finds no room in the cleartext, the ciphertext buffer
is full behind it, and a full buffer is wrapped; all three were confirmed to be
reached. The ratio of the real sizes is kept: header, payload and tag fill
`MAX_CHUNK_SIZE`, and the ciphertext buffer is twice that. The bounds
`MaxWritten` and `MaxFlushes` end the run only, no guard of the code has them.
Two connections at a time are enough for the two sides to keep different ones,
and for one of them to lead elsewhere; they are used again once closed, so that
attempts follow each other without limit. The offers of `session` have two files
of the same path and an empty one, the folder has a file that is new, one that
is there and one of another length, and the pipe is shorter than a file, so that
the sender waits for the receiver; `PipeCap`, `MaxSize` and `MaxLines` are its
bounds. Four nodes are the fewest for a link that leads out of the directory of
a given path; that crashes, doubled files and doubled public paths do occur was
confirmed.

Deadlock is not checked: there are finitely many connections, streams or bytes,
and once they are used the system rests.

Fairness. The server's tasks that can go on do, and sleeps end (the runtime
polls woken tasks); no client of `ConnectionHandler` need send anything. In
`Rendezvous` the processes run and TCP delivers, or reports the end. In
`AcceptLoop` nothing is assumed of clients or of the TLS handshake, which has no
time limit. In `EncryptedStream` calls that can go on do and the application
goes on reading; nothing makes it write. In `PeerConnector` a read that has
something to read, or whose other end is closed, returns; nothing makes a dial
succeed, an accept return or a stranger answer. In `Session` each process goes on
when it can, and one whose peer is gone notices in the end (or spins); nothing
makes a user answer, type or quit. `CommandLine` has no liveness.

### What the failing runs show

* `sender_dropped`: `set_client_done` (line 133) drops the sender of the first
  client to be done, against the comment on `Client.sender`. Its task returns at
  once, and so does the other's: with this commit no two clients can ever learn
  each other's addresses.
* `rooms_exhausted`: with all ids in use `create_room` (line 72) holds the mutex
  for ever, and no room is removed any more.
* `two_joiners`: the room mixes the addresses of two joiners (`start`, line 31).
* `reader_at_eof`: `read_if_necessary` (line 121) loops for ever when the stream
  ends while data is buffered.
* `option_two`: the answers that `confirm_receive` (line 24) gives for option 2
  are too few and all true, and accept the first files of the offer instead of
  the new ones.

Three further disagreements with the comments came up, for which no run of their
own is kept; each was confirmed by stating the opposite to TLC.

* A task keeps the bare id of its room. When the room has expired and the id was
  drawn again, `update_client` (line 110 of the handler) puts the address of the
  old creator into the creator's side of the new room. `OneClientPerSide` of
  `two_joiners` fails in this way too, with two creators, one joiner and one id.
* A client that has both families sends `SendPrivateAddr` on both streams (line 67
  of `contact_sharer.rs`), but has requested its room on the first only. The server
  refuses the second with `SyntaxError`, and the client does not read it: its
  IPv4 addresses are never recorded, although "An endpoint may have IPv6, IPv4,
  none, or both" (line 74 of `lib.rs`).
* The contacts of two clients with IPv6, each with a private and a public address,
  do not fit the 64 bytes that `write_msg` has for a message (line 120), whatever
  the ports are. `FourIPv6DoNotFit` proves it.

Some properties that hold are limited by what the code does not do, and the
limit is named in them. `FilesIntact` holds only while the creator lives: if it
dies, the receiver truncates the files that are left and goes on to chat, and
only `SavedIsPrefix` is left. `ReceiveEnds` allows for a reader that spins at the
end of the stream (`reader_at_eof`), but only once the creator is gone.
`MeetingSettles` is about connections that both sides have taken up: one in the
backlog behind a silent stream may wait for ever. `ReceiveEnds` and `ChatFaithful`
hold only if no file has changed since the offer: a shorter one makes the receiver
wait and swallow lines of the chat, a longer one shows up in it. `CrashNeedsLink` and
`ListedOnce` say what links can do to the walk, `PublicPathsDiffer` when offered
files overwrite each other, and `TypedOrTooLong` which codes are misread.
`WaitingLostToNewerOrTaken` bounds a race of the accept loop: a waiting
stream can be dropped although no newer one came, but only by a task that has
just taken an older stream out of the map.

## Proofs

TLC checks an instance; the theorems below hold for every value of the
constants that satisfies the named assumptions of the modules. They state the
properties of the runs, under the specifications the runs use (without their
fairness, which safety does not need). Where an inductive invariant is more than
the property, its part is told below; those of `ConnectionHandlerProofs`,
`SessionProofs` and `CommandLineProofs`, and `RoleInv` of `RendezvousProofs`, were
checked by TLC on the instances of the runs before they were proved. Every
invariant, every action property and both refinements of the passing runs are
stated by a theorem.

### The server: `ConnectionHandlerProofs`

For any connections, room ids and addresses (`NoneAssumption`: `None` is not one
of them; `AddrAssumption`, `PeerAddrAssumption`, `PortLenAssumption`: IPv6
addresses are addresses, every connection has one and a port has up to three
bytes):

| theorem | states |
|---|---|
| `TypeCorrect` | `Spec => []TypeOK` |
| `TimersMatchRooms` | `Spec => []OneTimerPerRoom` |
| `BirthOfRooms` | `Spec => RoomsBornEmpty` |
| `LeasesImplemented` | `Spec => Leases!Spec`: the server refines `RoomLeases` |
| `ConversationsKept` | `Spec => []ConversationOK` |
| `FourIPv6DoNotFit` | no message with four IPv6 addresses fits the buffer, whatever their ports |

`TypeOK` is inductive. `OneTimerPerRoom` is not: an exchange removes a room and
leaves its timer, and a second `create_room` on a connection would overwrite its
timer. The inductive invariant `IInv` therefore adds `SendersEmpty` (no sender
outlives the `set_client_done` call that made it), `NothingDelivered` (so no exchange
happens in this commit) and `StartHasNoTimer` (a connection that has not had its first message has no timer).
`StepKinds` is the heart of the argument: every step grants a room, lets one
expire, or keeps all rooms and timers, and in each case keeps the senders empty. The timers, the action property and the
refinement follow from these three cases. `ConversationInv` says of each
connection how its replies fit the place its task is at; it is inductive with the
types, one connection at a time.

### Server and clients: `RendezvousProofs`

For any number of clients with up to two streams each (`RendezvousAssumption`):

| theorem | states |
|---|---|
| `ClientsAreClients` | `RSpec => Spec`: the composed system refines `ConnectionHandler`, so its theorems hold of it |
| `RTypeCorrect` | `RSpec => []RTypeOK` |
| `ClientAndServerAgree` | `RSpec => []ClientServerAgree` |
| `AddressesOfItsClients` | `RSpec => []RecordedForItsClient` |
| `TwoIPv6Fit` | `RSpec => []TwoIPv6AddressesFit`, if `OneClientPerRole` |

`ClientInv` follows a client through its request: `Asked` (the request is in the
stream), `Answered` (the task has read it, and a reply that is not an error
means the room asked for), `Agreed`. The second stream is `Idle`: nothing but
private addresses is ever on it, and its task ends at the first one.

For the addresses, `RoleInv` adds three things. A task in a room has the role of
its client even after the client has gone (`InRole`, which follows the requests
under way). Once an address is on its way, the room of the task is that of the
client, which does not change its room any more (`InRoomOf`, `Past`). And every
address in a room has an owner, a client with this room and role whose first
stream has this address (`RoomsHold`). A task stores what it was sent, between two
steps of which anything may happen; no step of a client takes an owner away
(`PastStays`). The theorem is about ids, as the code is: that the room of an id may
be a later one is said under the failing runs.

With one creator and one joiner (`OneClientPerRole`) a side is of one family, and
counting gives the bound on the size of the contacts. The hypothesis is needed: two
joiners, which nothing prevents (`two_joiners`), can leave two IPv6 and three IPv4
addresses, whose message may be too long. Beyond two IPv6 addresses it depends on
the ports: three fit with ports below 16384 and not with longer ones, and four
never do (`FourIPv6DoNotFit`).

### The accept loop: `AcceptLoopProofs`

For any streams and addresses, infinite sets included (`StreamAssumption`):

| theorem | states |
|---|---|
| `TypeCorrect` | `Spec => []TypeOK` |
| `NobodyBlockedForGood` | `Spec => []BlockedHasSleeper` |
| `NewestWaits` | `Spec => []WaitingIsNewest` |
| `WhoLosesTheWait` | `Spec => WaitingLostToNewerOrTaken` |

The map is unlocked between the look-up and `serve_client`. What holds across
that window is `LoopFindsNone`: nobody is parked at the address of the stream
that the loop is at, since only the loop parks. `ArrivalsCounted` makes the
arrival numbers grow.

### The peer connector: `PeerConnectorProofs`

For any addresses to dial, whoever answers there, and any number of connections
(`ConnectorAssumption`):

| theorem | states |
|---|---|
| `TypeCorrect` | `Spec => []TypeOK` |
| `KeptOnlyFromThePeer` | `Spec => []KeptIsThePeer` |
| `SessionIsShared` | `Spec => []SharedByBoth` |

The invariant says what a side that keeps a connection knows of the other end
(`KeeperVerified`: it is the peer, with the same secret, and has sent its code)
and that a nonce is sent only on a connection that is kept (`NonceMeansKept`):
who has read one shares the connection with a peer that keeps it.
`OneStreamPerAttempt` keeps two streams of one future apart.

### The encrypted stream: `EncryptedStreamProofs`

For every size of chunk, header, tag and stream in which a chunk holds at least
one byte (`SizeAssumption`):

| theorem | states |
|---|---|
| `TypeCorrect` | `Spec => []TypeOK` |
| `NeverPanics` | `Spec => []WrapNeverPanics` |
| `FalseHasData` | `Spec => []FalseMeansData` |
| `StreamIsPipe` | `Spec => ImplementsPipe`: writer, stream and reader refine `BytePipe` |
| `NothingLost` | `Spec => []BytesConserved` |

The bytes between writer and reader may end in the middle of a chunk at either
side. `IInv` says that there is a function `F` on the places where chunks begin
(`Chunked`): `F[b]` is how many bytes of the application come before place `b`,
each chunk leads from one such place to the next, and its bytes are numbered on
from there. Reading a chunk shifts `F`, sending one extends it. `NeverPanics`
follows: a ciphertext buffer that is full behind its data and has no whole chunk
has room before its data, as the buffer is two chunks long. For `NothingLost`,
`Payload` picks the bytes of the application out of the stream by recursion on
its length. Inductions show that it is the payload of a beginning followed by
that of the rest (`PayloadConcat`), all of the bytes of a chunk (`PayloadAll`) and
nothing of a header or a tag (`PayloadNone`). A step then moves bytes from one part
of the sum to the next, `IInv` telling which bytes stand where.

### Files and chat: `SessionProofs`

For any offer, folder, size of file, chunk and pipe, and number of lines
(`SessionAssumption`: an offer is a list of `FileMeta`, a chunk is not empty and
shorter than the pipe):

| theorem | states |
|---|---|
| `TypeCorrect` | `Spec => []TypeOK` |
| `NoMixing` | `Spec => []SavedIsPrefix` |
| `ReceivedWhole` | `Spec => []FilesIntact` |
| `LinesInOrder` | `Spec => []ChatFaithful` |

Nothing in the stream marks the end of a file; both sides count. `Ends` has the
places at which the accepted files end in the stream, `InPlace` says which byte
stands at a place. Three facts are kept as long as no file changes (`Honest`):
every byte under way is in place, the place the joiner has read to and the one
the creator has written to are as far apart as the pipe is long (`Stream`), and
each side is at its own end of the same list (`SendSide`, `ReceiveSide`). A byte
that is read then belongs to the file at hand (`InFile`) or is the next line
(`AfterFiles`). `copy_buf` also returns at the end of the stream: that a file is
then whole unless the creator was cut off is `ReceiveNextHonest` (a creator that
has come to its chat has written up to the end of the last file, and what it held
back is flushed). `Base` is what holds even if files change: the phases of the
two sides, and the lines that the creator reads.

`Accepted` and `FileEnds` are recursive functions. The induction theorems of the
library take the statement as a parameter, which the provers cannot instantiate.
`DataInduction` states induction about a set instead (a set of numbers that has 0
and with each number the next has them all), from the well-foundedness of `<`;
`SessionProofs` uses it to show that the recursions have a solution
(`LeftExists`, `EndExists`) and what it is (`LeftLists`: the accepted files in the
order of the offer; `EndsAreEnds`).

### The commands: `CommandLineProofs`

For every finite file system with any links, any number of paths and any order of
directory entries (`FileDialogAssumption`); for every base above 1 and every width
(`Base32Assumption`); for any codes (`CommandLineAssumption`):

| theorem | states |
|---|---|
| `TypesCorrect` | `Spec => []TypeOK` |
| `EveryFileOnce` | `Spec => []ListedOnce` |
| `CrashesNeedLinks` | `Spec => []CrashNeedsLink` |
| `PublicPathsClash` | `Spec => []PublicPathsDiffer` |
| `CodesRoundTrip` | `Spec => []CodeRoundTrip` |
| `JoinsTheRoomTyped` | `Spec => []TypedOrTooLong` |

The walk. `WalkOK` relates the calls still to come with the files found: every
file below a given path that can be opened is found or below a call
(`AllPending`); a file found is not below a call, and nothing is below two calls,
unless a link leads there (`NotAgain`, `CallsApart`); a call is for a node below a
given path or where a link leads, and the directories being read are those the
node is in, unless a link leads to a directory (`CallOK`). A call that is replaced
by calls for the entries of its directory keeps all this, since what is in a
directory is in exactly one of its entries.
`PathTo` and `PublicPath` are recursions up the tree; they have a solution because
a node comes after its directory (`StrongInduction` and `Recursion` of
`DataInduction`), and two files at one public path below one directory are the
same file.

The code. `str_to_u32` goes from the right and `ValueOf` from the left. After `i`
turns that fail nowhere the loop has come to what the last `i` digits stand for:
`v[n] - v[n-i] * Base^i`, where `v` is the value from the left and `n` the length
(`TurnsOK`). For the round trip, the digits that `u32_to_str` makes are as many as
are needed (`DigitsOf`), all have a place value, and stand for the number, so no
turn overflows.

Two attempts that failed changed the model. `PublicPathsDiffer` used to say that
two given paths of one name are needed for a clash. TLC agreed for four nodes, but
it is false from five on: of two given directories, one may have a link in it
that leads to the file beside it, whose public path may be that of a file in
the other. The property now says so. And `AddDigit` was a CASE whose guards
overlap, of which TLC takes the first and TLA+ says nothing; it now takes the
conditions in the order of the code.

### Only model-checked

Liveness, which is out of the prover's reach: `ClientsFinish`,
`ServerComesToRest`, `AcceptedSettles`, `FlushedArrives`, `MeetingSettles`,
`SendEnds`, `ReceiveEnds`, `LinesArrive`. The properties of the runs that fail
are refuted by TLC and have no theorem.

## Not modelled, and what is left

Not modelled: TLS set-up and argument parsing (their outcome is a choice), the
texts of the prompts, progress bars and the terminal (output only), the
cryptography itself (ideal), `State.block`, `State.blocked_timeout` and
`get_local_contact` (never called), `gday_server/src/main.rs` (it reads
certificates, binds and calls `run`: no state of its own). Of the encrypted
stream: decryption errors, which a reliable stream between honest peers does not
have, a failing inner writer, and the 31 bit chunk counter.

What is left: a model of decryption errors and of a failing inner writer in the
encrypted stream, with what the two applications then see; and `AcceptLoop` with
the handlers behind it, which it now leaves abstract.

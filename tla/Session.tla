------------------------------ MODULE Session ------------------------------
(***************************************************************************)
(* What two peers do with their connection (gday_chat): the creator of the *)
(* room offers files, the joiner picks some of them, they are copied one   *)
(* after the other as bare bytes, and both sides chat. Nothing in the      *)
(* stream says where a file ends or the chat begins: each side counts.     *)
(*                                                                         *)
(* A stream is what BytePipe promises of EncryptedStream: bytes come in    *)
(* order, those not flushed stay in the writer until a chunk is full, and  *)
(* are lost when it goes. A reader whose peer is gone sees an error, the   *)
(* end, or spins for ever (run reader_at_eof).                             *)
(***************************************************************************)
EXTENDS Naturals, Sequences, FiniteSets

CONSTANTS
    Paths,      \* FileMeta.path, which is public_path of the sender's file
    Offers,     \* the lists of files that confirm_send may return, or None
    Befores,    \* what the joiner's folder may hold at first
    MaxSize,    \* bound: bytes in a file
    ChunkSize,  \* bytes the writer holds back
    PipeCap,    \* bytes under way that make a writer wait
    MaxLines,   \* bound: lines a side types
    None,       \* FileOffer(None): the command is chat
    Absent      \* there is no such file

FileMeta == [path : Paths, size : 0..MaxSize]

\* A byte of an old file, byte n of offered file i, or a line of the chat,
\* which counts as one byte. The two messages are as good as one byte too.
Old(n) == <<"old", 0, n>>
Byte(i, n) == <<"file", i, n>>
Line(n) == <<"line", 0, n>>
FileOffer == <<"offer", 0, 0>>
FileAccept == <<"accept", 0, 0>>

Content == {[n \in 1..m |-> Old(n)] : m \in 0..MaxSize}

ASSUME SessionAssumption ==
    /\ Offers \ {None} \subseteq Seq(FileMeta)
    /\ Befores \subseteq [Paths -> Content \cup {Absent}]
    /\ {MaxSize, MaxLines} \subseteq Nat
    /\ ChunkSize \in Nat \ {0} /\ PipeCap \in Nat /\ ChunkSize < PipeCap

Peers == {"creator", "joiner"}
Other(p) == CHOOSE q \in Peers : q # p

VARIABLES
    offer,    \* files of creator_run, or None
    disk,     \* the present length of each of these files
    changed,  \* history: a length is not the offered one
    before,   \* history: the joiner's folder at first
    saved,    \* the joiner's folder
    pc,       \* where each side is
    option,   \* what the joiner answered, or 0
    chosen,   \* the answer in FileAccept
    sendQ,    \* files_to_send, from the one at hand on
    sentN,    \* how much of it has been copied
    recvQ,    \* files_to_receive, from the one at hand on
    created,  \* File::create was called for it
    pipe,     \* Peers -> the bytes on their way to it
    held,     \* how many of those to the joiner the writer holds back
    said,     \* Peers -> lines typed
    heard     \* Peers -> lines shown

vars == <<offer, disk, changed, before, saved, pc, option, chosen, sendQ,
          sentN, recvQ, created, pipe, held, said, heard>>

sendVars == <<sendQ, sentN>>
recvVars == <<saved, option, chosen, recvQ, created>>
chatVars == <<said, heard>>
envVars == <<offer, disk, changed, before>>

PCs == {"offer", "reply", "send", "dialog", "receive", "chat",
        "stuck", "aborted", "ended"}

\* aborted: the process has ended before the chat. ended: since.
Gone(p) == pc[p] \in {"aborted", "ended"}

Goto(p, where) == pc' = [pc EXCEPT ![p] = where]

\* The joiner finds a file of that name and length in its folder: file_exists.
FileExists(folder, meta) ==
    folder[meta.path] # Absent /\ Len(folder[meta.path]) = meta.size

----------------------------------------------------------------------------
Init ==
    /\ offer \in Offers
    /\ disk = IF offer = None THEN <<>>
              ELSE [i \in DOMAIN offer |-> offer[i].size]
    /\ changed = FALSE
    /\ before \in Befores /\ saved = before
    /\ pc = [p \in Peers |-> "offer"]
    /\ option = 0 /\ chosen = <<>>
    /\ sendQ = <<>> /\ sentN = 0
    /\ recvQ = <<>> /\ created = FALSE
    /\ pipe = [p \in Peers |-> <<>>] /\ held = 0
    /\ said = [p \in Peers |-> 0] /\ heard = [p \in Peers |-> <<>>]

\* p writes one byte to the other side and flushes.
WriteFlushed(p, byte) ==
    /\ Len(pipe[Other(p)]) < PipeCap
    /\ pipe' = [pipe EXCEPT ![Other(p)] = Append(@, byte)]
    /\ held' = IF p = "creator" THEN 0 ELSE held

\* Bug: a chunk that is full is not sent.
WriteHolding(byte) ==
    /\ Len(pipe["joiner"]) < PipeCap
    /\ pipe' = [pipe EXCEPT !["joiner"] = Append(@, byte)]
    /\ held' = held + 1

\* The creator writes one byte. A chunk that is full goes out with the next.
Write(byte) ==
    /\ Len(pipe["joiner"]) < PipeCap
    /\ pipe' = [pipe EXCEPT !["joiner"] = Append(@, byte)]
    /\ held' = IF held = ChunkSize THEN 1 ELSE held + 1

\* There is something to read for p.
Arrived(p) == Len(pipe[p]) > IF p = "joiner" THEN held ELSE 0

\* p reads one byte.
Read(p) ==
    /\ Arrived(p)
    /\ pipe' = [pipe EXCEPT ![p] = Tail(@)]
    /\ UNCHANGED held

\* Bug: a stream that has nothing at the moment is taken to be at its end.
AtEofWhenEmpty(p) == ~Arrived(p)

\* p reads the end of the stream.
AtEof(p) == Gone(Other(p)) /\ ~Arrived(p)

\* The process of p ends; what its writer holds back is lost.
Leave(p) ==
    /\ Goto(p, IF pc[p] = "chat" THEN "ended" ELSE "aborted")
    /\ IF p = "creator"
       THEN /\ pipe' = [pipe EXCEPT !["joiner"] = SubSeq(@, 1, Len(@) - held)]
            /\ held' = 0
       ELSE UNCHANGED <<pipe, held>>

----------------------------------------------------------------------------
\* creator_run: the offer is written. Without files the chat begins.
OfferFiles ==
    /\ pc["creator"] = "offer"
    /\ WriteFlushed("creator", FileOffer)
    /\ Goto("creator", IF offer = None THEN "chat" ELSE "reply")
    /\ UNCHANGED <<envVars, recvVars, sendVars, chatVars>>

\* not_creator_run: the offer is read.
ReadOffer ==
    /\ pc["joiner"] = "offer"
    /\ Read("joiner")
    /\ Goto("joiner", IF offer = None THEN "chat" ELSE "dialog")
    /\ UNCHANGED <<envVars, recvVars, sendVars, chatVars>>

\* The files that zip and filter leave, by their place in the offer.
Accepted(files, answer) ==
    LET left[n \in 0..Len(files)] ==
            IF n = 0 THEN <<>>
            ELSE IF n \in DOMAIN answer /\ answer[n]
                 THEN Append(left[n - 1], n)
                 ELSE left[n - 1]
    IN  left[Len(files)]

\* new_files of confirm_receive: a yes for each file that is new, and nothing
\* for the others.
NewFiles ==
    LET new == {i \in DOMAIN offer : ~FileExists(saved, offer[i])}
    IN  [n \in 1..Cardinality(new) |-> TRUE]

\* confirm_receive: what the user answers, 1 standing for all but 2 and 3.
Choice(n) ==
    CASE n = 2 -> NewFiles
      [] n = 3 -> [i \in DOMAIN offer |-> TRUE]
      [] OTHER -> [i \in DOMAIN offer |-> FALSE]

\* The user answers; the answer is sent.
ConfirmReceive(n) ==
    /\ pc["joiner"] = "dialog"
    /\ option' = n
    /\ chosen' = Choice(n)
    /\ recvQ' = Accepted(offer, Choice(n))
    /\ WriteFlushed("joiner", FileAccept)
    /\ Goto("joiner", "receive")
    /\ UNCHANGED <<envVars, saved, created, sendVars, chatVars>>

\* Bug: the answer is not looked at.
ReadAcceptUnfiltered ==
    /\ pc["creator"] = "reply"
    /\ Read("creator")
    /\ sendQ' = [i \in DOMAIN offer |-> i]
    /\ Goto("creator", "send")
    /\ UNCHANGED <<envVars, recvVars, sentN, chatVars>>

\* The answer is read.
ReadAccept ==
    /\ pc["creator"] = "reply"
    /\ Read("creator")
    /\ sendQ' = Accepted(offer, chosen)
    /\ Goto("creator", "send")
    /\ UNCHANGED <<envVars, recvVars, sentN, chatVars>>

----------------------------------------------------------------------------
\* send_files: a byte of the file at hand is copied.
SendByte ==
    /\ pc["creator"] = "send" /\ sendQ # <<>>
    /\ sentN < disk[Head(sendQ)]
    /\ Write(Byte(Head(sendQ), sentN + 1))
    /\ sentN' = sentN + 1
    /\ UNCHANGED <<envVars, recvVars, pc, sendQ, chatVars>>

\* tokio::io::copy flushes when the next bytes of the file are not there yet.
CopyFlushes ==
    /\ pc["creator"] = "send" /\ sendQ # <<>> /\ held > 0
    /\ held' = 0
    /\ UNCHANGED <<envVars, recvVars, pc, sendVars, pipe, chatVars>>

\* The end of that file as it is now, whatever was offered. copy flushes.
SendNext ==
    /\ pc["creator"] = "send" /\ sendQ # <<>>
    /\ sentN >= disk[Head(sendQ)]
    /\ sendQ' = Tail(sendQ) /\ sentN' = 0
    /\ held' = 0
    /\ UNCHANGED <<envVars, recvVars, pc, pipe, chatVars>>

\* All are sent, and flushed; the chat begins.
SendDone ==
    /\ pc["creator"] = "send" /\ sendQ = <<>>
    /\ held' = 0
    /\ Goto("creator", "chat")
    /\ UNCHANGED <<envVars, recvVars, sendVars, pipe, chatVars>>

\* receive_files: what is at its path is gone.
CreateFile ==
    /\ pc["joiner"] = "receive" /\ recvQ # <<>> /\ ~created
    /\ saved' = [saved EXCEPT ![offer[Head(recvQ)].path] = <<>>]
    /\ created' = TRUE
    /\ UNCHANGED <<envVars, pc, option, chosen, recvQ, sendVars, pipe, held,
                   chatVars>>

\* The file at hand.
Receiving == offer[Head(recvQ)]

\* Bug: one byte too many is taken.
AllTakenLate == Len(saved[Receiving.path]) = Receiving.size + 1

\* reader.take(meta.size) has no more to give.
AllTaken == Len(saved[Receiving.path]) = Receiving.size

\* A byte is copied, whatever it is.
ReceiveByte ==
    /\ pc["joiner"] = "receive" /\ created
    /\ ~AllTaken
    /\ Read("joiner")
    /\ saved' = [saved EXCEPT ![Receiving.path] =
                                Append(@, Head(pipe["joiner"]))]
    /\ UNCHANGED <<envVars, pc, option, chosen, recvQ, created, sendVars,
                   chatVars>>

\* Bug: an empty file waits for a first byte.
ReceiveNextNotEmpty ==
    /\ pc["joiner"] = "receive" /\ created
    /\ (AllTaken /\ Receiving.size > 0) \/ AtEof("joiner")
    /\ recvQ' = Tail(recvQ) /\ created' = FALSE
    /\ UNCHANGED <<envVars, pc, saved, option, chosen, sendVars, pipe, held,
                   chatVars>>

\* copy_buf returns: the size is reached, or the stream has ended. The loop
\* goes on to the next file in either case.
ReceiveNext ==
    /\ pc["joiner"] = "receive" /\ created
    /\ AllTaken \/ AtEof("joiner")
    /\ recvQ' = Tail(recvQ) /\ created' = FALSE
    /\ UNCHANGED <<envVars, pc, saved, option, chosen, sendVars, pipe, held,
                   chatVars>>

\* All are received; the chat begins.
ReceiveDone ==
    /\ pc["joiner"] = "receive" /\ recvQ = <<>>
    /\ Goto("joiner", "chat")
    /\ UNCHANGED <<envVars, recvVars, sendVars, pipe, held, chatVars>>

----------------------------------------------------------------------------
\* Bug: the line is not flushed.
TalkUnflushed(p) ==
    /\ pc[p] = "chat" /\ said[p] < MaxLines
    /\ said' = [said EXCEPT ![p] = @ + 1]
    /\ IF p = "creator" THEN Write(Line(said[p] + 1))
                        ELSE WriteFlushed(p, Line(said[p] + 1))
    /\ UNCHANGED <<envVars, recvVars, sendVars, pc, heard>>

\* chat_talk: the user types a line, which is sent.
Talk(p) ==
    /\ pc[p] = "chat" /\ said[p] < MaxLines
    /\ said' = [said EXCEPT ![p] = @ + 1]
    /\ WriteFlushed(p, Line(said[p] + 1))
    /\ UNCHANGED <<envVars, recvVars, sendVars, pc, heard>>

\* chat_listen: a line is read and shown. What is left of a file is taken for
\* a line.
Listen(p) ==
    /\ pc[p] = "chat"
    /\ Read(p)
    /\ heard' = [heard EXCEPT ![p] = Append(@, Head(pipe[p]))]
    /\ UNCHANGED <<envVars, recvVars, sendVars, pc, said>>

\* What is left of a file is not UTF-8, and next_line fails.
NotUtf8(p) ==
    /\ pc[p] = "chat"
    /\ Arrived(p) /\ Head(pipe[p])[1] = "file"
    /\ Leave(p)
    /\ UNCHANGED <<envVars, recvVars, sendVars, chatVars>>

----------------------------------------------------------------------------
\* The states in which a side reads, or writes if it has something to write.
Communicating(p) == pc[p] \in {"offer", "reply", "send", "receive", "chat"}

\* Bug: an error of copy is ignored.
PeerIsGoneNotSending(p) ==
    /\ Gone(Other(p)) /\ Communicating(p) /\ pc[p] # "send"
    /\ Leave(p)
    /\ UNCHANGED <<envVars, recvVars, sendVars, chatVars>>

\* The other side is gone, and a read or a write fails, or chat_listen or
\* deserialize_from comes to the end of the stream. All of them end the
\* process.
PeerIsGone(p) ==
    /\ Gone(Other(p)) /\ Communicating(p)
    /\ Leave(p)
    /\ UNCHANGED <<envVars, recvVars, sendVars, chatVars>>

\* The other side is gone, and the reader of p spins at the end.
Spin(p) ==
    /\ Gone(Other(p)) /\ Communicating(p) /\ pc[p] # "send"
    /\ Goto(p, "stuck")
    /\ UNCHANGED <<envVars, recvVars, sendVars, pipe, held, chatVars>>

\* The user ends the process, or it fails by itself: a file cannot be opened
\* or created, there is no terminal.
Quit(p) ==
    /\ ~Gone(p)
    /\ Leave(p)
    /\ UNCHANGED <<envVars, recvVars, sendVars, chatVars>>

\* A file grows or shrinks after confirm_send has looked at it.
FileChanges ==
    /\ ~changed /\ offer # None
    /\ pc["creator"] \in {"offer", "reply", "send"}
    /\ \E i \in DOMAIN offer, n \in 0..MaxSize :
        /\ n # disk[i]
        /\ disk' = [disk EXCEPT ![i] = n]
    /\ changed' = TRUE
    /\ UNCHANGED <<offer, before, recvVars, sendVars, pc, pipe, held, chatVars>>

----------------------------------------------------------------------------
CreatorSteps ==
    OfferFiles \/ ReadAccept \/ SendByte \/ SendNext \/ SendDone

JoinerSteps ==
    ReadOffer \/ CreateFile \/ ReceiveByte \/ ReceiveNext \/ ReceiveDone

ListenSteps(p) == Listen(p) \/ NotUtf8(p) \/ PeerIsGone(p) \/ Spin(p)

Next ==
    \/ CreatorSteps
    \/ CopyFlushes
    \/ JoinerSteps
    \/ \E n \in 1..3 : ConfirmReceive(n)
    \/ \E p \in Peers : ListenSteps(p) \/ Talk(p) \/ Quit(p)
    \/ FileChanges

Spec == Init /\ [][Next]_vars

\* Each process goes on when it can. Nothing makes a user answer, type or
\* quit.
FairSpec ==
    /\ Spec
    /\ WF_vars(CreatorSteps) /\ WF_vars(JoinerSteps)
    /\ \A p \in Peers : WF_vars(ListenSteps(p))

----------------------------------------------------------------------------
TypeOK ==
    /\ offer \in Offers /\ before \in Befores
    /\ disk \in [IF offer = None THEN {} ELSE DOMAIN offer -> 0..MaxSize]
    /\ changed \in BOOLEAN
    /\ DOMAIN saved = Paths
    /\ \A p \in Paths : saved[p] # Absent => Len(saved[p]) <= MaxSize
    /\ pc \in [Peers -> PCs]
    /\ option \in 0..3
    /\ \A i \in DOMAIN chosen : chosen[i] \in BOOLEAN
    /\ sentN \in 0..MaxSize
    /\ created \in BOOLEAN /\ (created => recvQ # <<>>)
    /\ \A p \in Peers : Len(pipe[p]) <= PipeCap
    /\ held \in 0..ChunkSize /\ held <= Len(pipe["joiner"])
    /\ said \in [Peers -> 0..MaxLines]

\* The bytes of an offered file, as they were offered.
Whole(i) == [n \in 1..offer[i].size |-> Byte(i, n)]

IsPrefixOf(s, t) == Len(s) <= Len(t) /\ s = SubSeq(t, 1, Len(s))

AcceptedFor(p) == {i \in DOMAIN chosen : chosen[i] /\ offer[i].path = p}

\* If no file has changed since it was offered, then at every moment a path
\* of the joiner's folder holds what it held before, or the beginning of one
\* accepted file of that path: the two sides, which each count for themselves,
\* never put bytes of one file, or of the chat, into another.
SavedIsPrefix ==
    ~changed =>
        \A p \in Paths :
            \/ saved[p] = before[p]
            \/ \E i \in AcceptedFor(p) : IsPrefixOf(saved[p], Whole(i))

\* What receive_files should leave in the folder: under a path that was
\* offered and accepted twice, the last one.
Expected ==
    [p \in Paths |->
        IF AcceptedFor(p) = {} THEN before[p]
        ELSE Whole(CHOOSE i \in AcceptedFor(p) :
                        \A j \in AcceptedFor(p) : j <= i)]

\* Once the joiner chats, the accepted files are whole and the rest of its
\* folder untouched: unless a file has changed since it was offered, or the
\* creator ended before all was sent (the joiner then goes on to chat with
\* truncated files, as copy_buf reports no error at the end of the stream).
FilesIntact ==
    /\ pc["joiner"] = "chat" /\ offer # None
    /\ ~changed /\ pc["creator"] # "aborted"
    => saved = Expected

\* Lines are shown in the order they were typed, with none left out and
\* nothing else in between. That may fail on the joiner's side only, and only
\* if a file has changed its length: the count is then off, and the rest of
\* the file shows up in the chat or the file takes lines of it.
ChatFaithful ==
    \A p \in Peers :
        p = "creator" \/ ~changed =>
            /\ Len(heard[p]) <= said[Other(p)]
            /\ heard[p] = [n \in DOMAIN heard[p] |-> Line(n)]

\* The sender comes to the end of its files or finds that its peer is gone,
\* even if the receiver expects less than it sends.
SendEnds == pc["creator"] = "send" ~> pc["creator"] # "send"

\* A receiver of files does not hang while its peer lives: it comes to the chat,
\* or its process ends. If the sender is gone, it does so too, or its reader
\* spins for ever at the end of the stream ("stuck"); nothing else stops it. A
\* file that has become shorter makes it wait, perhaps until the chat fills the gap.
ReceiveEnds ==
    pc["joiner"] = "receive" ~>
        \/ pc["joiner"] \in {"chat", "aborted"}
        \/ pc["joiner"] = "stuck" /\ Gone("creator")
        \/ changed

\* A line that was typed is shown to the other side, unless one of them
\* leaves or is stuck, or a file has changed.
LinesArrive ==
    \A p \in Peers : \A n \in 1..MaxLines :
        said[p] = n ~> \/ Len(heard[Other(p)]) >= n
                       \/ changed
                       \/ \E q \in Peers : Gone(q) \/ pc[q] = "stuck"

\* Option 2 of the dialog: "Accept only files with new path or changed size."
OptionTwoAcceptsNewOnly ==
    option = 2 =>
        \A i \in DOMAIN offer :
            (i \in DOMAIN chosen /\ chosen[i]) <=> ~FileExists(before, offer[i])
============================================================================

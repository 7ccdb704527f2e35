-------------------------- MODULE EncryptedStream --------------------------
(***************************************************************************)
(* One direction of the encrypted connection between two peers: an         *)
(* EncryptedWriter (gday_encryption/src/writer.rs), the TCP stream, and an *)
(* EncryptedReader (reader.rs), with the HelperBuf (lib.rs) of each.       *)
(*                                                                         *)
(* The k-th byte the application writes is <<"data", k>>. A chunk on the   *)
(* wire is a length, the bytes and an authentication tag; what encryption  *)
(* hides is left out, what it adds to the length is not. The stream is     *)
(* reliable, as TCP is, so every chunk decrypts.                           *)
(***************************************************************************)
EXTENDS Naturals, Sequences

CONSTANTS
    MAX_CHUNK_SIZE,       \* 8192 in the code
    CIPHERTEXT_OVERHEAD,  \* 16 in the code
    HeaderLen,            \* 4 in the code
    WireCap,              \* bytes the TCP stream holds
    MaxWritten,           \* bound: bytes the application writes
    MaxFlushes            \* bound: calls of flush

ASSUME SizeAssumption ==
    /\ {MAX_CHUNK_SIZE, CIPHERTEXT_OVERHEAD, HeaderLen} \subseteq Nat \ {0}
    /\ MAX_CHUNK_SIZE > HeaderLen + CIPHERTEXT_OVERHEAD
    /\ WireCap \in Nat \ {0}
    /\ MaxWritten \in Nat /\ MaxFlushes \in Nat

VARIABLES
    call,       \* the call on the writer that has not returned, or "none"
    offered,    \* how many bytes that call offers, if it is a write
    bytes,      \* data() of the writer's buffer
    flushing,   \* is_flushing
    written,    \* how many bytes poll_write has taken
    flushed,    \* `written` at the last flush that returned
    flushes,    \* how many flushes were called
    wire,       \* the bytes in the TCP stream
    closed,     \* no more bytes will enter the stream
    rpc,        \* where the reader is
    wanted,     \* wanted_bytes of the call on the reader; 0 for None
    ciphertext, \* the reader's two buffers: data() and the cursor before it
    cleartext,
    out         \* what the reader has returned

writerVars == <<call, offered, bytes, flushing, written, flushed, flushes>>
readerVars == <<rpc, wanted, ciphertext, cleartext, out>>
vars == <<writerVars, wire, closed, readerVars>>

Min(a, b) == IF a < b THEN a ELSE b

Byte == {"data", "len", "tag"} \X Nat

Copies(n, byte) == [i \in 1..n |-> byte]

\* The first bytes of the writer's buffer, to be overwritten by the length.
Header(n) == Copies(HeaderLen, <<"len", n>>)

\* The bytes of the application among those of a stream of chunks.
Payload(stream) ==
    LET data[n \in 0..Len(stream)] ==
            IF n = 0 THEN <<>>
            ELSE IF stream[n][1] = "data" THEN Append(data[n - 1], stream[n])
            ELSE data[n - 1]
    IN  data[Len(stream)]

----------------------------------------------------------------------------
\* HelperBuf

HelperBuf == [data : Seq(Byte), cursor : Nat]

EmptyBuf == [data |-> <<>>, cursor |-> 0]

SpareCapacity(buf, capacity) == capacity - (buf.cursor + Len(buf.data))

\* advance_cursor: a buffer without data left is cleared.
AdvanceCursor(buf, n) ==
    IF n = Len(buf.data)
    THEN EmptyBuf
    ELSE [data |-> SubSeq(buf.data, n + 1, Len(buf.data)),
          cursor |-> buf.cursor + n]

\* wrap: the data is copied to the front.
Wrap(buf) == [buf EXCEPT !.cursor = 0]

Extend(buf, more) == [buf EXCEPT !.data = @ \o more]

ClearSpare == SpareCapacity(cleartext, MAX_CHUNK_SIZE)
CipherSpare == SpareCapacity(ciphertext, 2 * MAX_CHUNK_SIZE)

----------------------------------------------------------------------------
Init ==
    /\ call = "none" /\ offered = 0
    /\ bytes = <<>> /\ flushing = TRUE
    /\ written = 0 /\ flushed = 0 /\ flushes = 0
    /\ wire = <<>> /\ closed = FALSE
    /\ rpc = "idle" /\ wanted = 0
    /\ ciphertext = EmptyBuf /\ cleartext = EmptyBuf
    /\ out = <<>>

Tag == Copies(CIPHERTEXT_OVERHEAD, <<"tag", 0>>)

\* Bug: the length leaves out the tag that encryption adds.
ChunkShortLength(msg) == Header(Len(msg)) \o msg \o Tag

\* start_flushing: what follows the header is encrypted and the header set to
\* the length of the outcome.
Chunk(msg) == Header(Len(msg) + CIPHERTEXT_OVERHEAD) \o msg \o Tag

\* The bytes taken since the last chunk, behind the header that is not set.
Unsent == SubSeq(bytes, HeaderLen + 1, Len(bytes))

\* poll_write is called with n bytes.
CallWrite(n) ==
    /\ call = "none"
    /\ written + n <= MaxWritten
    /\ call' = "write"
    /\ offered' = n
    /\ UNCHANGED <<bytes, flushing, written, flushed, flushes, wire, closed,
                   readerVars>>

\* The call of poll_write returns, having taken n bytes. `full` says whether
\* that fills a chunk, which is then encrypted at once.
Take(n, full) ==
    LET msg == Unsent \o [i \in 1..n |-> <<"data", written + i>>]
    IN  /\ bytes' = IF full THEN Chunk(msg) ELSE Header(0) \o msg
        /\ flushing' = full
        /\ written' = written + n
        /\ call' = "none" /\ offered' = 0
        /\ UNCHANGED <<flushed, flushes, wire, closed, readerVars>>

\* Bug: no room is left for the tag.
PollWriteNoOverhead ==
    LET taken == Min(offered, MAX_CHUNK_SIZE - Len(bytes))
    IN  /\ call = "write" /\ ~flushing
        /\ Take(taken, Len(bytes) + taken = MAX_CHUNK_SIZE)

\* poll_write once nothing is left to flush: as many bytes are taken as fit
\* with their tag.
PollWrite ==
    LET spare == MAX_CHUNK_SIZE - Len(bytes)
        taken == Min(offered, spare - CIPHERTEXT_OVERHEAD)
    IN  /\ call = "write" /\ ~flushing
        /\ Take(taken, spare - taken = CIPHERTEXT_OVERHEAD)

\* poll_flush or poll_shutdown is called. The header alone counts as data: a
\* flush with nothing written sends a chunk that holds nothing.
CallFlush ==
    /\ call = "none"
    /\ \/ flushes < MaxFlushes /\ call' = "flush"
       \/ call' = "shutdown"
    /\ flushes' = flushes + 1
    /\ bytes' = IF flushing THEN bytes ELSE Chunk(Unsent)
    /\ flushing' = TRUE
    /\ UNCHANGED <<offered, written, flushed, wire, closed, readerVars>>

\* poll_flush_local: the stream takes some of the bytes.
FlushSome ==
    /\ call # "none" /\ flushing
    /\ \E n \in 1..Min(Len(bytes), WireCap - Len(wire)) :
        /\ wire' = wire \o SubSeq(bytes, 1, n)
        /\ bytes' = SubSeq(bytes, n + 1, Len(bytes))
    /\ UNCHANGED <<call, offered, flushing, written, flushed, flushes, closed,
                   readerVars>>

\* poll_flush_local: everything is written. A write goes on; a flush returns;
\* a shutdown closes the stream.
FlushDone ==
    /\ call \in {"write", "flush", "shutdown"}
    /\ flushing /\ bytes = <<>>
    /\ flushing' = FALSE
    /\ bytes' = Header(0)
    /\ call' = [write |-> "write", flush |-> "none", shutdown |-> "gone"][call]
    /\ flushed' = IF call = "write" THEN flushed ELSE written
    /\ closed' = (call = "shutdown")
    /\ UNCHANGED <<offered, written, flushes, wire, readerVars>>

\* The writing process ends, in the middle of whatever it does.
Die ==
    /\ call # "gone"
    /\ call' = "gone"
    /\ closed' = TRUE
    /\ bytes' = <<>>
    /\ UNCHANGED <<offered, flushing, written, flushed, flushes, wire,
                   readerVars>>

----------------------------------------------------------------------------
(***************************************************************************)
(* The reader. idle: no call. decrypt: in decrypt_all_full_chunks. loop:   *)
(* at the head of the loop of read_if_necessary. return: it has returned   *)
(* false. parked: the call returned Pending and its task waits. eof: it    *)
(* has returned true. spin: in the loop for ever. panic: out of bounds.    *)
(***************************************************************************)
RPCs == {"idle", "decrypt", "loop", "return", "parked", "eof", "spin",
         "panic"}

\* poll_read with room for n bytes, or poll_fill_buf (n = 0).
CallRead(n) ==
    /\ rpc = "idle"
    /\ rpc' = "decrypt"
    /\ wanted' = n
    /\ UNCHANGED <<writerVars, wire, closed, ciphertext, cleartext, out>>

\* peek_cipher_chunk: the length of the first chunk, if all of it is here.
ChunkLen == ciphertext.data[1][2]

HasChunk ==
    /\ Len(ciphertext.data) >= HeaderLen
    /\ Len(ciphertext.data) >= HeaderLen + ChunkLen

\* The chunk is complete and the cleartext has no room for it.
NoRoom == HasChunk /\ ClearSpare < ChunkLen

\* decrypt_all_full_chunks: one turn of its loop.
DecryptChunk ==
    /\ rpc = "decrypt"
    /\ HasChunk /\ ~NoRoom
    /\ cleartext' = Extend(cleartext,
            SubSeq(ciphertext.data, HeaderLen + 1,
                   HeaderLen + ChunkLen - CIPHERTEXT_OVERHEAD))
    /\ ciphertext' = AdvanceCursor(ciphertext, HeaderLen + ChunkLen)
    /\ UNCHANGED <<writerVars, wire, closed, rpc, wanted, out>>

\* The buffer is wrapped if `full`. The slice blank[0..data_len] is out of
\* bounds when there is more data than blank before it: the program panics.
LeaveDecrypt(full) ==
    /\ rpc = "decrypt"
    /\ ~HasChunk \/ NoRoom
    /\ ciphertext' = IF full THEN Wrap(ciphertext) ELSE ciphertext
    /\ rpc' = IF full /\ Len(ciphertext.data) > ciphertext.cursor
              THEN "panic" ELSE "loop"
    /\ UNCHANGED <<writerVars, wire, closed, wanted, cleartext, out>>

\* Bug: a full buffer is wrapped also on the early return.
DecryptedWrapsAlways == LeaveDecrypt(CipherSpare = 0)

\* Bug: a full buffer is not wrapped.
DecryptedNeverWraps == LeaveDecrypt(FALSE)

\* decrypt_all_full_chunks returns: early when the cleartext has no room for
\* the next chunk, else after wrapping a ciphertext buffer that is full.
Decrypted == LeaveDecrypt(~HasChunk /\ CipherSpare = 0)

\* bytes_amount of read_if_necessary.
BytesAmount ==
    IF wanted = 0 THEN MAX_CHUNK_SIZE ELSE Min(MAX_CHUNK_SIZE, wanted)

KeepsReading == Len(cleartext.data) < BytesAmount /\ CipherSpare # 0

Goto(where) ==
    /\ rpc' = where
    /\ UNCHANGED <<writerVars, wire, closed, wanted, ciphertext, cleartext, out>>

LoopEnds == rpc = "loop" /\ ~KeepsReading /\ Goto("return")

\* The inner reader has bytes.
InnerRead ==
    /\ rpc = "loop" /\ KeepsReading
    /\ \E n \in 1..Min(Len(wire), CipherSpare) :
        /\ ciphertext' = Extend(ciphertext, SubSeq(wire, 1, n))
        /\ wire' = SubSeq(wire, n + 1, Len(wire))
    /\ rpc' = "decrypt"
    /\ UNCHANGED <<writerVars, closed, wanted, cleartext, out>>

\* Bug: the call is pending although it has data to return.
InnerPendingParks ==
    /\ rpc = "loop" /\ KeepsReading
    /\ wire = <<>> /\ ~closed
    /\ Goto("parked")

\* The inner reader is pending.
InnerPending ==
    /\ rpc = "loop" /\ KeepsReading
    /\ wire = <<>> /\ ~closed
    /\ Goto(IF cleartext.data = <<>> THEN "parked" ELSE "return")

\* Bug: the end is reported although decrypted data is buffered.
InnerEofEarly ==
    /\ rpc = "loop" /\ KeepsReading
    /\ wire = <<>> /\ closed
    /\ Goto(IF ciphertext.data = <<>> THEN "eof" ELSE "spin")

\* The inner reader is at its end. With nothing buffered that is the end of
\* this stream too. If not, nothing is there to decrypt, and the loop asks
\* the inner reader again, which can only answer the same.
InnerEof ==
    /\ rpc = "loop" /\ KeepsReading
    /\ wire = <<>> /\ closed
    /\ Goto(IF ciphertext.data = <<>> /\ cleartext.data = <<>>
            THEN "eof" ELSE "spin")

\* The task is woken and polls again.
Wake ==
    /\ rpc = "parked"
    /\ wire # <<>> \/ closed
    /\ Goto("decrypt")

\* poll_read copies what it can; after poll_fill_buf the application consumes
\* some of what it is shown.
Return ==
    /\ rpc = "return"
    /\ \E n \in IF wanted = 0 THEN 1..Len(cleartext.data)
                ELSE {Min(wanted, Len(cleartext.data))} :
        /\ out' = out \o SubSeq(cleartext.data, 1, n)
        /\ cleartext' = AdvanceCursor(cleartext, n)
    /\ rpc' = "idle"
    /\ UNCHANGED <<writerVars, wire, closed, wanted, ciphertext>>

----------------------------------------------------------------------------
WriterRuns == PollWrite \/ FlushSome \/ FlushDone

ReaderRuns ==
    \/ DecryptChunk
    \/ Decrypted
    \/ LoopEnds
    \/ InnerRead
    \/ InnerPending
    \/ InnerEof
    \/ Wake
    \/ Return

Reads == \E n \in 0..MaxWritten : CallRead(n)

Next ==
    \/ \E n \in 1..MaxWritten : CallWrite(n)
    \/ CallFlush
    \/ Die
    \/ WriterRuns
    \/ Reads
    \/ ReaderRuns

Spec == Init /\ [][Next]_vars

\* Calls that can go on do, and the application goes on reading. Nothing makes
\* it write or flush.
FairSpec ==
    Spec /\ WF_vars(WriterRuns) /\ WF_vars(ReaderRuns) /\ WF_vars(Reads)
----------------------------------------------------------------------------
\* Types; no buffer outgrows the capacity it was made with.
TypeOK ==
    /\ call \in {"none", "write", "flush", "shutdown", "gone"}
    /\ bytes \in Seq(Byte) /\ Len(bytes) <= MAX_CHUNK_SIZE
    /\ flushing \in BOOLEAN /\ closed \in BOOLEAN
    /\ {offered, written, flushed, flushes, wanted} \subseteq Nat
    /\ wire \in Seq(Byte)
    /\ rpc \in RPCs
    /\ out \in Seq(Byte)
    /\ ciphertext \in HelperBuf /\ cleartext \in HelperBuf
    /\ ClearSpare >= 0 /\ CipherSpare >= 0

\* Nothing is lost, repeated or reordered on the way: as long as the writer
\* lives, what the reader has returned, what its buffers hold, what is on the
\* wire and what the writer holds are the bytes written, in order.
BytesConserved ==
    ~closed =>
        out \o cleartext.data \o Payload(ciphertext.data \o wire \o bytes)
            = [i \in 1..written |-> <<"data", i>>]

\* For the applications at its ends the stream is a pipe of bytes, also when
\* the writer dies between any two steps: what is returned is a prefix of what
\* was written and only grows, and read_if_necessary reports the end (true)
\* only if everything flushed was returned before.
Pipe == INSTANCE BytePipe WITH
    ended <- closed, eof <- (rpc = "eof"),
    out <- [i \in DOMAIN out |-> out[i][2]]

ImplementsPipe == Pipe!Spec

\* wrap never panics: a full ciphertext buffer without a whole chunk always
\* has at least as much room before the cursor as data behind it.
WrapNeverPanics == rpc # "panic"

\* debug_assert!(!self.cleartext.data().is_empty()) of read_if_necessary:
\* when it returns false there is something to return, so that no caller
\* takes an empty read for the end of the stream.
FalseMeansData == rpc = "return" => cleartext.data # <<>>

\* What was flushed is returned by the reader, unless the writer is gone.
FlushedArrives ==
    \A n \in 1..MaxWritten : flushed >= n ~> Len(out) >= n \/ closed

\* "True if eof, false if not" (read_if_necessary): the call returns.
ReadReturns == rpc = "loop" ~> rpc \in {"return", "parked", "eof"}
============================================================================

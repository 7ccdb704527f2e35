------------------------------ MODULE BytePipe ------------------------------
(***************************************************************************)
(* What an encrypted stream promises to the two applications that use it,  *)
(* with chunks, buffers and encryption left out: bytes come out in the     *)
(* order they went in, none twice and none that was not written, and the   *)
(* end is reported only when no flushed byte is missing.                   *)
(***************************************************************************)
EXTENDS Naturals, Sequences

VARIABLES
    written,  \* how many bytes the writer was given; the k-th is k
    flushed,  \* how many of them are sure to be on their way
    ended,    \* the writer is gone
    out,      \* the bytes the reader has returned
    eof       \* the reader has reported the end

vars == <<written, flushed, ended, out, eof>>

Init == written = 0 /\ flushed = 0 /\ ended = FALSE /\ out = <<>> /\ eof = FALSE

Write ==
    /\ ~ended
    /\ written' > written
    /\ UNCHANGED <<flushed, ended, out, eof>>

\* A flush or a shutdown returns.
Flush ==
    /\ ~ended
    /\ flushed' = written
    /\ ended' \in BOOLEAN
    /\ UNCHANGED <<written, out, eof>>

\* The writer dies.
End == ended' = TRUE /\ UNCHANGED <<written, flushed, out, eof>>

Read ==
    /\ ~eof
    /\ \E n \in Len(out) + 1..written :
        out' = out \o [i \in 1..n - Len(out) |-> Len(out) + i]
    /\ UNCHANGED <<written, flushed, ended, eof>>

Eof ==
    /\ ended /\ Len(out) >= flushed
    /\ eof' = TRUE
    /\ UNCHANGED <<written, flushed, ended, out>>

Next == Write \/ Flush \/ End \/ Read \/ Eof

Spec == Init /\ [][Next]_vars
=============================================================================

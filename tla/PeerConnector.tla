--------------------------- MODULE PeerConnector ---------------------------
(***************************************************************************)
(* Two peers that know each other's addresses find a connection:           *)
(* gday_hole_punch/src/client/peer_connector.rs. Each side runs one        *)
(* try_accept and several try_connect at once, and keeps the first         *)
(* connection on which verify_peer succeeds (select_ok); all the others    *)
(* are dropped. Nothing is said between the two about which one to keep;   *)
(* what tells them is the nonce that each sends on the one it keeps when   *)
(* the encrypted streams are made (establish_peer_connection of main.rs).  *)
(*                                                                         *)
(* One address family is modelled: with both, a side has a second listener *)
(* and more dials, which reach the listener of their own family only.      *)
(***************************************************************************)
EXTENDS Naturals

CONSTANTS
    Dials,     \* the addresses of the peer, one try_connect for each
    Reaches,   \* Dials -> who may answer there: "peer", "self", "stranger"
    MaxConns,  \* bound: TCP connections at a time
    Trying,    \* connect_to_peer has not returned
    Err        \* connect_to_peer has returned an error

ASSUME ConnectorAssumption ==
    /\ "accept" \notin Dials
    /\ Reaches \in [Dials -> SUBSET {"peer", "self", "stranger"}]
    /\ MaxConns \in Nat
    /\ {Trying, Err} \cap Nat = {} /\ Trying # Err

Peers == {"creator", "joiner"}
Other(p) == CHOOSE q \in Peers : q # p

Attempts == Peers \X (Dials \cup {"accept"})

Stranger == <<"stranger", "accept">>

Conns == 1..MaxConns
Ends == {1, 2}

VARIABLES
    secret,   \* the PeerSecret each side was given; the joiner's was typed
    attempt,  \* where each future of connect_to_peer is
    conn,     \* Conns -> Ends -> this end of the connection
    result    \* Peers -> the connection connect_to_peer has returned

vars == <<secret, attempt, conn, result>>

\* start: before get_local_socket, or in connect. accept: in listener.accept.
\* verify: in verify_peer. failed: the future has returned an error. dropped:
\* select_ok has returned.
AttemptStates == {"start", "accept", "verify", "failed", "dropped"}

\* An end of a connection. backlog: the kernel has accepted the connection,
\* the program not yet. kept: select_ok has returned it. shared: the nonce of
\* the other end was read. sent: how many messages were written there, two by
\* verify_peer and the nonce.
End == [owner : Attempts \cup {Stranger},
        state : {"backlog", "open", "closed", "kept", "shared"},
        sent  : 0..3]

Ended(a, st, n) == [owner |-> a, state |-> st, sent |-> n]

\* No connection, or one that both ends have closed.
Free == [e \in Ends |-> Ended(Stranger, "closed", 0)]

----------------------------------------------------------------------------
Init ==
    /\ secret \in [Peers -> {0, 1}] /\ secret["creator"] = 0
    /\ attempt = [a \in Attempts |-> "start"]
    /\ conn = [k \in Conns |-> Free]
    /\ result = [p \in Peers |-> Trying]

Listening(p) == attempt[<<p, "accept">>] \in {"accept", "verify"}

\* try_accept binds and listens.
Listen(p) ==
    /\ attempt[<<p, "accept">>] = "start"
    /\ attempt' = [attempt EXCEPT ![<<p, "accept">>] = "accept"]
    /\ UNCHANGED <<secret, conn, result>>

\* A connection comes into being between two ends.
Connected(end1, end2) ==
    /\ \E k \in Conns :
        /\ conn[k] = Free
        /\ \A j \in 1..k - 1 : conn[j] # Free
        /\ conn' = [conn EXCEPT ![k] =
                        [e \in Ends |-> IF e = 1 THEN end1 ELSE end2]]
    /\ UNCHANGED <<secret, result>>

\* Who called connect enters verify_peer at once and writes its message.
Dialed(a) == Ended(a, "open", 1)

Waiting(p) == Ended(<<p, "accept">>, "backlog", 0)

Elsewhere == Ended(Stranger, "open", 0)

\* connect of try_connect succeeds: who has answered is the peer's listener,
\* the connect call of the peer that goes the other way (simultaneous open),
\* the caller's own listener, or another host with that address.
Dial(p, d) ==
    LET a == <<p, d>>
        q == Other(p)
    IN  /\ attempt[a] = "start"
        /\ \/ /\ "peer" \in Reaches[d] /\ Listening(q)
              /\ Connected(Dialed(a), Waiting(q))
              /\ attempt' = [attempt EXCEPT ![a] = "verify"]
           \/ \E b \in {q} \X Dials :
              /\ "peer" \in Reaches[d] \cap Reaches[b[2]]
              /\ attempt[b] = "start"
              /\ Connected(Dialed(a), Dialed(b))
              /\ attempt' = [attempt EXCEPT ![a] = "verify", ![b] = "verify"]
           \/ /\ "self" \in Reaches[d] /\ Listening(p)
              /\ Connected(Dialed(a), Waiting(p))
              /\ attempt' = [attempt EXCEPT ![a] = "verify"]
           \/ /\ "stranger" \in Reaches[d]
              /\ Connected(Dialed(a), Elsewhere)
              /\ attempt' = [attempt EXCEPT ![a] = "verify"]

\* Somebody else connects to the listener.
StrangerDials(p) ==
    /\ \E d \in Dials : "stranger" \in Reaches[d]
    /\ Listening(p)
    /\ Connected(Elsewhere, Waiting(p))
    /\ UNCHANGED attempt

\* Bug: the stream is verified in a task of its own.
AcceptSpawning(p) ==
    /\ attempt[<<p, "accept">>] = "accept"
    /\ \E k \in Conns :
        /\ conn[k][2].owner = <<p, "accept">> /\ conn[k][2].state = "backlog"
        /\ conn' = [conn EXCEPT ![k][2] = Ended(<<p, "accept">>, "open", 1)]
    /\ UNCHANGED <<secret, attempt, result>>

\* listener.accept returns a connection, and verify_peer is called: the
\* listener takes no other before that one is settled.
Accept(p) ==
    /\ attempt[<<p, "accept">>] = "accept"
    /\ \E k \in Conns :
        /\ conn[k][2].owner = <<p, "accept">> /\ conn[k][2].state = "backlog"
        /\ conn' = [conn EXCEPT ![k][2] = Ended(<<p, "accept">>, "open", 1)]
    /\ attempt' = [attempt EXCEPT ![<<p, "accept">>] = "verify"]
    /\ UNCHANGED <<secret, result>>

----------------------------------------------------------------------------
\* verify_peer at end e of connection k. Its steps are the two reads; the
\* write that precedes each is small and done at once.
Verifying(k, e) == conn[k][e].owner \in Attempts /\ conn[k][e].state = "open"

\* Whose end it is.
Who(k, e) == conn[k][e].owner[1]

\* SPAKE2: the keys of the two ends are equal when their secrets are. Every
\* connection has keys of its own.
Key(k, e) == <<k, secret[Who(k, e)]>>

\* get_verification_code: a digest of the key and of whether its sender is
\* the creator of the room.
Code(k, e) == <<Key(k, e), Who(k, e) = "creator">>

\* The code that end e has received. A stranger may send back what it got.
Received(k, e) ==
    IF conn[k][3 - e].owner = Stranger THEN Code(k, e) ELSE Code(k, 3 - e)

\* Bug: the code does not say whose it is.
CodeMatchesWithoutRole(k, e) == Received(k, e)[1] = Key(k, e)

\* received == peer_code
CodeMatches(k, e) == Received(k, e) = <<Key(k, e), Who(k, e) # "creator">>

\* Bug: the code is written after that of the other end has been read.
ReadMessageThenCode(k, e) ==
    /\ Verifying(k, e)
    /\ conn[k][e].sent = 1 /\ conn[k][3 - e].sent = 2
    /\ conn' = [conn EXCEPT ![k][e].sent = 2]
    /\ UNCHANGED <<secret, attempt, result>>

\* The SPAKE2 message of the other end is read, and the code written.
ReadMessage(k, e) ==
    /\ Verifying(k, e)
    /\ conn[k][e].sent = 1 /\ conn[k][3 - e].sent >= 1
    /\ conn' = [conn EXCEPT ![k][e].sent = 2]
    /\ UNCHANGED <<secret, attempt, result>>

\* The ends in `closing` are closed.
Close(closing) ==
    [k \in Conns |->
        LET c == [e \in Ends |-> IF <<k, e>> \in closing
                                 THEN [conn[k][e] EXCEPT !.state = "closed"]
                                 ELSE conn[k][e]]
        IN  IF \A e \in Ends : c[e].state = "closed" THEN Free ELSE c]

\* get_local_socket, listen or accept fails, or connect does: it was refused
\* or has timed out. The future is over, and what waits in its backlog is
\* reset.
AttemptFails(a) ==
    /\ attempt[a] \in {"start", "accept"}
    /\ attempt' = [attempt EXCEPT ![a] = "failed"]
    /\ conn' = Close({x \in Conns \X Ends : conn[x[1]][x[2]].owner = a})
    /\ UNCHANGED <<secret, result>>

\* verify_peer fails: the stream is dropped and the loop of try_connect or
\* try_accept starts over.
VerifyFails(k, e) ==
    LET a == conn[k][e].owner
    IN  /\ conn' = Close({<<k, e>>})
        /\ attempt' = [attempt EXCEPT ![a] =
                        IF a[2] = "accept" THEN "accept" ELSE "start"]
        /\ UNCHANGED <<secret, result>>

\* The ends of p, but for the one it keeps.
OtherEnds(p, k, e) ==
    {x \in Conns \X Ends : Who(x[1], x[2]) = p /\ x # <<k, e>>}

\* select_ok returns the first connection that is verified. All the other
\* futures are dropped, and with them their streams and the listener. The
\* nonce is written to the one that is left.
SelectOk(k, e) ==
    LET p == Who(k, e)
    IN  /\ result' = [result EXCEPT ![p] = k]
        /\ conn' = [Close(OtherEnds(p, k, e)) EXCEPT
                        ![k][e] = Ended(conn[k][e].owner, "kept", 3)]
        /\ attempt' = [a \in Attempts |->
                        IF a[1] = p THEN "dropped" ELSE attempt[a]]
        /\ UNCHANGED secret

\* The code of the other end is read and compared.
ReadCode(k, e) ==
    /\ Verifying(k, e)
    /\ conn[k][e].sent = 2 /\ conn[k][3 - e].sent >= 2
    /\ \/ CodeMatches(k, e) /\ SelectOk(k, e)
       \/ ~CodeMatches(k, e) /\ VerifyFails(k, e)

\* A read fails, since the other end is closed. What was written before may
\* still be read, or be lost when the kernel resets the connection.
ReadFails(k, e) ==
    /\ Verifying(k, e)
    /\ conn[k][3 - e].state = "closed"
    /\ VerifyFails(k, e)

\* Bug: the streams are used without the nonce of the other end.
ReadNonceLater(k, e) ==
    /\ conn[k][e].state = "kept"
    /\ conn' = [conn EXCEPT ![k][e].state = "shared"]
    /\ UNCHANGED <<secret, attempt, result>>

\* EncryptedReader::new reads the nonce of the other end: both keep this one.
ReadNonce(k, e) ==
    /\ conn[k][e].state = "kept" /\ conn[k][3 - e].sent = 3
    /\ conn' = [conn EXCEPT ![k][e].state = "shared"]
    /\ UNCHANGED <<secret, attempt, result>>

\* The other end is closed before its nonce has come, and the process exits.
NonceFails(k, e) ==
    /\ conn[k][e].state = "kept" /\ conn[k][3 - e].state = "closed"
    /\ result' = [result EXCEPT ![Who(k, e)] = Err]
    /\ conn' = Close({<<k, e>>})
    /\ UNCHANGED <<secret, attempt>>

\* A stranger answers with what it got, or closes the connection. It need do
\* neither.
StrangerActs(k, e) ==
    /\ conn[k][e].owner = Stranger /\ conn[k][e].state = "open"
    /\ \/ /\ conn[k][e].sent < conn[k][3 - e].sent
          /\ conn' = [conn EXCEPT ![k][e].sent = @ + 1]
       \/ conn' = Close({<<k, e>>})
    /\ UNCHANGED <<secret, attempt, result>>

\* select_ok returns an error once every future has: the process exits.
AllFailed(p) ==
    /\ result[p] = Trying
    /\ \A a \in Attempts : a[1] = p => attempt[a] = "failed"
    /\ result' = [result EXCEPT ![p] = Err]
    /\ UNCHANGED <<secret, attempt, conn>>

----------------------------------------------------------------------------
Verify(k, e) == ReadMessage(k, e) \/ ReadCode(k, e) \/ ReadFails(k, e)

Share(k, e) == ReadNonce(k, e) \/ NonceFails(k, e)

Next ==
    \/ \E a \in Attempts : AttemptFails(a)
    \/ \E p \in Peers :
        \/ Listen(p)
        \/ Accept(p)
        \/ AllFailed(p)
        \/ StrangerDials(p)
        \/ \E d \in Dials : Dial(p, d)
    \/ \E k \in Conns, e \in Ends :
        Verify(k, e) \/ Share(k, e) \/ StrangerActs(k, e)

Spec == Init /\ [][Next]_vars

\* Futures that can go on are polled. Nothing makes a connect succeed, an
\* accept return or a stranger answer.
Fairness ==
    \A k \in Conns, e \in Ends : WF_vars(Verify(k, e)) /\ WF_vars(Share(k, e))

FairSpec == Spec /\ Fairness
----------------------------------------------------------------------------
TypeOK ==
    /\ secret \in [Peers -> {0, 1}]
    /\ attempt \in [Attempts -> AttemptStates]
    /\ conn \in [Conns -> [Ends -> End]]
    /\ result \in [Peers -> Conns \cup {Trying, Err}]
    /\ \A k \in Conns, e \in Ends :
        Verifying(k, e) => attempt[conn[k][e].owner] = "verify"

Joins(k, p, q) == {Who(k, 1), Who(k, 2)} = {p, q}

\* A connection that is kept leads to the other peer, never to a stranger
\* that sends everything back or to the peer itself, which may answer at the
\* private address it was told; the other peer was given the same secret and
\* has proved it.
KeptIsThePeer ==
    \A p \in Peers :
        result[p] \in Conns =>
            /\ Joins(result[p], "creator", "joiner")
            /\ secret["creator"] = secret["joiner"]
            /\ \A e \in Ends : conn[result[p]][e].sent >= 2

\* The two sides may keep different connections, as each takes the first it
\* has verified. Then neither starts a session: whoever has got the nonce has
\* it from a peer that keeps the same connection, and stays there.
SharedByBoth ==
    \A k \in Conns, e \in Ends :
        conn[k][e].state = "shared" =>
            /\ result = [p \in Peers |-> k]
            /\ conn[k][3 - e].state \in {"kept", "shared"}

\* A connection on which both peers are in verify_peer, with the same secret.
Meeting ==
    /\ secret["creator"] = secret["joiner"]
    /\ \E k \in Conns :
        /\ Joins(k, "creator", "joiner")
        /\ \A e \in Ends : conn[k][e].state = "open"

\* Both peers have a session on one connection.
InSession ==
    \E k \in Conns : \A e \in Ends : conn[k][e].state = "shared"

\* Once the peers meet on one connection, both get one in the end, whatever
\* happens to the others: strangers that stay silent, attempts that fail, a
\* connection dropped because the other side has kept another. It is the same
\* one, or both notice that it is not and exit: neither is left waiting. (A
\* connection in the backlog is not enough for a meeting: the listener may be
\* held up for ever by a stream that stays silent, as verify_peer has no time
\* limit.)
MeetingSettles == Meeting ~> InSession \/ \A p \in Peers : result[p] = Err
============================================================================

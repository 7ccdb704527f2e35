------------------------ MODULE PeerConnectorProofs ------------------------
(***************************************************************************)
(* The safety of connect_to_peer, for every set of addresses to dial,      *)
(* whoever answers there, and any number of connections.                   *)
(***************************************************************************)
EXTENDS PeerConnector, TLAPS

\* select_ok has returned this end.
Keeping(k, e) == conn[k][e].state \in {"kept", "shared"}

\* A future of connect_to_peer verifies one stream at a time.
OneStreamPerAttempt ==
    \A k, j \in Conns : \A e, f \in Ends :
        /\ Verifying(k, e) /\ Verifying(j, f)
        /\ conn[k][e].owner = conn[j][f].owner
        => k = j /\ e = f

\* Nobody has read or written a stream in the backlog of its listener, and
\* only the listener's own connections wait there.
BacklogSilent ==
    \A k \in Conns, e \in Ends :
        conn[k][e].state = "backlog" =>
            conn[k][e].owner \in Attempts /\ conn[k][e].sent = 0

\* Who keeps a connection has dropped all of its futures, and has sent its
\* nonce.
KeeperDone ==
    \A k \in Conns, e \in Ends :
        Keeping(k, e) =>
            /\ conn[k][e].owner \in Attempts
            /\ conn[k][e].sent = 3
            /\ result[Who(k, e)] = k
            /\ \A a \in Attempts : a[1] = Who(k, e) => attempt[a] = "dropped"

\* Who keeps a connection has the other peer at its other end, which has sent
\* its code.
KeeperVerified ==
    \A k \in Conns, e \in Ends :
        Keeping(k, e) =>
            /\ conn[k][3 - e].owner \in Attempts
            /\ Who(k, 3 - e) # Who(k, e)
            /\ conn[k][3 - e].sent >= 2
            /\ secret["creator"] = secret["joiner"]

\* A peer sends its nonce on the connection it keeps only.
NonceMeansKept ==
    \A k \in Conns, e \in Ends :
        conn[k][e].owner \in Attempts /\ conn[k][e].sent = 3 => Keeping(k, e)

\* The connection that connect_to_peer has returned is open.
ResultIsKept ==
    \A p \in Peers :
        result[p] \in Conns =>
            \E e \in Ends : Keeping(result[p], e) /\ Who(result[p], e) = p

\* The inductive invariant.
IInv ==
    /\ TypeOK
    /\ OneStreamPerAttempt
    /\ BacklogSilent
    /\ KeeperDone
    /\ KeeperVerified
    /\ NonceMeansKept
    /\ ResultIsKept
    /\ SharedByBoth

----------------------------------------------------------------------------
LEMMA StrangerIsNoAttempt == Stranger \notin Attempts /\ "stranger" \notin Peers
BY DEF Stranger, Attempts, Peers

LEMMA OtherIsPeer ==
    ASSUME NEW p \in Peers
    PROVE  Other(p) \in Peers /\ Other(p) # p
BY DEF Other, Peers

LEMMA OtherEnd ==
    ASSUME NEW e \in Ends
    PROVE  /\ 3 - e \in Ends /\ 3 - (3 - e) = e /\ e # 3 - e
           /\ \A f \in Ends : f = e \/ f = 3 - e
BY DEF Ends

LEMMA EndType ==
    ASSUME TypeOK, NEW k \in Conns, NEW e \in Ends
    PROVE  /\ conn[k][e] \in End
           /\ conn[k][e].owner \in Attempts \cup {Stranger}
           /\ conn[k][e].state \in {"backlog", "open", "closed", "kept", "shared"}
           /\ conn[k][e].sent \in 0..3
BY DEF TypeOK, End

\* What closing some ends does to each end.
Closing(S, new) ==
    /\ new \in [Conns -> [Ends -> End]]
    /\ \A k \in Conns :
        \/ /\ new[k] = Free
           /\ \A e \in Ends : conn[k][e].state = "closed" \/ <<k, e>> \in S
        \/ /\ \E e \in Ends : conn[k][e].state # "closed" /\ <<k, e>> \notin S
           /\ \A e \in Ends :
                /\ new[k][e].owner = conn[k][e].owner
                /\ new[k][e].sent = conn[k][e].sent
                /\ IF <<k, e>> \in S THEN new[k][e].state = "closed"
                                    ELSE new[k][e] = conn[k][e]

LEMMA CloseEffect ==
    ASSUME TypeOK, NEW S, NEW new, new = Close(S)
    PROVE  Closing(S, new)
<1>. DEFINE shut(k, e) == [conn[k][e] EXCEPT !.state = "closed"]
<1>. DEFINE c(k) == [e \in Ends |-> IF <<k, e>> \in S THEN shut(k, e)
                                                     ELSE conn[k][e]]
<1>1. Free \in [Ends -> End]
    BY DEF Free, Ended, End, Stranger
<1>2. ASSUME NEW k \in Conns, NEW e \in Ends
      PROVE  /\ conn[k][e] \in End /\ shut(k, e) \in End
             /\ shut(k, e).state = "closed"
             /\ shut(k, e).owner = conn[k][e].owner
             /\ shut(k, e).sent = conn[k][e].sent
    BY EndType DEF End
<1>3. new = [k \in Conns |-> IF \A e \in Ends : c(k)[e].state = "closed"
                              THEN Free ELSE c(k)]
    BY DEF Close
<1>. HIDE DEF shut
<1>4. \A k \in Conns : c(k) \in [Ends -> End]
    BY <1>2
<1>5. ASSUME NEW k \in Conns, NEW e \in Ends
      PROVE  /\ c(k)[e].owner = conn[k][e].owner
             /\ c(k)[e].sent = conn[k][e].sent
             /\ IF <<k, e>> \in S THEN c(k)[e].state = "closed"
                                 ELSE c(k)[e] = conn[k][e]
    BY <1>2
<1>. HIDE DEF c
<1>6. new \in [Conns -> [Ends -> End]]
    BY <1>1, <1>3, <1>4
<1>7. ASSUME NEW k \in Conns
      PROVE  \/ /\ new[k] = Free
                /\ \A e \in Ends : conn[k][e].state = "closed" \/ <<k, e>> \in S
             \/ /\ \E e \in Ends :
                    conn[k][e].state # "closed" /\ <<k, e>> \notin S
                /\ new[k] = c(k)
    BY <1>3, <1>5
<1>. QED
    BY <1>5, <1>6, <1>7 DEF Closing

----------------------------------------------------------------------------
LEMMA InitIInv == Init => IInv
<1>. SUFFICES ASSUME Init PROVE IInv
    OBVIOUS
<1>1. Free \in [Ends -> End]
    BY DEF Free, Ended, End, Stranger
<1>2. \A k \in Conns, e \in Ends :
        /\ conn[k][e].owner \notin Attempts
        /\ conn[k][e].state = "closed"
    BY StrangerIsNoAttempt DEF Init, Free, Ended
<1>3. TypeOK
    BY <1>1, <1>2 DEF Init, TypeOK, AttemptStates, Verifying
<1>4. \A p \in Peers : result[p] \notin Conns
    BY ConnectorAssumption DEF Init, Conns
<1>. QED
    BY <1>2, <1>3, <1>4
       DEF IInv, OneStreamPerAttempt, BacklogSilent, KeeperDone, KeeperVerified,
           NonceMeansKept, ResultIsKept, SharedByBoth, Keeping, Verifying

\* A step that leaves the connections and results alone, and moves no future
\* that verifies or was dropped.
LEMMA QuietStep ==
    ASSUME IInv, UNCHANGED <<secret, conn, result>>,
           attempt' \in [Attempts -> AttemptStates],
           \A a \in Attempts :
                attempt[a] \in {"verify", "dropped"} => attempt'[a] = attempt[a]
    PROVE  IInv'
<1>. USE DEF IInv
<1>1. \A k \in Conns, e \in Ends :
        /\ Who(k, e)' = Who(k, e)
        /\ Keeping(k, e)' = Keeping(k, e)
        /\ Verifying(k, e)' = Verifying(k, e)
    BY DEF Who, Keeping, Verifying
<1>2. TypeOK'
    BY <1>1 DEF TypeOK, Verifying
<1>3. OneStreamPerAttempt' /\ BacklogSilent' /\ NonceMeansKept' /\ SharedByBoth'
    BY <1>1 DEF OneStreamPerAttempt, BacklogSilent, NonceMeansKept, SharedByBoth
<1>4. KeeperDone' /\ KeeperVerified' /\ ResultIsKept'
    BY DEF KeeperDone, KeeperVerified, ResultIsKept, Who, Keeping
<1>. QED
    BY <1>2, <1>3, <1>4

\* One end of a connection changes.
LEMMA EndEffect ==
    ASSUME TypeOK, NEW k \in Conns, NEW e \in Ends, NEW new \in End,
           conn' = [conn EXCEPT ![k][e] = new]
    PROVE  /\ conn' \in [Conns -> [Ends -> End]]
           /\ conn'[k][e] = new
           /\ \A j \in Conns, f \in Ends :
                <<j, f>> # <<k, e>> => conn'[j][f] = conn[j][f]
BY DEF TypeOK

\* An end that is accepted by the program, or on which something is written.
LEMMA OpenEndStep ==
    ASSUME IInv, NEW k \in Conns, NEW e \in Ends, NEW new \in End,
           conn' = [conn EXCEPT ![k][e] = new],
           UNCHANGED <<secret, result>>,
           attempt' \in [Attempts -> AttemptStates],
           new.owner = conn[k][e].owner,
           new.state = "open" /\ new.sent >= conn[k][e].sent,
           conn[k][e].state \in {"backlog", "open"},
           \A a \in Attempts : a # new.owner => attempt'[a] = attempt[a],
           new.owner \in Attempts =>
                /\ new.sent <= 2
                /\ attempt'[new.owner] = "verify"
                /\ attempt[new.owner] # "dropped"
                /\ conn[k][e].state = "backlog" => attempt[new.owner] # "verify"
    PROVE  IInv'
<1>. USE DEF IInv
<1>1. /\ conn' \in [Conns -> [Ends -> End]]
      /\ conn'[k][e] = new
      /\ \A j \in Conns, f \in Ends :
            <<j, f>> # <<k, e>> => conn'[j][f] = conn[j][f]
    BY EndEffect, ZenonT(60)
<1>2. \A j \in Conns, f \in Ends : conn'[j][f].owner = conn[j][f].owner
    BY <1>1
<1>3. \A j \in Conns, f \in Ends :
        conn'[j][f].state \in {"kept", "shared", "closed", "backlog"} =>
            conn'[j][f] = conn[j][f]
    BY <1>1
<1>4. \A j \in Conns, f \in Ends :
        conn[j][f].state \in {"kept", "shared"} => conn'[j][f] = conn[j][f]
    BY <1>1
<1>5. \A j \in Conns, f \in Ends :
        /\ conn[j][f].sent \in Nat /\ conn'[j][f].sent \in Nat
        /\ conn'[j][f].sent >= conn[j][f].sent
    <2>1. new.sent \in 0..3 /\ conn[k][e].sent \in 0..3
        BY EndType DEF End
    <2>2. \A j \in Conns, f \in Ends : conn[j][f].sent \in 0..3
        BY EndType
    <2>. QED
        BY <1>1, <2>1, <2>2
<1>6. TypeOK'
    <2>1. ASSUME NEW j \in Conns, NEW f \in Ends, Verifying(j, f)'
          PROVE  attempt'[conn'[j][f].owner] = "verify"
        <3>1. CASE <<j, f>> = <<k, e>>
            BY <1>1, <2>1, <3>1 DEF Verifying
        <3>2. CASE <<j, f>> # <<k, e>>
            BY <1>1, <2>1, <3>2 DEF Verifying, TypeOK
        <3>. QED
            BY <3>1, <3>2
    <2>. QED
        BY <1>1, <2>1 DEF TypeOK
<1>7. OneStreamPerAttempt'
    <2>1. ASSUME NEW j \in Conns, NEW f \in Ends, <<j, f>> # <<k, e>>,
                 Verifying(j, f)', Verifying(k, e)'
          PROVE  conn'[j][f].owner # conn'[k][e].owner
        BY <1>1, <2>1 DEF Verifying, TypeOK, OneStreamPerAttempt
    <2>2. \A j \in Conns, f \in Ends :
            <<j, f>> # <<k, e>> => Verifying(j, f)' = Verifying(j, f)
        BY <1>1 DEF Verifying
    <2>. QED
        BY <1>1, <2>1, <2>2 DEF OneStreamPerAttempt
<1>8. BacklogSilent'
    BY <1>3 DEF BacklogSilent
<1>9. KeeperDone'
    BY <1>3, <1>4 DEF KeeperDone, Keeping, Who
<1>10. KeeperVerified'
    BY <1>2, <1>3, <1>5, OtherEnd DEF KeeperVerified, Keeping, Who
<1>11. NonceMeansKept'
    BY <1>1 DEF NonceMeansKept, Keeping
<1>12. ResultIsKept'
    BY <1>4 DEF ResultIsKept, Keeping, Who
<1>13. SharedByBoth'
    BY <1>3, <1>4, OtherEnd DEF SharedByBoth
<1>. QED
    BY <1>6, <1>7, <1>8, <1>9, <1>10, <1>11, <1>12, <1>13

\* Some ends are closed: none that is kept, but for those whose peer has
\* closed its end already.
LEMMA CloseStep ==
    ASSUME IInv, NEW S, Closing(S, conn'), secret' = secret,
           attempt' \in [Attempts -> AttemptStates],
           result' \in [Peers -> Conns \cup {Trying, Err}],
           \A a \in Attempts : attempt[a] = "dropped" => attempt'[a] = "dropped",
           \A k \in Conns, e \in Ends :
                Verifying(k, e) /\ <<k, e>> \notin S =>
                    attempt'[conn[k][e].owner] = "verify",
           \A p \in Peers : result'[p] = result[p] \/ result'[p] \notin Conns,
           \A k \in Conns, e \in Ends :
                Keeping(k, e) =>
                    IF <<k, e>> \in S
                    THEN /\ conn[k][3 - e].state = "closed"
                         /\ result'[Who(k, e)] \notin Conns
                    ELSE result'[Who(k, e)] = result[Who(k, e)]
    PROVE  IInv'
<1>. USE DEF IInv
<1>1. conn' \in [Conns -> [Ends -> End]]
    BY DEF Closing
<1>2. \A k \in Conns :
        \/ /\ conn'[k] = Free
           /\ \A e \in Ends : conn[k][e].state = "closed" \/ <<k, e>> \in S
        \/ /\ \E e \in Ends : conn[k][e].state # "closed" /\ <<k, e>> \notin S
           /\ \A e \in Ends :
                /\ conn'[k][e].owner = conn[k][e].owner
                /\ conn'[k][e].sent = conn[k][e].sent
                /\ IF <<k, e>> \in S THEN conn'[k][e].state = "closed"
                                    ELSE conn'[k][e] = conn[k][e]
    BY DEF Closing
<1>3. \A e \in Ends : /\ Free[e].owner \notin Attempts
                      /\ Free[e].state = "closed"
    BY StrangerIsNoAttempt DEF Free, Ended
<1>4. \A k \in Conns, e \in Ends :
        conn[k][e].state # "closed" /\ <<k, e>> \notin S =>
            /\ conn'[k][e] = conn[k][e]
            /\ \A f \in Ends : /\ conn'[k][f].owner = conn[k][f].owner
                               /\ conn'[k][f].sent = conn[k][f].sent
    BY <1>2, ZenonT(60)
<1>5. \A k \in Conns, e \in Ends :
        conn'[k][e].state # "closed" =>
            conn'[k][e] = conn[k][e] /\ <<k, e>> \notin S
    BY <1>2, <1>3
<1>6. TypeOK'
    <2>1. ASSUME NEW j \in Conns, NEW f \in Ends, Verifying(j, f)'
          PROVE  attempt'[conn'[j][f].owner] = "verify"
        <3>1. conn'[j][f] = conn[j][f] /\ <<j, f>> \notin S
            BY <1>5, <2>1 DEF Verifying
        <3>. QED
            BY <2>1, <3>1 DEF Verifying
    <2>. QED
        BY <1>1, <2>1 DEF TypeOK
<1>7. \A k \in Conns, e \in Ends :
        conn'[k][e].state # "closed" => conn'[k][e] = conn[k][e]
    BY <1>5
<1>8. OneStreamPerAttempt' /\ BacklogSilent'
    BY <1>7 DEF OneStreamPerAttempt, Verifying, BacklogSilent
<1>9. KeeperDone'
    <2>. SUFFICES ASSUME NEW k \in Conns, NEW e \in Ends, Keeping(k, e)'
                  PROVE  /\ conn'[k][e].owner \in Attempts
                         /\ conn'[k][e].sent = 3
                         /\ result'[Who(k, e)'] = k
                         /\ \A a \in Attempts :
                                a[1] = Who(k, e)' => attempt'[a] = "dropped"
        BY DEF KeeperDone
    <2>1. conn'[k][e] = conn[k][e] /\ Keeping(k, e) /\ <<k, e>> \notin S
        BY <1>5 DEF Keeping
    <2>. QED
        BY <2>1 DEF KeeperDone, Who
<1>10. KeeperVerified'
    <2>. SUFFICES ASSUME NEW k \in Conns, NEW e \in Ends, Keeping(k, e)'
                  PROVE  /\ conn'[k][3 - e].owner \in Attempts
                         /\ Who(k, 3 - e)' # Who(k, e)'
                         /\ conn'[k][3 - e].sent >= 2
                         /\ secret'["creator"] = secret'["joiner"]
        BY DEF KeeperVerified
    <2>1. conn'[k][e] = conn[k][e] /\ Keeping(k, e) /\ <<k, e>> \notin S
        BY <1>5 DEF Keeping
    <2>2. conn[k][e].state # "closed"
        BY <2>1 DEF Keeping
    <2>3. /\ conn'[k][3 - e].owner = conn[k][3 - e].owner
          /\ conn'[k][3 - e].sent = conn[k][3 - e].sent
        BY <1>4, <2>1, <2>2, OtherEnd
    <2>. QED
        BY <2>1, <2>3 DEF KeeperVerified, Who
<1>11. NonceMeansKept'
    <2>. SUFFICES ASSUME NEW k \in Conns, NEW e \in Ends,
                         conn'[k][e].owner \in Attempts, conn'[k][e].sent = 3
                  PROVE  Keeping(k, e)'
        BY DEF NonceMeansKept
    <2>1. PICK f \in Ends : conn[k][f].state # "closed" /\ <<k, f>> \notin S
        BY <1>2, <1>3
    <2>2. Keeping(k, e)
        BY <1>4, <2>1 DEF NonceMeansKept
    <2>3. <<k, e>> \notin S
        BY <2>1, <2>2, OtherEnd
    <2>. QED
        BY <1>4, <2>2, <2>3 DEF Keeping
<1>12. ResultIsKept'
    <2>. SUFFICES ASSUME NEW p \in Peers, result'[p] \in Conns
                  PROVE  \E e \in Ends : Keeping(result[p], e)' /\ Who(result[p], e)' = p
        BY DEF ResultIsKept, Keeping, Who
    <2>1. result'[p] = result[p]
        OBVIOUS
    <2>2. PICK e \in Ends : Keeping(result[p], e) /\ Who(result[p], e) = p
        BY <2>1 DEF ResultIsKept
    <2>3. <<result[p], e>> \notin S
        BY <2>1, <2>2
    <2>4. conn'[result[p]][e] = conn[result[p]][e]
        BY <1>4, <2>1, <2>2, <2>3 DEF Keeping
    <2>. QED
        BY <2>2, <2>4 DEF Keeping, Who
<1>13. SharedByBoth'
    <2>. SUFFICES ASSUME NEW k \in Conns, NEW e \in Ends,
                         conn'[k][e].state = "shared"
                  PROVE  /\ result' = [p \in Peers |-> k]
                         /\ conn'[k][3 - e].state \in {"kept", "shared"}
        BY DEF SharedByBoth
    <2>1. conn[k][e].state = "shared" /\ <<k, e>> \notin S
        BY <1>5
    <2>2. Keeping(k, e) /\ Keeping(k, 3 - e) /\ result = [p \in Peers |-> k]
        BY <2>1 DEF SharedByBoth, Keeping
    <2>3. <<k, 3 - e>> \notin S
        BY <2>1, <2>2, OtherEnd
    <2>4. conn'[k][3 - e] = conn[k][3 - e]
        BY <1>4, <2>2, <2>3, OtherEnd DEF Keeping
    <2>5. /\ result'[Who(k, e)] = k /\ result'[Who(k, 3 - e)] = k
        BY <2>1, <2>2, <2>3, OtherEnd DEF KeeperDone
    <2>6. Peers = {Who(k, e), Who(k, 3 - e)}
        BY <2>2 DEF KeeperDone, KeeperVerified, Attempts, Who, Peers
    <2>. QED
        BY <2>2, <2>4, <2>5, <2>6 DEF Keeping
<1>. QED
    BY <1>6, <1>7, <1>8, <1>9, <1>10, <1>11, <1>12, <1>13

\* What the two ends of a new connection may be.
NewEnd(end) ==
    /\ end \in End
    /\ \/ end.state = "backlog" /\ end.owner \in Attempts /\ end.sent = 0
       \/ end.state = "open" /\ end.owner = Stranger /\ end.sent = 0
       \/ /\ end.state = "open" /\ end.owner \in Attempts /\ end.sent = 1
          /\ attempt[end.owner] = "start" /\ attempt'[end.owner] = "verify"

\* A connection comes into being. Futures that begin to verify dialled it.
LEMMA ConnectedStep ==
    ASSUME IInv, NEW end1, NEW end2, Connected(end1, end2),
           NewEnd(end1), NewEnd(end2),
           ~(/\ end1.state = "open" /\ end2.state = "open"
             /\ end1.owner = end2.owner),
           attempt' \in [Attempts -> AttemptStates],
           \A a \in Attempts : attempt[a] # "start" => attempt'[a] = attempt[a]
    PROVE  IInv'
<1>. USE DEF IInv
<1>1. PICK k \in Conns :
        /\ conn[k] = Free
        /\ conn' = [conn EXCEPT ![k] =
                        [e \in Ends |-> IF e = 1 THEN end1 ELSE end2]]
    BY DEF Connected
<1>2. /\ conn' \in [Conns -> [Ends -> End]]
      /\ conn'[k][1] = end1 /\ conn'[k][2] = end2
      /\ \A j \in Conns \ {k} : conn'[j] = conn[j]
    BY <1>1 DEF TypeOK, NewEnd, Ends
<1>3. UNCHANGED <<secret, result>>
    BY DEF Connected
<1>4. \A e \in Ends : /\ conn[k][e].owner = Stranger /\ conn[k][e].state = "closed"
                      /\ 3 - e \in Ends
    BY <1>1, OtherEnd DEF Free, Ended
<1>5. \A e \in Ends : NewEnd(conn'[k][e])
    BY <1>2 DEF Ends
<1>. HIDE DEF Ends
<1>6. \A e \in Ends : /\ conn'[k][e].state \in {"backlog", "open"}
                      /\ conn'[k][e].sent # 3
                      /\ conn'[k][e].state = "backlog" =>
                            conn'[k][e].owner \in Attempts /\ conn'[k][e].sent = 0
    BY <1>5 DEF NewEnd
<1>7. \A e \in Ends : Verifying(k, e)' =>
        /\ attempt[conn'[k][e].owner] = "start"
        /\ attempt'[conn'[k][e].owner] = "verify"
    BY <1>5, StrangerIsNoAttempt DEF NewEnd, Verifying
<1>8. \A j \in Conns \ {k}, e \in Ends : Verifying(j, e)' =>
        /\ Verifying(j, e)
        /\ attempt[conn'[j][e].owner] = "verify"
        /\ attempt'[conn'[j][e].owner] = "verify"
    BY <1>2 DEF Verifying, TypeOK
<1>9. TypeOK'
    <2>1. \A j \in Conns, e \in Ends :
            Verifying(j, e)' => attempt'[conn'[j][e].owner] = "verify"
        BY <1>7, <1>8
    <2>. QED
        BY <1>2, <1>3, <2>1 DEF TypeOK
<1>10. OneStreamPerAttempt'
    <2>. SUFFICES ASSUME NEW i \in Conns, NEW j \in Conns,
                         NEW e \in Ends, NEW f \in Ends,
                         Verifying(i, e)', Verifying(j, f)',
                         conn'[i][e].owner = conn'[j][f].owner
                  PROVE  i = j /\ e = f
        BY DEF OneStreamPerAttempt
    <2>1. CASE i # k /\ j # k
        BY <1>2, <1>8, <2>1 DEF OneStreamPerAttempt
    <2>2. CASE i = k /\ j = k
        BY <1>2, <2>2 DEF Verifying, Ends
    <2>. QED
        BY <1>7, <1>8, <2>1, <2>2
<1>11. BacklogSilent'
    BY <1>2, <1>6 DEF BacklogSilent
<1>12. KeeperDone' /\ KeeperVerified' /\ NonceMeansKept'
    <2>1. \A j \in Conns, e \in Ends :
            Keeping(j, e)' => j # k /\ Keeping(j, e)
        BY <1>2, <1>6 DEF Keeping
    <2>2. KeeperDone'
        BY <1>2, <1>3, <2>1 DEF KeeperDone, Who
    <2>3. KeeperVerified'
        BY <1>2, <1>3, <2>1 DEF KeeperVerified, Who
    <2>4. NonceMeansKept'
        BY <1>2, <1>6 DEF NonceMeansKept, Keeping
    <2>. QED
        BY <2>2, <2>3, <2>4
<1>13. ResultIsKept'
    <2>. SUFFICES ASSUME NEW p \in Peers, result[p] \in Conns
                  PROVE  \E e \in Ends : Keeping(result[p], e)' /\ Who(result[p], e)' = p
        BY <1>3 DEF ResultIsKept, Keeping, Who
    <2>1. PICK e \in Ends : Keeping(result[p], e) /\ Who(result[p], e) = p
        BY DEF ResultIsKept
    <2>2. result[p] # k
        BY <1>4, <2>1 DEF Keeping
    <2>. QED
        BY <1>2, <1>3, <2>1, <2>2 DEF Keeping, Who
<1>14. SharedByBoth'
    BY <1>2, <1>3, <1>6 DEF SharedByBoth
<1>. QED
    BY <1>9, <1>10, <1>11, <1>12, <1>13, <1>14

LEMMA ReadNonceStep ==
    ASSUME IInv, NEW k \in Conns, NEW e \in Ends, ReadNonce(k, e)
    PROVE  IInv'
<1>. USE DEF IInv
<1>. DEFINE new == [conn[k][e] EXCEPT !.state = "shared"]
<1>1. /\ new \in End /\ new.state = "shared"
      /\ new.owner = conn[k][e].owner /\ new.sent = conn[k][e].sent
    BY EndType DEF End
<1>2. conn' = [conn EXCEPT ![k][e] = new]
    BY DEF ReadNonce
<1>3. /\ UNCHANGED <<secret, attempt, result>>
      /\ conn[k][e].state = "kept" /\ conn[k][3 - e].sent = 3
    BY DEF ReadNonce
<1>. HIDE DEF new
<1>4. /\ conn' \in [Conns -> [Ends -> End]]
      /\ conn'[k][e] = new
      /\ \A j \in Conns, f \in Ends :
            <<j, f>> # <<k, e>> => conn'[j][f] = conn[j][f]
    BY <1>1, <1>2, EndEffect, ZenonT(60)
<1>5. \A j \in Conns, f \in Ends :
        /\ conn'[j][f].owner = conn[j][f].owner
        /\ conn'[j][f].sent = conn[j][f].sent
        /\ conn'[j][f].state \notin {"shared", "kept"} =>
                conn'[j][f].state = conn[j][f].state
        /\ conn'[j][f].state \in {"shared", "kept"} <=>
                conn[j][f].state \in {"shared", "kept"}
    BY <1>1, <1>3, <1>4
<1>6. TypeOK'
    BY <1>3, <1>4, <1>5 DEF TypeOK, Verifying
<1>7. OneStreamPerAttempt' /\ BacklogSilent'
    BY <1>5 DEF OneStreamPerAttempt, BacklogSilent, Verifying
<1>8. KeeperDone' /\ NonceMeansKept' /\ ResultIsKept'
    BY <1>3, <1>5 DEF KeeperDone, NonceMeansKept, ResultIsKept, Keeping, Who
<1>9. KeeperVerified'
    BY <1>3, <1>5, OtherEnd DEF KeeperVerified, Keeping, Who
<1>10. SharedByBoth'
    <2>1. 3 - e \in Ends /\ e # 3 - e /\ 3 - (3 - e) = e
        BY OtherEnd
    <2>2. Keeping(k, e) /\ Keeping(k, 3 - e)
        BY <1>3, <2>1 DEF KeeperVerified, NonceMeansKept, Keeping
    <2>3. result[Who(k, e)] = k /\ result[Who(k, 3 - e)] = k
        BY <2>1, <2>2 DEF KeeperDone
    <2>4. Peers = {Who(k, e), Who(k, 3 - e)}
        BY <2>1, <2>2 DEF KeeperDone, KeeperVerified, Attempts, Who, Peers
    <2>5. result = [p \in Peers |-> k]
        BY <2>3, <2>4 DEF TypeOK
    <2>6. \A j \in Conns, f \in Ends :
            conn'[j][f].state = "shared" /\ <<j, f>> # <<k, e>> =>
                conn[j][f].state = "shared"
        BY <1>4
    <2>. QED
        BY <1>3, <1>5, <2>1, <2>2, <2>5, <2>6, OtherEnd DEF SharedByBoth, Keeping
<1>. QED
    BY <1>6, <1>7, <1>8, <1>9, <1>10

\* Matching codes come from the two peers, with the same secret: a stranger
\* that sends everything back, or the peer itself, has the wrong role in it.
LEMMA CodeIsThePeers ==
    ASSUME TypeOK, NEW k \in Conns, NEW e \in Ends, Verifying(k, e),
           CodeMatches(k, e)
    PROVE  /\ conn[k][3 - e].owner \in Attempts
           /\ Who(k, 3 - e) # Who(k, e)
           /\ secret["creator"] = secret["joiner"]
<1>1. Who(k, e) \in Peers
    BY DEF Verifying, Who, Attempts
<1>2. conn[k][3 - e].owner # Stranger
    BY <1>1 DEF CodeMatches, Received, Code
<1>3. conn[k][3 - e].owner \in Attempts
    BY <1>2, EndType, OtherEnd
<1>4. Who(k, 3 - e) \in Peers
    BY <1>3 DEF Who, Attempts
<1>5. Code(k, 3 - e) = <<Key(k, e), Who(k, e) # "creator">>
    BY <1>2 DEF CodeMatches, Received
<1>6. /\ Key(k, 3 - e) = Key(k, e)
      /\ (Who(k, 3 - e) = "creator") = (Who(k, e) # "creator")
    BY <1>5 DEF Code
<1>7. secret[Who(k, 3 - e)] = secret[Who(k, e)]
    BY <1>6 DEF Key
<1>. QED
    BY <1>1, <1>3, <1>4, <1>6, <1>7 DEF Peers

LEMMA SelectOkStep ==
    ASSUME IInv, NEW k \in Conns, NEW e \in Ends, Verifying(k, e),
           conn[k][3 - e].sent >= 2, CodeMatches(k, e), SelectOk(k, e)
    PROVE  IInv'
<1>. USE DEF IInv
<1>. DEFINE p == Who(k, e)
            S == OtherEnds(p, k, e)
            closed == Close(S)
<1>1. /\ p \in Peers /\ 3 - e \in Ends /\ 3 - e # e
      /\ conn[k][e].owner \in Attempts /\ conn[k][e].state = "open"
      /\ attempt[conn[k][e].owner] = "verify" /\ conn[k][e].owner[1] = p
    BY OtherEnd DEF Verifying, Who, Attempts, TypeOK
<1>2. /\ conn[k][3 - e].owner \in Attempts
      /\ Who(k, 3 - e) # p
      /\ secret["creator"] = secret["joiner"]
    BY CodeIsThePeers
<1>3. \A j \in Conns, f \in Ends : Keeping(j, f) => Who(j, f) # p
    BY <1>1 DEF KeeperDone
<1>4. result[p] \notin Conns
    BY <1>1, <1>3 DEF ResultIsKept
<1>5. \A j \in Conns, f \in Ends :
        <<j, f>> \in S <=> Who(j, f) = p /\ <<j, f>> # <<k, e>>
    BY DEF OtherEnds
<1>6. Closing(S, closed)
    BY CloseEffect
<1>7. /\ result' = [result EXCEPT ![p] = k]
      /\ conn' = [closed EXCEPT ![k][e] = Ended(conn[k][e].owner, "kept", 3)]
      /\ attempt' = [a \in Attempts |-> IF a[1] = p THEN "dropped" ELSE attempt[a]]
      /\ secret' = secret
    BY DEF SelectOk
<1>. HIDE DEF p, S, closed
<1>8. \A f \in Ends : /\ closed[k][f].owner = conn[k][f].owner
                      /\ closed[k][f].sent = conn[k][f].sent
    BY <1>1, <1>5, <1>6 DEF Closing
<1>9. /\ conn' \in [Conns -> [Ends -> End]]
      /\ conn'[k][e].owner = conn[k][e].owner
      /\ conn'[k][e].state = "kept" /\ conn'[k][e].sent = 3
      /\ \A j \in Conns, f \in Ends :
            <<j, f>> # <<k, e>> => conn'[j][f] = closed[j][f]
    <2>1. closed \in [Conns -> [Ends -> End]]
        BY <1>6 DEF Closing
    <2>. DEFINE new == Ended(conn[k][e].owner, "kept", 3)
    <2>2. /\ new \in End /\ new.state = "kept" /\ new.sent = 3
          /\ new.owner = conn[k][e].owner
        BY <1>1 DEF End, Ended
    <2>3. conn' = [closed EXCEPT ![k][e] = new]
        BY <1>7
    <2>. HIDE DEF new
    <2>. QED
        BY <2>1, <2>2, <2>3
<1>10. ASSUME NEW j \in Conns, NEW f \in Ends, <<j, f>> # <<k, e>>,
              conn'[j][f].state # "closed"
       PROVE  /\ conn'[j][f] = conn[j][f] /\ <<j, f>> \notin S
              /\ Who(j, f) # p
    <2>1. Free[f].state = "closed"
        BY DEF Free, Ended
    <2>2. conn'[j][f] = closed[j][f]
        BY <1>9, <1>10
    <2>3. conn'[j][f] = conn[j][f] /\ <<j, f>> \notin S
        BY <1>6, <1>10, <2>1, <2>2 DEF Closing
    <2>. QED
        BY <1>5, <1>10, <2>3
<1>11. ASSUME NEW j \in Conns, NEW f \in Ends, Keeping(j, f)
       PROVE  /\ conn'[j][f] = conn[j][f] /\ <<j, f>> # <<k, e>>
              /\ conn'[j][3 - f].owner = conn[j][3 - f].owner
              /\ conn'[j][3 - f].sent >= conn[j][3 - f].sent
    <2>1. /\ conn[j][f].state # "closed" /\ <<j, f>> # <<k, e>>
          /\ <<j, f>> \notin S
        BY <1>1, <1>3, <1>5, <1>11 DEF Keeping
    <2>2. /\ closed[j][f] = conn[j][f]
          /\ \A g \in Ends : /\ closed[j][g].owner = conn[j][g].owner
                             /\ closed[j][g].sent = conn[j][g].sent
        BY <1>6, <2>1 DEF Closing
    <2>3. 3 - f \in Ends /\ conn[j][3 - f].sent \in 0..3
        BY OtherEnd, EndType
    <2>4. CASE <<j, 3 - f>> = <<k, e>>
        BY <1>9, <2>1, <2>2, <2>3, <2>4
    <2>5. CASE <<j, 3 - f>> # <<k, e>>
        BY <1>9, <2>1, <2>2, <2>3, <2>5
    <2>. QED
        BY <2>4, <2>5
<1>12. TypeOK'
    <2>1. ASSUME NEW j \in Conns, NEW f \in Ends, Verifying(j, f)'
          PROVE  attempt'[conn'[j][f].owner] = "verify"
        <3>1. <<j, f>> # <<k, e>>
            BY <1>9, <2>1 DEF Verifying
        <3>2. conn'[j][f] = conn[j][f] /\ Who(j, f) # p
            BY <1>10, <2>1, <3>1 DEF Verifying
        <3>. QED
            BY <1>7, <2>1, <3>2 DEF Verifying, Who, TypeOK
    <2>2. attempt' \in [Attempts -> AttemptStates]
        BY <1>7 DEF TypeOK, AttemptStates
    <2>. QED
        BY <1>1, <1>7, <1>9, <2>1, <2>2 DEF TypeOK
<1>13. OneStreamPerAttempt'
    <2>1. ASSUME NEW j \in Conns, NEW f \in Ends, Verifying(j, f)'
          PROVE  Verifying(j, f) /\ conn'[j][f] = conn[j][f]
        <3>1. <<j, f>> # <<k, e>>
            BY <1>9, <2>1 DEF Verifying
        <3>. QED
            BY <1>10, <2>1, <3>1 DEF Verifying
    <2>. QED
        BY <2>1 DEF OneStreamPerAttempt
<1>14. BacklogSilent'
    <2>. SUFFICES ASSUME NEW j \in Conns, NEW f \in Ends,
                         conn'[j][f].state = "backlog"
                  PROVE  conn'[j][f].owner \in Attempts /\ conn'[j][f].sent = 0
        BY DEF BacklogSilent
    <2>1. <<j, f>> # <<k, e>>
        BY <1>9
    <2>2. conn'[j][f] = conn[j][f]
        BY <1>10, <2>1
    <2>. QED
        BY <2>2 DEF BacklogSilent
<1>15. ASSUME NEW j \in Conns, NEW f \in Ends, Keeping(j, f)',
              <<j, f>> # <<k, e>>
       PROVE  Keeping(j, f) /\ Who(j, f) # p /\ Who(j, f)' = Who(j, f)
    BY <1>10, <1>15 DEF Keeping, Who
<1>16. KeeperDone'
    <2>. SUFFICES ASSUME NEW j \in Conns, NEW f \in Ends, Keeping(j, f)'
                  PROVE  /\ conn'[j][f].owner \in Attempts
                         /\ conn'[j][f].sent = 3
                         /\ result'[Who(j, f)'] = j
                         /\ \A a \in Attempts :
                                a[1] = Who(j, f)' => attempt'[a] = "dropped"
        BY DEF KeeperDone
    <2>1. CASE <<j, f>> = <<k, e>>
        BY <1>1, <1>7, <1>9, <2>1 DEF Who, TypeOK
    <2>2. CASE <<j, f>> # <<k, e>>
        <3>1. Keeping(j, f) /\ Who(j, f) # p /\ Who(j, f)' = Who(j, f)
            BY <1>15, <2>2
        <3>2. conn'[j][f] = conn[j][f]
            BY <1>11, <3>1
        <3>3. Who(j, f) \in Peers
            BY <3>1 DEF KeeperDone, Who, Attempts
        <3>. QED
            BY <1>7, <3>1, <3>2, <3>3 DEF KeeperDone, TypeOK, Who
    <2>. QED
        BY <2>1, <2>2
<1>17. KeeperVerified'
    <2>. SUFFICES ASSUME NEW j \in Conns, NEW f \in Ends, Keeping(j, f)'
                  PROVE  /\ conn'[j][3 - f].owner \in Attempts
                         /\ Who(j, 3 - f)' # Who(j, f)'
                         /\ conn'[j][3 - f].sent >= 2
                         /\ secret'["creator"] = secret'["joiner"]
        BY DEF KeeperVerified
    <2>1. CASE <<j, f>> = <<k, e>>
        <3>1. conn'[k][3 - e] = closed[k][3 - e]
            BY <1>1, <1>9
        <3>. QED
            BY <1>1, <1>2, <1>7, <1>8, <1>9, <2>1, <3>1 DEF Who, p
    <2>2. CASE <<j, f>> # <<k, e>>
        <3>1. Keeping(j, f) /\ Who(j, f) # p /\ Who(j, f)' = Who(j, f)
            BY <1>15, <2>2
        <3>2. /\ conn'[j][3 - f].owner = conn[j][3 - f].owner
              /\ conn'[j][3 - f].sent >= conn[j][3 - f].sent
            BY <1>11, <3>1
        <3>3. conn'[j][3 - f].sent \in 0..3 /\ conn[j][3 - f].sent \in 0..3
            BY <1>12, EndType, OtherEnd DEF TypeOK, End
        <3>4. /\ conn[j][3 - f].owner \in Attempts
              /\ Who(j, 3 - f) # Who(j, f)
              /\ conn[j][3 - f].sent >= 2
            BY <3>1 DEF KeeperVerified
        <3>5. Who(j, 3 - f)' = Who(j, 3 - f)
            BY <3>2 DEF Who
        <3>. QED
            BY <1>2, <1>7, <3>1, <3>2, <3>3, <3>4, <3>5
    <2>. QED
        BY <2>1, <2>2
<1>18. NonceMeansKept'
    <2>. SUFFICES ASSUME NEW j \in Conns, NEW f \in Ends, <<j, f>> # <<k, e>>,
                         conn'[j][f].owner \in Attempts, conn'[j][f].sent = 3
                  PROVE  Keeping(j, f)'
        BY <1>9 DEF NonceMeansKept, Keeping
    <2>1. conn'[j][f] = closed[j][f]
        BY <1>9
    <2>2. Free[f].owner \notin Attempts
        BY StrangerIsNoAttempt DEF Free, Ended
    <2>3. conn[j][f].owner \in Attempts /\ conn[j][f].sent = 3
        <3>1. closed[j] # Free
            BY <2>1, <2>2
        <3>2. /\ closed[j][f].owner = conn[j][f].owner
              /\ closed[j][f].sent = conn[j][f].sent
            BY <1>6, <3>1 DEF Closing
        <3>. QED
            BY <2>1, <3>2
    <2>4. Keeping(j, f)
        BY <2>3 DEF NonceMeansKept
    <2>. QED
        BY <1>11, <2>4 DEF Keeping
<1>19. ResultIsKept'
    <2>. SUFFICES ASSUME NEW q \in Peers, result'[q] \in Conns
                  PROVE  \E f \in Ends : /\ conn'[result'[q]][f].state \in {"kept", "shared"}
                                         /\ conn'[result'[q]][f].owner[1] = q
        BY DEF ResultIsKept, Keeping, Who
    <2>1. CASE q = p
        BY <1>1, <1>7, <1>9, <2>1 DEF TypeOK
    <2>2. CASE q # p
        <3>1. result'[q] = result[q]
            BY <1>7, <2>2 DEF TypeOK
        <3>2. PICK f \in Ends : Keeping(result[q], f) /\ Who(result[q], f) = q
            BY <3>1 DEF ResultIsKept
        <3>3. conn'[result[q]][f] = conn[result[q]][f]
            BY <1>11, <3>1, <3>2
        <3>. QED
            BY <3>1, <3>2, <3>3 DEF Keeping, Who
    <2>. QED
        BY <2>1, <2>2
<1>20. SharedByBoth'
    <2>. SUFFICES ASSUME NEW j \in Conns, NEW f \in Ends,
                         conn'[j][f].state = "shared"
                  PROVE  FALSE
        BY DEF SharedByBoth
    <2>1. <<j, f>> # <<k, e>>
        BY <1>9
    <2>2. conn[j][f].state = "shared"
        BY <1>10, <2>1
    <2>. QED
        BY <1>1, <1>4, <2>2 DEF SharedByBoth
<1>. QED
    BY <1>12, <1>13, <1>14, <1>16, <1>17, <1>18, <1>19, <1>20

----------------------------------------------------------------------------
\* The actions.

LEMMA ListenStep ==
    ASSUME IInv, NEW p \in Peers, Listen(p)
    PROVE  IInv'
BY QuietStep DEF IInv, TypeOK, Listen, AttemptStates

LEMMA AllFailedStep ==
    ASSUME IInv, NEW p \in Peers, AllFailed(p)
    PROVE  IInv'
<1>. USE DEF IInv
<1>1. /\ result[p] = Trying /\ result' = [result EXCEPT ![p] = Err]
      /\ UNCHANGED <<secret, attempt, conn>>
    BY DEF AllFailed
<1>2. Trying \notin Conns /\ Err \notin Conns
    BY ConnectorAssumption DEF Conns
<1>3. \A k \in Conns, e \in Ends :
        Keeping(k, e) => Who(k, e) \in Peers /\ Who(k, e) # p
    BY <1>1, <1>2 DEF KeeperDone, Who, Attempts
<1>4. TypeOK' /\ OneStreamPerAttempt' /\ BacklogSilent' /\ NonceMeansKept'
    BY <1>1 DEF TypeOK, OneStreamPerAttempt, BacklogSilent, NonceMeansKept,
                Verifying, Keeping
<1>5. KeeperDone'
    BY <1>1, <1>3 DEF TypeOK, KeeperDone, Keeping, Who
<1>6. KeeperVerified'
    BY <1>1 DEF KeeperVerified, Keeping, Who
<1>7. ResultIsKept'
    BY <1>1, <1>2 DEF TypeOK, ResultIsKept, Keeping, Who
<1>8. SharedByBoth'
    BY <1>1, <1>2 DEF SharedByBoth
<1>. QED
    BY <1>4, <1>5, <1>6, <1>7, <1>8

LEMMA AcceptStep ==
    ASSUME IInv, NEW p \in Peers, Accept(p)
    PROVE  IInv'
<1>. DEFINE a == <<p, "accept">>
<1>. DEFINE new == Ended(a, "open", 1)
<1>1. PICK k \in Conns :
        /\ conn[k][2].owner = a /\ conn[k][2].state = "backlog"
        /\ conn' = [conn EXCEPT ![k][2] = new]
    BY DEF Accept
<1>2. /\ attempt[a] = "accept" /\ attempt' = [attempt EXCEPT ![a] = "verify"]
      /\ UNCHANGED <<secret, result>>
    BY DEF Accept
<1>3. a \in Attempts /\ 2 \in Ends
    BY DEF Attempts, Ends
<1>4. new \in End /\ new.owner = a /\ new.state = "open" /\ new.sent = 1
    BY <1>3 DEF End, Ended
<1>5. conn[k][2].sent = 0
    BY <1>1, <1>3 DEF IInv, BacklogSilent
<1>6. /\ attempt' \in [Attempts -> AttemptStates] /\ attempt'[a] = "verify"
      /\ \A b \in Attempts : b # a => attempt'[b] = attempt[b]
    BY <1>2, <1>3 DEF IInv, TypeOK, AttemptStates
<1>. HIDE DEF new, a
<1>7. /\ new.owner = conn[k][2].owner /\ new.sent >= conn[k][2].sent
      /\ new.sent <= 2
    BY <1>1, <1>4, <1>5
<1>8. /\ attempt'[new.owner] = "verify"
      /\ attempt[new.owner] # "dropped" /\ attempt[new.owner] # "verify"
      /\ \A b \in Attempts : b # new.owner => attempt'[b] = attempt[b]
    BY <1>2, <1>4, <1>6
<1>. QED
    BY <1>1, <1>2, <1>3, <1>4, <1>6, <1>7, <1>8, OpenEndStep

LEMMA ReadMessageStep ==
    ASSUME IInv, NEW k \in Conns, NEW e \in Ends, ReadMessage(k, e)
    PROVE  IInv'
<1>. DEFINE new == [conn[k][e] EXCEPT !.sent = 2]
<1>1. Verifying(k, e) /\ conn[k][e].sent = 1
    BY DEF ReadMessage
<1>2. conn' = [conn EXCEPT ![k][e] = new]
    BY DEF ReadMessage
<1>3. UNCHANGED <<secret, attempt, result>>
    BY DEF ReadMessage
<1>4. /\ conn[k][e].owner \in Attempts /\ conn[k][e].state = "open"
      /\ attempt[conn[k][e].owner] = "verify"
      /\ attempt' \in [Attempts -> AttemptStates]
    BY <1>1, <1>3 DEF IInv, Verifying, TypeOK
<1>5. /\ new \in End /\ new.sent = 2 /\ new.owner = conn[k][e].owner
      /\ new.state = conn[k][e].state
    BY EndType DEF IInv, End
<1>. HIDE DEF new
<1>6. /\ new.sent >= conn[k][e].sent /\ new.sent <= 2
      /\ new.state = "open" /\ new.owner \in Attempts
      /\ attempt[new.owner] = "verify" /\ attempt'[new.owner] = "verify"
      /\ \A b \in Attempts : attempt'[b] = attempt[b]
    BY <1>1, <1>3, <1>4, <1>5
<1>. QED
    BY <1>2, <1>3, <1>4, <1>5, <1>6, OpenEndStep

LEMMA StrangerActsStep ==
    ASSUME IInv, NEW k \in Conns, NEW e \in Ends, StrangerActs(k, e)
    PROVE  IInv'
<1>1. /\ conn[k][e].owner = Stranger /\ conn[k][e].state = "open"
      /\ conn[k][e].owner \notin Attempts
      /\ UNCHANGED <<secret, attempt, result>>
    BY StrangerIsNoAttempt DEF StrangerActs
<1>2. CASE /\ conn[k][e].sent < conn[k][3 - e].sent
           /\ conn' = [conn EXCEPT ![k][e].sent = @ + 1]
    <2>. DEFINE new == [conn[k][e] EXCEPT !.sent = @ + 1]
    <2>1. conn[k][e].sent + 1 \in 0..3 /\ conn[k][e].sent \in 0..3
        BY <1>2, EndType, OtherEnd DEF IInv
    <2>2. /\ new \in End /\ new.sent = conn[k][e].sent + 1
          /\ new.owner = conn[k][e].owner /\ new.state = conn[k][e].state
        BY <2>1, EndType DEF IInv, End
    <2>3. conn' = [conn EXCEPT ![k][e] = new]
        BY <1>2
    <2>4. attempt' \in [Attempts -> AttemptStates]
        BY <1>1 DEF IInv, TypeOK
    <2>5. new.sent >= conn[k][e].sent
        BY <2>1, <2>2
    <2>. HIDE DEF new
    <2>. QED
        BY <1>1, <2>2, <2>3, <2>4, <2>5, OpenEndStep
<1>. USE DEF IInv
<1>3. CASE conn' = Close({<<k, e>>})
    <2>. DEFINE S == {<<k, e>>}
    <2>1. Closing(S, conn')
        BY <1>3, CloseEffect
    <2>2. ~Keeping(k, e) /\ ~Verifying(k, e)
        BY <1>1 DEF Keeping, Verifying
    <2>3. \A j \in Conns, f \in Ends : <<j, f>> \in S => j = k /\ f = e
        OBVIOUS
    <2>. HIDE DEF S
    <2>. QED
        BY <1>1, <2>1, <2>2, <2>3, CloseStep DEF TypeOK
<1>. QED
    BY <1>2, <1>3 DEF StrangerActs

LEMMA AttemptFailsStep ==
    ASSUME IInv, NEW a \in Attempts, AttemptFails(a)
    PROVE  IInv'
<1>. USE DEF IInv
<1>. DEFINE S == {x \in Conns \X Ends : conn[x[1]][x[2]].owner = a}
<1>1. /\ attempt[a] \in {"start", "accept"}
      /\ attempt' = [attempt EXCEPT ![a] = "failed"]
      /\ conn' = Close(S)
      /\ UNCHANGED <<secret, result>>
    BY DEF AttemptFails
<1>2. Closing(S, conn')
    BY <1>1, CloseEffect
<1>3. \A k \in Conns, e \in Ends : <<k, e>> \in S <=> conn[k][e].owner = a
    OBVIOUS
<1>. HIDE DEF S
<1>4. \A k \in Conns, e \in Ends : Keeping(k, e) => <<k, e>> \notin S
    BY <1>1, <1>3 DEF KeeperDone, Who
<1>5. \A k \in Conns, e \in Ends :
        Verifying(k, e) => attempt'[conn[k][e].owner] = "verify"
    BY <1>1 DEF TypeOK, Verifying
<1>6. attempt' \in [Attempts -> AttemptStates]
    BY <1>1 DEF TypeOK, AttemptStates
<1>7. \A b \in Attempts : attempt[b] = "dropped" => attempt'[b] = "dropped"
    BY <1>1 DEF TypeOK
<1>. QED
    BY <1>1, <1>2, <1>4, <1>5, <1>6, <1>7, CloseStep DEF TypeOK

LEMMA VerifyFailsStep ==
    ASSUME IInv, NEW k \in Conns, NEW e \in Ends, Verifying(k, e),
           VerifyFails(k, e)
    PROVE  IInv'
<1>. USE DEF IInv
<1>. DEFINE S == {<<k, e>>}
            a == conn[k][e].owner
<1>1. /\ conn' = Close(S)
      /\ attempt' = [attempt EXCEPT ![a] =
                        IF a[2] = "accept" THEN "accept" ELSE "start"]
      /\ UNCHANGED <<secret, result>>
    BY DEF VerifyFails
<1>2. a \in Attempts /\ attempt[a] = "verify" /\ ~Keeping(k, e)
    BY DEF Verifying, TypeOK, Keeping
<1>3. Closing(S, conn')
    BY <1>1, CloseEffect
<1>4. \A j \in Conns, f \in Ends : <<j, f>> \in S <=> j = k /\ f = e
    OBVIOUS
<1>5. attempt' \in [Attempts -> AttemptStates]
    BY <1>1, <1>2 DEF TypeOK, AttemptStates
<1>6. \A b \in Attempts : b # a => attempt'[b] = attempt[b]
    BY <1>1 DEF TypeOK
<1>. HIDE DEF S, a
<1>7. \A j \in Conns, f \in Ends :
        Verifying(j, f) /\ <<j, f>> \notin S => conn[j][f].owner # a
    BY <1>4 DEF OneStreamPerAttempt, a
<1>8. \A j \in Conns, f \in Ends :
        Verifying(j, f) /\ <<j, f>> \notin S =>
            attempt'[conn[j][f].owner] = "verify"
    BY <1>6, <1>7 DEF TypeOK, Verifying
<1>9. \A j \in Conns, f \in Ends : Keeping(j, f) => <<j, f>> \notin S
    BY <1>2, <1>4
<1>10. \A b \in Attempts : attempt[b] = "dropped" => attempt'[b] = "dropped"
    BY <1>2, <1>6
<1>. QED
    BY <1>1, <1>3, <1>5, <1>8, <1>9, <1>10, CloseStep DEF TypeOK

LEMMA NonceFailsStep ==
    ASSUME IInv, NEW k \in Conns, NEW e \in Ends, NonceFails(k, e)
    PROVE  IInv'
<1>. USE DEF IInv
<1>. DEFINE S == {<<k, e>>}
            p == Who(k, e)
<1>1. /\ conn[k][e].state = "kept" /\ conn[k][3 - e].state = "closed"
      /\ conn' = Close(S)
      /\ result' = [result EXCEPT ![p] = Err]
      /\ UNCHANGED <<secret, attempt>>
    BY DEF NonceFails
<1>2. /\ p \in Peers /\ Keeping(k, e) /\ Err \notin Conns /\ result[p] = k
    BY <1>1, ConnectorAssumption DEF Keeping, KeeperDone, Who, Attempts, Conns
<1>3. Closing(S, conn')
    BY <1>1, CloseEffect
<1>4. \A j \in Conns, f \in Ends : <<j, f>> \in S <=> j = k /\ f = e
    OBVIOUS
<1>5. /\ result' \in [Peers -> Conns \cup {Trying, Err}]
      /\ result'[p] = Err
      /\ \A q \in Peers : q # p => result'[q] = result[q]
    BY <1>1, <1>2 DEF TypeOK
<1>. HIDE DEF S
<1>6. ASSUME NEW j \in Conns, NEW f \in Ends, Keeping(j, f), <<j, f>> \notin S
      PROVE  Who(j, f) # p /\ Who(j, f) \in Peers
    <2>1. result[Who(j, f)] = j /\ Who(j, f) \in Peers
        BY <1>6 DEF KeeperDone, Who, Attempts
    <2>2. f = e \/ f = 3 - e
        BY OtherEnd
    <2>3. j = k => f = 3 - e
        BY <1>4, <1>6, <2>2
    <2>4. j = k => FALSE
        BY <1>1, <1>6, <2>3 DEF Keeping
    <2>. QED
        BY <1>2, <2>1, <2>4
<1>. HIDE DEF p
<1>7. ASSUME NEW j \in Conns, NEW f \in Ends, Keeping(j, f)
      PROVE  IF <<j, f>> \in S
             THEN /\ conn[j][3 - f].state = "closed"
                  /\ result'[Who(j, f)] \notin Conns
             ELSE result'[Who(j, f)] = result[Who(j, f)]
    BY <1>1, <1>2, <1>4, <1>5, <1>6, <1>7 DEF p
<1>8. \A j \in Conns, f \in Ends :
        Verifying(j, f) => attempt'[conn[j][f].owner] = "verify"
    BY <1>1 DEF TypeOK
<1>9. \A q \in Peers : result'[q] = result[q] \/ result'[q] \notin Conns
    BY <1>2, <1>5
<1>. QED
    BY <1>1, <1>3, <1>5, <1>7, <1>8, <1>9, CloseStep DEF TypeOK

LEMMA StrangerDialsStep ==
    ASSUME IInv, NEW p \in Peers, StrangerDials(p)
    PROVE  IInv'
<1>1. Connected(Elsewhere, Waiting(p)) /\ attempt' = attempt
    BY DEF StrangerDials
<1>2. NewEnd(Elsewhere) /\ NewEnd(Waiting(p))
    BY DEF NewEnd, Elsewhere, Waiting, Ended, End, Attempts
<1>3. Waiting(p).state # "open"
    BY DEF Waiting, Ended
<1>4. attempt' \in [Attempts -> AttemptStates]
    BY <1>1 DEF IInv, TypeOK
<1>. QED
    BY <1>1, <1>2, <1>3, <1>4, ConnectedStep

\* An end that connect has returned, as far as its future goes.
LEMMA DialedEnd ==
    ASSUME NEW a \in Attempts, attempt[a] = "start", attempt'[a] = "verify"
    PROVE  NewEnd(Dialed(a)) /\ Dialed(a).owner = a
BY DEF NewEnd, Dialed, Ended, End

\* A connect that reaches an end with nobody in verify_peer.
LEMMA DialOneStep ==
    ASSUME IInv, NEW a \in Attempts, attempt[a] = "start", NEW end,
           Connected(Dialed(a), end), NewEnd(end),
           end.state # "open" \/ end.owner = Stranger,
           attempt' = [attempt EXCEPT ![a] = "verify"]
    PROVE  IInv'
<1>1. /\ attempt' \in [Attempts -> AttemptStates] /\ attempt'[a] = "verify"
      /\ \A b \in Attempts : attempt[b] # "start" => attempt'[b] = attempt[b]
    BY DEF IInv, TypeOK, AttemptStates
<1>2. NewEnd(Dialed(a)) /\ Dialed(a).owner = a
    BY <1>1, DialedEnd
<1>3. Dialed(a).owner # Stranger
    BY <1>2, StrangerIsNoAttempt
<1>. QED
    BY <1>1, <1>2, <1>3, ConnectedStep

\* Two connects that meet.
LEMMA DialTwoStep ==
    ASSUME IInv, NEW a \in Attempts, NEW b \in Attempts, a # b,
           attempt[a] = "start", attempt[b] = "start",
           Connected(Dialed(a), Dialed(b)),
           attempt' = [attempt EXCEPT ![a] = "verify", ![b] = "verify"]
    PROVE  IInv'
<1>1. /\ attempt' \in [Attempts -> AttemptStates]
      /\ attempt'[a] = "verify" /\ attempt'[b] = "verify"
      /\ \A c \in Attempts : attempt[c] # "start" => attempt'[c] = attempt[c]
    BY DEF IInv, TypeOK, AttemptStates
<1>2. /\ NewEnd(Dialed(a)) /\ Dialed(a).owner = a
      /\ NewEnd(Dialed(b)) /\ Dialed(b).owner = b
    BY <1>1, DialedEnd
<1>. QED
    BY <1>1, <1>2, ConnectedStep

LEMMA DialStep ==
    ASSUME IInv, NEW p \in Peers, NEW d \in Dials, Dial(p, d)
    PROVE  IInv'
<1>. DEFINE a == <<p, d>>
            q == Other(p)
<1>1. a \in Attempts /\ attempt[a] = "start" /\ q \in Peers /\ q # p
    BY OtherIsPeer DEF Dial, Attempts
<1>2. ASSUME NEW r \in Peers
      PROVE  NewEnd(Waiting(r)) /\ Waiting(r).state # "open"
    BY DEF NewEnd, Waiting, Ended, End, Attempts
<1>3. NewEnd(Elsewhere) /\ Elsewhere.owner = Stranger
    BY DEF NewEnd, Elsewhere, Ended, End
<1>4. ASSUME NEW end, end \in {Waiting(q), Waiting(p), Elsewhere},
             Connected(Dialed(a), end),
             attempt' = [attempt EXCEPT ![a] = "verify"]
      PROVE  IInv'
    <2>1. NewEnd(end) /\ (end.state # "open" \/ end.owner = Stranger)
        BY <1>1, <1>2, <1>3, <1>4
    <2>. HIDE DEF a
    <2>. QED
        BY <1>1, <1>4, <2>1, DialOneStep
<1>5. ASSUME NEW b \in {q} \X Dials, attempt[b] = "start",
             Connected(Dialed(a), Dialed(b)),
             attempt' = [attempt EXCEPT ![a] = "verify", ![b] = "verify"]
      PROVE  IInv'
    <2>1. b \in Attempts /\ a # b
        BY <1>1 DEF Attempts
    <2>. HIDE DEF a
    <2>. QED
        BY <1>1, <1>5, <2>1, DialTwoStep
<1>. QED
    BY <1>4, <1>5 DEF Dial

LEMMA ReadCodeStep ==
    ASSUME IInv, NEW k \in Conns, NEW e \in Ends, ReadCode(k, e)
    PROVE  IInv'
BY SelectOkStep, VerifyFailsStep DEF ReadCode

LEMMA ReadFailsStep ==
    ASSUME IInv, NEW k \in Conns, NEW e \in Ends, ReadFails(k, e)
    PROVE  IInv'
BY VerifyFailsStep DEF ReadFails

LEMMA NextIInv == IInv /\ [Next]_vars => IInv'
<1>. SUFFICES ASSUME IInv, [Next]_vars PROVE IInv'
    OBVIOUS
<1>1. CASE UNCHANGED vars
    <2>1. /\ UNCHANGED <<secret, conn, result>>
          /\ attempt' = attempt
          /\ attempt' \in [Attempts -> AttemptStates]
        BY <1>1 DEF vars, IInv, TypeOK
    <2>. QED
        BY <2>1, QuietStep
<1>2. ASSUME NEW a \in Attempts, AttemptFails(a) PROVE IInv'
    BY <1>2, AttemptFailsStep
<1>3. ASSUME NEW p \in Peers,
             \/ Listen(p) \/ Accept(p) \/ AllFailed(p) \/ StrangerDials(p)
             \/ \E d \in Dials : Dial(p, d)
      PROVE  IInv'
    BY <1>3, ListenStep, AcceptStep, AllFailedStep, StrangerDialsStep, DialStep
<1>4. ASSUME NEW k \in Conns, NEW e \in Ends,
             Verify(k, e) \/ Share(k, e) \/ StrangerActs(k, e)
      PROVE  IInv'
    BY <1>4, ReadMessageStep, ReadCodeStep, ReadFailsStep, ReadNonceStep,
       NonceFailsStep, StrangerActsStep DEF Verify, Share
<1>. QED
    BY <1>1, <1>2, <1>3, <1>4 DEF Next

LEMMA Invariance == Spec => []IInv
BY InitIInv, NextIInv, PTL DEF Spec

----------------------------------------------------------------------------
\* Every future, end and result of connect_to_peer stays of its type, and an
\* end in verify_peer belongs to a future that is there.
THEOREM TypeCorrect == Spec => []TypeOK
<1>1. IInv => TypeOK
    BY DEF IInv
<1>. QED
    BY <1>1, Invariance, PTL

\* Whatever is dialled and whoever answers, the connection that
\* connect_to_peer returns leads to the other peer, which has the same secret
\* and has sent its verification code.
THEOREM KeptOnlyFromThePeer == Spec => []KeptIsThePeer
<1>1. ASSUME IInv PROVE KeptIsThePeer
    <2>. SUFFICES ASSUME NEW p \in Peers, result[p] \in Conns
                  PROVE  /\ Joins(result[p], "creator", "joiner")
                         /\ secret["creator"] = secret["joiner"]
                         /\ \A e \in Ends : conn[result[p]][e].sent >= 2
        BY DEF KeptIsThePeer
    <2>. DEFINE k == result[p]
    <2>1. PICK e \in Ends : Keeping(k, e)
        BY <1>1 DEF IInv, ResultIsKept
    <2>. HIDE DEF k
    <2>2. k \in Conns
        BY DEF k
    <2>3. /\ conn[k][e].owner \in Attempts /\ conn[k][e].sent = 3
          /\ conn[k][3 - e].owner \in Attempts /\ conn[k][3 - e].sent >= 2
          /\ Who(k, 3 - e) # Who(k, e)
          /\ secret["creator"] = secret["joiner"]
        BY <1>1, <2>1, <2>2 DEF IInv, KeeperDone, KeeperVerified
    <2>4. \A f \in Ends : conn[k][f].sent >= 2
        BY <2>3, OtherEnd
    <2>5. Who(k, 1) \in Peers /\ Who(k, 2) \in Peers /\ Who(k, 1) # Who(k, 2)
        BY <2>3 DEF Who, Attempts, Ends
    <2>6. Joins(k, "creator", "joiner")
        BY <2>5 DEF Joins, Peers
    <2>. QED
        BY <2>3, <2>4, <2>6 DEF k
<1>. QED
    BY <1>1, Invariance, PTL

\* The two sides may keep different connections; a session starts only where
\* both keep the same one.
THEOREM SessionIsShared == Spec => []SharedByBoth
<1>1. IInv => SharedByBoth
    BY DEF IInv
<1>. QED
    BY <1>1, Invariance, PTL
=============================================================================

-------------------------- MODULE AcceptLoopProofs --------------------------
(***************************************************************************)
(* The safety of the accept loop and its rate limit, for every set of      *)
(* streams and addresses, infinite ones included.                          *)
(***************************************************************************)
EXTENDS AcceptLoop, FiniteSetTheorems, TLAPS

\* A stream is parked at its own address and nowhere else.
ParkedAtItsAddress ==
    \A ip \in Ips : parked[ip] # None => IpOf[parked[ip]] = ip

\* Nobody is parked at the address of the stream the accept loop is at: only
\* the loop parks streams, and it is busy.
LoopFindsNone ==
    \A s \in Streams : status[s] = "loop" => parked[IpOf[s]] = None

Arrivals == {t \in Streams : arrived[t] > 0}

\* The streams accepted so far are numbered up to how many they are.
ArrivalsCounted ==
    /\ IsFiniteSet(Arrivals)
    /\ \A t \in Streams : arrived[t] <= Cardinality(Arrivals)

\* A stream that was not accepted has no number yet.
BacklogUnnumbered ==
    \A t \in Streams : status[t] = "backlog" => arrived[t] = 0

\* The inductive invariant.
IInv ==
    /\ TypeOK
    /\ ParkedAtItsAddress
    /\ LoopFindsNone
    /\ ArrivalsCounted
    /\ BacklogUnnumbered
    /\ BlockedHasSleeper
    /\ WaitingIsNewest

----------------------------------------------------------------------------
LEMMA InitIInv == Init => IInv
<1>. SUFFICES ASSUME Init PROVE IInv
    OBVIOUS
<1>1. TypeOK
    BY StreamAssumption DEF Init, TypeOK, Statuses
<1>2. Arrivals = {}
    BY DEF Init, Arrivals
<1>3. ArrivalsCounted
    BY <1>2, FS_EmptySet DEF Init, ArrivalsCounted
<1>. QED
    BY <1>1, <1>3 DEF Init, IInv, ParkedAtItsAddress, LoopFindsNone,
                      BacklogUnnumbered, BlockedHasSleeper, WaitingIsNewest

\* Accepting a stream gives it a number above all others.
LEMMA AcceptedIsNewest ==
    ASSUME TypeOK, ArrivalsCounted, BacklogUnnumbered,
           NEW s \in Streams, Accepted(s)
    PROVE  /\ ArrivalsCounted'
           /\ arrived' \in [Streams -> Nat]
           /\ \A t \in Streams \ {s} :
                arrived'[t] = arrived[t] /\ arrived'[t] < arrived'[s]
<1>. DEFINE n == Cardinality(Arrivals)
<1>1. n \in Nat
    BY FS_CardinalityType DEF ArrivalsCounted
<1>2. arrived' = [arrived EXCEPT ![s] = n + 1]
    BY DEF Accepted, Arrivals
<1>3. /\ arrived' \in [Streams -> Nat]
      /\ arrived'[s] = n + 1
      /\ \A t \in Streams \ {s} : arrived'[t] = arrived[t]
    BY <1>1, <1>2 DEF TypeOK
<1>4. \A t \in Streams : arrived[t] \in Nat /\ arrived[t] <= n
    BY DEF TypeOK, ArrivalsCounted
<1>5. Arrivals' = Arrivals \cup {s} /\ s \notin Arrivals
    BY <1>1, <1>3 DEF Arrivals, Accepted, BacklogUnnumbered
<1>6. IsFiniteSet(Arrivals') /\ Cardinality(Arrivals') = n + 1
    BY <1>5, FS_AddElement DEF ArrivalsCounted
<1>. QED
    BY <1>1, <1>3, <1>4, <1>6 DEF ArrivalsCounted

----------------------------------------------------------------------------
\* One lemma per action of the loop and the tasks.

LEMMA ParkStep ==
    ASSUME IInv, NEW s \in Streams, Park(s)
    PROVE  IInv'
<1>. USE StreamAssumption DEF IInv
<1>1. /\ ArrivalsCounted'
      /\ arrived' \in [Streams -> Nat]
      /\ \A t \in Streams \ {s} :
            arrived'[t] = arrived[t] /\ arrived'[t] < arrived'[s]
    BY AcceptedIsNewest DEF Park
<1>2. /\ parked' = [parked EXCEPT ![IpOf[s]] = s]
      /\ status' = Replacing(s, "waiting")
      /\ keys' = keys /\ timer' = timer
      /\ status[s] = "backlog" /\ IpOf[s] \in keys
      /\ \A t \in Streams : status[t] # "loop"
    BY DEF Park, Accepted
<1>3. /\ status'[s] = "waiting"
      /\ \A t \in Streams \ {s} :
            status'[t] = IF t = parked[IpOf[s]] THEN "dropped" ELSE status[t]
      /\ status' \in [Streams -> Statuses]
    BY <1>2 DEF Replacing, TypeOK, Statuses
<1>4. \A t \in Streams : status'[t] = "waiting" /\ t # s => IpOf[t] # IpOf[s]
    BY <1>3 DEF TypeOK, ParkedAtItsAddress
<1>5. TypeOK'
    <2>1. \A t \in Streams :
            status'[t] = "waiting" <=> \E ip \in Ips : parked'[ip] = t
        BY <1>2, <1>3 DEF TypeOK, ParkedAtItsAddress
    <2>. QED
        BY <1>1, <1>2, <1>3, <2>1 DEF TypeOK
<1>6. ParkedAtItsAddress'
    BY <1>2 DEF TypeOK, ParkedAtItsAddress
<1>7. LoopFindsNone' /\ BacklogUnnumbered'
    BY <1>1, <1>2, <1>3 DEF TypeOK, LoopFindsNone, BacklogUnnumbered
<1>8. BlockedHasSleeper'
    BY <1>2 DEF BlockedHasSleeper
<1>9. WaitingIsNewest'
    BY <1>1, <1>3, <1>4 DEF TypeOK, WaitingIsNewest
<1>. QED
    BY <1>1, <1>5, <1>6, <1>7, <1>8, <1>9

LEMMA AdmitStep ==
    ASSUME IInv, NEW s \in Streams, Admit(s)
    PROVE  IInv'
<1>. USE StreamAssumption DEF IInv
<1>1. /\ ArrivalsCounted'
      /\ arrived' \in [Streams -> Nat]
      /\ \A t \in Streams \ {s} :
            arrived'[t] = arrived[t] /\ arrived'[t] < arrived'[s]
    BY AcceptedIsNewest DEF Admit
<1>2. /\ status' = [status EXCEPT ![s] = "loop"]
      /\ UNCHANGED <<keys, parked, timer>>
      /\ status[s] = "backlog" /\ IpOf[s] \notin keys
    BY DEF Admit, Accepted
<1>3. parked[IpOf[s]] = None
    BY <1>2 DEF TypeOK
<1>4. TypeOK'
    BY <1>1, <1>2 DEF TypeOK, Statuses
<1>5. ParkedAtItsAddress' /\ LoopFindsNone'
    BY <1>2, <1>3 DEF TypeOK, ParkedAtItsAddress, LoopFindsNone
<1>6. BacklogUnnumbered'
    BY <1>1, <1>2 DEF TypeOK, BacklogUnnumbered
<1>7. BlockedHasSleeper'
    BY <1>2 DEF BlockedHasSleeper
<1>8. WaitingIsNewest'
    <2>1. \A t \in Streams : status'[t] = "waiting" => IpOf[t] # IpOf[s] /\ t # s
        BY <1>2, <1>3 DEF TypeOK, ParkedAtItsAddress
    <2>. QED
        BY <1>1, <1>2, <2>1 DEF TypeOK, WaitingIsNewest
<1>. QED
    BY <1>1, <1>4, <1>5, <1>6, <1>7, <1>8

\* A step that accepts nobody, parks nobody and brings nobody into the loop
\* keeps what is said about the order of arrival.
LEMMA NobodyArrives ==
    ASSUME IInv, arrived' = arrived,
           \A t \in Streams : status'[t] = "waiting" => status[t] = "waiting",
           \A t \in Streams : status'[t] = "backlog" => status[t] = "backlog",
           \A t \in Streams : status'[t] = "loop" => status[t] = "loop",
           \A ip \in Ips : parked'[ip] \in {parked[ip], None}
    PROVE  /\ ArrivalsCounted' /\ BacklogUnnumbered' /\ WaitingIsNewest'
           /\ ParkedAtItsAddress' /\ LoopFindsNone'
<1>. USE StreamAssumption DEF IInv
<1>1. Arrivals' = Arrivals
    BY DEF Arrivals
<1>2. ArrivalsCounted'
    BY <1>1 DEF ArrivalsCounted
<1>3. BacklogUnnumbered' /\ WaitingIsNewest'
    BY DEF BacklogUnnumbered, WaitingIsNewest
<1>4. ParkedAtItsAddress' /\ LoopFindsNone'
    BY DEF ParkedAtItsAddress, LoopFindsNone
<1>. QED
    BY <1>2, <1>3, <1>4

LEMMA ServeClientStep ==
    ASSUME IInv, NEW s \in Streams, ServeClient(s)
    PROVE  IInv'
<1>. USE StreamAssumption DEF IInv
<1>1. /\ keys' = keys \cup {IpOf[s]}
      /\ parked' = [parked EXCEPT ![IpOf[s]] = None]
      /\ timer' = [timer EXCEPT ![s] = "sleeping"]
      /\ status' = Replacing(s, "tls")
      /\ arrived' = arrived
      /\ status[s] \in {"loop", "taken"}
    BY DEF ServeClient
<1>2. /\ status'[s] = "tls"
      /\ \A t \in Streams \ {s} :
            status'[t] = IF t = parked[IpOf[s]] THEN "dropped" ELSE status[t]
      /\ status' \in [Streams -> Statuses]
    BY <1>1 DEF Replacing, TypeOK, Statuses
<1>3. \A ip \in Ips : parked'[ip] \in {parked[ip], None}
    BY <1>1 DEF TypeOK
<1>4. /\ ArrivalsCounted' /\ BacklogUnnumbered' /\ WaitingIsNewest'
      /\ ParkedAtItsAddress' /\ LoopFindsNone'
    BY <1>1, <1>2, <1>3, NobodyArrives
<1>5. TypeOK'
    <2>1. \A t \in Streams :
            status'[t] = "waiting" <=> \E ip \in Ips : parked'[ip] = t
        BY <1>1, <1>2 DEF TypeOK, ParkedAtItsAddress
    <2>. QED
        BY <1>1, <1>2, <2>1 DEF TypeOK
<1>6. BlockedHasSleeper'
    BY <1>1 DEF TypeOK, BlockedHasSleeper
<1>. QED
    BY <1>4, <1>5, <1>6

LEMMA WakeStep ==
    ASSUME IInv, NEW s \in Streams, Wake(s)
    PROVE  IInv'
<1>. USE StreamAssumption DEF IInv
<1>1. /\ timer' = [timer EXCEPT ![s] = "woken"]
      /\ keys' = keys \ {IpOf[s]}
      /\ parked' = [parked EXCEPT ![IpOf[s]] = None]
      /\ arrived' = arrived
    BY DEF Wake
<1>2. /\ \A t \in Streams :
            status'[t] = IF t = parked[IpOf[s]] THEN "taken" ELSE status[t]
      /\ status' \in [Streams -> Statuses]
    BY DEF Wake, TypeOK, Statuses
<1>3. \A ip \in Ips : parked'[ip] \in {parked[ip], None}
    BY <1>1 DEF TypeOK
<1>4. /\ ArrivalsCounted' /\ BacklogUnnumbered' /\ WaitingIsNewest'
      /\ ParkedAtItsAddress' /\ LoopFindsNone'
    BY <1>1, <1>2, <1>3, NobodyArrives
<1>5. TypeOK'
    <2>1. \A t \in Streams :
            status'[t] = "waiting" <=> \E ip \in Ips : parked'[ip] = t
        BY <1>1, <1>2 DEF TypeOK, ParkedAtItsAddress
    <2>2. /\ keys' \subseteq Ips /\ parked' \in [Ips -> Streams \cup {None}]
          /\ timer' \in [Streams -> {"none", "sleeping", "woken"}]
          /\ arrived' \in [Streams -> Nat]
        BY <1>1 DEF TypeOK
    <2>3. \A ip \in Ips : ip \notin keys' => parked'[ip] = None
        BY <1>1 DEF TypeOK
    <2>. QED
        BY <1>2, <2>1, <2>2, <2>3 DEF TypeOK
<1>6. BlockedHasSleeper'
    BY <1>1 DEF TypeOK, BlockedHasSleeper
<1>. QED
    BY <1>4, <1>5, <1>6

\* PeerAddrFails and TlsAccept: only the place of a stream changes that is
\* neither new nor parked.
LEMMA SettledStep ==
    ASSUME IInv, NEW s \in Streams, PeerAddrFails(s) \/ TlsAccept(s)
    PROVE  IInv'
<1>. USE StreamAssumption DEF IInv
<1>1. PICK outcome \in {"served", "failed"} :
        status' = [status EXCEPT ![s] = outcome]
    BY DEF PeerAddrFails, TlsAccept
<1>2. /\ UNCHANGED <<keys, parked, timer, arrived>>
      /\ status[s] \in {"loop", "taken", "tls"}
    BY DEF PeerAddrFails, TlsAccept
<1>3. /\ ArrivalsCounted' /\ BacklogUnnumbered' /\ WaitingIsNewest'
      /\ ParkedAtItsAddress' /\ LoopFindsNone'
    BY <1>1, <1>2, NobodyArrives DEF TypeOK
<1>4. TypeOK'
    BY <1>1, <1>2 DEF TypeOK, Statuses
<1>5. BlockedHasSleeper'
    BY <1>2 DEF BlockedHasSleeper
<1>. QED
    BY <1>3, <1>4, <1>5

LEMMA NextIInv == IInv /\ [Next]_vars => IInv'
<1>. SUFFICES ASSUME IInv, [Next]_vars PROVE IInv'
    OBVIOUS
<1>1. CASE UNCHANGED vars
    BY <1>1 DEF vars, IInv, TypeOK, ParkedAtItsAddress, LoopFindsNone, Arrivals,
                ArrivalsCounted, BacklogUnnumbered, BlockedHasSleeper,
                WaitingIsNewest
<1>. QED
    BY <1>1, ParkStep, AdmitStep, ServeClientStep, WakeStep, SettledStep
       DEF Next

LEMMA Invariance == Spec => []IInv
BY InitIInv, NextIInv, PTL DEF Spec

----------------------------------------------------------------------------
\* The map `blocked` and the streams agree: a stream waits if and only if it
\* is the value of an address, and only addresses that are keys have one.
THEOREM TypeCorrect == Spec => []TypeOK
BY Invariance, PTL DEF IInv

\* Whatever the loop and the tasks do between their locks, a task is asleep
\* for every blocked address, which will remove it: none is blocked for ever.
THEOREM NobodyBlockedForGood == Spec => []BlockedHasSleeper
BY Invariance, PTL DEF IInv

\* The stream kept for a blocked address is the last one accepted from it.
THEOREM NewestWaits == Spec => []WaitingIsNewest
BY Invariance, PTL DEF IInv

\* A waiting stream is dropped for a newer one of its address, or by a task
\* that has taken an older one out of the map; by the accept loop never.
THEOREM WhoLosesTheWait == Spec => WaitingLostToNewerOrTaken
<1>. DEFINE Lost ==
        \A s \in Streams :
            status[s] = "waiting" /\ status'[s] = "dropped" =>
                \E t \in Streams :
                    /\ IpOf[t] = IpOf[s]
                    /\ arrived'[t] > arrived[s] \/ status[t] = "taken"
<1>1. IInv /\ [Next]_vars => [Lost]_vars
    <2>. SUFFICES ASSUME IInv, Next, NEW s \in Streams,
                         status[s] = "waiting", status'[s] = "dropped"
                  PROVE  \E t \in Streams :
                            /\ IpOf[t] = IpOf[s]
                            /\ arrived'[t] > arrived[s] \/ status[t] = "taken"
        OBVIOUS
    <2>. USE StreamAssumption DEF IInv
    <2>1. PICK t \in Streams : Park(t) \/ ServeClient(t)
        BY DEF Next, Admit, PeerAddrFails, Wake, TlsAccept, TypeOK
    <2>2. s = parked[IpOf[t]] /\ s # t
        <3>1. status' = Replacing(t, "waiting") \/ status' = Replacing(t, "tls")
            BY <2>1 DEF Park, ServeClient
        <3>. QED
            BY <3>1 DEF Replacing
    <2>3. IpOf[t] = IpOf[s]
        BY <2>2 DEF ParkedAtItsAddress
    <2>4. CASE Park(t)
        BY <2>2, <2>3, <2>4, AcceptedIsNewest DEF Park
    <2>5. CASE ServeClient(t)
        BY <2>2, <2>3, <2>5 DEF ServeClient, LoopFindsNone
    <2>. QED
        BY <2>1, <2>4, <2>5
<1>. QED
    BY <1>1, Invariance, PTL DEF Spec, WaitingLostToNewerOrTaken
=============================================================================

---------------------------- MODULE AcceptLoop ----------------------------
(***************************************************************************)
(* The accept loop of the rendezvous server and its limit of one new       *)
(* client per IP address every five seconds: run and serve_client of       *)
(* gday_hole_punch/src/server.rs.                                          *)
(*                                                                         *)
(* The loop and the sleeping tasks run on several threads and share the    *)
(* map `blocked`. Both look an address up, unlock, and only then call      *)
(* serve_client, which locks again to insert the address: between the two  *)
(* locks the other side may insert, park or remove.                        *)
(***************************************************************************)
EXTENDS Naturals, FiniteSets

CONSTANTS
    Streams,  \* the TCP streams that clients open
    Ips,      \* IP addresses
    IpOf,     \* Streams -> the address a stream comes from
    None      \* Option::None, in the map and as a missing key

ASSUME StreamAssumption ==
    /\ IpOf \in [Streams -> Ips]
    /\ None \notin Streams

VARIABLES
    keys,     \* the addresses that are keys of `blocked`
    parked,   \* Ips -> the stream that is the value, or None
    status,   \* Streams -> what has become of the stream
    timer,    \* Streams -> the sleeping task its serve_client spawned
    arrived   \* Streams -> 0, or when it was accepted: 1 for the first

vars == <<keys, parked, status, timer, arrived>>

(***************************************************************************)
(* backlog: not accepted. loop: in the accept loop, address not found.     *)
(* waiting: the value of its address in `blocked`. taken: removed from the *)
(* map by a sleeping task that woke up. tls: serve_client has spawned its  *)
(* task. served: handed to ConnectionHandler::start. dropped: replaced in  *)
(* the map. failed: closed on an error of peer_addr or of the handshake.   *)
(***************************************************************************)
Statuses ==
    {"backlog", "loop", "waiting", "taken", "tls", "served", "dropped",
     "failed"}

TypeOK ==
    /\ keys \subseteq Ips
    /\ parked \in [Ips -> Streams \cup {None}]
    /\ status \in [Streams -> Statuses]
    /\ timer \in [Streams -> {"none", "sleeping", "woken"}]
    /\ arrived \in [Streams -> Nat]
    /\ \A ip \in Ips : ip \notin keys => parked[ip] = None
    /\ \A s \in Streams :
        status[s] = "waiting" <=> \E ip \in Ips : parked[ip] = s

Init ==
    /\ keys = {}
    /\ parked = [ip \in Ips |-> None]
    /\ status = [s \in Streams |-> "backlog"]
    /\ timer = [s \in Streams |-> "none"]
    /\ arrived = [s \in Streams |-> 0]

----------------------------------------------------------------------------
\* The status of every stream once s has become `new` and the stream parked
\* for its address, if any, was replaced in the map and dropped.
Replacing(s, new) ==
    [t \in Streams |->
        CASE t = s -> new
          [] t = parked[IpOf[s]] /\ t # s -> "dropped"
          [] OTHER -> status[t]]

\* Bug: the loop does not wait for serve_client before it accepts again.
AcceptedAtOnce(s) ==
    /\ status[s] = "backlog"
    /\ arrived' = [arrived EXCEPT
                    ![s] = Cardinality({t \in Streams : arrived[t] > 0}) + 1]

\* run: accept returns a stream; the loop is not busy with another.
Accepted(s) ==
    /\ status[s] = "backlog"
    /\ \A t \in Streams : status[t] # "loop"
    /\ arrived' = [arrived EXCEPT
                    ![s] = Cardinality({t \in Streams : arrived[t] > 0}) + 1]

\* Bug: a stream that waits already is kept and the new one dropped.
ParkFirst(s) ==
    /\ Accepted(s)
    /\ IpOf[s] \in keys
    /\ IF parked[IpOf[s]] = None
       THEN /\ parked' = [parked EXCEPT ![IpOf[s]] = s]
            /\ status' = [status EXCEPT ![s] = "waiting"]
       ELSE status' = [status EXCEPT ![s] = "dropped"] /\ UNCHANGED parked
    /\ UNCHANGED <<keys, timer>>

\* run: the address is in the map, the stream becomes its value. A stream
\* that was waiting there is dropped.
Park(s) ==
    /\ Accepted(s)
    /\ IpOf[s] \in keys
    /\ parked' = [parked EXCEPT ![IpOf[s]] = s]
    /\ status' = Replacing(s, "waiting")
    /\ UNCHANGED <<keys, timer>>

\* run: the address is not in the map; the mutex is unlocked.
Admit(s) ==
    /\ Accepted(s)
    /\ IpOf[s] \notin keys
    /\ status' = [status EXCEPT ![s] = "loop"]
    /\ UNCHANGED <<keys, parked, timer>>

\* Bug: a stream that has waited is served without a new sleep.
ServeClientNoSleepAgain(s) ==
    /\ status[s] \in {"loop", "taken"}
    /\ keys' = keys \cup {IpOf[s]}
    /\ parked' = [parked EXCEPT ![IpOf[s]] = None]
    /\ timer' = [timer EXCEPT ![s] = IF status[s] = "loop" THEN "sleeping" ELSE @]
    /\ status' = Replacing(s, "tls")
    /\ UNCHANGED arrived

\* Bug: the value of an address that is in the map already is kept, though
\* its key is removed (an insert that is believed not to overwrite).
ServeClientLeavesParked(s) ==
    /\ status[s] \in {"loop", "taken"}
    /\ keys' = keys \cup {IpOf[s]}
    /\ timer' = [timer EXCEPT ![s] = "sleeping"]
    /\ status' = Replacing(s, "tls")
    /\ UNCHANGED <<parked, arrived>>

\* serve_client, called by the loop or by a task that woke up: the address is
\* inserted with no stream, which drops one that was parked meanwhile, and
\* the sleeping task and the task of the connection are spawned.
ServeClient(s) ==
    /\ status[s] \in {"loop", "taken"}
    /\ keys' = keys \cup {IpOf[s]}
    /\ parked' = [parked EXCEPT ![IpOf[s]] = None]
    /\ timer' = [timer EXCEPT ![s] = "sleeping"]
    /\ status' = Replacing(s, "tls")
    /\ UNCHANGED arrived

\* serve_client when peer_addr fails.
PeerAddrFails(s) ==
    /\ status[s] \in {"loop", "taken"}
    /\ status' = [status EXCEPT ![s] = "failed"]
    /\ UNCHANGED <<keys, parked, timer, arrived>>

\* Bug: only an address that nobody waits for is unblocked.
WakeUnlessWaiting(s) ==
    /\ timer[s] = "sleeping"
    /\ timer' = [timer EXCEPT ![s] = "woken"]
    /\ keys' = IF parked[IpOf[s]] = None THEN keys \ {IpOf[s]} ELSE keys
    /\ UNCHANGED <<parked, status, arrived>>

\* The task spawned for s wakes up and removes the address, whoever inserted
\* it. The stream that was the value is to be served.
Wake(s) ==
    /\ timer[s] = "sleeping"
    /\ timer' = [timer EXCEPT ![s] = "woken"]
    /\ keys' = keys \ {IpOf[s]}
    /\ parked' = [parked EXCEPT ![IpOf[s]] = None]
    /\ status' = [t \in Streams |->
                    IF t = parked[IpOf[s]] THEN "taken" ELSE status[t]]
    /\ UNCHANGED arrived

\* The TLS handshake: the connection is handed to its handler, or dropped.
TlsAccept(s) ==
    /\ status[s] = "tls"
    /\ \E outcome \in {"served", "failed"} :
        status' = [status EXCEPT ![s] = outcome]
    /\ UNCHANGED <<keys, parked, timer, arrived>>

Next ==
    \E s \in Streams :
        \/ Park(s)
        \/ Admit(s)
        \/ ServeClient(s)
        \/ PeerAddrFails(s)
        \/ Wake(s)
        \/ TlsAccept(s)

Spec == Init /\ [][Next]_vars

\* Tasks run and sleeps end. No client need open a stream, and no handshake
\* need end (the code sets no limit on it).
Fairness ==
    \A s \in Streams :
        WF_vars(ServeClient(s) \/ PeerAddrFails(s)) /\ WF_vars(Wake(s))

FairSpec == Spec /\ Fairness
----------------------------------------------------------------------------
\* An address in the map has a task asleep that will remove it: whatever the
\* loop and the tasks do between their locks, no address is blocked for ever
\* and no stream parked for good.
BlockedHasSleeper ==
    \A ip \in keys : \E s \in Streams : IpOf[s] = ip /\ timer[s] = "sleeping"

\* The stream that waits for an address is the last accepted from it, also
\* when an earlier one is still on its way to serve_client.
WaitingIsNewest ==
    \A s, t \in Streams :
        status[s] = "waiting" /\ IpOf[t] = IpOf[s] => arrived[t] <= arrived[s]

\* A waiting stream is given up for a newer one of its address. The exception
\* is the window in which a task that woke up has taken an older stream out
\* of the map and not yet served it. The accept loop, which has the same
\* window, never drops a waiting stream: nobody else parks one.
WaitingLostToNewerOrTaken ==
    [][\A s \in Streams :
        status[s] = "waiting" /\ status'[s] = "dropped" =>
            \E t \in Streams :
                /\ IpOf[t] = IpOf[s]
                /\ arrived'[t] > arrived[s] \/ status[t] = "taken"]_vars

\* Every stream that is accepted is given to the TLS acceptor or dropped.
AcceptedSettles ==
    \A s \in Streams :
        status[s] \in {"loop", "waiting", "taken"} ~>
            status[s] \in {"tls", "served", "dropped", "failed"}
============================================================================

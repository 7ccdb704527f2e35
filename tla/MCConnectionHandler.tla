------------------------ MODULE MCConnectionHandler ------------------------
(***************************************************************************)
(* Small instances of ConnectionHandler: one address of each family, the   *)
(* first connection on IPv6 and the others on IPv4.                        *)
(***************************************************************************)
EXTENDS ConnectionHandler, TLC

CONSTANTS c1, a6, a4

MCAddrs == {a6, a4}

MCPeerAddr == [c \in Conns |-> IF c = c1 THEN a6 ELSE a4]

\* The longest: ports above 16383, as outgoing connections usually have.
MCPortLen == [a \in MCAddrs |-> 3]

\* Room ids are interchangeable, and so are the connections on IPv4.
Symmetry == Permutations(Conns \ {c1}) \cup Permutations(RoomIds)
============================================================================

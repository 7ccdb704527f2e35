--------------------------- MODULE MCRendezvous ---------------------------
(***************************************************************************)
(* Small instances of Rendezvous. Every connection has addresses of its    *)
(* own: an address is a connection and the side of the NAT it is seen on.  *)
(***************************************************************************)
EXTENDS Rendezvous, TLC

MCConns == Peers \X Families

MCAddrs == MCConns \X Scopes

MCV6Addrs == (Peers \X {"v6"}) \X Scopes

MCLocalAddr == [c \in MCConns |-> <<c, "private">>]

MCPeerAddr == [c \in MCConns |-> <<c, "public">>]

\* The longest: ports above 16383, as outgoing connections usually have.
MCPortLen == [a \in MCAddrs |-> 3]

\* Peers started alike, and room ids, are interchangeable.
Symmetry ==
    {f @@ g : f \in Permutations(Creators), g \in Permutations(Peers \ Creators)}
      \cup Permutations(RoomIds)
============================================================================

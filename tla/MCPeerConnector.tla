-------------------------- MODULE MCPeerConnector --------------------------
(***************************************************************************)
(* A small instance of PeerConnector.                                      *)
(***************************************************************************)
EXTENDS PeerConnector

MCDials == {"private", "public"}

MCReaches ==
    [d \in MCDials |-> IF d = "private" THEN {"peer", "self", "stranger"}
                                        ELSE {"peer"}]
============================================================================

--------------------------- MODULE MCAcceptLoop ---------------------------
(***************************************************************************)
(* A small instance of AcceptLoop. Streams of different addresses share    *)
(* nothing but the map they are keys of, so all are from one address.      *)
(***************************************************************************)
EXTENDS AcceptLoop

CONSTANT ip

MCIpOf == [s \in Streams |-> ip]
============================================================================

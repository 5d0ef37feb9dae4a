---------------------------- MODULE MCWireGuard ----------------------------
(* A peer of the gateway; the access point has none, but may fail to answer. *)
EXTENDS WireGuard

CONSTANTS gw, ap, p1

PeerHosts == [p \in Peer |-> IF p = p1 THEN gw ELSE ap]
=============================================================================

----------------------------- MODULE MCTopology -----------------------------
(* Small instances of Topology: gateway 0, access point 1, switches 2 and 3. *)
EXTENDS Topology

Aps      == <<1>>
Switches == <<2, 3>>
=============================================================================

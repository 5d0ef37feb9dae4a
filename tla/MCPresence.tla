----------------------------- MODULE MCPresence -----------------------------
(* Small instances of Presence: values for its constants. *)
EXTENDS Presence

\* Rows as build_devices makes them: on an AP, on the other one, on another
\* band under a new name, and without any attribute.
OnA  == [ap |-> "A", band |-> "5", hostname |-> "h", ip |-> "1", ip6 |-> Unknown]
OnB  == [ap |-> "B", band |-> "5", hostname |-> "h", ip |-> "2", ip6 |-> Unknown]
Bare == [ap |-> Unknown, band |-> Unknown, hostname |-> Unknown, ip |-> Unknown, ip6 |-> Unknown]
OnA24 == [ap |-> "A", band |-> "2", hostname |-> "g", ip |-> "1", ip6 |-> "6"]

OneProfile   == {Bare}
Profiles     == {OnA, OnB, OnA24}
=============================================================================

---------------------------- MODULE MCBandwidth -----------------------------
(* Small instances of Bandwidth. *)
EXTENDS Bandwidth, TLC

\* Two APs are alike, and so are two ports.
Symmetry == Permutations(Ap) \cup Permutations(Port)
=============================================================================

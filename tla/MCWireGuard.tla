---------------------------- MODULE MCWireGuard ----------------------------
(* An instance of WireGuard for TLC: the two ends run the same code, so they *)
(* may be exchanged.                                                         *)
EXTENDS WireGuard, TLC

Symmetry == Permutations(End)

=============================================================================

-------------------------- MODULE MCWorkloadBinding -------------------------
(* Small instances of WorkloadBinding for TLC. *)
EXTENDS WorkloadBinding, TLC

CONSTANTS w1, w2, p1, p2

Symmetry == Permutations({w1, w2})

=============================================================================

-------------------------- MODULE MCLeaseRegistry --------------------------
(* LeaseRegistry on small instances for TLC. *)
EXTENDS LeaseRegistry, TLC

Symmetry == Permutations(Procs)
=============================================================================

-------------------------- MODULE MCUpdateAuthority --------------------------
(* A small instance of UpdateAuthority: three parties, any of which can own  *)
(* the store or be delegated.                                                *)
EXTENDS UpdateAuthority, TLC

CONSTANTS p1, p2, p3

Symmetry == Permutations({p1, p2, p3})
==============================================================================

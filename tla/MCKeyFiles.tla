----------------------------- MODULE MCKeyFiles -----------------------------
(* KeyFiles for TLC. *)
EXTENDS KeyFiles, TLC

CONSTANTS u1, u2, k1, k2

\* Both keys belong to one user, or each to its own.
OneOwner == [k \in Keys |-> u1]
TwoOwners == (k1 :> u1) @@ (k2 :> u2)

Symmetry == Permutations({k1, k2})

=============================================================================

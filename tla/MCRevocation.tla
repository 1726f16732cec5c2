---------------------------- MODULE MCRevocation ----------------------------
(* Small instances of Revocation for TLC. *)
EXTENDS Revocation, TLC

CONSTANTS u1, u2, k1, h1, hs, p1, b1, b2

\* Every key belongs to the first user; a second user only competes for ports.
MCKeyOwner == [k \in Keys |-> u1]

\* Requests are interchangeable.
Symmetry == Permutations(Binds)
=============================================================================

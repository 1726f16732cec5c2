---------------------------- MODULE MCWebSessions ----------------------------
(* WebSessions for TLC. *)
EXTENDS WebSessions, TLC

Symmetry == Permutations(Users) \cup Permutations(States) \cup Permutations(Tokens)
              \cup Permutations(Browsers) \cup Permutations(Calls)
=============================================================================

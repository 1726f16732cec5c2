--------------------------- MODULE MCReservations ---------------------------
(* Reservations for TLC: every input of up to four characters.             *)
EXTENDS Reservations, TLC

CONSTANT MaxRaw

MCRaws == UNION {[1..n -> {"a", "A", "-", " ", ".", "_"}] : n \in 0..MaxRaw}
MCSystemLabels == {<<"a">>, <<"b">>}
MCReserved == {<<"a", "a">>, <<"a", "a", "a">>}
MCOthers == {"_"}
MCDomain == <<"b", ".", "A", ".">>

Symmetry == Permutations(Users) \cup Permutations(Calls)
=============================================================================

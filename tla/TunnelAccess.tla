---------------------------- MODULE TunnelAccess ----------------------------
(***************************************************************************)
(* What tunnel admission promises, without generations, events, barriers,  *)
(* locks or messages. A tunnel starts only for a key and a resource that   *)
(* the policy allows at that moment. A tunnel the policy stops allowing is *)
(* owed a disconnection from that very moment on; it stays owed until it   *)
(* is gone, even when the policy allows it again, and it does go.          *)
(***************************************************************************)

CONSTANTS
  AllKeys,    \* the keys a client can present
  Resources,  \* the hosts and ports it can ask for
  Binds,      \* identities of tunnels
  None

VARIABLES
  policy,     \* the pairs <<key, resource>> that are allowed
  live,       \* what each tunnel carries, or None
  owed        \* live tunnels that must be disconnected

vars == <<policy, live, owed>>

Pairs    == AllKeys \X Resources
Live     == {b \in Binds : live[b] # None}
Unallowed(p) == {b \in Live : live[b] \notin p}

Init ==
  /\ policy \in SUBSET Pairs
  /\ live = [b \in Binds |-> None]
  /\ owed = {}

\* Any mutation; what it makes unallowed is owed a disconnection.
ChangePolicy ==
  /\ policy' \in SUBSET Pairs
  /\ UNCHANGED live
  /\ owed \cup Unallowed(policy') \subseteq owed'
  /\ owed' \subseteq Live

\* A revocation in progress may also reach a tunnel that has just started.
Start(b) ==
  /\ live[b] = None
  /\ \E p \in policy : live' = [live EXCEPT ![b] = p]
  /\ owed' \in {owed, owed \cup {b}}
  /\ UNCHANGED policy

\* Clients leave, tunnels are closed, or all end together.
End(B) ==
  /\ B # {}
  /\ B \subseteq Live
  /\ live' = [b \in Binds |-> IF b \in B THEN None ELSE live[b]]
  /\ owed' = owed \ B
  /\ UNCHANGED policy

Next ==
  \/ ChangePolicy
  \/ \E b \in Binds : Start(b)
  \/ \E B \in SUBSET Binds : End(B)

EndOwed(b) == b \in owed /\ \E B \in SUBSET Binds : b \in B /\ End(B)

Spec     == Init /\ [][Next]_vars
FairSpec == Spec /\ \A b \in Binds : WF_vars(EndOwed(b))

=============================================================================

------------------------------ MODULE Lifecycle ------------------------------
(***************************************************************************)
(* How the control plane learns which tunnels run.                         *)
(*                                                                         *)
(* sish numbers what happens to its tunnels. It sends a connect event      *)
(* before a tunnel enters its registry and waits for the answer, holding   *)
(* the registry lock; it sends a disconnect event after a tunnel has left, *)
(* once, and only logs a failure. A synchroniser in the control plane      *)
(* fetches a snapshot of the registry and applies it later. A sish that    *)
(* restarts has a new random source id and counts from zero; here source   *)
(* ids are 1, 2, ... in the order of the restarts, which the code cannot   *)
(* see, and 0 is the empty id of a database that has had no snapshot.      *)
(*                                                                         *)
(* Revocation says why a tunnel ends. Here rights come and go as they like.*)
(***************************************************************************)
EXTENDS Naturals

CONSTANTS
  Tunnels,      \* tunnel ids, each used for one bind
  None,
  MaxSequence,  \* bound on the numbers one sish hands out
  MaxSource     \* bound on the starts of sish

ASSUME ConstantsAssumption == MaxSequence \in Nat /\ MaxSource \in Nat \ {0}

VARIABLES
  source,       \* controlSourceID of the sish that runs
  sequence,     \* controlRegistry.sequence
  tunnel,       \* the life of each tunnel in sish
  events,       \* every event sish has sent: it may arrive late, again, or never
  snapshot,     \* the snapshot the synchroniser has fetched, or None
  allowed,      \* tunnels whose key, user and name or port are in order
  fresh,        \* allowed tunnels authorized in the current generation
  unannounced,  \* history: rows AddKey's rollback left as they were
  row,          \* active_tunnels: status and event_sequence
  cursor,       \* tunnel_event_cursor.sequence, 0 if there is no row
  applied,      \* lifecycle_events
  sync,         \* tunnel_sync_state
  retired       \* retired_tunnel_sources

sishVars   == <<source, sequence, tunnel, events>>
policyVars == <<allowed, fresh, unannounced>>
viewVars   == <<row, cursor, applied, sync, retired>>
vars       == <<sishVars, snapshot, policyVars, viewVars>>

Phases   == {"new", "connecting", "acked", "registered", "closed", "gone"}
Statuses == {"none", "active", "stale", "disconnecting", "disconnected"}
Event    == [kind : {"connect", "disconnect"}, tunnel : Tunnels,
             source : Nat, seq : Nat]
Snapshot == [source : Nat, seq : Nat, tunnels : SUBSET Tunnels]

TypeOK ==
  /\ source \in Nat
  /\ sequence \in Nat
  /\ tunnel \in [Tunnels -> Phases]
  /\ events \in SUBSET Event
  /\ snapshot \in Snapshot \cup {None}
  /\ allowed \in SUBSET Tunnels
  /\ fresh \in SUBSET Tunnels
  /\ unannounced \in SUBSET Tunnels
  /\ row \in [Tunnels -> [status : Statuses, seq : Nat]]
  /\ cursor \in [Tunnels -> Nat]
  /\ applied \in SUBSET [source : Nat, seq : Nat]
  /\ sync \in [source : Nat, last : Nat, available : BOOLEAN]
  /\ retired \in SUBSET Nat

Init ==
  /\ source = 1
  /\ sequence = 0
  /\ tunnel = [t \in Tunnels |-> "new"]
  /\ events = {}
  /\ snapshot = None
  /\ allowed = Tunnels
  /\ fresh = {}
  /\ unannounced = {}
  /\ row = [t \in Tunnels |-> [status |-> "none", seq |-> 0]]
  /\ cursor = [t \in Tunnels |-> 0]
  /\ applied = {}
  /\ sync = [source |-> 0, last |-> 0, available |-> FALSE]
  /\ retired = {}

-----------------------------------------------------------------------------
(* sish.                                                                   *)

\* No ControlPlaneRegister waits for the answer to its connect event.
LockFree == \A t \in Tunnels : tunnel[t] \notin {"connecting", "acked"}

nextSequenceLocked == sequence < MaxSequence /\ sequence' = sequence + 1

Send(kind, t) ==
  events' = events \cup {[kind |-> kind, tunnel |-> t, source |-> source,
                          seq |-> sequence']}

Advance(t, phase) == tunnel' = [tunnel EXCEPT ![t] = phase]

\* A bind is authorized, and registered in the same generation: one that is
\* not is refused like a bind without a right, and leaves no trace here.
BeginRegister(t) ==
  /\ tunnel[t] = "new"
  /\ t \in allowed
  /\ LockFree
  /\ nextSequenceLocked
  /\ Advance(t, "connecting")
  /\ Send("connect", t)
  /\ fresh' = fresh \cup {t}
  /\ UNCHANGED <<source, snapshot, allowed, unannounced, viewVars>>

FinishRegister(t) ==
  /\ tunnel[t] = "acked"
  /\ Advance(t, "registered")
  /\ UNCHANGED <<source, sequence, events, snapshot, policyVars, viewVars>>

\* Refused, failed or not answered in time; the event may arrive all the same.
FailRegister(t) ==
  /\ tunnel[t] \in {"connecting", "acked"}
  /\ Advance(t, "gone")
  /\ UNCHANGED <<source, sequence, events, snapshot, policyVars, viewVars>>

\* The client left or a disconnect was delivered.
ControlPlaneUnregister(t) ==
  /\ tunnel[t] = "registered"
  /\ LockFree
  /\ nextSequenceLocked
  /\ Advance(t, "closed")
  /\ Send("disconnect", t)
  /\ UNCHANGED <<source, snapshot, policyVars, viewVars>>

\* The cleanup a disconnect runs unregisters twice; the second call finds
\* nothing but has taken a number.
UnregisterAgain(t) ==
  /\ tunnel[t] = "closed"
  /\ LockFree
  /\ nextSequenceLocked
  /\ Advance(t, "gone")
  /\ UNCHANGED <<source, events, snapshot, policyVars, viewVars>>

RestartSish ==
  /\ source < MaxSource
  /\ source' = source + 1
  /\ sequence' = 0
  /\ tunnel' = [t \in Tunnels |-> IF tunnel[t] = "new" THEN "new" ELSE "gone"]
  /\ UNCHANGED <<events, snapshot, policyVars, viewVars>>

-----------------------------------------------------------------------------
(* Mutations of the policy.                                                *)

\* A mutation in a new generation; it may take the right of some tunnels, or
\* concern none of them. Rows of the tunnels it takes are marked, also where
\* the right was gone before.
Withdraw(S) ==
  /\ allowed' = allowed \ S
  /\ fresh' = {}
  /\ unannounced' = unannounced \ S
  /\ row' = [t \in Tunnels |->
       IF t \in S /\ row[t].status \in {"active", "stale"}
         THEN [row[t] EXCEPT !.status = "disconnecting"] ELSE row[t]]
  /\ UNCHANGED <<sishVars, snapshot, cursor, applied, sync, retired>>

\* AddKey could not write the file of a key that clients use already: it takes
\* the key out of the database in the current generation and marks no row.
AddKeyRollsBack(S) ==
  /\ allowed' = allowed \ S
  /\ unannounced' = unannounced \cup
       {t \in S : row[t].status \in {"active", "stale"}}
  /\ fresh' = fresh \ S
  /\ UNCHANGED <<sishVars, snapshot, viewVars>>

\* A key enabled again, a user unsuspended, a name or port reserved again by
\* its user; a name alone in the generation in which others are authorized.
Restore(t) ==
  /\ t \notin allowed
  /\ allowed' = allowed \cup {t}
  /\ \/ fresh' = {}
     \/ t \notin unannounced /\ UNCHANGED fresh
  /\ unannounced' = unannounced \ {t}
  /\ UNCHANGED <<sishVars, snapshot, viewVars>>

-----------------------------------------------------------------------------
(* Events.                                                                 *)

\* Mutant: only what is retired is refused.
ValidUnlessRetired(s) == s \notin retired

validateLifecycleSource(s) ==
  /\ s \notin retired
  /\ sync.source \in {0, s}

EventId(e) == [source |-> e.source, seq |-> e.seq]

\* Newer than what is known of the tunnel, and not handled before.
News(e) == EventId(e) \notin applied /\ e.seq > cursor[e.tunnel]

MoveCursor(e) ==
  /\ cursor' = [cursor EXCEPT ![e.tunnel] = e.seq]
  /\ sync' = [sync EXCEPT !.last = IF e.seq > @ THEN e.seq ELSE @]

ApplyTunnelConnect(e) ==
  /\ e.kind = "connect"
  /\ e.tunnel \in fresh \cap allowed
  /\ validateLifecycleSource(e.source)
  /\ applied' = applied \cup {EventId(e)}
  /\ IF News(e)
       THEN /\ MoveCursor(e)
            /\ row' = [row EXCEPT ![e.tunnel] =
                 IF e.seq > @.seq THEN [status |-> "active", seq |-> e.seq] ELSE @]
       ELSE UNCHANGED <<row, cursor, sync>>
  /\ tunnel' = [tunnel EXCEPT ![e.tunnel] = IF @ = "connecting" THEN "acked" ELSE @]
  /\ UNCHANGED <<source, sequence, events, snapshot, policyVars, retired>>

ApplyTunnelDisconnect(e) ==
  /\ e.kind = "disconnect"
  /\ validateLifecycleSource(e.source)
  /\ applied' = applied \cup {EventId(e)}
  /\ IF News(e)
       THEN /\ MoveCursor(e)
            /\ row' = [row EXCEPT ![e.tunnel] =
                 IF @.status # "none" /\ e.seq > @.seq
                   THEN [status |-> "disconnected", seq |-> e.seq] ELSE @]
       ELSE UNCHANGED <<row, cursor, sync>>
  /\ UNCHANGED <<sishVars, snapshot, policyVars, retired>>

-----------------------------------------------------------------------------
(* Snapshots.                                                              *)

\* GET /v1/tunnels reads registry and sequence under the read lock.
FetchSnapshot ==
  /\ snapshot = None
  /\ LockFree
  /\ snapshot' = [source |-> source, seq |-> sequence,
                  tunnels |-> {t \in Tunnels : tunnel[t] = "registered"}]
  /\ UNCHANGED <<sishVars, policyVars, viewVars>>

Shown(r) == r.status \in {"active", "stale", "disconnecting"}

\* A snapshot of the source in use must not be older than what was applied;
\* one of another source takes over unless that source has had its time.
Acceptable(s) ==
  IF s.source = sync.source THEN s.seq >= sync.last ELSE s.source \notin retired

\* Mutant: what has the snapshot's own number stays.
ClosedRowBefore(s, r) ==
  IF Shown(r) /\ (s.source # sync.source \/ r.seq < s.seq)
    THEN [status |-> "disconnected",
          seq    |-> IF s.source = sync.source THEN s.seq ELSE 0]
    ELSE r

\* Mutant: a status the table does not know.
ClosedRowUnknown(s, r) ==
  IF Shown(r) /\ (s.source # sync.source \/ r.seq <= s.seq)
    THEN [status |-> "closed", seq |-> s.seq]
    ELSE r

\* What is shown ends, for a new source at number 0, ...
ClosedRow(s, r) ==
  IF Shown(r) /\ (s.source # sync.source \/ r.seq <= s.seq)
    THEN [status |-> "disconnected",
          seq    |-> IF s.source = sync.source THEN s.seq ELSE 0]
    ELSE r

\* Mutant: the policy is not asked.
ListedUnchecked(s) == s.tunnels

\* ... and then what the snapshot lists, and is still allowed, is active.
Listed(s) == s.tunnels \cap allowed

\* Mutant: what the snapshot lists is active even if the row is newer.
SnapshotRowAnyAge(s, t) ==
  IF t \in Listed(s) THEN [status |-> "active", seq |-> s.seq]
                     ELSE ClosedRow(s, row[t])

\* Mutant: a row of the snapshot's own number is not brought back.
SnapshotRowStrict(s, t) ==
  IF t \in Listed(s) /\ s.seq > ClosedRow(s, row[t]).seq
    THEN [status |-> "active", seq |-> s.seq]
    ELSE ClosedRow(s, row[t])

SnapshotRow(s, t) ==
  IF t \in Listed(s) /\ s.seq >= ClosedRow(s, row[t]).seq
    THEN [status |-> "active", seq |-> s.seq]
    ELSE ClosedRow(s, row[t])

SnapshotCursor(s, t) ==
  IF \/ t \in Listed(s)
     \/ s.source = sync.source /\ cursor[t] \in 1 .. s.seq
    THEN s.seq
    ELSE IF s.source = sync.source THEN cursor[t] ELSE 0

ReconcileActiveSnapshot ==
  /\ snapshot # None
  /\ Acceptable(snapshot)
  /\ retired' = IF snapshot.source = sync.source THEN retired
                ELSE retired \cup ({sync.source} \ {0})
  /\ row' = [t \in Tunnels |-> SnapshotRow(snapshot, t)]
  /\ cursor' = [t \in Tunnels |-> SnapshotCursor(snapshot, t)]
  /\ sync' = [source |-> snapshot.source, last |-> snapshot.seq, available |-> TRUE]
  /\ snapshot' = None
  /\ unannounced' = {}
  /\ UNCHANGED <<sishVars, allowed, fresh, applied>>

\* The fetch or the transaction failed, or the snapshot was too old.
MarkTunnelSyncUnavailable ==
  /\ row' = [t \in Tunnels |->
       IF row[t].status = "active" THEN [row[t] EXCEPT !.status = "stale"] ELSE row[t]]
  /\ sync' = [sync EXCEPT !.available = FALSE]
  /\ snapshot' = None
  /\ UNCHANGED <<sishVars, policyVars, cursor, applied, retired>>

\* The synchroniser loses what it fetched; the database stays.
RestartControlPlane ==
  /\ snapshot # None
  /\ snapshot' = None
  /\ UNCHANGED <<sishVars, policyVars, viewVars>>

-----------------------------------------------------------------------------

Run ==
  \E t \in Tunnels :
    \/ BeginRegister(t)
    \/ FinishRegister(t)
    \/ FailRegister(t)
    \/ ControlPlaneUnregister(t)
    \/ UnregisterAgain(t)

Mutate ==
  \/ \E S \in SUBSET (allowed \cup unannounced) : Withdraw(S)
  \/ \E S \in SUBSET allowed \ {{}} : AddKeyRollsBack(S)
  \/ \E t \in Tunnels : Restore(t)

Observe ==
  \/ \E e \in events : ApplyTunnelConnect(e) \/ ApplyTunnelDisconnect(e)
  \/ FetchSnapshot
  \/ ReconcileActiveSnapshot
  \/ MarkTunnelSyncUnavailable

Next == Run \/ Mutate \/ Observe \/ RestartSish \/ RestartControlPlane

Spec == Init /\ [][Next]_vars

\* The connect call times out. The synchroniser tries every five seconds for
\* ever; sish answers it, and a transaction goes through, now and then.
Fairness ==
  /\ WF_vars(\E t \in Tunnels : FailRegister(t))
  /\ SF_vars(FetchSnapshot)
  /\ SF_vars(ReconcileActiveSnapshot)
  /\ WF_vars(snapshot # None /\ MarkTunnelSyncUnavailable)

FairSpec == Spec /\ Fairness

-----------------------------------------------------------------------------
(* Properties.                                                             *)

\* However events, snapshots and restarts were ordered, a snapshot fetched now
\* would be accepted and would correct every row: the source that runs is not
\* retired, its numbers are ahead of everything applied from it, and no row of
\* a running tunnel is newer. About validateLifecycleSource and the sequence
\* comparisons of ReconcileActiveSnapshot.
NextSnapshotRepairs ==
  /\ source \notin retired
  /\ sync.source = source =>
       /\ sync.last <= sequence
       /\ \A t \in Tunnels : Shown(row[t]) => row[t].seq <= sequence
  /\ \A t \in Tunnels : tunnel[t] = "registered" => row[t].seq <= sequence

\* A row is marked stale only while the synchronisation is marked unavailable:
\* the successful snapshot that clears the mark leaves no stale row behind.
StaleMeansUnavailable ==
  sync.available => \A t \in Tunnels : row[t].status # "stale"

\* The console never shows as active, or as last known active, a tunnel whose
\* right is withdrawn, although connect events and snapshots may be older than
\* the withdrawal (the validity checks of ApplyTunnelConnect and
\* ReconcileActiveSnapshot, and the marking in the withdrawing transactions).
\* AddKey's rollback alone marks no row; what it leaves is gone with the next
\* snapshot that is applied, with its right given back, or marked by another
\* withdrawal.
WithdrawnIsNotActive ==
  \A t \in Tunnels \ allowed :
    row[t].status \in {"active", "stale"} => t \in unannounced

\* A tunnel whose disconnect event was applied is not shown, whatever arrives
\* after it: not because of its own connect event, nor of a snapshot fetched
\* before the tunnel ended.
EndedStaysEnded ==
  \A e \in events :
    e.kind = "disconnect" /\ EventId(e) \in applied => ~Shown(row[e.tunnel])

\* Whatever was lost, the console ends up showing what runs: a tunnel that
\* stays up and allowed is shown active again and again (a failed fetch marks
\* it stale meanwhile), one that has ended is at last no longer shown.
ViewConverges ==
  \A t \in Tunnels :
    /\ <>[](tunnel[t] = "registered" /\ t \in allowed)
         => []<>(row[t].status = "active")
    /\ <>[](tunnel[t] \in {"closed", "gone"}) => <>[](~Shown(row[t]))

=============================================================================

--------------------------- MODULE LifecycleProofs ---------------------------
(***************************************************************************)
(* Proofs about Lifecycle, for any tunnels, any numbers and any restarts.  *)
(***************************************************************************)
EXTENDS Lifecycle, TLAPS

-----------------------------------------------------------------------------
(* Types                                                                   *)

LEMMA InitType == Init => TypeOK
  BY DEF Init, TypeOK, Phases, Statuses

LEMMA SishType ==
  ASSUME TypeOK, NEW t \in Tunnels
  PROVE  /\ BeginRegister(t) => TypeOK'
         /\ FinishRegister(t) => TypeOK'
         /\ FailRegister(t) => TypeOK'
         /\ ControlPlaneUnregister(t) => TypeOK'
         /\ UnregisterAgain(t) => TypeOK'
<1>1. ASSUME NEW p \in Phases, Advance(t, p) PROVE tunnel' \in [Tunnels -> Phases]
  BY <1>1 DEF Advance, TypeOK
<1>2. ASSUME NEW kind \in {"connect", "disconnect"}, nextSequenceLocked, Send(kind, t)
      PROVE  sequence' \in Nat /\ events' \in SUBSET Event
  BY <1>2 DEF nextSequenceLocked, Send, Event, TypeOK
<1>3. ASSUME BeginRegister(t) PROVE TypeOK'
  BY <1>1, <1>2, <1>3 DEF BeginRegister, TypeOK, policyVars, viewVars, Phases
<1>4. ASSUME FinishRegister(t) PROVE TypeOK'
  BY <1>1, <1>4 DEF FinishRegister, TypeOK, policyVars, viewVars, Phases
<1>5. ASSUME FailRegister(t) PROVE TypeOK'
  BY <1>1, <1>5 DEF FailRegister, TypeOK, policyVars, viewVars, Phases
<1>6. ASSUME ControlPlaneUnregister(t) PROVE TypeOK'
  BY <1>1, <1>2, <1>6 DEF ControlPlaneUnregister, TypeOK, policyVars, viewVars, Phases
<1>7. ASSUME UnregisterAgain(t) PROVE TypeOK'
  BY <1>1, <1>7 DEF UnregisterAgain, nextSequenceLocked, TypeOK, policyVars, viewVars, Phases
<1> QED
  BY <1>3, <1>4, <1>5, <1>6, <1>7

LEMMA RestartType == TypeOK /\ RestartSish => TypeOK'
  BY DEF RestartSish, TypeOK, policyVars, viewVars, Phases

LEMMA PolicyType ==
  ASSUME TypeOK
  PROVE  /\ \A S : Withdraw(S) => TypeOK'
         /\ \A S \in SUBSET allowed : AddKeyRollsBack(S) => TypeOK'
         /\ \A t \in Tunnels : Restore(t) => TypeOK'
<1>1. ASSUME NEW S, Withdraw(S) PROVE TypeOK'
  <2>1. row' \in [Tunnels -> [status : Statuses, seq : Nat]]
    BY <1>1 DEF Withdraw, TypeOK, Statuses
  <2> QED
    BY <1>1, <2>1 DEF Withdraw, TypeOK, sishVars
<1>2. ASSUME NEW t \in Tunnels, Restore(t) PROVE TypeOK'
  BY <1>2 DEF Restore, TypeOK, sishVars, policyVars, viewVars
<1>3. ASSUME NEW S \in SUBSET allowed, AddKeyRollsBack(S) PROVE TypeOK'
  BY <1>3 DEF AddKeyRollsBack, TypeOK, sishVars, viewVars
<1> QED
  BY <1>1, <1>2, <1>3

LEMMA EventType ==
  ASSUME TypeOK, NEW e \in events
  PROVE  /\ ApplyTunnelConnect(e) => TypeOK'
         /\ ApplyTunnelDisconnect(e) => TypeOK'
<1>0. e.tunnel \in Tunnels /\ e.source \in Nat /\ e.seq \in Nat
  BY DEF TypeOK, Event
<1>1. EventId(e) \in [source : Nat, seq : Nat]
  BY <1>0 DEF EventId
<1>2. ASSUME MoveCursor(e)
      PROVE  /\ cursor' \in [Tunnels -> Nat]
             /\ sync' \in [source : Nat, last : Nat, available : BOOLEAN]
  BY <1>0, <1>2 DEF MoveCursor, TypeOK
<1>3. ASSUME ApplyTunnelConnect(e) PROVE TypeOK'
  <2>1. row' \in [Tunnels -> [status : Statuses, seq : Nat]]
    BY <1>0, <1>3 DEF ApplyTunnelConnect, TypeOK, Statuses
  <2>2. tunnel' \in [Tunnels -> Phases]
    BY <1>0, <1>3 DEF ApplyTunnelConnect, TypeOK, Phases
  <2>3. /\ cursor' \in [Tunnels -> Nat]
        /\ sync' \in [source : Nat, last : Nat, available : BOOLEAN]
    BY <1>2, <1>3 DEF ApplyTunnelConnect, TypeOK
  <2> QED
    BY <1>1, <1>3, <2>1, <2>2, <2>3 DEF ApplyTunnelConnect, TypeOK, policyVars
<1>4. ASSUME ApplyTunnelDisconnect(e) PROVE TypeOK'
  <2>1. row' \in [Tunnels -> [status : Statuses, seq : Nat]]
    BY <1>0, <1>4 DEF ApplyTunnelDisconnect, TypeOK, Statuses
  <2>2. /\ cursor' \in [Tunnels -> Nat]
        /\ sync' \in [source : Nat, last : Nat, available : BOOLEAN]
    BY <1>2, <1>4 DEF ApplyTunnelDisconnect, TypeOK
  <2> QED
    BY <1>1, <1>4, <2>1, <2>2 DEF ApplyTunnelDisconnect, TypeOK, sishVars, policyVars
<1> QED
  BY <1>3, <1>4

LEMMA RowType ==
  ASSUME TypeOK, NEW s \in Snapshot, NEW t \in Tunnels
  PROVE  SnapshotRow(s, t) \in [status : Statuses, seq : Nat]
<1>1. row[t] \in [status : Statuses, seq : Nat] /\ s.seq \in Nat
  BY DEF TypeOK, Snapshot
<1>2. ClosedRow(s, row[t]) \in [status : Statuses, seq : Nat]
  BY <1>1 DEF ClosedRow, Statuses
<1> QED
  BY <1>1, <1>2 DEF SnapshotRow, Statuses

LEMMA SnapshotType ==
  ASSUME TypeOK
  PROVE  /\ FetchSnapshot => TypeOK'
         /\ ReconcileActiveSnapshot => TypeOK'
         /\ MarkTunnelSyncUnavailable => TypeOK'
         /\ RestartControlPlane => TypeOK'
<1>1. ASSUME FetchSnapshot PROVE TypeOK'
  BY <1>1 DEF FetchSnapshot, TypeOK, Snapshot, sishVars, policyVars, viewVars
<1>2. ASSUME ReconcileActiveSnapshot PROVE TypeOK'
  <2>1. snapshot \in Snapshot
    BY <1>2 DEF ReconcileActiveSnapshot, TypeOK
  <2>2. row' \in [Tunnels -> [status : Statuses, seq : Nat]]
    BY <1>2, <2>1, RowType DEF ReconcileActiveSnapshot
  <2>3. \A t \in Tunnels : SnapshotCursor(snapshot, t) \in Nat
    BY <2>1 DEF SnapshotCursor, TypeOK, Snapshot
  <2>4. cursor' \in [Tunnels -> Nat]
    BY <1>2, <2>3 DEF ReconcileActiveSnapshot
  <2>5. /\ sync' \in [source : Nat, last : Nat, available : BOOLEAN]
        /\ retired' \in SUBSET Nat
    BY <1>2, <2>1 DEF ReconcileActiveSnapshot, Snapshot, TypeOK
  <2> QED
    BY <1>2, <2>2, <2>4, <2>5 DEF ReconcileActiveSnapshot, TypeOK, sishVars
<1>3. ASSUME MarkTunnelSyncUnavailable PROVE TypeOK'
  <2>1. row' \in [Tunnels -> [status : Statuses, seq : Nat]]
    BY <1>3 DEF MarkTunnelSyncUnavailable, TypeOK, Statuses
  <2>2. sync' \in [source : Nat, last : Nat, available : BOOLEAN]
    BY <1>3 DEF MarkTunnelSyncUnavailable, TypeOK
  <2> QED
    BY <1>3, <2>1, <2>2 DEF MarkTunnelSyncUnavailable, TypeOK, sishVars, policyVars
<1>4. ASSUME RestartControlPlane PROVE TypeOK'
  BY <1>4 DEF RestartControlPlane, TypeOK, sishVars, policyVars, viewVars
<1> QED
  BY <1>1, <1>2, <1>3, <1>4

LEMMA NextType == TypeOK /\ [Next]_vars => TypeOK'
<1> SUFFICES ASSUME TypeOK, [Next]_vars PROVE TypeOK'
  OBVIOUS
<1>1. CASE UNCHANGED vars
  BY <1>1 DEF vars, sishVars, policyVars, viewVars, TypeOK
<1> QED
  BY <1>1, SishType, RestartType, PolicyType, EventType, SnapshotType DEF Next, Run, Mutate, Observe

\* TypeOK for every value of the constants.
THEOREM TypeCorrect == Spec => []TypeOK
BY InitType, NextType, PTL DEF Spec

-----------------------------------------------------------------------------
(* Stale rows and withdrawn rights                                         *)

\* No row that is shown is newer than the last number that was applied.
RowsBelow == \A t \in Tunnels : Shown(row[t]) => row[t].seq <= sync.last

LEMMA StaleInit == Init => RowsBelow /\ StaleMeansUnavailable
  BY DEF Init, RowsBelow, StaleMeansUnavailable, Shown

LEMMA BelowNext == TypeOK /\ RowsBelow /\ [Next]_vars => RowsBelow'
<1> SUFFICES ASSUME TypeOK, RowsBelow, [Next]_vars, NEW t \in Tunnels
             PROVE  Shown(row'[t]) => row'[t].seq <= sync'.last
  BY DEF RowsBelow, Shown
<1> DEFINE G == Shown(row'[t]) => row'[t].seq <= sync'.last
<1>r. row[t] \in [status : Statuses, seq : Nat] /\ sync.last \in Nat
  BY DEF TypeOK
<1>0. ASSUME UNCHANGED <<row, sync>> PROVE G
  BY <1>0 DEF RowsBelow, Shown
<1>1. CASE \/ UNCHANGED vars \/ Run \/ RestartSish \/ FetchSnapshot \/ RestartControlPlane
           \/ \E u \in Tunnels : Restore(u)
           \/ \E S \in SUBSET allowed : AddKeyRollsBack(S)
  BY <1>0, <1>1 DEF vars, viewVars, Run, RestartSish, FetchSnapshot, RestartControlPlane, Restore,
     AddKeyRollsBack, BeginRegister, FinishRegister, FailRegister, ControlPlaneUnregister, UnregisterAgain
<1>2. ASSUME NEW S, Withdraw(S) PROVE G
  BY <1>2, <1>r DEF Withdraw, RowsBelow, Shown
<1>3. ASSUME NEW e \in events, ApplyTunnelConnect(e) \/ ApplyTunnelDisconnect(e) PROVE G
  <2>0. e.tunnel \in Tunnels /\ e.seq \in Nat
    BY DEF TypeOK, Event
  <2>1. CASE UNCHANGED <<row, cursor, sync>>
    BY <1>0, <2>1
  <2>2. CASE MoveCursor(e) /\ (row'[t] = row[t] \/ row'[t].seq = e.seq)
    BY <1>r, <2>0, <2>2 DEF MoveCursor, RowsBelow, Shown, TypeOK
  <2>3. MoveCursor(e) => row'[t] = row[t] \/ row'[t].seq = e.seq
    BY <1>3, <2>0 DEF ApplyTunnelConnect, ApplyTunnelDisconnect, TypeOK
  <2> QED
    BY <1>3, <2>1, <2>2, <2>3 DEF ApplyTunnelConnect, ApplyTunnelDisconnect
<1>4. CASE ReconcileActiveSnapshot
  <2>1. snapshot \in Snapshot /\ sync'.last = snapshot.seq /\ row'[t] = SnapshotRow(snapshot, t)
    BY <1>4 DEF ReconcileActiveSnapshot, TypeOK
  <2>2. snapshot.seq \in Nat
    BY <2>1 DEF Snapshot
  <2>3. CASE row'[t] = [status |-> "active", seq |-> snapshot.seq]
    BY <2>1, <2>2, <2>3
  <2>4. CASE row'[t] = ClosedRow(snapshot, row[t])
    <3>1. Shown(row'[t]) => Shown(row[t]) /\ snapshot.source = sync.source
                            /\ ~(row[t].seq <= snapshot.seq)
      BY <2>4 DEF ClosedRow, Shown
    <3>2. snapshot.source = sync.source => snapshot.seq >= sync.last
      BY <1>4 DEF ReconcileActiveSnapshot, Acceptable
    <3> QED
      BY <1>r, <2>2, <3>1, <3>2 DEF RowsBelow
  <2> QED
    BY <2>1, <2>3, <2>4 DEF SnapshotRow
<1>5. CASE MarkTunnelSyncUnavailable
  BY <1>5, <1>r DEF MarkTunnelSyncUnavailable, RowsBelow, Shown, TypeOK
<1> QED
  BY <1>1, <1>2, <1>3, <1>4, <1>5 DEF Next, Mutate, Observe

LEMMA StaleNext ==
  TypeOK /\ RowsBelow /\ StaleMeansUnavailable /\ [Next]_vars => StaleMeansUnavailable'
<1> SUFFICES ASSUME TypeOK, RowsBelow, StaleMeansUnavailable, [Next]_vars, NEW t \in Tunnels,
                    sync'.available
             PROVE  row'[t].status # "stale"
  BY DEF StaleMeansUnavailable
<1> DEFINE G == row'[t].status # "stale"
<1>r. row[t] \in [status : Statuses, seq : Nat] /\ sync.last \in Nat
  BY DEF TypeOK
<1>0. ASSUME sync'.available = sync.available, row'[t].status # "stale" \/ row'[t].status = row[t].status
      PROVE  G
  BY <1>0 DEF StaleMeansUnavailable
<1>1. CASE \/ UNCHANGED vars \/ Run \/ RestartSish \/ FetchSnapshot \/ RestartControlPlane
           \/ \E u \in Tunnels : Restore(u)
           \/ \E S \in SUBSET allowed : AddKeyRollsBack(S)
  BY <1>0, <1>1 DEF vars, viewVars, Run, RestartSish, FetchSnapshot, RestartControlPlane, Restore,
     AddKeyRollsBack, BeginRegister, FinishRegister, FailRegister, ControlPlaneUnregister, UnregisterAgain
<1>2. ASSUME NEW S, Withdraw(S) PROVE G
  BY <1>0, <1>2, <1>r DEF Withdraw
<1>3. ASSUME NEW e \in events, ApplyTunnelConnect(e) \/ ApplyTunnelDisconnect(e) PROVE G
  <2>1. sync'.available = sync.available
    BY <1>3 DEF ApplyTunnelConnect, ApplyTunnelDisconnect, MoveCursor, TypeOK
  <2>2. row'[t].status # "stale" \/ row'[t].status = row[t].status
    BY <1>3 DEF ApplyTunnelConnect, ApplyTunnelDisconnect, TypeOK
  <2> QED
    BY <1>0, <2>1, <2>2
<1>4. CASE ReconcileActiveSnapshot
  <2>1. snapshot \in Snapshot /\ row'[t] = SnapshotRow(snapshot, t)
    BY <1>4 DEF ReconcileActiveSnapshot, TypeOK
  <2>2. snapshot.seq \in Nat
    BY <2>1 DEF Snapshot
  <2>3. ClosedRow(snapshot, row[t]).status # "stale"
    <3>1. snapshot.source = sync.source => snapshot.seq >= sync.last
      BY <1>4 DEF ReconcileActiveSnapshot, Acceptable
    <3>2. row[t].status = "stale" => row[t].seq <= sync.last
      BY DEF RowsBelow, Shown
    <3> QED
      BY <1>r, <2>2, <3>1, <3>2 DEF ClosedRow, Shown
  <2> QED
    BY <2>1, <2>3 DEF SnapshotRow
<1>5. CASE MarkTunnelSyncUnavailable
  BY <1>5 DEF MarkTunnelSyncUnavailable, TypeOK
<1> QED
  BY <1>1, <1>2, <1>3, <1>4, <1>5 DEF Next, Mutate, Observe

\* A snapshot that clears the mark leaves no stale row, since no row that is
\* shown has a number that the snapshot does not reach.
THEOREM NoStaleRowsWhenAvailable == Spec => []StaleMeansUnavailable
<1>1. TypeOK /\ RowsBelow /\ StaleMeansUnavailable /\ [Next]_vars
        => TypeOK' /\ RowsBelow' /\ StaleMeansUnavailable'
  BY NextType, BelowNext, StaleNext
<1> QED
  BY InitType, StaleInit, <1>1, PTL DEF Spec

LEMMA WithdrawnInit == Init => WithdrawnIsNotActive
  BY DEF Init, WithdrawnIsNotActive

LEMMA WithdrawnPolicy ==
  ASSUME TypeOK, WithdrawnIsNotActive, Mutate
  PROVE  WithdrawnIsNotActive'
<1>1. ASSUME NEW S, Withdraw(S) PROVE WithdrawnIsNotActive'
  <2> SUFFICES ASSUME NEW t \in Tunnels, t \notin allowed',
                      row'[t].status \in {"active", "stale"}
               PROVE  t \in unannounced'
    BY DEF WithdrawnIsNotActive
  <2>1. row[t] \in [status : Statuses, seq : Nat]
    BY DEF TypeOK
  <2>2. t \notin S /\ row'[t] = row[t]
    BY <1>1, <2>1 DEF Withdraw
  <2> QED
    BY <1>1, <2>2 DEF Withdraw, WithdrawnIsNotActive
<1>2. ASSUME NEW S, AddKeyRollsBack(S) PROVE WithdrawnIsNotActive'
  BY <1>2 DEF AddKeyRollsBack, WithdrawnIsNotActive, viewVars
<1>3. ASSUME NEW t \in Tunnels, Restore(t) PROVE WithdrawnIsNotActive'
  BY <1>3 DEF Restore, viewVars, WithdrawnIsNotActive
<1> QED
  BY <1>1, <1>2, <1>3 DEF Mutate

LEMMA WithdrawnSnapshot ==
  ASSUME TypeOK, RowsBelow, ReconcileActiveSnapshot
  PROVE  WithdrawnIsNotActive'
<1> SUFFICES ASSUME NEW t \in Tunnels, t \notin allowed
             PROVE  row'[t].status \notin {"active", "stale"}
  BY DEF ReconcileActiveSnapshot, WithdrawnIsNotActive
<1>1. row'[t] = ClosedRow(snapshot, row[t]) /\ snapshot \in Snapshot
  BY DEF ReconcileActiveSnapshot, SnapshotRow, Listed, TypeOK
<1>2. /\ row[t] \in [status : Statuses, seq : Nat]
      /\ snapshot.seq \in Nat /\ sync.last \in Nat
  BY <1>1 DEF TypeOK, Snapshot
<1>3. Shown(row[t]) /\ snapshot.source = sync.source => row[t].seq <= snapshot.seq
  BY <1>2 DEF ReconcileActiveSnapshot, Acceptable, RowsBelow
<1> QED
  BY <1>1, <1>2, <1>3 DEF ClosedRow, Shown

LEMMA WithdrawnNext ==
  TypeOK /\ RowsBelow /\ WithdrawnIsNotActive /\ [Next]_vars => WithdrawnIsNotActive'
<1> SUFFICES ASSUME TypeOK, RowsBelow, WithdrawnIsNotActive, [Next]_vars
             PROVE  WithdrawnIsNotActive'
  OBVIOUS
<1>0. ASSUME UNCHANGED <<allowed, unannounced, row>> PROVE WithdrawnIsNotActive'
  BY <1>0 DEF WithdrawnIsNotActive
<1>1. CASE UNCHANGED vars \/ Run \/ RestartSish \/ FetchSnapshot \/ RestartControlPlane
  BY <1>0, <1>1 DEF vars, policyVars, viewVars, Run, RestartSish, FetchSnapshot,
     RestartControlPlane, BeginRegister, FinishRegister, FailRegister,
     ControlPlaneUnregister, UnregisterAgain
<1>2. ASSUME NEW e \in events, ApplyTunnelConnect(e) PROVE WithdrawnIsNotActive'
  <2>1. e.tunnel \in allowed /\ UNCHANGED <<allowed, unannounced>>
    BY <1>2 DEF ApplyTunnelConnect, policyVars
  <2>2. \A t \in Tunnels : t # e.tunnel => row'[t] = row[t]
    BY <1>2 DEF ApplyTunnelConnect, TypeOK
  <2> QED
    BY <2>1, <2>2 DEF WithdrawnIsNotActive
<1>3. ASSUME NEW e \in events, ApplyTunnelDisconnect(e) PROVE WithdrawnIsNotActive'
  <2>1. \A t \in Tunnels : row'[t] = row[t] \/ row'[t].status = "disconnected"
    BY <1>3 DEF ApplyTunnelDisconnect, TypeOK
  <2> QED
    BY <1>3, <2>1 DEF ApplyTunnelDisconnect, WithdrawnIsNotActive, policyVars
<1>4. CASE MarkTunnelSyncUnavailable
  <2>1. \A t \in Tunnels : row'[t] = row[t] \/ row[t].status = "active"
    BY <1>4 DEF MarkTunnelSyncUnavailable
  <2> QED
    BY <1>4, <2>1 DEF MarkTunnelSyncUnavailable, WithdrawnIsNotActive, policyVars
<1> QED
  BY <1>1, <1>2, <1>3, <1>4, WithdrawnPolicy, WithdrawnSnapshot DEF Next, Observe

\* The rows of a withdrawn tunnel that still say it is active are those that
\* AddKey's rollback left unmarked, and no snapshot has been applied since.
THEOREM WithdrawnNotActive == Spec => []WithdrawnIsNotActive
<1>1. /\ TypeOK /\ RowsBelow /\ WithdrawnIsNotActive /\ [Next]_vars
           => TypeOK' /\ RowsBelow' /\ WithdrawnIsNotActive'
      /\ Init => TypeOK /\ RowsBelow /\ WithdrawnIsNotActive
  BY NextType, BelowNext, WithdrawnNext, InitType, StaleInit, WithdrawnInit
<1> QED
  BY <1>1, PTL DEF Spec

-----------------------------------------------------------------------------
(* The next snapshot                                                       *)

\* Sources follow one another: what is retired came before the source in use,
\* that one not after what was fetched, and nothing after the sish that runs,
\* whose numbers are the highest.
SourceInv ==
  /\ 1 <= source /\ sync.source <= source
  /\ \A r \in retired : r < sync.source
  /\ snapshot # None =>
       /\ 1 <= snapshot.source /\ sync.source <= snapshot.source /\ snapshot.source <= source
       /\ snapshot.source = source => snapshot.seq <= sequence
  /\ \A e \in events : e.source <= source /\ (e.source = source => e.seq <= sequence)
  /\ sync.source = source => sync.last <= sequence

Live(t) == tunnel[t] \in {"connecting", "acked", "registered"}

\* Nothing is known of a tunnel before its bind; what is known of one that
\* runs comes from the sish that runs.
LifeInv ==
  /\ \A t \in Tunnels : tunnel[t] = "new" =>
       /\ row[t] = [status |-> "none", seq |-> 0]
       /\ \A e \in events : e.tunnel # t
       /\ snapshot # None => t \notin snapshot.tunnels
  /\ \A t \in Tunnels : Live(t) =>
       /\ \A e \in events : e.tunnel = t => e.source = source
       /\ snapshot # None /\ t \in snapshot.tunnels => snapshot.source = source
       /\ row[t].seq <= sequence
       /\ sync.source \notin {0, source} => ~Shown(row[t])

ViewInv == TypeOK /\ RowsBelow /\ SourceInv /\ LifeInv

LEMMA ViewInit == Init => ViewInv
<1>1. Init => SourceInv /\ LifeInv
  BY DEF Init, SourceInv, LifeInv, Live
<1> QED
  BY <1>1, InitType, StaleInit DEF ViewInv

LEMMA ViewImplies == ViewInv => NextSnapshotRepairs
<1> SUFFICES ASSUME ViewInv PROVE NextSnapshotRepairs
  OBVIOUS
<1>0. /\ source \in Nat /\ sequence \in Nat /\ sync.source \in Nat /\ sync.last \in Nat
      /\ \A t \in Tunnels : row[t].seq \in Nat
      /\ retired \subseteq Nat
  BY DEF ViewInv, TypeOK
<1>1. source \notin retired
  BY <1>0 DEF ViewInv, SourceInv
<1>2. sync.source = source => sync.last <= sequence
  BY DEF ViewInv, SourceInv
<1>3. sync.source = source => \A t \in Tunnels : Shown(row[t]) => row[t].seq <= sequence
  BY <1>0, <1>2 DEF ViewInv, RowsBelow
<1>4. \A t \in Tunnels : tunnel[t] = "registered" => row[t].seq <= sequence
  BY DEF ViewInv, LifeInv, Live
<1> QED
  BY <1>1, <1>2, <1>3, <1>4 DEF NextSnapshotRepairs

\* The numbers in the state.
LEMMA Numbers ==
  ASSUME TypeOK
  PROVE  /\ source \in Nat /\ sequence \in Nat /\ sync.source \in Nat /\ sync.last \in Nat
         /\ retired \subseteq Nat
         /\ \A t \in Tunnels : row[t] \in [status : Statuses, seq : Nat]
         /\ \A e \in events : e.tunnel \in Tunnels /\ e.source \in Nat /\ e.seq \in Nat
         /\ snapshot # None => /\ snapshot \in Snapshot /\ snapshot.source \in Nat
                               /\ snapshot.seq \in Nat
  BY DEF TypeOK, Event, Snapshot

-----------------------------------------------------------------------------
LEMMA SourceSish ==
  ASSUME ViewInv, NEW t \in Tunnels
  PROVE  /\ BeginRegister(t) => SourceInv'
         /\ FinishRegister(t) => SourceInv'
         /\ FailRegister(t) => SourceInv'
         /\ ControlPlaneUnregister(t) => SourceInv'
         /\ UnregisterAgain(t) => SourceInv'
<1> USE Numbers DEF ViewInv
<1>1. ASSUME NEW kind \in {"connect", "disconnect"}, sequence' = sequence + 1, Send(kind, t),
             UNCHANGED <<source, snapshot, viewVars>>
      PROVE  SourceInv'
  BY <1>1 DEF Send, viewVars, SourceInv
<1>2. ASSUME UNCHANGED <<source, events, snapshot, viewVars>>,
             sequence' = sequence \/ sequence' = sequence + 1
      PROVE  SourceInv'
  BY <1>2 DEF viewVars, SourceInv
<1>3. BeginRegister(t) => SourceInv'
  BY <1>1 DEF BeginRegister, nextSequenceLocked
<1>4. ControlPlaneUnregister(t) => SourceInv'
  BY <1>1 DEF ControlPlaneUnregister, nextSequenceLocked
<1>5. FinishRegister(t) \/ FailRegister(t) \/ UnregisterAgain(t) => SourceInv'
  BY <1>2 DEF FinishRegister, FailRegister, UnregisterAgain, nextSequenceLocked
<1> QED
  BY <1>3, <1>4, <1>5

LEMMA SourceRest ==
  ASSUME ViewInv
  PROVE  /\ RestartSish => SourceInv'
         /\ Mutate => SourceInv'
         /\ FetchSnapshot => SourceInv'
         /\ ReconcileActiveSnapshot => SourceInv'
         /\ MarkTunnelSyncUnavailable => SourceInv'
         /\ RestartControlPlane => SourceInv'
<1> USE Numbers DEF ViewInv
<1>1. ASSUME RestartSish PROVE SourceInv'
  BY <1>1 DEF RestartSish, SourceInv, viewVars
<1>2. ASSUME Mutate PROVE SourceInv'
  BY <1>2 DEF Mutate, Withdraw, AddKeyRollsBack, Restore, SourceInv, viewVars, sishVars
<1>3. ASSUME FetchSnapshot PROVE SourceInv'
  <2>1. snapshot'.source = source /\ snapshot'.seq = sequence
    BY <1>3 DEF FetchSnapshot
  <2> QED
    BY <1>3, <2>1 DEF FetchSnapshot, SourceInv, viewVars, sishVars
<1>4. ASSUME ReconcileActiveSnapshot PROVE SourceInv'
  <2>1. /\ sync'.source = snapshot.source /\ sync'.last = snapshot.seq
        /\ snapshot # None /\ snapshot' = None /\ UNCHANGED sishVars
    BY <1>4 DEF ReconcileActiveSnapshot
  <2>2. \A r \in retired' : r < sync'.source
    <3> SUFFICES ASSUME NEW r \in retired' PROVE r < snapshot.source
      BY <2>1
    <3>1. r \in retired \/ (r = sync.source /\ sync.source # snapshot.source)
      BY <1>4 DEF ReconcileActiveSnapshot
    <3>2. sync.source <= snapshot.source /\ \A q \in retired : q < sync.source
      BY <2>1 DEF SourceInv
    <3>3. sync.source \in Nat /\ snapshot.source \in Nat /\ retired \subseteq Nat
      BY <2>1
    <3>4. CASE r \in retired
      <4>1. r \in Nat /\ r < sync.source
        BY <3>2, <3>3, <3>4
      <4> QED
        BY <3>2, <3>3, <4>1
    <3>5. CASE r = sync.source /\ sync.source # snapshot.source
      BY <3>2, <3>3, <3>5
    <3> QED
      BY <3>1, <3>4, <3>5
  <2> QED
    BY <2>1, <2>2 DEF SourceInv, sishVars
<1>5. ASSUME MarkTunnelSyncUnavailable PROVE SourceInv'
  <2>1. sync'.source = sync.source /\ sync'.last = sync.last
    BY <1>5 DEF MarkTunnelSyncUnavailable, TypeOK
  <2> QED
    BY <1>5, <2>1 DEF MarkTunnelSyncUnavailable, SourceInv, sishVars
<1>6. ASSUME RestartControlPlane PROVE SourceInv'
  BY <1>6 DEF RestartControlPlane, SourceInv, viewVars, sishVars
<1> QED
  BY <1>1, <1>2, <1>3, <1>4, <1>5, <1>6

LEMMA SourceEvent ==
  ASSUME ViewInv, NEW e \in events, ApplyTunnelConnect(e) \/ ApplyTunnelDisconnect(e)
  PROVE  SourceInv'
<1> USE Numbers DEF ViewInv
<1>1. UNCHANGED <<source, sequence, events, snapshot, retired>>
  BY DEF ApplyTunnelConnect, ApplyTunnelDisconnect, sishVars
<1>2. sync.source \in {0, e.source}
  BY DEF ApplyTunnelConnect, ApplyTunnelDisconnect, validateLifecycleSource
<1>3. sync'.source = sync.source /\ (sync'.last = sync.last \/ sync'.last = e.seq)
  BY DEF ApplyTunnelConnect, ApplyTunnelDisconnect, MoveCursor, TypeOK
<1>4. sync.source = source => e.seq <= sequence
  BY <1>2 DEF SourceInv
<1> QED
  BY <1>1, <1>3, <1>4 DEF SourceInv

-----------------------------------------------------------------------------
\* One tunnel's part of LifeInv.
Known(t) ==
  /\ tunnel[t] = "new" =>
       /\ row[t] = [status |-> "none", seq |-> 0]
       /\ \A e \in events : e.tunnel # t
       /\ snapshot # None => t \notin snapshot.tunnels
  /\ Live(t) =>
       /\ \A e \in events : e.tunnel = t => e.source = source
       /\ snapshot # None /\ t \in snapshot.tunnels => snapshot.source = source
       /\ row[t].seq <= sequence
       /\ sync.source \notin {0, source} => ~Shown(row[t])

LEMMA LifeKnown == LifeInv <=> \A t \in Tunnels : Known(t)
  BY DEF LifeInv, Known

LEMMA LifeSish ==
  ASSUME ViewInv, NEW u \in Tunnels, NEW t \in Tunnels, Known(t)
  PROVE  /\ BeginRegister(u) => Known(t)'
         /\ FinishRegister(u) => Known(t)'
         /\ FailRegister(u) => Known(t)'
         /\ ControlPlaneUnregister(u) => Known(t)'
         /\ UnregisterAgain(u) => Known(t)'
<1> USE Numbers DEF ViewInv
<1>r. row[t].seq \in Nat /\ sequence \in Nat
  OBVIOUS
<1>1. ASSUME BeginRegister(u) PROVE Known(t)'
  <2>1. tunnel[u] = "new" /\ tunnel'[u] = "connecting"
    BY <1>1 DEF BeginRegister, Advance, TypeOK
  <2>2. t # u => tunnel'[t] = tunnel[t]
    BY <1>1 DEF BeginRegister, Advance, TypeOK
  <2>3. sequence' = sequence + 1 /\ UNCHANGED <<source, snapshot, row, sync>>
    BY <1>1 DEF BeginRegister, nextSequenceLocked, viewVars
  <2>4. \A e \in events' : e \in events \/ (e.tunnel = u /\ e.source = source)
    BY <1>1 DEF BeginRegister, Send
  <2>5. CASE t = u
    <3>1. row[t] = [status |-> "none", seq |-> 0] /\ ~Shown(row[t]) /\ row[t].seq = 0
      BY <2>1, <2>5 DEF Known, Shown
    <3> QED
      BY <1>r, <2>1, <2>3, <2>4, <2>5, <3>1 DEF Known, Live
  <2>6. CASE t # u
    BY <1>r, <2>2, <2>3, <2>4, <2>6 DEF Known, Live
  <2> QED
    BY <2>5, <2>6
<1>2. ASSUME ControlPlaneUnregister(u) PROVE Known(t)'
  <2>1. tunnel[u] = "registered" /\ tunnel'[u] = "closed"
    BY <1>2 DEF ControlPlaneUnregister, Advance, TypeOK
  <2>2. t # u => tunnel'[t] = tunnel[t]
    BY <1>2 DEF ControlPlaneUnregister, Advance, TypeOK
  <2>3. sequence' = sequence + 1 /\ UNCHANGED <<source, snapshot, row, sync>>
    BY <1>2 DEF ControlPlaneUnregister, nextSequenceLocked, viewVars
  <2>4. \A e \in events' : e \in events \/ (e.tunnel = u /\ e.source = source)
    BY <1>2 DEF ControlPlaneUnregister, Send
  <2> QED
    BY <1>r, <2>1, <2>2, <2>3, <2>4 DEF Known, Live
<1>3. ASSUME FinishRegister(u) \/ FailRegister(u) \/ UnregisterAgain(u) PROVE Known(t)'
  <2>1. /\ tunnel[u] # "new" /\ tunnel'[u] \in {"registered", "gone"}
        /\ tunnel'[u] = "registered" => tunnel[u] = "acked"
    BY <1>3 DEF FinishRegister, FailRegister, UnregisterAgain, Advance, TypeOK
  <2>2. t # u => tunnel'[t] = tunnel[t]
    BY <1>3 DEF FinishRegister, FailRegister, UnregisterAgain, Advance, TypeOK
  <2>3. /\ sequence' = sequence \/ sequence' = sequence + 1
        /\ UNCHANGED <<source, events, snapshot, row, sync>>
    BY <1>3 DEF FinishRegister, FailRegister, UnregisterAgain, nextSequenceLocked, viewVars
  <2> QED
    BY <1>r, <2>1, <2>2, <2>3 DEF Known, Live
<1> QED
  BY <1>1, <1>2, <1>3

LEMMA LifeRest ==
  ASSUME ViewInv, NEW t \in Tunnels, Known(t)
  PROVE  /\ RestartSish => Known(t)'
         /\ Mutate => Known(t)'
         /\ FetchSnapshot => Known(t)'
         /\ MarkTunnelSyncUnavailable => Known(t)'
         /\ RestartControlPlane => Known(t)'
<1> USE Numbers DEF ViewInv
<1>r. row[t] \in [status : Statuses, seq : Nat] /\ sequence \in Nat
  OBVIOUS
<1>1. ASSUME RestartSish PROVE Known(t)'
  BY <1>1 DEF RestartSish, Known, Live, viewVars
<1>2. ASSUME NEW S, Withdraw(S) PROVE Known(t)'
  <2>1. row'[t] = row[t] \/ (Shown(row[t]) /\ row'[t].seq = row[t].seq)
    BY <1>2, <1>r DEF Withdraw, Shown
  <2>2. row[t].status = "none" => row'[t] = row[t]
    BY <1>2 DEF Withdraw
  <2> QED
    BY <1>2, <2>1, <2>2 DEF Withdraw, Known, Live, sishVars
<1>3. ASSUME NEW u \in Tunnels, Restore(u) PROVE Known(t)'
  BY <1>3 DEF Restore, Known, Live, sishVars, policyVars, viewVars
<1>4. ASSUME FetchSnapshot PROVE Known(t)'
  <2>1. snapshot'.source = source /\ (t \in snapshot'.tunnels => tunnel[t] = "registered")
    BY <1>4 DEF FetchSnapshot
  <2> QED
    BY <1>4, <2>1 DEF FetchSnapshot, Known, Live, sishVars, policyVars, viewVars
<1>5. ASSUME MarkTunnelSyncUnavailable PROVE Known(t)'
  <2>1. /\ row'[t] = row[t] \/ (Shown(row[t]) /\ row'[t].seq = row[t].seq)
        /\ row[t].status = "none" => row'[t] = row[t]
    BY <1>5, <1>r DEF MarkTunnelSyncUnavailable, Shown
  <2>2. sync'.source = sync.source
    BY <1>5 DEF MarkTunnelSyncUnavailable, TypeOK
  <2> QED
    BY <1>5, <2>1, <2>2 DEF MarkTunnelSyncUnavailable, Known, Live, sishVars
<1>6. ASSUME RestartControlPlane PROVE Known(t)'
  BY <1>6 DEF RestartControlPlane, Known, Live, sishVars, policyVars, viewVars
<1>7. ASSUME NEW S, AddKeyRollsBack(S) PROVE Known(t)'
  BY <1>7 DEF AddKeyRollsBack, Known, Live, sishVars, viewVars
<1> QED
  BY <1>1, <1>2, <1>3, <1>4, <1>5, <1>6, <1>7 DEF Mutate

LEMMA LifeEvent ==
  ASSUME ViewInv, NEW t \in Tunnels, Known(t), NEW e \in events,
         ApplyTunnelConnect(e) \/ ApplyTunnelDisconnect(e)
  PROVE  Known(t)'
<1> USE Numbers DEF ViewInv
<1>1. UNCHANGED <<source, sequence, events, snapshot>> /\ sync'.source = sync.source
  BY DEF ApplyTunnelConnect, ApplyTunnelDisconnect, MoveCursor, sishVars, TypeOK
<1>2. tunnel'[t] = tunnel[t] \/ (tunnel[t] = "connecting" /\ tunnel'[t] = "acked")
  BY DEF ApplyTunnelConnect, ApplyTunnelDisconnect, sishVars, TypeOK
<1>3. CASE row'[t] = row[t]
  BY <1>1, <1>2, <1>3 DEF Known, Live
<1>4. CASE row'[t] # row[t]
  <2>1. t = e.tunnel /\ row'[t].seq = e.seq
    BY <1>4 DEF ApplyTunnelConnect, ApplyTunnelDisconnect, TypeOK
  <2>2. tunnel[t] # "new"
    BY <2>1 DEF Known
  <2>3. Live(t) => e.source = source /\ e.seq <= sequence
    BY <2>1 DEF Known, SourceInv
  <2>4. Live(t) => sync.source \in {0, source}
    BY <2>3 DEF ApplyTunnelConnect, ApplyTunnelDisconnect, validateLifecycleSource
  <2> QED
    BY <1>1, <1>2, <2>1, <2>2, <2>3, <2>4 DEF Known, Live
<1> QED
  BY <1>3, <1>4

LEMMA LifeSnapshot ==
  ASSUME ViewInv, NEW t \in Tunnels, Known(t), ReconcileActiveSnapshot
  PROVE  Known(t)'
<1> USE Numbers DEF ViewInv
<1> DEFINE s == snapshot
<1>1. /\ s # None /\ snapshot' = None /\ sync'.source = s.source
      /\ UNCHANGED <<source, sequence, tunnel, events>>
  BY DEF ReconcileActiveSnapshot, sishVars
<1>2. row'[t] = SnapshotRow(s, t)
  BY DEF ReconcileActiveSnapshot
<1>3. s.seq \in Nat /\ s.source \in Nat /\ 1 <= s.source
  BY <1>1 DEF SourceInv
<1>4. ASSUME tunnel[t] = "new" PROVE row'[t] = row[t]
  <2>1. t \notin Listed(s)
    BY <1>1, <1>4 DEF Known, Listed
  <2>2. ~Shown(row[t])
    BY <1>4 DEF Known, Shown
  <2> QED
    BY <1>2, <2>1, <2>2 DEF SnapshotRow, ClosedRow
<1>5. ASSUME Live(t)
      PROVE  row'[t].seq <= sequence /\ (s.source \notin {0, source} => ~Shown(row'[t]))
  <2>1. CASE t \in Listed(s)
    <3>1. s.source = source /\ s.seq <= sequence
      BY <1>1, <1>5, <2>1 DEF Known, Listed, SourceInv
    <3>2. row'[t].seq <= sequence
      <4>1. row[t].seq <= sequence
        BY <1>5 DEF Known
      <4>2. ClosedRow(s, row[t]).seq \in {row[t].seq, s.seq, 0}
        BY DEF ClosedRow
      <4>3. row'[t].seq \in {row[t].seq, s.seq, 0}
        BY <1>2, <4>2 DEF SnapshotRow
      <4> QED
        BY <3>1, <4>1, <4>3
    <3> QED
      BY <3>1, <3>2
  <2>2. CASE t \notin Listed(s)
    <3>1. row'[t] = ClosedRow(s, row[t])
      BY <1>2, <2>2 DEF SnapshotRow
    <3>2. CASE ~Shown(row[t])
      <4>1. row'[t] = row[t]
        BY <3>1, <3>2 DEF ClosedRow
      <4> QED
        BY <1>5, <3>2, <4>1 DEF Known
    <3>3. CASE Shown(row[t]) /\ s.source = sync.source
      <4>1. s.source = source
        BY <1>3, <1>5, <3>3 DEF Known
      <4>2. row'[t].seq \in {row[t].seq, s.seq}
        BY <3>1, <3>3 DEF ClosedRow
      <4>3. s.seq <= sequence /\ row[t].seq <= sequence
        BY <1>1, <1>5, <4>1 DEF Known, SourceInv
      <4> QED
        BY <4>1, <4>2, <4>3
    <3>4. CASE Shown(row[t]) /\ s.source # sync.source
      <4>1. row'[t] = [status |-> "disconnected", seq |-> 0]
        BY <3>1, <3>4 DEF ClosedRow
      <4> QED
        BY <4>1 DEF Shown
    <3> QED
      BY <3>2, <3>3, <3>4
  <2> QED
    BY <2>1, <2>2
<1> QED
  BY <1>1, <1>4, <1>5 DEF Known, Live

LEMMA ViewNext == ViewInv /\ [Next]_vars => ViewInv'
<1> SUFFICES ASSUME ViewInv, [Next]_vars PROVE ViewInv'
  OBVIOUS
<1>1. TypeOK' /\ RowsBelow'
  BY NextType, BelowNext DEF ViewInv
<1>2. SourceInv'
  <2>1. CASE UNCHANGED vars
    BY <2>1 DEF vars, sishVars, policyVars, viewVars, ViewInv, SourceInv
  <2> QED
    BY <2>1, SourceSish, SourceRest, SourceEvent DEF Next, Run, Observe
<1>3. ASSUME NEW t \in Tunnels PROVE Known(t)'
  <2>0. Known(t)
    BY LifeKnown DEF ViewInv
  <2>1. CASE UNCHANGED vars
    BY <2>0, <2>1 DEF vars, sishVars, policyVars, viewVars, Known, Live
  <2> QED
    BY <2>0, <2>1, LifeSish, LifeRest, LifeEvent, LifeSnapshot DEF Next, Run, Observe
<1>4. LifeInv'
  BY <1>3 DEF LifeInv, Known
<1> QED
  BY <1>1, <1>2, <1>4 DEF ViewInv

\* The next snapshot would be accepted and correct every row, for any number
\* of restarts and events in any order. The invariant orders the sources by
\* their starts, which the code cannot see.
THEOREM SnapshotAlwaysRepairs == Spec => []NextSnapshotRepairs
BY ViewInit, ViewNext, ViewImplies, PTL DEF Spec

-----------------------------------------------------------------------------
(* What has ended                                                          *)

\* No two events have the same number of one sish, and only those that were
\* sent are in lifecycle_events.
NumbersInv ==
  /\ \A e, f \in events : EventId(e) = EventId(f) => e = f
  /\ \A i \in applied : i.source <= source /\ (i.source = source => i.seq <= sequence)
  /\ \A e \in events : e.seq >= 1

\* Nothing of t is known yet but, perhaps, that its connect event was sent.
Unheard(t) ==
  /\ cursor[t] = 0
  /\ tunnel[t] = "connecting" =>
       /\ row[t] = [status |-> "none", seq |-> 0]
       /\ snapshot # None => t \notin snapshot.tunnels
       /\ \A e \in events : e.tunnel = t => EventId(e) \notin applied

\* The row of t has been made by its only event.
Heard(t) ==
  /\ row[t].status # "none" /\ cursor[t] <= sequence
  /\ \A e \in events : e.tunnel = t => EventId(e) \in applied
  /\ 0 < sync.source /\ sync.source < source => cursor[t] = 0

\* No snapshot that can still be applied brings back what ended with event d.
Settled(t, d) ==
  \/ row[t].seq >= d.seq
  \/ sync.source > d.source
  \/ sync.source = d.source /\ sync.last >= d.seq

\* Tunnel t has sent its disconnect event d.
Over(t, d) ==
  /\ tunnel[t] \in {"closed", "gone"} /\ row[t].status # "none"
  /\ \A e \in events : e.tunnel = t =>
       e.source = d.source /\ (e.kind = "connect" => EventId(e) \in applied)
  /\ snapshot # None /\ t \in snapshot.tunnels =>
       snapshot.source = d.source /\ snapshot.seq < d.seq
  /\ 0 < sync.source /\ sync.source < d.source => cursor[t] = 0
  /\ Shown(row[t]) => row[t].seq < d.seq
  /\ cursor[t] >= d.seq \/ EventId(d) \in applied => ~Shown(row[t]) /\ Settled(t, d)

Ending(t) ==
  /\ tunnel[t] \in {"new", "connecting"} => Unheard(t)
  /\ tunnel[t] \in {"connecting", "acked", "registered"} =>
       \A e, f \in events : e.tunnel = t /\ f.tunnel = t => e = f /\ e.kind = "connect"
  /\ tunnel[t] \in {"acked", "registered"} => Heard(t)
  /\ \A d \in events : d.tunnel = t /\ d.kind = "disconnect" => Over(t, d)

EndedInv == NumbersInv /\ \A t \in Tunnels : Ending(t)

LEMMA EndedInit == Init => EndedInv
  BY DEF Init, EndedInv, NumbersInv, Ending, Unheard

LEMMA EndedImplies == TypeOK /\ EndedInv => EndedStaysEnded
  BY Numbers DEF EndedInv, Ending, Over, EndedStaysEnded

\* The cursors and the numbers that were handled.
LEMMA MoreNumbers ==
  ASSUME TypeOK
  PROVE  /\ \A t \in Tunnels : cursor[t] \in Nat
         /\ \A i \in applied : i.source \in Nat /\ i.seq \in Nat
         /\ \A e \in events : /\ e.kind \in {"connect", "disconnect"} /\ EventId(e).source = e.source
                              /\ EventId(e).seq = e.seq
  BY DEF TypeOK, Event, EventId

LEMMA NumbersSend ==
  ASSUME ViewInv, NumbersInv, NEW kind \in {"connect", "disconnect"}, NEW t \in Tunnels,
         sequence' = sequence + 1, Send(kind, t), UNCHANGED <<source, applied>>
  PROVE  /\ NumbersInv'
         /\ [source |-> source, seq |-> sequence + 1] \notin applied
<1> USE Numbers, MoreNumbers DEF ViewInv
<1> DEFINE new == [kind |-> kind, tunnel |-> t, source |-> source, seq |-> sequence + 1]
<1>1. events' = events \cup {new}
  BY DEF Send
<1>2. new.source = source /\ new.seq = sequence + 1 /\ sequence \in Nat
  OBVIOUS
<1>3. EventId(new).source = source /\ EventId(new).seq = sequence + 1
  BY DEF EventId
<1> HIDE DEF new
<1>4. \A e \in events : EventId(e) # EventId(new)
  BY <1>2, <1>3 DEF SourceInv
<1>5. \A e, f \in events' : EventId(e) = EventId(f) => e = f
  BY <1>1, <1>4 DEF NumbersInv
<1>6. \A e \in events' : e.seq >= 1
  BY <1>1, <1>2 DEF NumbersInv
<1>7. \A i \in applied' : i.source <= source' /\ (i.source = source' => i.seq <= sequence')
  BY DEF NumbersInv
<1>8. [source |-> source, seq |-> sequence + 1] \notin applied
  BY DEF NumbersInv
<1> QED
  BY <1>5, <1>6, <1>7, <1>8 DEF NumbersInv

LEMMA NumbersApply ==
  ASSUME ViewInv, NumbersInv, NEW e \in events, UNCHANGED <<source, sequence, events>>,
         applied' = applied \cup {EventId(e)}
  PROVE  NumbersInv'
<1> USE Numbers, MoreNumbers DEF ViewInv
<1>1. \A i \in applied' : i.source <= source' /\ (i.source = source' => i.seq <= sequence')
  BY DEF NumbersInv, SourceInv
<1> QED
  BY <1>1 DEF NumbersInv

LEMMA NumbersNext == ViewInv /\ NumbersInv /\ [Next]_vars => NumbersInv'
<1> SUFFICES ASSUME ViewInv, NumbersInv, [Next]_vars PROVE NumbersInv'
  OBVIOUS
<1> USE Numbers, MoreNumbers DEF ViewInv
<1>1. ASSUME NEW t \in Tunnels, BeginRegister(t) PROVE NumbersInv'
  BY <1>1, NumbersSend DEF BeginRegister, nextSequenceLocked, viewVars
<1>2. ASSUME NEW t \in Tunnels, ControlPlaneUnregister(t) PROVE NumbersInv'
  BY <1>2, NumbersSend DEF ControlPlaneUnregister, nextSequenceLocked, viewVars
<1>3. ASSUME NEW t \in Tunnels, FinishRegister(t) \/ FailRegister(t) \/ UnregisterAgain(t)
      PROVE  NumbersInv'
  <2>1. /\ UNCHANGED <<source, events, applied>>
        /\ sequence' = sequence \/ sequence' = sequence + 1
    BY <1>3 DEF FinishRegister, FailRegister, UnregisterAgain, nextSequenceLocked, viewVars
  <2> QED
    BY <2>1 DEF NumbersInv
<1>4. CASE RestartSish
  <2>1. /\ source' = source + 1 /\ UNCHANGED <<events, applied>>
    BY <1>4 DEF RestartSish, viewVars
  <2>2. \A i \in applied : i.source <= source /\ i.source \in Nat
    BY DEF NumbersInv
  <2>3. \A i \in applied' : i.source <= source' /\ i.source # source'
    BY <2>1, <2>2
  <2> QED
    BY <2>1, <2>3 DEF NumbersInv
<1>5. ASSUME NEW e \in events, ApplyTunnelConnect(e) \/ ApplyTunnelDisconnect(e)
      PROVE  NumbersInv'
  BY <1>5, NumbersApply DEF ApplyTunnelConnect, ApplyTunnelDisconnect, sishVars
<1>6. ASSUME UNCHANGED <<source, sequence, events, applied>> PROVE NumbersInv'
  BY <1>6 DEF NumbersInv
<1>7. CASE Mutate \/ UNCHANGED vars
  BY <1>6, <1>7 DEF Mutate, Withdraw, AddKeyRollsBack, Restore, vars, sishVars, policyVars, viewVars
<1>8. CASE \/ FetchSnapshot \/ ReconcileActiveSnapshot \/ MarkTunnelSyncUnavailable
           \/ RestartControlPlane
  BY <1>6, <1>8 DEF FetchSnapshot, ReconcileActiveSnapshot, MarkTunnelSyncUnavailable,
     RestartControlPlane, sishVars, policyVars, viewVars
<1> QED
  BY <1>1, <1>2, <1>3, <1>4, <1>5, <1>7, <1>8 DEF Next, Run, Observe

-----------------------------------------------------------------------------
\* sish numbers on, and a tunnel of another name is not concerned.
LEMMA EndingOther ==
  ASSUME ViewInv, NEW t \in Tunnels, Ending(t), sequence' \in Nat, sequence' >= sequence,
         UNCHANGED <<source, snapshot, row, cursor, applied, sync>>,
         UNCHANGED tunnel[t], \A e \in events' : e.tunnel = t => e \in events
  PROVE  Ending(t)'
<1> USE Numbers, MoreNumbers DEF ViewInv
<1>1. \A e \in events' : e.tunnel = t => e \in events
  OBVIOUS
<1>2. Unheard(t) => Unheard(t)'
  BY <1>1 DEF Unheard
<1>3. Heard(t) => Heard(t)'
  BY <1>1 DEF Heard
<1>4. ASSUME NEW d, Over(t, d) PROVE Over(t, d)'
  BY <1>1, <1>4 DEF Over, Settled
<1> QED
  BY <1>1, <1>2, <1>3, <1>4 DEF Ending

LEMMA EndingBegin ==
  ASSUME ViewInv, NumbersInv, NEW t \in Tunnels, Ending(t), BeginRegister(t)
  PROVE  Ending(t)'
<1> USE Numbers, MoreNumbers DEF ViewInv
<1> DEFINE new == [kind |-> "connect", tunnel |-> t, source |-> source, seq |-> sequence + 1]
<1>1. /\ tunnel[t] = "new" /\ tunnel'[t] = "connecting" /\ events' = events \cup {new}
      /\ sequence' = sequence + 1 /\ UNCHANGED <<source, snapshot, row, cursor, applied, sync>>
  BY DEF BeginRegister, Advance, Send, nextSequenceLocked, viewVars, TypeOK
<1>2. EventId(new) \notin applied
  BY <1>1, NumbersSend DEF BeginRegister, EventId, viewVars
<1>3. new.tunnel = t /\ new.kind = "connect"
  OBVIOUS
<1> HIDE DEF new
<1>4. /\ cursor[t] = 0 /\ row[t] = [status |-> "none", seq |-> 0]
      /\ snapshot # None => t \notin snapshot.tunnels
      /\ \A e \in events : e.tunnel # t
  BY <1>1 DEF Ending, Unheard, LifeInv
<1>5. \A e \in events' : e.tunnel = t => e = new
  BY <1>1, <1>4
<1>6. Unheard(t)'
  BY <1>1, <1>2, <1>4, <1>5 DEF Unheard
<1> QED
  BY <1>1, <1>3, <1>5, <1>6 DEF Ending

LEMMA EndingUnregister ==
  ASSUME ViewInv, NumbersInv, NEW t \in Tunnels, Ending(t), ControlPlaneUnregister(t)
  PROVE  Ending(t)'
<1> USE Numbers, MoreNumbers DEF ViewInv
<1>0. PICK new : new = [kind |-> "disconnect", tunnel |-> t, source |-> source, seq |-> sequence + 1]
  OBVIOUS
<1>1. /\ tunnel[t] = "registered" /\ tunnel'[t] = "closed" /\ events' = events \cup {new}
      /\ sequence' = sequence + 1 /\ UNCHANGED <<source, snapshot, row, cursor, applied, sync>>
  BY <1>0 DEF ControlPlaneUnregister, Advance, Send, nextSequenceLocked, viewVars, TypeOK
<1>2. EventId(new) \notin applied
  BY <1>0, <1>1, NumbersSend DEF ControlPlaneUnregister, EventId, viewVars
<1>3. /\ new.tunnel = t /\ new.kind = "disconnect" /\ new.source = source
      /\ new.seq = sequence + 1
  BY <1>0
<1>4. Heard(t) /\ \A e \in events : e.tunnel = t => e.kind = "connect"
  BY <1>1 DEF Ending
<1>5. /\ \A e \in events : e.tunnel = t => e.source = source
      /\ snapshot # None /\ t \in snapshot.tunnels => snapshot.source = source
      /\ row[t].seq <= sequence
  BY <1>1 DEF LifeInv, Live
<1>6. Over(t, new)'
  <2>1. /\ row[t].status # "none" /\ cursor[t] < new.seq /\ row[t].seq < new.seq
        /\ 0 < sync.source /\ sync.source < source => cursor[t] = 0
    BY <1>3, <1>4, <1>5 DEF Heard
  <2>2. \A e \in events' : e.tunnel = t =>
          e.source = new.source /\ (e.kind = "connect" => EventId(e) \in applied)
    BY <1>1, <1>3, <1>4, <1>5 DEF Heard
  <2>3. snapshot # None /\ t \in snapshot.tunnels =>
          snapshot.source = new.source /\ snapshot.seq < new.seq
    BY <1>3, <1>5 DEF SourceInv
  <2>4. new.seq \in Nat /\ cursor[t] \in Nat
    BY <1>3
  <2> QED
    BY <1>1, <1>2, <1>3, <2>1, <2>2, <2>3, <2>4 DEF Over
<1>7. \A d \in events' : d.tunnel = t /\ d.kind = "disconnect" => d = new
  BY <1>1, <1>4
<1> QED
  BY <1>1, <1>6, <1>7 DEF Ending

LEMMA EndingPhase ==
  ASSUME ViewInv, NEW t \in Tunnels, Ending(t),
         FinishRegister(t) \/ FailRegister(t) \/ UnregisterAgain(t)
  PROVE  Ending(t)'
<1> USE Numbers, MoreNumbers DEF ViewInv
<1>1. /\ UNCHANGED <<source, events, snapshot, row, cursor, applied, sync>>
      /\ sequence' = sequence \/ sequence' = sequence + 1
  BY DEF FinishRegister, FailRegister, UnregisterAgain, nextSequenceLocked, viewVars
<1>2. \/ tunnel[t] = "acked" /\ tunnel'[t] = "registered"
      \/ tunnel[t] \in {"connecting", "acked"} /\ tunnel'[t] = "gone"
      \/ tunnel[t] = "closed" /\ tunnel'[t] = "gone"
  BY DEF FinishRegister, FailRegister, UnregisterAgain, Advance, TypeOK
<1>3. Heard(t) => Heard(t)'
  BY <1>1 DEF Heard
<1>4. ASSUME NEW d \in events, Over(t, d) PROVE Over(t, d)'
  BY <1>1, <1>2, <1>4 DEF Over, Settled
<1> QED
  BY <1>1, <1>2, <1>3, <1>4 DEF Ending

LEMMA EndingRestart ==
  ASSUME ViewInv, NEW t \in Tunnels, Ending(t), RestartSish
  PROVE  Ending(t)'
<1> USE Numbers, MoreNumbers DEF ViewInv
<1>1. /\ UNCHANGED <<events, snapshot, row, cursor, applied, sync>>
      /\ tunnel'[t] = IF tunnel[t] = "new" THEN "new" ELSE "gone"
  BY DEF RestartSish, viewVars
<1>2. tunnel[t] = "new" => Unheard(t)'
  BY <1>1 DEF Ending, Unheard
<1>3. ASSUME NEW d \in events, Over(t, d) PROVE Over(t, d)'
  BY <1>1, <1>3 DEF Over, Settled
<1> QED
  BY <1>1, <1>2, <1>3 DEF Ending

\* The steps that change how a row is marked, or what is fetched.
LEMMA EndingMarked ==
  ASSUME ViewInv, NEW t \in Tunnels, Ending(t),
         Mutate \/ FetchSnapshot \/ MarkTunnelSyncUnavailable \/ RestartControlPlane
  PROVE  Ending(t)'
<1> USE Numbers, MoreNumbers DEF ViewInv
<1>1. /\ UNCHANGED <<source, sequence, tunnel, events, cursor, applied>>
      /\ sync'.source = sync.source /\ sync'.last = sync.last
  BY DEF Mutate, Withdraw, AddKeyRollsBack, Restore, FetchSnapshot, MarkTunnelSyncUnavailable,
     RestartControlPlane, sishVars, policyVars, viewVars, TypeOK
<1>2. /\ row'[t].seq = row[t].seq /\ (Shown(row'[t]) <=> Shown(row[t]))
      /\ (row'[t].status = "none" <=> row[t].status = "none")
      /\ row[t].status = "none" => row'[t] = row[t]
  BY DEF Mutate, Withdraw, AddKeyRollsBack, Restore, FetchSnapshot, MarkTunnelSyncUnavailable,
     RestartControlPlane, viewVars, Shown
<1>3. \/ snapshot' = snapshot \/ snapshot' = None
      \/ t \in snapshot'.tunnels => tunnel[t] = "registered"
  BY DEF Mutate, Withdraw, AddKeyRollsBack, Restore, FetchSnapshot, MarkTunnelSyncUnavailable,
     RestartControlPlane
<1>4. Unheard(t) => Unheard(t)'
  BY <1>1, <1>2, <1>3 DEF Unheard
<1>5. Heard(t) => Heard(t)'
  BY <1>1, <1>2 DEF Heard
<1>6. ASSUME NEW d \in events, Over(t, d) PROVE Over(t, d)'
  BY <1>1, <1>2, <1>3, <1>6 DEF Over, Settled
<1> QED
  BY <1>1, <1>4, <1>5, <1>6 DEF Ending

-----------------------------------------------------------------------------
LEMMA EndingEventOther ==
  ASSUME ViewInv, NumbersInv, NEW t \in Tunnels, Ending(t), NEW e \in events, e.tunnel # t,
         ApplyTunnelConnect(e) \/ ApplyTunnelDisconnect(e)
  PROVE  Ending(t)'
<1> USE Numbers, MoreNumbers DEF ViewInv
<1>1. /\ UNCHANGED <<source, sequence, events, snapshot>> /\ applied' = applied \cup {EventId(e)}
      /\ tunnel'[t] = tunnel[t] /\ row'[t] = row[t] /\ cursor'[t] = cursor[t]
      /\ sync'.source = sync.source /\ sync'.last >= sync.last /\ sync'.last \in Nat
  BY DEF ApplyTunnelConnect, ApplyTunnelDisconnect, MoveCursor, sishVars, TypeOK
<1>2. \A f \in events : f.tunnel = t => (EventId(f) \in applied' <=> EventId(f) \in applied)
  BY <1>1 DEF NumbersInv
<1>3. Unheard(t) => Unheard(t)'
  BY <1>1, <1>2 DEF Unheard
<1>4. Heard(t) => Heard(t)'
  BY <1>1, <1>2 DEF Heard
<1>5. ASSUME NEW d \in events, d.tunnel = t, Over(t, d) PROVE Over(t, d)'
  <2>1. Settled(t, d) => Settled(t, d)'
    BY <1>1 DEF Settled
  <2> QED
    BY <1>1, <1>2, <1>5, <2>1 DEF Over
<1> QED
  BY <1>1, <1>3, <1>4, <1>5 DEF Ending

\* An event that was handled, or is older than what is known, is only noted.
LEMMA EndingNoted ==
  ASSUME ViewInv, NumbersInv, NEW t \in Tunnels, Ending(t), NEW e \in events, e.tunnel = t,
         ~News(e), ApplyTunnelConnect(e) \/ ApplyTunnelDisconnect(e)
  PROVE  Ending(t)'
<1> USE Numbers, MoreNumbers DEF ViewInv
<1>1. /\ UNCHANGED <<source, sequence, events, snapshot, row, cursor, sync>>
      /\ applied' = applied \cup {EventId(e)}
      /\ tunnel'[t] = tunnel[t] \/ tunnel[t] = "connecting"
  BY DEF ApplyTunnelConnect, ApplyTunnelDisconnect, sishVars, TypeOK
<1>2. EventId(e) \in applied \/ cursor[t] >= e.seq
  BY DEF News
<1>3. tunnel[t] \notin {"new", "connecting"}
  <2>1. tunnel[t] # "new"
    BY DEF LifeInv
  <2>2. CASE tunnel[t] = "connecting"
    BY <1>2, <2>2 DEF Ending, Unheard, NumbersInv
  <2> QED
    BY <2>1, <2>2
<1>4. Heard(t) => Heard(t)'
  BY <1>1 DEF Heard
<1>5. ASSUME NEW d \in events, d.tunnel = t, d.kind = "disconnect" PROVE Over(t, d)'
  <2>1. Over(t, d)
    BY <1>5 DEF Ending
  <2>2. EventId(d) \in applied' => EventId(d) \in applied \/ cursor[t] >= d.seq
    BY <1>1, <1>2 DEF NumbersInv
  <2>3. Settled(t, d) => Settled(t, d)'
    BY <1>1 DEF Settled
  <2> QED
    BY <1>1, <1>3, <2>1, <2>2, <2>3 DEF Over
<1> QED
  BY <1>1, <1>3, <1>4, <1>5 DEF Ending

LEMMA EndingConnect ==
  ASSUME ViewInv, NumbersInv, NEW t \in Tunnels, Ending(t), NEW e \in events, e.tunnel = t,
         News(e), ApplyTunnelConnect(e)
  PROVE  Ending(t)'
<1> USE Numbers, MoreNumbers DEF ViewInv
<1>1. /\ UNCHANGED <<source, sequence, events, snapshot>>
      /\ applied' = applied \cup {EventId(e)} /\ e.kind = "connect" /\ EventId(e) \notin applied
      /\ cursor'[t] = e.seq /\ sync'.source = sync.source /\ sync.source \in {0, e.source}
      /\ tunnel'[t] = IF tunnel[t] = "connecting" THEN "acked" ELSE tunnel[t]
      /\ e.seq > row[t].seq => row'[t] = [status |-> "active", seq |-> e.seq]
  BY DEF ApplyTunnelConnect, MoveCursor, validateLifecycleSource, News, TypeOK
<1>2. tunnel[t] \notin {"new", "acked", "registered"}
  BY <1>1 DEF Ending, Heard, LifeInv
<1>3. CASE tunnel[t] = "connecting"
  <2>1. \A f \in events : f.tunnel = t => f = e
    BY <1>3 DEF Ending
  <2>2. e.source = source /\ e.seq <= sequence
    BY <1>3 DEF LifeInv, Live, SourceInv
  <2>3. row'[t].status = "active"
    BY <1>1, <1>3 DEF Ending, Unheard, NumbersInv
  <2>4. Heard(t)'
    BY <1>1, <2>1, <2>2, <2>3 DEF Heard
  <2> QED
    BY <1>1, <1>3, <2>1, <2>4 DEF Ending
<1>4. CASE tunnel[t] \in {"closed", "gone"}
  <2>1. \A d \in events : ~(d.tunnel = t /\ d.kind = "disconnect")
    BY <1>1 DEF Ending, Over
  <2> QED
    BY <1>1, <1>4, <2>1 DEF Ending
<1> QED
  BY <1>2, <1>3, <1>4 DEF TypeOK, Phases

LEMMA EndingDisconnect ==
  ASSUME ViewInv, NumbersInv, NEW t \in Tunnels, Ending(t), NEW e \in events, e.tunnel = t,
         News(e), ApplyTunnelDisconnect(e)
  PROVE  Ending(t)'
<1> USE Numbers, MoreNumbers DEF ViewInv
<1>1. /\ UNCHANGED <<source, sequence, events, snapshot, tunnel>>
      /\ applied' = applied \cup {EventId(e)} /\ e.kind = "disconnect"
      /\ cursor'[t] = e.seq /\ cursor[t] < e.seq
      /\ sync'.source = sync.source /\ sync.source \in {0, e.source}
      /\ sync'.last >= sync.last /\ sync'.last \in Nat
      /\ row'[t] = IF row[t].status # "none" /\ e.seq > row[t].seq
                     THEN [status |-> "disconnected", seq |-> e.seq] ELSE row[t]
  BY DEF ApplyTunnelDisconnect, MoveCursor, validateLifecycleSource, News, sishVars, TypeOK
<1>2. Over(t, e)
  BY <1>1 DEF Ending
<1>3. /\ row'[t].status # "none" /\ ~Shown(row'[t])
      /\ row'[t].seq >= e.seq /\ row'[t].seq >= row[t].seq /\ row'[t].seq \in Nat
  <2>1. row[t].status # "none" /\ (Shown(row[t]) => row[t].seq < e.seq)
    BY <1>2 DEF Over
  <2>2. CASE e.seq > row[t].seq
    BY <1>1, <2>1, <2>2 DEF Shown
  <2>3. CASE ~(e.seq > row[t].seq)
    BY <1>1, <2>1, <2>3 DEF Shown
  <2> QED
    BY <2>2, <2>3
<1>4. ASSUME NEW d \in events, d.tunnel = t, d.kind = "disconnect" PROVE Over(t, d)'
  <2>1. Over(t, d)
    BY <1>4 DEF Ending
  <2>2. e.source = d.source
    BY <2>1 DEF Over
  <2>3. ASSUME cursor'[t] >= d.seq \/ EventId(d) \in applied' PROVE Settled(t, d)'
    <3>1. CASE e.seq >= d.seq
      BY <1>3, <3>1 DEF Settled
    <3>2. CASE ~(e.seq >= d.seq)
      <4>1. Settled(t, d)
        BY <1>1, <2>1, <2>3, <3>2 DEF Over, NumbersInv
      <4> QED
        BY <1>1, <1>3, <4>1 DEF Settled
    <3> QED
      BY <3>1, <3>2
  <2> QED
    BY <1>1, <1>3, <2>1, <2>2, <2>3 DEF Over
<1>5. tunnel'[t] \in {"closed", "gone"}
  BY <1>1, <1>2 DEF Over
<1> QED
  BY <1>1, <1>4, <1>5 DEF Ending

-----------------------------------------------------------------------------
\* What a snapshot leaves of a row that is shown, and of one that is not.
LEMMA SnapshotKeeps ==
  ASSUME TypeOK, NEW s \in Snapshot, NEW t \in Tunnels
  PROVE  /\ row[t].status # "none" => SnapshotRow(s, t).status # "none"
         /\ ~Shown(row[t]) => \/ SnapshotRow(s, t) = row[t]
                              \/ t \in Listed(s) /\ s.seq >= row[t].seq
         /\ Shown(SnapshotRow(s, t)) =>
              \/ t \in Listed(s) /\ SnapshotRow(s, t).seq = s.seq
              \/ /\ SnapshotRow(s, t) = row[t] /\ Shown(row[t])
                 /\ s.source = sync.source /\ row[t].seq > s.seq
<1>1. row[t] \in [status : Statuses, seq : Nat] /\ s.seq \in Nat
  BY DEF TypeOK, Snapshot
<1> PICK r : r = row[t]
  OBVIOUS
<1>2. r \in [status : Statuses, seq : Nat]
  BY <1>1
<1>3. PICK c : c = ClosedRow(s, r)
  OBVIOUS
<1>4. /\ ~Shown(r) => c = r
      /\ r.status # "none" => c.status # "none"
      /\ Shown(c) => c = r /\ Shown(r) /\ s.source = sync.source /\ r.seq > s.seq
  BY <1>1, <1>2, <1>3 DEF ClosedRow, Shown
<1>5. SnapshotRow(s, t) = IF t \in Listed(s) /\ s.seq >= c.seq
                            THEN [status |-> "active", seq |-> s.seq] ELSE c
  BY <1>3 DEF SnapshotRow
<1> QED
  BY <1>4, <1>5

\* A snapshot that is applied does not bring back what has ended.
LEMMA OverSnapshot ==
  ASSUME ViewInv, NumbersInv, NEW t \in Tunnels, NEW d \in events, d.tunnel = t, Over(t, d),
         ReconcileActiveSnapshot
  PROVE  Over(t, d)'
<1> USE Numbers, MoreNumbers DEF ViewInv
<1> PICK s : s = snapshot
  OBVIOUS
<1>1. /\ s \in Snapshot /\ s.source \in Nat /\ s.seq \in Nat /\ snapshot' = None
      /\ sync'.source = s.source /\ sync'.last = s.seq
      /\ UNCHANGED <<source, sequence, tunnel, events, applied>>
      /\ row'[t] = SnapshotRow(s, t) /\ cursor'[t] = SnapshotCursor(s, t)
  BY DEF ReconcileActiveSnapshot, sishVars
<1>2. /\ sync.source <= s.source
      /\ s.source = sync.source => s.seq >= sync.last
  BY <1>1 DEF ReconcileActiveSnapshot, Acceptable, SourceInv
<1>3. t \in Listed(s) => s.source = d.source /\ s.seq < d.seq
  BY <1>1 DEF Listed, Over, ReconcileActiveSnapshot
<1>4. row[t].seq \in Nat /\ d.seq \in Nat /\ d.source \in Nat /\ d.seq >= 1 /\ cursor[t] \in Nat
      /\ sync.source \in Nat /\ sync.last \in Nat
  BY DEF NumbersInv
<1>k. /\ row[t].status # "none" => row'[t].status # "none"
      /\ ~Shown(row[t]) => \/ row'[t] = row[t]
                           \/ t \in Listed(s) /\ s.seq >= row[t].seq
      /\ Shown(row'[t]) =>
           \/ t \in Listed(s) /\ row'[t].seq = s.seq
           \/ /\ row'[t] = row[t] /\ Shown(row[t])
              /\ s.source = sync.source /\ row[t].seq > s.seq
  BY <1>1, SnapshotKeeps
<1>c. \/ cursor'[t] = s.seq /\ t \in Listed(s)
      \/ cursor'[t] = s.seq /\ s.source = sync.source /\ cursor[t] \in 1 .. s.seq
      \/ s.source = sync.source /\ cursor'[t] = cursor[t] /\ t \notin Listed(s)
      \/ cursor'[t] = 0
  BY <1>1 DEF SnapshotCursor
<1>5. ASSUME 0 < sync'.source, sync'.source < d.source PROVE cursor'[t] = 0
  <2>1. t \notin Listed(s)
    BY <1>1, <1>3, <1>4, <1>5
  <2>2. s.source = sync.source => cursor[t] = 0
    BY <1>1, <1>5 DEF Over
  <2> QED
    BY <1>c, <2>1, <2>2
<1>6. Shown(row'[t]) => row'[t].seq < d.seq
  BY <1>k, <1>3 DEF Over
<1>7. ASSUME cursor[t] >= d.seq \/ EventId(d) \in applied
      PROVE  ~Shown(row'[t]) /\ Settled(t, d)'
  <2>1. ~Shown(row[t]) /\ Settled(t, d)
    BY <1>7 DEF Over
  <2>2. ~(t \in Listed(s) /\ s.seq >= row[t].seq)
    BY <1>1, <1>2, <1>3, <1>4, <2>1 DEF Settled
  <2>3. row'[t] = row[t]
    BY <1>k, <2>1, <2>2
  <2>4. Settled(t, d)'
    BY <1>1, <1>2, <1>4, <2>1, <2>3 DEF Settled
  <2> QED
    BY <2>1, <2>3, <2>4
<1>8. ASSUME ~(cursor[t] >= d.seq), cursor'[t] >= d.seq
      PROVE  ~Shown(row'[t]) /\ Settled(t, d)'
  <2>1. /\ t \notin Listed(s) /\ s.source = sync.source /\ cursor[t] \in 1 .. s.seq
        /\ s.seq >= d.seq
    BY <1>1, <1>3, <1>4, <1>8, <1>c
  <2>2. s.source >= d.source
    <3>1. sync.source >= 1
      BY <2>1 DEF SourceInv, ReconcileActiveSnapshot
    <3> QED
      BY <1>4, <2>1, <3>1 DEF Over
  <2>3. Settled(t, d)'
    BY <1>1, <1>4, <2>1, <2>2 DEF Settled
  <2>4. Shown(row[t]) => row[t].seq < d.seq
    BY DEF Over
  <2> QED
    BY <1>1, <1>4, <1>k, <2>1, <2>3, <2>4
<1>9. cursor'[t] >= d.seq \/ EventId(d) \in applied' => ~Shown(row'[t]) /\ Settled(t, d)'
  BY <1>1, <1>7, <1>8
<1> QED
  BY <1>1, <1>5, <1>6, <1>9, <1>k DEF Over

LEMMA EndingSnapshot ==
  ASSUME ViewInv, NumbersInv, NEW t \in Tunnels, Ending(t), ReconcileActiveSnapshot
  PROVE  Ending(t)'
<1> USE Numbers, MoreNumbers DEF ViewInv
<1> PICK s : s = snapshot
  OBVIOUS
<1>1. /\ s # None /\ s \in Snapshot /\ s.source \in Nat /\ s.seq \in Nat /\ snapshot' = None
      /\ sync'.source = s.source /\ 1 <= s.source
      /\ UNCHANGED <<source, sequence, tunnel, events, applied>>
      /\ row'[t] = SnapshotRow(s, t) /\ cursor'[t] = SnapshotCursor(s, t)
  BY DEF ReconcileActiveSnapshot, sishVars, SourceInv
<1>2. ASSUME Unheard(t), tunnel[t] \in {"new", "connecting"} PROVE Unheard(t)'
  <2>1. t \notin Listed(s) /\ cursor[t] = 0 /\ row[t] = [status |-> "none", seq |-> 0]
    BY <1>1, <1>2 DEF Unheard, LifeInv, Listed
  <2>2. row'[t] = row[t]
    BY <1>1, <2>1 DEF SnapshotRow, ClosedRow, Shown
  <2>3. cursor'[t] = 0
    BY <1>1, <2>1 DEF SnapshotCursor
  <2> QED
    BY <1>1, <1>2, <2>1, <2>2, <2>3 DEF Unheard
<1>3. ASSUME Heard(t), tunnel[t] \in {"acked", "registered"} PROVE Heard(t)'
  <2>1. /\ t \in Listed(s) => s.source = source
        /\ s.source = source => s.seq <= sequence
        /\ s.source <= source
    BY <1>1, <1>3 DEF LifeInv, Live, Listed, SourceInv
  <2>2. \/ cursor'[t] = s.seq /\ t \in Listed(s)
        \/ cursor'[t] = s.seq /\ s.source = sync.source /\ cursor[t] \in 1 .. s.seq
        \/ s.source = sync.source /\ cursor'[t] = cursor[t] /\ t \notin Listed(s)
        \/ cursor'[t] = 0
    BY <1>1 DEF SnapshotCursor
  <2>3. /\ cursor[t] <= sequence
        /\ 0 < sync.source /\ sync.source < source => cursor[t] = 0
    BY <1>3 DEF Heard
  <2>4. cursor'[t] <= sequence' /\ (0 < sync'.source /\ sync'.source < source' => cursor'[t] = 0)
    BY <1>1, <2>1, <2>2, <2>3
  <2>5. row'[t].status # "none"
    BY <1>1, <1>3, SnapshotKeeps DEF Heard
  <2> QED
    BY <1>1, <1>3, <2>4, <2>5 DEF Heard
<1>4. ASSUME NEW d \in events, d.tunnel = t, d.kind = "disconnect" PROVE Over(t, d)'
  BY <1>4, OverSnapshot DEF Ending
<1> QED
  BY <1>1, <1>2, <1>3, <1>4 DEF Ending

-----------------------------------------------------------------------------
LEMMA EndingRun ==
  ASSUME ViewInv, NumbersInv, NEW t \in Tunnels, Ending(t), Run
  PROVE  Ending(t)'
<1> USE Numbers DEF ViewInv
<1>1. PICK u \in Tunnels : \/ BeginRegister(u) \/ FinishRegister(u) \/ FailRegister(u)
                          \/ ControlPlaneUnregister(u) \/ UnregisterAgain(u)
  BY DEF Run
<1>2. CASE u = t
  BY <1>1, <1>2, EndingBegin, EndingUnregister, EndingPhase DEF ViewInv
<1>3. CASE u # t
  <2>1. UNCHANGED <<source, snapshot, row, cursor, applied, sync>> /\ UNCHANGED tunnel[t]
    BY <1>1, <1>3 DEF BeginRegister, FinishRegister, FailRegister, ControlPlaneUnregister,
       UnregisterAgain, Advance, viewVars, TypeOK
  <2>2. sequence' \in Nat /\ sequence' >= sequence
    BY <1>1 DEF BeginRegister, FinishRegister, FailRegister, ControlPlaneUnregister,
       UnregisterAgain, nextSequenceLocked
  <2>3. \A e \in events' : e.tunnel = t => e \in events
    BY <1>1, <1>3 DEF BeginRegister, FinishRegister, FailRegister, ControlPlaneUnregister,
       UnregisterAgain, Send
  <2> QED
    BY <2>1, <2>2, <2>3, EndingOther
<1> QED
  BY <1>2, <1>3

LEMMA EndingEvent ==
  ASSUME ViewInv, NumbersInv, NEW t \in Tunnels, Ending(t), NEW e \in events,
         ApplyTunnelConnect(e) \/ ApplyTunnelDisconnect(e)
  PROVE  Ending(t)'
<1>1. CASE e.tunnel # t
  BY <1>1, EndingEventOther
<1>2. CASE e.tunnel = t /\ ~News(e)
  BY <1>2, EndingNoted
<1>3. CASE e.tunnel = t /\ News(e)
  BY <1>3, EndingConnect, EndingDisconnect
<1> QED
  BY <1>1, <1>2, <1>3

LEMMA EndedNext == ViewInv /\ EndedInv /\ [Next]_vars => EndedInv'
<1> SUFFICES ASSUME ViewInv, EndedInv, [Next]_vars PROVE EndedInv'
  OBVIOUS
<1>1. NumbersInv'
  BY NumbersNext DEF EndedInv
<1>2. ASSUME NEW t \in Tunnels PROVE Ending(t)'
  <2>0. NumbersInv /\ Ending(t)
    BY DEF EndedInv
  <2>1. CASE UNCHANGED vars
    BY <2>0, <2>1 DEF vars, sishVars, policyVars, viewVars, Ending, Unheard, Heard, Over, Settled
  <2> QED
    BY <2>0, <2>1, EndingRun, EndingRestart, EndingMarked, EndingEvent, EndingSnapshot
       DEF Next, Observe
<1> QED
  BY <1>1, <1>2 DEF EndedInv

\* What has ended stays ended, whatever arrives after its disconnect event,
\* from any sish, in any order and any number of times.
THEOREM WhatEndedStaysEnded == Spec => []EndedStaysEnded
<1>1. ViewInv /\ EndedInv => EndedStaysEnded
  BY EndedImplies DEF ViewInv
<1> QED
  BY ViewInit, ViewNext, EndedInit, EndedNext, <1>1, PTL DEF Spec
=============================================================================

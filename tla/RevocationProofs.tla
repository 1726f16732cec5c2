-------------------------- MODULE RevocationProofs --------------------------
(***************************************************************************)
(* Proofs about Revocation, for every set of users, keys, hosts, ports and *)
(* binds and for every bound on the generation.                            *)
(***************************************************************************)
EXTENDS Revocation, TLAPS

\* Nothing is newer than the database's generation.
Bounded ==
  /\ generation >= 1
  /\ \A e \in outbox \cup delayed : e.gen <= generation
  /\ \A s \in Subjects : barrier[s] <= generation
  /\ \A b \in Binds : bind[b].gen <= generation

\* A subject whose revocation, if any, was taken back in a later generation.
\* Unlike subdomains, each of these consumes a generation on its way back.
InForce(s) ==
  \/ s \in Keys /\ keyState[s] \in {"unused", "enabled"}
  \/ s \in Users /\ userStatus[s] = "active"
  \/ s \in Ports /\ owner[s] # None
  \/ s = SystemHost

InForceOutruns ==
  \A s \in Subjects : InForce(s) =>
    /\ barrier[s] < generation
    /\ \A e \in outbox \cup delayed : e.subject = s => e.gen < generation

SystemHostUnowned == owner[SystemHost] = None

LockHeld == \A b \in Binds : lockedBy = b <=> bind[b].pc \in {"connecting", "acked"}

\* While the worker waits, its event is still in the outbox, its barrier is up,
\* and what it revokes is registered and among the tunnels being closed.
WorkerCovers ==
  worker # None =>
    /\ worker.event \in outbox
    /\ barrier[worker.event.subject] >= worker.event.gen
    /\ \A b \in Binds :
         /\ bind[b].pc \in {"connecting", "acked", "registered"}
         /\ Revokes(worker.event, b)
         => bind[b].pc = "registered" /\ b \in worker.todo

IInv ==
  /\ TypeOK
  /\ Bounded
  /\ InForceOutruns
  /\ SystemHostUnowned
  /\ LockHeld
  /\ WorkerCovers
  /\ RevokedIsPending

-----------------------------------------------------------------------------
(* Type correctness.                                                       *)

LEMMA InitType == Init => TypeOK
  BY ConstantsAssumption
  DEF Init, TypeOK, Bind, NoBind, Progress, Event, Delivery

LEMMA TypeStep == TypeOK /\ [Next]_vars => TypeOK'
<1> SUFFICES ASSUME TypeOK, [Next]_vars PROVE TypeOK'
  OBVIOUS
<1> USE ConstantsAssumption DEF TypeOK
<1>1. ASSUME NEW k \in Keys, AddKey(k) PROVE TypeOK'
  BY <1>1 DEF AddKey, sishVars
<1>2. ASSUME NEW k \in Keys, EnableKey(k) PROVE TypeOK'
  BY <1>2 DEF EnableKey, nextGeneration, sishVars
<1>3. ASSUME NEW k \in Keys, DisableKey(k) PROVE TypeOK'
  BY <1>3 DEF DisableKey, nextGeneration, insertOutbox, Event, Subjects, sishVars
<1>4. ASSUME NEW k \in Keys, DeleteKey(k) PROVE TypeOK'
  BY <1>4 DEF DeleteKey, nextGeneration, insertOutbox, Event, Subjects, sishVars
<1>5. ASSUME AddKeyReturns PROVE TypeOK'
  BY <1>5 DEF AddKeyReturns, sishVars
<1>6. ASSUME AddKeyRollsBack PROVE TypeOK'
  BY <1>6 DEF AddKeyRollsBack, sishVars
<1>7. ASSUME NEW u \in Users, NEW h \in Hosts, ReserveSubdomain(u, h) PROVE TypeOK'
  BY <1>7 DEF ReserveSubdomain, Resources, sishVars
<1>8. ASSUME NEW u \in Users, NEW p \in Ports, ReserveTCPPort(u, p) PROVE TypeOK'
  BY <1>8 DEF ReserveTCPPort, nextGeneration, Resources, sishVars
<1>9. ASSUME NEW r \in Resources, Release(r) PROVE TypeOK'
  BY <1>9 DEF Release, nextGeneration, insertOutbox, Event, Subjects, sishVars
<1>10. ASSUME NEW u \in Users, Suspend(u) PROVE TypeOK'
  BY <1>10 DEF Suspend, nextGeneration, insertOutbox, Event, Subjects, sishVars
<1>11. ASSUME NEW u \in Users, Unsuspend(u) PROVE TypeOK'
  BY <1>11 DEF Unsuspend, nextGeneration, sishVars
<1>12. ASSUME NEW b \in Binds, NEW k \in AllKeys, NEW r \in Resources, AuthorizeBind(b, k, r) PROVE TypeOK'
  BY <1>12 DEF AuthorizeBind, Bind, Progress, dbVars
<1>13. ASSUME NEW b \in Binds, CheckGrant(b) PROVE TypeOK'
  BY <1>13 DEF CheckGrant, EndBind, Advance, NoBind, Bind, Progress, dbVars
<1>14. ASSUME NEW b \in Binds, AbandonBind(b) PROVE TypeOK'
  BY <1>14 DEF AbandonBind, EndBind, NoBind, Bind, Progress, dbVars
<1>15. ASSUME NEW b \in Binds, BeginRegister(b) PROVE TypeOK'
  BY <1>15 DEF BeginRegister, EndBind, Advance, NoBind, Bind, Progress, dbVars
<1>16. ASSUME NEW b \in Binds, ApplyTunnelConnect(b) PROVE TypeOK'
  BY <1>16 DEF ApplyTunnelConnect, Advance, Bind, Progress, dbVars
<1>17. ASSUME NEW b \in Binds, FinishRegister(b) PROVE TypeOK'
  BY <1>17 DEF FinishRegister, Advance, Bind, Progress, dbVars
<1>18. ASSUME NEW b \in Binds, FailRegister(b) PROVE TypeOK'
  BY <1>18 DEF FailRegister, EndBind, NoBind, Bind, Progress, dbVars
<1>19. ASSUME NEW b \in Binds, Unregister(b) PROVE TypeOK'
  BY <1>19 DEF Unregister, EndBind, NoBind, Bind, Progress, Delivery, dbVars
<1>20. ASSUME NEW e \in outbox, Deliver(e) PROVE TypeOK'
  BY <1>20 DEF Deliver, disconnectManaged, Matches, Event, Delivery, dbVars
<1>21. ASSUME NEW e \in outbox, DeliverTooLate(e) PROVE TypeOK'
  BY <1>21 DEF DeliverTooLate, dbVars
<1>22. ASSUME NEW e \in delayed, RunDelayed(e) PROVE TypeOK'
  BY <1>22 DEF RunDelayed, disconnectManaged, Matches, Event, dbVars
<1>23. ASSUME CompleteOutbox PROVE TypeOK'
  BY <1>23 DEF CompleteOutbox, dbVars, sishVars
<1>24. ASSUME RetryOutbox PROVE TypeOK'
  BY <1>24 DEF RetryOutbox, dbVars, sishVars
<1>25. ASSUME RestartControlPlane PROVE TypeOK'
  BY <1>25 DEF RestartControlPlane, sishVars
<1>26. ASSUME RestartSish PROVE TypeOK'
  BY <1>26 DEF RestartSish, NoBind, Bind, Progress, dbVars
<1>27. ASSUME UNCHANGED vars PROVE TypeOK'
  BY <1>27 DEF vars, dbVars, sishVars
<1>28. QED
  BY <1>1, <1>2, <1>3, <1>4, <1>5, <1>6, <1>7, <1>8, <1>9, <1>10, <1>11, <1>12, <1>13, <1>14, <1>15, <1>16, <1>17, <1>18, <1>19, <1>20, <1>21, <1>22, <1>23, <1>24, <1>25, <1>26, <1>27 DEF Next, Mutate, Connect, Disconnect

-----------------------------------------------------------------------------
(* What a mutation of the policy does to the rest.                         *)

MutationEvent(s) == [subject |-> s, gen |-> generation + 1]

\* A mutation leaves sish and the worker alone. When it consumes a generation
\* it may queue one event, for a subject that is not in force afterwards; when
\* it does not, it queues nothing and puts no subject back in force.
MutationFrame ==
  /\ UNCHANGED <<worker, sishVars>>
  /\ owner'[SystemHost] = owner[SystemHost]
  /\ \/ /\ generation' = generation
        /\ outbox' = outbox
        /\ \A s \in Subjects : InForce(s)' => InForce(s)
     \/ /\ generation' = generation + 1
        /\ outbox' = outbox
     \/ /\ generation' = generation + 1
        /\ \E s \in Subjects : outbox' = outbox \cup {MutationEvent(s)} /\ ~InForce(s)'

\* What a mutation stops allowing, its event names.
MutationRevokes ==
  \A k \in AllKeys, r \in Resources : StillAllowed(k, r) =>
    \/ StillAllowed(k, r)'
    \/ /\ generation' = generation + 1
       /\ \E s \in SubjectsOf(k, r) : MutationEvent(s) \in outbox'

LEMMA MutationEffect ==
  TypeOK /\ SystemHostUnowned /\ Mutate => MutationFrame /\ MutationRevokes
<1> SUFFICES ASSUME TypeOK, SystemHostUnowned, Mutate PROVE MutationFrame /\ MutationRevokes
  OBVIOUS
<1> USE ConstantsAssumption
    DEF TypeOK, SystemHostUnowned, Subjects, Resources, AllKeys, MutationFrame,
        InForce, MutationEvent, nextGeneration, insertOutbox, MutationRevokes, StillAllowed,
        MayBind, UserMayBind, SubjectsOf
<1>1. ASSUME NEW k \in Keys, AddKey(k) PROVE MutationFrame /\ MutationRevokes
  <2>1. MutationFrame
    BY <1>1 DEF AddKey
  <2>2. MutationRevokes
    BY <1>1 DEF AddKey
  <2>3. QED
    BY <2>1, <2>2
<1>2. ASSUME NEW k \in Keys, EnableKey(k) PROVE MutationFrame /\ MutationRevokes
  <2>1. MutationFrame
    BY <1>2 DEF EnableKey
  <2>2. MutationRevokes
    BY <1>2 DEF EnableKey
  <2>3. QED
    BY <2>1, <2>2
<1>3. ASSUME NEW k \in Keys, DisableKey(k) PROVE MutationFrame /\ MutationRevokes
  <2>1. MutationFrame
    BY <1>3 DEF DisableKey
  <2>2. MutationRevokes
    BY <1>3 DEF DisableKey
  <2>3. QED
    BY <2>1, <2>2
<1>4. ASSUME NEW k \in Keys, DeleteKey(k) PROVE MutationFrame /\ MutationRevokes
  <2>1. MutationFrame
    BY <1>4 DEF DeleteKey
  <2>2. MutationRevokes
    BY <1>4 DEF DeleteKey
  <2>3. QED
    BY <2>1, <2>2
<1>5. ASSUME AddKeyReturns PROVE MutationFrame /\ MutationRevokes
  <2>1. MutationFrame
    BY <1>5 DEF AddKeyReturns
  <2>2. MutationRevokes
    BY <1>5 DEF AddKeyReturns
  <2>3. QED
    BY <2>1, <2>2
<1>6. ASSUME AddKeyRollsBack PROVE MutationFrame /\ MutationRevokes
  <2>1. MutationFrame
    BY <1>6 DEF AddKeyRollsBack
  <2>2. MutationRevokes
    BY <1>6 DEF AddKeyRollsBack
  <2>3. QED
    BY <2>1, <2>2
<1>7. ASSUME NEW u \in Users, NEW h \in Hosts, ReserveSubdomain(u, h) PROVE MutationFrame /\ MutationRevokes
  <2>1. MutationFrame
    BY <1>7 DEF ReserveSubdomain
  <2>2. MutationRevokes
    BY <1>7 DEF ReserveSubdomain
  <2>3. QED
    BY <2>1, <2>2
<1>8. ASSUME NEW u \in Users, NEW p \in Ports, ReserveTCPPort(u, p) PROVE MutationFrame /\ MutationRevokes
  <2>1. MutationFrame
    BY <1>8 DEF ReserveTCPPort
  <2>2. MutationRevokes
    BY <1>8 DEF ReserveTCPPort
  <2>3. QED
    BY <2>1, <2>2
<1>9. ASSUME NEW r \in Resources, Release(r) PROVE MutationFrame /\ MutationRevokes
  <2>1. MutationFrame
    BY <1>9 DEF Release
  <2>2. MutationRevokes
    BY <1>9 DEF Release
  <2>3. QED
    BY <2>1, <2>2
<1>10. ASSUME NEW u \in Users, Suspend(u) PROVE MutationFrame /\ MutationRevokes
  <2>1. MutationFrame
    BY <1>10 DEF Suspend
  <2>2. MutationRevokes
    BY <1>10 DEF Suspend
  <2>3. QED
    BY <2>1, <2>2
<1>11. ASSUME NEW u \in Users, Unsuspend(u) PROVE MutationFrame /\ MutationRevokes
  <2>1. MutationFrame
    BY <1>11 DEF Unsuspend
  <2>2. MutationRevokes
    BY <1>11 DEF Unsuspend
  <2>3. QED
    BY <2>1, <2>2
<1>12. QED
  BY <1>1, <1>2, <1>3, <1>4, <1>5, <1>6, <1>7, <1>8, <1>9, <1>10, <1>11 DEF Mutate

-----------------------------------------------------------------------------
(* The inductive invariant.                                                *)

LEMMA InitIInv == Init => IInv
<1> SUFFICES ASSUME Init PROVE IInv
  OBVIOUS
<1> USE ConstantsAssumption DEF Init
<1>1. TypeOK
  BY InitType
<1>2. Bounded /\ InForceOutruns /\ SystemHostUnowned
  BY DEF Bounded, InForceOutruns, SystemHostUnowned, Subjects, Resources, NoBind
<1>3. LockHeld /\ WorkerCovers /\ RevokedIsPending
  BY DEF LockHeld, WorkerCovers, RevokedIsPending, Admitted, NoBind
<1>4. QED
  BY <1>1, <1>2, <1>3 DEF IInv

LEMMA MutateKeeps == IInv /\ Mutate /\ TypeOK' => IInv'
<1> SUFFICES ASSUME IInv, Mutate, TypeOK' PROVE IInv'
  OBVIOUS
<1>1. MutationFrame /\ MutationRevokes
  BY MutationEffect DEF IInv
<1> USE <1>1 DEF IInv, MutationEvent, MutationFrame, sishVars
<1>2. Bounded'
  BY DEF Bounded, TypeOK, Event, Bind
<1>3. InForceOutruns'
  <2> SUFFICES ASSUME NEW s \in Subjects, InForce(s)'
               PROVE  /\ barrier'[s] < generation'
                      /\ \A e \in outbox' \cup delayed' : e.subject = s => e.gen < generation'
    BY DEF InForceOutruns
  <2>1. CASE generation' = generation
    BY <2>1 DEF InForceOutruns, TypeOK
  <2>2. CASE generation' = generation + 1
    <3>1. \A e \in (outbox' \cup delayed') \ (outbox \cup delayed) : e.subject # s
      BY <2>2 DEF TypeOK
    <3>2. QED
      BY <2>2, <3>1 DEF Bounded, TypeOK, Event
  <2>3. QED
    BY <2>1, <2>2
<1>4. SystemHostUnowned'
  BY DEF SystemHostUnowned
<1>5. LockHeld'
  BY DEF LockHeld
<1>6. WorkerCovers'
  <2>1. outbox \subseteq outbox'
    OBVIOUS
  <2>2. QED
    BY <2>1 DEF WorkerCovers, Revokes
<1>7. RevokedIsPending'
  <2> SUFFICES ASSUME NEW b \in Binds, Admitted(b)'
               PROVE  StillAllowed(bind[b].key, bind[b].res)' \/ Owed(b)'
    BY DEF RevokedIsPending
  <2>1. Admitted(b) /\ bind'[b] = bind[b] /\ outbox \subseteq outbox'
    BY DEF Admitted
  <2>2. CASE Owed(b)
    BY <2>1, <2>2 DEF Owed, Admitted, Revokes
  <2>3. CASE ~Owed(b)
    <3>1. bind[b].key \in AllKeys /\ bind[b].res \in Resources /\ bind[b].gen \in Nat
      BY <2>1 DEF TypeOK, Admitted, Bind
    <3>2. StillAllowed(bind[b].key, bind[b].res)
      BY <2>1, <2>3 DEF RevokedIsPending
    <3>3. CASE StillAllowed(bind[b].key, bind[b].res)'
      BY <3>3
    <3>4. CASE ~StillAllowed(bind[b].key, bind[b].res)'
      <4>1. PICK e \in outbox' : /\ e.subject \in SubjectsOf(bind[b].key, bind[b].res)
                                /\ e.gen = generation + 1
        BY <2>1, <3>1, <3>2, <3>4 DEF MutationRevokes
      <4>2. bind[b].gen <= generation + 1
        BY <3>1 DEF Bounded, TypeOK
      <4>3. QED
        BY <2>1, <4>1, <4>2 DEF Owed, Admitted, Revokes
    <3>5. QED
      BY <3>3, <3>4
  <2>4. QED
    BY <2>2, <2>3
<1>8. QED
  BY <1>2, <1>3, <1>4, <1>5, <1>6, <1>7

\* A step of a bind changes neither the policy, the outbox nor the barriers,
\* and only the bind itself.
ConnectFrame(b) ==
  /\ UNCHANGED <<dbVars, outbox, barrier, delayed>>
  /\ \A c \in Binds \ {b} : bind'[c] = bind[c]
  /\ \/ bind'[b] = NoBind
     \/ bind'[b].gen = bind[b].gen /\ bind'[b].key = bind[b].key /\ bind'[b].res = bind[b].res
     \/ bind'[b].gen = generation /\ bind'[b].pc = "granted"
  /\ worker' # None => /\ worker # None
                       /\ worker'.event = worker.event
                       /\ \A c \in Binds \ {b} : c \in worker.todo => c \in worker'.todo

\* What the step must respect for the invariant to survive.
ConnectGuards(b) ==
  /\ \A c \in Binds : lockedBy' = c <=> bind'[c].pc \in {"connecting", "acked"}
  /\ bind'[b].pc \in {"connecting", "acked", "registered"} =>
       /\ bind'[b].gen = bind[b].gen /\ bind'[b].key = bind[b].key /\ bind'[b].res = bind[b].res
       /\ worker' = worker
       /\ bind'[b].pc = "connecting" => ~Barred(b)
       /\ bind'[b].pc # "connecting" => bind[b].pc \in {"connecting", "acked"}
       /\ bind'[b].pc = "acked" => MayBind(bind[b].key, bind[b].res)
       /\ bind'[b].pc = "registered" => bind[b].pc = "acked"

LEMMA ConnectEffect ==
  ASSUME TypeOK, LockHeld, NEW b \in Binds,
         \/ \E k \in AllKeys, r \in Resources : AuthorizeBind(b, k, r)
         \/ CheckGrant(b) \/ AbandonBind(b) \/ BeginRegister(b) \/ ApplyTunnelConnect(b)
         \/ FinishRegister(b) \/ FailRegister(b) \/ Unregister(b)
  PROVE  ConnectFrame(b) /\ ConnectGuards(b)
<1> USE ConstantsAssumption
    DEF TypeOK, LockHeld, ConnectFrame, ConnectGuards, Advance, EndBind, NoBind, Bind,
        Progress, Delivery
<1>1. ASSUME NEW k \in AllKeys, NEW r \in Resources, AuthorizeBind(b, k, r) PROVE ConnectFrame(b) /\ ConnectGuards(b)
  <2>1. ConnectFrame(b)
    BY <1>1 DEF AuthorizeBind
  <2>2. ConnectGuards(b)
    BY <1>1 DEF AuthorizeBind
  <2>3. QED
    BY <2>1, <2>2
<1>2. ASSUME CheckGrant(b) PROVE ConnectFrame(b) /\ ConnectGuards(b)
  <2>1. ConnectFrame(b)
    BY <1>2 DEF CheckGrant
  <2>2. ConnectGuards(b)
    BY <1>2 DEF CheckGrant
  <2>3. QED
    BY <2>1, <2>2
<1>3. ASSUME AbandonBind(b) PROVE ConnectFrame(b) /\ ConnectGuards(b)
  <2>1. ConnectFrame(b)
    BY <1>3 DEF AbandonBind
  <2>2. ConnectGuards(b)
    BY <1>3 DEF AbandonBind
  <2>3. QED
    BY <2>1, <2>2
<1>4. ASSUME BeginRegister(b) PROVE ConnectFrame(b) /\ ConnectGuards(b)
  <2>1. ConnectFrame(b)
    BY <1>4 DEF BeginRegister
  <2>2. ConnectGuards(b)
    BY <1>4 DEF BeginRegister
  <2>3. QED
    BY <2>1, <2>2
<1>5. ASSUME ApplyTunnelConnect(b) PROVE ConnectFrame(b) /\ ConnectGuards(b)
  <2>1. ConnectFrame(b)
    BY <1>5 DEF ApplyTunnelConnect
  <2>2. ConnectGuards(b)
    BY <1>5 DEF ApplyTunnelConnect
  <2>3. QED
    BY <2>1, <2>2
<1>6. ASSUME FinishRegister(b) PROVE ConnectFrame(b) /\ ConnectGuards(b)
  <2>1. ConnectFrame(b)
    BY <1>6 DEF FinishRegister
  <2>2. ConnectGuards(b)
    BY <1>6 DEF FinishRegister
  <2>3. QED
    BY <2>1, <2>2
<1>7. ASSUME FailRegister(b) PROVE ConnectFrame(b) /\ ConnectGuards(b)
  <2>1. ConnectFrame(b)
    BY <1>7 DEF FailRegister
  <2>2. ConnectGuards(b)
    BY <1>7 DEF FailRegister
  <2>3. QED
    BY <2>1, <2>2
<1>8. ASSUME Unregister(b) PROVE ConnectFrame(b) /\ ConnectGuards(b)
  <2>1. ConnectFrame(b)
    BY <1>8 DEF Unregister
  <2>2. ConnectGuards(b)
    BY <1>8 DEF Unregister
  <2>3. QED
    BY <2>1, <2>2
<1>9. QED
  BY <1>1, <1>2, <1>3, <1>4, <1>5, <1>6, <1>7, <1>8

LEMMA ConnectKeeps == IInv /\ Connect /\ TypeOK' => IInv'
<1> SUFFICES ASSUME IInv, Connect, TypeOK' PROVE IInv'
  OBVIOUS
<1>1. PICK b \in Binds : ConnectFrame(b) /\ ConnectGuards(b)
  BY ConnectEffect DEF IInv, Connect
<1> USE <1>1 DEF IInv, ConnectFrame, dbVars
<1>2. Bounded'
  BY DEF Bounded, TypeOK, NoBind
<1>3. InForceOutruns' /\ SystemHostUnowned'
  BY DEF InForceOutruns, InForce, SystemHostUnowned
<1>4. LockHeld'
  BY DEF LockHeld, ConnectGuards
<1>5. WorkerCovers'
  <2> SUFFICES ASSUME worker' # None
               PROVE  /\ worker'.event \in outbox'
                      /\ barrier'[worker'.event.subject] >= worker'.event.gen
                      /\ \A c \in Binds :
                           /\ bind'[c].pc \in {"connecting", "acked", "registered"}
                           /\ Revokes(worker.event, c)'
                           => bind'[c].pc = "registered" /\ c \in worker'.todo
    BY DEF WorkerCovers
  <2>1. worker # None /\ worker'.event = worker.event
    OBVIOUS
  <2>2. worker.event \in Event
    BY <2>1 DEF TypeOK, WorkerCovers
  <2>3. ASSUME NEW c \in Binds \ {b},
               bind'[c].pc \in {"connecting", "acked", "registered"}, Revokes(worker.event, c)'
        PROVE  bind'[c].pc = "registered" /\ c \in worker'.todo
    BY <2>1, <2>3 DEF WorkerCovers, Revokes
  <2>4. ASSUME bind'[b].pc \in {"connecting", "acked", "registered"}, Revokes(worker.event, b)'
        PROVE  bind'[b].pc = "registered" /\ b \in worker'.todo
    <3>1. Revokes(worker.event, b)
      BY <2>1, <2>4 DEF Revokes, ConnectGuards
    <3>2. CASE bind'[b].pc = "connecting"
      BY <2>1, <2>2, <3>1, <3>2
      DEF ConnectGuards, Barred, Revokes, WorkerCovers, TypeOK, Bind, Event
    <3>3. CASE bind'[b].pc # "connecting"
      BY <2>1, <2>4, <3>1, <3>3 DEF ConnectGuards, WorkerCovers
    <3>4. QED
      BY <3>2, <3>3
  <2>5. QED
    BY <2>1, <2>3, <2>4 DEF WorkerCovers
<1>6. RevokedIsPending'
  <2> SUFFICES ASSUME NEW c \in Binds, Admitted(c)'
               PROVE  StillAllowed(bind[c].key, bind[c].res)' \/ Owed(c)'
    BY DEF RevokedIsPending
  <2>1. bind'[c].key = bind[c].key /\ bind'[c].res = bind[c].res /\ bind'[c].gen = bind[c].gen
    BY DEF Admitted, ConnectGuards
  <2>2. CASE Admitted(c)
    <3>1. StillAllowed(bind[c].key, bind[c].res) \/ Owed(c)
      BY <2>2 DEF RevokedIsPending
    <3>2. QED
      BY <2>1, <3>1 DEF StillAllowed, MayBind, UserMayBind, Owed, Revokes
  <2>3. CASE ~Admitted(c)
    <3>1. c = b /\ bind'[c].pc = "acked"
      BY <2>3 DEF Admitted, ConnectGuards
    <3>2. QED
      BY <2>1, <3>1 DEF ConnectGuards, StillAllowed, MayBind, UserMayBind
  <2>4. QED
    BY <2>2, <2>3
<1>7. QED
  BY <1>2, <1>3, <1>4, <1>5, <1>6

LEMMA DisconnectKeeps == IInv /\ Disconnect /\ TypeOK' => IInv'
<1> SUFFICES ASSUME IInv, Disconnect, TypeOK' PROVE IInv'
  OBVIOUS
<1> USE ConstantsAssumption DEF IInv, dbVars
<1>1. UNCHANGED <<dbVars, bind, lockedBy>> /\ outbox' \subseteq outbox
  BY DEF Disconnect, Deliver, DeliverTooLate, RunDelayed, CompleteOutbox, RetryOutbox, sishVars
<1>2. delayed' \subseteq delayed \cup outbox
  BY DEF Disconnect, Deliver, DeliverTooLate, RunDelayed, CompleteOutbox, RetryOutbox, sishVars
<1>3. \A s \in Subjects :
        /\ barrier'[s] >= barrier[s]
        /\ \/ barrier'[s] = barrier[s]
           \/ \E e \in outbox \cup delayed : e.subject = s /\ barrier'[s] = e.gen
  <2>1. ASSUME NEW e \in outbox \cup delayed, disconnectManaged(e), NEW s \in Subjects
        PROVE  /\ barrier'[s] >= barrier[s]
               /\ barrier'[s] = barrier[s] \/ (e.subject = s /\ barrier'[s] = e.gen)
    BY <2>1 DEF disconnectManaged, TypeOK, Event
  <2>2. CASE UNCHANGED barrier
    BY <2>2 DEF TypeOK
  <2>3. QED
    BY <2>1, <2>2
    DEF Disconnect, Deliver, DeliverTooLate, RunDelayed, CompleteOutbox, RetryOutbox, sishVars
<1>4. Bounded'
  BY <1>1, <1>2, <1>3 DEF Bounded, TypeOK
<1>5. InForceOutruns'
  BY <1>1, <1>2, <1>3 DEF InForceOutruns, InForce
<1>6. SystemHostUnowned' /\ LockHeld'
  BY <1>1 DEF SystemHostUnowned, LockHeld
<1>7. WorkerCovers'
  <2>1. ASSUME NEW e \in outbox, Deliver(e) PROVE WorkerCovers'
    <3>1. \A b \in Binds : bind[b].pc \notin {"connecting", "acked"}
      BY <2>1 DEF Deliver, disconnectManaged, LockHeld
    <3>2. worker'.event = e /\ worker'.todo = Matches(e) /\ e \in Event
      BY <2>1 DEF Deliver, TypeOK
    <3>3. barrier'[e.subject] >= e.gen
      BY <2>1, <3>2 DEF Deliver, disconnectManaged, TypeOK, Event
    <3>4. QED
      BY <1>1, <2>1, <3>1, <3>2, <3>3 DEF WorkerCovers, Deliver, Matches, Revokes
  <2>2. ASSUME NEW e \in delayed, RunDelayed(e) PROVE WorkerCovers'
    <3>1. worker' = worker /\ outbox' = outbox
      BY <2>2 DEF RunDelayed
    <3>2. worker # None => worker.event \in Event
      BY DEF TypeOK, WorkerCovers
    <3>3. worker # None => barrier'[worker.event.subject] >= worker.event.gen
      BY <1>3, <3>2 DEF WorkerCovers, TypeOK, Event
    <3>4. QED
      BY <1>1, <3>1, <3>3 DEF WorkerCovers, Revokes
  <2>3. CASE \E e \in outbox : DeliverTooLate(e)
    BY <2>3 DEF DeliverTooLate, WorkerCovers, Revokes
  <2>4. CASE CompleteOutbox \/ RetryOutbox
    BY <2>4 DEF CompleteOutbox, RetryOutbox, WorkerCovers
  <2>5. QED
    BY <2>1, <2>2, <2>3, <2>4 DEF Disconnect
<1>8. RevokedIsPending'
  <2> SUFFICES ASSUME NEW b \in Binds, Admitted(b)'
               PROVE  StillAllowed(bind[b].key, bind[b].res)' \/ Owed(b)'
    BY DEF RevokedIsPending
  <2>1. Admitted(b) /\ (StillAllowed(bind[b].key, bind[b].res) \/ Owed(b))
    BY <1>1 DEF Admitted, RevokedIsPending
  <2>2. CASE StillAllowed(bind[b].key, bind[b].res)
    BY <1>1, <2>2 DEF StillAllowed, MayBind, UserMayBind
  <2>3. CASE Owed(b) /\ CompleteOutbox
    <3>1. ~Revokes(worker.event, b)
      BY <2>1, <2>3 DEF CompleteOutbox, WorkerCovers, Admitted
    <3>2. QED
      BY <1>1, <2>3, <3>1 DEF CompleteOutbox, Owed, Admitted, Revokes
  <2>4. CASE Owed(b) /\ ~CompleteOutbox
    <3>1. outbox' = outbox
      BY <2>4 DEF Disconnect, Deliver, DeliverTooLate, RunDelayed, RetryOutbox
    <3>2. QED
      BY <1>1, <2>4, <3>1 DEF Owed, Admitted, Revokes
  <2>5. QED
    BY <2>1, <2>2, <2>3, <2>4
<1>9. QED
  BY <1>4, <1>5, <1>6, <1>7, <1>8

LEMMA RestartKeeps ==
  IInv /\ (RestartControlPlane \/ RestartSish \/ UNCHANGED vars) /\ TypeOK' => IInv'
<1> SUFFICES ASSUME IInv, RestartControlPlane \/ RestartSish \/ UNCHANGED vars, TypeOK'
             PROVE  IInv'
  OBVIOUS
<1> USE ConstantsAssumption
    DEF IInv, Bounded, InForceOutruns, SystemHostUnowned, LockHeld, WorkerCovers,
        RevokedIsPending, dbVars, sishVars, InForce, Admitted
<1>1. CASE RestartControlPlane
  BY <1>1 DEF RestartControlPlane, Owed, Admitted, Revokes, StillAllowed, MayBind, UserMayBind
<1>2. CASE RestartSish
  BY <1>2 DEF RestartSish, NoBind, TypeOK
<1>3. CASE UNCHANGED vars
  BY <1>3 DEF vars, Owed, Admitted, Revokes, StillAllowed, MayBind, UserMayBind
<1>4. QED
  BY <1>1, <1>2, <1>3

LEMMA IInvStep == IInv /\ [Next]_vars => IInv'
  BY TypeStep, MutateKeeps, ConnectKeeps, DisconnectKeeps, RestartKeeps DEF IInv, Next

LEMMA IInvHolds == Spec => []IInv
  BY InitIInv, IInvStep, PTL DEF Spec

-----------------------------------------------------------------------------
(* The theorems.                                                           *)

\* The state keeps its types: Init and all actions of the control plane, the
\* worker and sish.
THEOREM TypeCorrect == Spec => []TypeOK
<1>1. IInv => TypeOK
  BY DEF IInv
<1>2. QED
  BY <1>1, IInvHolds, PTL

\* No interleaving of mutations, registrations, deliveries, time-outs and
\* restarts leaves an unallowed tunnel without a pending disconnect event: the
\* purpose of generations, barriers and of the lock that ControlPlaneRegister
\* holds.
THEOREM RevocationIsNeverLost == Spec => []RevokedIsPending
<1>1. IInv => RevokedIsPending
  BY DEF IInv
<1>2. QED
  BY <1>1, IInvHolds, PTL

\* An old revocation never blocks what has been granted again, for keys, users,
\* TCP ports and the console's host: what nextGeneration in SetKeyEnabledAtomic,
\* SetUserStatusAtomic and InsertTCPPortAtomic is for.
THEOREM GrantsOutrunRevocations == Spec => []GrantOutrunsRevocations
<1>1. IInv => GrantOutrunsRevocations
  <2> SUFFICES ASSUME IInv, NEW k \in AllKeys, NEW r \in Resources, MayBind(k, r),
                      NEW s \in SubjectsOf(k, r) \ (Hosts \ {SystemHost})
               PROVE  InForce(s) /\ s \in Subjects
    BY DEF IInv, InForceOutruns, GrantOutrunsRevocations
  <2> QED
    BY ConstantsAssumption
    DEF MayBind, UserMayBind, SubjectsOf, InForce, Subjects, Resources
<1>2. QED
  BY <1>1, IInvHolds, PTL

-----------------------------------------------------------------------------
(* Refinement of TunnelAccess. The mapping takes the policy to the allowed *)
(* pairs, a tunnel to its pair, and the outbox to the set of owed tunnels. *)

AccessPolicy == {p \in AllKeys \X Resources : StillAllowed(p[1], p[2])}
AccessOwed   == {b \in Binds : Owed(b)}

LEMMA LiveIsAdmitted ==
  ASSUME TypeOK, NEW b \in Binds
  PROVE  /\ LivePairs[b] # None <=> Admitted(b)
         /\ Admitted(b) => /\ LivePairs[b] = <<bind[b].key, bind[b].res>>
                           /\ bind[b].key \in AllKeys /\ bind[b].res \in Resources
                           /\ <<bind[b].key, bind[b].res>> # None
  BY ConstantsAssumption DEF LivePairs, Admitted, TypeOK

LEMMA AccessInit == Init => Access!Init
  BY ConstantsAssumption
  DEF Init, Access!Init, Access!Pairs, LivePairs, Admitted, NoBind, Owed

LEMMA AccessMutate == IInv /\ IInv' /\ Mutate => Access!ChangePolicy
<1> SUFFICES ASSUME IInv, IInv', Mutate PROVE Access!ChangePolicy
  OBVIOUS
<1>1. UNCHANGED <<bind, worker>> /\ outbox \subseteq outbox'
  BY MutationEffect DEF IInv, MutationFrame, sishVars
<1>2. UNCHANGED LivePairs
  BY <1>1 DEF LivePairs, Admitted
<1>3. \A b \in Binds : Owed(b) => Owed(b)'
  BY <1>1 DEF Owed, Admitted, Revokes
<1>4. \A b \in Binds : Owed(b)' => LivePairs[b] # None
  BY <1>1, LiveIsAdmitted DEF IInv, Owed, Admitted
<1>5. ASSUME NEW b \in Binds, LivePairs[b] # None, LivePairs[b] \notin AccessPolicy'
      PROVE  Owed(b)'
  <2>1. Admitted(b) /\ LivePairs[b] = <<bind[b].key, bind[b].res>>
        /\ bind[b].key \in AllKeys /\ bind[b].res \in Resources
    BY <1>5, LiveIsAdmitted DEF IInv
  <2>2. ~StillAllowed(bind[b].key, bind[b].res)'
    BY <1>1, <1>5, <2>1 DEF AccessPolicy
  <2>3. Admitted(b)'
    BY <1>1, <2>1 DEF Admitted
  <2>4. QED
    BY <2>2, <2>3 DEF IInv, RevokedIsPending
<1>6. QED
  BY <1>2, <1>3, <1>4, <1>5
  DEF Access!ChangePolicy, Access!Pairs, Access!Unallowed, Access!Live, AccessPolicy

\* Steps that change neither the policy nor any admitted tunnel's events.
AccessStutter == UNCHANGED <<AccessPolicy, LivePairs, AccessOwed>>

LEMMA AccessStutters == AccessStutter => UNCHANGED Access!vars
  BY DEF AccessStutter, AccessPolicy, AccessOwed, Access!vars

LEMMA AccessConnect == IInv /\ IInv' /\ Connect => Access!Next \/ AccessStutter
<1> SUFFICES ASSUME IInv, IInv', Connect PROVE Access!Next \/ AccessStutter
  OBVIOUS
<1>1. PICK b \in Binds : ConnectFrame(b) /\ ConnectGuards(b)
  BY ConnectEffect DEF IInv, Connect
<1>2. UNCHANGED dbVars /\ UNCHANGED outbox /\ \A c \in Binds \ {b} : bind'[c] = bind[c]
  BY <1>1 DEF ConnectFrame
<1>3. AccessPolicy' = AccessPolicy
  BY <1>2 DEF AccessPolicy, StillAllowed, MayBind, UserMayBind, dbVars
<1>4. \A c \in Binds \ {b} : LivePairs'[c] = LivePairs[c] /\ (Owed(c)' <=> Owed(c))
  BY <1>2 DEF LivePairs, Admitted, Owed, Revokes
<1>5. CASE ~Admitted(b) /\ ~Admitted(b)'
  BY <1>2, <1>3, <1>4, <1>5 DEF AccessStutter, AccessOwed, LivePairs, Owed, Admitted
<1>6. CASE Admitted(b) /\ Admitted(b)'
  <2>1. bind'[b].key = bind[b].key /\ bind'[b].res = bind[b].res /\ bind'[b].gen = bind[b].gen
    BY <1>1, <1>6 DEF ConnectGuards, Admitted
  <2>2. LivePairs'[b] = LivePairs[b] /\ (Owed(b)' <=> Owed(b))
    BY <1>2, <1>6, <2>1 DEF LivePairs, Owed, Revokes
  <2>3. LivePairs' = LivePairs
    BY <1>4, <2>2 DEF LivePairs
  <2>4. AccessOwed' = AccessOwed
    BY <1>4, <2>2 DEF AccessOwed
  <2>5. QED
    BY <1>3, <2>3, <2>4 DEF AccessStutter
<1>7. CASE ~Admitted(b) /\ Admitted(b)'
  <2>1. /\ bind'[b].key = bind[b].key /\ bind'[b].res = bind[b].res
        /\ MayBind(bind[b].key, bind[b].res)
    BY <1>1, <1>7 DEF ConnectGuards, Admitted
  <2>2. LivePairs[b] = None
    BY <1>7 DEF LivePairs
  <2>3. LivePairs'[b] = <<bind[b].key, bind[b].res>>
    BY <1>7, <2>1 DEF LivePairs
  <2>4. <<bind[b].key, bind[b].res>> \in AccessPolicy
    <3>1. bind'[b].key \in AllKeys /\ bind'[b].res \in Resources
      BY <1>7, LiveIsAdmitted DEF IInv, TypeOK, Admitted
    <3>2. QED
      BY <2>1, <3>1 DEF AccessPolicy, StillAllowed
  <2>5. LivePairs' = [LivePairs EXCEPT ![b] = <<bind[b].key, bind[b].res>>]
    BY <1>4, <2>3 DEF LivePairs
  <2>6. AccessOwed' \in {AccessOwed, AccessOwed \cup {b}}
    <3>1. b \notin AccessOwed
      BY <1>7 DEF AccessOwed, Owed
    <3>2. QED
      BY <1>4, <3>1 DEF AccessOwed
  <2>7. Access!Start(b)
    BY <1>3, <2>2, <2>4, <2>5, <2>6 DEF Access!Start, AccessPolicy, AccessOwed
  <2>8. QED
    BY <2>7 DEF Access!Next
<1>8. CASE Admitted(b) /\ ~Admitted(b)'
  <2>1. LivePairs[b] # None
    BY <1>8, LiveIsAdmitted DEF IInv
  <2>2. LivePairs' = [c \in Binds |-> IF c \in {b} THEN None ELSE LivePairs[c]]
    BY <1>4, <1>8 DEF LivePairs
  <2>3. AccessOwed' = AccessOwed \ {b}
    BY <1>4, <1>8 DEF AccessOwed, Owed
  <2>4. Access!End({b})
    BY <1>3, <2>1, <2>2, <2>3 DEF Access!End, Access!Live, AccessPolicy, AccessOwed
  <2>5. QED
    BY <2>4 DEF Access!Next
<1>9. QED
  BY <1>5, <1>6, <1>7, <1>8

LEMMA AccessDisconnect == IInv /\ Disconnect => AccessStutter
<1> SUFFICES ASSUME IInv, Disconnect PROVE AccessStutter
  OBVIOUS
<1>1. UNCHANGED <<dbVars, bind>>
  BY DEF Disconnect, Deliver, DeliverTooLate, RunDelayed, CompleteOutbox, RetryOutbox, sishVars
<1>2. AccessPolicy' = AccessPolicy /\ LivePairs' = LivePairs
  BY <1>1 DEF AccessPolicy, StillAllowed, MayBind, UserMayBind, dbVars, LivePairs, Admitted
<1>3. ASSUME NEW b \in Binds PROVE Owed(b)' <=> Owed(b)
  <2>1. CASE outbox' = outbox
    BY <1>1, <2>1 DEF Owed, Admitted, Revokes
  <2>2. CASE CompleteOutbox
    <3>1. Admitted(b) => ~Revokes(worker.event, b)
      BY <2>2 DEF CompleteOutbox, IInv, WorkerCovers, Admitted
    <3>2. QED
      BY <1>1, <2>2, <3>1 DEF CompleteOutbox, Owed, Admitted, Revokes
  <2>3. QED
    BY <2>1, <2>2 DEF Disconnect, Deliver, DeliverTooLate, RunDelayed, RetryOutbox
<1>4. QED
  BY <1>2, <1>3 DEF AccessStutter, AccessOwed

LEMMA AccessRestart ==
  IInv /\ (RestartControlPlane \/ RestartSish \/ UNCHANGED vars) => Access!Next \/ AccessStutter
<1> SUFFICES ASSUME IInv, RestartControlPlane \/ RestartSish \/ UNCHANGED vars
             PROVE  Access!Next \/ AccessStutter
  OBVIOUS
<1>1. UNCHANGED <<userStatus, keyState, owner, unannounced, outbox>>
  BY DEF RestartControlPlane, RestartSish, vars, dbVars
<1>2. AccessPolicy' = AccessPolicy
  BY <1>1 DEF AccessPolicy, StillAllowed, MayBind, UserMayBind
<1>3. CASE UNCHANGED bind
  BY <1>1, <1>2, <1>3 DEF AccessStutter, AccessOwed, LivePairs, Owed, Admitted, Revokes
<1>4. CASE RestartSish
  <2> DEFINE B == {b \in Binds : LivePairs[b] # None}
  <2>1. \A b \in Binds : ~Admitted(b)'
    BY <1>4 DEF RestartSish, Admitted, NoBind
  <2>2. LivePairs' = [b \in Binds |-> None] /\ AccessOwed' = {}
    BY <2>1 DEF LivePairs, AccessOwed, Owed
  <2>3. AccessOwed \subseteq B
    BY LiveIsAdmitted DEF IInv, AccessOwed, Owed
  <2>4. CASE B = {}
    <3>1. LivePairs = [b \in Binds |-> None]
      BY <2>4 DEF LivePairs
    <3>2. QED
      BY <1>2, <2>2, <2>3, <2>4, <3>1 DEF AccessStutter
  <2>5. CASE B # {}
    <3>1. LivePairs' = [b \in Binds |-> IF b \in B THEN None ELSE LivePairs[b]]
      BY <2>2
    <3>2. Access!End(B)
      BY <1>2, <2>2, <2>3, <2>5, <3>1 DEF Access!End, Access!Live, AccessPolicy, AccessOwed
    <3>3. QED
      BY <3>2 DEF Access!Next
  <2>6. QED
    BY <2>4, <2>5
<1>5. QED
  BY <1>3, <1>4 DEF RestartControlPlane, sishVars, vars

LEMMA AccessStep == IInv /\ IInv' /\ [Next]_vars => [Access!Next]_(Access!vars)
  BY AccessMutate, AccessConnect, AccessDisconnect, AccessRestart, AccessStutters
  DEF Next, Access!Next

\* The interplay of database, outbox worker and sish implements TunnelAccess:
\* tunnels start only when allowed, and one that is no longer allowed is owed
\* its disconnection until it is gone.
THEOREM RevocationRefinesTunnelAccess == Spec => ImplementsTunnelAccess
<1>1. QED
  BY AccessInit, AccessStep, IInvHolds, PTL DEF Spec, ImplementsTunnelAccess, Access!Spec

=============================================================================

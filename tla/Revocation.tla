----------------------------- MODULE Revocation -----------------------------
(***************************************************************************)
(* How a tunnel is admitted and how it is revoked.                         *)
(*                                                                         *)
(* Three parties interact. The control plane's database holds who may bind *)
(* what (users, SSH keys, reserved subdomains and TCP ports), one global   *)
(* mutation generation and an outbox of disconnect events; its             *)
(* transactions are serialised (one SQLite connection). The outbox worker  *)
(* delivers the events to sish, at least once and in any order. sish keeps *)
(* in memory the registry of managed tunnels and, per key, user, host and  *)
(* port, the highest generation it was told to disconnect (a barrier); it  *)
(* admits a bind in two calls to the control plane, authorize and connect, *)
(* and holds the registry lock across the second.                          *)
(*                                                                         *)
(* The mode is "required", the one the README prescribes.                  *)
(***************************************************************************)
EXTENDS Naturals

CONSTANTS
  Users,          \* Discord users (positive ids)
  Keys,           \* ids of user SSH keys, ever; ids are never reused
  KeyOwner,       \* the user who adds each key
  Hosts,          \* subdomains, as canonical host names
  Ports,          \* TCP ports in the public range
  SystemKey,      \* the control plane's own key (a negative id)
  SystemHost,     \* the host of the management console
  Binds,          \* remote-forward requests that sish can have in progress
  None,
  MaxGeneration   \* bound on the mutations of one behaviour

Resources == Hosts \cup Ports
AllKeys   == Keys \cup {SystemKey}

\* What a disconnect event can name.
Subjects  == Users \cup Keys \cup Resources

ASSUME ConstantsAssumption ==
  /\ KeyOwner \in [Keys -> Users]
  /\ SystemKey \notin Subjects
  /\ SystemHost \in Hosts
  /\ None \notin Subjects \cup AllKeys \cup Binds
  /\ None \notin AllKeys \X Resources
  /\ Users \cap (Keys \cup Resources) = {}
  /\ Keys \cap Resources = {}
  /\ Hosts \cap Ports = {}
  /\ MaxGeneration \in Nat

VARIABLES
  userStatus,   \* users.status
  keyState,     \* ssh_keys: not yet added, enabled, disabled, deleted
  owner,        \* subdomains and tcp_ports: who reserved it, or None
  generation,   \* control_state.generation
  outbox,       \* tunnel.disconnect_* events that are not completed
  adding,       \* the key whose AddKey call holds keyMu, or None
  unannounced,  \* history: keys AddKey took back without a disconnect event
  worker,       \* the delivery the outbox worker waits for, or None
  bind,         \* the progress of each remote-forward request in sish
  lockedBy,     \* the bind whose registration holds the registry lock, or None
  barrier,      \* keyBarrier, userBarrier, hostBarrier and portBarrier
  selected,     \* registered tunnels a disconnect handler is about to close
  delayed       \* disconnect requests whose sender gave up before they ran

dbVars   == <<userStatus, keyState, owner, generation, adding, unannounced>>
sishVars == <<bind, lockedBy, barrier, selected, delayed>>
vars     == <<dbVars, outbox, worker, sishVars>>

Event    == [subject : Subjects, gen : Nat]
Delivery == [event : Event, todo : SUBSET Binds]
Progress == {"idle", "granted", "authorized", "connecting", "acked", "registered"}
Bind     == [pc : Progress, key : AllKeys \cup {None}, res : Resources \cup {None},
             gen : Nat]
NoBind   == [pc |-> "idle", key |-> None, res |-> None, gen |-> 0]

TypeOK ==
  /\ userStatus \in [Users -> {"active", "suspended"}]
  /\ keyState \in [Keys -> {"unused", "enabled", "disabled", "deleted"}]
  /\ owner \in [Resources -> Users \cup {None}]
  /\ generation \in Nat
  /\ outbox \in SUBSET Event
  /\ adding \in Keys \cup {None}
  /\ unannounced \in SUBSET Keys
  /\ worker \in Delivery \cup {None}
  /\ bind \in [Binds -> Bind]
  /\ \A b \in Binds : bind[b].pc # "idle" =>
       bind[b].key \in AllKeys /\ bind[b].res \in Resources
  /\ lockedBy \in Binds \cup {None}
  /\ barrier \in [Subjects -> Nat]
  /\ selected \in SUBSET Binds
  /\ delayed \in SUBSET Event

\* The database after the migrations, and a sish that has just started.
Init ==
  /\ userStatus = [u \in Users |-> "active"]
  /\ keyState = [k \in Keys |-> "unused"]
  /\ owner = [r \in Resources |-> None]
  /\ generation = 1
  /\ outbox = {}
  /\ adding = None
  /\ unannounced = {}
  /\ worker = None
  /\ bind = [b \in Binds |-> NoBind]
  /\ lockedBy = None
  /\ barrier = [s \in Subjects |-> 0]
  /\ selected = {}
  /\ delayed = {}

-----------------------------------------------------------------------------
(* The policy, as AuthorizeBind and ApplyTunnelConnect read it.            *)

UserMayBind(k, r) ==
  /\ k \in Keys
  /\ keyState[k] = "enabled"
  /\ userStatus[KeyOwner[k]] = "active"
  /\ owner[r] = KeyOwner[k]

\* A key that is no enabled user key falls back to the system resources.
MayBind(k, r) ==
  \/ UserMayBind(k, r)
  \/ k = SystemKey /\ r = SystemHost

-----------------------------------------------------------------------------
(* Mutations of the policy, each one transaction. nextGeneration and the   *)
(* insertion of the disconnect event are part of the transaction.          *)

nextGeneration ==
  /\ generation < MaxGeneration
  /\ generation' = generation + 1

insertOutbox(s) == outbox' = outbox \cup {[subject |-> s, gen |-> generation']}

\* Service.AddKey holds keyMu from its checks to its return. The row is
\* committed first; a generation is not consumed.
AddKey(k) ==
  /\ adding = None
  /\ keyState[k] = "unused"
  /\ userStatus[KeyOwner[k]] = "active"
  /\ keyState' = [keyState EXCEPT ![k] = "enabled"]
  /\ adding' = k
  /\ UNCHANGED <<userStatus, owner, generation, unannounced, outbox, worker, sishVars>>

\* The key file is written, or neither it nor the row can be taken back.
AddKeyReturns ==
  /\ adding # None
  /\ adding' = None
  /\ UNCHANGED <<userStatus, keyState, owner, generation, unannounced, outbox,
                 worker, sishVars>>

\* Writing the key file failed: the row is deleted or, when that fails,
\* disabled, by plain statements without generation or event.
AddKeyRollsBack ==
  /\ adding # None
  /\ \E s \in {"deleted", "disabled"} : keyState' = [keyState EXCEPT ![adding] = s]
  /\ unannounced' = unannounced \cup {adding}
  /\ adding' = None
  /\ UNCHANGED <<userStatus, owner, generation, outbox, worker, sishVars>>

EnableKey(k) ==
  /\ adding = None
  /\ keyState[k] = "disabled"
  /\ userStatus[KeyOwner[k]] = "active"
  /\ nextGeneration
  /\ keyState' = [keyState EXCEPT ![k] = "enabled"]
  /\ unannounced' = unannounced \ {k}
  /\ UNCHANGED <<userStatus, owner, outbox, adding, worker, sishVars>>

DisableKey(k) ==
  /\ adding = None
  /\ keyState[k] = "enabled"
  /\ userStatus[KeyOwner[k]] = "active"
  /\ nextGeneration
  /\ keyState' = [keyState EXCEPT ![k] = "disabled"]
  /\ insertOutbox(k)
  /\ UNCHANGED <<userStatus, owner, adding, unannounced, worker, sishVars>>

DeleteKey(k) ==
  /\ adding = None
  /\ keyState[k] \in {"enabled", "disabled"}
  /\ nextGeneration
  /\ keyState' = [keyState EXCEPT ![k] = "deleted"]
  /\ unannounced' = unannounced \ {k}
  /\ insertOutbox(k)
  /\ UNCHANGED <<userStatus, owner, adding, worker, sishVars>>

\* A subdomain is inserted without consuming a generation.
ReserveSubdomain(u, h) ==
  /\ h # SystemHost
  /\ owner[h] = None
  /\ userStatus[u] = "active"
  /\ owner' = [owner EXCEPT ![h] = u]
  /\ UNCHANGED <<userStatus, keyState, generation, outbox, adding, unannounced,
                 worker, sishVars>>

\* Mutant: like a subdomain.
ReserveTCPPortSameGeneration(u, p) ==
  /\ owner[p] = None
  /\ userStatus[u] = "active"
  /\ owner' = [owner EXCEPT ![p] = u]
  /\ UNCHANGED <<userStatus, keyState, generation, outbox, adding, unannounced,
                 worker, sishVars>>

\* A TCP port is inserted in a new generation.
ReserveTCPPort(u, p) ==
  /\ owner[p] = None
  /\ userStatus[u] = "active"
  /\ nextGeneration
  /\ owner' = [owner EXCEPT ![p] = u]
  /\ UNCHANGED <<userStatus, keyState, outbox, adding, unannounced, worker, sishVars>>

\* ReleaseSubdomain and ReleaseTCPPort, by the owner or by an administrator.
Release(r) ==
  /\ owner[r] # None
  /\ nextGeneration
  /\ owner' = [owner EXCEPT ![r] = None]
  /\ insertOutbox(r)
  /\ UNCHANGED <<userStatus, keyState, adding, unannounced, worker, sishVars>>

Suspend(u) ==
  /\ adding = None
  /\ userStatus[u] = "active"
  /\ nextGeneration
  /\ userStatus' = [userStatus EXCEPT ![u] = "suspended"]
  /\ insertOutbox(u)
  /\ UNCHANGED <<keyState, owner, adding, unannounced, worker, sishVars>>

Unsuspend(u) ==
  /\ adding = None
  /\ userStatus[u] = "suspended"
  /\ nextGeneration
  /\ userStatus' = [userStatus EXCEPT ![u] = "active"]
  /\ UNCHANGED <<keyState, owner, outbox, adding, unannounced, worker, sishVars>>

-----------------------------------------------------------------------------
(* A bind in sish: authorize, open the listener, register.                 *)

\* The key, its owner and the host or port, whose barriers a bind must pass
\* and whose events select its tunnel. Barriers of the system key, with its
\* negative id and user 0, are never raised.
SubjectsOf(k, r) ==
  {r} \cup (IF k \in Keys THEN {k, KeyOwner[k]} ELSE {})

Barred(b) ==
  \E s \in SubjectsOf(bind[b].key, bind[b].res) : barrier[s] >= bind[b].gen

Advance(b, pc) == bind' = [bind EXCEPT ![b].pc = pc]
EndBind(b)     == bind' = [bind EXCEPT ![b] = NoBind]

\* The authorize call reads policy and generation in one transaction.
AuthorizeBind(b, k, r) ==
  /\ bind[b].pc = "idle"
  /\ MayBind(k, r)
  /\ bind' = [bind EXCEPT ![b] = [pc |-> "granted", key |-> k, res |-> r,
                                  gen |-> generation]]
  /\ UNCHANGED <<dbVars, outbox, worker, lockedBy, barrier, selected, delayed>>

\* Mutant: a refused bind goes on without a principal, as in audit mode.
CheckGrantAudit(b) ==
  /\ bind[b].pc = "granted"
  /\ lockedBy = None
  /\ IF Barred(b)
       THEN bind' = [bind EXCEPT ![b] = [NoBind EXCEPT !.pc = "authorized"]]
       ELSE Advance(b, "authorized")
  /\ UNCHANGED <<dbVars, outbox, worker, lockedBy, barrier, selected, delayed>>

\* sish receives the answer and looks at the barriers under the read lock.
CheckGrant(b) ==
  /\ bind[b].pc = "granted"
  /\ lockedBy = None
  /\ IF Barred(b) THEN EndBind(b) ELSE Advance(b, "authorized")
  /\ UNCHANGED <<dbVars, outbox, worker, lockedBy, barrier, selected, delayed>>

\* The call fails, the listener cannot be opened or the client goes away.
AbandonBind(b) ==
  /\ bind[b].pc \in {"granted", "authorized"}
  /\ EndBind(b)
  /\ UNCHANGED <<dbVars, outbox, worker, lockedBy, barrier, selected, delayed>>

\* ControlPlaneRegister takes the registry lock and looks again.
BeginRegister(b) ==
  /\ bind[b].pc = "authorized"
  /\ lockedBy = None
  /\ IF Barred(b)
       THEN EndBind(b) /\ UNCHANGED lockedBy
       ELSE Advance(b, "connecting") /\ lockedBy' = b
  /\ UNCHANGED <<dbVars, outbox, worker, barrier, selected, delayed>>

\* Mutant: the connect event is trusted.
ApplyTunnelConnectUnchecked(b) ==
  /\ bind[b].pc = "connecting"
  /\ Advance(b, "acked")
  /\ UNCHANGED <<dbVars, outbox, worker, lockedBy, barrier, selected, delayed>>

\* The connect event is committed: same generation and still allowed.
ApplyTunnelConnect(b) ==
  /\ bind[b].pc = "connecting"
  /\ bind[b].gen = generation
  /\ MayBind(bind[b].key, bind[b].res)
  /\ Advance(b, "acked")
  /\ UNCHANGED <<dbVars, outbox, worker, lockedBy, barrier, selected, delayed>>

\* The acknowledgement arrives: the tunnel enters the registry.
FinishRegister(b) ==
  /\ bind[b].pc = "acked"
  /\ Advance(b, "registered")
  /\ lockedBy' = None
  /\ UNCHANGED <<dbVars, outbox, worker, barrier, selected, delayed>>

\* The connect event is refused, lost or not acknowledged in time.
FailRegister(b) ==
  /\ bind[b].pc \in {"connecting", "acked"}
  /\ EndBind(b)
  /\ lockedBy' = None
  /\ UNCHANGED <<dbVars, outbox, worker, barrier, selected, delayed>>

\* ControlPlaneUnregister, after the client left or from a cleanup. The
\* cleanup of a tunnel that is already gone does nothing.
Unregister(b) ==
  /\ bind[b].pc = "registered"
  /\ lockedBy = None
  /\ EndBind(b)
  /\ selected' = selected \ {b}
  /\ worker' = IF worker = None THEN None ELSE [worker EXCEPT !.todo = @ \ {b}]
  /\ UNCHANGED <<dbVars, outbox, lockedBy, barrier, delayed>>

-----------------------------------------------------------------------------
(* Delivery of a disconnect event.                                         *)

\* Keys, users and hosts select every tunnel of theirs; a port selects the
\* tunnels of its own and earlier generations.
Matches(e) ==
  {b \in Binds : /\ bind[b].pc = "registered"
                 /\ e.subject \in SubjectsOf(bind[b].key, bind[b].res)
                 /\ e.subject \in Ports => bind[b].gen <= e.gen}

\* Mutant: without the registry lock.
disconnectManagedUnlocked(e) ==
  /\ barrier' = [barrier EXCEPT ![e.subject] = IF e.gen > @ THEN e.gen ELSE @]
  /\ selected' = selected \cup Matches(e)

\* The part of disconnectManaged that runs under the registry lock.
disconnectManaged(e) ==
  /\ lockedBy = None
  /\ barrier' = [barrier EXCEPT ![e.subject] = IF e.gen > @ THEN e.gen ELSE @]
  /\ selected' = selected \cup Matches(e)

\* The worker delivers an event, oldest first but for those in back-off, which
\* may be any; then it waits until the handler has closed what it selected.
Deliver(e) ==
  /\ worker = None
  /\ e \in outbox
  /\ disconnectManaged(e)
  /\ worker' = [event |-> e, todo |-> Matches(e)]
  /\ UNCHANGED <<dbVars, outbox, bind, lockedBy, delayed>>

\* The worker gives up before the handler got the lock; the handler runs later.
DeliverTooLate(e) ==
  /\ worker = None
  /\ e \in outbox
  /\ delayed' = delayed \cup {e}
  /\ UNCHANGED <<dbVars, outbox, worker, bind, lockedBy, barrier, selected>>

RunDelayed(e) ==
  /\ e \in delayed
  /\ disconnectManaged(e)
  /\ delayed' = delayed \ {e}
  /\ UNCHANGED <<dbVars, outbox, worker, bind, lockedBy>>

\* Mutant: the answer is sent before the cleanups.
CompleteOutboxEarly ==
  /\ worker # None
  /\ outbox' = outbox \ {worker.event}
  /\ worker' = None
  /\ UNCHANGED <<dbVars, sishVars>>

\* Every cleanup has returned: the answer is 204 and the event completed.
CompleteOutbox ==
  /\ worker # None
  /\ worker.todo = {}
  /\ outbox' = outbox \ {worker.event}
  /\ worker' = None
  /\ UNCHANGED <<dbVars, sishVars>>

\* Mutant: the worker gives the event up.
RetryOutboxNever ==
  /\ worker # None
  /\ outbox' = outbox \ {worker.event}
  /\ worker' = None
  /\ UNCHANGED <<dbVars, sishVars>>

\* The worker's timeout, a lost answer or a failed CompleteOutbox.
RetryOutbox ==
  /\ worker # None
  /\ worker' = None
  /\ UNCHANGED <<dbVars, outbox, sishVars>>

-----------------------------------------------------------------------------
(* Crashes.                                                                *)

\* The database survives; the worker and a running AddKey do not.
RestartControlPlane ==
  /\ worker # None \/ adding # None
  /\ worker' = None
  /\ adding' = None
  /\ UNCHANGED <<userStatus, keyState, owner, generation, unannounced, outbox, sishVars>>

\* All connections end, and registry and barriers with them.
RestartSish ==
  /\ bind' = [b \in Binds |-> NoBind]
  /\ lockedBy' = None
  /\ barrier' = [s \in Subjects |-> 0]
  /\ selected' = {}
  /\ delayed' = {}
  /\ worker' = None
  /\ UNCHANGED <<dbVars, outbox>>

-----------------------------------------------------------------------------

Mutate ==
  \/ \E k \in Keys : AddKey(k) \/ EnableKey(k) \/ DisableKey(k) \/ DeleteKey(k)
  \/ AddKeyReturns
  \/ AddKeyRollsBack
  \/ \E u \in Users, h \in Hosts : ReserveSubdomain(u, h)
  \/ \E u \in Users, p \in Ports : ReserveTCPPort(u, p)
  \/ \E r \in Resources : Release(r)
  \/ \E u \in Users : Suspend(u) \/ Unsuspend(u)

Connect ==
  \E b \in Binds :
    \/ \E k \in AllKeys, r \in Resources : AuthorizeBind(b, k, r)
    \/ CheckGrant(b)
    \/ AbandonBind(b)
    \/ BeginRegister(b)
    \/ ApplyTunnelConnect(b)
    \/ FinishRegister(b)
    \/ FailRegister(b)
    \/ Unregister(b)

Disconnect ==
  \/ \E e \in outbox : Deliver(e) \/ DeliverTooLate(e)
  \/ \E e \in delayed : RunDelayed(e)
  \/ CompleteOutbox
  \/ RetryOutbox

Next == Mutate \/ Connect \/ Disconnect \/ RestartControlPlane \/ RestartSish

Spec == Init /\ [][Next]_vars

\* The clients of the two calls time out (2s for the connect event, 3s for a
\* disconnect), so neither the lock nor the worker is held forever. The worker
\* retries an event for ever, the back-off is capped and the registry lock is
\* starvation free; that an event whose delivery keeps being possible is at
\* last handled in time assumes that not every attempt times out.
Fairness ==
  /\ \A s \in Subjects, g \in 2 .. MaxGeneration :
       SF_vars(Deliver([subject |-> s, gen |-> g]))
  /\ \A b \in Binds : SF_vars(b \in selected /\ Unregister(b))
  /\ \A b \in Binds : WF_vars(FailRegister(b))
  /\ WF_vars(RetryOutbox)

FairSpec == Spec /\ Fairness

-----------------------------------------------------------------------------
(* Properties.                                                             *)

\* A tunnel exists from the commit of its connect event: the registry lock
\* keeps disconnect handlers out until it is in the registry.
Admitted(b) == bind[b].pc \in {"acked", "registered"}

\* The event was caused by a revocation later than the bind's authorization.
Revokes(e, b) ==
  /\ e.subject \in SubjectsOf(bind[b].key, bind[b].res)
  /\ bind[b].gen <= e.gen

Owed(b) == Admitted(b) /\ \E e \in outbox : Revokes(e, b)

\* The policy with the keys that AddKey took back silently still in force.
StillAllowed(k, r) ==
  \/ MayBind(k, r)
  \/ /\ k \in unannounced
     /\ userStatus[KeyOwner[k]] = "active"
     /\ owner[r] = KeyOwner[k]

\* Every admitted tunnel is allowed by the database as it is now, or an
\* uncompleted disconnect event covers it (but for a key whose AddKey failed).
\* About ControlPlaneRegister holding the registry lock across the connect
\* call, the generation comparison of ApplyTunnelConnect, the retained
\* barriers, and CompleteOutbox only after every cleanup has returned.
RevokedIsPending ==
  \A b \in Binds :
    Admitted(b) => StillAllowed(bind[b].key, bind[b].res) \/ Owed(b)

\* What AuthorizeBind would grant now is newer than every barrier and every
\* undelivered disconnect event on its key, its user and its port (and on the
\* system host): a revocation that was taken back (key enabled again, user
\* unsuspended, port reserved again) cannot refuse the new bind, however late
\* the old disconnect request arrives.
GrantOutrunsRevocations ==
  \A k \in AllKeys, r \in Resources : MayBind(k, r) =>
    \A s \in SubjectsOf(k, r) \ (Hosts \ {SystemHost}) :
      /\ barrier[s] < generation
      /\ \A e \in outbox \cup delayed : e.subject = s => e.gen < generation

\* The same for subdomains, whose reservation consumes no generation: a
\* reserved subdomain of an active user with an enabled key can be bound.
ReservedHostAdmissible ==
  \A k \in Keys, h \in Hosts : MayBind(k, h) => barrier[h] < generation

-----------------------------------------------------------------------------
(* The abstract specification this one implements.                         *)

LivePairs == [b \in Binds |->
  IF Admitted(b) THEN <<bind[b].key, bind[b].res>> ELSE None]

Access == INSTANCE TunnelAccess WITH
  policy <- {p \in AllKeys \X Resources : StillAllowed(p[1], p[2])},
  live   <- LivePairs,
  owed   <- {b \in Binds : Owed(b)}

\* Admission and revocation as the control plane, the worker and sish run them
\* implement TunnelAccess: no tunnel starts unallowed, a revoked one is owed at
\* once and stays owed until it ends.
ImplementsTunnelAccess == Access!Spec

\* With the fairness above a tunnel that is owed a disconnection does end.
RevokedTunnelsEnd == Access!FairSpec

=============================================================================

# A TLA+ model of tunnel-service

tunnel-service lets Discord users expose a local HTTP service or a TCP port
through SSH remote forwards. A *control plane* (Go, SQLite) keeps users, SSH
keys and reservations; a patched *sish* (Go, `src/sish/patches/control-plane.patch`)
terminates SSH and forwards traffic. sish asks the control plane before every
bind, and the control plane tells sish when a right was withdrawn. The modules
in this directory model that cooperation, model-check it on small instances
with TLC and prove its central theorems with TLAPS.

Paths below are relative to the repository; `patch:N` is line N of
`sish/patches/control-plane.patch`, `hardening.go` and the other Go files are
those under `app/internal`.

## 1. Inventory

| Component | State it keeps | Operations | Talks to |
|---|---|---|---|
| Policy store (`store/hardening.go`, `store/store.go`) | users, ssh_keys, subdomains, tcp_ports, system resources, `control_state.generation`; one SQLite connection, so transactions are serialised | InsertKeyAtomic, SetKeyEnabledAtomic, DeleteKeyAtomic, Insert/DeleteSubdomainAtomic, Insert/DeleteTCPPortAtomic, SetUserStatusAtomic, AuthorizeBind | everything in the control plane |
| Service layer (`service/service.go`) | `keyMu` | AddKey, SetKeyEnabled, DeleteKey, Reserve/Release of subdomains and ports, SetUserSuspended, Reconcile | store, key files, DNS |
| Outbox and worker (`service/outbox.go`) | `outbox` rows (kind, payload, attempts, available_at, completed_at) | drain, process, CompleteOutbox, RetryOutbox | store, key files, sish |
| Key files (`integration/pubkeys.go`) | one file per authorised key, in the directory sish watches | Write (temporary file, fsync, rename, fsync of the directory), Remove, Reconcile | file system, sish |
| Bind admission in sish (patch:130-178, 404-455) | principal of the request, then an entry of the registry | ControlPlaneAuthorize, ControlPlaneRegister, ControlPlaneUnregister | internal API of the control plane |
| Registry and management API of sish (patch:282-316, 492-598) | `tunnels`, four barrier maps, `sequence`, a random `controlSourceID`; one RWMutex | GET /v1/tunnels, POST /v1/disconnect | outbox worker, synchroniser |
| Lifecycle store (`store/hardening.go` 428-650) | active_tunnels, tunnel_event_cursor, lifecycle_events, retired_tunnel_sources, tunnel_sync_state | ApplyTunnelConnect, ApplyTunnelDisconnect, ReconcileActiveSnapshot, MarkTunnelSyncUnavailable | internal API, synchroniser, console |
| Synchroniser (`service/tunnels.go`) | none | once, every 5 seconds | sish, lifecycle store |
| Web sessions (`web/server.go`, `store/store.go` 151-197) | oauth_states, sessions, role and status of a user | oauthStart, oauthCallback, auth, admin, csrf, logout | Discord, store |
| HTTP rate limiter (`web/ratelimit.go`) | buckets per client, in three limiters of at most 10000 each | allow, evict | web handlers |
| Connection limiter of sish (patch:634-789) | a table of addresses: tokens, connections, violations, block | allowConnection, Close, AbuseAllow | public listeners |
| Security telemetry (patch:599-632, `store/hardening.go` 731-772) | counters in sish, one pending batch, telemetry_batches and security_telemetry in the database | countSecurity, telemetryLoop, AddSecurityTelemetryBatch, CleanupSecurityTelemetry | internal API |
| Names and ports (`service.go` 74-104, `web/internal.go` 89-107, patch:393) | none | NormalizeSubdomain, ParseTCPPort, canonicalHost, canonicalHostname | all boundaries |
| DNS client (`integration/vercel.go`) | none | HasExactRecord, page by page | Vercel |
| Console API (`web/server.go`, `web/api_dto.go`), frontend, configuration, migrations, scripts | none beyond the above | rendering, paging, start-up | |

### How the parts interact, and where it is hard

*Admission* takes two calls. `ControlPlaneAuthorize` reads the policy and the
current *generation*, a global counter that withdrawals of rights advance.
sish opens the listener; then `ControlPlaneRegister` takes the registry lock,
sends the connect event and, when it is committed, enters the tunnel into the
registry. *Revocation* is a transaction that changes the policy, advances the
generation and inserts a disconnect event into the outbox; the worker delivers
it to sish, which raises a *barrier*, closes the matching tunnels, and answers.
Anything can happen between those steps: the grant may be stale, the event may
be delivered twice, late or to a sish that has restarted, the worker may give
up while the handler still waits for the lock.

*Observation* runs beside it. sish numbers its connect and disconnect events
and its snapshots; the control plane applies them in whatever order they
arrive, refuses what is older than what it has, and retires the numbering of a
sish that is gone.

*Key files* are what sish's SSH server authenticates against. The service
layer writes them under `keyMu`, before or after the database; the worker
writes them too, without `keyMu`, from retried events.

| Component | What makes it correct |
|---|---|
| Admission and revocation | no tunnel outlives its right unless an undelivered event covers it; a right given back can be used; an owed disconnection happens |
| Lifecycle | every running tunnel is in the database; a row never runs ahead of sish; an event or snapshot of an older sish changes nothing; a withdrawn or ended tunnel is not shown as active; the view converges |
| Key files | a mismatch between file and row denies access; files converge to the rows |
| Web sessions | a suspended user keeps no session; a state is used once; an administrator is never suspended |
| Limiters | a blocked client stays blocked for the block's duration; connection counts return to zero; tables are bounded |
| Telemetry | every counted event is stored exactly once |
| Reservations | what is reserved can be bound in every spelling; a release removes what its caller meant; a name with a DNS record is not reserved; the control plane's label is nobody else's |

## 2. Modules

| Module | Stands for |
|---|---|
| `TunnelAccess` | the abstract promise: a policy, live tunnels, and tunnels that are owed a disconnection |
| `Revocation` | the protocol between store, outbox worker and sish that keeps this promise |
| `Lifecycle` | events, snapshots and rows: how the control plane learns which tunnels run |
| `KeyFiles` | key files, the calls of the service layer step by step, and the worker without `keyMu` |
| `WebSessions` | sign-in, sessions and what a signed-in request does, each request as its statements |
| `Reservations` | names and ports from the form to the table, the DNS check, releases, the label of the control plane |
| `Telemetry` | what sish counts, from the counter to the statistics |
| `RateLimiter`, `ConnectionLimiter` | the limiter of the web server and that of sish |
| `RevocationProofs`, `LifecycleProofs`, `WebSessionsProofs`, `ReservationsProofs`, `KeyFilesProofs`, `TelemetryProofs` | theorems about the modules they are named after |
| `NamesProofs` | lemmas about the conversions of `Reservations`, which `ReservationsProofs` uses |
| `LimitersProofs` | theorems about both limiters, as `MCLimiters` puts them side by side |
| `MCRevocation`, `MCLifecycle`, `MCKeyFiles`, `MCWebSessions`, `MCReservations`, `MCTelemetry`, `MCLimiters` | values of the constants and symmetry sets for TLC |

An operator with the comment "Mutant" is a plausible bug in the definition below
it. The specifications do not use it; each is there to show that a property
would notice that bug.

### Revocation

| State | Code |
|---|---|
| `userStatus`, `keyState`, `owner`, `generation` | `users.status`, `ssh_keys`, `subdomains` and `tcp_ports`, `control_state.generation` |
| `outbox` | the `tunnel.disconnect_*` rows that are not completed; subject and generation are their payload |
| `worker` | the event `process` is at, and the cleanups its request has left to run |
| `bind` | one remote forward: the principal, and how far it is between `ControlPlaneAuthorize` and the registry |
| `lockedBy` | the `ControlPlaneRegister` that holds the registry lock across its connect call |
| `barrier` | the four barrier maps |
| `selected`, `delayed` | cleanups of a request whose sender gave up; such requests that still wait for the lock |
| `adding`, `unannounced` | AddKey between its transaction and its file; history: keys it took back |

A mutation is one action, as it is one transaction on a single connection. A
bind is six: `AuthorizeBind` (the answer), `CheckGrant` (the barriers),
`BeginRegister` (lock, barriers again, the call), `ApplyTunnelConnect` (the
transaction), `FinishRegister` and `FailRegister`. A delivery is `Deliver` with
`disconnectManaged`, one `Unregister` for each tunnel it closes, then
`CompleteOutbox`; at any point the worker's client may give up (`RetryOutbox`),
and then the rest of the handler runs by itself or the whole handler runs later
(`DeliverTooLate`, `RunDelayed`).

The system key and host stand for `EnsureSystemResources`; they are not
revoked. The subject 0 of that key never matches (`q.UserID > 0`).

### Lifecycle

sish's sources are numbered in the order of its starts, which the code cannot
see and the model compares only for equality; 0 is the empty id. `events` only
grows: an event that is not applied is lost, one that is applied later is late,
one that is applied again is a duplicate. (sish does not send an event twice;
an HTTP transport may.) `fresh` replaces the generation: the tunnels that were
authorised in the current one; a bind of an older generation is refused by
`ApplyTunnelConnect` and leaves only a number that was used, so it does not
appear. `allowed` summarises the validity queries. `Withdraw` is any of the
transactions that withdraw a right and mark its rows; `Withdraw({})` is a
mutation that takes a generation and concerns no tunnel. `AddKeyRollsBack` is
the withdrawal that marks none and takes no generation: `Store.DeleteKey` or
`Store.SetKeyEnabled` after the file of a new key could not be written
(`service.go:171`). `unannounced` is history: the rows it left as they were.
`Restore` gives a right back, in a new generation, or in the same one when a
name is reserved (`InsertSubdomainAtomic`).
The synchroniser is two steps, `FetchSnapshot` and one of
`ReconcileActiveSnapshot` and `MarkTunnelSyncUnavailable`, with anything in
between.

### KeyFiles

A service call holds `keyMu` from its first to its last step and is a record
`call` whose `step` says where it is. Each step is one file operation or one
transaction, and each may fail; a file operation that fails may have had its
effect, because Write and Remove end with an fsync of the directory. Reconcile
is atomic when it succeeds and partial when it fails. The worker is three
steps, reading the rows, changing the files, completing; it takes events in the
order of their ids, except that an event waiting for its retry comes at any
time. A restart drops the call and the worker, and reconciles before anything
else, as `main` does.

`stray` is history. It records the files that nothing queued or running will
remove, where such a file comes into being.

### WebSessions

| State | Code |
|---|---|
| `admins` | `ADMIN_DISCORD_IDS` of the process that runs |
| `role`, `status`, `oauthStates`, `sessions` | columns of `users`, the tables of the same names |
| `holdings` | whether the user has the one right that requests ask for |
| `cookie`, `pages` | the browser's two cookies, the sessions for which it has a page open |
| `call` | each request in progress: its step and all it has read |
| `keyMu` | the request between the two halves of a suspension |

A request is as many actions as it has database statements or calls to
Discord. What it read before, including the clock, stays in `call`. Answers can
be lost or arrive out of order (`Answer`), and a request is aborted wherever
its context can end (`Abort`). Tokens and states are drawn once; `origin` and
`issued` remember where sessions came from. A restart may change `admins`, the
tables remain.

### Reservations

Inputs are sequences of characters, converted by `NormalizeSubdomain`,
`canonicalHost` as the code does it; the rule for a label is written down in
both and modelled twice (`ValidName`, `ValidHost`), since that the two agree is
part of the question. `Others` are the characters that no label may have. Ports
are a set of values, those that `ParseTCPPort` lets through: from there on the
code has an `int`, in a column that is `INTEGER UNIQUE`, so that its spelling is
gone before anything can depend on it. `DomainAssumption` says of the
configured domain that it is a name: not empty, which `config.go:41` checks, and
without an empty label at its end, which nothing checks. A call
goes through `list` (the table), `dns` (one step per page), `insert` (the
transaction); a release through `read` and `delete`. The provider's answers are
a choice among every page with a cursor, no cursor, a repeated one, or an
error; records come and go (`ChangeZone`). `hit` is history: a record was there
during the whole check. A restart comes with another label, and may fail after
`EnsureSystemResources` has committed: then the labels of the table are those
of a configuration that never runs.

### Telemetry

`counters`, `pending` and `call` are sish's side, `batches` and `metrics` the
tables. The id of a batch is its position in `drawn`, unique like the random
one. A request is refused, accepted, or given up after two seconds, and then
possibly carried out later (`late`). Retention removes batches and statistics
as the clock passes; a restart of sish discards counters and pending batch,
which `lost` and `orphans` record.

### RateLimiter and ConnectionLimiter

A request reads the clock (`Arrive`) before it gets the mutex (`allow`), so that
times reach a table out of order. `until`, `created` and `granted` are history:
when a block that was imposed ends, when an entry was made, what it has
admitted. A full table evicts an arbitrary entry, since Go's map order is
random. In sish, connections and requests share the table; a connection's
entry is counted up at the accept and down at `Close`, which may come twice.

## 3. Runs

| Run | Question | Result |
|---|---|---|
| `ports` | Does a revocation survive every interleaving while a port passes from one user to another? Are later grants safe from earlier revocations? Does the protocol implement `TunnelAccess`? | holds |
| `fair` | Does every tunnel that is owed a disconnection end? | holds |
| `lifecycle` | Can the next snapshot always repair the rows, do they show no ended tunnel, and a withdrawn one as active only after AddKey's rollback, and does the view converge? | holds |
| `files` | Without failures, do the files become exact and stay so? | holds |
| `failures` | With failures, where can a file of a withdrawn key come from? | holds |
| `signin` | Do logins, suspensions, stale pages and lost answers leave a session, a right or a change that should not be? | holds |
| `telemetry` | Is every event counted once, over retries, late requests, retention and restarts, and does it arrive? | holds |
| `limiters` | Are tables bounded, rates kept, blocks and connection counts right when times are out of order and tables full? | holds |
| `reservations` | Does the control plane's label stay unowned, can what is reserved be bound in every spelling, does a release remove the right row, is DNS respected? | holds |
| `hosts`, `settled`, `admins` | statements of the README, comments and messages | violated, see section 6 |

The largest runs have about a million distinct states; each takes less than
four minutes with two workers.

**What they show.** `RevokedIsPending`: a registered tunnel is allowed by the
database as it is now, or an event that is not completed covers it. `MCRevocation`
with one of the three checks removed (barriers, generation equality, validity
query) still satisfies it: those three back each other up. The lock across the
connect call and the completion after the cleanups do not have a substitute, as
the mutants `disconnectManagedUnlocked` and `CompleteOutboxEarly` show.
`GrantOutrunsRevocations` is the reason why reserving a port takes a generation
although it withdraws nothing. Which tunnels a disconnect closes is not judged: in `Revocation` and
`TunnelAccess` a tunnel may end at any time, so a disconnect of a port that did
not compare generations in `Matches` would go unnoticed.
`NextSnapshotRepairs` is what the comparison of sources is for,
`WithdrawnIsNotActive` what the validity query in the snapshot is for. The latter
has one exception: the rows that AddKey's rollback leaves active, until a
snapshot is applied, the right is given back, or another mutation marks them.
`EndedStaysEnded` needs the
comparison in the row (`hardening.go:612`): refusing an older snapshot
(`hardening.go:555`) does not cover the first snapshot of a source, which may be
older than events of that source that were applied before it. `WithdrawnFileIsPending` names
the places where the fail-closed order of files and rows is lost.
`SuspendedHasNoSession` needs the status predicate inside the login's
transaction, `ActsAsThePageShowed` a CSRF token that belongs to the session and
not to the browser. `CountedOnce` holds although a batch's id may be forgotten
while the batch is still sent, since the transaction that adds a batch removes
the counts that are as old as the forgotten ids. `CountersDrain` has an exception,
`Stuck`: a batch with a number above 1,000,000 is refused for ever and stops all
later ones (`internal.go:188`). In the web server's limiter a block is lost only
with an entry that a full table evicts; in sish a block can be longer than the
idle time, and then the sweep of a full table ends it early. Both exceptions are
in the code and are written into the history variable `until`.
`ReservedCanBind` ties together two conversions that are written in two places:
what they trim, which lengths and characters they let pass (`canonicalHostDotted`,
`ValidHostShort`);
`SystemLabelsUnowned` needs both the comparison with the configuration and the
transaction of the start, since each looks at half.

**Bounds.** All bounds are conjuncts of guards, or constants that a guard
compares with.

- `ports`: generations go from 1 to `MaxGeneration = 4`, which leaves three
  mutations: a reservation, a release and a reservation by another user, what it
  takes for an old event to meet a new grant. One bind at a time; two concurrent binds and any number of
  them are covered by the theorems of `RevocationProofs`.
- `fair`: one name and the console's own, `MaxGeneration = 3`.
- `lifecycle`: two tunnels, one bind of each; `MaxSequence = 3` is a connect, a disconnect and one number more
  in one life of sish; `MaxSource = 2` lets events and snapshots be one life
  old. Older ones are covered by the theorems of `LifecycleProofs`.
- `files`, `failures`: five and four calls are enough for adding, disabling and
  enabling a key with a suspension in between; three failures are what AddKey's
  longest way back takes.
- `signin`: two requests at a time, one browser, two accounts, two attempts, and
  one tick of a clock by which both states and sessions expire, so that an
  expiry falls between any two steps.
- `telemetry`: three events, so that a second batch can be pending while the
  first is late; a retention of one tick within two; a batch of more than one
  event of a kind is never accepted.
- `limiters`: three clients for a table of two entries, two strikes for a block,
  a block longer than the idle time; for sish a table of one, which a request
  can push over its size. With an idle time of 1 and a block of 3 a block in
  sish is safe from the sweep for a tick only; the longer ones are covered by
  the web server's half of the run and by the theorem `BlocksStand`. The two limiters share nothing and `side` chooses
  which of them runs.
- `reservations`: every input of up to four characters over a letter, its
  capital, a space, a hyphen, a dot and another character, for labels of at most
  three; one port, two users, two calls, two ids of a kind,
  two pages, two possible labels of the control plane.

Symmetry is used only in runs without liveness properties, over sets whose
members the specification compares for equality only. Deadlock is not checked
where the bounds end every activity (`ports`, `fair`, `hosts`, `files`,
`failures`, `settled`); elsewhere it is.

**Fairness.** The clients' time-outs (2 s in sish, 3 s in the control plane)
end a call that is not answered: weak fairness for `FailRegister` (in
`Lifecycle` for whichever tunnel has the lock) and `RetryOutbox`. The worker retries for ever with a delay of at most 5 minutes,
and a healthy sish gets a request now and then: strong fairness for `Deliver`
and for the worker's steps in `KeyFiles`. Go's RWMutex starves no writer: strong
fairness for `Unregister`. The synchroniser tries every 5 seconds for ever, and
strong fairness for `FetchSnapshot` and `ReconcileActiveSnapshot` says that not
every attempt fails or is outrun by an event. `telemetryLoop` is a loop with a
ticker (weak fairness), its request ends after two seconds (weak fairness), and
strong fairness says that not every attempt or its answer fails. Nothing is
assumed of users, clients, restarts or of events that may be lost, and the
modules for web sessions, reservations and the limiters state no fairness.

## 4. Proofs

`RevocationProofs` proves, for all users, keys, names, ports, binds and any
`MaxGeneration`, under the assumptions named in `Revocation` (the kinds of
subjects are disjoint, every key has a user as its owner, and so on):

- `TypeCorrect`: `Spec => []TypeOK`;
- `RevocationIsNeverLost`: `Spec => []RevokedIsPending`;
- `GrantsOutrunRevocations`: `Spec => []GrantOutrunsRevocations`;
- `RevocationRefinesTunnelAccess`: `Spec => ImplementsTunnelAccess`.

None of the properties is inductive. `IInv` adds
  `Bounded` (no grant, event, barrier or request has a generation above the
  current one),
  `InForceOutruns` (what may be granted now is newer than every barrier and
  event on its subjects, the strengthening of `GrantOutrunsRevocations` to
  keys that are about to be allowed),
  `SystemHostUnowned`,
  `LockHeld` (only the bind that holds the lock is between the call and the
  registry, so the handler's selection and a registration exclude each other) and
  `WorkerCovers` (a tunnel covered by the event the worker is at is among the
  cleanups left, or is not registered yet and will be refused).
The step for `RevokedIsPending` then splits on the actions: a mutation queues
the event for what it withdraws; `ApplyTunnelConnect` compares generations
within the transaction; `CompleteOutbox` needs `WorkerCovers`. The refinement
reuses `IInv` step by step: every mutation maps to `ChangePolicy`,
`ApplyTunnelConnect` (the commit admits the tunnel) to `Start`, an
unregistration or a failed registration to `End`, a restart of
sish to `End` of everything, all the rest to stuttering.

`LifecycleProofs` proves, for any number of tunnels, numbers and restarts:
`TypeCorrect`, `NoStaleRowsWhenAvailable` (`StaleMeansUnavailable`, with
`RowsBelow`: no row that is shown has a number above the last one applied, so
that a snapshot reaches all of them), `WithdrawnNotActive`
(`WithdrawnIsNotActive`, with the same `RowsBelow`: the snapshot closes what
AddKey's rollback left, and only therefore ends the exception), `SnapshotAlwaysRepairs` (`NextSnapshotRepairs`) and
`WhatEndedStaysEnded` (`EndedStaysEnded`). `NextSnapshotRepairs` needs
`SourceInv`, which puts sources in the order of their starts (what is retired is
older than the source in use, that one not newer than a fetched snapshot, and
numbers of the running source do not exceed `sequence`), and `LifeInv`: nothing
is known of a tunnel before its bind, and what is known of one that lives comes
from the sish that runs. `EndedStaysEnded` needs `EndedInv`, which follows each
tunnel through its life: nothing is known of it before its connect event is
applied (`Unheard`), then its row exists and that was its only event (`Heard`),
and once it has sent its disconnect event no row is shown that is newer than
this event, and after the event is applied no snapshot that can still be
accepted reaches back behind it (`Over`, `Settled`).

`KeyFilesProofs` proves `TypeCorrect`, `WithdrawnFilesPending`
(`WithdrawnFileIsPending`) and `SettledFilesExact`, for any number of calls and
failures. `CallInv` says what `keyMu` preserves between the steps of a call;
`OutboxInv` that the event a call is going to queue is a new one; `FileInv`
strengthens the property by not counting the event whose work the worker has
done, so that completing it takes no cover away. `SettledFilesExact` states
`SettledFilesAreExact` for as long as nothing has failed, whatever `MaxFailures`
is, where the run sets it to 0. Its invariant `ExactInv` is about order: no call
is on its way back (`ForwardInv`), the worker is at the oldest event and none
was tried before (`TurnInv`), an event that would make a file wrong has a later
one behind it that corrects it (`LaterInv`), and a file is wrong only while such
an event or the transaction of a call is to come (`CorrectInv`).

`WebSessionsProofs` proves `TypeCorrect`, `SuspendedSignedOut`
(`SuspendedHasNoSession`), `NothingGained` (`SuspendedGainsNothing`),
`StateUsedOnce` (`StateLogsInOnce`) and `PagesActForTheirUser`
(`ActsAsThePageShowed`). `StateUsedOnce` needs `SpentInv`: a state is in the
table, or carried by exactly one callback that has consumed it, or the origin of
exactly one session. `PagesActForTheirUser` needs `PageInv`: a session belongs
to the user it was made for, and so does a request that has passed `csrf`, by
the session of its page.

`ReservationsProofs` proves `TypeCorrect`, `SystemLabelsNeverOwned`
(`SystemLabelsUnowned`), `ReleasesAreOwn` (`ReleasesOwn`), `NeverOverDNS`
(`NotOverDNS`) and `WhatIsReservedCanBind` (`ReservedCanBind`). `LabelInv` adds that a running process has
the only label of the table and that no call in progress is about to reserve it;
`IdInv` that ids are unique, below the next one, and that a release in progress
remembers a row it may release, if there is one of that id at all. `DnsInv` says
that a check that goes on has not read its name, and that one whose `hit` still
holds does not end without it; `RowInv` that tables and calls hold results of
the conversions only. What those results have in common is in `NamesProofs`, for
inputs of any length: what `ValidName` lets pass, `ValidHost` does (`LabelIs`), and
a name that `NormalizeSubdomain` returns survives all of `canonicalHost`'s
trimming (`SpellingsMeanTheName`).

`LimitersProofs` proves `LimitersTyped`, `TableStaysBounded`, `RatesHold`,
`ConnectionsAreCounted` and `BlocksStand`, for any rates, sizes, clients and
times. Rates need, for each entry (`KeyInv`, `SishKeyInv`), that what was
granted and what is left of the tokens are together no more than the bucket and
the refill up to the time written in the entry. In sish that time may go back,
and the tokens with it, so what was granted is bounded there by the clock as
well. Blocks need the entry to be blocked for as long as `until` says and, in
sish, to stay out of the sweep's reach until then. `CountInv` ties an entry's
number of connections to the set of open ones, and `ConnInv` says that a
connection that is open has its entry.

`TelemetryProofs` proves `TelemetryTyped` (`TypeOK`), `EventsCountedOnce`
(`CountedOnce`) and `NothingIsForgotten` (`NothingForgotten`), for any kinds of
events, limits and times. `TInv` adds to `NothingForgotten` that an id is in the
table at most once (`Table`), that statistics which have not expired are covered
by the batches which the table still has for their time (`Remembered`), and that
all statistics together are covered by the batches that ever arrived (`Covered`).
`Remembered` is why a forgotten id may come again: `AddSecurityTelemetryBatch`
removes what has expired in the same transaction, so that afterwards the times
partition the table and `Covered` can be derived anew (`Clean`); between
additions it only shrinks. The bounds in `TypeOK` are a consequence.

Induction over data is done with sets instead of predicates: the library's
`WFMin` gives a minimal element of the numbers, or of the sizes of subsets, at
which a claim fails (`NumbersFromZero`, `FiniteFromEmpty`, `LeastNumber`). With
it `TelemetryProofs` shows of the fold behind `Total` that it exists, that the
order in which it takes its elements does not matter (`IterAny`), and the usual
laws of sums (`SumAdd`, `SumUnion`, `SumPartition` and others).

Every safety property that a passing run checks is thus also a theorem. Only
model-checked are the liveness properties (`RevokedTunnelsEnd`, `ViewConverges`,
`FilesConverge`, `BatchesArrive`, `CountersDrain`), since the prover has no
ENABLED, and the three violations.

The theorems rest on the named assumptions of the modules. Most of them give
numbers their types and keep `None` apart from values; those that say something
about the system are the ones of `Revocation` (above), `DomainAssumption`, that
the limiters' capacities are positive, and that there are finitely many kinds of
telemetry events.

## 5. Hazards and what is left

`PROJECT.json` lists the hazards, each at its line, with the properties that
would catch it or the reason why there is none.

Not modelled:

- the console's rendering, paging and DTOs (`web/server.go` apart from sign-in
  and actions, `web/api_dto.go`, the paged lists of `store/store.go`), the audit
  log, and the frontend: they read, or append what nobody reads back;
- `config.Load`, of which `DomainAssumption` takes over that there is a domain,
  the migrations except the tables they leave, scripts, certificates and
  containers: they run once, before the rest;
- the audit mode of sish, which admits everything; SSH itself and the forwarding
  of traffic, whose code is not in the repository;
- `ValidatePublicKey`, `cleanName` and the parsing in `ParseTCPPort`, which only
  refuse inputs and change no state;
- the connect and disconnect calls of sish are not repeated by the code, so
  duplicates come from the transport only (`Lifecycle`).

Possible next steps: the composition of `KeyFiles` with `Revocation`, so that a
bind needs a file as well as a row; abstract specifications of the view
(`Lifecycle`) and of the statistics (`Telemetry`), with refinement proofs like
that of `TunnelAccess`.

## 6. Where code and text disagree

Shown by a run:

- `hosts`: a released name that is reserved again by its owner is refused by its
  old barrier once the release was delivered, until any other mutation advances
  the generation. `InsertSubdomainAtomic` takes no generation;
  `InsertTCPPortAtomic` does.
- `settled`: the `pubkey.write` event of a new key fails once and waits; its user
  is suspended, the files are removed, the status is committed and the
  reconciliation runs; then the event is retried and writes the file again, since
  the worker looks at neither `enabled` nor the user's status (`outbox.go:91`).
  The comment at `service.go:345` says that sish no longer has the user's files.
  `AuthorizeBind` still refuses the bind.
- `admins`: a suspension looks at the role before it removes the key files and
  at the status only when it commits. An account that became an administrator by
  a login in between is suspended, although the message at `service.go:336` says
  that administrators are not.

Built into the models, without a run of their own:

- AddKey takes a key back without an event or a generation (`service.go:171`),
  although a client may have bound with it between the file and the rollback.
  The tunnel may go on, and its row stays active: `active_tunnels.ssh_key_id` has
  no foreign key, so the console shows it under the key name `[revoked]`
  (`hardening.go:656`) until a snapshot is applied, which closes the row though
  not the tunnel. `RevokedIsPending` and `WithdrawnIsNotActive` except what was
  so withdrawn (`unannounced` in `Revocation` and in `Lifecycle`).
- A snapshot that still lists a withdrawn tunnel turns *disconnecting* into
  *disconnected* while the tunnel runs (`hardening.go:578`), though the row's
  status reads as if the end were confirmed.
- `server.go:346` says that starting a login invalidates any earlier attempt; a
  callback that has already consumed its state goes on and signs in.

------------------------------ MODULE Telemetry ------------------------------
(***************************************************************************)
(* What sish counts (refused binds, connections and requests) on its way   *)
(* into the console's statistics.                                          *)
(*                                                                         *)
(* Once a minute telemetryLoop takes the counters, as a batch with an id   *)
(* of its own, and sends it again and again until the control plane has    *)
(* accepted it; meanwhile the counters go on. A request whose answer is    *)
(* late or lost may have been carried out, or may be carried out later.    *)
(* The control plane forgets batches and statistics after 90 days.         *)
(***************************************************************************)
EXTENDS Naturals, Sequences, FiniteSets, Functions

CONSTANTS
  Kinds,      \* kinds of events
  MaxCount,   \* 1,000,000: the largest number a batch may have
  Retention,  \* 90 days
  MaxEvents,  \* bound: events that happen
  MaxTime     \* bound on the clock

ASSUME ConstantsAssumption ==
  /\ IsFiniteSet(Kinds)
  /\ {MaxCount, Retention, MaxEvents, MaxTime} \subseteq Nat

VARIABLES
  now,
  counters,   \* securityCounters.values of sish
  drawn,      \* the batches made so far; the id of a batch is its position
  pending,    \* telemetryLoop's pending batch, 0 if there is none
  call,       \* its request: none, sent, accepted, refused
  late,       \* batches in requests that sish has given up
  batches,    \* the table telemetry_batches
  metrics,    \* the table security_telemetry
  happened,   \* history: events by kind
  lost,       \* history: counts that a restart of sish discarded
  orphans,    \* history: batches that were pending at such a restart
  arrived     \* history: batches that were added to the statistics

sish    == <<counters, drawn, pending, call>>
store   == <<batches, metrics>>
history == <<happened, lost, orphans, arrived>>
vars    == <<now, sish, late, store, history>>

Total(f) == FoldFunction(LAMBDA x, y : x + y, 0, f)
Ids      == DOMAIN drawn
Zero     == [k \in Kinds |-> 0]
Counts   == [Kinds -> 0..MaxEvents]

TypeOK ==
  /\ now \in 0..MaxTime
  /\ counters \in Counts
  /\ drawn \in Seq(Counts)
  /\ pending \in Ids \cup {0}
  /\ call \in {"none", "sent", "accepted", "refused"}
  /\ call # "none" => pending # 0
  /\ late \in SUBSET Ids
  /\ batches \in SUBSET [id : Ids, received : 0..now]
  /\ metrics \in [0..MaxTime -> Counts]
  /\ happened \in Counts /\ lost \in Counts
  /\ orphans \in SUBSET Ids /\ arrived \in SUBSET Ids

Init ==
  /\ now = 0
  /\ counters = Zero
  /\ drawn = <<>>
  /\ pending = 0
  /\ call = "none"
  /\ late = {}
  /\ batches = {}
  /\ metrics = [t \in 0..MaxTime |-> Zero]
  /\ happened = Zero /\ lost = Zero
  /\ orphans = {} /\ arrived = {}

-----------------------------------------------------------------------------
(* sish                                                                    *)

countSecurity(k) ==
  /\ Total(happened) < MaxEvents
  /\ counters' = [counters EXCEPT ![k] = @ + 1]
  /\ happened' = [happened EXCEPT ![k] = @ + 1]
  /\ UNCHANGED <<now, drawn, pending, call, late, store, lost, orphans, arrived>>

\* Under the lock of the counters: what they hold becomes a batch.
TakeCounters ==
  /\ counters # Zero
  /\ drawn' = Append(drawn, counters)
  /\ pending' = Len(drawn) + 1
  /\ counters' = Zero

\* Mutant: without counts a request is sent all the same.
telemetryLoopEmpty ==
  /\ call = "none"
  /\ \/ pending = 0 /\ TakeCounters
     \/ UNCHANGED <<counters, drawn, pending>>
  /\ call' = "sent"
  /\ UNCHANGED <<now, late, store, history>>

\* A tick of the loop. The pending batch goes before the counters.
telemetryLoop ==
  /\ call = "none"
  /\ \/ pending = 0 /\ TakeCounters
     \/ pending # 0 /\ UNCHANGED <<counters, drawn, pending>>
  /\ call' = "sent"
  /\ UNCHANGED <<now, late, store, history>>

\* Mutant: whatever the answer is, the batch counts as sent.
ForgetPending ==
  /\ call \in {"accepted", "refused"}
  /\ pending' = 0
  /\ call' = "none"
  /\ UNCHANGED <<now, counters, drawn, late, store, history>>

\* Mutant: the batch stays after it was accepted.
KeepPending ==
  /\ call \in {"accepted", "refused"}
  /\ call' = "none"
  /\ UNCHANGED <<now, counters, drawn, pending, late, store, history>>

\* The answer arrives within two seconds.
cpRequest ==
  /\ call \in {"accepted", "refused"}
  /\ pending' = IF call = "accepted" THEN 0 ELSE pending
  /\ call' = "none"
  /\ UNCHANGED <<now, counters, drawn, late, store, history>>

\* It does not: the request is lost, or its answer is, or it is carried out later.
Timeout ==
  /\ call # "none"
  /\ call' = "none"
  /\ late' \in {late, late \cup (IF call = "sent" THEN {pending} ELSE {})}
  /\ UNCHANGED <<now, counters, drawn, pending, store, history>>

RestartSish ==
  /\ lost' = [k \in Kinds |-> lost[k] + counters[k]]
  /\ counters' = Zero
  /\ orphans' = orphans \cup ({pending} \ {0})
  /\ pending' = 0
  /\ call' = "none"
  /\ late' \in {late, late \cup (IF call = "sent" THEN {pending} ELSE {})}
  /\ UNCHANGED <<now, drawn, store, happened, arrived>>

-----------------------------------------------------------------------------
(* The control plane                                                       *)

Expired(t) == t + Retention < now

Young(ms)      == [t \in DOMAIN ms |-> IF Expired(t) THEN Zero ELSE ms[t]]
YoungBatches   == {r \in batches : ~Expired(r.received)}

\* Mutant: the limit itself is refused.
AcceptableBelow(id) == \A k \in Kinds : drawn[id][k] < MaxCount

Acceptable(id) == \A k \in Kinds : drawn[id][k] <= MaxCount

Add(id) == [metrics EXCEPT ![now] = [k \in Kinds |-> @[k] + drawn[id][k]]]

\* Mutant: the id is recorded but not looked at.
AddRepeatedly(id) ==
  /\ batches' = YoungBatches \cup {[id |-> id, received |-> now]}
  /\ metrics' = Young(Add(id))
  /\ arrived' = arrived \cup {id}

\* Mutant: statistics are left to the daily cleanup.
AddBesideExpired(id) ==
  IF \E r \in batches : r.id = id
    THEN UNCHANGED <<batches, metrics, arrived>>
    ELSE /\ batches' = YoungBatches \cup {[id |-> id, received |-> now]}
         /\ metrics' = Add(id)
         /\ arrived' = arrived \cup {id}

\* One transaction: the id, what has expired, the counts.
AddSecurityTelemetryBatch(id) ==
  IF \E r \in batches : r.id = id
    THEN UNCHANGED <<batches, metrics, arrived>>
    ELSE /\ batches' = YoungBatches \cup {[id |-> id, received |-> now]}
         /\ metrics' = Young(Add(id))
         /\ arrived' = arrived \cup {id}

\* The handler: the checks, the transaction. The database may be unavailable.
telemetry ==
  /\ call = "sent"
  /\ \/ /\ Acceptable(pending)
        /\ AddSecurityTelemetryBatch(pending)
        /\ call' = "accepted"
     \/ call' = "refused" /\ UNCHANGED <<batches, metrics, arrived>>
  /\ UNCHANGED <<now, counters, drawn, pending, late, happened, lost, orphans>>

\* Several requests with one batch may be late.
TelemetryLate(id) ==
  /\ id \in late
  /\ Acceptable(id)
  /\ AddSecurityTelemetryBatch(id)
  /\ late' \in {late, late \ {id}}
  /\ UNCHANGED <<now, sish, happened, lost, orphans>>

\* At a start and once a day; each of the two statements may fail.
CleanupSecurityTelemetry ==
  /\ metrics' \in {metrics, Young(metrics)}
  /\ batches' \in {batches, YoungBatches}

DailyCleanup ==
  /\ CleanupSecurityTelemetry
  /\ UNCHANGED <<now, sish, late, history>>

RestartControlPlane ==
  /\ CleanupSecurityTelemetry
  /\ late' = {}
  /\ call' = "none"
  /\ UNCHANGED <<now, counters, drawn, pending, history>>

Tick ==
  /\ now < MaxTime
  /\ now' = now + 1
  /\ UNCHANGED <<sish, late, store, history>>

Next ==
  \/ \E k \in Kinds : countSecurity(k)
  \/ telemetryLoop \/ cpRequest \/ Timeout \/ RestartSish
  \/ telemetry \/ \E id \in late : TelemetryLate(id)
  \/ DailyCleanup \/ RestartControlPlane
  \/ Tick

Spec == Init /\ [][Next]_vars

\* The loop never ends, a request ends after two seconds, and not every attempt
\* or its answer fails. Nothing is assumed of what happens, of restarts and of late
\* requests.
Fairness ==
  /\ WF_vars(telemetryLoop)
  /\ WF_vars(cpRequest \/ Timeout)
  /\ SF_vars(telemetry /\ call' = "accepted")
  /\ SF_vars(call = "accepted" /\ cpRequest)

FairSpec == Spec /\ Fairness

-----------------------------------------------------------------------------
(* Properties                                                              *)

\* The sum over set S of batches.
InBatches(S, k) == Total([id \in S |-> drawn[id][k]])

\* Nothing is counted twice: the statistics, the batches that are not in them
\* and the counters are no more than what happened, however often a batch is
\* sent. A batch whose id has been forgotten is added again, after its first
\* counts have gone (hardening.go:746-767).
CountedOnce ==
  \A k \in Kinds :
    counters[k] + InBatches(Ids \ arrived, k) + Total([t \in 0..MaxTime |-> metrics[t][k]])
      <= happened[k]

\* Nothing is forgotten but what a restart of sish discards: every event is in
\* the counters or a batch, and every batch has been added or is pending
\* (telemetryLoop).
NothingForgotten ==
  /\ \A k \in Kinds : happened[k] = counters[k] + lost[k] + InBatches(Ids, k)
  /\ Ids \subseteq arrived \cup orphans \cup {pending}

\* A batch that the control plane can accept gets there, unless sish stops
\* (telemetryLoop's retries, internal.go:186-193).
BatchesArrive ==
  \A id \in 1..MaxEvents :
    (pending = id /\ \A k \in Kinds : drawn[id][k] <= MaxCount)
      ~> (id \in arrived \cup orphans)

\* The counters are taken in the end; only a batch that can never be accepted
\* stops them (internal.go:188).
Stuck == pending # 0 /\ \E k \in Kinds : drawn[pending][k] > MaxCount

CountersDrain ==
  \A k \in Kinds : counters[k] > 0 ~> (counters[k] = 0 \/ Stuck)
=============================================================================

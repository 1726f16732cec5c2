----------------------------- MODULE RateLimiter -----------------------------
(***************************************************************************)
(* The rate limiter of the web server: a token bucket for each client in   *)
(* a table of bounded size, and a block after repeated strikes.            *)
(*                                                                         *)
(* A request reads the clock before it gets the mutex, so that requests    *)
(* reach the table with times that are out of order.                       *)
(***************************************************************************)
EXTENDS Integers, FiniteSets

CONSTANTS
  Keys,        \* source addresses
  Requests,    \* requests in progress at a time
  Capacity,    \* tokens of a full bucket
  Refill,      \* tokens per unit of time
  Block,       \* duration of a block
  Idle,        \* ten minutes
  Strikes,     \* strikes that make a block: five
  MaxEntries,
  MaxTime,     \* bound on the clock
  None

ASSUME RateLimiterAssumption ==
  /\ {Refill, Block, Idle, MaxTime} \subseteq Nat
  /\ {Capacity, Strikes, MaxEntries} \subseteq Nat \ {0}
  /\ None \notin [tokens : Int, updated : Int, blockedUntil : Int, strikes : Int]

VARIABLES
  clock,
  entries,     \* rateLimiter.entries
  request,     \* the key and the time of each request before the mutex
  until,       \* history: the end of the client's block, 0 if a full table lost it
  created,     \* history: when the client's entry was made
  granted      \* history: what the entry has admitted

history == <<until, created, granted>>
vars    == <<clock, entries, request, history>>

Entry   == [tokens : 0..Capacity, updated : Nat, blockedUntil : Nat, strikes : 0..(Strikes - 1)]
Table   == {k \in Keys : entries[k] # None}
NoCall  == [key |-> None, at |-> 0]

TypeOK ==
  /\ clock \in Nat
  /\ entries \in [Keys -> Entry \cup {None}]
  /\ request \in [Requests -> [key : Keys \cup {None}, at : Nat]]
  /\ \A r \in Requests : request[r].at <= clock
  /\ until \in [Keys -> Nat] /\ created \in [Keys -> Nat] /\ granted \in [Keys -> Nat]

Init ==
  /\ clock = 0
  /\ entries = [k \in Keys |-> None]
  /\ request = [r \in Requests |-> NoCall]
  /\ until = [k \in Keys |-> 0] /\ created = [k \in Keys |-> 0] /\ granted = [k \in Keys |-> 0]

Tick ==
  /\ clock < MaxTime
  /\ clock' = clock + 1
  /\ UNCHANGED <<entries, request, history>>

\* rateLimit: time.Now() is an argument of the call.
Arrive(r, k) ==
  /\ request[r].key = None
  /\ request' = [request EXCEPT ![r] = [key |-> k, at |-> clock]]
  /\ UNCHANGED <<clock, entries, history>>

\* Mutant: blocked entries go with the idle ones.
SweptWhileBlocked(at) == {k \in Table : at - entries[k].updated > Idle}

\* The first loop of evict.
Swept(at) ==
  {k \in Table : at - entries[k].updated > Idle /\ at >= entries[k].blockedUntil}

\* Mutant: the table may have one entry more.
NoRoomLate(S) == Cardinality(S) > MaxEntries

NoRoom(S) == Cardinality(S) >= MaxEntries

\* The entries that are left once there is room for another: the idle ones go,
\* then any, since the order of a map is random.
Evicted(at) ==
  IF ~NoRoom(Table) THEN {Table}
  ELSE LET rest == Table \ Swept(at)
       IN IF ~NoRoom(rest) THEN {rest} ELSE {rest \ {k} : k \in rest}

Fresh(at) == [tokens |-> Capacity, updated |-> at, blockedUntil |-> 0, strikes |-> 0]

Least(a, b) == IF a < b THEN a ELSE b

\* Mutant: the time of the last refill stays.
RefilledAgain(e, at) ==
  IF at > e.updated
    THEN [e EXCEPT !.tokens = Least(Capacity, @ + (at - e.updated) * Refill)]
    ELSE e

Refilled(e, at) ==
  IF at > e.updated
    THEN [e EXCEPT !.tokens = Least(Capacity, @ + (at - e.updated) * Refill), !.updated = at]
    ELSE e

\* Mutant: a strike too many.
StruckAbove(e, at) ==
  IF e.strikes + 1 > Strikes
    THEN [e EXCEPT !.blockedUntil = at + Block, !.strikes = 0]
    ELSE [e EXCEPT !.strikes = @ + 1]

Struck(e, at) ==
  IF e.strikes + 1 >= Strikes
    THEN [e EXCEPT !.blockedUntil = at + Block, !.strikes = 0]
    ELSE [e EXCEPT !.strikes = @ + 1]

Taken(e) == [e EXCEPT !.tokens = @ - 1, !.strikes = IF @ > 0 THEN @ - 1 ELSE 0]

\* What allow makes of the client's entry e; whether it admits is Admits.
After(e, at) ==
  IF at < e.blockedUntil THEN e
  ELSE IF Refilled(e, at).tokens >= 1 THEN Taken(Refilled(e, at))
  ELSE Struck(Refilled(e, at), at)

Admits(e, at) == at >= e.blockedUntil /\ Refilled(e, at).tokens >= 1

\* allow, under the mutex.
allow(r) ==
  LET k   == request[r].key
      at  == request[r].at
      old == IF entries[k] = None THEN Fresh(at) ELSE entries[k]
      new == After(old, at)
  IN /\ k # None
     /\ \E left \in (IF entries[k] = None THEN Evicted(at) ELSE {Table}) :
          /\ entries' = [j \in Keys |-> IF j = k THEN new
                                        ELSE IF j \in left THEN entries[j] ELSE None]
          /\ until' = [j \in Keys |->
               IF j = k /\ new.blockedUntil # old.blockedUntil THEN new.blockedUntil
               ELSE IF j \in Table \ (left \cup Swept(at)) THEN 0
               ELSE until[j]]
          /\ granted' = [j \in Keys |->
               IF j = k THEN granted[k] + (IF Admits(old, at) THEN 1 ELSE 0)
               ELSE IF j \in left THEN granted[j] ELSE 0]
     /\ created' = [created EXCEPT ![k] = IF entries[k] = None THEN at ELSE @]
     /\ request' = [request EXCEPT ![r] = NoCall]
     /\ UNCHANGED clock

Next ==
  \/ Tick
  \/ \E r \in Requests : allow(r) \/ \E k \in Keys : Arrive(r, k)

Spec == Init /\ [][Next]_vars

-----------------------------------------------------------------------------
(* Properties                                                              *)

\* The table is never larger than it may be, whatever comes in (evict).
TableBounded == Cardinality(Table) <= MaxEntries

\* As long as its entry is kept a client gets no more than a full bucket and
\* what was refilled since, although its requests come out of order (allow).
RateHolds ==
  \A k \in Table : granted[k] <= Capacity + Refill * (clock - created[k])

\* A block stands until it ends, unless the client was evicted from a full
\* table: neither a request with an older time nor the removal of idle entries
\* lets the client in before (ratelimit.go:54).
BlockStands ==
  [][\A k \in Keys : granted'[k] > granted[k] => clock >= until[k]]_vars
=============================================================================

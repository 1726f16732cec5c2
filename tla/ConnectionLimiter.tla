-------------------------- MODULE ConnectionLimiter --------------------------
(***************************************************************************)
(* The limiter of sish's public listeners and of requests to tunnels: one  *)
(* table of entries for both. Connections are counted while they are open; *)
(* requests only take tokens.                                              *)
(*                                                                         *)
(* A listener accepts one connection after the other. Requests run         *)
(* concurrently and read the clock before they get the lock.               *)
(***************************************************************************)
EXTENDS Integers, FiniteSets

CONSTANTS
  ConnKeys,      \* listeners and source addresses of connections
  RequestKeys,   \* source addresses and hosts of requests
  Conns,         \* connections that exist at a time
  Requests,      \* requests in progress at a time
  Burst, Rate,                 \* abuse-accept-burst, abuse-accept-rate
  RequestBurst, RequestRate,   \* abuse-request-burst, abuse-request-rate
  MaxConn,       \* abuse-http-max-connections and its like
  Violations, RequestViolations,   \* five, ten
  Block,         \* abuse-temporary-block
  Idle,          \* ten minutes
  MaxTable,      \* 10,000 entries
  MaxTime,       \* bound on the clock
  None

Entities == ConnKeys \cup RequestKeys

ConnectionLimiterAssumption ==
  /\ ConnKeys \cap RequestKeys = {} /\ None \notin Entities
  /\ {Burst, Rate, RequestBurst, RequestRate, MaxConn, Violations, RequestViolations, MaxTable}
       \subseteq Nat \ {0}
  /\ {Block, Idle, MaxTime} \subseteq Nat
  /\ None \notin [tokens : Int, updated : Nat, blocked : Nat, connections : Nat, violations : Nat]

VARIABLES
  clock,
  entries,   \* abuseState.m
  conn,      \* the accepted connections: free, open or closed
  request,   \* the key and the time of each request before the lock
  until,     \* history: the end of the key's last block
  created,   \* history: when the key's entry was made
  granted    \* history: what the entry has admitted

history == <<until, created, granted>>
vars    == <<clock, entries, conn, request, history>>

Entry == [tokens : Int, updated : Nat, blocked : Nat, connections : Nat, violations : Nat]
Table == {k \in Entities : entries[k] # None}

\* own tells whether the entry that the connection counts in is still the
\* table's.
Conn   == [state : {"free", "open", "closed"}, key : ConnKeys \cup {None}, own : BOOLEAN]
NoConn == [state |-> "free", key |-> None, own |-> FALSE]
NoCall == [key |-> None, at |-> 0]

TypeOK ==
  /\ clock \in Nat
  /\ entries \in [Entities -> Entry \cup {None}]
  /\ conn \in [Conns -> Conn]
  /\ \A c \in Conns : conn[c].state # "free" => conn[c].key \in ConnKeys
  /\ request \in [Requests -> [key : RequestKeys \cup {None}, at : Nat]]
  /\ until \in [Entities -> Nat] /\ created \in [Entities -> Nat] /\ granted \in [Entities -> Nat]

Init ==
  /\ clock = 0
  /\ entries = [k \in Entities |-> None]
  /\ conn = [c \in Conns |-> NoConn]
  /\ request = [r \in Requests |-> NoCall]
  /\ until = [k \in Entities |-> 0] /\ created = [k \in Entities |-> 0] /\ granted = [k \in Entities |-> 0]

Tick ==
  /\ clock < MaxTime
  /\ clock' = clock + 1
  /\ UNCHANGED <<entries, conn, request, history>>

-----------------------------------------------------------------------------
(* Entries                                                                 *)

Least(a, b) == IF a < b THEN a ELSE b

Fresh(burst, at) == [tokens |-> burst, updated |-> at, blocked |-> 0,
                     connections |-> 0, violations |-> 0]

\* A time before the last one takes tokens away, and gives them back later.
Refilled(e, burst, rate, at) ==
  [e EXCEPT !.tokens = Least(burst, @ + (at - e.updated) * rate), !.updated = at]

Violated(e, limit, at) ==
  IF e.violations + 1 >= limit THEN [e EXCEPT !.blocked = at + Block, !.violations = 0]
                               ELSE [e EXCEPT !.violations = @ + 1]

\* The entry of key k becomes new; admits tells whether it let something pass.
\* A sweep of idle entries ends a block that is longer than Idle.
Put(k, new, swept, at, admits) ==
  LET fresh == entries[k] = None
  IN /\ entries' = [j \in Entities |-> IF j = k THEN new ELSE IF j \in swept THEN None ELSE entries[j]]
     /\ until' = [until EXCEPT ![k] =
          IF new.blocked = at + Block /\ (fresh \/ new.blocked # entries[k].blocked)
            THEN at + Least(Block, Idle) ELSE @]
     /\ created' = [created EXCEPT ![k] = IF fresh THEN at ELSE @]
     /\ granted' = [j \in Entities |->
          IF j = k THEN granted[k] + (IF admits THEN 1 ELSE 0)
          ELSE IF j \in swept THEN 0 ELSE granted[j]]

-----------------------------------------------------------------------------
(* Connections                                                             *)

\* Mutant: entries whose connections are open are idle, too.
SweptWithConnections == {k \in Table : clock - entries[k].updated > Idle}

\* What a full table loses to make room for a new connection entry.
Swept == {k \in Table : clock - entries[k].updated > Idle /\ entries[k].connections = 0}

\* allowConnection for connection c of key k, up to the entry: what is swept.
Full        == Cardinality(Table) >= MaxTable
SweptFor(k) == IF entries[k] = None /\ Full THEN Swept ELSE {}
Refused(k)  == entries[k] = None /\ Cardinality(Table \ SweptFor(k)) >= MaxTable

Disown(cs, swept) ==
  [c \in Conns |-> [cs[c] EXCEPT !.own = @ /\ cs[c].key \notin swept]]

\* Mutant: the limit of open connections is not looked at.
LimitedByTokens(e) == e.tokens < 1

Limited(e) == e.tokens < 1 \/ e.connections >= MaxConn

\* No room for an entry: the connection is refused, the idle entries are gone.
AcceptRefused(k) ==
  /\ Refused(k)
  /\ entries' = [j \in Entities |-> IF j \in SweptFor(k) THEN None ELSE entries[j]]
  /\ conn' = Disown(conn, SweptFor(k))
  /\ granted' = [j \in Entities |-> IF j \in SweptFor(k) THEN 0 ELSE granted[j]]
  /\ UNCHANGED <<clock, request, until, created>>

allowConnection(c, k) ==
  LET old == IF entries[k] = None THEN Fresh(Burst, clock) ELSE entries[k]
      e   == Refilled(old, Burst, Rate, clock)
      new == [e EXCEPT !.tokens = @ - 1, !.violations = 0, !.connections = @ + 1]
      cs  == Disown(conn, SweptFor(k))
  IN /\ conn[c].state = "free"
     /\ ~Refused(k)
     /\ \/ /\ clock < old.blocked
           /\ Put(k, old, SweptFor(k), clock, FALSE)
           /\ conn' = cs
        \/ /\ clock >= old.blocked /\ Limited(e)
           /\ Put(k, Violated(e, Violations, clock), SweptFor(k), clock, FALSE)
           /\ conn' = cs
        \/ /\ clock >= old.blocked /\ ~Limited(e)
           /\ Put(k, new, SweptFor(k), clock, TRUE)
           /\ conn' = [cs EXCEPT ![c] = [state |-> "open", key |-> k, own |-> TRUE]]
     /\ UNCHANGED <<clock, request>>

\* Mutant: every Close releases.
ReleaseAgain(c) == conn[c].state \in {"open", "closed"}

\* once: the first Close releases.
Releases(c) == conn[c].state = "open"

\* A connection is closed by whoever has to do with it, often more than once.
Close(c) ==
  /\ conn[c].state \in {"open", "closed"}
  /\ entries' = IF Releases(c) /\ conn[c].own /\ entries[conn[c].key].connections > 0
                  THEN [entries EXCEPT ![conn[c].key].connections = @ - 1]
                  ELSE entries
  /\ conn' = [conn EXCEPT ![c].state = "closed"]
  /\ UNCHANGED <<clock, request, history>>

\* Nobody refers to the closed connection any more.
Forget(c) ==
  /\ conn[c].state = "closed"
  /\ conn' = [conn EXCEPT ![c] = NoConn]
  /\ UNCHANGED <<clock, entries, request, history>>

-----------------------------------------------------------------------------
(* Requests                                                                *)

Arrive(r, k) ==
  /\ request[r].key = None
  /\ request' = [request EXCEPT ![r] = [key |-> k, at |-> clock]]
  /\ UNCHANGED <<clock, entries, conn, history>>

\* Mutant: a blocked request is refused by its bucket only.
BlockedByTokens(e, at) == FALSE

Blocked(e, at) == at < e.blocked

\* AbuseAllow makes an entry without looking at the size of the table.
AbuseAllow(r) ==
  LET k   == request[r].key
      at  == request[r].at
      old == IF entries[k] = None THEN Fresh(RequestBurst, at) ELSE entries[k]
      e   == Refilled(old, RequestBurst, RequestRate, at)
  IN /\ k # None
     /\ \/ Blocked(old, at) /\ Put(k, old, {}, at, FALSE)
        \/ /\ ~Blocked(old, at) /\ e.tokens < 1
           /\ Put(k, Violated(e, RequestViolations, at), {}, at, FALSE)
        \/ /\ ~Blocked(old, at) /\ e.tokens >= 1
           /\ Put(k, [e EXCEPT !.tokens = @ - 1, !.violations = 0], {}, at, TRUE)
     /\ request' = [request EXCEPT ![r] = NoCall]
     /\ UNCHANGED <<clock, conn>>

Next ==
  \/ Tick
  \/ \E k \in ConnKeys : AcceptRefused(k) \/ \E c \in Conns : allowConnection(c, k)
  \/ \E c \in Conns : Close(c) \/ Forget(c)
  \/ \E r \in Requests : AbuseAllow(r) \/ \E k \in RequestKeys : Arrive(r, k)

Spec == Init /\ [][Next]_vars

-----------------------------------------------------------------------------
(* Properties                                                              *)

Open(k) == {c \in Conns : conn[c].state = "open" /\ conn[c].key = k}

\* The table counts exactly the open connections, so that a client gets all of
\* its connections back in the end and never more than its share: a count is
\* not lost with an idle entry, nor given back twice (allowConnection, Close).
ConnectionsCounted ==
  \A k \in ConnKeys :
    /\ Cardinality(Open(k)) = IF entries[k] = None THEN 0 ELSE entries[k].connections
    /\ Cardinality(Open(k)) <= MaxConn

\* As long as its entry is kept a key gets no more than its burst and what was
\* refilled since, although times go back and forth.
RateHolds ==
  \A k \in Table : granted[k] <=
    IF k \in ConnKeys THEN Burst + Rate * (clock - created[k])
                      ELSE RequestBurst + RequestRate * (clock - created[k])

\* A block stands until it ends; only one that is longer than Idle may end
\* before, with the sweep of a full table (patch:692).
BlockStands ==
  [][\A k \in Entities : granted'[k] > granted[k] => clock >= until[k]]_vars
=============================================================================

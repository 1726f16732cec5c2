--------------------------- MODULE LimitersProofs ---------------------------
(***************************************************************************)
(* Proofs about both limiters, for any keys, rates and sizes of the        *)
(* tables, which need not be finite sets to begin with.                    *)
(***************************************************************************)
EXTENDS MCLimiters, FiniteSetTheorems, TLAPS

-----------------------------------------------------------------------------
(* Arithmetic                                                              *)

LEMMA TimesNat == ASSUME NEW r \in Nat, NEW x \in Nat PROVE r * x \in Nat
OBVIOUS

LEMMA TimesSum ==
  ASSUME NEW r \in Int, NEW a \in Int, NEW b \in Int, NEW c \in Int
  PROVE  r * (b - a) + (c - b) * r = r * (c - a)
OBVIOUS

LEMMA TimesMonotonic ==
  ASSUME NEW r \in Nat, NEW x \in Int, NEW y \in Int, x <= y
  PROVE  r * x <= r * y
OBVIOUS

-----------------------------------------------------------------------------
(* The limiter of the web server                                           *)

LEMMA NoneIsNoEntry == None \notin Entry
BY RateLimiterAssumption DEF Entry

\* What allow makes of an entry e at the time at, that has admitted g requests
\* since it was made at the time c.
Within(e, g, c) == e.tokens + g <= Capacity + Refill * (e.updated - c) /\ c <= e.updated

LEMMA RefilledIs ==
  ASSUME NEW e \in Entry, NEW at \in Nat
  PROVE  /\ Refilled(e, at) \in Entry
         /\ Refilled(e, at).blockedUntil = e.blockedUntil
         /\ \A t \in Nat : e.updated <= t /\ at <= t => Refilled(e, at).updated <= t
         /\ \A g \in Nat, c \in Nat : Within(e, g, c) => Within(Refilled(e, at), g, c)
<1> USE RateLimiterAssumption
<1>1. CASE ~(at > e.updated)
  BY <1>1 DEF Refilled
<1>2. CASE at > e.updated
  <2> DEFINE full == e.tokens + (at - e.updated) * Refill
             least == Least(Capacity, full)
             f == [e EXCEPT !.tokens = least, !.updated = at]
  <2>1. e.tokens \in 0..Capacity /\ e.updated \in Nat /\ at - e.updated \in Nat
    BY <1>2 DEF Entry
  <2>2. full \in Nat
    BY <2>1, TimesNat
  <2>3. least \in 0..Capacity /\ least <= full
    <3> HIDE DEF full
    <3> QED
      BY <2>2 DEF Least
  <2>4. Refilled(e, at) = f
    BY <1>2 DEF Refilled
  <2>5. \A g \in Nat, c \in Nat : Within(e, g, c) =>
          least + g <= Capacity + Refill * (at - c) /\ c <= at
    <3> SUFFICES ASSUME NEW g \in Nat, NEW c \in Nat, Within(e, g, c)
                 PROVE  least + g <= Capacity + Refill * (at - c) /\ c <= at
      OBVIOUS
    <3>1. Refill * (e.updated - c) + (at - e.updated) * Refill = Refill * (at - c)
      BY <2>1, TimesSum
    <3> DEFINE a == Refill * (e.updated - c)
               b == (at - e.updated) * Refill
               d == Refill * (at - c)
    <3>2. a \in Int /\ b \in Int /\ d \in Int /\ a + b = d
      BY <2>1, <3>1
    <3>3. e.tokens + g <= Capacity + a /\ least <= e.tokens + b
      BY <2>3 DEF Within
    <3>4. c <= at
      BY <1>2, <2>1 DEF Within
    <3> HIDE DEF a, b, least
    <3>5. least + g <= Capacity + d
      <4> HIDE DEF d
      <4> QED
        BY <2>1, <2>3, <3>2, <3>3
    <3> QED
      BY <3>4, <3>5
  <2> HIDE DEF least
  <2>6. f \in Entry /\ f.tokens = least /\ f.updated = at /\ f.blockedUntil = e.blockedUntil
    BY <2>3 DEF Entry
  <2> QED
    BY <2>4, <2>5, <2>6 DEF Within
<1> QED
  BY <1>1, <1>2

LEMMA AfterIs ==
  ASSUME NEW e \in Entry, NEW at \in Nat
  PROVE  /\ After(e, at) \in Entry
         /\ \A t \in Nat : e.updated <= t /\ at <= t => After(e, at).updated <= t
         /\ \A g \in Nat, c \in Nat : Within(e, g, c) =>
              Within(After(e, at), g + (IF Admits(e, at) THEN 1 ELSE 0), c)
<1> USE RateLimiterAssumption
<1> DEFINE f == Refilled(e, at)
<1>1. CASE at < e.blockedUntil
  <2>1. ~Admits(e, at) /\ After(e, at) = e
    BY <1>1 DEF Admits, After, Entry
  <2> QED
    BY <2>1
<1>0. f \in Entry /\ e.blockedUntil \in Nat
  BY RefilledIs DEF Entry
<1>2. CASE ~(at < e.blockedUntil) /\ f.tokens >= 1
  <2>1. Admits(e, at) /\ After(e, at) = Taken(f)
    BY <1>0, <1>2 DEF Admits, After
  <2> HIDE DEF f
  <2>2. /\ Taken(f) \in Entry /\ Taken(f).tokens = f.tokens - 1 /\ Taken(f).updated = f.updated
    <3> DEFINE t == f.tokens - 1
               n == IF f.strikes > 0 THEN f.strikes - 1 ELSE 0
    <3>1. t \in 0..Capacity /\ n \in 0..(Strikes - 1)
      BY <1>0, <1>2 DEF Entry, f
    <3>2. Taken(f) = [f EXCEPT !.tokens = t, !.strikes = n]
      BY <1>0 DEF Taken
    <3>3. t = f.tokens - 1
      OBVIOUS
    <3> HIDE DEF t, n
    <3> QED
      BY <1>0, <3>1, <3>2, <3>3 DEF Entry
  <2>3. f.tokens \in Int /\ f.updated \in Nat
    BY <1>0 DEF Entry
  <2>4. \A g \in Nat, c \in Nat : Within(f, g, c) => Within(Taken(f), g + 1, c)
    BY <2>2, <2>3 DEF Within
  <2> QED
    BY <2>1, <2>2, <2>4, RefilledIs DEF f
<1>3. CASE ~(at < e.blockedUntil) /\ ~(f.tokens >= 1)
  <2>1. ~Admits(e, at) /\ After(e, at) = Struck(f, at)
    BY <1>0, <1>3 DEF Admits, After
  <2> HIDE DEF f
  <2>2. /\ Struck(f, at) \in Entry /\ Struck(f, at).tokens = f.tokens
        /\ Struck(f, at).updated = f.updated
    <3>1. f.strikes \in 0..(Strikes - 1) /\ at + Block \in Nat /\ 0 \in 0..(Strikes - 1)
      BY <1>0 DEF Entry
    <3>2. CASE f.strikes + 1 >= Strikes
      <4>1. Struck(f, at) = [f EXCEPT !.blockedUntil = at + Block, !.strikes = 0]
        BY <3>2 DEF Struck
      <4> QED
        BY <1>0, <3>1, <4>1 DEF Entry
    <3>3. CASE ~(f.strikes + 1 >= Strikes)
      <4>1. Struck(f, at) = [f EXCEPT !.strikes = f.strikes + 1] /\ f.strikes + 1 \in 0..(Strikes - 1)
        BY <3>1, <3>3 DEF Struck
      <4> QED
        BY <1>0, <4>1 DEF Entry
    <3> QED
      BY <3>2, <3>3
  <2>4. \A g \in Nat, c \in Nat : Within(f, g, c) => Within(Struck(f, at), g + 0, c)
    BY <2>2 DEF Within
  <2> QED
    BY <2>1, <2>2, <2>4, RefilledIs DEF f
<1> QED
  BY <1>1, <1>2, <1>3

\* What is left of a table that must take another entry is small enough.
LEMMA EvictedIs ==
  ASSUME NEW at, NEW left \in Evicted(at), IsFiniteSet(Table), Cardinality(Table) <= MaxEntries
  PROVE  left \subseteq Table /\ IsFiniteSet(left) /\ Cardinality(left) < MaxEntries
<1> DEFINE rest == Table \ Swept(at)
<1>0. MaxEntries \in Nat \ {0} /\ Cardinality(Table) \in Nat
  BY RateLimiterAssumption, FS_CardinalityType
<1>1. CASE ~NoRoom(Table) /\ left = Table
  BY <1>0, <1>1 DEF NoRoom
<1>2. rest \subseteq Table /\ IsFiniteSet(rest) /\ Cardinality(rest) \in Nat
      /\ Cardinality(rest) <= Cardinality(Table)
  BY FS_Subset, FS_CardinalityType
<1>3. CASE ~NoRoom(rest) /\ left = rest
  <2> HIDE DEF rest
  <2> QED
    BY <1>0, <1>2, <1>3 DEF NoRoom
<1>4. ASSUME NEW k \in rest, left = rest \ {k} PROVE left \subseteq Table /\ IsFiniteSet(left) /\ Cardinality(left) < MaxEntries
  <2> HIDE DEF rest
  <2>1. IsFiniteSet(left) /\ Cardinality(left) = Cardinality(rest) - 1
    BY <1>2, <1>4, FS_RemoveElement
  <2> QED
    BY <1>0, <1>2, <1>4, <2>1
<1>5. \/ ~NoRoom(Table) /\ left = Table
      \/ ~NoRoom(rest) /\ left = rest
      \/ \E k \in rest : left = rest \ {k}
  BY DEF Evicted
<1> QED
  BY <1>1, <1>3, <1>4, <1>5

\* An entry has admitted no more than it had tokens, and the client's block is
\* over unless the entry knows of it.
KeyInv(k) ==
  IF entries[k] = None
    THEN granted[k] = 0 /\ until[k] <= clock
    ELSE /\ Within(entries[k], granted[k], created[k]) /\ entries[k].updated <= clock
         /\ until[k] <= clock \/ until[k] <= entries[k].blockedUntil

WebInv ==
  /\ TypeOK
  /\ \A k \in Keys : KeyInv(k)
  /\ IsFiniteSet(Table) /\ Cardinality(Table) <= MaxEntries

LEMMA WebInit == Init => WebInv
<1> SUFFICES ASSUME Init PROVE WebInv
  OBVIOUS
<1>1. TypeOK
  BY DEF Init, TypeOK, NoCall
<1>2. \A k \in Keys : KeyInv(k)
  BY DEF Init, KeyInv
<1>3. Table = {}
  BY DEF Init, Table
<1> QED
  BY <1>1, <1>2, <1>3, FS_EmptySet, RateLimiterAssumption DEF WebInv

LEMMA WebOutside ==
  ASSUME WebInv
  PROVE  /\ Tick => WebInv'
         /\ \A r \in Requests, k \in Keys : Arrive(r, k) => WebInv'
         /\ UNCHANGED vars => WebInv'
<1>1. ASSUME Tick PROVE WebInv'
  <2>1. clock \in Nat /\ clock' = clock + 1 /\ UNCHANGED <<entries, request, until, created, granted>>
    BY <1>1 DEF Tick, history, WebInv, TypeOK
  <2>2. TypeOK'
    BY <2>1 DEF WebInv, TypeOK
  <2>3. ASSUME NEW k \in Keys PROVE KeyInv(k)'
    <3>1. until[k] \in Nat /\ (entries[k] # None => entries[k].updated \in Nat /\ entries[k].blockedUntil \in Nat)
      BY DEF WebInv, TypeOK, Entry
    <3>2. KeyInv(k)
      BY DEF WebInv
    <3> QED
      BY <2>1, <3>1, <3>2 DEF KeyInv, Within
  <2>4. Table' = Table
    BY <2>1 DEF Table
  <2> QED
    BY <2>2, <2>3, <2>4 DEF WebInv
<1>2. ASSUME NEW r \in Requests, NEW k \in Keys, Arrive(r, k) PROVE WebInv'
  <2>1. UNCHANGED <<clock, entries, until, created, granted>>
    BY <1>2 DEF Arrive, history
  <2>2. TypeOK'
    BY <1>2, <2>1 DEF WebInv, TypeOK, Arrive
  <2> QED
    BY <2>1, <2>2 DEF WebInv, KeyInv, Within, Table
<1>3. ASSUME UNCHANGED vars PROVE WebInv'
  BY <1>3 DEF vars, history, WebInv, TypeOK, KeyInv, Within, Table
<1> QED
  BY <1>1, <1>2, <1>3

\* The action of BlockStands.
BlockKept == \A k \in Keys : granted'[k] > granted[k] => clock >= until[k]

LEMMA WebAllow ==
  ASSUME WebInv, NEW r \in Requests, allow(r),
         NEW k, k = request[r].key, NEW at, at = request[r].at
  PROVE  WebInv' /\ BlockKept
<1> DEFINE old == IF entries[k] = None THEN Fresh(at) ELSE entries[k]
           new == After(old, at)
           one == IF Admits(old, at) THEN 1 ELSE 0
<1>1. /\ k \in Keys /\ at \in Nat /\ at <= clock /\ clock \in Nat
      /\ \A j \in Keys : /\ until[j] \in Nat /\ created[j] \in Nat /\ granted[j] \in Nat
                         /\ entries[j] # None => entries[j] \in Entry
  BY DEF WebInv, TypeOK, allow
<1>2. PICK left \in (IF entries[k] = None THEN Evicted(at) ELSE {Table}) :
        /\ entries' = [j \in Keys |-> IF j = k THEN new
                                      ELSE IF j \in left THEN entries[j] ELSE None]
        /\ until' = [j \in Keys |->
             IF j = k /\ new.blockedUntil # old.blockedUntil THEN new.blockedUntil
             ELSE IF j \in Table \ (left \cup Swept(at)) THEN 0
             ELSE until[j]]
        /\ granted' = [j \in Keys |->
             IF j = k THEN granted[k] + (IF Admits(old, at) THEN 1 ELSE 0)
             ELSE IF j \in left THEN granted[j] ELSE 0]
  BY DEF allow
<1>3. /\ created' = [created EXCEPT ![k] = IF entries[k] = None THEN at ELSE @]
      /\ request' = [request EXCEPT ![r] = NoCall]
      /\ UNCHANGED clock
  BY DEF allow
<1>4. left \subseteq Table /\ IsFiniteSet(left)
      /\ (entries[k] = None => Cardinality(left) < MaxEntries)
      /\ (entries[k] # None => left = Table)
  BY <1>2, EvictedIs DEF WebInv
<1>5. Fresh(at) \in Entry /\ Fresh(at).updated = at /\ Fresh(at).tokens = Capacity
      /\ Fresh(at).blockedUntil = 0
  BY <1>1, RateLimiterAssumption DEF Fresh, Entry
<1>6. old \in Entry /\ old.updated <= clock
  <2>1. CASE entries[k] = None
    BY <1>1, <1>5, <2>1
  <2>2. CASE entries[k] # None
    BY <1>1, <2>2 DEF WebInv, KeyInv
  <2> QED
    BY <2>1, <2>2
<1>7. Within(old, granted[k], created'[k]) /\ created'[k] \in Nat
  <2>1. CASE entries[k] = None
    <3>1. granted[k] = 0 /\ created'[k] = at
      BY <1>1, <1>3, <2>1 DEF WebInv, KeyInv, TypeOK
    <3>2. Capacity + 0 <= Capacity + Refill * (at - at)
      BY <1>1, RateLimiterAssumption
    <3> QED
      BY <1>1, <1>5, <2>1, <3>1, <3>2 DEF Within
  <2>2. CASE entries[k] # None
    <3>1. created'[k] = created[k]
      BY <1>1, <1>3, <2>2 DEF WebInv, TypeOK
    <3> QED
      BY <1>1, <2>2, <3>1 DEF WebInv, KeyInv
  <2> QED
    BY <2>1, <2>2
<1>8. /\ until[k] <= clock \/ until[k] <= old.blockedUntil
      /\ Admits(old, at) => at >= old.blockedUntil
  BY <1>1 DEF WebInv, KeyInv, Admits
<1> HIDE DEF old
<1>9. /\ new \in Entry /\ new.updated <= clock
      /\ Within(new, granted[k] + one, created'[k])
  BY <1>1, <1>6, <1>7, AfterIs
<1>10. /\ entries'[k] = new /\ granted'[k] = granted[k] + one
       /\ until'[k] = IF new.blockedUntil # old.blockedUntil THEN new.blockedUntil ELSE until[k]
  <2>1. k \notin Table \ left
    BY <1>4 DEF Table
  <2> QED
    BY <1>1, <1>2, <2>1
<1>11. new # None /\ one \in Nat
  BY <1>9, NoneIsNoEntry
<1>12. \A j \in Keys : j # k =>
         /\ entries'[j] = IF j \in left THEN entries[j] ELSE None
         /\ granted'[j] = IF j \in left THEN granted[j] ELSE 0
         /\ until'[j] = IF j \in Table \ (left \cup Swept(at)) THEN 0 ELSE until[j]
         /\ created'[j] = created[j]
  BY <1>2, <1>3 DEF WebInv, TypeOK
<1> HIDE DEF new, one
<1>13. KeyInv(k)'
  <2>1. old.blockedUntil \in Nat /\ new.blockedUntil \in Nat
    BY <1>6, <1>9 DEF Entry
  <2> QED
    BY <1>1, <1>3, <1>8, <1>9, <1>10, <1>11, <2>1 DEF KeyInv
<1>14. ASSUME NEW j \in Keys, j # k PROVE KeyInv(j)'
  <2>1. KeyInv(j)
    BY DEF WebInv
  <2>2. CASE j \in left
    <3>1. entries[j] # None
      BY <1>4, <2>2 DEF Table
    <3> QED
      BY <1>3, <1>12, <1>14, <2>1, <2>2, <3>1 DEF KeyInv
  <2>3. CASE j \notin left
    <3>1. entries'[j] = None /\ granted'[j] = 0
      BY <1>12, <1>14, <2>3
    <3>2. until'[j] <= clock
      <4>1. CASE j \in Swept(at)
        <5>1. at >= entries[j].blockedUntil /\ j \in Table /\ until'[j] = until[j]
          BY <1>12, <1>14, <4>1 DEF Swept
        <5>2. entries[j].blockedUntil \in Nat /\ entries[j] # None
          BY <1>1, <5>1 DEF Table, Entry
        <5> QED
          BY <1>1, <2>1, <5>1, <5>2 DEF KeyInv
      <4>2. CASE j \in Table /\ j \notin Swept(at)
        BY <1>1, <1>12, <1>14, <2>3, <4>2
      <4>3. CASE j \notin Table
        BY <1>12, <1>14, <2>1, <4>3 DEF KeyInv, Table
      <4> QED
        BY <4>1, <4>2, <4>3
    <3> QED
      BY <1>3, <3>1, <3>2 DEF KeyInv
  <2> QED
    BY <2>2, <2>3
<1>15. TypeOK'
  <2>1. entries' \in [Keys -> Entry \cup {None}]
    BY <1>1, <1>2, <1>9, <1>11
  <2>2. granted' \in [Keys -> Nat]
    BY <1>1, <1>2, <1>10, <1>11, <1>12
  <2>3. until' \in [Keys -> Nat]
    <3>1. new.blockedUntil \in Nat
      BY <1>9 DEF Entry
    <3> QED
      BY <1>1, <1>2, <1>10, <1>12, <3>1
  <2>4. created' \in [Keys -> Nat]
    BY <1>1, <1>3 DEF WebInv, TypeOK
  <2>5. /\ request' \in [Requests -> [key : Keys \cup {None}, at : Nat]]
        /\ \A q \in Requests : request'[q].at <= clock'
    BY <1>1, <1>3 DEF WebInv, TypeOK, NoCall
  <2> QED
    BY <1>1, <1>3, <2>1, <2>2, <2>3, <2>4, <2>5 DEF TypeOK
<1>16. IsFiniteSet(Table') /\ Cardinality(Table') <= MaxEntries
  <2>1. Table' = left \cup {k}
    <3>1. \A j \in Keys : entries'[j] # None <=> (j = k \/ j \in left)
      BY <1>4, <1>10, <1>11, <1>12 DEF Table
    <3> QED
      BY <1>1, <1>4, <3>1 DEF Table
  <2>2. CASE entries[k] = None
    <3>0. Cardinality(left) \in Nat
      BY <1>4, FS_CardinalityType
    <3>1. /\ IsFiniteSet(left \cup {k})
          /\ Cardinality(left \cup {k}) = IF k \in left THEN Cardinality(left) ELSE Cardinality(left) + 1
      BY <1>4, FS_AddElement
    <3>2. Cardinality(left \cup {k}) \in Nat /\ Cardinality(left \cup {k}) <= Cardinality(left) + 1
      BY <3>0, <3>1
    <3> QED
      BY <1>4, <2>1, <2>2, <3>0, <3>1, <3>2, RateLimiterAssumption
  <2>3. CASE entries[k] # None
    <3>1. Table' = Table
      BY <1>1, <1>4, <2>1, <2>3 DEF Table
    <3> QED
      BY <3>1 DEF WebInv
  <2> QED
    BY <2>2, <2>3
<1>17. BlockKept
  <2> SUFFICES ASSUME NEW j \in Keys, granted'[j] > granted[j] PROVE clock >= until[j]
    BY DEF BlockKept
  <2>1. j = k
    BY <1>1, <1>12
  <2>2. one > 0
    BY <1>1, <1>10, <1>11, <2>1
  <2>3. at >= old.blockedUntil /\ old.blockedUntil \in Nat
    BY <1>6, <1>8, <2>2 DEF one, Entry
  <2> QED
    BY <1>1, <1>8, <2>1, <2>3
<1> QED
  BY <1>13, <1>14, <1>15, <1>16, <1>17 DEF WebInv

LEMMA WebNext == WebInv /\ [Next]_vars => WebInv' /\ BlockKept
<1> SUFFICES ASSUME WebInv, [Next]_vars PROVE WebInv' /\ BlockKept
  OBVIOUS
<1>1. CASE \E r \in Requests : allow(r)
  BY <1>1, WebAllow
<1>2. CASE Tick \/ (\E r \in Requests, k \in Keys : Arrive(r, k)) \/ UNCHANGED vars
  <2>1. UNCHANGED granted
    BY <1>2 DEF Tick, Arrive, vars, history
  <2>2. BlockKept
    BY <2>1 DEF BlockKept, WebInv, TypeOK
  <2> QED
    BY <1>2, <2>2, WebOutside
<1> QED
  BY <1>1, <1>2 DEF Next

LEMMA WebRate == WebInv => RateHolds
<1> SUFFICES ASSUME WebInv, NEW k \in Table
             PROVE  granted[k] <= Capacity + Refill * (clock - created[k])
  BY DEF RateHolds
<1>1. /\ clock \in Nat /\ created[k] \in Nat /\ granted[k] \in Nat /\ entries[k] \in Entry
      /\ Within(entries[k], granted[k], created[k]) /\ entries[k].updated <= clock
  BY DEF WebInv, TypeOK, KeyInv, Table
<1>2. /\ entries[k].tokens \in Nat /\ entries[k].updated \in Nat /\ Refill \in Nat
      /\ Capacity \in Nat
  BY <1>1, RateLimiterAssumption DEF Entry
<1>3. Refill * (entries[k].updated - created[k]) <= Refill * (clock - created[k])
  BY <1>1, <1>2, TimesMonotonic
<1> DEFINE a == Refill * (entries[k].updated - created[k])
           b == Refill * (clock - created[k])
<1>4. a \in Int /\ b \in Int /\ a <= b
  BY <1>1, <1>2, <1>3
<1>5. entries[k].tokens + granted[k] <= Capacity + a
  BY <1>1 DEF Within
<1> HIDE DEF a, b
<1>6. granted[k] <= Capacity + b
  BY <1>1, <1>2, <1>4, <1>5
<1> QED
  BY <1>6 DEF b

-----------------------------------------------------------------------------
(* The limiter of sish                                                     *)

LEMMA SishConstants ==
  /\ ConnKeys \cap RequestKeys = {} /\ None \notin Sish!Entities
  /\ Sish!Entities = ConnKeys \cup RequestKeys
  /\ Burst \in Nat /\ Rate \in Nat /\ RequestBurst \in Nat /\ RequestRate \in Nat
  /\ Burst >= 1 /\ RequestBurst >= 1 /\ MaxConn \in Nat /\ SishBlock \in Nat /\ Idle \in Nat
  /\ None \notin Sish!Entry
BY SishAssumption DEF Sish!ConnectionLimiterAssumption, Sish!Entities, Sish!Entry

BurstOf(k) == IF k \in ConnKeys THEN Burst ELSE RequestBurst
RateOf(k)  == IF k \in ConnKeys THEN Rate ELSE RequestRate

\* Times go back and forth, so that an entry may have less than no tokens.
SishWithin(k, e, g, c) == e.tokens + g <= BurstOf(k) + RateOf(k) * (e.updated - c)

LEMMA OfNat == \A k : BurstOf(k) \in Nat /\ RateOf(k) \in Nat /\ BurstOf(k) >= 1
BY SishConstants DEF BurstOf, RateOf

LEMMA SishRefilledIs ==
  ASSUME NEW k, NEW e \in Sish!Entry, NEW at \in Nat, NEW f,
         f = Sish!Refilled(e, BurstOf(k), RateOf(k), at)
  PROVE  /\ f \in Sish!Entry /\ f.updated = at /\ f.blocked = e.blocked
         /\ f.connections = e.connections
         /\ \A g \in Nat, c \in Nat : SishWithin(k, e, g, c) => SishWithin(k, f, g, c)
<1> DEFINE full  == e.tokens + (at - e.updated) * RateOf(k)
           least == Sish!Least(BurstOf(k), full)
<1>1. e.tokens \in Int /\ e.updated \in Nat /\ RateOf(k) \in Nat /\ BurstOf(k) \in Nat
  BY OfNat DEF Sish!Entry
<1>2. full \in Int
  BY <1>1
<1>3. least \in Int /\ least <= full
  <2> HIDE DEF full
  <2> QED
    BY <1>1, <1>2 DEF Sish!Least
<1>4. f = [e EXCEPT !.tokens = least, !.updated = at]
  BY DEF Sish!Refilled
<1>5. ASSUME NEW g \in Nat, NEW c \in Nat, SishWithin(k, e, g, c)
      PROVE  least + g <= BurstOf(k) + RateOf(k) * (at - c)
  <2>1. RateOf(k) * (e.updated - c) + (at - e.updated) * RateOf(k) = RateOf(k) * (at - c)
    BY <1>1, TimesSum
  <2> DEFINE a == RateOf(k) * (e.updated - c)
             b == (at - e.updated) * RateOf(k)
             d == RateOf(k) * (at - c)
  <2>2. a \in Int /\ b \in Int /\ d \in Int /\ a + b = d
    BY <1>1, <2>1
  <2>3. e.tokens + g <= BurstOf(k) + a /\ least <= e.tokens + b
    BY <1>3, <1>5 DEF SishWithin
  <2> HIDE DEF a, b, least
  <2>4. least + g <= BurstOf(k) + d
    <3> HIDE DEF d
    <3> QED
      BY <1>1, <1>3, <2>2, <2>3
  <2> QED
    BY <2>4
<1> HIDE DEF least
<1>6. /\ f \in Sish!Entry /\ f.tokens = least /\ f.updated = at /\ f.blocked = e.blocked
      /\ f.connections = e.connections
  BY <1>3, <1>4 DEF Sish!Entry
<1> QED
  BY <1>5, <1>6 DEF SishWithin

LEMMA ViolatedIs ==
  ASSUME NEW e \in Sish!Entry, NEW limit \in Nat, NEW at \in Nat, NEW f,
         f = Sish!Violated(e, limit, at)
  PROVE  /\ f \in Sish!Entry /\ f.tokens = e.tokens /\ f.updated = e.updated
         /\ f.connections = e.connections
         /\ f.blocked = e.blocked \/ f.blocked = at + SishBlock
<1>1. at + SishBlock \in Nat
  BY SishConstants
<1>2. CASE e.violations + 1 >= limit
  <2>1. f = [e EXCEPT !.blocked = at + SishBlock, !.violations = 0]
    BY <1>2 DEF Sish!Violated
  <2> DEFINE b == at + SishBlock
  <2>2. b \in Nat /\ f = [e EXCEPT !.blocked = b, !.violations = 0] /\ 0 \in Nat
    BY <1>1, <2>1
  <2> HIDE DEF b
  <2>3. f \in Sish!Entry /\ f.blocked = b /\ f.tokens = e.tokens
        /\ f.updated = e.updated /\ f.connections = e.connections
    BY <2>2 DEF Sish!Entry
  <2> QED
    BY <2>3 DEF b
<1>3. CASE ~(e.violations + 1 >= limit)
  <2>1. f = [e EXCEPT !.violations = e.violations + 1] /\ e.violations + 1 \in Nat
    BY <1>3 DEF Sish!Violated, Sish!Entry
  <2> QED
    BY <2>1 DEF Sish!Entry
<1> QED
  BY <1>2, <1>3

-----------------------------------------------------------------------------
(* What the entries of sish promise                                        *)

\* A key has got no more than its entry allows, and its block is over unless
\* the entry knows of it and is not idle before its end.
SishKeyInv(k) ==
  IF sishEntries[k] = None
    THEN sishGranted[k] = 0 /\ sishUntil[k] <= sishClock
    ELSE LET e == sishEntries[k]
         IN /\ SishWithin(k, e, sishGranted[k], sishCreated[k])
            /\ sishGranted[k] <= BurstOf(k) + RateOf(k) * (sishClock - sishCreated[k])
            /\ sishCreated[k] <= sishClock
            /\ \/ sishUntil[k] <= sishClock
               \/ sishUntil[k] <= e.blocked /\ sishUntil[k] <= e.updated + Idle

\* An open connection counts in an entry of the table, and so may a closed one.
ConnInv(c) ==
  /\ conn[c].state = "open" => conn[c].own
  /\ conn[c].own => conn[c].state # "free" /\ sishEntries[conn[c].key] # None

Count(k) == IF sishEntries[k] = None THEN 0 ELSE sishEntries[k].connections

CountInv(k) ==
  /\ IsFiniteSet(Sish!Open(k)) /\ Cardinality(Sish!Open(k)) = Count(k)
  /\ Cardinality(Sish!Open(k)) <= MaxConn

SishInv ==
  /\ Sish!TypeOK
  /\ \A r \in Requests : sishRequest[r].at <= sishClock
  /\ \A k \in Sish!Entities : SishKeyInv(k)
  /\ \A c \in Conns : ConnInv(c)
  /\ \A k \in ConnKeys : CountInv(k)

LEMMA SishInit == Sish!Init => SishInv
<1> SUFFICES ASSUME Sish!Init PROVE SishInv
  OBVIOUS
<1>1. Sish!TypeOK /\ \A r \in Requests : sishRequest[r].at <= sishClock
  BY DEF Sish!Init, Sish!TypeOK, Sish!NoConn, Sish!NoCall, Sish!Conn
<1>2. \A k \in Sish!Entities : SishKeyInv(k)
  BY DEF Sish!Init, SishKeyInv
<1>3. \A c \in Conns : ConnInv(c)
  BY DEF Sish!Init, ConnInv, Sish!NoConn
<1>4. \A k \in ConnKeys : Sish!Open(k) = {} /\ Count(k) = 0
  BY SishConstants DEF Sish!Init, Sish!Open, Sish!NoConn, Count
<1>5. \A k \in ConnKeys : CountInv(k)
  BY <1>4, FS_EmptySet, SishConstants DEF CountInv
<1> QED
  BY <1>1, <1>2, <1>3, <1>5 DEF SishInv

\* The steps that leave the entries alone.
LEMMA SishClock ==
  ASSUME SishInv, UNCHANGED <<sishEntries, sishUntil, sishCreated, sishGranted>>,
         sishClock' \in Nat, sishClock' >= sishClock, NEW k \in Sish!Entities
  PROVE  SishKeyInv(k)'
<1>1. /\ SishKeyInv(k) /\ sishClock \in Nat /\ sishUntil[k] \in Nat /\ sishCreated[k] \in Nat
      /\ sishGranted[k] \in Nat /\ (sishEntries[k] # None => sishEntries[k] \in Sish!Entry)
  BY DEF SishInv, Sish!TypeOK
<1>2. CASE sishEntries[k] = None
  BY <1>1, <1>2 DEF SishKeyInv
<1>3. CASE sishEntries[k] # None
  <2> DEFINE a == RateOf(k) * (sishClock - sishCreated[k])
             b == RateOf(k) * (sishClock' - sishCreated[k])
  <2>1. a \in Int /\ b \in Int /\ a <= b
    BY <1>1, OfNat, TimesMonotonic
  <2>2. sishGranted[k] <= BurstOf(k) + a
    BY <1>1, <1>3 DEF SishKeyInv
  <2> HIDE DEF a, b
  <2>3. sishGranted[k] <= BurstOf(k) + b
    BY <1>1, <2>1, <2>2, OfNat
  <2>4. sishGranted[k] <= BurstOf(k) + RateOf(k) * (sishClock' - sishCreated[k])
    BY <2>3 DEF b
  <2>5. sishCreated[k] <= sishClock' /\ (sishUntil[k] <= sishClock => sishUntil[k] <= sishClock')
    BY <1>1, <1>3 DEF SishKeyInv
  <2> QED
    BY <1>1, <1>3, <2>4, <2>5 DEF SishKeyInv
<1> QED
  BY <1>2, <1>3

-----------------------------------------------------------------------------
(* The steps of sish                                                       *)

\* The entry that a call finds or makes.
Found(k, at) == IF sishEntries[k] = None THEN Sish!Fresh(BurstOf(k), at) ELSE sishEntries[k]

\* When the entry was made.
Since(k, at) == IF sishEntries[k] = None THEN at ELSE sishCreated[k]

LEMMA FoundIs ==
  ASSUME SishInv, NEW k \in Sish!Entities, NEW at \in Nat, at <= sishClock
  PROVE  /\ Found(k, at) \in Sish!Entry
         /\ Since(k, at) \in Nat /\ Since(k, at) <= sishClock /\ sishGranted[k] \in Nat
         /\ SishWithin(k, Found(k, at), sishGranted[k], Since(k, at))
         /\ sishGranted[k] <= BurstOf(k) + RateOf(k) * (sishClock - Since(k, at))
         /\ \/ sishUntil[k] <= sishClock
            \/ /\ sishUntil[k] <= Found(k, at).blocked
               /\ sishUntil[k] <= Found(k, at).updated + Idle
<1>1. /\ SishKeyInv(k) /\ sishClock \in Nat /\ sishGranted[k] \in Nat /\ sishCreated[k] \in Nat
      /\ (sishEntries[k] # None => sishEntries[k] \in Sish!Entry)
  BY DEF SishInv, Sish!TypeOK
<1>2. CASE sishEntries[k] # None
  BY <1>1, <1>2 DEF Found, Since, SishKeyInv
<1>3. CASE sishEntries[k] = None
  <2>1. Found(k, at) = Sish!Fresh(BurstOf(k), at) /\ Since(k, at) = at
    BY <1>3 DEF Found, Since
  <2>2. /\ Found(k, at) \in Sish!Entry /\ Found(k, at).tokens = BurstOf(k)
        /\ Found(k, at).updated = at
    BY <2>1, OfNat DEF Sish!Fresh, Sish!Entry
  <2>3. sishGranted[k] = 0 /\ sishUntil[k] <= sishClock
    BY <1>1, <1>3 DEF SishKeyInv
  <2>4. RateOf(k) * (at - at) = 0
    BY OfNat
  <2>5. RateOf(k) * (sishClock - at) \in Nat
    BY <1>1, OfNat, TimesNat
  <2>6. BurstOf(k) + 0 <= BurstOf(k) + RateOf(k) * (at - at)
    BY <2>4, OfNat
  <2> DEFINE a == RateOf(k) * (sishClock - at)
  <2>7. 0 <= BurstOf(k) + a
    <3> HIDE DEF a
    <3>1. a \in Nat
      BY <2>5 DEF a
    <3> QED
      BY <3>1, OfNat
  <2> QED
    BY <1>1, <2>1, <2>2, <2>3, <2>6, <2>7 DEF SishWithin
<1> QED
  BY <1>2, <1>3

\* The action of BlockStands.
SishBlockKept ==
  \A k \in Sish!Entities : sishGranted'[k] > sishGranted[k] => sishClock >= sishUntil[k]

\* Keys that a step leaves as they are, or sweeps.
LEMMA OthersKept ==
  ASSUME SishInv, UNCHANGED sishClock, NEW j \in Sish!Entities, NEW swept,
         \A i \in swept : sishEntries[i] # None /\ sishClock - sishEntries[i].updated > Idle,
         sishEntries'[j] = IF j \in swept THEN None ELSE sishEntries[j],
         sishGranted'[j] = IF j \in swept THEN 0 ELSE sishGranted[j],
         sishUntil'[j] = sishUntil[j], sishCreated'[j] = sishCreated[j]
  PROVE  SishKeyInv(j)' /\ ~(sishGranted'[j] > sishGranted[j])
<1>1. /\ SishKeyInv(j) /\ sishClock \in Nat /\ sishGranted[j] \in Nat /\ sishUntil[j] \in Nat
      /\ (sishEntries[j] # None => sishEntries[j] \in Sish!Entry)
  BY DEF SishInv, Sish!TypeOK
<1>2. CASE j \in swept
  <2>1. sishEntries[j].updated \in Nat /\ sishEntries[j] # None
    BY <1>1, <1>2 DEF Sish!Entry
  <2>2. sishUntil[j] <= sishClock
    BY <1>1, <1>2, <2>1, SishConstants DEF SishKeyInv
  <2> QED
    BY <1>1, <1>2, <2>2 DEF SishKeyInv
<1>3. CASE j \notin swept
  BY <1>1, <1>3 DEF SishKeyInv
<1> QED
  BY <1>2, <1>3

\* An entry is put into the table: as it was found, or with the time of the
\* call and after its block.
LEMMA PutKeeps ==
  ASSUME SishInv, UNCHANGED sishClock, NEW k \in Sish!Entities, NEW at \in Nat, at <= sishClock,
         NEW new \in Sish!Entry, NEW swept, k \notin swept, NEW admits \in BOOLEAN,
         \A i \in swept : sishEntries[i] # None /\ sishClock - sishEntries[i].updated > Idle,
         Sish!Put(k, new, swept, at, admits),
         (new = Found(k, at) /\ ~admits) \/ (new.updated = at /\ at >= Found(k, at).blocked),
         new.blocked = Found(k, at).blocked \/ new.blocked = at + SishBlock,
         admits => new.tokens >= 0,
         SishWithin(k, new, sishGranted[k] + (IF admits THEN 1 ELSE 0), Since(k, at))
  PROVE  /\ sishEntries' \in [Sish!Entities -> Sish!Entry \cup {None}]
         /\ sishUntil' \in [Sish!Entities -> Nat] /\ sishCreated' \in [Sish!Entities -> Nat]
         /\ sishGranted' \in [Sish!Entities -> Nat]
         /\ sishEntries'[k] = new /\ new # None
         /\ \A j \in Sish!Entities :
              j # k => sishEntries'[j] = IF j \in swept THEN None ELSE sishEntries[j]
         /\ \A j \in Sish!Entities : SishKeyInv(j)'
         /\ SishBlockKept
<1> DEFINE old == Found(k, at)
           one == IF admits THEN 1 ELSE 0
           set == new.blocked = at + SishBlock
                    /\ (sishEntries[k] = None \/ new.blocked # sishEntries[k].blocked)
<1>1. /\ sishEntries \in [Sish!Entities -> Sish!Entry \cup {None}]
      /\ sishUntil \in [Sish!Entities -> Nat] /\ sishCreated \in [Sish!Entities -> Nat]
      /\ sishGranted \in [Sish!Entities -> Nat] /\ sishClock \in Nat
  BY DEF SishInv, Sish!TypeOK
<1>2. /\ sishEntries' = [j \in Sish!Entities |-> IF j = k THEN new ELSE IF j \in swept THEN None
                                                 ELSE sishEntries[j]]
      /\ sishUntil' = [sishUntil EXCEPT ![k] =
            IF set THEN at + Sish!Least(SishBlock, Idle) ELSE @]
      /\ sishCreated' = [sishCreated EXCEPT ![k] = IF sishEntries[k] = None THEN at ELSE @]
      /\ sishGranted' = [j \in Sish!Entities |->
            IF j = k THEN sishGranted[k] + one
            ELSE IF j \in swept THEN 0 ELSE sishGranted[j]]
  BY DEF Sish!Put
<1>3. /\ sishEntries'[k] = new /\ sishGranted'[k] = sishGranted[k] + one
      /\ sishCreated'[k] = Since(k, at)
      /\ sishUntil'[k] = IF set THEN at + Sish!Least(SishBlock, Idle) ELSE sishUntil[k]
  BY <1>1, <1>2 DEF Since
<1>4. \A j \in Sish!Entities : j # k =>
        /\ sishEntries'[j] = IF j \in swept THEN None ELSE sishEntries[j]
        /\ sishGranted'[j] = IF j \in swept THEN 0 ELSE sishGranted[j]
        /\ sishUntil'[j] = sishUntil[j] /\ sishCreated'[j] = sishCreated[j]
  BY <1>1, <1>2
<1>5. /\ Sish!Least(SishBlock, Idle) \in Nat /\ Sish!Least(SishBlock, Idle) <= SishBlock
      /\ Sish!Least(SishBlock, Idle) <= Idle
  BY SishConstants DEF Sish!Least
<1>6. one \in Nat /\ new # None
  BY SishConstants
<1>7. /\ old \in Sish!Entry /\ Since(k, at) \in Nat /\ Since(k, at) <= sishClock
      /\ sishGranted[k] <= BurstOf(k) + RateOf(k) * (sishClock - Since(k, at))
      /\ \/ sishUntil[k] <= sishClock
         \/ sishUntil[k] <= old.blocked /\ sishUntil[k] <= old.updated + Idle
  BY FoundIs
<1>8. /\ old.blocked \in Nat /\ new.blocked \in Nat /\ new.updated \in Nat /\ new.tokens \in Int
      /\ old.updated \in Nat /\ sishUntil[k] \in Nat /\ sishGranted[k] \in Nat
  BY <1>1, <1>7 DEF Sish!Entry
<1>9. ~(new.updated = at /\ at >= old.blocked) => new = old /\ ~admits /\ one = 0
  OBVIOUS
<1>10. ASSUME set PROVE new.updated = at
  <2>1. CASE sishEntries[k] = None
    <3>1. old.updated = at
      BY <2>1 DEF Found, Sish!Fresh
    <3> QED
      BY <1>9, <3>1
  <2>2. CASE sishEntries[k] # None
    <3>1. old = sishEntries[k]
      BY <2>2 DEF Found
    <3>2. new # old
      BY <1>10, <2>2, <3>1
    <3> QED
      BY <1>9, <3>2
  <2> QED
    BY <2>1, <2>2
<1>11. \/ sishUntil'[k] <= sishClock
       \/ sishUntil'[k] <= new.blocked /\ sishUntil'[k] <= new.updated + Idle
  <2>1. CASE set
    <3>1. new.blocked = at + SishBlock /\ new.updated = at
      BY <1>10, <2>1
    <3> HIDE DEF set
    <3> QED
      BY <1>3, <1>5, <2>1, <3>1, SishConstants
  <2>2. CASE ~set
    <3> HIDE DEF set
    <3>1. sishUntil'[k] = sishUntil[k]
      BY <1>3, <2>2
    <3>2. CASE new = old
      BY <1>7, <3>1, <3>2
    <3>3. CASE at >= old.blocked
      BY <1>1, <1>7, <1>8, <3>1, <3>3
    <3> QED
      BY <1>9, <3>2, <3>3
  <2> QED
    BY <2>1, <2>2
<1>12. sishGranted[k] + one <= BurstOf(k) + RateOf(k) * (sishClock - Since(k, at))
  <2> DEFINE a == RateOf(k) * (at - Since(k, at))
             b == RateOf(k) * (sishClock - Since(k, at))
  <2>1. a \in Int /\ b \in Int /\ a <= b
    BY <1>1, <1>7, OfNat, TimesMonotonic
  <2>2. sishGranted[k] <= BurstOf(k) + b
    BY <1>7
  <2>3. CASE one = 0
    <3> HIDE DEF b
    <3> QED
      BY <1>8, <2>2, <2>3 DEF b
  <2>4. CASE one # 0
    <3>1. admits /\ new.tokens >= 0 /\ new.updated = at
      BY <2>4
    <3>2. new.tokens + (sishGranted[k] + one) <= BurstOf(k) + a
      BY <3>1 DEF SishWithin
    <3> HIDE DEF a, b, one
    <3>3. sishGranted[k] + one <= BurstOf(k) + b
      BY <1>6, <1>8, <2>1, <3>1, <3>2, OfNat
    <3> QED
      BY <3>3 DEF b
  <2> QED
    BY <2>3, <2>4
<1>13. SishKeyInv(k)'
  <2> HIDE DEF one, set
  <2>1. SishWithin(k, new, sishGranted'[k], sishCreated'[k])
    BY <1>3 DEF one
  <2>2. /\ sishGranted'[k] <= BurstOf(k) + RateOf(k) * (sishClock' - sishCreated'[k])
        /\ sishCreated'[k] <= sishClock'
    BY <1>3, <1>7, <1>12
  <2> QED
    BY <1>3, <1>6, <1>11, <2>1, <2>2 DEF SishKeyInv
<1>14. ASSUME NEW j \in Sish!Entities, j # k
       PROVE  SishKeyInv(j)' /\ ~(sishGranted'[j] > sishGranted[j])
  BY <1>4, <1>14, OthersKept
<1>15. SishBlockKept
  <2> SUFFICES ASSUME sishGranted'[k] > sishGranted[k] PROVE sishClock >= sishUntil[k]
    BY <1>14 DEF SishBlockKept
  <2>1. one # 0
    <3> HIDE DEF one
    <3> QED
      BY <1>3, <1>8
  <2>2. at >= old.blocked
    BY <1>9, <2>1
  <2> QED
    BY <1>1, <1>7, <1>8, <2>2
<1>16. /\ sishEntries' \in [Sish!Entities -> Sish!Entry \cup {None}]
       /\ sishUntil' \in [Sish!Entities -> Nat] /\ sishCreated' \in [Sish!Entities -> Nat]
       /\ sishGranted' \in [Sish!Entities -> Nat]
  <2> HIDE DEF one, set
  <2>1. sishEntries' \in [Sish!Entities -> Sish!Entry \cup {None}]
    BY <1>1, <1>2
  <2>2. sishUntil' \in [Sish!Entities -> Nat]
    <3>1. at + Sish!Least(SishBlock, Idle) \in Nat
      BY <1>5
    <3> QED
      BY <1>1, <1>2, <3>1
  <2>3. sishCreated' \in [Sish!Entities -> Nat]
    BY <1>1, <1>2
  <2>4. sishGranted' \in [Sish!Entities -> Nat]
    <3>1. sishGranted[k] + one \in Nat
      BY <1>6, <1>8
    <3> QED
      BY <1>1, <1>2, <3>1
  <2> QED
    BY <2>1, <2>2, <2>3, <2>4
<1> QED
  BY <1>3, <1>4, <1>6, <1>13, <1>14, <1>15, <1>16

-----------------------------------------------------------------------------
(* The connections of sish                                                 *)

\* What a step leaves of the connections when it sweeps entries.
Disowned(c, swept) ==
  /\ conn'[c].state = conn[c].state /\ conn'[c].key = conn[c].key
  /\ conn'[c].own = (conn[c].own /\ conn[c].key \notin swept)

LEMMA DisownIs ==
  ASSUME SishInv, NEW swept, NEW cs, cs = Sish!Disown(conn, swept)
  PROVE  /\ cs \in [Conns -> Sish!Conn]
         /\ \A c \in Conns : /\ cs[c].state = conn[c].state /\ cs[c].key = conn[c].key
                             /\ cs[c].own = (conn[c].own /\ conn[c].key \notin swept)
<1>1. \A c \in Conns : conn[c] \in Sish!Conn
  BY DEF SishInv, Sish!TypeOK
<1>2. \A c \in Conns :
        cs[c] = [conn[c] EXCEPT !.own = conn[c].own /\ conn[c].key \notin swept]
  BY DEF Sish!Disown
<1>3. DOMAIN cs = Conns /\ cs = [c \in Conns |-> cs[c]]
  BY DEF Sish!Disown
<1>4. ASSUME NEW c \in Conns
      PROVE  /\ cs[c] \in Sish!Conn
             /\ cs[c].state = conn[c].state /\ cs[c].key = conn[c].key
             /\ cs[c].own = (conn[c].own /\ conn[c].key \notin swept)
  <2> DEFINE b == conn[c].own /\ conn[c].key \notin swept
  <2>1. b \in BOOLEAN /\ cs[c] = [conn[c] EXCEPT !.own = b]
    BY <1>1, <1>2 DEF Sish!Conn
  <2> HIDE DEF b
  <2>2. /\ cs[c] \in Sish!Conn /\ cs[c].own = b
        /\ cs[c].state = conn[c].state /\ cs[c].key = conn[c].key
    BY <1>1, <2>1 DEF Sish!Conn
  <2> QED
    BY <2>2 DEF b
<1> QED
  BY <1>3, <1>4

\* An entry of open connections is not swept.
LEMMA OpenIsNotSwept ==
  ASSUME SishInv, NEW swept,
         \A i \in swept : sishEntries[i] # None /\ sishEntries[i].connections = 0,
         NEW c \in Conns, conn[c].state = "open"
  PROVE  conn[c].key \notin swept
<1> DEFINE k == conn[c].key
<1>1. k \in ConnKeys
  BY DEF SishInv, Sish!TypeOK
<1>2. c \in Sish!Open(k)
  BY DEF Sish!Open
<1> HIDE DEF k
<1>3. IsFiniteSet(Sish!Open(k)) /\ Cardinality(Sish!Open(k)) = Count(k)
  BY <1>1 DEF SishInv, CountInv
<1>4. Cardinality(Sish!Open(k)) # 0
  BY <1>2, <1>3, FS_EmptySet
<1>5. k \notin swept
  BY <1>3, <1>4 DEF Count
<1> QED
  BY <1>5 DEF k

\* The steps that neither open nor close a connection.
LEMMA ConnsKept ==
  ASSUME SishInv, NEW swept,
         \A i \in swept : sishEntries[i] # None /\ sishEntries[i].connections = 0,
         conn' \in [Conns -> Sish!Conn], \A c \in Conns : Disowned(c, swept),
         \A j \in ConnKeys : j \notin swept /\ sishEntries[j] # None => sishEntries'[j] # None,
         \A j \in ConnKeys : Count(j)' = Count(j)
  PROVE  /\ \A c \in Conns : ConnInv(c)' /\ (conn'[c].state # "free" => conn'[c].key \in ConnKeys)
         /\ \A j \in ConnKeys : CountInv(j)'
<1>1. ASSUME NEW c \in Conns
      PROVE  ConnInv(c)' /\ (conn'[c].state # "free" => conn'[c].key \in ConnKeys)
  <2>1. /\ ConnInv(c) /\ Disowned(c, swept)
        /\ (conn[c].state # "free" => conn[c].key \in ConnKeys)
        /\ (conn[c].state = "open" => conn[c].key \notin swept)
    BY OpenIsNotSwept DEF SishInv, Sish!TypeOK
  <2> QED
    BY <2>1 DEF ConnInv, Disowned
<1>2. ASSUME NEW j \in ConnKeys PROVE CountInv(j)'
  <2>1. Sish!Open(j)' = Sish!Open(j)
    BY DEF Sish!Open, Disowned
  <2>2. CountInv(j) /\ Count(j)' = Count(j)
    BY DEF SishInv
  <2> QED
    BY <2>1, <2>2 DEF CountInv
<1> QED
  BY <1>1, <1>2

\* A step that opens one.
LEMMA ConnOpened ==
  ASSUME SishInv, NEW swept, NEW c \in Conns, NEW k \in ConnKeys,
         \A i \in swept : sishEntries[i] # None /\ sishEntries[i].connections = 0,
         conn[c].state = "free", conn' \in [Conns -> Sish!Conn],
         \A d \in Conns \ {c} : Disowned(d, swept),
         conn'[c] = [state |-> "open", key |-> k, own |-> TRUE],
         \A j \in ConnKeys : j \notin swept /\ sishEntries[j] # None => sishEntries'[j] # None,
         \A j \in ConnKeys \ {k} : Count(j)' = Count(j),
         sishEntries'[k] # None, Count(k)' = Count(k) + 1, Count(k) < MaxConn
  PROVE  /\ \A d \in Conns : ConnInv(d)' /\ (conn'[d].state # "free" => conn'[d].key \in ConnKeys)
         /\ \A j \in ConnKeys : CountInv(j)'
<1>1. ASSUME NEW d \in Conns
      PROVE  ConnInv(d)' /\ (conn'[d].state # "free" => conn'[d].key \in ConnKeys)
  <2>1. CASE d = c
    BY <2>1 DEF ConnInv
  <2>2. CASE d # c
    <3>1. /\ ConnInv(d) /\ Disowned(d, swept)
          /\ (conn[d].state # "free" => conn[d].key \in ConnKeys)
          /\ (conn[d].state = "open" => conn[d].key \notin swept)
      BY <2>2, OpenIsNotSwept DEF SishInv, Sish!TypeOK
    <3> QED
      BY <3>1 DEF ConnInv, Disowned
  <2> QED
    BY <2>1, <2>2
<1>2. ASSUME NEW j \in ConnKeys, j # k PROVE CountInv(j)'
  <2>1. Sish!Open(j)' = Sish!Open(j)
    BY <1>2 DEF Sish!Open, Disowned
  <2>2. CountInv(j) /\ Count(j)' = Count(j)
    BY <1>2 DEF SishInv
  <2> QED
    BY <2>1, <2>2 DEF CountInv
<1>3. CountInv(k)'
  <2>1. Sish!Open(k)' = Sish!Open(k) \cup {c} /\ c \notin Sish!Open(k)
    BY DEF Sish!Open, Disowned
  <2>2. IsFiniteSet(Sish!Open(k)) /\ Cardinality(Sish!Open(k)) = Count(k)
    BY DEF SishInv, CountInv
  <2>3. Cardinality(Sish!Open(k)) \in Nat
    BY <2>2, FS_CardinalityType
  <2>4. /\ IsFiniteSet(Sish!Open(k)')
        /\ Cardinality(Sish!Open(k)') = Cardinality(Sish!Open(k)) + 1
    BY <2>1, <2>2, FS_AddElement
  <2>5. Cardinality(Sish!Open(k)') <= MaxConn
    BY <2>2, <2>3, <2>4, SishConstants
  <2> QED
    BY <2>2, <2>4, <2>5 DEF CountInv
<1> QED
  BY <1>1, <1>2, <1>3

\* What a full table loses has been idle, and has no connections.
LEMMA SweptIs ==
  ASSUME NEW k, NEW i \in Sish!SweptFor(k)
  PROVE  /\ i \in Sish!Entities /\ i # k /\ sishEntries[i] # None
         /\ sishClock - sishEntries[i].updated > Idle /\ sishEntries[i].connections = 0
BY DEF Sish!SweptFor, Sish!Swept, Sish!Table

-----------------------------------------------------------------------------
(* Each action of sish                                                     *)

\* The parts of the invariant about times and the parts about connections.
LEMMA SishParts ==
  ASSUME sishClock' \in Nat,
         sishEntries' \in [Sish!Entities -> Sish!Entry \cup {None}],
         sishUntil' \in [Sish!Entities -> Nat], sishCreated' \in [Sish!Entities -> Nat],
         sishGranted' \in [Sish!Entities -> Nat],
         sishRequest' \in [Requests -> [key : RequestKeys \cup {None}, at : Nat]],
         \A r \in Requests : sishRequest'[r].at <= sishClock',
         conn' \in [Conns -> Sish!Conn],
         \A c \in Conns : ConnInv(c)' /\ (conn'[c].state # "free" => conn'[c].key \in ConnKeys),
         \A j \in ConnKeys : CountInv(j)', \A j \in Sish!Entities : SishKeyInv(j)'
  PROVE  SishInv'
BY DEF SishInv, Sish!TypeOK

LEMMA SishRefuse ==
  ASSUME SishInv, NEW k \in ConnKeys, Sish!AcceptRefused(k)
  PROVE  SishInv' /\ SishBlockKept
<1> DEFINE swept == Sish!SweptFor(k)
<1>1. /\ sishEntries' = [j \in Sish!Entities |-> IF j \in swept THEN None ELSE sishEntries[j]]
      /\ conn' = Sish!Disown(conn, swept)
      /\ sishGranted' = [j \in Sish!Entities |-> IF j \in swept THEN 0 ELSE sishGranted[j]]
      /\ UNCHANGED <<sishClock, sishRequest, sishUntil, sishCreated>>
  BY DEF Sish!AcceptRefused
<1>2. \A i \in swept : /\ i \in Sish!Entities /\ sishEntries[i] # None
                       /\ sishClock - sishEntries[i].updated > Idle
                       /\ sishEntries[i].connections = 0
  BY SweptIs
<1> HIDE DEF swept
<1>3. Sish!TypeOK /\ \A r \in Requests : sishRequest[r].at <= sishClock
  BY DEF SishInv
<1>4. /\ sishEntries' \in [Sish!Entities -> Sish!Entry \cup {None}]
      /\ sishGranted' \in [Sish!Entities -> Nat]
  BY <1>1, <1>3 DEF Sish!TypeOK
<1>5. \A j \in Sish!Entities : SishKeyInv(j)' /\ ~(sishGranted'[j] > sishGranted[j])
  BY <1>1, <1>2, OthersKept
<1>6. conn' \in [Conns -> Sish!Conn] /\ \A c \in Conns : Disowned(c, swept)
  BY <1>1, DisownIs DEF Disowned
<1>7. \A j \in ConnKeys : /\ Count(j)' = Count(j)
                          /\ (j \notin swept /\ sishEntries[j] # None => sishEntries'[j] # None)
  BY <1>1, <1>2, SishConstants DEF Count
<1>8. /\ \A c \in Conns : ConnInv(c)' /\ (conn'[c].state # "free" => conn'[c].key \in ConnKeys)
      /\ \A j \in ConnKeys : CountInv(j)'
  BY <1>2, <1>6, <1>7, ConnsKept
<1>9. SishInv'
  BY <1>1, <1>3, <1>4, <1>5, <1>6, <1>8, SishParts DEF Sish!TypeOK
<1> QED
  BY <1>5, <1>9 DEF SishBlockKept

LEMMA SishAccept ==
  ASSUME SishInv, NEW c \in Conns, NEW k \in ConnKeys, Sish!allowConnection(c, k)
  PROVE  SishInv' /\ SishBlockKept
<1> DEFINE swept == Sish!SweptFor(k)
           old == Found(k, sishClock)
           filled   == Sish!Refilled(old, Burst, Rate, sishClock)
           new == [filled EXCEPT !.tokens = @ - 1, !.violations = 0, !.connections = @ + 1]
           bad == Sish!Violated(filled, Violations, sishClock)
<1>1. /\ k \in Sish!Entities /\ BurstOf(k) = Burst /\ RateOf(k) = Rate /\ None \notin Sish!Entry
      /\ MaxConn \in Nat
  BY SishConstants DEF BurstOf, RateOf
<1>2. /\ Sish!TypeOK /\ sishClock \in Nat /\ \A r \in Requests : sishRequest[r].at <= sishClock
  BY DEF SishInv, Sish!TypeOK
<1> PICK since : since = Since(k, sishClock)
  OBVIOUS
<1>3. /\ conn[c].state = "free" /\ UNCHANGED <<sishClock, sishRequest>>
      /\ \/ Sish!Put(k, old, swept, sishClock, FALSE) /\ conn' = Sish!Disown(conn, swept)
         \/ /\ sishClock >= old.blocked /\ Sish!Put(k, bad, swept, sishClock, FALSE)
            /\ conn' = Sish!Disown(conn, swept)
         \/ /\ sishClock >= old.blocked /\ ~Sish!Limited(filled)
            /\ Sish!Put(k, new, swept, sishClock, TRUE)
            /\ conn' = [Sish!Disown(conn, swept) EXCEPT
                          ![c] = [state |-> "open", key |-> k, own |-> TRUE]]
  BY <1>1 DEF Sish!allowConnection, Found
<1>4. \A i \in swept : /\ i # k /\ sishEntries[i] # None
                       /\ sishClock - sishEntries[i].updated > Idle
                       /\ sishEntries[i].connections = 0
  BY SweptIs
<1> HIDE DEF swept
<1>5. /\ old \in Sish!Entry /\ since \in Nat /\ sishGranted[k] \in Nat
      /\ SishWithin(k, old, sishGranted[k], since) /\ old.connections = Count(k)
  <2>1. old.connections = Count(k)
    BY DEF Found, Count, Sish!Fresh
  <2> QED
    BY <1>1, <1>2, <2>1, FoundIs
<1>6. /\ filled \in Sish!Entry /\ filled.updated = sishClock /\ filled.blocked = old.blocked
      /\ filled.connections = old.connections /\ SishWithin(k, filled, sishGranted[k], since)
  <2>1. PICK o : o = old
    OBVIOUS
  <2>2. PICK f : f = filled
    OBVIOUS
  <2>3. PICK t \in Nat : t = sishClock
    BY <1>2
  <2>4. f = Sish!Refilled(o, BurstOf(k), RateOf(k), t)
    BY <1>1, <2>1, <2>2, <2>3 DEF Sish!Refilled
  <2> HIDE DEF old, filled
  <2>5. o \in Sish!Entry
    BY <1>5, <2>1
  <2>6. f \in Sish!Entry
    BY <2>4, <2>5, SishRefilledIs
  <2>7. f.updated = t /\ f.blocked = o.blocked
    BY <2>4, <2>5, SishRefilledIs
  <2>8. f.connections = o.connections
    BY <2>4, <2>5, SishRefilledIs
  <2>9. PICK g \in Nat : g = sishGranted[k]
    BY <1>5
  <2>10. since \in Nat
    BY <1>5
  <2>11. SishWithin(k, o, g, since) => SishWithin(k, f, g, since)
    BY <2>4, <2>5, <2>10, SishRefilledIs
  <2> QED
    BY <1>5, <2>1, <2>2, <2>3, <2>6, <2>7, <2>8, <2>9, <2>11
<1> HIDE DEF old, filled
\* What every case shows, with the entry n that it puts.
<1>7. ASSUME NEW n \in Sish!Entry, NEW admits \in BOOLEAN,
             Sish!Put(k, n, swept, sishClock, admits),
             (n = old /\ ~admits) \/ (n.updated = sishClock /\ sishClock >= old.blocked),
             n.blocked = old.blocked \/ n.blocked = sishClock + SishBlock,
             admits => n.tokens >= 0,
             SishWithin(k, n, sishGranted[k] + (IF admits THEN 1 ELSE 0), since),
             n.connections = old.connections + (IF admits THEN 1 ELSE 0)
      PROVE  /\ sishEntries' \in [Sish!Entities -> Sish!Entry \cup {None}]
             /\ sishUntil' \in [Sish!Entities -> Nat] /\ sishCreated' \in [Sish!Entities -> Nat]
             /\ sishGranted' \in [Sish!Entities -> Nat]
             /\ \A j \in Sish!Entities : SishKeyInv(j)'
             /\ SishBlockKept
             /\ \A j \in ConnKeys : j \notin swept /\ sishEntries[j] # None => sishEntries'[j] # None
             /\ \A j \in ConnKeys \ {k} : Count(j)' = Count(j)
             /\ sishEntries'[k] # None
             /\ Count(k)' = Count(k) + (IF admits THEN 1 ELSE 0)
  <2>1. /\ sishEntries' \in [Sish!Entities -> Sish!Entry \cup {None}]
        /\ sishUntil' \in [Sish!Entities -> Nat] /\ sishCreated' \in [Sish!Entities -> Nat]
        /\ sishGranted' \in [Sish!Entities -> Nat]
        /\ sishEntries'[k] = n /\ n # None
        /\ \A j \in Sish!Entities :
             j # k => sishEntries'[j] = IF j \in swept THEN None ELSE sishEntries[j]
        /\ \A j \in Sish!Entities : SishKeyInv(j)'
        /\ SishBlockKept
    <3>1. UNCHANGED sishClock /\ k \notin swept /\ sishClock <= sishClock
      BY <1>2, <1>3, <1>4
    <3>2. old = Found(k, sishClock) /\ since = Since(k, sishClock)
      BY DEF old
    <3> QED
      BY <1>1, <1>2, <1>4, <1>7, <3>1, <3>2, PutKeeps
  <2>2. ConnKeys \subseteq Sish!Entities
    BY SishConstants
  <2>3. \A j \in ConnKeys \ {k} : Count(j)' = Count(j)
    BY <1>4, <2>1, <2>2 DEF Count
  <2>4. Count(k)' = n.connections
    BY <2>1 DEF Count
  <2>5. \A j \in ConnKeys : j \notin swept /\ sishEntries[j] # None => sishEntries'[j] # None
    BY <2>1, <2>2
  <2> QED
    BY <1>5, <1>7, <2>1, <2>3, <2>4, <2>5
<1>8. ASSUME NEW n \in Sish!Entry, Sish!Put(k, n, swept, sishClock, FALSE),
             conn' = Sish!Disown(conn, swept),
             n = old \/ (n.updated = sishClock /\ sishClock >= old.blocked),
             n.blocked = old.blocked \/ n.blocked = sishClock + SishBlock,
             SishWithin(k, n, sishGranted[k], since), n.connections = old.connections
      PROVE  SishInv' /\ SishBlockKept
  <2>1. sishGranted[k] + 0 = sishGranted[k] /\ n.connections + 0 = n.connections
    BY <1>5, <1>8 DEF Sish!Entry
  <2>2. /\ sishEntries' \in [Sish!Entities -> Sish!Entry \cup {None}]
        /\ sishUntil' \in [Sish!Entities -> Nat] /\ sishCreated' \in [Sish!Entities -> Nat]
        /\ sishGranted' \in [Sish!Entities -> Nat]
        /\ \A j \in Sish!Entities : SishKeyInv(j)'
        /\ SishBlockKept
        /\ \A j \in ConnKeys : j \notin swept /\ sishEntries[j] # None => sishEntries'[j] # None
        /\ \A j \in ConnKeys \ {k} : Count(j)' = Count(j)
        /\ sishEntries'[k] # None
        /\ Count(k)' = Count(k) + 0
    BY <1>7, <1>8, <2>1
  <2>3. \A j \in ConnKeys : Count(j)' = Count(j)
    BY <1>5, <1>8, <2>1, <2>2
  <2>4. conn' \in [Conns -> Sish!Conn] /\ \A d \in Conns : Disowned(d, swept)
    BY <1>8, DisownIs DEF Disowned
  <2>5. /\ \A d \in Conns : ConnInv(d)' /\ (conn'[d].state # "free" => conn'[d].key \in ConnKeys)
        /\ \A j \in ConnKeys : CountInv(j)'
    BY <1>4, <2>2, <2>3, <2>4, ConnsKept
  <2> QED
    BY <1>2, <1>3, <2>2, <2>4, <2>5, SishParts DEF Sish!TypeOK
<1>9. CASE Sish!Put(k, old, swept, sishClock, FALSE) /\ conn' = Sish!Disown(conn, swept)
  <2>1. PICK o : o = old
    OBVIOUS
  <2>2. Sish!Put(k, o, swept, sishClock, FALSE) /\ conn' = Sish!Disown(conn, swept)
    BY <1>9, <2>1 DEF Sish!Put
  <2>3. o \in Sish!Entry /\ SishWithin(k, o, sishGranted[k], since)
    BY <1>5, <2>1
  <2>4. o.blocked = old.blocked /\ o.connections = old.connections
    BY <2>1
  <2> QED
    BY <1>8, <2>1, <2>2, <2>3, <2>4
<1>10. CASE /\ sishClock >= old.blocked /\ Sish!Put(k, bad, swept, sishClock, FALSE)
            /\ conn' = Sish!Disown(conn, swept)
  <2>1. /\ bad \in Sish!Entry /\ bad.tokens = filled.tokens /\ bad.updated = filled.updated
        /\ bad.connections = filled.connections
        /\ bad.blocked = filled.blocked \/ bad.blocked = sishClock + SishBlock
    <3>1. Violations \in Nat
      BY SishAssumption DEF Sish!ConnectionLimiterAssumption
    <3> QED
      BY <1>2, <1>6, <3>1, ViolatedIs
  <2> HIDE DEF bad
  <2>2. SishWithin(k, bad, sishGranted[k], since)
    BY <1>6, <2>1 DEF SishWithin
  <2> QED
    BY <1>6, <1>8, <1>10, <2>1, <2>2
<1>11. CASE /\ sishClock >= old.blocked /\ ~Sish!Limited(filled)
            /\ Sish!Put(k, new, swept, sishClock, TRUE)
            /\ conn' = [Sish!Disown(conn, swept) EXCEPT
                          ![c] = [state |-> "open", key |-> k, own |-> TRUE]]
  <2>1. /\ filled.tokens \in Int /\ filled.tokens >= 1 /\ filled.connections \in Nat /\ filled.connections < MaxConn
    BY <1>1, <1>6, <1>11 DEF Sish!Entry, Sish!Limited
  <2>2. /\ new \in Sish!Entry /\ new.tokens = filled.tokens - 1 /\ new.updated = filled.updated
        /\ new.blocked = filled.blocked /\ new.connections = filled.connections + 1
    <3> DEFINE t == filled.tokens - 1
               n == filled.connections + 1
    <3>1. t \in Int /\ n \in Nat /\ 0 \in Nat
      BY <2>1
    <3>2. new = [filled EXCEPT !.tokens = t, !.violations = 0, !.connections = n]
      BY <1>6 DEF Sish!Entry
    <3>3. t = filled.tokens - 1 /\ n = filled.connections + 1
      OBVIOUS
    <3> HIDE DEF t, n, new
    <3> QED
      BY <1>6, <3>1, <3>2, <3>3 DEF Sish!Entry
  <2> HIDE DEF new
  <2>3. SishWithin(k, new, sishGranted[k] + 1, since)
    <3> DEFINE b == BurstOf(k) + RateOf(k) * (filled.updated - since)
    <3>1. filled.tokens + sishGranted[k] <= b /\ new.tokens + (sishGranted[k] + 1) = filled.tokens + sishGranted[k]
      BY <1>5, <1>6, <2>1, <2>2 DEF SishWithin
    <3> HIDE DEF b
    <3>2. new.tokens + (sishGranted[k] + 1) <= b
      BY <3>1
    <3> QED
      BY <2>2, <3>2 DEF b, SishWithin
  <2>4. new.tokens >= 0
    BY <2>1, <2>2
  <2>5. /\ sishEntries' \in [Sish!Entities -> Sish!Entry \cup {None}]
        /\ sishUntil' \in [Sish!Entities -> Nat] /\ sishCreated' \in [Sish!Entities -> Nat]
        /\ sishGranted' \in [Sish!Entities -> Nat]
        /\ \A j \in Sish!Entities : SishKeyInv(j)'
        /\ SishBlockKept
        /\ \A j \in ConnKeys : j \notin swept /\ sishEntries[j] # None => sishEntries'[j] # None
        /\ \A j \in ConnKeys \ {k} : Count(j)' = Count(j)
        /\ sishEntries'[k] # None
        /\ Count(k)' = Count(k) + 1
    BY <1>6, <1>7, <1>11, <2>2, <2>3, <2>4
  <2>6. conn' \in [Conns -> Sish!Conn] /\ \A d \in Conns \ {c} : Disowned(d, swept)
    <3>1. [state |-> "open", key |-> k, own |-> TRUE] \in Sish!Conn
      BY DEF Sish!Conn
    <3> QED
      BY <1>11, <3>1, DisownIs DEF Disowned
  <2>7. conn'[c] = [state |-> "open", key |-> k, own |-> TRUE]
    BY <1>11, DisownIs
  <2>8. Count(k) < MaxConn
    BY <1>5, <1>6, <2>1
  <2>9. /\ \A d \in Conns : ConnInv(d)' /\ (conn'[d].state # "free" => conn'[d].key \in ConnKeys)
        /\ \A j \in ConnKeys : CountInv(j)'
    BY <1>3, <1>4, <2>5, <2>6, <2>7, <2>8, ConnOpened
  <2> QED
    BY <1>2, <1>3, <2>5, <2>6, <2>9, SishParts DEF Sish!TypeOK
<1> QED
  BY <1>3, <1>9, <1>10, <1>11

LEMMA SishClose ==
  ASSUME SishInv, NEW c \in Conns, Sish!Close(c)
  PROVE  SishInv' /\ SishBlockKept
<1>0. PICK k : k = conn[c].key
  OBVIOUS
<1> DEFINE released == Sish!Releases(c) /\ conn[c].own /\ sishEntries[k].connections > 0
<1>1. /\ Sish!TypeOK /\ \A r \in Requests : sishRequest[r].at <= sishClock
      /\ \A j \in Sish!Entities : SishKeyInv(j)
      /\ \A d \in Conns : ConnInv(d) /\ conn[d] \in Sish!Conn
                            /\ (conn[d].state # "free" => conn[d].key \in ConnKeys)
      /\ \A j \in ConnKeys : CountInv(j)
  BY DEF SishInv, Sish!TypeOK
<1>2. /\ conn[c].state \in {"open", "closed"} /\ k \in ConnKeys /\ k \in Sish!Entities
      /\ UNCHANGED <<sishClock, sishRequest, sishUntil, sishCreated, sishGranted>>
  BY <1>0, <1>1, SishConstants DEF Sish!Close, Sish!history
<1>3. /\ conn' \in [Conns -> Sish!Conn]
      /\ conn'[c].state = "closed" /\ conn'[c].key = k /\ conn'[c].own = conn[c].own
      /\ \A d \in Conns : d # c => conn'[d] = conn[d]
  <2>1. conn' = [conn EXCEPT ![c] = [conn[c] EXCEPT !.state = "closed"]]
    BY DEF Sish!Close
  <2>2. [conn[c] EXCEPT !.state = "closed"] \in Sish!Conn
    BY <1>1 DEF Sish!Conn
  <2> QED
    BY <1>0, <1>1, <2>1, <2>2 DEF Sish!TypeOK, Sish!Conn
<1>4. sishEntries' = IF released THEN [sishEntries EXCEPT ![k].connections = @ - 1] ELSE sishEntries
  BY <1>0 DEF Sish!Close
<1>5. /\ IsFiniteSet(Sish!Open(k)) /\ Cardinality(Sish!Open(k)) = Count(k)
      /\ Cardinality(Sish!Open(k)) <= MaxConn /\ Cardinality(Sish!Open(k)) \in Nat
  BY <1>1, <1>2, FS_CardinalityType DEF CountInv
<1>6. conn[c].state = "open" <=> c \in Sish!Open(k)
  BY <1>0 DEF Sish!Open
\* An open connection is released: its entry is there and counts it.
<1>7. released <=> conn[c].state = "open"
  <2>1. ASSUME conn[c].state = "open" PROVE released
    <3>1. conn[c].own /\ sishEntries[k] # None
      BY <1>0, <1>1, <2>1 DEF ConnInv
    <3>2. Cardinality(Sish!Open(k)) # 0
      BY <1>5, <1>6, <2>1, FS_EmptySet
    <3>3. sishEntries[k].connections > 0
      BY <1>5, <3>1, <3>2 DEF Count
    <3> QED
      BY <2>1, <3>1, <3>3 DEF Sish!Releases
  <2>2. released => conn[c].state = "open"
    BY DEF Sish!Releases
  <2> QED
    BY <2>1, <2>2
<1> HIDE DEF released
\* Entries stay entries, and only the count of k changes.
<1>8. /\ sishEntries' \in [Sish!Entities -> Sish!Entry \cup {None}]
      /\ \A j \in Sish!Entities :
           /\ sishEntries'[j] = None <=> sishEntries[j] = None
           /\ j # k => sishEntries'[j] = sishEntries[j]
           /\ sishEntries[j] # None => /\ sishEntries'[j].tokens = sishEntries[j].tokens
                                       /\ sishEntries'[j].updated = sishEntries[j].updated
                                       /\ sishEntries'[j].blocked = sishEntries[j].blocked
      /\ Count(k)' = Count(k) - (IF released THEN 1 ELSE 0)
  <2>1. CASE ~released
    <3>1. sishEntries' = sishEntries
      BY <1>4, <2>1
    <3>2. Count(k)' = Count(k) /\ Count(k) \in Nat
      BY <1>5, <3>1 DEF Count
    <3> QED
      BY <1>1, <2>1, <3>1, <3>2 DEF Sish!TypeOK
  <2>2. CASE released
    <3>1. sishEntries[k] # None /\ Count(k) # 0
      BY <1>5, <1>6, <1>7, <2>2, FS_EmptySet DEF Count
    <3>2. sishEntries[k] \in Sish!Entry /\ sishEntries[k].connections \in Nat
      BY <1>1, <1>2, <3>1 DEF Sish!TypeOK, Sish!Entry
    <3> DEFINE n == sishEntries[k].connections - 1
               e == [sishEntries[k] EXCEPT !.connections = n]
    <3>3. n \in Nat
      BY <1>5, <3>1, <3>2 DEF Count
    <3>4. sishEntries' = [sishEntries EXCEPT ![k] = e]
      BY <1>4, <2>2
    <3>5. n = sishEntries[k].connections - 1
      OBVIOUS
    <3> HIDE DEF n
    <3>6. /\ e \in Sish!Entry /\ e.connections = n /\ e.tokens = sishEntries[k].tokens
          /\ e.updated = sishEntries[k].updated /\ e.blocked = sishEntries[k].blocked
      BY <3>2, <3>3 DEF Sish!Entry
    <3> HIDE DEF e
    <3>7. e # None
      BY <3>6, SishConstants
    <3>8. sishEntries' \in [Sish!Entities -> Sish!Entry \cup {None}]
      BY <1>1, <1>2, <3>4, <3>6 DEF Sish!TypeOK
    <3>9. sishEntries'[k] = e /\ \A j \in Sish!Entities : j # k => sishEntries'[j] = sishEntries[j]
      BY <1>1, <1>2, <3>4 DEF Sish!TypeOK
    <3>10. Count(k)' = n /\ Count(k) = sishEntries[k].connections
      BY <3>1, <3>6, <3>7, <3>9 DEF Count
    <3> QED
      BY <2>2, <3>1, <3>2, <3>5, <3>6, <3>7, <3>8, <3>9, <3>10
  <2> QED
    BY <2>1, <2>2
<1>9. \A j \in Sish!Entities : SishKeyInv(j)'
  BY <1>1, <1>2, <1>8 DEF SishKeyInv, SishWithin
<1>10. ASSUME NEW d \in Conns
       PROVE  ConnInv(d)' /\ (conn'[d].state # "free" => conn'[d].key \in ConnKeys)
  <2>1. ConnInv(d) /\ (conn[d].state # "free" => conn[d].key \in ConnKeys)
    BY <1>1
  <2>2. \A j \in ConnKeys : sishEntries[j] # None => sishEntries'[j] # None
    BY <1>8, SishConstants
  <2>3. CASE d = c
    BY <1>0, <1>2, <1>3, <2>1, <2>2, <2>3 DEF ConnInv
  <2>4. CASE d # c
    BY <1>3, <2>1, <2>2, <2>4 DEF ConnInv
  <2> QED
    BY <2>3, <2>4
<1>11. ASSUME NEW j \in ConnKeys, j # k PROVE CountInv(j)'
  <2>1. Sish!Open(j)' = Sish!Open(j)
    BY <1>0, <1>3, <1>11 DEF Sish!Open
  <2>2. CountInv(j) /\ Count(j)' = Count(j)
    BY <1>1, <1>8, <1>11, SishConstants DEF Count
  <2> QED
    BY <2>1, <2>2 DEF CountInv
<1>12. CountInv(k)'
  <2>1. Sish!Open(k)' = Sish!Open(k) \ {c}
    BY <1>0, <1>3 DEF Sish!Open
  <2>2. /\ IsFiniteSet(Sish!Open(k) \ {c})
        /\ Cardinality(Sish!Open(k) \ {c}) =
             IF c \in Sish!Open(k) THEN Cardinality(Sish!Open(k)) - 1 ELSE Cardinality(Sish!Open(k))
    BY <1>5, FS_RemoveElement
  <2>3. /\ Cardinality(Sish!Open(k)') = Count(k)' /\ Cardinality(Sish!Open(k)') <= MaxConn
    BY <1>5, <1>6, <1>7, <1>8, <2>1, <2>2, SishConstants
  <2> QED
    BY <2>1, <2>2, <2>3 DEF CountInv
<1>13. \A j \in ConnKeys : CountInv(j)'
  BY <1>11, <1>12
<1>14. SishInv'
  BY <1>1, <1>2, <1>3, <1>8, <1>9, <1>10, <1>13, SishParts DEF Sish!TypeOK
<1> QED
  BY <1>1, <1>2, <1>14 DEF SishBlockKept, Sish!TypeOK

\* The steps that leave the table as it is.
LEMMA SishOutside ==
  ASSUME SishInv, UNCHANGED <<sishEntries, sishUntil, sishCreated, sishGranted>>,
         \/ Sish!Tick \/ UNCHANGED <<sishClock, conn, sishRequest>>
         \/ \E c \in Conns : Sish!Forget(c)
         \/ \E r \in Requests, k \in RequestKeys : Sish!Arrive(r, k)
  PROVE  SishInv' /\ SishBlockKept
<1>1. /\ Sish!TypeOK /\ sishClock \in Nat /\ \A r \in Requests : sishRequest[r].at <= sishClock
      /\ \A d \in Conns : ConnInv(d) /\ (conn[d].state # "free" => conn[d].key \in ConnKeys)
      /\ \A j \in ConnKeys : CountInv(j)
  BY DEF SishInv, Sish!TypeOK
<1>2. sishClock' \in Nat /\ sishClock' >= sishClock
  BY <1>1 DEF Sish!Tick, Sish!Forget, Sish!Arrive
<1>3. \A j \in Sish!Entities : SishKeyInv(j)'
  BY <1>2, SishClock
<1>4. /\ sishRequest' \in [Requests -> [key : RequestKeys \cup {None}, at : Nat]]
      /\ \A r \in Requests : sishRequest'[r].at <= sishClock'
  <2>1. CASE sishRequest' = sishRequest
    BY <1>1, <1>2, <2>1 DEF Sish!TypeOK
  <2>2. CASE \E r \in Requests, k \in RequestKeys : Sish!Arrive(r, k)
    <3>1. PICK r \in Requests, k \in RequestKeys : Sish!Arrive(r, k)
      BY <2>2
    <3>2. sishRequest' = [sishRequest EXCEPT ![r] = [key |-> k, at |-> sishClock]]
          /\ UNCHANGED sishClock
      BY <3>1 DEF Sish!Arrive
    <3> QED
      BY <1>1, <3>2 DEF Sish!TypeOK
  <2>3. sishRequest' = sishRequest \/ \E r \in Requests, k \in RequestKeys : Sish!Arrive(r, k)
    BY DEF Sish!Tick, Sish!Forget
  <2> QED
    BY <2>1, <2>2, <2>3
<1>5. /\ conn' \in [Conns -> Sish!Conn]
      /\ \A d \in Conns : \/ conn'[d] = conn[d]
                          \/ conn[d].state = "closed" /\ conn'[d] = Sish!NoConn
  <2>1. CASE conn' = conn
    BY <1>1, <2>1 DEF Sish!TypeOK
  <2>2. CASE \E c \in Conns : Sish!Forget(c)
    <3>1. PICK c \in Conns : Sish!Forget(c)
      BY <2>2
    <3>2. Sish!NoConn \in Sish!Conn
      BY DEF Sish!NoConn, Sish!Conn
    <3>3. conn[c].state = "closed" /\ conn' = [conn EXCEPT ![c] = Sish!NoConn]
      BY <3>1 DEF Sish!Forget
    <3> QED
      BY <1>1, <3>2, <3>3 DEF Sish!TypeOK
  <2>3. conn' = conn \/ \E c \in Conns : Sish!Forget(c)
    BY DEF Sish!Tick, Sish!Arrive
  <2> QED
    BY <2>1, <2>2, <2>3
<1>6. \A d \in Conns : ConnInv(d)' /\ (conn'[d].state # "free" => conn'[d].key \in ConnKeys)
  BY <1>1, <1>5 DEF ConnInv, Sish!NoConn
<1>7. \A j \in ConnKeys : Sish!Open(j)' = Sish!Open(j) /\ Count(j)' = Count(j)
  BY <1>5 DEF Sish!Open, Sish!NoConn, Count
<1>8. \A j \in ConnKeys : CountInv(j)'
  BY <1>1, <1>7 DEF CountInv
<1>9. SishInv'
  BY <1>1, <1>2, <1>3, <1>4, <1>5, <1>6, <1>8, SishParts DEF Sish!TypeOK
<1> QED
  BY <1>1, <1>9 DEF SishBlockKept, Sish!TypeOK

LEMMA SishRequestHandled ==
  ASSUME SishInv, NEW r \in Requests, Sish!AbuseAllow(r)
  PROVE  SishInv' /\ SishBlockKept
<1>1. /\ Sish!TypeOK /\ sishClock \in Nat /\ sishRequest[r].at <= sishClock
      /\ \A q \in Requests : sishRequest[q].at <= sishClock
  BY DEF SishInv, Sish!TypeOK
<1>2. PICK k \in RequestKeys, at \in Nat : k = sishRequest[r].key /\ at = sishRequest[r].at
  BY <1>1 DEF Sish!AbuseAllow, Sish!TypeOK
<1>3. /\ k \in Sish!Entities /\ k \notin ConnKeys /\ at <= sishClock
      /\ BurstOf(k) = RequestBurst /\ RateOf(k) = RequestRate
  BY <1>1, <1>2, SishConstants DEF BurstOf, RateOf
<1>4. PICK old : old = IF sishEntries[k] = None THEN Sish!Fresh(RequestBurst, at) ELSE sishEntries[k]
  OBVIOUS
<1>5. PICK e : e = Sish!Refilled(old, RequestBurst, RequestRate, at)
  OBVIOUS
<1>6. PICK since : since = Since(k, at)
  OBVIOUS
<1> DEFINE new == [e EXCEPT !.tokens = @ - 1, !.violations = 0]
           bad == Sish!Violated(e, RequestViolations, at)
<1>7. /\ sishRequest' = [sishRequest EXCEPT ![r] = Sish!NoCall] /\ UNCHANGED <<sishClock, conn>>
      /\ \/ Sish!Put(k, old, {}, at, FALSE)
         \/ ~(at < old.blocked) /\ Sish!Put(k, bad, {}, at, FALSE)
         \/ ~(at < old.blocked) /\ e.tokens >= 1 /\ Sish!Put(k, new, {}, at, TRUE)
  BY <1>2, <1>4, <1>5 DEF Sish!AbuseAllow, Sish!Blocked, Sish!Put
<1>8. old = Found(k, at)
  BY <1>3, <1>4 DEF Found
<1>9. /\ old \in Sish!Entry /\ since \in Nat /\ sishGranted[k] \in Nat
      /\ SishWithin(k, old, sishGranted[k], since)
  BY <1>3, <1>6, <1>8, FoundIs
<1>10. PICK got \in Nat : got = sishGranted[k]
  BY <1>9
<1>11. /\ e \in Sish!Entry /\ e.updated = at /\ e.blocked = old.blocked
       /\ SishWithin(k, e, got, since)
  <2>1. e = Sish!Refilled(old, BurstOf(k), RateOf(k), at)
    BY <1>3, <1>5
  <2>2. SishWithin(k, old, got, since)
    BY <1>9, <1>10
  <2>3. old \in Sish!Entry /\ since \in Nat
    BY <1>9
  <2>4. e \in Sish!Entry
    BY <2>1, <2>3, SishRefilledIs
  <2>5. e.updated = at /\ e.blocked = old.blocked
    BY <2>1, <2>3, SishRefilledIs
  <2>6. \A g \in Nat, t \in Nat : SishWithin(k, old, g, t) => SishWithin(k, e, g, t)
    BY <2>1, <2>3, SishRefilledIs
  <2> QED
    BY <2>2, <2>3, <2>4, <2>5, <2>6
\* What every case shows, with the entry n that it puts.
<1>12. ASSUME NEW n \in Sish!Entry, NEW admits \in BOOLEAN, Sish!Put(k, n, {}, at, admits),
              (n = old /\ ~admits) \/ (n.updated = at /\ ~(at < old.blocked)),
              n.blocked = old.blocked \/ n.blocked = at + SishBlock,
              admits => n.tokens >= 0,
              SishWithin(k, n, got + (IF admits THEN 1 ELSE 0), since)
       PROVE  SishInv' /\ SishBlockKept
  <2>1. old.blocked \in Nat
    BY <1>9 DEF Sish!Entry
  <2>2. /\ sishEntries' \in [Sish!Entities -> Sish!Entry \cup {None}]
        /\ sishUntil' \in [Sish!Entities -> Nat] /\ sishCreated' \in [Sish!Entities -> Nat]
        /\ sishGranted' \in [Sish!Entities -> Nat]
        /\ \A j \in Sish!Entities : j # k => sishEntries'[j] = sishEntries[j]
        /\ \A j \in Sish!Entities : SishKeyInv(j)'
        /\ SishBlockKept
    <3>1. (n = Found(k, at) /\ ~admits) \/ (n.updated = at /\ at >= Found(k, at).blocked)
      BY <1>8, <1>12, <2>1
    <3>2. n.blocked = Found(k, at).blocked \/ n.blocked = at + SishBlock
      BY <1>8, <1>12
    <3>3. SishWithin(k, n, sishGranted[k] + (IF admits THEN 1 ELSE 0), Since(k, at))
      BY <1>6, <1>10, <1>12
    <3>4. k \notin {} /\ UNCHANGED sishClock
          /\ \A i \in {} : sishEntries[i] # None /\ sishClock - sishEntries[i].updated > Idle
      BY <1>7
    <3>5. \A j \in Sish!Entities :
            j # k => sishEntries'[j] = IF j \in {} THEN None ELSE sishEntries[j]
      BY <1>12 DEF Sish!Put
    <3> QED
      BY <1>3, <1>12, <3>1, <3>2, <3>3, <3>4, <3>5, PutKeeps
  <2>3. \A j \in ConnKeys : Count(j)' = Count(j) /\ (sishEntries[j] # None => sishEntries'[j] # None)
    BY <1>3, <2>2, SishConstants DEF Count
  <2>4. conn' \in [Conns -> Sish!Conn] /\ \A c \in Conns : Disowned(c, {})
    BY <1>1, <1>7 DEF Disowned, Sish!TypeOK, Sish!Conn
  <2>5. /\ \A c \in Conns : ConnInv(c)' /\ (conn'[c].state # "free" => conn'[c].key \in ConnKeys)
        /\ \A j \in ConnKeys : CountInv(j)'
    BY <2>3, <2>4, ConnsKept
  <2>6. /\ sishRequest' \in [Requests -> [key : RequestKeys \cup {None}, at : Nat]]
        /\ \A q \in Requests : sishRequest'[q].at <= sishClock'
    BY <1>1, <1>7 DEF Sish!TypeOK, Sish!NoCall
  <2> QED
    BY <1>1, <1>7, <2>2, <2>4, <2>5, <2>6, SishParts
<1>13. CASE Sish!Put(k, old, {}, at, FALSE)
  <2>1. SishWithin(k, old, got + 0, since)
    BY <1>9, <1>10
  <2> QED
    BY <1>9, <1>12, <1>13, <2>1
<1>14. CASE ~(at < old.blocked) /\ Sish!Put(k, bad, {}, at, FALSE)
  <2>1. /\ bad \in Sish!Entry /\ bad.updated = e.updated /\ bad.tokens = e.tokens
        /\ bad.blocked = e.blocked \/ bad.blocked = at + SishBlock
    <3>1. RequestViolations \in Nat
      BY SishAssumption DEF Sish!ConnectionLimiterAssumption
    <3>2. at \in Nat /\ e \in Sish!Entry
      BY <1>2, <1>11
    <3>3. bad = Sish!Violated(e, RequestViolations, at)
      OBVIOUS
    <3> HIDE DEF bad
    <3> QED
      BY <3>1, <3>2, <3>3, ViolatedIs
  <2> HIDE DEF bad
  <2>2. SishWithin(k, bad, got + 0, since)
    BY <1>11, <2>1 DEF SishWithin
  <2> QED
    BY <1>11, <1>12, <1>14, <2>1, <2>2
<1>15. CASE ~(at < old.blocked) /\ e.tokens >= 1 /\ Sish!Put(k, new, {}, at, TRUE)
  <2>1. e.tokens \in Int
    BY <1>11 DEF Sish!Entry
  <2>2. new \in Sish!Entry /\ new.tokens = e.tokens - 1 /\ new.updated = e.updated
        /\ new.blocked = e.blocked
    <3> DEFINE t == e.tokens - 1
    <3>1. t \in Int /\ 0 \in Nat /\ new = [e EXCEPT !.tokens = t, !.violations = 0]
      BY <1>11, <2>1 DEF Sish!Entry
    <3>2. t = e.tokens - 1
      OBVIOUS
    <3> HIDE DEF t, new
    <3> QED
      BY <1>11, <3>1, <3>2 DEF Sish!Entry
  <2> HIDE DEF new
  <2>3. SishWithin(k, new, got + 1, since)
    <3> DEFINE b == BurstOf(k) + RateOf(k) * (e.updated - since)
    <3>1. e.tokens + got <= b /\ new.tokens + (got + 1) = e.tokens + got
      BY <1>11, <2>1, <2>2 DEF SishWithin
    <3> HIDE DEF b
    <3>2. new.tokens + (got + 1) <= b
      BY <3>1
    <3> QED
      BY <2>2, <3>2 DEF b, SishWithin
  <2>4. new.tokens >= 0
    BY <1>15, <2>1, <2>2
  <2> QED
    BY <1>11, <1>12, <1>15, <2>2, <2>3, <2>4
<1> QED
  BY <1>7, <1>13, <1>14, <1>15

LEMMA SishNext == SishInv /\ [Sish!Next]_sishVars => SishInv' /\ SishBlockKept
<1> SUFFICES ASSUME SishInv, [Sish!Next]_sishVars PROVE SishInv' /\ SishBlockKept
  OBVIOUS
<1>1. CASE \E k \in ConnKeys : Sish!AcceptRefused(k) \/ \E c \in Conns : Sish!allowConnection(c, k)
  BY <1>1, SishRefuse, SishAccept
<1>2. CASE \E c \in Conns : Sish!Close(c)
  BY <1>2, SishClose
<1>3. CASE \E r \in Requests : Sish!AbuseAllow(r)
  BY <1>3, SishRequestHandled
<1>4. CASE \/ Sish!Tick \/ UNCHANGED sishVars
           \/ \E c \in Conns : Sish!Forget(c)
           \/ \E r \in Requests, k \in RequestKeys : Sish!Arrive(r, k)
  <2>1. /\ UNCHANGED <<sishEntries, sishUntil, sishCreated, sishGranted>>
        /\ \/ Sish!Tick \/ UNCHANGED <<sishClock, conn, sishRequest>>
           \/ \E c \in Conns : Sish!Forget(c)
           \/ \E r \in Requests, k \in RequestKeys : Sish!Arrive(r, k)
    BY <1>4 DEF Sish!Tick, Sish!Forget, Sish!Arrive, Sish!history, sishVars
  <2> QED
    BY <2>1, SishOutside
<1> QED
  BY <1>1, <1>2, <1>3, <1>4 DEF Sish!Next

\* What the instance calls the cardinality of a set is its cardinality.
LEMMA SameCardinality == \A S : Sish!Cardinality(S) = Cardinality(S)
BY Zenon DEF Sish!Cardinality, Cardinality

LEMMA SishPromises == SishInv => Sish!RateHolds /\ Sish!ConnectionsCounted
<1> SUFFICES ASSUME SishInv PROVE Sish!RateHolds /\ Sish!ConnectionsCounted
  OBVIOUS
<1>1. Sish!ConnectionsCounted
  <2> SUFFICES ASSUME NEW k \in ConnKeys
               PROVE  /\ Cardinality(Sish!Open(k)) = Count(k)
                      /\ Cardinality(Sish!Open(k)) <= MaxConn
    BY SameCardinality DEF Sish!ConnectionsCounted, Count
  <2> QED
    BY DEF SishInv, CountInv
<1>2. ASSUME NEW k \in Sish!Table
      PROVE  sishGranted[k] <=
               IF k \in ConnKeys THEN Burst + Rate * (sishClock - sishCreated[k])
                                 ELSE RequestBurst + RequestRate * (sishClock - sishCreated[k])
  BY DEF SishInv, SishKeyInv, Sish!Table, BurstOf, RateOf
<1> QED
  BY <1>1, <1>2 DEF Sish!RateHolds

-----------------------------------------------------------------------------
(* Both limiters                                                           *)

LimitersInv == WebInv /\ SishInv

LEMMA LimitersStart == LimitersInit => LimitersInv
BY WebInit, SishInit DEF LimitersInit, LimitersInv

LEMMA LimitersStep ==
  LimitersInv /\ [LimitersNext]_<<side, vars, sishVars>>
    => LimitersInv' /\ BlockKept /\ SishBlockKept
<1> SUFFICES ASSUME LimitersInv, [LimitersNext]_<<side, vars, sishVars>>
             PROVE  LimitersInv' /\ BlockKept /\ SishBlockKept
  OBVIOUS
<1>1. [Next]_vars /\ [Sish!Next]_sishVars
  BY DEF LimitersNext
<1> QED
  BY <1>1, WebNext, SishNext DEF LimitersInv

LEMMA LimitersAlways == LimitersSpec => []LimitersInv
BY LimitersStart, LimitersStep, PTL DEF LimitersSpec

\* Both limiters only hold what their code can hold: a bucket never has more
\* than its capacity (allow, allowConnection, AbuseAllow).
THEOREM LimitersTyped == LimitersSpec => []LimitersTypeOK
<1>1. LimitersInv => LimitersTypeOK
  BY DEF LimitersInv, WebInv, SishInv, LimitersTypeOK
<1> QED
  BY <1>1, LimitersAlways, PTL

\* The web server's table has no more entries than it may, however many
\* clients there are: a full table evicts before it takes one more (allow).
THEOREM TableStaysBounded == LimitersSpec => []TableBounded
<1>1. LimitersInv => TableBounded
  BY DEF LimitersInv, WebInv, TableBounded
<1> QED
  BY <1>1, LimitersAlways, PTL

\* No client of either limiter gets more than its burst and what was refilled
\* since its entry was made, in whatever order the requests get to the table
\* with the times that they read (allow, allowConnection, AbuseAllow).
THEOREM RatesHold == LimitersSpec => []LimitersRateHolds
<1>1. LimitersInv => LimitersRateHolds
  BY WebRate, SishPromises DEF LimitersInv, LimitersRateHolds
<1> QED
  BY <1>1, LimitersAlways, PTL

\* sish counts exactly the connections that are open: no count is lost with an
\* entry that is swept, none is given back twice (allowConnection, Close).
THEOREM ConnectionsAreCounted == LimitersSpec => []ConnectionsCounted
<1>1. LimitersInv => ConnectionsCounted
  BY SishPromises DEF LimitersInv, ConnectionsCounted
<1> QED
  BY <1>1, LimitersAlways, PTL

\* Nothing is admitted from a client that is blocked, in either limiter.
THEOREM BlocksStand == LimitersSpec => LimitersBlockStands
<1>1. LimitersInv /\ [LimitersNext]_<<side, vars, sishVars>> =>
        [\A k \in Keys : granted'[k] > granted[k] => clock >= until[k]]_vars
  BY LimitersStep DEF BlockKept
<1>2. LimitersInv /\ [LimitersNext]_<<side, vars, sishVars>> =>
        [\A k \in Sish!Entities :
           sishGranted'[k] > sishGranted[k] => sishClock >= sishUntil[k]]_(Sish!vars)
  BY LimitersStep DEF SishBlockKept
<1> QED
  BY <1>1, <1>2, LimitersAlways, PTL DEF LimitersSpec, LimitersBlockStands, BlockStands, Sish!BlockStands
=============================================================================

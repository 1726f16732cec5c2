------------------------- MODULE ReservationsProofs -------------------------
(***************************************************************************)
(* Proofs about Reservations, for any users, calls, labels and inputs.     *)
(* Only the last two theorems look into what the conversions compute.      *)
(***************************************************************************)
EXTENDS NamesProofs

rest == <<active, rows, nextId, systemLabels, label, zone>>

LEMMA IdleType == Idle \in Call /\ Fits(Idle)
  BY ReservationsAssumption DEF Idle, Call, Kinds, Fits

LEMMA InitType == Init => TypeOK
  BY IdleType, ReservationsAssumption DEF Init, TypeOK, Kinds

LEMMA StepType ==
  ASSUME TypeOK, NEW c \in Calls, NEW k \in Call, Fits(k), Step(c, k)
  PROVE  call' \in [Calls -> Call] /\ \A d \in Calls : Fits(call'[d])
  BY DEF TypeOK, Step

\* The steps of a call that leave the tables alone.
LEMMA QuietType ==
  ASSUME TypeOK, NEW c \in Calls, NEW k \in Call, Fits(k), Step(c, k), UNCHANGED rest
  PROVE  TypeOK'
  BY StepType DEF TypeOK, rest

LEMMA ReserveType ==
  ASSUME TypeOK, NEW c \in Calls, NEW u \in Users
  PROVE  /\ \A n \in Names : ReserveSubdomain(c, u, n) => TypeOK'
         /\ \A p \in Ports : ReserveTCPPort(c, u, p) => TypeOK'
<1>1. ASSUME NEW n \in Names, ReserveSubdomain(c, u, n) PROVE TypeOK'
  <2> DEFINE k == [Idle EXCEPT !.pc = "list", !.user = u, !.what = n]
  <2>1. k \in Call /\ Fits(k)
    BY IdleType DEF Idle, Call, Fits
  <2> QED
    BY <1>1, <2>1, QuietType DEF ReserveSubdomain, rest
<1>2. ASSUME NEW p \in Ports, ReserveTCPPort(c, u, p) PROVE TypeOK'
  <2> DEFINE k == [Idle EXCEPT !.pc = "insert", !.kind = "tcp_port", !.user = u, !.what = p]
  <2>1. k \in Call /\ Fits(k)
    BY IdleType DEF Idle, Call, Kinds, Fits
  <2> QED
    BY <1>2, <2>1, QuietType DEF ReserveTCPPort, rest
<1> QED
  BY <1>1, <1>2

LEMMA ListType ==
  ASSUME TypeOK, NEW c \in Calls, AllSubdomains(c)
  PROVE  TypeOK'
<1> DEFINE hit == call[c].what \in zone
           k   == [call[c] EXCEPT !.pc = "dns", !.hit = hit]
<1>1. call[c] \in Call /\ Fits(call[c]) /\ call[c].pc = "list"
  BY DEF TypeOK, AllSubdomains
<1>2. k \in Call /\ Fits(k)
  <2>1. hit \in BOOLEAN
    OBVIOUS
  <2> HIDE DEF hit
  <2>2. k \in Call
    BY <1>1, <2>1 DEF Call
  <2>3. k.user = call[c].user /\ k.what = call[c].what
    BY <1>1 DEF Call
  <2> QED
    BY <1>1, <2>2, <2>3 DEF Fits
<1>3. Step(c, Idle) \/ Step(c, k)
  BY DEF AllSubdomains
<1> HIDE DEF k
<1> QED
  BY <1>2, <1>3, IdleType, QuietType DEF AllSubdomains, rest

LEMMA CheckType ==
  ASSUME TypeOK, NEW c \in Calls, NEW S \in SUBSET Names, NEW next, HasExactRecord(c, S, next)
  PROVE  TypeOK'
<1> DEFINE free == [call[c] EXCEPT !.pc = "insert", !.pages = 0, !.listed = {}]
           more == [call[c] EXCEPT !.pages = @ + 1, !.listed = @ \cup S]
<1>1. call[c] \in Call /\ Fits(call[c]) /\ call[c].pc = "dns"
  BY DEF TypeOK, HasExactRecord
<1>2. free \in Call /\ Fits(free)
  <2>1. 0 \in 0..MaxPages /\ {} \in SUBSET Names
    BY ReservationsAssumption
  <2>2. free \in Call
    BY <1>1, <2>1 DEF Call
  <2>3. free.user = call[c].user /\ free.what = call[c].what
    BY <1>1 DEF Call
  <2> QED
    BY <1>1, <2>2, <2>3 DEF Fits
<1>3. Step(c, Idle) \/ Step(c, free) \/ (Step(c, more) /\ call[c].pages + 1 < MaxPages)
  BY DEF HasExactRecord
<1>4. ASSUME call[c].pages + 1 < MaxPages PROVE more \in Call /\ Fits(more)
  <2>1. call[c].pages + 1 \in 0..MaxPages
    BY <1>1, <1>4, ReservationsAssumption DEF Call
  <2>2. (call[c].listed \cup S) \in SUBSET Names
    BY <1>1 DEF Call
  <2>3. more \in Call
    BY <1>1, <2>1, <2>2 DEF Call
  <2>4. more.pc = call[c].pc /\ more.user = call[c].user /\ more.what = call[c].what
    BY <1>1 DEF Call
  <2> QED
    BY <1>1, <2>3, <2>4 DEF Fits
<1>5. UNCHANGED rest
  BY DEF HasExactRecord, rest
<1> HIDE DEF free, more
<1> QED
  BY <1>2, <1>3, <1>4, <1>5, IdleType, QuietType

\* The new row of Insert.
Added(c) == [id |-> nextId[call[c].kind], user |-> call[c].user, what |-> call[c].what]

LEMMA InsertType ==
  ASSUME TypeOK, NEW c \in Calls, Insert(c)
  PROVE  TypeOK'
<1>0. call[c] \in Call /\ Fits(call[c]) /\ call[c].pc = "insert"
  BY DEF TypeOK, Insert
<1>1. call[c].kind \in Kinds /\ nextId[call[c].kind] \in 1..(MaxId + 1)
  BY <1>0 DEF TypeOK, Call
<1>2. CASE UNCHANGED <<rows, nextId>>
  BY <1>2, IdleType, QuietType DEF Insert, rest
<1>3. CASE /\ rows' = [rows EXCEPT ![call[c].kind] = @ \cup {Added(c)}]
           /\ nextId' = [nextId EXCEPT ![call[c].kind] = @ + 1]
  <2>0. Added(c) \in Row
    BY <1>0, <1>1 DEF Added, Row, Fits, Insert
  <2>1. rows' \in [Kinds -> SUBSET Row]
    BY <1>1, <1>3, <2>0 DEF TypeOK
  <2>2. nextId[call[c].kind] + 1 \in 1..(MaxId + 1)
    BY <1>1, ReservationsAssumption DEF Insert
  <2>3. nextId' \in [Kinds -> 1..(MaxId + 1)]
    BY <1>1, <1>3, <2>2 DEF TypeOK
  <2>4. call' \in [Calls -> Call] /\ \A d \in Calls : Fits(call'[d])
    BY IdleType, StepType DEF Insert
  <2> QED
    BY <2>1, <2>3, <2>4 DEF TypeOK, Insert
<1> QED
  BY <1>1, <1>2, <1>3 DEF Insert, FreshId, Added

LEMMA ReleaseType ==
  ASSUME TypeOK, NEW c \in Calls, NEW kind \in Kinds, NEW u \in Users, NEW admin \in BOOLEAN,
         Release(c, kind, u, admin)
  PROVE  TypeOK'
<1>1. PICK r \in rows[kind] :
        Step(c, [Idle EXCEPT !.pc = "delete", !.kind = kind, !.user = u, !.admin = admin,
                             !.what = r.what, !.id = r.id])
  BY DEF Release
<1> DEFINE k == [Idle EXCEPT !.pc = "delete", !.kind = kind, !.user = u, !.admin = admin,
                             !.what = r.what, !.id = r.id]
<1>2. r.what \in Names \cup Ports /\ r.id \in 0..MaxId
  BY ReservationsAssumption DEF TypeOK, Row
<1>3. k \in Call /\ Fits(k)
  BY <1>2, IdleType DEF Idle, Call, Fits
<1> QED
  BY <1>1, <1>3, QuietType DEF Release, rest

LEMMA DeleteType ==
  ASSUME TypeOK, NEW c \in Calls, Delete(c)
  PROVE  TypeOK'
<1>1. rows' \in [Kinds -> SUBSET Row]
  BY DEF Delete, TypeOK
<1>2. call' \in [Calls -> Call] /\ \A d \in Calls : Fits(call'[d])
  BY IdleType, StepType DEF Delete
<1> QED
  BY <1>1, <1>2 DEF Delete, TypeOK

LEMMA OutsideType ==
  ASSUME TypeOK
  PROVE  /\ \A u \in Users : SetUserStatus(u) => TypeOK'
         /\ \A l \in SystemLabels : EnsureSystemResources(l) => TypeOK'
         /\ \A n \in Names : ChangeZone(n) => TypeOK'
<1>1. ASSUME NEW u \in Users, SetUserStatus(u) PROVE TypeOK'
  BY <1>1 DEF SetUserStatus, TypeOK
<1>2. ASSUME NEW l \in SystemLabels, EnsureSystemResources(l) PROVE TypeOK'
  BY <1>2, IdleType DEF EnsureSystemResources, Registered, TypeOK
<1>3. ASSUME NEW n \in Names, ChangeZone(n) PROVE TypeOK'
  <2>1. ASSUME NEW c \in Calls
        PROVE  call'[c] \in Call /\ Fits(call'[c])
    <3> DEFINE hit == call[c].hit /\ call[c].what # n
    <3>1. call[c] \in Call /\ Fits(call[c]) /\ hit \in BOOLEAN
      BY DEF TypeOK
    <3>2. call'[c] = [call[c] EXCEPT !.hit = hit]
      BY <1>3 DEF ChangeZone
    <3> HIDE DEF hit
    <3>3. call'[c] \in Call
      BY <3>1, <3>2 DEF Call
    <3>4. call'[c].pc = call[c].pc /\ call'[c].user = call[c].user /\ call'[c].what = call[c].what
      BY <3>1, <3>2 DEF Call
    <3> QED
      BY <3>1, <3>3, <3>4 DEF Fits
  <2>2. call' \in [Calls -> Call]
    BY <1>3, <2>1 DEF ChangeZone
  <2> QED
    BY <1>3, <2>1, <2>2 DEF ChangeZone, TypeOK
<1> QED
  BY <1>1, <1>2, <1>3

LEMMA NextType == TypeOK /\ [Next]_vars => TypeOK'
<1> SUFFICES ASSUME TypeOK, [Next]_vars PROVE TypeOK'
  OBVIOUS
<1>1. ASSUME NEW c \in Calls, Fail(c) PROVE TypeOK'
  BY <1>1, IdleType, QuietType DEF Fail, rest
<1>2. CASE UNCHANGED vars
  BY <1>2 DEF vars, TypeOK
<1> QED
  BY <1>1, <1>2, ReserveType, ListType, CheckType, InsertType, ReleaseType, DeleteType,
     OutsideType DEF Next

\* TypeOK for every value of the constants: what calls keep between their
\* steps, the rows and the ids.
THEOREM TypeCorrect == Spec => []TypeOK
BY InitType, NextType, PTL DEF Spec

-----------------------------------------------------------------------------
(* The label of the control plane                                          *)

\* A running process has the only system label, and what its calls are about
\* to reserve is another name.
LabelInv ==
  /\ label # None => systemLabels = {label}
  /\ \A c \in Calls : /\ call[c].pc \in {"list", "dns", "insert"}
                      /\ call[c].kind = "subdomain"
                      => call[c].what \notin systemLabels
  /\ SystemLabelsUnowned

LEMMA LabelInit == Init => LabelInv
  BY DEF Init, LabelInv, SystemLabelsUnowned, Reserved, Idle, Kinds

\* A call that goes on with the same name.
LEMMA LabelKept ==
  ASSUME TypeOK, LabelInv, NEW c \in Calls, NEW k, Step(c, k),
         UNCHANGED <<rows, systemLabels, label>>,
         k.pc \in {"list", "dns", "insert"} /\ k.kind = "subdomain" => k.what \notin systemLabels
  PROVE  LabelInv'
<1>1. \A d \in Calls : call'[d] = call[d] \/ call'[d] = k
  BY DEF Step, TypeOK
<1> QED
  BY <1>1 DEF LabelInv, SystemLabelsUnowned, Reserved

LEMMA IdleIsIdle == Idle.pc = "idle"
  BY DEF Idle

LEMMA LabelCalls ==
  ASSUME TypeOK, LabelInv, NEW c \in Calls
  PROVE  /\ AllSubdomains(c) => LabelInv'
         /\ \A S \in SUBSET Names, next \in Continuations : HasExactRecord(c, S, next) => LabelInv'
         /\ \A u \in Users, n \in Names : ReserveSubdomain(c, u, n) => LabelInv'
         /\ \A u \in Users, n \in Ports : ReserveTCPPort(c, u, n) => LabelInv'
         /\ \A kind \in Kinds, u \in Users, admin \in BOOLEAN :
              Release(c, kind, u, admin) => LabelInv'
         /\ Fail(c) => LabelInv'
<1>0. call[c] \in Call
  BY DEF TypeOK
<1>1. ASSUME AllSubdomains(c) PROVE LabelInv'
  <2> DEFINE k == [call[c] EXCEPT !.pc = "dns", !.hit = call[c].what \in zone]
  <2>1. k.kind = call[c].kind /\ k.what = call[c].what /\ call[c].pc = "list"
    BY <1>0, <1>1 DEF Call, AllSubdomains
  <2>2. Step(c, Idle) \/ Step(c, k)
    BY <1>1 DEF AllSubdomains
  <2>3. k.kind = "subdomain" => k.what \notin systemLabels
    BY <2>1 DEF LabelInv
  <2>4. UNCHANGED <<rows, systemLabels, label>>
    BY <1>1 DEF AllSubdomains
  <2> HIDE DEF k
  <2> QED
    BY <2>2, <2>3, <2>4, IdleIsIdle, LabelKept
<1>2. ASSUME NEW S \in SUBSET Names, NEW next \in Continuations, HasExactRecord(c, S, next)
      PROVE  LabelInv'
  <2> DEFINE free == [call[c] EXCEPT !.pc = "insert", !.pages = 0, !.listed = {}]
             more == [call[c] EXCEPT !.pages = @ + 1, !.listed = @ \cup S]
  <2>1. /\ free.kind = call[c].kind /\ free.what = call[c].what
        /\ more.kind = call[c].kind /\ more.what = call[c].what /\ call[c].pc = "dns"
    BY <1>0, <1>2 DEF Call, HasExactRecord
  <2>2. Step(c, Idle) \/ Step(c, free) \/ Step(c, more)
    BY <1>2 DEF HasExactRecord
  <2>3. call[c].kind = "subdomain" => call[c].what \notin systemLabels
    BY <2>1 DEF LabelInv
  <2>4. UNCHANGED <<rows, systemLabels, label>>
    BY <1>2 DEF HasExactRecord
  <2> HIDE DEF free, more
  <2> QED
    BY <2>1, <2>2, <2>3, <2>4, IdleIsIdle, LabelKept
<1>3. ASSUME NEW u \in Users, NEW n \in Names, ReserveSubdomain(c, u, n) PROVE LabelInv'
  <2> DEFINE k == [Idle EXCEPT !.pc = "list", !.user = u, !.what = n]
  <2>1. k.what = n
    BY DEF Idle
  <2>2. n \notin systemLabels
    BY <1>3 DEF ReserveSubdomain, Reservable, LabelInv
  <2>3. Step(c, k) /\ UNCHANGED <<rows, systemLabels, label>>
    BY <1>3 DEF ReserveSubdomain
  <2> HIDE DEF k
  <2> QED
    BY <2>1, <2>2, <2>3, LabelKept
<1>4. ASSUME NEW u \in Users, NEW n \in Ports, ReserveTCPPort(c, u, n) PROVE LabelInv'
  <2> DEFINE k == [Idle EXCEPT !.pc = "insert", !.kind = "tcp_port", !.user = u, !.what = n]
  <2>1. k.kind = "tcp_port"
    BY DEF Idle
  <2>2. Step(c, k) /\ UNCHANGED <<rows, systemLabels, label>>
    BY <1>4 DEF ReserveTCPPort
  <2> HIDE DEF k
  <2> QED
    BY <2>1, <2>2, LabelKept
<1>5. ASSUME NEW kind \in Kinds, NEW u \in Users, NEW admin \in BOOLEAN,
             Release(c, kind, u, admin)
      PROVE  LabelInv'
  <2>1. PICK r \in rows[kind] :
          Step(c, [Idle EXCEPT !.pc = "delete", !.kind = kind, !.user = u, !.admin = admin,
                               !.what = r.what, !.id = r.id])
    BY <1>5 DEF Release
  <2> DEFINE k == [Idle EXCEPT !.pc = "delete", !.kind = kind, !.user = u, !.admin = admin,
                               !.what = r.what, !.id = r.id]
  <2>2. k.pc = "delete"
    BY DEF Idle
  <2>3. UNCHANGED <<rows, systemLabels, label>>
    BY <1>5 DEF Release
  <2> HIDE DEF k
  <2> QED
    BY <2>1, <2>2, <2>3, LabelKept DEF k
<1>6. ASSUME Fail(c) PROVE LabelInv'
  BY <1>6, IdleIsIdle, LabelKept DEF Fail
<1> QED
  BY <1>1, <1>2, <1>3, <1>4, <1>5, <1>6

LEMMA LabelTables ==
  ASSUME TypeOK, LabelInv, NEW c \in Calls
  PROVE  (Insert(c) => LabelInv') /\ (Delete(c) => LabelInv')
<1>0. call[c] \in Call /\ call[c].kind \in Kinds
  BY DEF TypeOK, Call
<1>1. ASSUME Insert(c) PROVE LabelInv'
  <2>1. \A d \in Calls : call'[d] = call[d] \/ call'[d] = Idle
    BY <1>1 DEF Insert, Step, TypeOK
  <2>2. call[c].kind = "subdomain" => call[c].what \notin systemLabels
    BY <1>1 DEF Insert, LabelInv
  <2>3. rows'["subdomain"] \subseteq rows["subdomain"] \cup {Added(c)}
    BY <1>0, <1>1 DEF Insert, FreshId, Added, TypeOK, Kinds
  <2>4. call[c].kind # "subdomain" => rows'["subdomain"] = rows["subdomain"]
    BY <1>0, <1>1 DEF Insert, TypeOK, Kinds
  <2>5. Added(c).what = call[c].what
    BY DEF Added
  <2>6. systemLabels \cap {r.what : r \in rows'["subdomain"]} = {}
    BY <2>2, <2>3, <2>4, <2>5 DEF LabelInv, SystemLabelsUnowned, Reserved
  <2>7. UNCHANGED <<systemLabels, label>>
    BY <1>1 DEF Insert
  <2> QED
    BY <2>1, <2>6, <2>7, IdleIsIdle DEF LabelInv, SystemLabelsUnowned, Reserved
<1>2. ASSUME Delete(c) PROVE LabelInv'
  <2>1. \A d \in Calls : call'[d] = call[d] \/ call'[d] = Idle
    BY <1>2 DEF Delete, Step, TypeOK
  <2>2. rows'["subdomain"] \subseteq rows["subdomain"]
    BY <1>0, <1>2 DEF Delete, TypeOK, Kinds
  <2>3. systemLabels \cap {r.what : r \in rows'["subdomain"]} = {}
    BY <2>2 DEF LabelInv, SystemLabelsUnowned, Reserved
  <2>4. UNCHANGED <<systemLabels, label>>
    BY <1>2 DEF Delete
  <2> QED
    BY <2>1, <2>3, <2>4, IdleIsIdle DEF LabelInv, SystemLabelsUnowned, Reserved
<1> QED
  BY <1>1, <1>2

LEMMA LabelOutside ==
  ASSUME TypeOK, LabelInv
  PROVE  /\ \A u \in Users : SetUserStatus(u) => LabelInv'
         /\ \A l \in SystemLabels : EnsureSystemResources(l) => LabelInv'
         /\ \A n \in Names : ChangeZone(n) => LabelInv'
<1>1. ASSUME NEW u \in Users, SetUserStatus(u) PROVE LabelInv'
  BY <1>1 DEF SetUserStatus, LabelInv, SystemLabelsUnowned, Reserved
<1>2. ASSUME NEW l \in SystemLabels, EnsureSystemResources(l) PROVE LabelInv'
  BY <1>2, IdleIsIdle
  DEF EnsureSystemResources, Registered, Unowned, LabelInv, SystemLabelsUnowned, Reserved
<1>3. ASSUME NEW n \in Names, ChangeZone(n) PROVE LabelInv'
  <2>1. \A c \in Calls : /\ call'[c].pc = call[c].pc /\ call'[c].kind = call[c].kind
                         /\ call'[c].what = call[c].what
    BY <1>3 DEF ChangeZone, TypeOK, Call
  <2>2. UNCHANGED <<rows, systemLabels, label>>
    BY <1>3 DEF ChangeZone
  <2> QED
    BY <2>1, <2>2 DEF LabelInv, SystemLabelsUnowned, Reserved
<1> QED
  BY <1>1, <1>2, <1>3

LEMMA LabelNext == TypeOK /\ LabelInv /\ [Next]_vars => LabelInv'
<1> SUFFICES ASSUME TypeOK, LabelInv, [Next]_vars PROVE LabelInv'
  OBVIOUS
<1>1. CASE UNCHANGED vars
  BY <1>1 DEF vars, LabelInv, SystemLabelsUnowned, Reserved
<1> QED
  BY <1>1, LabelCalls, LabelTables, LabelOutside DEF Next

\* No label is the control plane's and a user's. The invariant says of the
\* calls in progress that they have not lost the comparison with the label.
THEOREM SystemLabelsNeverOwned == Spec => []SystemLabelsUnowned
<1>1. TypeOK /\ LabelInv /\ [Next]_vars => TypeOK' /\ LabelInv'
  BY NextType, LabelNext
<1>2. LabelInv => SystemLabelsUnowned
  BY DEF LabelInv
<1> QED
  BY InitType, LabelInit, <1>1, <1>2, PTL DEF Spec

-----------------------------------------------------------------------------
(* Releases                                                                *)

\* What a call is about to delete, if it is still there, is what it has read.
Right(k, t) ==
  /\ k.id < nextId[k.kind]
  /\ \A r \in t[k.kind] : r.id = k.id => r.what = k.what /\ (k.admin \/ k.user = r.user)

IdInv ==
  /\ \A kind \in Kinds : \A r \in rows[kind] : r.id < nextId[kind]
  /\ \A kind \in Kinds : \A r, s \in rows[kind] : r.id = s.id => r = s
  /\ \A c \in Calls : call[c].pc = "delete" => Right(call[c], rows)

LEMMA IdInit == Init => IdInv
  BY DEF Init, IdInv, Idle

\* The steps that leave the tables alone and do not begin a release.
LEMMA IdKept ==
  ASSUME TypeOK, IdInv, UNCHANGED <<rows, nextId>>,
         \A c \in Calls : call'[c].pc = "delete" =>
           /\ call[c].pc = "delete" /\ call'[c].kind = call[c].kind /\ call'[c].id = call[c].id
           /\ call'[c].what = call[c].what /\ call'[c].user = call[c].user
           /\ call'[c].admin = call[c].admin
  PROVE  IdInv'
  BY DEF IdInv, Right

LEMMA IdQuiet ==
  ASSUME TypeOK, IdInv, NEW c \in Calls, NEW k, Step(c, k), k.pc # "delete",
         UNCHANGED <<rows, nextId>>
  PROVE  IdInv'
<1>1. \A d \in Calls : call'[d] = call[d] \/ call'[d] = k
  BY DEF Step, TypeOK
<1> QED
  BY <1>1, IdKept

LEMMA IdCalls ==
  ASSUME TypeOK, IdInv, NEW c \in Calls
  PROVE  /\ AllSubdomains(c) => IdInv'
         /\ \A S \in SUBSET Names, next \in Continuations : HasExactRecord(c, S, next) => IdInv'
         /\ \A u \in Users, n \in Names : ReserveSubdomain(c, u, n) => IdInv'
         /\ \A u \in Users, n \in Ports : ReserveTCPPort(c, u, n) => IdInv'
         /\ Fail(c) => IdInv'
<1>0. call[c] \in Call
  BY DEF TypeOK
<1>1. ASSUME AllSubdomains(c) PROVE IdInv'
  <2> DEFINE k == [call[c] EXCEPT !.pc = "dns", !.hit = call[c].what \in zone]
  <2>1. k.pc = "dns"
    BY <1>0 DEF Call
  <2>2. Step(c, Idle) \/ Step(c, k)
    BY <1>1 DEF AllSubdomains
  <2>3. UNCHANGED <<rows, nextId>>
    BY <1>1 DEF AllSubdomains
  <2> HIDE DEF k
  <2> QED
    BY <2>1, <2>2, <2>3, IdleIsIdle, IdQuiet
<1>2. ASSUME NEW S \in SUBSET Names, NEW next \in Continuations, HasExactRecord(c, S, next)
      PROVE  IdInv'
  <2> DEFINE free == [call[c] EXCEPT !.pc = "insert", !.pages = 0, !.listed = {}]
             more == [call[c] EXCEPT !.pages = @ + 1, !.listed = @ \cup S]
  <2>1. free.pc = "insert" /\ more.pc = "dns"
    BY <1>0, <1>2 DEF Call, HasExactRecord
  <2>2. Step(c, Idle) \/ Step(c, free) \/ Step(c, more)
    BY <1>2 DEF HasExactRecord
  <2>3. UNCHANGED <<rows, nextId>>
    BY <1>2 DEF HasExactRecord
  <2> HIDE DEF free, more
  <2> QED
    BY <2>1, <2>2, <2>3, IdleIsIdle, IdQuiet
<1>3. ASSUME NEW u \in Users, NEW n \in Names, ReserveSubdomain(c, u, n) PROVE IdInv'
  <2> DEFINE k == [Idle EXCEPT !.pc = "list", !.user = u, !.what = n]
  <2>1. k.pc = "list"
    BY DEF Idle
  <2> QED
    BY <1>3, <2>1, IdQuiet DEF ReserveSubdomain
<1>4. ASSUME NEW u \in Users, NEW n \in Ports, ReserveTCPPort(c, u, n) PROVE IdInv'
  <2> DEFINE k == [Idle EXCEPT !.pc = "insert", !.kind = "tcp_port", !.user = u, !.what = n]
  <2>1. k.pc = "insert"
    BY DEF Idle
  <2> QED
    BY <1>4, <2>1, IdQuiet DEF ReserveTCPPort
<1>5. ASSUME Fail(c) PROVE IdInv'
  BY <1>5, IdleIsIdle, IdQuiet DEF Fail
<1> QED
  BY <1>1, <1>2, <1>3, <1>4, <1>5

LEMMA IdRelease ==
  ASSUME TypeOK, IdInv, NEW c \in Calls, NEW kind \in Kinds, NEW u \in Users,
         NEW admin \in BOOLEAN, Release(c, kind, u, admin)
  PROVE  IdInv'
<1>1. PICK r \in rows[kind] :
        /\ MayRelease(u, admin, r)
        /\ Step(c, [Idle EXCEPT !.pc = "delete", !.kind = kind, !.user = u, !.admin = admin,
                                !.what = r.what, !.id = r.id])
  BY DEF Release
<1> DEFINE k == [Idle EXCEPT !.pc = "delete", !.kind = kind, !.user = u, !.admin = admin,
                             !.what = r.what, !.id = r.id]
<1>2. /\ k.kind = kind /\ k.id = r.id /\ k.what = r.what /\ k.user = u
      /\ k.admin = admin
  BY DEF Idle
<1>3. admin \/ u = r.user
  BY <1>1 DEF MayRelease
<1>4. UNCHANGED <<rows, nextId>>
  BY DEF Release
<1>5. \A s \in rows[kind] : s.id = r.id => s = r
  BY DEF IdInv
<1>6. r.id < nextId[kind]
  BY DEF IdInv
<1>7. Step(c, k)
  BY <1>1
<1> HIDE DEF k
<1>8. Right(k, rows)
  BY <1>2, <1>3, <1>5, <1>6 DEF Right
<1>9. \A d \in Calls : call'[d] = call[d] \/ call'[d] = k
  BY <1>7 DEF Step, TypeOK
<1> QED
  BY <1>4, <1>8, <1>9 DEF IdInv, Right

LEMMA IdTables ==
  ASSUME TypeOK, IdInv, NEW c \in Calls
  PROVE  (Insert(c) => IdInv') /\ (Delete(c) => IdInv')
<1>0. call[c] \in Call /\ call[c].kind \in Kinds /\ \A k \in Kinds : nextId[k] \in Nat
  BY DEF TypeOK, Call
<1>r. \A kind \in Kinds : \A r \in rows[kind] : r.id \in Nat
  BY DEF TypeOK, Row
<1>c. \A d \in Calls : call[d].kind \in Kinds /\ call[d].id \in Nat
  BY ReservationsAssumption DEF TypeOK, Call
<1>1. ASSUME Insert(c) PROVE IdInv'
  <2>1. \A d \in Calls : call'[d] = call[d] \/ call'[d] = Idle
    BY <1>1 DEF Insert, Step, TypeOK
  <2>2. CASE UNCHANGED <<rows, nextId>>
    BY <2>1, <2>2, IdleIsIdle, IdKept
  <2>3. CASE /\ rows' = [rows EXCEPT ![call[c].kind] = @ \cup {Added(c)}]
             /\ nextId' = [nextId EXCEPT ![call[c].kind] = @ + 1]
    <3> DEFINE K == call[c].kind
    <3>1. rows'[K] = rows[K] \cup {Added(c)} /\ nextId'[K] = nextId[K] + 1 /\ Added(c).id = nextId[K]
      BY <1>0, <2>3 DEF TypeOK, Added
    <3>2. \A kind \in Kinds : kind # K => rows'[kind] = rows[kind] /\ nextId'[kind] = nextId[kind]
      BY <2>3 DEF TypeOK
    <3> HIDE DEF K
    <3>3. \A kind \in Kinds : \A r \in rows'[kind] : r.id < nextId'[kind]
      BY <1>0, <1>r, <3>1, <3>2 DEF IdInv
    <3>4. \A kind \in Kinds : \A r, s \in rows'[kind] : r.id = s.id => r = s
      BY <1>0, <1>r, <3>1, <3>2 DEF IdInv
    <3>5. ASSUME NEW d \in Calls, call'[d].pc = "delete" PROVE Right(call[d], rows)'
      <4>1. call'[d] = call[d] /\ Right(call[d], rows)
        BY <2>1, <3>5, IdleIsIdle DEF IdInv
      <4>2. call[d].id < nextId'[call[d].kind]
        BY <1>0, <1>c, <3>1, <3>2, <4>1 DEF Right
      <4>3. ASSUME NEW r \in rows'[call[d].kind], r.id = call[d].id PROVE r \in rows[call[d].kind]
        BY <1>0, <1>c, <3>1, <3>2, <4>1, <4>3 DEF Right
      <4> QED
        BY <4>1, <4>2, <4>3 DEF Right
    <3> QED
      BY <3>3, <3>4, <3>5 DEF IdInv
  <2> QED
    BY <1>1, <2>2, <2>3 DEF Insert, FreshId, Added
<1>2. ASSUME Delete(c) PROVE IdInv'
  <2>1. \A d \in Calls : call'[d] = call[d] \/ call'[d] = Idle
    BY <1>2 DEF Delete, Step, TypeOK
  <2>2. \A kind \in Kinds : rows'[kind] \subseteq rows[kind]
    BY <1>0, <1>2 DEF Delete, TypeOK
  <2>3. UNCHANGED nextId
    BY <1>2 DEF Delete
  <2>4. ASSUME NEW d \in Calls, call'[d].pc = "delete" PROVE Right(call[d], rows)'
    BY <1>c, <2>1, <2>2, <2>3, <2>4, IdleIsIdle DEF IdInv, Right
  <2> QED
    BY <2>2, <2>3, <2>4 DEF IdInv
<1> QED
  BY <1>1, <1>2

LEMMA IdOutside ==
  ASSUME TypeOK, IdInv
  PROVE  /\ \A u \in Users : SetUserStatus(u) => IdInv'
         /\ \A l \in SystemLabels : EnsureSystemResources(l) => IdInv'
         /\ \A n \in Names : ChangeZone(n) => IdInv'
<1>1. ASSUME NEW u \in Users, SetUserStatus(u) PROVE IdInv'
  BY <1>1, IdKept DEF SetUserStatus
<1>2. ASSUME NEW l \in SystemLabels, EnsureSystemResources(l) PROVE IdInv'
  <2>1. \A c \in Calls : call'[c].pc # "delete"
    BY <1>2, IdleIsIdle DEF EnsureSystemResources
  <2> QED
    BY <1>2, <2>1, IdKept DEF EnsureSystemResources
<1>3. ASSUME NEW n \in Names, ChangeZone(n) PROVE IdInv'
  <2>1. \A c \in Calls :
          /\ call'[c].pc = call[c].pc /\ call'[c].kind = call[c].kind /\ call'[c].id = call[c].id
          /\ call'[c].what = call[c].what /\ call'[c].user = call[c].user
          /\ call'[c].admin = call[c].admin
    BY <1>3 DEF ChangeZone, TypeOK, Call
  <2> QED
    BY <1>3, <2>1, IdKept DEF ChangeZone
<1> QED
  BY <1>1, <1>2, <1>3

LEMMA IdNext == TypeOK /\ IdInv /\ [Next]_vars => IdInv'
<1> SUFFICES ASSUME TypeOK, IdInv, [Next]_vars PROVE IdInv'
  OBVIOUS
<1>1. CASE UNCHANGED vars
  BY <1>1, IdKept DEF vars
<1> QED
  BY <1>1, IdCalls, IdRelease, IdTables, IdOutside DEF Next

\* The action of ReleasesOwn.
OwnRelease ==
  \A k \in Kinds : \A r \in rows[k] \ rows'[k] : \E c \in Calls :
    /\ call[c].pc = "delete" /\ call[c].kind = k /\ call[c].what = r.what
    /\ call[c].admin \/ call[c].user = r.user

LEMMA OnlyDeleteRemoves ==
  ASSUME TypeOK, IdInv, [Next]_vars, NEW k \in Kinds, NEW r \in rows[k], r \notin rows'[k]
  PROVE  \E c \in Calls : Delete(c)
<1>1. rows' # rows
  OBVIOUS
<1>2. ASSUME NEW c \in Calls, Insert(c) PROVE FALSE
  BY <1>2 DEF Insert, TypeOK, Call
<1> QED
  BY <1>1, <1>2
  DEF Next, vars, Fail, AllSubdomains, HasExactRecord, ReserveSubdomain, ReserveTCPPort, Release,
      SetUserStatus, EnsureSystemResources, ChangeZone

LEMMA DeletesOwn == TypeOK /\ IdInv /\ [Next]_vars => OwnRelease
<1> SUFFICES ASSUME TypeOK, IdInv, [Next]_vars, NEW k \in Kinds, NEW r \in rows[k], r \notin rows'[k]
             PROVE  \E c \in Calls :
                      /\ call[c].pc = "delete" /\ call[c].kind = k /\ call[c].what = r.what
                      /\ call[c].admin \/ call[c].user = r.user
  BY DEF OwnRelease
<1>1. PICK c \in Calls : Delete(c)
  BY OnlyDeleteRemoves
<1>2. call[c].pc = "delete" /\ Right(call[c], rows)
  BY <1>1 DEF Delete, IdInv
<1>3. call[c].kind \in Kinds
  BY DEF TypeOK, Call
<1>4. call[c].kind = k /\ r.id = call[c].id
  BY <1>1, <1>3 DEF Delete, TypeOK
<1> QED
  BY <1>2, <1>4 DEF Right

\* A release removes what it has read and was allowed to release, whatever
\* happens between the reading and the transaction: ids are not given out
\* again, and an id stands for one name or port of one user.
THEOREM ReleasesAreOwn == Spec => ReleasesOwn
<1>1. TypeOK /\ IdInv /\ [Next]_vars => TypeOK' /\ IdInv' /\ OwnRelease
  BY NextType, IdNext, DeletesOwn
<1>2. ReleasesOwn <=> [][OwnRelease]_vars
  BY DEF ReleasesOwn, OwnRelease
<1> QED
  BY InitType, IdInit, <1>1, <1>2, PTL DEF Spec

-----------------------------------------------------------------------------
(* The DNS check                                                           *)

\* What a call knows of the zone z: no page has shown the name so far, and a
\* record that has been there all along is there now.
Checked(k, z) ==
  /\ k.pc = "list" => k.listed = {}
  /\ k.pc = "dns" => k.what \notin k.listed /\ (k.hit => k.what \in z)
  /\ k.pc = "insert" /\ k.kind = "subdomain" => ~k.hit

DnsInv == \A c \in Calls : Checked(call[c], zone)

LEMMA IdleChecked == \A z : Checked(Idle, z)
  BY DEF Checked, Idle

LEMMA DnsInit == Init => DnsInv
  BY IdleChecked DEF Init, DnsInv

\* A step of one call.
LEMMA DnsStep ==
  ASSUME TypeOK, DnsInv, NEW c \in Calls, NEW k, Step(c, k), Checked(k, zone), UNCHANGED zone
  PROVE  DnsInv'
<1>1. \A d \in Calls : call'[d] = call[d] \/ call'[d] = k
  BY DEF Step, TypeOK
<1> QED
  BY <1>1 DEF DnsInv

LEMMA DnsCheck ==
  ASSUME TypeOK, DnsInv, NEW c \in Calls, NEW S \in SUBSET Names, NEW next \in Continuations,
         HasExactRecord(c, S, next)
  PROVE  DnsInv'
<1> DEFINE free == [call[c] EXCEPT !.pc = "insert", !.pages = 0, !.listed = {}]
           more == [call[c] EXCEPT !.pages = @ + 1, !.listed = @ \cup S]
<1>1. call[c] \in Call /\ call[c].pc = "dns" /\ Checked(call[c], zone)
  BY DEF TypeOK, HasExactRecord, DnsInv
<1>2. /\ free.pc = "insert" /\ free.hit = call[c].hit
      /\ more.pc = "dns" /\ more.hit = call[c].hit /\ more.what = call[c].what
      /\ more.listed = call[c].listed \cup S
  BY <1>1 DEF Call
<1>3. \/ Step(c, Idle)
      \/ Step(c, free) /\ call[c].what \notin S /\ next = "done"
      \/ Step(c, more) /\ call[c].what \notin S
  BY DEF HasExactRecord, ConflictFree
<1>4. next = "done" => zone \subseteq call[c].listed \cup S
  BY DEF HasExactRecord, Page
<1>5. UNCHANGED zone
  BY DEF HasExactRecord
<1> HIDE DEF free, more
<1>6. CASE Step(c, Idle)
  BY <1>5, <1>6, IdleChecked, DnsStep
<1>7. CASE Step(c, free) /\ call[c].what \notin S /\ next = "done"
  <2>1. Checked(free, zone)
    BY <1>1, <1>2, <1>4, <1>7 DEF Checked
  <2> QED
    BY <1>5, <1>7, <2>1, DnsStep
<1>8. CASE Step(c, more) /\ call[c].what \notin S
  <2>1. Checked(more, zone)
    BY <1>1, <1>2, <1>8 DEF Checked
  <2> QED
    BY <1>5, <1>8, <2>1, DnsStep
<1> QED
  BY <1>3, <1>6, <1>7, <1>8

LEMMA DnsCalls ==
  ASSUME TypeOK, DnsInv, NEW c \in Calls
  PROVE  /\ Fail(c) \/ Insert(c) \/ Delete(c) => DnsInv'
         /\ AllSubdomains(c) => DnsInv'
         /\ \A u \in Users, n \in Names : ReserveSubdomain(c, u, n) => DnsInv'
         /\ \A u \in Users, n \in Ports : ReserveTCPPort(c, u, n) => DnsInv'
         /\ \A kind \in Kinds, u \in Users, admin \in BOOLEAN :
              Release(c, kind, u, admin) => DnsInv'
<1>0. call[c] \in Call /\ Checked(call[c], zone)
  BY DEF TypeOK, DnsInv
<1>1. ASSUME Fail(c) \/ Insert(c) \/ Delete(c) PROVE DnsInv'
  BY <1>1, IdleChecked, DnsStep DEF Fail, Insert, Delete
<1>2. ASSUME AllSubdomains(c) PROVE DnsInv'
  <2> DEFINE k == [call[c] EXCEPT !.pc = "dns", !.hit = call[c].what \in zone]
  <2>1. /\ k.pc = "dns" /\ k.what = call[c].what /\ k.listed = call[c].listed
        /\ k.hit = (call[c].what \in zone)
    BY <1>0 DEF Call
  <2>2. Step(c, Idle) \/ Step(c, k)
    BY <1>2 DEF AllSubdomains
  <2>3. call[c].listed = {} /\ UNCHANGED zone
    BY <1>0, <1>2 DEF AllSubdomains, Checked
  <2> HIDE DEF k
  <2>4. Checked(k, zone)
    BY <2>1, <2>3 DEF Checked
  <2> QED
    BY <2>2, <2>3, <2>4, IdleChecked, DnsStep
<1>3. ASSUME NEW u \in Users, NEW n \in Names, ReserveSubdomain(c, u, n) PROVE DnsInv'
  <2> DEFINE k == [Idle EXCEPT !.pc = "list", !.user = u, !.what = n]
  <2>1. Checked(k, zone)
    BY DEF Idle, Checked
  <2> QED
    BY <1>3, <2>1, DnsStep DEF ReserveSubdomain
<1>4. ASSUME NEW u \in Users, NEW n \in Ports, ReserveTCPPort(c, u, n) PROVE DnsInv'
  <2> DEFINE k == [Idle EXCEPT !.pc = "insert", !.kind = "tcp_port", !.user = u, !.what = n]
  <2>1. Checked(k, zone)
    BY DEF Idle, Checked
  <2> QED
    BY <1>4, <2>1, DnsStep DEF ReserveTCPPort
<1>5. ASSUME NEW kind \in Kinds, NEW u \in Users, NEW admin \in BOOLEAN,
             Release(c, kind, u, admin)
      PROVE  DnsInv'
  <2>1. PICK r \in rows[kind] :
          Step(c, [Idle EXCEPT !.pc = "delete", !.kind = kind, !.user = u, !.admin = admin,
                               !.what = r.what, !.id = r.id])
    BY <1>5 DEF Release
  <2> DEFINE k == [Idle EXCEPT !.pc = "delete", !.kind = kind, !.user = u, !.admin = admin,
                               !.what = r.what, !.id = r.id]
  <2>2. Checked(k, zone)
    BY DEF Idle, Checked
  <2> QED
    BY <1>5, <2>1, <2>2, DnsStep DEF Release
<1> QED
  BY <1>1, <1>2, <1>3, <1>4, <1>5

LEMMA DnsOutside ==
  ASSUME TypeOK, DnsInv
  PROVE  /\ \A u \in Users : SetUserStatus(u) => DnsInv'
         /\ \A l \in SystemLabels : EnsureSystemResources(l) => DnsInv'
         /\ \A n \in Names : ChangeZone(n) => DnsInv'
<1>1. ASSUME NEW u \in Users, SetUserStatus(u) PROVE DnsInv'
  BY <1>1 DEF SetUserStatus, DnsInv
<1>2. ASSUME NEW l \in SystemLabels, EnsureSystemResources(l) PROVE DnsInv'
  BY <1>2, IdleChecked DEF EnsureSystemResources, DnsInv
<1>3. ASSUME NEW n \in Names, ChangeZone(n), NEW c \in Calls PROVE Checked(call'[c], zone')
  <2> DEFINE hit == call[c].hit /\ call[c].what # n
  <2>1. call[c] \in Call /\ Checked(call[c], zone) /\ call'[c] = [call[c] EXCEPT !.hit = hit]
    BY <1>3 DEF TypeOK, DnsInv, ChangeZone
  <2>2. hit = (call[c].hit /\ call[c].what # n)
    OBVIOUS
  <2>3. hit \/ ~call[c].hit \/ call[c].what = n
    OBVIOUS
  <2>4. \A x : x # n => (x \in zone' <=> x \in zone)
    BY <1>3 DEF ChangeZone
  <2> HIDE DEF hit
  <2>5. /\ call'[c].pc = call[c].pc /\ call'[c].kind = call[c].kind
        /\ call'[c].what = call[c].what /\ call'[c].listed = call[c].listed
        /\ call'[c].hit = hit
    BY <2>1 DEF Call
  <2> QED
    BY <2>1, <2>2, <2>4, <2>5 DEF Checked
<1> QED
  BY <1>1, <1>2, <1>3 DEF DnsInv

LEMMA DnsNext == TypeOK /\ DnsInv /\ [Next]_vars => DnsInv'
<1> SUFFICES ASSUME TypeOK, DnsInv, [Next]_vars PROVE DnsInv'
  OBVIOUS
<1>1. CASE UNCHANGED vars
  BY <1>1 DEF vars, DnsInv
<1> QED
  BY <1>1, DnsCalls, DnsCheck, DnsOutside DEF Next

\* The action of NotOverDNS.
CheckedFirst ==
  \A r \in rows'["subdomain"] \ rows["subdomain"] :
    \E c \in Calls : call[c].pc = "insert" /\ call[c].what = r.what /\ ~call[c].hit

LEMMA InsertsChecked == TypeOK /\ DnsInv /\ [Next]_vars => CheckedFirst
<1> SUFFICES ASSUME TypeOK, DnsInv, [Next]_vars,
                    NEW r \in rows'["subdomain"], r \notin rows["subdomain"]
             PROVE  \E c \in Calls : /\ call[c].pc = "insert" /\ call[c].what = r.what
                                     /\ ~call[c].hit
  BY DEF CheckedFirst
<1>1. ASSUME NEW c \in Calls, Delete(c) PROVE FALSE
  BY <1>1 DEF Delete, TypeOK, Kinds
<1>2. PICK c \in Calls : Insert(c)
  BY <1>1
  DEF Next, vars, Fail, AllSubdomains, HasExactRecord, ReserveSubdomain, ReserveTCPPort, Release,
      SetUserStatus, EnsureSystemResources, ChangeZone
<1>3. /\ call[c] \in Call /\ call[c].pc = "insert" /\ Checked(call[c], zone)
      /\ call[c].kind \in Kinds
  BY <1>2 DEF Insert, TypeOK, Call, DnsInv
<1>4. rows' = [rows EXCEPT ![call[c].kind] = @ \cup {Added(c)}]
  BY <1>2 DEF Insert, FreshId, Added
<1>5. call[c].kind = "subdomain" /\ r = Added(c)
  BY <1>3, <1>4 DEF TypeOK, Kinds
<1>6. r.what = call[c].what
  BY <1>5 DEF Added
<1> QED
  BY <1>3, <1>5, <1>6 DEF Checked

\* No name with a record that was there during the whole check is reserved,
\* however many pages there are and however the provider answers: what has no
\* conflict has seen every record, and a page with the name ends the call.
THEOREM NeverOverDNS == Spec => NotOverDNS
<1>1. TypeOK /\ DnsInv /\ [Next]_vars => TypeOK' /\ DnsInv' /\ CheckedFirst
  BY NextType, DnsNext, InsertsChecked
<1>2. NotOverDNS <=> [][CheckedFirst]_vars
  BY DEF NotOverDNS, CheckedFirst
<1> QED
  BY InitType, DnsInit, <1>1, <1>2, PTL DEF Spec

-----------------------------------------------------------------------------
(* What the tables hold                                                    *)

Things(kind) == IF kind = "subdomain" THEN Names ELSE Ports

\* Each table has names or ports, each of them once, and so have the calls that
\* are about to add to it.
RowInv ==
  /\ \A kind \in Kinds : \A r \in rows[kind] : r.what \in Things(kind)
  /\ \A kind \in Kinds : \A r, s \in rows[kind] : r.what = s.what => r = s
  /\ \A c \in Calls : call[c].pc \in {"list", "dns", "insert"} => call[c].what \in Things(call[c].kind)

LEMMA RowInit == Init => RowInv
  BY DEF Init, RowInv, Idle

LEMMA RowKept ==
  ASSUME TypeOK, RowInv, NEW c \in Calls, NEW k, Step(c, k), UNCHANGED rows,
         k.pc \in {"list", "dns", "insert"} => k.what \in Things(k.kind)
  PROVE  RowInv'
<1>1. \A d \in Calls : call'[d] = call[d] \/ call'[d] = k
  BY DEF Step, TypeOK
<1> QED
  BY <1>1 DEF RowInv

LEMMA RowCalls ==
  ASSUME TypeOK, RowInv, NEW c \in Calls
  PROVE  /\ AllSubdomains(c) => RowInv'
         /\ \A S \in SUBSET Names, next \in Continuations : HasExactRecord(c, S, next) => RowInv'
         /\ \A u \in Users, n \in Names : ReserveSubdomain(c, u, n) => RowInv'
         /\ \A u \in Users, n \in Ports : ReserveTCPPort(c, u, n) => RowInv'
         /\ \A kind \in Kinds, u \in Users, admin \in BOOLEAN :
              Release(c, kind, u, admin) => RowInv'
         /\ Fail(c) => RowInv'
<1>0. call[c] \in Call
  BY DEF TypeOK
<1>1. ASSUME AllSubdomains(c) PROVE RowInv'
  <2> DEFINE k == [call[c] EXCEPT !.pc = "dns", !.hit = call[c].what \in zone]
  <2>1. k.kind = call[c].kind /\ k.what = call[c].what /\ call[c].pc = "list"
    BY <1>0, <1>1 DEF Call, AllSubdomains
  <2>2. (Step(c, Idle) \/ Step(c, k)) /\ UNCHANGED rows
    BY <1>1 DEF AllSubdomains
  <2> HIDE DEF k
  <2>3. k.what \in Things(k.kind)
    BY <2>1 DEF RowInv
  <2> QED
    BY <2>2, <2>3, IdleIsIdle, RowKept
<1>2. ASSUME NEW S \in SUBSET Names, NEW next \in Continuations, HasExactRecord(c, S, next)
      PROVE  RowInv'
  <2> DEFINE free == [call[c] EXCEPT !.pc = "insert", !.pages = 0, !.listed = {}]
             more == [call[c] EXCEPT !.pages = @ + 1, !.listed = @ \cup S]
  <2>1. /\ free.kind = call[c].kind /\ free.what = call[c].what
        /\ more.kind = call[c].kind /\ more.what = call[c].what /\ call[c].pc = "dns"
    BY <1>0, <1>2 DEF Call, HasExactRecord
  <2>2. (Step(c, Idle) \/ Step(c, free) \/ Step(c, more)) /\ UNCHANGED rows
    BY <1>2 DEF HasExactRecord
  <2> HIDE DEF free, more
  <2>3. free.what \in Things(free.kind) /\ more.what \in Things(more.kind)
    BY <2>1 DEF RowInv
  <2> QED
    BY <2>2, <2>3, IdleIsIdle, RowKept
<1>3. ASSUME NEW u \in Users, NEW n \in Names, ReserveSubdomain(c, u, n) PROVE RowInv'
  <2> DEFINE k == [Idle EXCEPT !.pc = "list", !.user = u, !.what = n]
  <2>1. k.what = n /\ k.kind = "subdomain"
    BY DEF Idle
  <2>2. Step(c, k) /\ UNCHANGED rows
    BY <1>3 DEF ReserveSubdomain
  <2> HIDE DEF k
  <2>3. k.what \in Things(k.kind)
    BY <2>1 DEF Things
  <2> QED
    BY <2>2, <2>3, RowKept
<1>4. ASSUME NEW u \in Users, NEW n \in Ports, ReserveTCPPort(c, u, n) PROVE RowInv'
  <2> DEFINE k == [Idle EXCEPT !.pc = "insert", !.kind = "tcp_port", !.user = u, !.what = n]
  <2>1. k.what = n /\ k.kind = "tcp_port"
    BY DEF Idle
  <2>2. Step(c, k) /\ UNCHANGED rows
    BY <1>4 DEF ReserveTCPPort
  <2> HIDE DEF k
  <2>3. k.what \in Things(k.kind)
    BY <2>1 DEF Things
  <2> QED
    BY <2>2, <2>3, RowKept
<1>5. ASSUME NEW kind \in Kinds, NEW u \in Users, NEW admin \in BOOLEAN,
             Release(c, kind, u, admin)
      PROVE  RowInv'
  <2>1. PICK r \in rows[kind] :
          Step(c, [Idle EXCEPT !.pc = "delete", !.kind = kind, !.user = u, !.admin = admin,
                               !.what = r.what, !.id = r.id])
    BY <1>5 DEF Release
  <2> DEFINE k == [Idle EXCEPT !.pc = "delete", !.kind = kind, !.user = u, !.admin = admin,
                               !.what = r.what, !.id = r.id]
  <2>2. k.pc = "delete"
    BY DEF Idle
  <2>3. Step(c, k) /\ UNCHANGED rows
    BY <1>5, <2>1 DEF Release
  <2> HIDE DEF k
  <2> QED
    BY <2>2, <2>3, RowKept
<1>6. ASSUME Fail(c) PROVE RowInv'
  BY <1>6, IdleIsIdle, RowKept DEF Fail
<1> QED
  BY <1>1, <1>2, <1>3, <1>4, <1>5, <1>6

LEMMA RowTables ==
  ASSUME TypeOK, RowInv, NEW c \in Calls
  PROVE  (Insert(c) => RowInv') /\ (Delete(c) => RowInv')
<1>0. call[c] \in Call /\ call[c].kind \in Kinds
  BY DEF TypeOK, Call
<1>1. ASSUME Insert(c) PROVE RowInv'
  <2>1. \A d \in Calls : call'[d] = call[d] \/ call'[d] = Idle
    BY <1>1 DEF Insert, Step, TypeOK
  <2>2. CASE UNCHANGED rows
    BY <2>1, <2>2, IdleIsIdle DEF RowInv
  <2>3. CASE /\ rows' = [rows EXCEPT ![call[c].kind] = @ \cup {Added(c)}]
             /\ call[c].what \notin Reserved(call[c].kind)
    <3> DEFINE K == call[c].kind
    <3>1. Added(c).what = call[c].what /\ call[c].what \in Things(K)
      BY <1>1 DEF Added, Insert, RowInv
    <3>2. rows'[K] = rows[K] \cup {Added(c)}
      BY <1>0, <2>3 DEF TypeOK
    <3>3. \A kind \in Kinds : kind # K => rows'[kind] = rows[kind]
      BY <2>3 DEF TypeOK
    <3>4. \A r \in rows[K] : r.what # Added(c).what
      BY <2>3, <3>1 DEF Reserved
    <3> HIDE DEF K
    <3>5. \A kind \in Kinds : \A r \in rows'[kind] : r.what \in Things(kind)
      BY <3>1, <3>2, <3>3 DEF RowInv
    <3>6. \A kind \in Kinds : \A r, s \in rows'[kind] : r.what = s.what => r = s
      BY <3>2, <3>3, <3>4 DEF RowInv
    <3> QED
      BY <2>1, <3>5, <3>6, IdleIsIdle DEF RowInv
  <2> QED
    BY <1>1, <2>2, <2>3 DEF Insert, FreshId, Added
<1>2. ASSUME Delete(c) PROVE RowInv'
  <2>1. \A d \in Calls : call'[d] = call[d] \/ call'[d] = Idle
    BY <1>2 DEF Delete, Step, TypeOK
  <2>2. \A kind \in Kinds : rows'[kind] \subseteq rows[kind]
    BY <1>0, <1>2 DEF Delete, TypeOK
  <2> QED
    BY <2>1, <2>2, IdleIsIdle DEF RowInv
<1> QED
  BY <1>1, <1>2

LEMMA RowOutside ==
  ASSUME TypeOK, RowInv
  PROVE  /\ \A u \in Users : SetUserStatus(u) => RowInv'
         /\ \A l \in SystemLabels : EnsureSystemResources(l) => RowInv'
         /\ \A n \in Names : ChangeZone(n) => RowInv'
<1>1. ASSUME NEW u \in Users, SetUserStatus(u) PROVE RowInv'
  BY <1>1 DEF SetUserStatus, RowInv
<1>2. ASSUME NEW l \in SystemLabels, EnsureSystemResources(l) PROVE RowInv'
  BY <1>2, IdleIsIdle DEF EnsureSystemResources, RowInv
<1>3. ASSUME NEW n \in Names, ChangeZone(n) PROVE RowInv'
  <2>1. \A c \in Calls : /\ call'[c].pc = call[c].pc /\ call'[c].kind = call[c].kind
                         /\ call'[c].what = call[c].what
    BY <1>3 DEF ChangeZone, TypeOK, Call
  <2> QED
    BY <1>3, <2>1 DEF ChangeZone, RowInv
<1> QED
  BY <1>1, <1>2, <1>3

LEMMA RowNext == TypeOK /\ RowInv /\ [Next]_vars => RowInv'
<1> SUFFICES ASSUME TypeOK, RowInv, [Next]_vars PROVE RowInv'
  OBVIOUS
<1>1. CASE UNCHANGED vars
  BY <1>1 DEF vars, RowInv
<1> QED
  BY <1>1, RowCalls, RowTables, RowOutside DEF Next

LEMMA RowsCorrect == Spec => []RowInv
<1>1. TypeOK /\ RowInv /\ [Next]_vars => TypeOK' /\ RowInv'
  BY NextType, RowNext
<1> QED
  BY InitType, RowInit, <1>1, PTL DEF Spec

\* Whatever was reserved can be bound under every spelling of its host, since
\* the table has what NormalizeSubdomain makes and canonicalHost takes off what
\* Spellings puts on.
THEOREM WhatIsReservedCanBind == Spec => []ReservedCanBind
<1>1. RowInv => ReservedCanBind
  BY SpellingsMeanTheName DEF RowInv, ReservedCanBind, Things, Kinds
<1> QED
  BY <1>1, RowsCorrect, PTL
=============================================================================

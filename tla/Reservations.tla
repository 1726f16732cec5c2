---------------------------- MODULE Reservations ----------------------------
(***************************************************************************)
(* How names and ports are reserved and released: calls of the service     *)
(* layer that run concurrently, each a sequence of reads, the paged DNS    *)
(* check and a transaction, and the label of the control plane itself,     *)
(* which a restart may change.                                             *)
(*                                                                         *)
(* A label or a host is a sequence of characters, since what the two       *)
(* conversions NormalizeSubdomain and canonicalHost agree about is one of  *)
(* the questions. A port is a number in the code and in its table, and one *)
(* value of a set here: nothing depends on how it was written.             *)
(***************************************************************************)
EXTENDS Integers, Sequences, FiniteSets

CONSTANTS
  Users, Calls,
  Others,            \* characters that are of no use in a name
  Raws,              \* what users enter as a subdomain
  Ports,             \* what ParseTCPPort lets through
  SystemLabels,      \* values of CONTROL_PLANE_SUBDOMAIN
  ReservedSubdomains,
  Domain,            \* TUNNEL_DOMAIN
  MaxLabel,          \* 63
  MaxPages,          \* 100
  MaxId,             \* bound on the ids that are given out
  None

ASSUME ReservationsAssumption == MaxPages \in Nat \ {0} /\ MaxId \in Nat

VARIABLES
  active,       \* users.status
  rows,         \* the tables subdomains and tcp_ports
  nextId,       \* AUTOINCREMENT
  systemLabels, \* the table system_subdomains
  label,        \* ControlPlaneSubdomain of the running process, None if it is down
  zone,         \* labels with an exact record at the DNS provider
  call

vars == <<active, rows, nextId, systemLabels, label, zone, call>>

-----------------------------------------------------------------------------
(* Names and hosts                                                         *)

Letters  == {"a", "b"}
Space    == " "
Digits   == {"0", "1", "2", "3", "4", "5", "6", "7", "8", "9"}
Characters == Letters \cup {"A", "B"} \cup Digits \cup {"-", ".", Space} \cup Others
Capital  == [c \in Letters |-> CASE c = "a" -> "A" [] c = "b" -> "B"]
ToLower(s) ==
  [i \in 1..Len(s) |-> IF \E c \in Letters : Capital[c] = s[i]
                         THEN CHOOSE c \in Letters : Capital[c] = s[i] ELSE s[i]]

TrimSpace(s) ==
  LET text == {i \in 1..Len(s) : s[i] # Space}
  IN IF text = {} THEN <<>>
     ELSE SubSeq(s, CHOOSE i \in text : \A j \in text : i <= j,
                    CHOOSE i \in text : \A j \in text : i >= j)

HasSuffix(s, t)  == Len(s) >= Len(t) /\ SubSeq(s, Len(s) - Len(t) + 1, Len(s)) = t
TrimSuffix(s, t) == IF HasSuffix(s, t) THEN SubSeq(s, 1, Len(s) - Len(t)) ELSE s

\* What NormalizeSubdomain asks of a name.
ValidName(s) ==
  /\ Len(s) \in 1..MaxLabel
  /\ s[1] # "-" /\ s[Len(s)] # "-"
  /\ \A i \in 1..Len(s) : s[i] \in Letters \cup Digits \cup {"-"}

\* Mutant: a label of the greatest length is refused.
ValidHostShort(s) ==
  /\ s # <<>> /\ Len(s) < MaxLabel
  /\ s[1] # "-" /\ s[Len(s)] # "-"
  /\ \A i \in 1..Len(s) : s[i] \in Letters \cup Digits \cup {"-"}

\* What canonicalHost asks of a host without its domain; the rule is written
\* down once more there, and a dot gets an answer of its own.
ValidHost(s) ==
  /\ s # <<>> /\ (\A i \in 1..Len(s) : s[i] # ".") /\ Len(s) <= MaxLabel
  /\ s[1] # "-" /\ s[Len(s)] # "-"
  /\ \A i \in 1..Len(s) : s[i] \in Letters \cup Digits \cup {"-"}

\* None stands for the error.
NormalizeSubdomain(raw) ==
  LET name == ToLower(TrimSpace(raw))
  IN IF name \notin ReservedSubdomains /\ ValidName(name) THEN name ELSE None

\* What canonicalHost first makes of the host and of the domain.
Canonical(h) == ToLower(TrimSuffix(TrimSpace(h), <<".">>))
BaseDomain   == Canonical(Domain)

\* The configuration has a domain, without an empty label at its end.
ASSUME DomainAssumption ==
  /\ Raws \subseteq Seq(Characters) /\ Domain \in Seq(Characters)
  /\ BaseDomain # <<>> /\ BaseDomain[Len(BaseDomain)] \notin {".", Space}

\* Mutant: the trailing dot stays.
canonicalHostDotted(h) ==
  LET host == TrimSuffix(ToLower(TrimSpace(h)), <<".">> \o BaseDomain)
  IN IF ValidHost(host) THEN host ELSE None

\* The label of a host that sish asks about.
canonicalHost(h) ==
  LET host == TrimSuffix(Canonical(h), <<".">> \o BaseDomain)
  IN IF ValidHost(host) THEN host ELSE None

Names == {NormalizeSubdomain(raw) : raw \in Raws} \ {None}

Kinds == {"subdomain", "tcp_port"}
Row   == [id : 1..MaxId, user : Users, what : Names \cup Ports]
Reserved(kind) == {r.what : r \in rows[kind]}

-----------------------------------------------------------------------------
(* Calls                                                                   *)

\* hit is history: the name has had an exact record since the check began.
Call ==
  [pc    : {"idle", "list", "dns", "insert", "delete"},
         kind  : Kinds, user : Users \cup {None}, admin : BOOLEAN,
         what  : Names \cup Ports \cup {None}, id : 0..MaxId,
         pages : 0..MaxPages, listed : SUBSET Names, hit : BOOLEAN]

Fits(k) == k.pc # "idle" => k.user \in Users /\ k.what \in Names \cup Ports

Idle == [pc |-> "idle", kind |-> "subdomain", user |-> None, admin |-> FALSE,
         what |-> None, id |-> 0, pages |-> 0, listed |-> {}, hit |-> FALSE]

TypeOK ==
  /\ active \in [Users -> BOOLEAN]
  /\ rows \in [Kinds -> SUBSET Row]
  /\ nextId \in [Kinds -> 1..(MaxId + 1)]
  /\ systemLabels \subseteq SystemLabels
  /\ label \in SystemLabels \cup {None}
  /\ zone \subseteq Names
  /\ call \in [Calls -> Call] /\ \A c \in Calls : Fits(call[c])

Init ==
  /\ active = [u \in Users |-> TRUE]
  /\ rows = [k \in Kinds |-> {}]
  /\ nextId = [k \in Kinds |-> 1]
  /\ systemLabels = {} /\ label = None
  /\ zone = {}
  /\ call = [c \in Calls |-> Idle]

Step(c, new) == call' = [call EXCEPT ![c] = new]

\* Any database step may fail; the call returns the error and changes nothing.
Fail(c) ==
  /\ call[c].pc # "idle"
  /\ Step(c, Idle)
  /\ UNCHANGED <<active, rows, nextId, systemLabels, label, zone>>

\* Mutant: the label of the control plane is a name like any other.
OwnLabelFree(n) == n \in Names

Reservable(n) == n \in Names /\ n # label

\* ReserveSubdomain up to the list: ensureActive and the form of the name.
ReserveSubdomain(c, u, n) ==
  /\ label # None /\ call[c].pc = "idle" /\ active[u] /\ Reservable(n)
  /\ Step(c, [Idle EXCEPT !.pc = "list", !.user = u, !.what = n])
  /\ UNCHANGED <<active, rows, nextId, systemLabels, label, zone>>

AllSubdomains(c) ==
  /\ call[c].pc = "list"
  /\ Step(c, IF call[c].what \in Reserved("subdomain") THEN Idle
             ELSE [call[c] EXCEPT !.pc = "dns", !.hit = call[c].what \in zone])
  /\ UNCHANGED <<active, rows, nextId, systemLabels, label, zone>>

\* ReserveTCPPort up to the transaction.
ReserveTCPPort(c, u, p) ==
  /\ label # None /\ call[c].pc = "idle" /\ active[u]
  /\ Step(c, [Idle EXCEPT !.pc = "insert", !.kind = "tcp_port", !.user = u, !.what = p])
  /\ UNCHANGED <<active, rows, nextId, systemLabels, label, zone>>

-----------------------------------------------------------------------------
(* HasExactRecord: one page of records after the other                     *)

\* The provider lists some of the records and says what comes next. It says
\* that nothing does when it has listed every record there has been all along;
\* it may also fail, leave the cursor out or send one for the second time.
Continuations == {"done", "cursor", "missing", "repeated", "failed"}

Page(c, S, next) ==
  /\ S \subseteq zone
  /\ next = "done" => zone \subseteq call[c].listed \cup S

\* Mutant: an answer without a cursor is the last page.
ConflictFreeWithoutCursor(next) == next \in {"done", "missing"}

ConflictFree(next) == next = "done"

\* Mutant: the pages are not counted.
HasExactRecordUnbounded(c, S, next) ==
  /\ call[c].pc = "dns" /\ Page(c, S, next) /\ call[c].what \notin S
  /\ Step(c, [call[c] EXCEPT !.pages = @ + 1, !.listed = @ \cup S])
  /\ UNCHANGED <<active, rows, nextId, systemLabels, label, zone>>

HasExactRecord(c, S, next) ==
  /\ call[c].pc = "dns" /\ Page(c, S, next)
  /\ \/ /\ next # "failed" /\ call[c].what \in S
        /\ Step(c, Idle)
     \/ /\ call[c].what \notin S /\ ConflictFree(next)
        /\ Step(c, [call[c] EXCEPT !.pc = "insert", !.pages = 0, !.listed = {}])
     \/ /\ call[c].what \notin S /\ next = "cursor" /\ call[c].pages + 1 < MaxPages
        /\ Step(c, [call[c] EXCEPT !.pages = @ + 1, !.listed = @ \cup S])
     \/ /\ \/ next \in {"missing", "repeated", "failed"} /\ ~ConflictFree(next)
           \/ next = "cursor" /\ call[c].pages + 1 >= MaxPages
        /\ Step(c, Idle)
  /\ UNCHANGED <<active, rows, nextId, systemLabels, label, zone>>

-----------------------------------------------------------------------------
(* Transactions                                                            *)

\* Mutant: the id of a removed row may be given out again.
FreshIdReused(kind) ==
  CHOOSE i \in 1..MaxId : \A r \in rows[kind] : r.id # i

FreshId(kind) == nextId[kind]

\* InsertSubdomainAtomic, InsertTCPPortAtomic. MaxId bounds what is inserted.
Insert(c) ==
  LET k == call[c].kind
      r == [id |-> FreshId(k), user |-> call[c].user, what |-> call[c].what]
  IN /\ call[c].pc = "insert" /\ nextId[k] <= MaxId
     /\ IF active[r.user] /\ r.what \notin Reserved(k)
          THEN /\ rows' = [rows EXCEPT ![k] = @ \cup {r}]
               /\ nextId' = [nextId EXCEPT ![k] = @ + 1]
          ELSE UNCHANGED <<rows, nextId>>
     /\ Step(c, Idle)
     /\ UNCHANGED <<active, systemLabels, label, zone>>

\* Mutant: only whether there is such a row is looked at.
MayReleaseAny(u, admin, r) == TRUE

MayRelease(u, admin, r) == admin \/ r.user = u

\* ReleaseSubdomain, ReleaseTCPPort up to the transaction: the row is read.
Release(c, kind, u, admin) ==
  /\ label # None /\ call[c].pc = "idle"
  /\ \E r \in rows[kind] :
       /\ MayRelease(u, admin, r)
       /\ Step(c, [Idle EXCEPT !.pc = "delete", !.kind = kind, !.user = u, !.admin = admin,
                               !.what = r.what, !.id = r.id])
  /\ UNCHANGED <<active, rows, nextId, systemLabels, label, zone>>

\* DeleteSubdomainAtomic, DeleteTCPPortAtomic; the revocation that belongs to
\* it is the subject of Revocation.
Delete(c) ==
  LET k == call[c].kind
  IN /\ call[c].pc = "delete"
     /\ rows' = [rows EXCEPT ![k] = {r \in @ :
          ~(r.id = call[c].id /\ (k = "tcp_port" => r.what = call[c].what))}]
     /\ Step(c, Idle)
     /\ UNCHANGED <<active, nextId, systemLabels, label, zone>>

SetUserStatus(u) ==
  /\ active' = [active EXCEPT ![u] = ~@]
  /\ UNCHANGED <<rows, nextId, systemLabels, label, zone, call>>

-----------------------------------------------------------------------------
(* The control plane and the DNS provider                                  *)

\* Mutant: a user's reservation of the label is not looked for.
UnownedUnchecked(l) == TRUE

Unowned(l) == l \notin Reserved("subdomain")

\* Mutant: the label of the last start stays.
RegisteredBeside(l) == systemLabels \cup {l}

\* The rows of the system key: other labels are deleted.
Registered(l) == {l}

\* The process stops and starts with l in its configuration. Something else may
\* keep it from starting after EnsureSystemResources.
EnsureSystemResources(l) ==
  /\ \/ /\ Unowned(l)
        /\ systemLabels' = Registered(l)
        /\ label' \in {l, None}
     \/ /\ ~Unowned(l)
        /\ label' = None
        /\ UNCHANGED systemLabels
  /\ call' = [c \in Calls |-> Idle]
  /\ UNCHANGED <<active, rows, nextId, zone>>

\* Somebody changes a record.
ChangeZone(n) ==
  /\ zone' = IF n \in zone THEN zone \ {n} ELSE zone \cup {n}
  /\ call' = [c \in Calls |-> [call[c] EXCEPT !.hit = @ /\ call[c].what # n]]
  /\ UNCHANGED <<active, rows, nextId, systemLabels, label>>

Next ==
  \/ \E c \in Calls :
       \/ Fail(c) \/ AllSubdomains(c) \/ Insert(c) \/ Delete(c)
       \/ \E next \in Continuations, S \in SUBSET Names : HasExactRecord(c, S, next)
       \/ \E u \in Users :
            \/ \E n \in Names : ReserveSubdomain(c, u, n)
            \/ \E p \in Ports : ReserveTCPPort(c, u, p)
            \/ \E kind \in Kinds, admin \in BOOLEAN : Release(c, kind, u, admin)
  \/ \E u \in Users : SetUserStatus(u)
  \/ \E l \in SystemLabels : EnsureSystemResources(l)
  \/ \E n \in Names : ChangeZone(n)

Spec == Init /\ [][Next]_vars

-----------------------------------------------------------------------------
(* Properties                                                              *)

\* No label belongs to the control plane and to a user, whatever the restarts
\* and the calls between them: ReserveSubdomain compares with the configuration
\* only, and EnsureSystemResources with the reservations.
SystemLabelsUnowned == systemLabels \cap Reserved("subdomain") = {}

\* What is reserved can be bound: canonicalHost makes every spelling of the
\* host into the name that NormalizeSubdomain has put into the table.
Spellings(n) ==
  {n, n \o <<".">> \o BaseDomain, n \o <<".">> \o BaseDomain \o <<".">>,
   <<Space>> \o [i \in 1..Len(n) |-> IF n[i] \in Letters THEN Capital[n[i]] ELSE n[i]] \o <<Space>>}

ReservedCanBind ==
  \A r \in rows["subdomain"] : \A h \in Spellings(r.what) : canonicalHost(h) = r.what

\* A release removes the row that was read, of the user who asked for it or for
\* an administrator, and disconnects what that row reserved, also when the row
\* has gone meanwhile and its name or port has another owner (service.go:296).
ReleasesOwn ==
  [][\A k \in Kinds : \A r \in rows[k] \ rows'[k] : \E c \in Calls :
       /\ call[c].pc = "delete" /\ call[c].kind = k /\ call[c].what = r.what
       /\ call[c].admin \/ call[c].user = r.user]_vars

\* A name whose record was there during the whole check is not reserved,
\* however the provider pages or fails (README.md:126, service.go:263).
NotOverDNS ==
  [][\A r \in rows'["subdomain"] \ rows["subdomain"] :
       \E c \in Calls : call[c].pc = "insert" /\ call[c].what = r.what /\ ~call[c].hit]_vars
=============================================================================

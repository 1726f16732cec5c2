----------------------------- MODULE NamesProofs -----------------------------
(***************************************************************************)
(* Facts about the conversions of Reservations: what they make of names    *)
(* and hosts, for inputs of any length.                                    *)
(***************************************************************************)
EXTENDS Reservations, SequenceTheorems, WellFoundedInduction, TLAPS

Text == Seq(Characters)

LEMMA SpaceIs == Space \notin Letters \cup Digits \cup {"A", "B", "-", "."}
BY Zenon DEF Letters, Digits, Space

LEMMA LeastNumber ==
  ASSUME NEW S, S \subseteq Nat, S # {}
  PROVE  \E i \in S : \A j \in S : i <= j
<1> DEFINE R == OpToRel(<, Nat)
<1>1. PICK i \in S : \A j \in S : <<j, i>> \notin R
  <2>1. IsWellFoundedOn(R, Nat)
    BY NatLessThanWellFounded
  <2> HIDE DEF R
  <2> QED
    BY <2>1, WFMin
<1>2. \A j \in S : ~(j < i)
  BY <1>1 DEF OpToRel
<1> QED
  BY <1>2

LEMMA GreatestNumber ==
  ASSUME NEW n \in Nat, NEW S \in SUBSET (1..n), S # {}
  PROVE  \E i \in S : \A j \in S : i >= j
<1> DEFINE T == {n - i : i \in S}
<1>1. T \subseteq Nat /\ T # {}
  <2>1. \A i \in S : n - i \in Nat /\ n - i \in T
    OBVIOUS
  <2> QED
    BY <2>1
<1>2. PICK k \in T : \A j \in T : k <= j
  <2> HIDE DEF T
  <2> QED
    BY <1>1, LeastNumber
<1>3. PICK i \in S : k = n - i
  OBVIOUS
<1>4. \A j \in S : n - i <= n - j
  BY <1>2, <1>3
<1> QED
  BY <1>4

-----------------------------------------------------------------------------
(* The parts of the conversions                                            *)

Lower(c) == IF c = "A" THEN "a" ELSE IF c = "B" THEN "b" ELSE c

LEMMA LowerIs ==
  ASSUME NEW c
  PROVE  (IF \E d \in Letters : Capital[d] = c THEN CHOOSE d \in Letters : Capital[d] = c ELSE c)
           = Lower(c)
<1>1. Capital["a"] = "A" /\ Capital["b"] = "B"
  BY DEF Capital, Letters
<1>2. CASE c = "A"
  <2>1. \A d \in Letters : Capital[d] = c <=> d = "a"
    BY <1>1, <1>2 DEF Letters
  <2> QED
    BY <1>2, <2>1 DEF Letters, Lower
<1>3. CASE c = "B"
  <2>1. \A d \in Letters : Capital[d] = c <=> d = "b"
    BY <1>1, <1>3 DEF Letters
  <2> QED
    BY <1>3, <2>1 DEF Letters, Lower
<1>4. CASE c # "A" /\ c # "B"
  BY <1>1, <1>4 DEF Letters, Lower
<1> QED
  BY <1>2, <1>3, <1>4

LEMMA ToLowerIs ==
  ASSUME NEW s \in Text
  PROVE  /\ ToLower(s) = [i \in 1..Len(s) |-> Lower(s[i])]
         /\ ToLower(s) \in Text /\ Len(ToLower(s)) = Len(s)
         /\ \A i \in 1..Len(s) : ToLower(s)[i] = Lower(s[i])
<1>1. ToLower(s) = [i \in 1..Len(s) |-> Lower(s[i])]
  BY LowerIs DEF ToLower
<1>2. \A i \in 1..Len(s) : Lower(s[i]) \in Characters
  BY DEF Characters, Letters, Lower, Text
<1> QED
  BY <1>1, <1>2 DEF Text

\* What has no capital stays as it is.
LEMMA ToLowerKeeps ==
  ASSUME NEW s \in Text, \A i \in 1..Len(s) : s[i] # "A" /\ s[i] # "B"
  PROVE  ToLower(s) = s
<1>1. \A i \in 1..Len(s) : ToLower(s)[i] = s[i]
  BY ToLowerIs DEF Lower
<1> QED
  BY <1>1, ToLowerIs, SeqEqual DEF Text

\* Both ends of a text that begins and ends with something else than a space.
LEMMA TrimSpaceKeeps ==
  ASSUME NEW s \in Text, s # <<>>, s[1] # Space, s[Len(s)] # Space
  PROVE  TrimSpace(s) = s
<1> DEFINE text == {i \in 1..Len(s) : s[i] # Space}
<1>1. Len(s) \in Nat /\ Len(s) >= 1
  BY DEF Text
<1>2. 1 \in text /\ Len(s) \in text
  BY <1>1
<1>3. (CHOOSE i \in text : \A j \in text : i <= j) = 1
  <2>1. \A i \in text : (\A j \in text : i <= j) <=> i = 1
    BY <1>1, <1>2
  <2> HIDE DEF text
  <2> QED
    BY <1>2, <2>1
<1>4. (CHOOSE i \in text : \A j \in text : i >= j) = Len(s)
  <2>1. \A i \in text : (\A j \in text : i >= j) <=> i = Len(s)
    BY <1>1, <1>2
  <2> HIDE DEF text
  <2> QED
    BY <1>2, <2>1
<1>5. TrimSpace(s) = SubSeq(s, 1, Len(s))
  BY <1>2, <1>3, <1>4 DEF TrimSpace
<1> QED
  BY <1>5, SubSeqFull DEF Text

LEMMA TrimSpaceSpaces ==
  ASSUME NEW s \in Text, s # <<>>, s[1] # Space, s[Len(s)] # Space
  PROVE  TrimSpace(<<Space>> \o s \o <<Space>>) = s
<1> DEFINE t    == <<Space>> \o s \o <<Space>>
           text == {i \in 1..Len(t) : t[i] # Space}
<1>1. Len(s) \in Nat /\ Len(s) >= 1
  BY DEF Text
<1>2. /\ t \in Text /\ Len(t) = Len(s) + 2 /\ t[1] = Space /\ t[Len(s) + 2] = Space
      /\ \A i \in 1..Len(s) : t[i + 1] = s[i]
  <2>1. <<Space>> \in Text /\ Len(<<Space>>) = 1 /\ <<Space>>[1] = Space
    BY DEF Characters, Text
  <2> DEFINE u == <<Space>> \o s
  <2>2. u \in Text /\ Len(u) = Len(s) + 1 /\ u[1] = Space /\ \A i \in 1..Len(s) : u[i + 1] = s[i]
    BY <1>1, <2>1, ConcatProperties DEF Text
  <2> HIDE DEF u
  <2>3. /\ u \o <<Space>> \in Text /\ Len(u \o <<Space>>) = Len(u) + 1
        /\ (u \o <<Space>>)[Len(u) + 1] = Space
        /\ \A i \in 1..Len(u) : (u \o <<Space>>)[i] = u[i]
    BY <1>1, <2>1, <2>2, ConcatProperties DEF Text
  <2> QED
    BY <1>1, <2>2, <2>3 DEF u
<1>3. 2 \in text /\ Len(s) + 1 \in text /\ \A i \in text : 2 <= i /\ i <= Len(s) + 1 /\ i \in Int
  BY <1>1, <1>2
<1>4. (CHOOSE i \in text : \A j \in text : i <= j) = 2
  <2>1. \A i \in text : (\A j \in text : i <= j) <=> i = 2
    BY <1>1, <1>3
  <2> HIDE DEF text
  <2> QED
    BY <1>3, <2>1
<1>5. (CHOOSE i \in text : \A j \in text : i >= j) = Len(s) + 1
  <2>1. \A i \in text : (\A j \in text : i >= j) <=> i = Len(s) + 1
    BY <1>1, <1>3
  <2> HIDE DEF text
  <2> QED
    BY <1>3, <2>1
<1>6. TrimSpace(t) = SubSeq(t, 2, Len(s) + 1)
  BY <1>3, <1>4, <1>5 DEF TrimSpace
<1>7. /\ SubSeq(t, 2, Len(s) + 1) \in Text /\ Len(SubSeq(t, 2, Len(s) + 1)) = Len(s)
      /\ \A i \in 1..Len(s) : SubSeq(t, 2, Len(s) + 1)[i] = s[i]
  BY <1>1, <1>2 DEF Text
<1> QED
  BY <1>6, <1>7, SeqEqual DEF Text

LEMMA TrimSpaceType ==
  ASSUME NEW s \in Text
  PROVE  TrimSpace(s) \in Text
<1> DEFINE text == {i \in 1..Len(s) : s[i] # Space}
           from == CHOOSE i \in text : \A j \in text : i <= j
           to   == CHOOSE i \in text : \A j \in text : i >= j
<1>1. Len(s) \in Nat /\ text \in SUBSET (1..Len(s))
  BY DEF Text
<1>2. CASE text = {}
  BY <1>2 DEF TrimSpace, Text
<1>3. CASE text # {}
  <2>1. (\E i \in text : \A j \in text : i <= j) /\ (\E i \in text : \A j \in text : i >= j)
    <3> HIDE DEF text
    <3>1. text \subseteq Nat
      BY <1>1
    <3> QED
      BY <1>1, <1>3, <3>1, LeastNumber, GreatestNumber
  <2>2. from \in 1..Len(s) /\ to \in 1..Len(s)
    <3> HIDE DEF text
    <3> QED
      BY <1>1, <2>1
  <2>3. TrimSpace(s) = SubSeq(s, from, to)
    BY <1>3 DEF TrimSpace
  <2> HIDE DEF from, to, text
  <2> QED
    BY <1>1, <2>2, <2>3 DEF Text
<1> QED
  BY <1>2, <1>3

\* The suffix goes, and what has no such suffix stays.
LEMMA TrimSuffixOf ==
  ASSUME NEW s \in Text, NEW t \in Text
  PROVE  TrimSuffix(s \o t, t) = s
<1>1. Len(s) \in Nat /\ Len(t) \in Nat /\ s \o t \in Text /\ Len(s \o t) = Len(s) + Len(t)
  BY DEF Text
<1>2. SubSeq(s \o t, Len(s) + 1, Len(s) + Len(t)) = t
  <2> DEFINE u == SubSeq(s \o t, Len(s) + 1, Len(s) + Len(t))
  <2>1. u \in Text /\ Len(u) = Len(t) /\ \A i \in 1..Len(t) : u[i] = t[i]
    BY <1>1 DEF Text
  <2> HIDE DEF u
  <2> QED
    BY <2>1, SeqEqual DEF Text, u
<1>3. SubSeq(s \o t, 1, Len(s)) = s
  <2> DEFINE u == SubSeq(s \o t, 1, Len(s))
  <2>1. u \in Text /\ Len(u) = Len(s) /\ \A i \in 1..Len(s) : u[i] = s[i]
    BY <1>1 DEF Text
  <2> HIDE DEF u
  <2> QED
    BY <2>1, SeqEqual DEF Text, u
<1>4. /\ Len(s \o t) - Len(t) = Len(s) /\ Len(s \o t) - Len(t) + 1 = Len(s) + 1
      /\ Len(s \o t) >= Len(t)
  BY <1>1
<1> QED
  BY <1>1, <1>2, <1>3, <1>4 DEF TrimSuffix, HasSuffix

LEMMA NoSuffix ==
  ASSUME NEW s \in Text, NEW t \in Text, t # <<>>,
         s = <<>> \/ s[Len(s)] # t[Len(t)] \/ \A i \in 1..Len(s) : s[i] # t[1]
  PROVE  TrimSuffix(s, t) = s
<1>1. Len(s) \in Nat /\ Len(t) \in Nat /\ Len(t) >= 1
  BY DEF Text
<1>2. ASSUME HasSuffix(s, t) PROVE FALSE
  <2>1. Len(s) >= Len(t) /\ SubSeq(s, Len(s) - Len(t) + 1, Len(s)) = t
    BY <1>2 DEF HasSuffix
  <2>2. \A i \in 1..Len(t) : t[i] = s[Len(s) - Len(t) + i]
    BY <1>1, <2>1 DEF Text
  <2>3. t[1] = s[Len(s) - Len(t) + 1] /\ t[Len(t)] = s[Len(s)]
    BY <1>1, <2>1, <2>2
  <2> QED
    BY <1>1, <2>1, <2>3
<1> QED
  BY <1>2 DEF TrimSuffix

-----------------------------------------------------------------------------
(* Hosts                                                                   *)

\* What a name has, and with it everything that a host is asked for.
LEMMA LabelIs ==
  ASSUME NEW n \in Text, ValidName(n)
  PROVE  /\ Len(n) \in Nat /\ Len(n) >= 1 /\ n # <<>>
         /\ \A i \in 1..Len(n) : n[i] # "." /\ n[i] # Space /\ n[i] # "A" /\ n[i] # "B"
         /\ ToLower(n) = n
         /\ ValidHost(n)
<1>1. Len(n) \in Nat /\ Len(n) >= 1
  BY DEF Text, ValidName
<1>2. \A i \in 1..Len(n) : n[i] # "." /\ n[i] # Space /\ n[i] # "A" /\ n[i] # "B"
  BY SpaceIs DEF ValidName, Letters, Digits
<1>3. ValidHost(n)
  BY <1>1, <1>2, ReservationsAssumption DEF ValidName, ValidHost
<1> QED
  BY <1>1, <1>2, <1>3, ToLowerKeeps DEF Text

LEMMA NamesAreLabels ==
  ASSUME NEW n \in Names
  PROVE  n \in Text /\ ValidName(n)
<1>1. PICK raw \in Raws : n = NormalizeSubdomain(raw) /\ n # None
  BY DEF Names
<1>2. n = ToLower(TrimSpace(raw)) /\ ValidName(n)
  BY <1>1 DEF NormalizeSubdomain
<1>3. raw \in Text
  BY DomainAssumption DEF Text
<1> QED
  BY <1>2, <1>3, TrimSpaceType, ToLowerIs

LEMMA BaseDomainIs ==
  /\ BaseDomain \in Text /\ Len(BaseDomain) \in Nat /\ Len(BaseDomain) >= 1 /\ BaseDomain # <<>>
  /\ BaseDomain[Len(BaseDomain)] # "." /\ BaseDomain[Len(BaseDomain)] # Space
  /\ ToLower(BaseDomain) = BaseDomain
<1> DEFINE d == TrimSuffix(TrimSpace(Domain), <<".">>)
<1>1. d \in Text
  <2>1. TrimSpace(Domain) \in Text
    BY DomainAssumption, TrimSpaceType DEF Text
  <2>2. \A s \in Text : SubSeq(s, 1, Len(s) - Len(<<".">>)) \in Text
    BY DEF Text
  <2> QED
    BY <2>1, <2>2 DEF TrimSuffix
<1> HIDE DEF d
<1>2. BaseDomain = ToLower(d)
  BY DEF BaseDomain, Canonical, d
<1>3. BaseDomain \in Text /\ Len(BaseDomain) \in Nat /\ Len(BaseDomain) >= 1
  BY <1>1, <1>2, ToLowerIs, DomainAssumption DEF Text
<1>4. \A i \in 1..Len(BaseDomain) : BaseDomain[i] # "A" /\ BaseDomain[i] # "B"
  BY <1>1, <1>2, ToLowerIs DEF Lower, Text
<1> QED
  BY <1>3, <1>4, ToLowerKeeps, DomainAssumption

Suffix == <<".">> \o BaseDomain

LEMMA SuffixIs ==
  /\ Suffix \in Text /\ Len(Suffix) = Len(BaseDomain) + 1 /\ Suffix # <<>> /\ Suffix[1] = "."
  /\ Suffix[Len(Suffix)] = BaseDomain[Len(BaseDomain)]
  /\ \A i \in 1..Len(Suffix) : Suffix[i] # "A" /\ Suffix[i] # "B"
<1>1. <<".">> \in Text /\ Len(<<".">>) = 1 /\ <<".">>[1] = "."
  BY DEF Characters, Text
<1>2. /\ Suffix \in Text /\ Len(Suffix) = Len(BaseDomain) + 1 /\ Suffix[1] = "."
      /\ \A i \in 2..Len(Suffix) : Suffix[i] = BaseDomain[i - 1]
  BY <1>1, BaseDomainIs, ConcatProperties DEF Suffix, Text
<1>3. \A i \in 1..Len(BaseDomain) : BaseDomain[i] # "A" /\ BaseDomain[i] # "B"
  BY BaseDomainIs, ToLowerIs DEF Lower, Text
<1> QED
  BY <1>2, <1>3, BaseDomainIs

\* A label, alone and below the domain, without and with the dot of a complete
\* name.
LEMMA PlainHost ==
  ASSUME NEW n \in Text, ValidName(n)
  PROVE  canonicalHost(n) = n
<1>1. TrimSpace(n) = n
  BY LabelIs, TrimSpaceKeeps
<1>2. TrimSuffix(n, <<".">>) = n
  <2>1. <<".">> \in Text /\ Len(<<".">>) = 1 /\ <<".">>[1] = "." /\ <<".">> # <<>>
    BY DEF Characters, Text
  <2> QED
    BY <2>1, LabelIs, NoSuffix
<1>3. TrimSuffix(n, Suffix) = n
  BY LabelIs, SuffixIs, NoSuffix
<1> QED
  BY <1>1, <1>2, <1>3, LabelIs DEF canonicalHost, Canonical, Suffix

LEMMA FullHost ==
  ASSUME NEW n \in Text, ValidName(n)
  PROVE  canonicalHost(n \o Suffix) = n /\ canonicalHost(n \o Suffix \o <<".">>) = n
<1> DEFINE h == n \o Suffix
           f == h \o <<".">>
<1>0. <<".">> \in Text /\ Len(<<".">>) = 1 /\ <<".">>[1] = "." /\ <<".">> # <<>>
  BY DEF Characters, Text
<1>1. /\ h \in Text /\ Len(h) = Len(n) + Len(Suffix)
      /\ \A i \in 1..Len(h) : h[i] = IF i <= Len(n) THEN n[i] ELSE Suffix[i - Len(n)]
  <2>1. /\ n \o Suffix \in Text /\ Len(n \o Suffix) = Len(n) + Len(Suffix)
        /\ \A i \in 1..(Len(n) + Len(Suffix)) :
             (n \o Suffix)[i] = IF i <= Len(n) THEN n[i] ELSE Suffix[i - Len(n)]
    BY SuffixIs, ConcatProperties DEF Text
  <2> QED
    BY <2>1
<1>2. Len(n) \in Nat /\ Len(n) >= 1 /\ Len(Suffix) \in Nat /\ Len(Suffix) >= 1
  BY LabelIs, SuffixIs, BaseDomainIs
<1>3. h[1] # Space /\ h[Len(h)] # Space /\ h[Len(h)] # "." /\ h # <<>>
  BY <1>1, <1>2, LabelIs, SuffixIs, BaseDomainIs
<1>4. ToLower(h) = h
  <2>1. \A i \in 1..Len(h) : h[i] # "A" /\ h[i] # "B"
    BY <1>1, <1>2, LabelIs, SuffixIs
  <2> QED
    BY <1>1, <2>1, ToLowerKeeps
<1>5. TrimSuffix(h, Suffix) = n
  BY SuffixIs, TrimSuffixOf
<1> HIDE DEF h
<1>6. TrimSuffix(h, <<".">>) = h /\ TrimSpace(h) = h
  BY <1>0, <1>1, <1>3, NoSuffix, TrimSpaceKeeps
<1>7. canonicalHost(h) = n
  BY <1>4, <1>5, <1>6, LabelIs DEF canonicalHost, Canonical, Suffix
<1>8. /\ f \in Text /\ Len(f) = Len(h) + 1 /\ f[Len(f)] = "."
      /\ \A i \in 1..Len(h) : f[i] = h[i]
  <2> DEFINE dot == <<".">>
  <2>1. dot \in Text /\ Len(dot) = 1 /\ dot[1] = "." /\ Len(h) \in Nat /\ Len(h) >= 1
    BY <1>0, <1>1, <1>2
  <2> HIDE DEF dot
  <2>2. /\ h \o dot \in Text /\ Len(h \o dot) = Len(h) + Len(dot)
        /\ \A i \in 1..(Len(h) + Len(dot)) :
             (h \o dot)[i] = IF i <= Len(h) THEN h[i] ELSE dot[i - Len(h)]
    BY <1>1, <2>1, ConcatProperties DEF Text
  <2> QED
    BY <2>1, <2>2 DEF dot
<1>9. f # <<>> /\ f[1] # Space /\ f[Len(f)] # Space
  BY <1>1, <1>2, <1>3, <1>8, SpaceIs
<1>10. TrimSpace(f) = f
  <2> HIDE DEF f
  <2> QED
    BY <1>8, <1>9, TrimSpaceKeeps
<1>11. TrimSuffix(f, <<".">>) = h
  BY <1>0, <1>1, TrimSuffixOf
<1>12. canonicalHost(f) = n
  BY <1>4, <1>5, <1>10, <1>11, LabelIs DEF canonicalHost, Canonical, Suffix
<1> QED
  BY <1>7, <1>12 DEF h

\* Capitals, and a space at either end.
Shouted(n) == [i \in 1..Len(n) |-> IF n[i] \in Letters THEN Capital[n[i]] ELSE n[i]]

LEMMA ShoutedHost ==
  ASSUME NEW n \in Text, ValidName(n)
  PROVE  canonicalHost(<<Space>> \o Shouted(n) \o <<Space>>) = n
<1> DEFINE s == Shouted(n)
<1>1. Capital["a"] = "A" /\ Capital["b"] = "B"
  BY DEF Capital, Letters
<1>2. \A i \in 1..Len(n) :
        s[i] = IF n[i] = "a" THEN "A" ELSE IF n[i] = "b" THEN "B" ELSE n[i]
  BY <1>1 DEF Shouted, Letters
<1>3. s \in Text /\ Len(s) = Len(n)
  BY <1>1, LabelIs DEF Shouted, Letters, Characters, Text
<1> HIDE DEF s
<1>4. s # <<>> /\ s[1] # Space /\ s[Len(s)] # Space /\ s[Len(s)] # "."
  BY <1>2, <1>3, LabelIs, SpaceIs
<1>5. TrimSpace(<<Space>> \o s \o <<Space>>) = s
  BY <1>3, <1>4, TrimSpaceSpaces
<1>6. TrimSuffix(s, <<".">>) = s
  <2>1. <<".">> \in Text /\ Len(<<".">>) = 1 /\ <<".">>[1] = "." /\ <<".">> # <<>>
    BY DEF Characters, Text
  <2> QED
    BY <1>3, <1>4, <2>1, NoSuffix
<1>7. ToLower(s) = n
  <2>1. \A i \in 1..Len(n) : ToLower(s)[i] = n[i]
    BY <1>2, <1>3, ToLowerIs, LabelIs DEF Lower
  <2> QED
    BY <1>3, <2>1, ToLowerIs, SeqEqual DEF Text
<1>8. TrimSuffix(n, Suffix) = n
  BY LabelIs, SuffixIs, NoSuffix
<1> QED
  BY <1>5, <1>6, <1>7, <1>8, LabelIs DEF canonicalHost, Canonical, Suffix, s

\* Every spelling of the host of a reserved name is read as that name.
LEMMA SpellingsMeanTheName ==
  ASSUME NEW n \in Names, NEW h \in Spellings(n)
  PROVE  canonicalHost(h) = n
<1>1. n \in Text /\ ValidName(n)
  BY NamesAreLabels
<1>2. n \o <<".">> \o BaseDomain = n \o Suffix
  <2>1. <<".">> \in Text
    BY DEF Characters, Text
  <2> QED
    BY <1>1, <2>1, BaseDomainIs, ConcatAssociative DEF Suffix, Text
<1>3. h \in {n, n \o Suffix, n \o Suffix \o <<".">>, <<Space>> \o Shouted(n) \o <<Space>>}
  BY <1>2 DEF Spellings, Shouted
<1> QED
  BY <1>1, <1>3, PlainHost, FullHost, ShoutedHost
=============================================================================

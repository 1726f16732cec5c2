--------------------------- MODULE TelemetryProofs ---------------------------
(***************************************************************************)
(* Proofs about Telemetry, for any kinds of events, limits and times.      *)
(***************************************************************************)
EXTENDS Telemetry, FiniteSetTheorems, WellFoundedInduction, TLAPS

-----------------------------------------------------------------------------
(* Induction over a set of numbers and over a finite set.                  *)

LEMMA NumbersFromZero ==
  ASSUME NEW P, 0 \in P, \A n \in Nat : n \in P => n + 1 \in P
  PROVE  \A n \in Nat : n \in P
<1> DEFINE Out == Nat \ P
<1> SUFFICES ASSUME Out # {} PROVE FALSE
  OBVIOUS
<1>1. PICK n \in Out : \A m \in Out : ~(<<m, n>> \in OpToRel(<, Nat))
  <2>1. IsWellFoundedOn(OpToRel(<, Nat), Nat)
    BY NatLessThanWellFounded
  <2>2. Out \subseteq Nat
    OBVIOUS
  <2> HIDE DEF Out
  <2> QED
    BY <2>1, <2>2, WFMin
<1>2. n # 0 /\ n - 1 \in Nat
  OBVIOUS
<1>3. n - 1 \in Out
  BY <1>2
<1>4. \A m \in Out : ~(m < n)
  BY <1>1 DEF OpToRel
<1> QED
  BY <1>2, <1>3, <1>4

LEMMA FiniteFromEmpty ==
  ASSUME NEW S, IsFiniteSet(S), NEW F, {} \in F,
         \A A \in SUBSET S, x \in S : A \in F /\ x \notin A => A \cup {x} \in F
  PROVE  S \in F
<1> DEFINE P == {n \in Nat : \A A \in SUBSET S : Cardinality(A) = n => A \in F}
<1>0. \A A \in SUBSET S : IsFiniteSet(A) /\ Cardinality(A) \in Nat
  BY FS_Subset, FS_CardinalityType
<1>1. 0 \in P
  BY <1>0, FS_EmptySet
<1>2. ASSUME NEW n \in Nat, n \in P PROVE n + 1 \in P
  <2> SUFFICES ASSUME NEW A \in SUBSET S, Cardinality(A) = n + 1 PROVE A \in F
    OBVIOUS
  <2>0. \A B \in SUBSET S : Cardinality(B) = n => B \in F
    BY <1>2
  <2> HIDE DEF P
  <2>1. A # {}
    <3>1. Cardinality(A) # 0 /\ IsFiniteSet(A)
      BY <1>0
    <3> QED
      BY <3>1, FS_EmptySet
  <2>2. PICK x \in A : TRUE
    BY <2>1
  <2>3. Cardinality(A \ {x}) = n /\ A \ {x} \in SUBSET S
    <3>1. IsFiniteSet(A)
      BY <1>0
    <3>2. Cardinality(A \ {x}) = Cardinality(A) - 1
      BY <2>2, <3>1, FS_RemoveElement
    <3> QED
      BY <3>2
  <2>4. A \ {x} \in F
    BY <2>0, <2>3
  <2>5. A = (A \ {x}) \cup {x} /\ x \notin A \ {x} /\ x \in S
    BY <2>2
  <2> QED
    BY <2>3, <2>4, <2>5
<1>3. \A n \in Nat : n \in P
  <2> HIDE DEF P
  <2> QED
    BY <1>1, <1>2, NumbersFromZero
<1> QED
  BY <1>0, <1>3

-----------------------------------------------------------------------------
(* Sums. The fold behind Total takes the elements in an order of its own;  *)
(* what it returns does not depend on it.                                  *)

First(s) == CHOOSE x \in s : TRUE

\* One step of the fold, from the values h has for smaller sets.
Step(h, f, s) == IF s = {} THEN 0 ELSE f[First(s)] + h[s \ {First(s)}]

IsIter(h, f, S) == h = [s \in SUBSET S |-> Step(h, f, s)]

LEMMA TotalIter ==
  ASSUME NEW f
  PROVE  Total(f) = (CHOOSE h : IsIter(h, f, DOMAIN f))[DOMAIN f]
  BY DEF Total, FoldFunction, FoldFunctionOnSet, MapThenFoldSet, IsIter, Step, First

LEMMA FirstIn ==
  ASSUME NEW S, IsFiniteSet(S), NEW s \in SUBSET S, s # {}
  PROVE  /\ First(s) \in s /\ First(s) \in S /\ s \ {First(s)} \in SUBSET S
         /\ IsFiniteSet(s) /\ Cardinality(s) \in Nat /\ Cardinality(s) # 0
         /\ Cardinality(s \ {First(s)}) = Cardinality(s) - 1
<1>1. First(s) \in s
  BY DEF First
<1>2. IsFiniteSet(s) /\ Cardinality(s) \in Nat /\ Cardinality(s) # 0
  BY FS_Subset, FS_CardinalityType, FS_EmptySet
<1> QED
  BY <1>1, <1>2, FS_RemoveElement

LEMMA IterExists ==
  ASSUME NEW f, NEW S, IsFiniteSet(S)
  PROVE  \E h : IsIter(h, f, S)
<1> DEFINE Good(h, n) ==
      /\ h = [s \in SUBSET S |-> h[s]]
      /\ \A s \in SUBSET S : Cardinality(s) <= n => h[s] = Step(h, f, s)
<1> DEFINE P == {n \in Nat : \E h : Good(h, n)}
<1>0. \A s \in SUBSET S : IsFiniteSet(s) /\ Cardinality(s) \in Nat /\ Cardinality(s) <= Cardinality(S)
  BY FS_Subset, FS_CardinalityType
<1>1. 0 \in P
  <2> DEFINE h == [s \in SUBSET S |-> 0]
  <2>1. \A s \in SUBSET S : Cardinality(s) <= 0 => s = {}
    BY <1>0, FS_EmptySet
  <2>2. Good(h, 0)
    BY <2>1 DEF Step
  <2> QED
    BY <2>2
<1>2. ASSUME NEW n \in Nat, n \in P PROVE n + 1 \in P
  <2>1. PICK h : Good(h, n)
    BY <1>2
  <2>2. PICK g : g = [s \in SUBSET S |-> Step(h, f, s)]
    OBVIOUS
  <2>3. ASSUME NEW s \in SUBSET S, Cardinality(s) <= n + 1 PROVE g[s] = Step(g, f, s)
    <3>1. CASE s = {}
      BY <2>2, <3>1 DEF Step
    <3>2. CASE s # {}
      <4>1. PICK r : r = s \ {First(s)}
        OBVIOUS
      <4>2. r \in SUBSET S /\ Cardinality(r) <= n
        BY <2>3, <3>2, <4>1, FirstIn
      <4>3. h[r] = g[r]
        BY <2>1, <2>2, <4>2
      <4> QED
        BY <2>2, <3>2, <4>1, <4>3 DEF Step
    <3> QED
      BY <3>1, <3>2
  <2>4. Good(g, n + 1)
    BY <2>2, <2>3
  <2> HIDE DEF Good
  <2> QED
    BY <2>4
<1>3. Cardinality(S) \in P
  <2>1. \A n \in Nat : n \in P
    <3> HIDE DEF P
    <3> QED
      BY <1>1, <1>2, NumbersFromZero
  <2> QED
    BY <2>1, FS_CardinalityType
<1>4. PICK h : Good(h, Cardinality(S))
  BY <1>3
<1>5. IsIter(h, f, S)
  BY <1>0, <1>4 DEF IsIter
<1> QED
  BY <1>5

\* The fold is a sum: any element can be taken out first.
LEMMA IterAny ==
  ASSUME NEW f, NEW h, NEW S, IsFiniteSet(S), IsIter(h, f, S), \A x \in S : f[x] \in Nat
  PROVE  /\ h[{}] = 0
         /\ \A s \in SUBSET S : h[s] \in Nat /\ \A x \in s : h[s] = f[x] + h[s \ {x}]
<1> DEFINE Sums(s) == h[s] \in Nat /\ \A x \in s : h[s] = f[x] + h[s \ {x}]
<1> DEFINE P == {n \in Nat : \A s \in SUBSET S : Cardinality(s) <= n => Sums(s)}
<1>0. \A s \in SUBSET S : IsFiniteSet(s) /\ Cardinality(s) \in Nat
  BY FS_Subset, FS_CardinalityType
<1>1. \A s \in SUBSET S : h[s] = Step(h, f, s)
  BY DEF IsIter
<1>2. h[{}] = 0 /\ Sums({})
  BY <1>1 DEF Step
<1>3. 0 \in P
  <2>1. \A s \in SUBSET S : Cardinality(s) <= 0 => s = {}
    BY <1>0, FS_EmptySet
  <2> HIDE DEF Sums
  <2> QED
    BY <1>2, <2>1
<1>4. ASSUME NEW n \in Nat, n \in P PROVE n + 1 \in P
  <2> SUFFICES ASSUME NEW s \in SUBSET S, Cardinality(s) <= n + 1 PROVE Sums(s)
    OBVIOUS
  <2>1. \A r \in SUBSET S : Cardinality(r) <= n => Sums(r)
    BY <1>4
  <2> HIDE DEF P
  <2>2. CASE s = {}
    BY <1>2, <2>2
  <2>3. CASE s # {}
    <3>1. PICK c \in s : c = First(s)
      BY <2>3, FirstIn
    <3>2. h[s] = f[c] + h[s \ {c}]
      BY <1>1, <2>3, <3>1 DEF Step
    <3>3. \A x \in s : Cardinality(s \ {x}) <= n /\ s \ {x} \in SUBSET S
      <4> TAKE x \in s
      <4>1. IsFiniteSet(s) /\ Cardinality(s) \in Nat
        BY <1>0
      <4>2. Cardinality(s \ {x}) = Cardinality(s) - 1
        BY <4>1, FS_RemoveElement
      <4> QED
        BY <4>1, <4>2
    <3>4. \A x \in s : Sums(s \ {x})
      BY <2>1, <3>3
    <3>5. h[s] \in Nat
      BY <3>2, <3>4
    <3>6. ASSUME NEW x \in s PROVE h[s] = f[x] + h[s \ {x}]
      <4>1. CASE x = c
        BY <3>2, <4>1
      <4>2. CASE x # c
        <5>1. PICK r : r = (s \ {c}) \ {x}
          OBVIOUS
        <5>2. r = (s \ {x}) \ {c} /\ x \in s \ {c} /\ c \in s \ {x} /\ r \in SUBSET S
          BY <4>2, <5>1
        <5>3. h[s \ {c}] = f[x] + h[r] /\ h[s \ {x}] = f[c] + h[r]
          BY <3>4, <5>1, <5>2
        <5>4. Cardinality(r) <= n
          <6>0. PICK d : d = s \ {c}
            OBVIOUS
          <6>1. IsFiniteSet(d) /\ Cardinality(d) \in Nat /\ Cardinality(d) <= n
            BY <1>0, <3>3, <6>0
          <6>2. Cardinality(d \ {x}) = Cardinality(d) - 1
            BY <5>2, <6>0, <6>1, FS_RemoveElement
          <6> QED
            BY <5>1, <6>0, <6>1, <6>2
        <5>5. h[r] \in Nat /\ f[x] \in Nat /\ f[c] \in Nat
          BY <2>1, <5>2, <5>4
        <5> QED
          BY <3>2, <5>3, <5>5
      <4> QED
        BY <4>1, <4>2
    <3> QED
      BY <3>5, <3>6
  <2> QED
    BY <2>2, <2>3
<1>5. \A n \in Nat : n \in P
  <2> HIDE DEF P
  <2> QED
    BY <1>3, <1>4, NumbersFromZero
<1>6. ASSUME NEW s \in SUBSET S PROVE Sums(s)
  <2> HIDE DEF Sums
  <2>1. Cardinality(s) \in P /\ Cardinality(s) <= Cardinality(s)
    BY <1>0, <1>5
  <2> QED
    BY <2>1
<1> QED
  BY <1>2, <1>6

\* Two folds agree where the functions do.
LEMMA IterAgree ==
  ASSUME NEW f, NEW g, NEW h, NEW i, NEW S, NEW T, IsFiniteSet(S), IsFiniteSet(T),
         IsIter(h, f, S), IsIter(i, g, T), S \subseteq T,
         \A x \in T : g[x] \in Nat, \A x \in S : f[x] = g[x]
  PROVE  h[S] = i[S]
<1> DEFINE F == {A \in SUBSET S : h[A] = i[A]}
<1>1. /\ h[{}] = 0 /\ i[{}] = 0
      /\ \A s \in SUBSET S : h[s] \in Nat /\ \A x \in s : h[s] = f[x] + h[s \ {x}]
      /\ \A s \in SUBSET T : i[s] \in Nat /\ \A x \in s : i[s] = g[x] + i[s \ {x}]
  BY IterAny
<1>2. ASSUME NEW A \in SUBSET S, NEW x \in S, A \in F, x \notin A PROVE A \cup {x} \in F
  <2>1. PICK B \in SUBSET S : B = A \cup {x}
    OBVIOUS
  <2>2. B \ {x} = A /\ x \in B
    BY <1>2, <2>1
  <2>3. h[B] = f[x] + h[A] /\ i[B] = g[x] + i[A]
    BY <1>1, <2>2
  <2> QED
    BY <1>2, <2>1, <2>3
<1>3. {} \in F
  BY <1>1
<1>4. S \in F
  <2> HIDE DEF F
  <2> QED
    BY <1>2, <1>3, FiniteFromEmpty
<1> QED
  BY <1>4

\* The sum of f over a set.
Sum(f, A) == Total([x \in A |-> f[x]])

LEMMA SumIter ==
  ASSUME NEW f, NEW A, IsFiniteSet(A)
  PROVE  \E h : IsIter(h, [x \in A |-> f[x]], A) /\ Sum(f, A) = h[A]
<1>1. PICK e : e = [x \in A |-> f[x]]
  OBVIOUS
<1>2. DOMAIN e = A
  BY <1>1
<1>3. PICK h : h = CHOOSE i : IsIter(i, e, A)
  OBVIOUS
<1>4. IsIter(h, e, A)
  BY <1>3, IterExists
<1>5. Sum(f, A) = h[A]
  BY <1>1, <1>2, <1>3, TotalIter DEF Sum
<1> QED
  BY <1>1, <1>4, <1>5

LEMMA TotalSum ==
  ASSUME NEW S, NEW T, NEW f \in [S -> T]
  PROVE  Total(f) = Sum(f, S)
  BY DEF Sum

LEMMA SumSame ==
  ASSUME NEW f, NEW g, NEW A, \A x \in A : f[x] = g[x]
  PROVE  Sum(f, A) = Sum(g, A)
<1>1. [x \in A |-> f[x]] = [x \in A |-> g[x]]
  OBVIOUS
<1> QED
  BY <1>1 DEF Sum

LEMMA SumEmpty == ASSUME NEW f PROVE Sum(f, {}) = 0
<1>1. IsFiniteSet({})
  BY FS_EmptySet
<1>2. PICK h : IsIter(h, [x \in {} |-> f[x]], {}) /\ Sum(f, {}) = h[{}]
  BY <1>1, SumIter
<1> QED
  BY <1>2 DEF IsIter, Step

LEMMA SumAdd ==
  ASSUME NEW f, NEW A, IsFiniteSet(A), NEW x, x \notin A, \A y \in A \cup {x} : f[y] \in Nat
  PROVE  Sum(f, A) \in Nat /\ Sum(f, A \cup {x}) = Sum(f, A) + f[x]
<1>1. PICK B : B = A \cup {x}
  OBVIOUS
<1>2. IsFiniteSet(B) /\ A \subseteq B /\ B \ {x} = A /\ x \in B
  BY <1>1, FS_AddElement
<1>3. PICK e, g : e = [y \in A |-> f[y]] /\ g = [y \in B |-> f[y]]
  OBVIOUS
<1>4. PICK h : IsIter(h, e, A) /\ Sum(f, A) = h[A]
  BY <1>3, SumIter
<1>5. PICK i : IsIter(i, g, B) /\ Sum(f, B) = i[B]
  BY <1>2, <1>3, SumIter
<1>6. /\ \A y \in B : g[y] \in Nat
      /\ \A y \in A : e[y] \in Nat /\ e[y] = g[y]
      /\ g[x] = f[x]
  BY <1>1, <1>2, <1>3
<1>7. h[A] = i[A]
  BY <1>2, <1>4, <1>5, <1>6, IterAgree
<1>8. h[A] \in Nat
  BY <1>4, <1>6, IterAny
<1>9. i[B] = g[x] + i[A]
  BY <1>2, <1>5, <1>6, IterAny
<1> QED
  BY <1>1, <1>4, <1>5, <1>6, <1>7, <1>8, <1>9

LEMMA SumType ==
  ASSUME NEW f, NEW A, IsFiniteSet(A), \A y \in A : f[y] \in Nat
  PROVE  Sum(f, A) \in Nat
<1>1. PICK e : e = [y \in A |-> f[y]]
  OBVIOUS
<1>2. PICK h : IsIter(h, e, A) /\ Sum(f, A) = h[A]
  BY <1>1, SumIter
<1>3. \A y \in A : e[y] \in Nat
  BY <1>1
<1> QED
  BY <1>2, <1>3, IterAny

LEMMA SumZero ==
  ASSUME NEW f, NEW A, IsFiniteSet(A), \A y \in A : f[y] = 0
  PROVE  Sum(f, A) = 0
<1> DEFINE F == {B \in SUBSET A : Sum(f, B) = 0}
<1>1. {} \in F
  BY SumEmpty
<1>2. ASSUME NEW B \in SUBSET A, NEW x \in A, B \in F, x \notin B PROVE B \cup {x} \in F
  <2>1. IsFiniteSet(B) /\ \A y \in B \cup {x} : f[y] \in Nat
    BY FS_Subset
  <2>2. Sum(f, B \cup {x}) = Sum(f, B) + f[x]
    BY <1>2, <2>1, SumAdd
  <2> QED
    BY <1>2, <2>2
<1>3. A \in F
  <2> HIDE DEF F
  <2> QED
    BY <1>1, <1>2, FiniteFromEmpty
<1> QED
  BY <1>3

\* An element's share.
LEMMA SumWithout ==
  ASSUME NEW f, NEW A, IsFiniteSet(A), NEW x \in A, \A y \in A : f[y] \in Nat
  PROVE  Sum(f, A \ {x}) \in Nat /\ Sum(f, A) = Sum(f, A \ {x}) + f[x]
<1>1. PICK B : B = A \ {x}
  OBVIOUS
<1>2. IsFiniteSet(B) /\ x \notin B /\ B \cup {x} = A
  BY <1>1, FS_Subset
<1>3. Sum(f, B) \in Nat /\ Sum(f, B \cup {x}) = Sum(f, B) + f[x]
  BY <1>2, SumAdd
<1> QED
  BY <1>1, <1>2, <1>3

LEMMA SumLess ==
  ASSUME NEW f, NEW g, NEW A, IsFiniteSet(A),
         \A y \in A : f[y] \in Nat /\ g[y] \in Nat /\ f[y] <= g[y]
  PROVE  Sum(f, A) <= Sum(g, A)
<1> DEFINE F == {B \in SUBSET A : Sum(f, B) <= Sum(g, B)}
<1>1. {} \in F
  BY SumEmpty
<1>2. ASSUME NEW B \in SUBSET A, NEW x \in A, B \in F, x \notin B PROVE B \cup {x} \in F
  <2>1. IsFiniteSet(B)
    BY FS_Subset
  <2>2. Sum(f, B) \in Nat /\ Sum(f, B \cup {x}) = Sum(f, B) + f[x]
    BY <1>2, <2>1, SumAdd
  <2>3. Sum(g, B) \in Nat /\ Sum(g, B \cup {x}) = Sum(g, B) + g[x]
    BY <1>2, <2>1, SumAdd
  <2>4. f[x] \in Nat /\ g[x] \in Nat /\ f[x] <= g[x] /\ Sum(f, B) <= Sum(g, B)
    BY <1>2
  <2> QED
    BY <2>2, <2>3, <2>4
<1>3. A \in F
  <2> HIDE DEF F
  <2> QED
    BY <1>1, <1>2, FiniteFromEmpty
<1> QED
  BY <1>3

LEMMA SumUnion ==
  ASSUME NEW f, NEW A, NEW B, IsFiniteSet(A), IsFiniteSet(B), A \cap B = {},
         \A y \in A \cup B : f[y] \in Nat
  PROVE  Sum(f, A \cup B) = Sum(f, A) + Sum(f, B)
<1> DEFINE F == {C \in SUBSET B : Sum(f, A \cup C) = Sum(f, A) + Sum(f, C)}
<1>0. Sum(f, A) \in Nat
  BY SumType
<1>1. {} \in F
  <2>1. A \cup {} = A
    OBVIOUS
  <2> QED
    BY <1>0, <2>1, SumEmpty
<1>2. ASSUME NEW C \in SUBSET B, NEW x \in B, C \in F, x \notin C PROVE C \cup {x} \in F
  <2>1. PICK D : D = A \cup C
    OBVIOUS
  <2>2. IsFiniteSet(C) /\ IsFiniteSet(D)
    BY <2>1, FS_Subset, FS_Union
  <2>3. x \notin D /\ D \cup {x} = A \cup (C \cup {x}) /\ \A y \in D \cup {x} : f[y] \in Nat
    BY <1>2, <2>1
  <2>4. Sum(f, D \cup {x}) = Sum(f, D) + f[x]
    BY <2>2, <2>3, SumAdd
  <2>5. Sum(f, C) \in Nat /\ Sum(f, C \cup {x}) = Sum(f, C) + f[x]
    BY <1>2, <2>2, SumAdd
  <2>6. Sum(f, D) = Sum(f, A) + Sum(f, C) /\ f[x] \in Nat
    BY <1>2, <2>1
  <2>7. Sum(f, A \cup (C \cup {x})) = Sum(f, A) + Sum(f, C \cup {x})
    <3>1. PICK E : E = D \cup {x}
      OBVIOUS
    <3>2. Sum(f, E) = Sum(f, A) + Sum(f, C \cup {x})
      BY <1>0, <2>4, <2>5, <2>6, <3>1
    <3> QED
      BY <2>3, <3>1, <3>2
  <2> QED
    BY <2>7
<1>3. B \in F
  <2> HIDE DEF F
  <2> QED
    BY <1>1, <1>2, FiniteFromEmpty
<1> QED
  BY <1>3

LEMMA SumSubset ==
  ASSUME NEW f, NEW A, NEW B, IsFiniteSet(B), A \subseteq B, \A y \in B : f[y] \in Nat
  PROVE  Sum(f, A) <= Sum(f, B) /\ Sum(f, B) = Sum(f, A) + Sum(f, B \ A)
<1>1. PICK C : C = B \ A
  OBVIOUS
<1>2. IsFiniteSet(A) /\ IsFiniteSet(C) /\ A \cap C = {} /\ A \cup C = B
  BY <1>1, FS_Subset
<1>3. Sum(f, B) = Sum(f, A) + Sum(f, C)
  BY <1>2, SumUnion
<1>4. Sum(f, A) \in Nat /\ Sum(f, C) \in Nat
  BY <1>2, SumType
<1> QED
  BY <1>1, <1>3, <1>4

\* Amounts that disjoint sets cover are covered together.
LEMMA SumPartition ==
  ASSUME NEW T, IsFiniteSet(T), NEW I, IsFiniteSet(I), NEW f, NEW m, NEW A,
         \A t \in T : A[t] \subseteq I,
         \A t, u \in T : t # u => A[t] \cap A[u] = {},
         \A i \in I : f[i] \in Nat,
         \A t \in T : m[t] \in Nat /\ m[t] <= Sum(f, A[t])
  PROVE  Sum(m, T) <= Sum(f, I)
<1> DEFINE Cover(B) == UNION {A[t] : t \in B}
           F == {B \in SUBSET T : Sum(m, B) <= Sum(f, Cover(B))}
<1>1. {} \in F
  <2>1. PICK c : c = Cover({})
    OBVIOUS
  <2>2. c = {}
    BY <2>1
  <2>3. Sum(m, {}) = 0 /\ Sum(f, c) = 0
    BY <2>2, SumEmpty
  <2>4. Sum(m, {}) <= Sum(f, c)
    BY <2>3
  <2> QED
    BY <2>1, <2>4
<1>2. ASSUME NEW B \in SUBSET T, NEW x \in T, B \in F, x \notin B PROVE B \cup {x} \in F
  <2>1. PICK C, a : C = Cover(B) /\ a = A[x]
    OBVIOUS
  <2>2. C \subseteq I /\ a \subseteq I /\ a \cap C = {} /\ Cover(B \cup {x}) = C \cup a
    BY <1>2, <2>1
  <2>3. Sum(m, B) <= Sum(f, C)
    BY <1>2, <2>1
  <2> HIDE DEF Cover
  <2>4. IsFiniteSet(C) /\ IsFiniteSet(a) /\ IsFiniteSet(B)
    BY <2>2, FS_Subset
  <2>5. Sum(f, C \cup a) = Sum(f, C) + Sum(f, a)
    BY <2>2, <2>4, SumUnion
  <2>6. Sum(f, C) \in Nat /\ Sum(f, a) \in Nat
    BY <2>2, <2>4, SumType
  <2>7. Sum(m, B) \in Nat /\ Sum(m, B \cup {x}) = Sum(m, B) + m[x]
    BY <1>2, <2>4, SumAdd
  <2>8. m[x] \in Nat /\ m[x] <= Sum(f, a)
    BY <2>1
  <2>9. Sum(m, B \cup {x}) <= Sum(f, C \cup a)
    BY <2>3, <2>5, <2>6, <2>7, <2>8
  <2> QED
    BY <2>2, <2>9
<1>3. T \in F
  <2> HIDE DEF F
  <2> QED
    BY <1>1, <1>2, FiniteFromEmpty
<1>4. Sum(m, T) <= Sum(f, Cover(T)) /\ Cover(T) \subseteq I
  BY <1>3
<1>5. Sum(f, Cover(T)) <= Sum(f, I)
  <2> HIDE DEF Cover
  <2> QED
    BY <1>4, SumSubset
<1>6. Sum(f, Cover(T)) \in Nat /\ Sum(f, I) \in Nat
  <2> HIDE DEF Cover
  <2> QED
    BY <1>4, SumType, FS_Subset
<1>7. Sum(m, T) \in Nat
  BY SumType
<1> QED
  <2> HIDE DEF Cover
  <2> QED
    BY <1>4, <1>5, <1>6, <1>7

-----------------------------------------------------------------------------
(* The invariant. Its first part is the types with numbers that nothing      *)
(* bounds; the bounds of TypeOK follow from what is counted.                 *)

Amounts == [Kinds -> Nat]

ShapeOK ==
  /\ now \in 0..MaxTime
  /\ counters \in Amounts
  /\ drawn \in Seq(Amounts)
  /\ pending \in Ids \cup {0}
  /\ call \in {"none", "sent", "accepted", "refused"}
  /\ call # "none" => pending # 0
  /\ late \in SUBSET Ids
  /\ batches \in SUBSET [id : Ids, received : 0..now]
  /\ metrics \in [0..MaxTime -> Amounts]
  /\ happened \in Amounts /\ lost \in Amounts
  /\ orphans \in SUBSET Ids /\ arrived \in SUBSET Ids

Times == 0..MaxTime

\* The bound of the model on what happens.
Few == Total(happened) <= MaxEvents

\* Where every batch is. An accepted one has been added.
Kept ==
  /\ Ids \subseteq arrived \cup orphans \cup {pending}
  /\ call = "accepted" => pending \in arrived

\* Where every event is.
Accounted == \A k \in Kinds : happened[k] = counters[k] + lost[k] + InBatches(Ids, k)

\* The table of batches has an id at most once, and only what was added.
Table ==
  /\ \A r, s \in batches : r.id = s.id => r = s
  /\ \A r \in batches : r.id \in arrived

Received(t) == {r.id : r \in {s \in batches : s.received = t}}

\* The statistics of a time that has not expired are of batches that the table
\* still has, so an id that it has forgotten is in none of them.
Remembered ==
  \A t \in Times : ~Expired(t) => \A k \in Kinds : metrics[t][k] <= InBatches(Received(t), k)

\* Expired or not, they are of different batches.
Covered ==
  \A k \in Kinds : Total([t \in Times |-> metrics[t][k]]) <= InBatches(arrived, k)

TInv == ShapeOK /\ Few /\ Kept /\ Accounted /\ Table /\ Remembered /\ Covered

-----------------------------------------------------------------------------
(* The sums of batches d.                                                    *)

Held(d, S, k) == Total([id \in S |-> d[id][k]])

LEMMA HeldSum ==
  ASSUME NEW d \in Seq(Amounts), NEW k \in Kinds
  PROVE  /\ IsFiniteSet(DOMAIN d)
         /\ \E f : /\ \A S \in SUBSET (DOMAIN d) : Held(d, S, k) = Sum(f, S)
                   /\ \A id \in DOMAIN d : f[id] = d[id][k] /\ f[id] \in Nat
<1>1. IsFiniteSet(DOMAIN d)
  <2>1. DOMAIN d = 1..Len(d) /\ Len(d) \in Nat
    OBVIOUS
  <2> QED
    BY <2>1, FS_Interval
<1>2. PICK f : f = [id \in DOMAIN d |-> d[id][k]]
  OBVIOUS
<1>3. \A id \in DOMAIN d : f[id] = d[id][k] /\ f[id] \in Nat
  BY <1>2 DEF Amounts
<1>4. ASSUME NEW S \in SUBSET (DOMAIN d) PROVE Held(d, S, k) = Sum(f, S)
  <2>1. [id \in S |-> d[id][k]] = [id \in S |-> f[id]]
    BY <1>3
  <2> QED
    BY <2>1 DEF Held, Sum
<1> QED
  BY <1>1, <1>3, <1>4

LEMMA HeldSubset ==
  ASSUME NEW d \in Seq(Amounts), NEW k \in Kinds, NEW T \in SUBSET (DOMAIN d), NEW S \in SUBSET T
  PROVE  /\ Held(d, S, k) \in Nat /\ Held(d, T, k) \in Nat /\ Held(d, T \ S, k) \in Nat
         /\ Held(d, T, k) = Held(d, S, k) + Held(d, T \ S, k)
<1>1. PICK R : R = T \ S
  OBVIOUS
<1>2. PICK f : /\ \A Q \in SUBSET (DOMAIN d) : Held(d, Q, k) = Sum(f, Q)
               /\ \A id \in DOMAIN d : f[id] = d[id][k] /\ f[id] \in Nat
  BY HeldSum
<1>3. IsFiniteSet(T) /\ IsFiniteSet(S) /\ IsFiniteSet(R)
  BY <1>1, HeldSum, FS_Subset
<1>4. Sum(f, T) \in Nat /\ Sum(f, S) \in Nat /\ Sum(f, R) \in Nat
  BY <1>1, <1>2, <1>3, SumType
<1>5. Sum(f, T) = Sum(f, S) + Sum(f, R)
  BY <1>1, <1>2, <1>3, SumSubset
<1> QED
  BY <1>1, <1>2, <1>4, <1>5

LEMMA HeldAdd ==
  ASSUME NEW d \in Seq(Amounts), NEW k \in Kinds, NEW S \in SUBSET (DOMAIN d),
         NEW id \in DOMAIN d, id \notin S
  PROVE  Held(d, S \cup {id}, k) = Held(d, S, k) + d[id][k]
<1>1. PICK R \in SUBSET (DOMAIN d) : R = S \cup {id}
  OBVIOUS
<1>2. PICK f : /\ \A Q \in SUBSET (DOMAIN d) : Held(d, Q, k) = Sum(f, Q)
               /\ \A i \in DOMAIN d : f[i] = d[i][k] /\ f[i] \in Nat
  BY HeldSum
<1>3. IsFiniteSet(S)
  BY HeldSum, FS_Subset
<1>4. Sum(f, S \cup {id}) = Sum(f, S) + f[id]
  BY <1>2, <1>3, SumAdd
<1> QED
  BY <1>1, <1>2, <1>4

\* A batch is in a sum it is part of.
LEMMA HeldElement ==
  ASSUME NEW d \in Seq(Amounts), NEW k \in Kinds, NEW id \in DOMAIN d
  PROVE  d[id][k] \in Nat /\ d[id][k] <= Held(d, DOMAIN d, k)
<1>1. PICK f : /\ \A Q \in SUBSET (DOMAIN d) : Held(d, Q, k) = Sum(f, Q)
               /\ \A i \in DOMAIN d : f[i] = d[i][k] /\ f[i] \in Nat
  BY HeldSum
<1>2. PICK A : A = DOMAIN d
  OBVIOUS
<1>3. Sum(f, A \ {id}) \in Nat /\ Sum(f, A) = Sum(f, A \ {id}) + f[id]
  BY <1>1, <1>2, HeldSum, SumWithout
<1>4. f[id] = d[id][k] /\ f[id] \in Nat /\ Held(d, A, k) = Sum(f, A)
  BY <1>1, <1>2
<1> QED
  BY <1>2, <1>3, <1>4

\* A batch more.
LEMMA HeldLast ==
  ASSUME NEW d \in Seq(Amounts), NEW k \in Kinds, NEW e \in Seq(Amounts), NEW n,
         n \notin DOMAIN d, DOMAIN e = DOMAIN d \cup {n}, \A id \in DOMAIN d : e[id] = d[id]
  PROVE  /\ \A S \in SUBSET (DOMAIN d) : Held(e, S, k) = Held(d, S, k)
         /\ Held(e, DOMAIN e, k) = Held(d, DOMAIN d, k) + e[n][k]
<1>1. ASSUME NEW S \in SUBSET (DOMAIN d) PROVE Held(e, S, k) = Held(d, S, k)
  <2>1. [id \in S |-> e[id][k]] = [id \in S |-> d[id][k]]
    OBVIOUS
  <2> QED
    BY <2>1 DEF Held
<1>2. PICK A : A = DOMAIN d
  OBVIOUS
<1>3. A \in SUBSET (DOMAIN e) /\ n \in DOMAIN e /\ n \notin A /\ DOMAIN e = A \cup {n}
  BY <1>2
<1>4. Held(e, A \cup {n}, k) = Held(e, A, k) + e[n][k]
  BY <1>3, HeldAdd
<1>5. Held(e, A, k) = Held(d, A, k)
  BY <1>1, <1>2
<1>6. Held(e, DOMAIN e, k) = Held(d, A, k) + e[n][k]
  BY <1>3, <1>4, <1>5
<1> QED
  BY <1>1, <1>2, <1>6

LEMMA HeldAppend ==
  ASSUME NEW d \in Seq(Amounts), NEW c \in Amounts
  PROVE  \A e : e = Append(d, c) =>
           /\ e \in Seq(Amounts) /\ DOMAIN e = DOMAIN d \cup {Len(d) + 1} /\ Len(d) + 1 \notin DOMAIN d
           /\ \A k \in Kinds : /\ \A S \in SUBSET (DOMAIN d) : Held(e, S, k) = Held(d, S, k)
                               /\ Held(e, DOMAIN e, k) = Held(d, DOMAIN d, k) + c[k]
<1>1. PICK n : n = Len(d) + 1
  OBVIOUS
<1>2. ASSUME NEW e, e = Append(d, c)
      PROVE  /\ e \in Seq(Amounts) /\ DOMAIN e = DOMAIN d \cup {n} /\ n \notin DOMAIN d
             /\ \A id \in DOMAIN d : e[id] = d[id]
             /\ e[n] = c
  BY <1>1, <1>2
<1>3. ASSUME NEW e \in Seq(Amounts), DOMAIN e = DOMAIN d \cup {n}, n \notin DOMAIN d,
             \A id \in DOMAIN d : e[id] = d[id], e[n] = c, NEW k \in Kinds
      PROVE  /\ \A S \in SUBSET (DOMAIN d) : Held(e, S, k) = Held(d, S, k)
             /\ Held(e, DOMAIN e, k) = Held(d, DOMAIN d, k) + c[k]
  BY <1>3, HeldLast
<1> QED
  BY <1>1, <1>2, <1>3

LEMMA HeldPartition ==
  ASSUME NEW d \in Seq(Amounts), NEW k \in Kinds, NEW I \in SUBSET (DOMAIN d),
         NEW T, IsFiniteSet(T), NEW m, NEW A,
         \A t \in T : A[t] \subseteq I,
         \A t, u \in T : t # u => A[t] \cap A[u] = {},
         \A t \in T : m[t] \in Nat /\ m[t] <= Held(d, A[t], k)
  PROVE  Total([t \in T |-> m[t]]) <= Held(d, I, k)
<1>1. PICK f : /\ \A Q \in SUBSET (DOMAIN d) : Held(d, Q, k) = Sum(f, Q)
               /\ \A i \in DOMAIN d : f[i] = d[i][k] /\ f[i] \in Nat
  BY HeldSum
<1>2. IsFiniteSet(I)
  BY HeldSum, FS_Subset
<1>3. \A t \in T : m[t] \in Nat /\ m[t] <= Sum(f, A[t])
  BY <1>1
<1>4. \A i \in I : f[i] \in Nat
  BY <1>1
<1>5. Sum(m, T) <= Sum(f, I)
  BY <1>2, <1>3, <1>4, SumPartition
<1> QED
  BY <1>1, <1>5 DEF Sum

LEMMA InBatchesHeld == \A S, k : InBatches(S, k) = Held(drawn, S, k)
  BY DEF InBatches, Held

LEMMA InBatchesHeldPrime == \A S, k : InBatches(S, k)' = Held(drawn', S, k)
  BY DEF InBatches, Held

-----------------------------------------------------------------------------
(* What the parts of an action do.                                           *)

LEMMA ZeroAmounts == Zero \in Amounts /\ \A k \in Kinds : Zero[k] = 0
  BY DEF Zero, Amounts

LEMMA TakeEffect ==
  ASSUME ShapeOK, TakeCounters
  PROVE  /\ counters' = Zero
         /\ drawn' \in Seq(Amounts) /\ Ids' = Ids \cup {pending'} /\ pending' \notin Ids
         /\ pending' \in Nat \ {0}
         /\ \A k \in Kinds : InBatches(Ids, k)' = InBatches(Ids, k) + counters[k]
         /\ \A k \in Kinds, S \in SUBSET Ids : InBatches(S, k)' = InBatches(S, k)
<1>1. counters \in Amounts /\ drawn \in Seq(Amounts)
  BY DEF ShapeOK
<1>2. drawn' = Append(drawn, counters) /\ pending' = Len(drawn) + 1 /\ counters' = Zero
  BY DEF TakeCounters
<1>3. /\ drawn' \in Seq(Amounts) /\ DOMAIN drawn' = DOMAIN drawn \cup {pending'}
      /\ pending' \notin DOMAIN drawn
      /\ \A k \in Kinds :
           /\ \A S \in SUBSET (DOMAIN drawn) : Held(drawn', S, k) = Held(drawn, S, k)
           /\ Held(drawn', DOMAIN drawn', k) = Held(drawn, DOMAIN drawn, k) + counters[k]
  <2>1. \A e : e = Append(drawn, counters) =>
          /\ e \in Seq(Amounts) /\ DOMAIN e = DOMAIN drawn \cup {Len(drawn) + 1}
          /\ Len(drawn) + 1 \notin DOMAIN drawn
          /\ \A k \in Kinds :
               /\ \A S \in SUBSET (DOMAIN drawn) : Held(e, S, k) = Held(drawn, S, k)
               /\ Held(e, DOMAIN e, k) = Held(drawn, DOMAIN drawn, k) + counters[k]
    BY <1>1, HeldAppend
  <2> QED
    BY <1>2, <2>1, Zenon
<1>4. pending' \in Nat \ {0}
  BY <1>1, <1>2
<1>5. \A k \in Kinds : InBatches(Ids, k)' = InBatches(Ids, k) + counters[k]
  BY <1>3 DEF InBatches, Held, Ids
<1>6. \A k \in Kinds, S \in SUBSET Ids : InBatches(S, k)' = InBatches(S, k)
  BY <1>3 DEF InBatches, Held, Ids
<1> QED
  BY <1>2, <1>3, <1>4, <1>5, <1>6 DEF Ids

LEMMA SameBatches ==
  ASSUME drawn' = drawn
  PROVE  /\ Ids' = Ids
         /\ \A k : InBatches(Ids, k)' = InBatches(Ids, k)
         /\ \A k, S : InBatches(S, k)' = InBatches(S, k)
  BY DEF Ids, InBatches

\* Statistics after an addition.
LEMMA AddEffect ==
  ASSUME ShapeOK, NEW id \in Ids, AddSecurityTelemetryBatch(id),
         ~\E r \in batches : r.id = id
  PROVE  /\ batches' = YoungBatches \cup {[id |-> id, received |-> now]}
         /\ arrived' = arrived \cup {id}
         /\ metrics' \in [Times -> Amounts]
         /\ now \in Times /\ ~Expired(now)
         /\ \A t \in Times : Expired(t) => metrics'[t] = Zero
         /\ \A t \in Times : ~Expired(t) /\ t # now => metrics'[t] = metrics[t]
         /\ \A k \in Kinds : metrics'[now][k] = metrics[now][k] + drawn[id][k]
<1>1. /\ batches' = YoungBatches \cup {[id |-> id, received |-> now]}
      /\ metrics' = Young(Add(id))
      /\ arrived' = arrived \cup {id}
  BY DEF AddSecurityTelemetryBatch
<1>2. /\ now \in Times /\ metrics \in [Times -> Amounts] /\ drawn[id] \in Amounts
  BY DEF ShapeOK, Times, Ids
<1>3. ~Expired(now)
  BY <1>2, ConstantsAssumption DEF Expired, Times
<1>4. PICK a : a = [k \in Kinds |-> metrics[now][k] + drawn[id][k]]
  OBVIOUS
<1>5. a \in Amounts
  BY <1>2, <1>4 DEF Amounts
<1>6. Add(id) = [metrics EXCEPT ![now] = a]
  BY <1>4 DEF Add
<1>7. PICK ms : ms = Add(id)
  OBVIOUS
<1>8. /\ ms \in [Times -> Amounts] /\ ms[now] = a
      /\ \A t \in Times : t # now => ms[t] = metrics[t]
  BY <1>2, <1>5, <1>6, <1>7
<1>9. metrics' = [t \in Times |-> IF Expired(t) THEN Zero ELSE ms[t]]
  BY <1>1, <1>7, <1>8 DEF Young
<1> QED
  BY <1>1, <1>2, <1>3, <1>4, <1>8, <1>9, ZeroAmounts

\* Statistics after the two statements of a cleanup.
LEMMA CleanupEffect ==
  ASSUME ShapeOK, CleanupSecurityTelemetry
  PROVE  /\ metrics' \in [Times -> Amounts]
         /\ \A t \in Times : metrics'[t] = metrics[t] \/ (Expired(t) /\ metrics'[t] = Zero)
         /\ batches' \subseteq batches
         /\ \A r \in batches : ~Expired(r.received) => r \in batches'
<1>1. metrics \in [Times -> Amounts]
  BY DEF ShapeOK, Times
<1>2. metrics' = metrics \/ metrics' = [t \in Times |-> IF Expired(t) THEN Zero ELSE metrics[t]]
  BY <1>1 DEF CleanupSecurityTelemetry, Young
<1>3. batches' = batches \/ batches' = YoungBatches
  BY DEF CleanupSecurityTelemetry
<1>4. /\ metrics' \in [Times -> Amounts]
      /\ \A t \in Times : metrics'[t] = metrics[t] \/ (Expired(t) /\ metrics'[t] = Zero)
  BY <1>1, <1>2, ZeroAmounts
<1> QED
  BY <1>3, <1>4 DEF YoungBatches

-----------------------------------------------------------------------------
(* The invariant is one.                                                     *)

\* What a step does to the control plane's tables and to the sums.
LEMMA StoreSteps ==
  ASSUME ShapeOK, [Next]_vars
  PROVE  /\ Ids \subseteq Ids'
         /\ \A k \in Kinds, S \in SUBSET Ids : InBatches(S, k)' = InBatches(S, k)
         /\ \/ UNCHANGED <<now, store, arrived>>
            \/ UNCHANGED <<now, drawn>> /\ \E id \in Ids : AddSecurityTelemetryBatch(id)
            \/ UNCHANGED <<now, drawn, arrived>> /\ CleanupSecurityTelemetry
            \/ Tick
<1>1. CASE UNCHANGED vars
  BY <1>1, SameBatches DEF vars, sish, store, history
<1>2. ASSUME NEW k \in Kinds, countSecurity(k) PROVE UNCHANGED <<now, drawn, store, arrived>>
  BY <1>2 DEF countSecurity
<1>3. CASE telemetryLoop
  <2>1. UNCHANGED <<now, store, arrived>>
    BY <1>3 DEF telemetryLoop, history
  <2>2. TakeCounters \/ UNCHANGED drawn
    BY <1>3 DEF telemetryLoop
  <2> QED
    BY <2>1, <2>2, TakeEffect, SameBatches
<1>4. CASE cpRequest \/ Timeout \/ RestartSish
  <2>1. UNCHANGED <<now, drawn, store, arrived>>
    BY <1>4 DEF cpRequest, Timeout, RestartSish, history
  <2> QED
    BY <2>1, SameBatches
<1>5. CASE telemetry
  <2>1. UNCHANGED <<now, drawn>>
    BY <1>5 DEF telemetry
  <2>2. pending \in Ids
    BY <1>5 DEF telemetry, ShapeOK
  <2>3. AddSecurityTelemetryBatch(pending) \/ UNCHANGED <<store, arrived>>
    BY <1>5 DEF telemetry, store
  <2> QED
    BY <2>1, <2>2, <2>3, SameBatches
<1>6. ASSUME NEW id \in late, TelemetryLate(id)
      PROVE  UNCHANGED <<now, drawn>> /\ id \in Ids /\ AddSecurityTelemetryBatch(id)
  BY <1>6 DEF TelemetryLate, ShapeOK, sish
<1>7. CASE DailyCleanup \/ RestartControlPlane
  <2>1. UNCHANGED <<now, drawn, arrived>> /\ CleanupSecurityTelemetry
    BY <1>7 DEF DailyCleanup, RestartControlPlane, history, sish
  <2> QED
    BY <2>1, SameBatches
<1>8. CASE Tick
  <2>1. UNCHANGED drawn
    BY <1>8 DEF Tick, sish
  <2> QED
    BY <1>8, <2>1, SameBatches
<1> QED
  BY <1>1, <1>2, <1>3, <1>4, <1>5, <1>6, <1>7, <1>8, SameBatches DEF Next

LEMMA StoreShape ==
  ASSUME ShapeOK, [Next]_vars
  PROVE  /\ now' \in 0..MaxTime
         /\ batches' \in SUBSET [id : Ids', received : 0..now']
         /\ metrics' \in [Times -> Amounts]
         /\ arrived' \in SUBSET Ids'
<1>1. /\ now \in 0..MaxTime /\ batches \in SUBSET [id : Ids, received : 0..now]
      /\ metrics \in [Times -> Amounts] /\ arrived \in SUBSET Ids /\ Ids \subseteq Ids'
      /\ MaxTime \in Nat
  BY StoreSteps, ConstantsAssumption DEF ShapeOK, Times
<1>2. CASE UNCHANGED <<now, store, arrived>>
  BY <1>1, <1>2 DEF store
<1>3. ASSUME UNCHANGED <<now, drawn>>, NEW id \in Ids, AddSecurityTelemetryBatch(id)
      PROVE  /\ batches' \in SUBSET [id : Ids, received : 0..now]
             /\ metrics' \in [Times -> Amounts] /\ arrived' \in SUBSET Ids /\ now' = now
  <2>1. CASE \E r \in batches : r.id = id
    BY <1>1, <1>3, <2>1 DEF AddSecurityTelemetryBatch
  <2>2. CASE ~\E r \in batches : r.id = id
    <3>1. /\ batches' = YoungBatches \cup {[id |-> id, received |-> now]}
          /\ arrived' = arrived \cup {id} /\ metrics' \in [Times -> Amounts]
      BY <1>3, <2>2, AddEffect
    <3>2. YoungBatches \subseteq batches /\ [id |-> id, received |-> now] \in [id : Ids, received : 0..now]
      BY <1>1 DEF YoungBatches
    <3> QED
      BY <1>1, <1>3, <3>1, <3>2
  <2> QED
    BY <2>1, <2>2
<1>4. ASSUME UNCHANGED <<now, drawn, arrived>>, CleanupSecurityTelemetry
      PROVE  /\ batches' \in SUBSET [id : Ids, received : 0..now]
             /\ metrics' \in [Times -> Amounts] /\ arrived' \in SUBSET Ids /\ now' = now
  BY <1>1, <1>4, CleanupEffect
<1>5. CASE Tick
  <2>1. now' = now + 1 /\ now < MaxTime /\ UNCHANGED <<batches, metrics, arrived>>
    BY <1>5 DEF Tick, store, history
  <2>2. 0..now \subseteq 0..now' /\ now' \in 0..MaxTime
    BY <1>1, <2>1
  <2> QED
    BY <1>1, <2>1, <2>2
<1>6. CASE UNCHANGED <<now, drawn>> /\ \E id \in Ids : AddSecurityTelemetryBatch(id)
  BY <1>1, <1>3, <1>6
<1>7. CASE UNCHANGED <<now, drawn, arrived>> /\ CleanupSecurityTelemetry
  BY <1>1, <1>4, <1>7
<1> QED
  BY <1>2, <1>5, <1>6, <1>7, StoreSteps

SishOK ==
  /\ counters \in Amounts
  /\ drawn \in Seq(Amounts)
  /\ pending \in Ids \cup {0}
  /\ call \in {"none", "sent", "accepted", "refused"}
  /\ call # "none" => pending # 0
  /\ late \in SUBSET Ids
  /\ happened \in Amounts /\ lost \in Amounts
  /\ orphans \in SUBSET Ids

LEMMA SishShape == ASSUME ShapeOK, [Next]_vars PROVE SishOK'
<1>1. SishOK
  BY DEF ShapeOK, SishOK
<1>2. Ids \subseteq Ids' /\ 0 \notin Ids
  BY StoreSteps DEF ShapeOK, Ids, SishOK
<1>3. ASSUME NEW k \in Kinds, countSecurity(k) PROVE SishOK'
  <2>1. counters' \in Amounts /\ happened' \in Amounts
    BY <1>1, <1>3 DEF countSecurity, Amounts, SishOK
  <2>2. UNCHANGED <<drawn, pending, call, late, lost, orphans>>
    BY <1>3 DEF countSecurity
  <2> QED
    BY <1>1, <2>1, <2>2 DEF Ids, SishOK
<1>4. CASE telemetryLoop
  <2>1. UNCHANGED <<late, happened, lost, orphans>> /\ call' = "sent"
    BY <1>4 DEF telemetryLoop, history
  <2>2. CASE TakeCounters
    <3>1. counters' \in Amounts /\ drawn' \in Seq(Amounts) /\ pending' \in Ids' /\ pending' # 0
      BY <2>2, TakeEffect, ZeroAmounts
    <3> QED
      BY <1>1, <1>2, <2>1, <3>1 DEF SishOK
  <2>3. CASE pending # 0 /\ UNCHANGED <<counters, drawn, pending>>
    BY <1>1, <2>1, <2>3 DEF Ids, SishOK
  <2> QED
    BY <1>4, <2>2, <2>3 DEF telemetryLoop
<1>5. CASE cpRequest
  BY <1>1, <1>5 DEF cpRequest, history, Ids, SishOK
<1>6. CASE Timeout
  <2>1. late' \in SUBSET Ids
    BY <1>1, <1>6 DEF Timeout, SishOK
  <2>2. UNCHANGED <<counters, drawn, pending, happened, lost, orphans>> /\ call' = "none"
    BY <1>6 DEF Timeout, history
  <2> QED
    BY <1>1, <2>1, <2>2 DEF Ids, SishOK
<1>7. CASE RestartSish
  <2>1. lost' \in Amounts
    BY <1>1, <1>7 DEF RestartSish, Amounts, SishOK
  <2>2. late' \in SUBSET Ids /\ orphans' \in SUBSET Ids
    BY <1>1, <1>7 DEF RestartSish, SishOK
  <2>3. /\ UNCHANGED <<drawn, happened>> /\ counters' = Zero /\ pending' = 0
        /\ call' = "none"
    BY <1>7 DEF RestartSish
  <2> QED
    BY <1>1, <2>1, <2>2, <2>3, ZeroAmounts DEF Ids, SishOK
<1>8. CASE telemetry
  <2>1. UNCHANGED <<counters, drawn, pending, late, happened, lost, orphans>>
    BY <1>8 DEF telemetry
  <2>2. call' \in {"accepted", "refused"} /\ pending # 0
    BY <1>1, <1>8 DEF telemetry, SishOK
  <2> QED
    BY <1>1, <2>1, <2>2 DEF Ids, SishOK
<1>9. ASSUME NEW id \in late, TelemetryLate(id) PROVE SishOK'
  BY <1>1, <1>9 DEF TelemetryLate, sish, Ids, SishOK
<1>10. CASE DailyCleanup \/ Tick \/ UNCHANGED vars
  BY <1>1, <1>10 DEF DailyCleanup, Tick, sish, history, vars, Ids, SishOK
<1>11. CASE RestartControlPlane
  BY <1>1, <1>11 DEF RestartControlPlane, history, Ids, SishOK
<1> QED
  BY <1>3, <1>4, <1>5, <1>6, <1>7, <1>8, <1>9, <1>10, <1>11 DEF Next

LEMMA ShapeStep == ShapeOK /\ [Next]_vars => ShapeOK'
  BY SishShape, StoreShape DEF ShapeOK, SishOK, Times

LEMMA OneMore ==
  ASSUME NEW f \in Amounts, NEW k \in Kinds, NEW g, g = [f EXCEPT ![k] = @ + 1]
  PROVE  Total(f) \in Nat /\ Total(g) = Total(f) + 1
<1>1. f \in [Kinds -> Nat] /\ IsFiniteSet(Kinds)
  BY ConstantsAssumption DEF Amounts
<1>2. g \in [Kinds -> Nat] /\ g[k] = f[k] + 1 /\ \A j \in Kinds \ {k} : g[j] = f[j]
  BY <1>1
<1>3. Total(f) = Sum(f, Kinds) /\ Total(g) = Sum(g, Kinds)
  BY <1>1, <1>2, TotalSum
<1>4. Sum(f, Kinds \ {k}) \in Nat /\ Sum(f, Kinds) = Sum(f, Kinds \ {k}) + f[k]
  BY <1>1, SumWithout
<1>5. Sum(g, Kinds) = Sum(g, Kinds \ {k}) + g[k]
  BY <1>1, <1>2, SumWithout
<1>6. Sum(g, Kinds \ {k}) = Sum(f, Kinds \ {k})
  BY <1>2, SumSame
<1>7. f[k] \in Nat
  BY <1>1
<1> QED
  BY <1>2, <1>3, <1>4, <1>5, <1>6, <1>7

LEMMA FewStep == ShapeOK /\ Few /\ [Next]_vars => Few'
<1> SUFFICES ASSUME ShapeOK, Few, [Next]_vars PROVE Few'
  OBVIOUS
<1>1. ASSUME NEW k \in Kinds, countSecurity(k) PROVE Few'
  <2>1. happened' = [happened EXCEPT ![k] = @ + 1] /\ Total(happened) < MaxEvents
    BY <1>1 DEF countSecurity
  <2>2. Total(happened) \in Nat /\ Total(happened') = Total(happened) + 1
    BY <2>1, OneMore DEF ShapeOK
  <2>3. Total(happened)' = Total(happened')
    OBVIOUS
  <2> QED
    BY <2>1, <2>2, <2>3, ConstantsAssumption DEF Few
<1>2. CASE UNCHANGED happened
  BY <1>2 DEF Few
<1>3. CASE telemetryLoop \/ cpRequest \/ Timeout \/ RestartSish \/ telemetry
  BY <1>2, <1>3 DEF telemetryLoop, cpRequest, Timeout, RestartSish, telemetry, history
<1>4. ASSUME NEW id \in late, TelemetryLate(id) PROVE UNCHANGED happened
  BY <1>4 DEF TelemetryLate
<1>5. CASE DailyCleanup \/ RestartControlPlane \/ Tick \/ UNCHANGED vars
  BY <1>2, <1>5 DEF DailyCleanup, RestartControlPlane, Tick, history, vars
<1> QED
  BY <1>1, <1>2, <1>3, <1>4, <1>5 DEF Next

LEMMA AccountedStep == ShapeOK /\ Accounted /\ [Next]_vars => Accounted'
<1> SUFFICES ASSUME ShapeOK, Accounted, [Next]_vars, NEW k \in Kinds
             PROVE  happened'[k] = counters'[k] + lost'[k] + InBatches(Ids, k)'
  BY DEF Accounted
<1>1. happened[k] = counters[k] + lost[k] + InBatches(Ids, k)
  BY DEF Accounted
<1>2. happened[k] \in Nat /\ counters[k] \in Nat /\ lost[k] \in Nat
  BY DEF ShapeOK, Amounts
<1>3. InBatches(Ids, k) \in Nat
  BY HeldSubset, InBatchesHeld DEF ShapeOK, Ids
<1>4. CASE UNCHANGED <<happened, counters, lost, drawn>>
  BY <1>1, <1>4, SameBatches
<1>5. ASSUME NEW j \in Kinds, countSecurity(j)
      PROVE  happened'[k] = counters'[k] + lost'[k] + InBatches(Ids, k)'
  <2>1. InBatches(Ids, k)' = InBatches(Ids, k) /\ lost' = lost
    BY <1>5, SameBatches DEF countSecurity
  <2>2. /\ happened'[k] = IF k = j THEN happened[k] + 1 ELSE happened[k]
        /\ counters'[k] = IF k = j THEN counters[k] + 1 ELSE counters[k]
    BY <1>5 DEF countSecurity, ShapeOK, Amounts
  <2> QED
    BY <1>1, <1>2, <1>3, <2>1, <2>2
<1>6. CASE telemetryLoop
  <2>1. CASE TakeCounters
    <3>1. /\ counters'[k] = 0 /\ UNCHANGED <<happened, lost>>
          /\ InBatches(Ids, k)' = InBatches(Ids, k) + counters[k]
      BY <1>6, <2>1, TakeEffect, ZeroAmounts DEF telemetryLoop, history
    <3> QED
      BY <1>1, <1>2, <1>3, <3>1
  <2>2. CASE UNCHANGED <<counters, drawn>>
    BY <1>4, <1>6, <2>2 DEF telemetryLoop, history
  <2> QED
    BY <1>6, <2>1, <2>2 DEF telemetryLoop
<1>7. CASE RestartSish
  <2>1. /\ counters'[k] = 0 /\ lost'[k] = lost[k] + counters[k] /\ UNCHANGED happened
        /\ InBatches(Ids, k)' = InBatches(Ids, k)
    BY <1>7, SameBatches, ZeroAmounts DEF RestartSish
  <2> QED
    BY <1>1, <1>2, <1>3, <2>1
<1>8. CASE cpRequest \/ Timeout \/ telemetry
  BY <1>4, <1>8 DEF cpRequest, Timeout, telemetry, history
<1>9. ASSUME NEW id \in late, TelemetryLate(id) PROVE UNCHANGED <<happened, counters, lost, drawn>>
  BY <1>9 DEF TelemetryLate, sish
<1>10. CASE DailyCleanup \/ RestartControlPlane \/ Tick \/ UNCHANGED vars
  BY <1>4, <1>10 DEF DailyCleanup, RestartControlPlane, Tick, history, vars, sish
<1> QED
  BY <1>4, <1>5, <1>6, <1>7, <1>8, <1>9, <1>10 DEF Next

LEMMA KeptStep == ShapeOK /\ Kept /\ Table /\ [Next]_vars => Kept'
<1> SUFFICES ASSUME ShapeOK, Kept, Table, [Next]_vars PROVE Kept'
  OBVIOUS
<1>1. /\ Ids \subseteq arrived \cup orphans \cup {pending} /\ 0 \notin Ids
      /\ call = "accepted" => pending \in arrived
  BY DEF Kept, ShapeOK, Ids
<1>2. ASSUME NEW id, AddSecurityTelemetryBatch(id) PROVE arrived' = arrived \cup {id}
  <2>1. CASE \E r \in batches : r.id = id
    <3>1. id \in arrived
      BY <2>1 DEF Table
    <3> QED
      BY <1>2, <2>1, <3>1 DEF AddSecurityTelemetryBatch
  <2>2. CASE ~\E r \in batches : r.id = id
    BY <1>2, <2>2 DEF AddSecurityTelemetryBatch
  <2> QED
    BY <2>1, <2>2
<1>3. ASSUME NEW k \in Kinds, countSecurity(k) PROVE Kept'
  BY <1>1, <1>3 DEF countSecurity, Kept, Ids
<1>4. CASE telemetryLoop
  <2>1. UNCHANGED <<arrived, orphans>> /\ call' = "sent"
    BY <1>4 DEF telemetryLoop, history
  <2>2. CASE pending = 0 /\ TakeCounters
    BY <1>1, <2>1, <2>2, TakeEffect DEF Kept
  <2>3. CASE UNCHANGED <<drawn, pending>>
    BY <1>1, <2>1, <2>3 DEF Kept, Ids
  <2> QED
    BY <1>4, <2>2, <2>3 DEF telemetryLoop
<1>5. CASE cpRequest
  <2>1. UNCHANGED <<drawn, arrived, orphans>> /\ call' = "none"
    BY <1>5 DEF cpRequest, history
  <2>2. CASE call = "accepted"
    BY <1>1, <2>1, <2>2 DEF Kept, Ids
  <2>3. CASE call # "accepted"
    <3>1. pending' = pending
      BY <1>5, <2>3 DEF cpRequest
    <3> QED
      BY <1>1, <2>1, <3>1 DEF Kept, Ids
  <2> QED
    BY <2>2, <2>3
<1>6. CASE Timeout
  BY <1>1, <1>6 DEF Timeout, history, Kept, Ids
<1>7. CASE RestartSish
  <2>1. /\ UNCHANGED <<drawn, arrived>> /\ orphans' = orphans \cup ({pending} \ {0})
        /\ call' = "none"
    BY <1>7 DEF RestartSish
  <2> QED
    BY <1>1, <2>1 DEF Kept, Ids
<1>8. CASE telemetry
  <2>1. UNCHANGED <<drawn, pending, orphans>>
    BY <1>8 DEF telemetry
  <2>2. CASE AddSecurityTelemetryBatch(pending) /\ call' = "accepted"
    <3>1. arrived' = arrived \cup {pending}
      BY <1>2, <2>2
    <3> QED
      BY <1>1, <2>1, <3>1 DEF Kept, Ids
  <2>3. CASE call' = "refused" /\ UNCHANGED arrived
    BY <1>1, <2>1, <2>3 DEF Kept, Ids
  <2> QED
    BY <1>8, <2>2, <2>3 DEF telemetry
<1>9. ASSUME NEW id \in late, TelemetryLate(id) PROVE Kept'
  <2>1. arrived' = arrived \cup {id} /\ UNCHANGED <<drawn, pending, call, orphans>>
    BY <1>2, <1>9 DEF TelemetryLate, sish
  <2> QED
    BY <1>1, <2>1 DEF Kept, Ids
<1>10. CASE DailyCleanup \/ Tick \/ UNCHANGED vars
  BY <1>1, <1>10 DEF DailyCleanup, Tick, history, vars, sish, Kept, Ids
<1>11. CASE RestartControlPlane
  BY <1>1, <1>11 DEF RestartControlPlane, history, Kept, Ids
<1> QED
  BY <1>3, <1>4, <1>5, <1>6, <1>7, <1>8, <1>9, <1>10, <1>11 DEF Next

Sums == ShapeOK /\ Table /\ Remembered

LEMMA ReceivedApart ==
  ASSUME ShapeOK, Table
  PROVE  /\ \A t : Received(t) \subseteq arrived /\ Received(t) \subseteq Ids
         /\ \A t, u : t # u => Received(t) \cap Received(u) = {}
<1>1. /\ batches \in SUBSET [id : Ids, received : 0..now]
      /\ \A r, s \in batches : r.id = s.id => r = s
      /\ \A r \in batches : r.id \in arrived
  BY DEF ShapeOK, Table
<1>2. \A t : Received(t) \subseteq arrived /\ Received(t) \subseteq Ids
  BY <1>1 DEF Received
<1>3. ASSUME NEW t, NEW u, NEW i \in Received(t), i \in Received(u) PROVE t = u
  <2>1. PICK r \in batches : r.received = t /\ r.id = i
    BY <1>3 DEF Received
  <2>2. PICK s \in batches : s.received = u /\ s.id = i
    BY <1>3 DEF Received
  <2> QED
    BY <1>1, <2>1, <2>2
<1> QED
  BY <1>2, <1>3

\* Once expired statistics have gone.
LEMMA Clean == Sums /\ (\A t \in Times : Expired(t) => metrics[t] = Zero) => Covered
<1> SUFFICES ASSUME Sums, \A t \in Times : Expired(t) => metrics[t] = Zero, NEW k \in Kinds
             PROVE  Total([t \in Times |-> metrics[t][k]]) <= InBatches(arrived, k)
  BY DEF Covered
<1>1. /\ drawn \in Seq(Amounts) /\ arrived \in SUBSET (DOMAIN drawn) /\ IsFiniteSet(Times)
      /\ \A t \in Times : metrics[t] \in Amounts
  <2>1. IsFiniteSet(Times)
    <3>1. 0 \in Int /\ MaxTime \in Int
      BY ConstantsAssumption
    <3> QED
      BY <3>1, FS_Interval DEF Times
  <2> QED
    BY <2>1 DEF Sums, ShapeOK, Ids, Times
<1>2. PICK m, A : m = [t \in Times |-> metrics[t][k]] /\ A = [t \in Times |-> Received(t)]
  OBVIOUS
<1>3. /\ \A t \in Times : A[t] \subseteq arrived /\ A[t] \in SUBSET (DOMAIN drawn)
      /\ \A t, u \in Times : t # u => A[t] \cap A[u] = {}
  BY <1>2, ReceivedApart DEF Sums, Ids
<1>4. ASSUME NEW t \in Times PROVE m[t] \in Nat /\ m[t] <= Held(drawn, A[t], k)
  <2>1. m[t] = metrics[t][k] /\ m[t] \in Nat /\ A[t] = Received(t)
    BY <1>1, <1>2 DEF Amounts
  <2>2. CASE Expired(t)
    <3>1. m[t] = 0
      BY <2>1, <2>2, ZeroAmounts
    <3>2. Held(drawn, A[t], k) \in Nat
      BY <1>1, <1>3, HeldSubset
    <3> QED
      BY <3>1, <3>2
  <2>3. CASE ~Expired(t)
    <3>1. metrics[t][k] <= InBatches(Received(t), k)
      BY <2>3 DEF Sums, Remembered
    <3> QED
      BY <2>1, <3>1, InBatchesHeld
  <2> QED
    BY <2>2, <2>3
<1>5. Total([t \in Times |-> m[t]]) <= Held(drawn, arrived, k)
  BY <1>1, <1>3, <1>4, HeldPartition
<1>6. [t \in Times |-> m[t]] = [t \in Times |-> metrics[t][k]]
  BY <1>2
<1> QED
  BY <1>5, <1>6, InBatchesHeld

LEMMA CleanPrime == (Sums /\ (\A t \in Times : Expired(t) => metrics[t] = Zero) => Covered)'
  BY Clean, PTL

\* A batch is added.
LEMMA AddStep ==
  ASSUME Sums, UNCHANGED <<now, drawn>>, ShapeOK', NEW id \in Ids, AddSecurityTelemetryBatch(id),
         ~\E r \in batches : r.id = id
  PROVE  Table' /\ Remembered' /\ Covered'
<1>1. ShapeOK /\ Table /\ Remembered
  BY DEF Sums
<1>2. /\ batches' = YoungBatches \cup {[id |-> id, received |-> now]}
      /\ arrived' = arrived \cup {id}
      /\ now \in Times /\ ~Expired(now)
      /\ \A t \in Times : Expired(t) => metrics'[t] = Zero
      /\ \A t \in Times : ~Expired(t) /\ t # now => metrics'[t] = metrics[t]
      /\ \A k \in Kinds : metrics'[now][k] = metrics[now][k] + drawn[id][k]
  BY <1>1, AddEffect
<1>3. PICK new : new = [id |-> id, received |-> now]
  OBVIOUS
<1>4. batches' = {r \in batches : ~Expired(r.received)} \cup {new} /\ new.id = id /\ new.received = now
  BY <1>2, <1>3 DEF YoungBatches
<1>5. Table'
  BY <1>1, <1>2, <1>4 DEF Table
<1>6. ASSUME NEW t, ~Expired(t), t # now PROVE Received(t)' = Received(t)
  BY <1>4, <1>6 DEF Received
<1>7. Received(now)' = Received(now) \cup {id} /\ id \notin Received(now)
  BY <1>2, <1>4 DEF Received
<1>8. \A t : Expired(t)' = Expired(t)
  BY DEF Expired
<1>9. ASSUME NEW t \in Times, ~Expired(t), NEW k \in Kinds
      PROVE  metrics'[t][k] <= InBatches(Received(t), k)'
  <2>1. metrics[t][k] <= InBatches(Received(t), k)
    BY <1>1, <1>9 DEF Remembered
  <2>2. CASE t # now
    <3>1. InBatches(Received(t), k)' = InBatches(Received(t), k)
      BY <1>6, <1>9, <2>2 DEF InBatches
    <3> QED
      BY <1>2, <1>9, <2>1, <2>2, <3>1
  <2>3. CASE t = now
    <3>1. PICK R : R = Received(now)
      OBVIOUS
    <3>2. /\ drawn \in Seq(Amounts) /\ R \in SUBSET (DOMAIN drawn) /\ id \in DOMAIN drawn
          /\ id \notin R
      BY <1>1, <1>7, <3>1, ReceivedApart DEF ShapeOK, Ids
    <3>3. Held(drawn, R \cup {id}, k) = Held(drawn, R, k) + drawn[id][k]
      BY <3>2, HeldAdd
    <3>4. InBatches(Received(now), k)' = Held(drawn, R \cup {id}, k)
      BY <1>7, <3>1 DEF InBatches, Held
    <3>5. metrics[now][k] \in Nat /\ drawn[id][k] \in Nat /\ Held(drawn, R, k) \in Nat
      <4>1. metrics[now] \in Amounts /\ drawn[id] \in Amounts
        BY <1>1, <1>2, <3>2 DEF ShapeOK, Times
      <4>2. Held(drawn, R, k) \in Nat
        BY <3>2, HeldSubset
      <4> QED
        BY <4>1, <4>2 DEF Amounts
    <3>6. metrics[now][k] <= Held(drawn, R, k) /\ metrics'[now][k] = metrics[now][k] + drawn[id][k]
      BY <1>2, <2>1, <2>3, <3>1, InBatchesHeld
    <3>7. metrics'[now][k] <= Held(drawn, R \cup {id}, k)
      BY <3>3, <3>5, <3>6
    <3> QED
      BY <2>3, <3>4, <3>7
  <2> QED
    BY <2>2, <2>3
<1>10. Remembered'
  BY <1>8, <1>9 DEF Remembered, Times
<1>11. Covered'
  BY <1>2, <1>5, <1>8, <1>10, CleanPrime DEF Sums, Times
<1> QED
  BY <1>5, <1>10, <1>11

\* The tables are cleaned up, or time passes.
LEMMA CleanupStep ==
  ASSUME Sums, Covered, UNCHANGED <<now, drawn, arrived>>, CleanupSecurityTelemetry
  PROVE  Table' /\ Remembered' /\ Covered'
<1>1. ShapeOK /\ Table /\ Remembered
  BY DEF Sums
<1>2. /\ metrics' \in [Times -> Amounts] /\ metrics \in [Times -> Amounts]
      /\ \A t \in Times : metrics'[t] = metrics[t] \/ (Expired(t) /\ metrics'[t] = Zero)
      /\ batches' \subseteq batches
      /\ \A r \in batches : ~Expired(r.received) => r \in batches'
  BY <1>1, CleanupEffect DEF ShapeOK, Times
<1>3. Table'
  BY <1>1, <1>2 DEF Table
<1>4. Remembered'
  <2> SUFFICES ASSUME NEW t \in Times, ~Expired(t), NEW k \in Kinds
               PROVE  metrics'[t][k] <= InBatches(Received(t), k)'
    BY DEF Remembered, Times, Expired
  <2>1. Received(t)' = Received(t)
    BY <1>2 DEF Received
  <2>2. InBatches(Received(t), k)' = InBatches(Received(t), k)
    BY <2>1 DEF InBatches
  <2> QED
    BY <1>1, <1>2, <2>2 DEF Remembered
<1>5. Covered'
  <2> SUFFICES ASSUME NEW k \in Kinds
               PROVE  Total([t \in Times |-> metrics'[t][k]]) <= InBatches(arrived, k)
    BY DEF Covered, InBatches, Times
  <2>1. PICK f, g : f = [t \in Times |-> metrics'[t][k]] /\ g = [t \in Times |-> metrics[t][k]]
    OBVIOUS
  <2>2. \A t \in Times : f[t] \in Nat /\ g[t] \in Nat /\ f[t] <= g[t]
    BY <1>2, <2>1, ZeroAmounts DEF Amounts
  <2>3. IsFiniteSet(Times)
    <3>1. 0 \in Int /\ MaxTime \in Int
      BY ConstantsAssumption
    <3> QED
      BY <3>1, FS_Interval DEF Times
  <2>4. Sum(f, Times) <= Sum(g, Times) /\ Sum(f, Times) \in Nat /\ Sum(g, Times) \in Nat
    BY <2>2, <2>3, SumLess, SumType
  <2>5. Total(f) = Sum(f, Times) /\ Total(g) = Sum(g, Times)
    BY <2>1 DEF Sum
  <2>6. Total(g) <= InBatches(arrived, k)
    BY <2>1 DEF Covered
  <2>7. InBatches(arrived, k) \in Nat
    BY <1>1, HeldSubset, InBatchesHeld DEF ShapeOK, Ids
  <2> QED
    BY <2>1, <2>4, <2>5, <2>6, <2>7
<1> QED
  BY <1>3, <1>4, <1>5

LEMMA StoreStep ==
  ASSUME Sums, Covered, ShapeOK', [Next]_vars
  PROVE  Table' /\ Remembered' /\ Covered'
<1>1. ShapeOK /\ Table /\ Remembered
  BY DEF Sums
<1>2. /\ \A k \in Kinds, S \in SUBSET Ids : InBatches(S, k)' = InBatches(S, k)
      /\ \/ UNCHANGED <<now, store, arrived>>
         \/ UNCHANGED <<now, drawn>> /\ \E id \in Ids : AddSecurityTelemetryBatch(id)
         \/ UNCHANGED <<now, drawn, arrived>> /\ CleanupSecurityTelemetry
         \/ Tick
  BY <1>1, StoreSteps
<1>3. ASSUME UNCHANGED <<batches, metrics, arrived>>, now' \in Nat, now <= now'
      PROVE  Table' /\ Remembered' /\ Covered'
  <2>1. Table'
    BY <1>1, <1>3 DEF Table
  <2>2. Remembered'
    <3> SUFFICES ASSUME NEW t \in Times, ~Expired(t)', NEW k \in Kinds
                 PROVE  metrics'[t][k] <= InBatches(Received(t), k)'
      BY DEF Remembered, Times
    <3>1. ~Expired(t)
      BY <1>1, <1>3, ConstantsAssumption DEF Expired, ShapeOK, Times
    <3>2. Received(t)' = Received(t) /\ Received(t) \in SUBSET Ids
      BY <1>1, <1>3, ReceivedApart DEF Received
    <3>3. InBatches(Received(t), k)' = InBatches(Received(t), k)
      <4>1. PICK R : R = Received(t)
        OBVIOUS
      <4>2. Held(drawn', R, k) = Held(drawn, R, k)
        BY <1>2, <3>2, <4>1 DEF InBatches, Held
      <4> QED
        BY <3>2, <4>1, <4>2 DEF InBatches, Held
    <3> QED
      BY <1>1, <1>3, <3>1, <3>3 DEF Remembered
  <2>3. Covered'
    <3> SUFFICES ASSUME NEW k \in Kinds
                 PROVE  Total([t \in Times |-> metrics'[t][k]]) <= InBatches(arrived, k)'
      BY DEF Covered, Times
    <3>1. InBatches(arrived, k)' = InBatches(arrived, k)
      <4>1. arrived \in SUBSET Ids
        BY <1>1 DEF ShapeOK
      <4>2. PICK R : R = arrived
        OBVIOUS
      <4>3. Held(drawn', R, k) = Held(drawn, R, k)
        BY <1>2, <4>1, <4>2 DEF InBatches, Held
      <4> QED
        BY <1>3, <4>2, <4>3 DEF InBatches, Held
    <3>2. metrics' = metrics
      BY <1>3
    <3> QED
      BY <3>1, <3>2 DEF Covered
  <2> QED
    BY <2>1, <2>2, <2>3
<1>4. now \in Nat /\ now' \in Nat
  BY <1>1 DEF ShapeOK
<1>5. CASE UNCHANGED <<now, store, arrived>>
  BY <1>3, <1>4, <1>5 DEF store
<1>6. ASSUME UNCHANGED <<now, drawn>>, NEW id \in Ids, AddSecurityTelemetryBatch(id)
      PROVE  Table' /\ Remembered' /\ Covered'
  <2>1. CASE \E r \in batches : r.id = id
    BY <1>3, <1>4, <1>6, <2>1 DEF AddSecurityTelemetryBatch
  <2>2. CASE ~\E r \in batches : r.id = id
    BY <1>6, <2>2, AddStep
  <2> QED
    BY <2>1, <2>2
<1>7. CASE UNCHANGED <<now, drawn, arrived>> /\ CleanupSecurityTelemetry
  BY <1>7, CleanupStep
<1>8. CASE Tick
  BY <1>3, <1>4, <1>8 DEF Tick, store, history
<1> QED
  BY <1>2, <1>5, <1>6, <1>7, <1>8

LEMMA TotalsOfNothing ==
  ASSUME Init PROVE Few /\ Accounted /\ Covered
<1>1. /\ drawn = <<>> /\ arrived = {} /\ happened = Zero /\ lost = Zero /\ counters = Zero
      /\ metrics = [t \in Times |-> Zero]
  BY DEF Init, Times
<1>2. ASSUME NEW f, NEW S, IsFiniteSet(S), f \in [S -> Nat], \A x \in S : f[x] = 0
      PROVE  Total(f) = 0
  BY <1>2, TotalSum, SumZero
<1>3. Few
  <2>1. Zero \in [Kinds -> Nat] /\ IsFiniteSet(Kinds)
    BY ZeroAmounts, ConstantsAssumption DEF Amounts
  <2>2. Total(Zero) = 0
    BY <1>2, <2>1, ZeroAmounts
  <2> QED
    BY <1>1, <2>2, ConstantsAssumption DEF Few
<1>4. \A k \in Kinds : InBatches({}, k) = 0
  <2> SUFFICES ASSUME NEW k \in Kinds PROVE InBatches({}, k) = 0
    OBVIOUS
  <2>1. PICK f : f = [id \in {} |-> drawn[id][k]]
    OBVIOUS
  <2>2. f \in [{} -> Nat] /\ IsFiniteSet({})
    BY <2>1, FS_EmptySet
  <2>3. Total(f) = 0
    BY <1>2, <2>2
  <2> QED
    BY <2>1, <2>3 DEF InBatches
<1>5. Accounted
  <2>1. Ids = {}
    BY <1>1 DEF Ids
  <2> QED
    BY <1>1, <1>4, <2>1, ZeroAmounts DEF Accounted
<1>6. Covered
  <2> SUFFICES ASSUME NEW k \in Kinds
               PROVE  Total([t \in Times |-> metrics[t][k]]) <= InBatches(arrived, k)
    BY DEF Covered
  <2>1. PICK f : f = [t \in Times |-> metrics[t][k]]
    OBVIOUS
  <2>2. f \in [Times -> Nat] /\ \A t \in Times : f[t] = 0
    BY <1>1, <2>1, ZeroAmounts
  <2>3. IsFiniteSet(Times)
    <3>1. 0 \in Int /\ MaxTime \in Int
      BY ConstantsAssumption
    <3> QED
      BY <3>1, FS_Interval DEF Times
  <2>4. Total(f) = 0
    BY <1>2, <2>2, <2>3
  <2> QED
    BY <1>1, <1>4, <2>1, <2>4
<1> QED
  BY <1>3, <1>5, <1>6

LEMMA InitTInv == Init => TInv
<1> SUFFICES ASSUME Init PROVE TInv
  OBVIOUS
<1>1. ShapeOK
  BY ConstantsAssumption, ZeroAmounts DEF Init, ShapeOK, Ids
<1>2. Kept /\ Table /\ Remembered
  <2>1. Kept /\ Table
    BY DEF Init, Kept, Table, Ids
  <2>2. Remembered
    <3> SUFFICES ASSUME NEW t \in Times, NEW k \in Kinds
                 PROVE  metrics[t][k] <= InBatches(Received(t), k)
      BY DEF Remembered
    <3>1. metrics[t][k] = 0
      BY ZeroAmounts DEF Init, Times
    <3>2. InBatches(Received(t), k) \in Nat
      <4>1. Received(t) = {}
        BY DEF Init, Received
      <4> QED
        BY <1>1, <4>1, HeldSubset, InBatchesHeld DEF ShapeOK, Ids
    <3> QED
      BY <3>1, <3>2
  <2> QED
    BY <2>1, <2>2
<1> QED
  BY <1>1, <1>2, TotalsOfNothing DEF TInv

LEMMA NextTInv == TInv /\ [Next]_vars => TInv'
  BY ShapeStep, FewStep, KeptStep, AccountedStep, StoreStep DEF TInv, Sums

LEMMA SpecTInv == Spec => []TInv
  BY InitTInv, NextTInv, PTL DEF Spec

-----------------------------------------------------------------------------
(* What follows from it.                                                     *)

\* Every number is bounded by what happened.
LEMMA BoundedTypes == TInv => TypeOK
<1> SUFFICES ASSUME TInv PROVE TypeOK
  OBVIOUS
<1>0. ShapeOK /\ Few /\ Accounted /\ Covered /\ MaxEvents \in Nat /\ IsFiniteSet(Kinds)
  BY ConstantsAssumption DEF TInv
<1>1. ASSUME NEW k \in Kinds
      PROVE  /\ happened[k] \in 0..MaxEvents /\ counters[k] \in 0..MaxEvents
             /\ lost[k] \in 0..MaxEvents
             /\ InBatches(Ids, k) \in 0..MaxEvents /\ InBatches(arrived, k) \in 0..MaxEvents
  <2>1. happened \in [Kinds -> Nat] /\ Total(happened) = Sum(happened, Kinds)
    BY <1>0, TotalSum DEF ShapeOK, Amounts
  <2>2. Sum(happened, Kinds \ {k}) \in Nat
        /\ Sum(happened, Kinds) = Sum(happened, Kinds \ {k}) + happened[k]
    BY <1>0, <2>1, SumWithout
  <2>3. happened[k] \in Nat /\ happened[k] <= MaxEvents
    BY <1>0, <2>1, <2>2 DEF Few
  <2>4. /\ counters[k] \in Nat /\ lost[k] \in Nat
        /\ happened[k] = counters[k] + lost[k] + InBatches(Ids, k)
    BY <1>0 DEF ShapeOK, Amounts, Accounted
  <2>5. /\ InBatches(Ids, k) \in Nat /\ InBatches(arrived, k) \in Nat
        /\ InBatches(arrived, k) <= InBatches(Ids, k)
    <3>1. drawn \in Seq(Amounts) /\ arrived \in SUBSET (DOMAIN drawn)
      BY <1>0 DEF ShapeOK, Ids
    <3>2. PICK A, D : A = arrived /\ D = DOMAIN drawn
      OBVIOUS
    <3>3. /\ Held(drawn, A, k) \in Nat /\ Held(drawn, D, k) \in Nat /\ Held(drawn, D \ A, k) \in Nat
          /\ Held(drawn, D, k) = Held(drawn, A, k) + Held(drawn, D \ A, k)
      <4>1. A \in SUBSET D /\ D \in SUBSET (DOMAIN drawn) /\ k \in Kinds
        BY <3>1, <3>2
      <4> QED
        BY <3>1, <4>1, HeldSubset
    <3> QED
      BY <3>2, <3>3, InBatchesHeld DEF Ids
  <2> QED
    BY <1>0, <2>3, <2>4, <2>5
<1>2. counters \in Counts /\ happened \in Counts /\ lost \in Counts
  BY <1>0, <1>1 DEF ShapeOK, Amounts, Counts
<1>3. drawn \in Seq(Counts)
  <2>1. drawn \in Seq(Amounts) /\ Ids = 1..Len(drawn) /\ Len(drawn) \in Nat
    BY <1>0 DEF ShapeOK, Ids
  <2>2. ASSUME NEW id \in Ids PROVE drawn[id] \in Counts
    <3>1. drawn[id] \in [Kinds -> Nat] /\ id \in DOMAIN drawn
      BY <2>1 DEF Amounts, Ids
    <3>2. ASSUME NEW k \in Kinds PROVE drawn[id][k] \in 0..MaxEvents
      <4>1. drawn[id][k] \in Nat /\ drawn[id][k] <= Held(drawn, DOMAIN drawn, k)
        BY <2>1, <3>1, HeldElement
      <4>2. Held(drawn, DOMAIN drawn, k) \in 0..MaxEvents
        BY <1>1, InBatchesHeld DEF Ids
      <4> QED
        BY <1>0, <4>1, <4>2
    <3> QED
      BY <3>1, <3>2 DEF Counts
  <2> QED
    BY <2>1, <2>2 DEF Ids
<1>4. metrics \in [0..MaxTime -> Counts]
  <2>1. metrics \in [Times -> Amounts]
    BY <1>0 DEF ShapeOK, Times
  <2>2. ASSUME NEW t \in Times, NEW k \in Kinds PROVE metrics[t][k] \in 0..MaxEvents
    <3>1. PICK f : f = [u \in Times |-> metrics[u][k]]
      OBVIOUS
    <3>2. (\A u \in Times : f[u] \in Nat) /\ f[t] = metrics[t][k]
      BY <2>1, <3>1 DEF Amounts
    <3>3. IsFiniteSet(Times)
      <4>1. 0 \in Int /\ MaxTime \in Int
        BY ConstantsAssumption
      <4> QED
        BY <4>1, FS_Interval DEF Times
    <3>4. Sum(f, Times \ {t}) \in Nat /\ Sum(f, Times) = Sum(f, Times \ {t}) + f[t]
      BY <3>2, <3>3, SumWithout
    <3>5. Sum(f, Times) = Total(f)
      BY <3>1 DEF Sum
    <3>6. Total(f) <= InBatches(arrived, k)
      BY <1>0, <3>1 DEF Covered
    <3>7. f[t] \in Nat /\ InBatches(arrived, k) \in 0..MaxEvents
      BY <1>1, <3>2
    <3> QED
      BY <1>0, <3>2, <3>4, <3>5, <3>6, <3>7
  <2> QED
    BY <2>1, <2>2 DEF Times, Amounts, Counts
<1> QED
  BY <1>0, <1>2, <1>3, <1>4 DEF ShapeOK, TypeOK

LEMMA OnceAtMost == TInv => CountedOnce
<1> SUFFICES ASSUME TInv, NEW k \in Kinds
             PROVE  counters[k] + InBatches(Ids \ arrived, k)
                      + Total([t \in 0..MaxTime |-> metrics[t][k]]) <= happened[k]
  BY DEF CountedOnce
<1>1. /\ happened[k] = counters[k] + lost[k] + InBatches(Ids, k)
      /\ Total([t \in 0..MaxTime |-> metrics[t][k]]) <= InBatches(arrived, k)
  BY DEF TInv, Accounted, Covered, Times
<1>2. counters[k] \in Nat /\ lost[k] \in Nat
  BY DEF TInv, ShapeOK, Amounts
<1>3. PICK A, D, R : A = arrived /\ D = DOMAIN drawn /\ R = D \ A
  OBVIOUS
<1>4. /\ Held(drawn, A, k) \in Nat /\ Held(drawn, D, k) \in Nat /\ Held(drawn, R, k) \in Nat
      /\ Held(drawn, D, k) = Held(drawn, A, k) + Held(drawn, R, k)
  <2>1. drawn \in Seq(Amounts) /\ A \in SUBSET D /\ D \in SUBSET (DOMAIN drawn) /\ k \in Kinds
    BY <1>3 DEF TInv, ShapeOK, Ids
  <2>2. /\ Held(drawn, A, k) \in Nat /\ Held(drawn, D, k) \in Nat /\ Held(drawn, D \ A, k) \in Nat
        /\ Held(drawn, D, k) = Held(drawn, A, k) + Held(drawn, D \ A, k)
    BY <2>1, HeldSubset
  <2> QED
    BY <1>3, <2>2
<1>5. InBatches(Ids, k) = InBatches(arrived, k) + InBatches(Ids \ arrived, k)
      /\ InBatches(arrived, k) \in Nat /\ InBatches(Ids \ arrived, k) \in Nat
  BY <1>3, <1>4, InBatchesHeld DEF Ids
<1>6. Total([t \in 0..MaxTime |-> metrics[t][k]]) \in Nat
  <2>1. PICK f : f = [t \in Times |-> metrics[t][k]]
    OBVIOUS
  <2>2. \A t \in Times : f[t] \in Nat
    BY <2>1 DEF TInv, ShapeOK, Times, Amounts
  <2>3. IsFiniteSet(Times)
    <3>1. 0 \in Int /\ MaxTime \in Int
      BY ConstantsAssumption
    <3> QED
      BY <3>1, FS_Interval DEF Times
  <2>4. Sum(f, Times) \in Nat /\ Total(f) = Sum(f, Times)
    <3>1. Total(f) = Sum(f, Times)
      BY <2>1 DEF Sum
    <3> QED
      BY <2>2, <2>3, <3>1, SumType
  <2> QED
    BY <2>1, <2>4 DEF Times
<1> QED
  BY <1>1, <1>2, <1>5, <1>6

\* Ids, events and times are what the model says they are, and no number is more
\* than what happened (securityCounters, telemetryLoop, AddSecurityTelemetryBatch).
THEOREM TelemetryTyped == Spec => []TypeOK
  BY SpecTInv, BoundedTypes, PTL

\* No event is in the statistics twice, however often its batch is sent and
\* whatever becomes late or expires in between (AddSecurityTelemetryBatch).
THEOREM EventsCountedOnce == Spec => []CountedOnce
  BY SpecTInv, OnceAtMost, PTL

\* Only a restart of sish discards events (telemetryLoop and its retries).
THEOREM NothingIsForgotten == Spec => []NothingForgotten
<1>1. TInv => NothingForgotten
  BY DEF TInv, Accounted, Kept, NothingForgotten
<1> QED
  BY <1>1, SpecTInv, PTL
=============================================================================

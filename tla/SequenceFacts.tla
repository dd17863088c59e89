--------------------------- MODULE SequenceFacts ---------------------------
(***************************************************************************)
(* What the operators on lists return, for every list: filters (Only),     *)
(* sorted sets (Sorted), concatenations.  Stated once for the modules that *)
(* order phases and pages of rows.                                         *)
(***************************************************************************)
EXTENDS Ordering, SequenceTheorems, FiniteSetTheorems, TLAPS

(* s names nothing twice.                                                  *)
Distinct(s) == \A i, k \in DOMAIN s : s[i] = s[k] => i = k

(* Of two entries of s, the first is before the second by R.               *)
InOrderOf(s, R) == \A i, k \in DOMAIN s : i < k => <<s[i], s[k]>> \in R

(* Every nonempty set of numbers has a least one: where an induction would *)
(* go up from 0, a proof takes the least counterexample.                   *)
LEMMA LeastNumber ==
  ASSUME NEW T \in SUBSET Nat, T # {}
  PROVE  \E m \in T : \A k \in T : m <= k
<1> DEFINE R == OpToRel(<, Nat)
<1>1. IsWellFoundedOn(R, Nat)
  BY NatLessThanWellFounded
<1> HIDE DEF R
<1>2. PICK m \in T : \A k \in T : ~ (<<k, m>> \in R)
  BY <1>1, WFMin
<1>3. ASSUME NEW k \in T, k < m PROVE FALSE
  BY <1>2, <1>3 DEF R, OpToRel
<1> QED
  BY <1>2, <1>3

(* The same for lists: a set of lists that has not the empty one has one   *)
(* that is not in it without its last entry.                               *)
LEMMA ShortestList ==
  ASSUME NEW X, NEW T \in SUBSET Seq(X), T # {}, <<>> \notin T
  PROVE  \E s \in Seq(X), e \in X : Append(s, e) \in T /\ s \notin T
<1> DEFINE L == {Len(s) : s \in T}
<1>1. L \in SUBSET Nat /\ L # {}
  <2>1. \A s \in T : Len(s) \in Nat
    BY LenProperties
  <2> QED
    BY <2>1
<1>2. PICK n \in L : \A k \in L : n <= k
  BY <1>1, LeastNumber
<1>3. PICK t \in T : Len(t) = n
  BY <1>2
<1>4. PICK s \in Seq(X), e \in X : t = Append(s, e)
  BY <1>3, SequenceEmptyOrAppend
<1>5. Len(t) = Len(s) + 1 /\ Len(s) \in Nat
  BY <1>4, AppendProperties, LenProperties
<1>6. s \notin T
  BY <1>2, <1>3, <1>5
<1> QED
  BY <1>4, <1>6

(* The values Only goes through exist, and each follows from the one       *)
(* before.                                                                 *)
LEMMA OnlyTable ==
  ASSUME NEW X, NEW s \in Seq(X), NEW S
  PROVE  \E f : /\ f[0] = <<>>
                /\ \A n \in 1..Len(s) :
                     f[n] = IF s[n] \in S THEN Append(f[n - 1], s[n]) ELSE f[n - 1]
                /\ Only(s, S) = f[Len(s)]
<1> DEFINE Step(f, n) == IF n = 0 THEN <<>>
                         ELSE IF s[n] \in S THEN Append(f[n - 1], s[n]) ELSE f[n - 1]
           Table(f, m) == f = [n \in 0..m |-> Step(f, n)]
           T == {m \in Nat : ~ \E f : Table(f, m)}
<1>1. ASSUME T # {} PROVE FALSE
  <2>1. PICK m \in T : \A k \in T : m <= k
    BY <1>1, LeastNumber
  <2>2. CASE m = 0
    <3>1. Table([n \in 0..0 |-> <<>>], 0)
      OBVIOUS
    <3> QED
      BY <2>1, <2>2, <3>1
  <2>3. CASE m # 0
    <3>1. m \in Nat /\ m - 1 \in Nat /\ ~ (m <= m - 1)
      BY <2>3
    <3>2. PICK f : Table(f, m - 1)
      BY <2>1, <3>1
    <3> DEFINE g == [n \in 0..m |-> IF n = m THEN Step(f, m) ELSE f[n]]
    <3>3. \A n \in 0..m : g[n] = Step(g, n)
      <4> TAKE n \in 0..m
      <4>1. CASE n = m
        BY <2>3, <4>1
      <4>2. CASE n # m
        <5>1. n \in 0..m - 1
          BY <3>1, <4>2
        <5>3. f[n] = Step(f, n)
          BY <3>2, <5>1
        <5>2. n # 0 => g[n - 1] = f[n - 1]
          BY <4>2
        <5> QED
          BY <4>2, <5>3, <5>2
      <4> QED
        BY <4>1, <4>2
    <3>4. Table(g, m)
      BY <3>3
    <3> QED
      BY <2>1, <3>4
  <2> QED
    BY <2>2, <2>3
<1>2. Len(s) \in Nat
  BY LenProperties
<1>3. \E f : Table(f, Len(s))
  BY <1>1, <1>2
<1> DEFINE upTo == CHOOSE f : Table(f, Len(s))
<1>4. Table(upTo, Len(s))
  BY <1>3
<1>5. Only(s, S) = upTo[Len(s)]
  BY DEF Only
<1> HIDE DEF upTo
<1>6. \A n \in 0..Len(s) : upTo[n] = Step(upTo, n)
  BY <1>4
<1> WITNESS upTo
<1> QED
  BY <1>2, <1>5, <1>6
(* Nothing is left of nothing.                                             *)
LEMMA OnlyEmpty ==
  ASSUME NEW S
  PROVE  Only(<<>>, S) = <<>>
<1>1. ASSUME NEW s \in Seq({}), Len(s) = 0 PROVE Only(s, S) = <<>>
  <2>1. PICK f : f[0] = <<>> /\ Only(s, S) = f[Len(s)]
    BY OnlyTable
  <2> QED
    BY <1>1, <2>1
<1> QED
  BY <1>1, EmptySeq

(* What one more entry adds to what is left.                               *)
LEMMA OnlyAppend ==
  ASSUME NEW X, NEW s \in Seq(X), NEW e \in X, NEW S
  PROVE  Only(Append(s, e), S) = IF e \in S THEN Append(Only(s, S), e) ELSE Only(s, S)
<1> DEFINE t == Append(s, e)
<1>1. /\ t \in Seq(X) /\ Len(t) = Len(s) + 1 /\ Len(s) \in Nat
      /\ \A i \in 1..Len(s) : t[i] = s[i]
      /\ t[Len(s) + 1] = e
  BY AppendProperties, LenProperties
<1>2. PICK f : /\ f[0] = <<>>
               /\ \A n \in 1..Len(s) :
                    f[n] = IF s[n] \in S THEN Append(f[n - 1], s[n]) ELSE f[n - 1]
               /\ Only(s, S) = f[Len(s)]
  BY OnlyTable
<1>3. PICK g : /\ g[0] = <<>>
               /\ \A n \in 1..Len(t) :
                    g[n] = IF t[n] \in S THEN Append(g[n - 1], t[n]) ELSE g[n - 1]
               /\ Only(t, S) = g[Len(t)]
  BY <1>1, OnlyTable
<1> HIDE DEF t
<1> DEFINE T == {n \in 0..Len(s) : f[n] # g[n]}
<1>4. ASSUME T # {} PROVE FALSE
  <2>1. PICK n \in T : \A k \in T : n <= k
    <3>1. T \in SUBSET Nat
      BY <1>1
    <3> QED
      BY <1>4, <3>1, LeastNumber
  <2>2. n # 0
    BY <1>2, <1>3
  <2>3. n \in 1..Len(s) /\ n \in 1..Len(t) /\ n - 1 \in 0..Len(s) /\ ~ (n <= n - 1)
    BY <1>1, <2>2
  <2>4. f[n - 1] = g[n - 1]
    BY <2>1, <2>3
  <2> QED
    BY <1>1, <1>2, <1>3, <2>1, <2>3, <2>4
<1>5. f[Len(s)] = g[Len(s)]
  BY <1>1, <1>4
<1>6. Len(t) \in 1..Len(t) /\ Len(t) - 1 = Len(s) /\ t[Len(t)] = e
  BY <1>1
<1>7. Only(t, S) = IF e \in S THEN Append(Only(s, S), e) ELSE Only(s, S)
  BY <1>2, <1>3, <1>5, <1>6
<1> QED
  BY <1>7 DEF t

(* What one more entry adds to a list: to what it names, to whether it     *)
(* names each once, to whether it is in order.                             *)
LEMMA ListAppend ==
  ASSUME NEW X, NEW s \in Seq(X), NEW e \in X
  PROVE  /\ ToSet(Append(s, e)) = ToSet(s) \union {e}
         /\ Distinct(Append(s, e)) <=> Distinct(s) /\ e \notin ToSet(s)
         /\ \A R : InOrderOf(Append(s, e), R) <=>
              InOrderOf(s, R) /\ \A x \in ToSet(s) : <<x, e>> \in R
<1> DEFINE t == Append(s, e)
<1>1. /\ t \in Seq(X) /\ Len(t) = Len(s) + 1 /\ Len(s) \in Nat
      /\ DOMAIN t = 1..Len(s) + 1 /\ DOMAIN s = 1..Len(s)
      /\ \A i \in 1..Len(s) : t[i] = s[i]
      /\ t[Len(s) + 1] = e
  BY AppendProperties, LenProperties
<1> HIDE DEF t
<1>0. \A i \in 1..Len(s) + 1 : i \in 1..Len(s) \/ i = Len(s) + 1
  BY <1>1
<1>9. \A i \in 1..Len(s) : i \in 1..Len(s) + 1 /\ i < Len(s) + 1 /\ i # Len(s) + 1
  BY <1>1
<1>8. Len(s) + 1 \in 1..Len(s) + 1
  BY <1>1
<1>2. ToSet(t) = ToSet(s) \union {e}
  BY <1>0, <1>1, <1>8, <1>9 DEF ToSet
<1>3. Distinct(t) <=> Distinct(s) /\ e \notin ToSet(s)
  BY <1>0, <1>1, <1>8, <1>9 DEF ToSet, Distinct
<1>4. ASSUME NEW R
      PROVE  InOrderOf(t, R) <=> InOrderOf(s, R) /\ \A x \in ToSet(s) : <<x, e>> \in R
  <2>1. ASSUME InOrderOf(t, R)
        PROVE InOrderOf(s, R) /\ \A x \in ToSet(s) : <<x, e>> \in R
    BY <1>1, <1>8, <1>9, <2>1 DEF ToSet, InOrderOf
  <2>2. ASSUME InOrderOf(s, R), \A x \in ToSet(s) : <<x, e>> \in R,
               NEW i \in DOMAIN t, NEW k \in DOMAIN t, i < k
        PROVE  <<t[i], t[k]>> \in R
    <3>1. i \in 1..Len(s)
      BY <1>1, <2>2
    <3>2. CASE k \in 1..Len(s)
      BY <1>1, <2>2, <3>1, <3>2 DEF InOrderOf
    <3>3. CASE k = Len(s) + 1
      <4>1. t[i] \in ToSet(s) /\ t[k] = e
        BY <1>1, <3>1, <3>3 DEF ToSet
      <4> QED
        BY <2>2, <4>1
    <3> QED
      BY <1>0, <1>1, <3>2, <3>3
  <2> QED
    BY <2>1, <2>2 DEF InOrderOf
<1> QED
  BY <1>2, <1>3, <1>4 DEF t

LEMMA ListEmpty ==
  ToSet(<<>>) = {} /\ Distinct(<<>>) /\ \A R : InOrderOf(<<>>, R)
BY DEF ToSet, Distinct, InOrderOf

(* A filtered list has what the list and the set share, each once if the   *)
(* list had, in the order of the list.                                     *)
LEMMA OnlyIs ==
  ASSUME NEW X, NEW s \in Seq(X), NEW S
  PROVE  /\ Only(s, S) \in Seq(X)
         /\ ToSet(Only(s, S)) = ToSet(s) \intersect S
         /\ Distinct(s) => Distinct(Only(s, S))
         /\ \A R : InOrderOf(s, R) => InOrderOf(Only(s, S), R)
         /\ ToSet(s) \subseteq S => Only(s, S) = s
         /\ ToSet(s) \intersect S = {} => Only(s, S) = <<>>
<1> DEFINE P(l) ==
         /\ Only(l, S) \in Seq(X)
         /\ ToSet(Only(l, S)) = ToSet(l) \intersect S
         /\ Distinct(l) => Distinct(Only(l, S))
         /\ \A R : InOrderOf(l, R) => InOrderOf(Only(l, S), R)
         /\ ToSet(l) \subseteq S => Only(l, S) = l
         /\ ToSet(l) \intersect S = {} => Only(l, S) = <<>>
       T == {l \in Seq(X) : ~P(l)}
<1>1. P(<<>>)
  BY OnlyEmpty, ListEmpty, EmptySeq
<1>2. ASSUME NEW l \in Seq(X), NEW e \in X, P(l) PROVE P(Append(l, e))
  <2>1. CASE e \in S
    <3>1. Only(Append(l, e), S) = Append(Only(l, S), e)
      BY <2>1, OnlyAppend
    <3>2. Append(Only(l, S), e) \in Seq(X)
      BY <1>2, AppendProperties
    <3>3. /\ ToSet(Append(Only(l, S), e)) = ToSet(Only(l, S)) \union {e}
          /\ Distinct(Append(Only(l, S), e)) <=> Distinct(Only(l, S)) /\ e \notin ToSet(Only(l, S))
          /\ \A R : InOrderOf(Append(Only(l, S), e), R) <=>
               InOrderOf(Only(l, S), R) /\ \A x \in ToSet(Only(l, S)) : <<x, e>> \in R
      BY <1>2, ListAppend
    <3>4. /\ ToSet(Append(l, e)) = ToSet(l) \union {e}
          /\ Distinct(Append(l, e)) <=> Distinct(l) /\ e \notin ToSet(l)
          /\ \A R : InOrderOf(Append(l, e), R) <=>
               InOrderOf(l, R) /\ \A x \in ToSet(l) : <<x, e>> \in R
      BY ListAppend
    <3> QED
      BY <1>2, <2>1, <3>1, <3>2, <3>3, <3>4
  <2>2. CASE e \notin S
    <3>1. Only(Append(l, e), S) = Only(l, S)
      BY <2>2, OnlyAppend
    <3>4. /\ ToSet(Append(l, e)) = ToSet(l) \union {e}
          /\ Distinct(Append(l, e)) <=> Distinct(l) /\ e \notin ToSet(l)
          /\ \A R : InOrderOf(Append(l, e), R) <=>
               InOrderOf(l, R) /\ \A x \in ToSet(l) : <<x, e>> \in R
      BY ListAppend
    <3> QED
      BY <1>2, <2>2, <3>1, <3>4
  <2> QED
    BY <2>1, <2>2
<1> HIDE DEF P
<1>3. ASSUME T # {} PROVE FALSE
  <2>1. T \in SUBSET Seq(X) /\ <<>> \notin T
    BY <1>1
  <2>2. PICK l \in Seq(X), e \in X : Append(l, e) \in T /\ l \notin T
    BY <1>3, <2>1, ShortestList
  <2> QED
    BY <1>2, <2>2
<1>4. P(s)
  BY <1>3
<1> QED
  BY <1>4 DEF P

(* Appending to the second list appends to the two.                        *)
LEMMA AppendConcat ==
  ASSUME NEW X, NEW s \in Seq(X), NEW t \in Seq(X), NEW e \in X
  PROVE  s \o Append(t, e) = Append(s \o t, e)
<1>1. <<e>> \in Seq(X) /\ s \o t \in Seq(X)
  BY ConcatProperties
<1>2. Append(t, e) = t \o <<e>>
  BY AppendIsConcat
<1>3. Append(s \o t, e) = (s \o t) \o <<e>>
  BY <1>1, AppendIsConcat
<1>4. s \o (t \o <<e>>) = (s \o t) \o <<e>>
  BY <1>1, ConcatAssociative
<1> QED
  BY <1>2, <1>3, <1>4

(* Two lists can be filtered one by one.                                   *)
LEMMA OnlyConcat ==
  ASSUME NEW X, NEW s \in Seq(X), NEW t \in Seq(X), NEW S
  PROVE  Only(s \o t, S) = Only(s, S) \o Only(t, S)
<1> DEFINE P(l) == Only(s \o l, S) = Only(s, S) \o Only(l, S)
           T == {l \in Seq(X) : ~P(l)}
<1>0. Only(s, S) \in Seq(X)
  BY OnlyIs
<1>1. P(<<>>)
  BY <1>0, OnlyEmpty, ConcatEmptySeq
<1>2. ASSUME NEW l \in Seq(X), NEW e \in X, P(l) PROVE P(Append(l, e))
  <2>1. Only(l, S) \in Seq(X) /\ s \o l \in Seq(X)
    BY OnlyIs, ConcatProperties
  <2>2. s \o Append(l, e) = Append(s \o l, e)
    BY AppendConcat
  <2>3. CASE e \in S
    <3>1. Only(Append(s \o l, e), S) = Append(Only(s \o l, S), e)
      <4>1. \A m \in Seq(X) : Only(Append(m, e), S) = Append(Only(m, S), e)
        BY <2>3, OnlyAppend
      <4> QED
        BY <2>1, <4>1
    <3>2. Only(Append(l, e), S) = Append(Only(l, S), e)
      BY <2>3, OnlyAppend
    <3>3. Only(s, S) \o Append(Only(l, S), e) = Append(Only(s, S) \o Only(l, S), e)
      BY <1>0, <2>1, AppendConcat
    <3> QED
      BY <1>2, <2>2, <3>1, <3>2, <3>3
  <2>4. CASE e \notin S
    <3>1. Only(Append(s \o l, e), S) = Only(s \o l, S)
      BY <2>1, <2>4, OnlyAppend
    <3>2. Only(Append(l, e), S) = Only(l, S)
      BY <2>4, OnlyAppend
    <3> QED
      BY <1>2, <2>2, <3>1, <3>2
  <2> QED
    BY <2>3, <2>4
<1> HIDE DEF P
<1>3. ASSUME T # {} PROVE FALSE
  <2>1. T \in SUBSET Seq(X) /\ <<>> \notin T
    BY <1>1
  <2>2. PICK l \in Seq(X), e \in X : Append(l, e) \in T /\ l \notin T
    BY <1>3, <2>1, ShortestList
  <2> QED
    BY <1>2, <2>2
<1>4. P(t)
  BY <1>3
<1> QED
  BY <1>4 DEF P
-----------------------------------------------------------------------------
(* The ways to list a finite set are the sequences that name all of it and *)
(* nothing twice.                                                          *)
LEMMA ListsOf ==
  ASSUME NEW S, IsFiniteSet(S), NEW s
  PROVE  /\ s \in SetToSeqs(S) <=> s \in Seq(S) /\ Distinct(s) /\ ToSet(s) = S
         /\ s \in SetToSeqs(S) => Len(s) = Cardinality(S)
<1> DEFINE n == Cardinality(S)
<1>1. n \in Nat
  BY FS_CardinalityType
<1> HIDE DEF n
<1>2. ASSUME s \in SetToSeqs(S)
      PROVE  s \in Seq(S) /\ Distinct(s) /\ ToSet(s) = S /\ Len(s) = n
  <2>1. s \in [1..n -> S] /\ \A i, k \in 1..n : i # k => s[i] # s[k]
    BY <1>2 DEF SetToSeqs, n
  <2>2. s \in Seq(S) /\ Len(s) = n
    BY <1>1, <2>1
  <2>3. Distinct(s)
    BY <2>1 DEF Distinct
  <2>4. s \in Injection(1..n, S)
    BY <2>1 DEF Injection, IsInjective
  <2>5. IsFiniteSet(1..n) /\ Cardinality(1..n) = n
    BY <1>1, FS_Interval
  <2>6. s \in Surjection(1..n, S)
    BY <2>4, <2>5, FS_Injection DEF n
  <2>7. ToSet(s) = S
    BY <2>1, <2>6 DEF ToSet, Surjection
  <2> QED
    BY <2>2, <2>3, <2>7
<1>3. ASSUME s \in Seq(S), Distinct(s), ToSet(s) = S
      PROVE  s \in SetToSeqs(S)
  <2>1. Len(s) \in Nat /\ s \in [1..Len(s) -> S] /\ DOMAIN s = 1..Len(s)
    BY <1>3, LenProperties
  <2>2. \A i, k \in 1..Len(s) : s[i] = s[k] => i = k
    BY <1>3, <2>1 DEF Distinct
  <2>3. \A x \in S : \E i \in 1..Len(s) : s[i] = x
    BY <1>3, <2>1 DEF ToSet
  <2>4. s \in Bijection(1..Len(s), S)
    BY <2>1, <2>2, <2>3 DEF Bijection, Injection, Surjection, IsInjective
  <2>5. Cardinality(S) = Len(s)
    BY <2>1, <2>4, FS_CountingElements DEF ExistsBijection
  <2> QED
    BY <2>1, <2>2, <2>5 DEF SetToSeqs
<1> QED
  BY <1>2, <1>3 DEF n

(* The lists of some of a finite set are those that name nothing twice.    *)
LEMMA AllLists ==
  ASSUME NEW X, IsFiniteSet(X), NEW s
  PROVE  s \in SetToAllKPermutations(X) <=> s \in Seq(X) /\ Distinct(s)
<1>1. ASSUME s \in SetToAllKPermutations(X) PROVE s \in Seq(X) /\ Distinct(s)
  <2>1. PICK S \in SUBSET X : s \in SetToSeqs(S)
    BY <1>1 DEF SetToAllKPermutations
  <2>2. IsFiniteSet(S)
    BY FS_Subset
  <2>3. s \in Seq(S) /\ Distinct(s)
    BY <2>1, <2>2, ListsOf
  <2> QED
    BY <2>3, SeqMonotonic
<1>2. ASSUME s \in Seq(X), Distinct(s) PROVE s \in SetToAllKPermutations(X)
  <2>1. /\ Len(s) \in Nat /\ s \in [1..Len(s) -> X] /\ DOMAIN s = 1..Len(s)
    BY <1>2, LenProperties
  <2>2. ToSet(s) \in SUBSET X /\ s \in Seq(ToSet(s))
    BY <2>1 DEF ToSet
  <2>3. IsFiniteSet(ToSet(s))
    BY <2>2, FS_Subset
  <2>4. s \in SetToSeqs(ToSet(s))
    BY <1>2, <2>2, <2>3, ListsOf
  <2> QED
    BY <2>2, <2>4 DEF SetToAllKPermutations
<1> QED
  BY <1>1, <1>2

(* Any two of S are in one order or the other.                             *)
Total(S, R) == \A x, y \in S : x = y \/ <<x, y>> \in R \/ <<y, x>> \in R

Transitive(S, R) ==
  \A x, y, z \in S : <<x, y>> \in R /\ <<y, z>> \in R => <<x, z>> \in R

(* Of a finite set there is a smallest part with a given property.         *)
LEMMA SmallestPart ==
  ASSUME NEW S, IsFiniteSet(S), NEW T \in SUBSET SUBSET S, T # {}
  PROVE  \E U \in T : \A V \in T : V \subseteq U => V = U
<1> DEFINE R == StrictSubsetOrdering(S)
<1>1. IsWellFoundedOn(R, FiniteSubsetsOf(S)) /\ FiniteSubsetsOf(S) = SUBSET S
  BY FS_StrictSubsetOrderingWellFounded, FS_FiniteSubsetsOfFinite
<1> HIDE DEF R
<1>2. PICK U \in T : \A V \in T : ~ (<<V, U>> \in R)
  BY <1>1, WFMin
<1>3. ASSUME NEW V \in T, V \subseteq U, V # U PROVE FALSE
  <2>1. V \in SUBSET S /\ U \in SUBSET S
    OBVIOUS
  <2>2. <<V, U>> \in R
    BY <1>3, <2>1 DEF R, StrictSubsetOrdering
  <2> QED
    BY <1>2, <2>2
<1> QED
  BY <1>2, <1>3

(* In a finite set in which any two compare, one comes last.               *)
LEMMA HasLast ==
  ASSUME NEW S, IsFiniteSet(S), S # {}, NEW R, Total(S, R), Transitive(S, R)
  PROVE  \E m \in S : \A x \in S : x = m \/ <<x, m>> \in R
<1> DEFINE HasOne(U) == \E m \in U : \A x \in U : x = m \/ <<x, m>> \in R
           T == {U \in SUBSET S : U # {} /\ ~HasOne(U)}
<1>1. ASSUME T # {} PROVE FALSE
  <2>1. PICK U \in T : \A V \in T : V \subseteq U => V = U
    <3>1. T \in SUBSET SUBSET S
      OBVIOUS
    <3> HIDE DEF T
    <3> QED
      BY <1>1, <3>1, SmallestPart
  <2>2. PICK x \in U : TRUE
    BY <2>1
  <2>3. U \ {x} # {}
    BY <2>1, <2>2
  <2>4. U \ {x} \notin T
    BY <2>1, <2>2
  <2>5. PICK m \in U \ {x} : \A y \in U \ {x} : y = m \/ <<y, m>> \in R
    BY <2>3, <2>4
  <2>6. x \in S /\ m \in S /\ U \subseteq S
    BY <2>5
  <2>7. CASE <<x, m>> \in R
    BY <2>1, <2>5, <2>7
  <2>8. CASE <<m, x>> \in R
    <3>1. \A y \in U : y = x \/ <<y, x>> \in R
      BY <2>5, <2>6, <2>8 DEF Transitive
    <3> QED
      BY <2>1, <2>2, <3>1
  <2> QED
    BY <2>5, <2>6, <2>7, <2>8 DEF Total
<1> QED
  BY <1>1

(* So it can be listed in order: list the others, then the last.           *)
LEMMA SortExists ==
  ASSUME NEW S, IsFiniteSet(S), NEW R, Total(S, R), Transitive(S, R)
  PROVE  \E s \in SetToSeqs(S) : InOrderOf(s, R)
<1> DEFINE Has(U) == \E s \in SetToSeqs(U) : InOrderOf(s, R)
           T == {U \in SUBSET S : ~Has(U)}
<1>1. ASSUME T # {} PROVE FALSE
  <2>1. PICK U \in T : \A V \in T : V \subseteq U => V = U
    <3>1. T \in SUBSET SUBSET S
      OBVIOUS
    <3> HIDE DEF T
    <3> QED
      BY <1>1, <3>1, SmallestPart
  <2>2. U \in SUBSET S /\ IsFiniteSet(U) /\ ~Has(U)
    BY <2>1, FS_Subset
  <2>3. U # {}
    <3>1. <<>> \in SetToSeqs({})
      BY FS_EmptySet, EmptySeq, ListEmpty, ListsOf
    <3> QED
      BY <2>2, <3>1, ListEmpty
  <2>4. PICK m \in U : \A x \in U : x = m \/ <<x, m>> \in R
    <3>1. Total(U, R) /\ Transitive(U, R)
      BY <2>2 DEF Total, Transitive
    <3> QED
      BY <2>2, <2>3, <3>1, HasLast
  <2>5. U \ {m} \in SUBSET S /\ U \ {m} \notin T /\ IsFiniteSet(U \ {m})
    <3>1. IsFiniteSet(U \ {m})
      BY <2>2, FS_RemoveElement
    <3>2. U \ {m} \subseteq U /\ U \ {m} # U
      BY <2>4
    <3> QED
      BY <2>1, <2>2, <3>1, <3>2
  <2>6. PICK s \in SetToSeqs(U \ {m}) : InOrderOf(s, R)
    BY <2>5
  <2>7. s \in Seq(U \ {m}) /\ Distinct(s) /\ ToSet(s) = U \ {m}
    BY <2>5, <2>6, ListsOf
  <2>8. s \in Seq(U)
    BY <2>7, SeqMonotonic
  <2>9. /\ Append(s, m) \in Seq(U) /\ Distinct(Append(s, m))
        /\ ToSet(Append(s, m)) = U /\ InOrderOf(Append(s, m), R)
    <3>1. Append(s, m) \in Seq(U)
      BY <2>8, AppendProperties
    <3>2. /\ ToSet(Append(s, m)) = ToSet(s) \union {m}
          /\ Distinct(Append(s, m)) <=> Distinct(s) /\ m \notin ToSet(s)
          /\ InOrderOf(Append(s, m), R) <=>
               InOrderOf(s, R) /\ \A x \in ToSet(s) : <<x, m>> \in R
      BY <2>8, ListAppend
    <3> QED
      BY <2>4, <2>6, <2>7, <3>1, <3>2
  <2>10. Append(s, m) \in SetToSeqs(U)
    BY <2>2, <2>9, ListsOf
  <2> QED
    BY <2>2, <2>9, <2>10
<1> QED
  BY <1>1

(* What Sorted gives: the set, each once, in order.                        *)
LEMMA SortedIs ==
  ASSUME NEW S, IsFiniteSet(S), NEW R, Total(S, R), Transitive(S, R)
  PROVE  /\ Sorted(S, R) \in Seq(S) /\ Distinct(Sorted(S, R))
         /\ ToSet(Sorted(S, R)) = S /\ InOrderOf(Sorted(S, R), R)
         /\ Len(Sorted(S, R)) = Cardinality(S)
<1>1. \E s \in SetToSeqs(S) : \A i, k \in DOMAIN s : i < k => <<s[i], s[k]>> \in R
  BY SortExists DEF InOrderOf
<1>2. Sorted(S, R) \in SetToSeqs(S) /\ InOrderOf(Sorted(S, R), R)
  BY <1>1 DEF Sorted, InOrderOf
<1> QED
  BY <1>2, ListsOf

(* Where no two are each before the other, there is one such list.         *)
LEMMA SortedUnique ==
  ASSUME NEW X, IsFiniteSet(X), NEW s \in Seq(X), NEW t \in Seq(X), NEW R,
         Distinct(s), Distinct(t), ToSet(s) = ToSet(t),
         InOrderOf(s, R), InOrderOf(t, R),
         \A x, y \in ToSet(s) : <<x, y>> \in R /\ <<y, x>> \in R => x = y
  PROVE  s = t
<1>1. /\ DOMAIN s = 1..Len(s) /\ DOMAIN t = 1..Len(t)
      /\ Len(s) \in Nat /\ Len(t) \in Nat
      /\ s \in [1..Len(s) -> X] /\ t \in [1..Len(t) -> X]
  BY LenProperties
<1>2. Len(s) = Len(t)
  <2>1. ToSet(s) \in SUBSET X /\ IsFiniteSet(ToSet(s))
    <3>1. ToSet(s) \in SUBSET X
      BY <1>1 DEF ToSet
    <3> QED
      BY <3>1, FS_Subset
  <2>2. s \in Seq(ToSet(s)) /\ t \in Seq(ToSet(s))
    <3>1. s \in Seq(ToSet(s))
      BY <1>1 DEF ToSet
    <3>2. t \in Seq(ToSet(t))
      BY <1>1 DEF ToSet
    <3> QED
      BY <3>1, <3>2
  <2>3. s \in SetToSeqs(ToSet(s)) /\ t \in SetToSeqs(ToSet(s))
    BY <2>1, <2>2, ListsOf
  <2> QED
    BY <2>1, <2>3, ListsOf
<1> DEFINE T == {i \in 1..Len(s) : s[i] # t[i]}
<1>3. ASSUME T # {} PROVE FALSE
  <2>1. T \in SUBSET Nat
    OBVIOUS
  <2>2. PICK i \in T : \A k \in T : i <= k
    BY <1>3, <2>1, LeastNumber
  <2>3. <<s[i], t[i]>> \in R
    <3>1. PICK k \in 1..Len(s) : s[k] = t[i]
      BY <1>1, <1>2 DEF ToSet
    <3>2. ~ (k < i)
      <4>1. ASSUME k < i PROVE FALSE
        <5>1. k \notin T
          BY <2>2, <4>1
        <5>2. t[k] = t[i]
          BY <3>1, <5>1
        <5> QED
          BY <1>1, <1>2, <4>1, <5>2 DEF Distinct
      <4> QED
        BY <4>1
    <3>3. i < k
      BY <2>2, <3>1, <3>2
    <3> QED
      BY <1>1, <3>1, <3>3 DEF InOrderOf
  <2>4. <<t[i], s[i]>> \in R
    <3>1. PICK k \in 1..Len(t) : t[k] = s[i]
      BY <1>1, <1>2 DEF ToSet
    <3>2. ~ (k < i)
      <4>1. ASSUME k < i PROVE FALSE
        <5>1. k \notin T
          BY <2>2, <4>1
        <5>2. s[k] = s[i]
          BY <1>2, <3>1, <5>1
        <5> QED
          BY <1>1, <1>2, <4>1, <5>2 DEF Distinct
      <4> QED
        BY <4>1
    <3>3. i < k
      BY <1>2, <2>2, <3>1, <3>2
    <3> QED
      BY <1>1, <1>2, <3>1, <3>3 DEF InOrderOf
  <2>5. s[i] \in ToSet(s) /\ t[i] \in ToSet(s)
    BY <1>1, <1>2 DEF ToSet
  <2> QED
    BY <2>2, <2>3, <2>4, <2>5
<1> QED
  BY <1>1, <1>2, <1>3

(* A list that names nothing twice is as long as what it names.            *)
LEMMA ListLength ==
  ASSUME NEW X, IsFiniteSet(X), NEW s \in Seq(X), Distinct(s)
  PROVE  Len(s) = Cardinality(ToSet(s))
<1>1. s \in [1..Len(s) -> X] /\ DOMAIN s = 1..Len(s) /\ Len(s) \in Nat
  BY LenProperties
<1>2. ToSet(s) \in SUBSET X /\ s \in Seq(ToSet(s))
  BY <1>1 DEF ToSet
<1>3. IsFiniteSet(ToSet(s))
  BY <1>2, FS_Subset
<1> QED
  BY <1>2, <1>3, ListsOf

(* What two lists name together.                                           *)
LEMMA ListConcat ==
  ASSUME NEW X, NEW s \in Seq(X), NEW t \in Seq(X)
  PROVE  /\ ToSet(s \o t) = ToSet(s) \union ToSet(t)
         /\ Distinct(s) /\ Distinct(t) /\ ToSet(s) \intersect ToSet(t) = {} => Distinct(s \o t)
<1> DEFINE P(l) ==
      /\ ToSet(s \o l) = ToSet(s) \union ToSet(l)
      /\ Distinct(s) /\ Distinct(l) /\ ToSet(s) \intersect ToSet(l) = {} => Distinct(s \o l)
           T == {l \in Seq(X) : ~P(l)}
<1>1. P(<<>>)
  BY ListEmpty, ConcatEmptySeq
<1>2. ASSUME NEW l \in Seq(X), NEW e \in X, P(l) PROVE P(Append(l, e))
  <2>1. s \o Append(l, e) = Append(s \o l, e) /\ s \o l \in Seq(X)
    BY AppendConcat, ConcatProperties
  <2>2. \A m \in Seq(X) : /\ ToSet(Append(m, e)) = ToSet(m) \union {e}
                          /\ Distinct(Append(m, e)) <=> Distinct(m) /\ e \notin ToSet(m)
    BY ListAppend
  <2>3. /\ ToSet(Append(s \o l, e)) = ToSet(s \o l) \union {e}
        /\ Distinct(Append(s \o l, e)) <=> Distinct(s \o l) /\ e \notin ToSet(s \o l)
        /\ ToSet(Append(l, e)) = ToSet(l) \union {e}
        /\ Distinct(Append(l, e)) <=> Distinct(l) /\ e \notin ToSet(l)
    BY <2>1, <2>2
  <2> QED
    BY <1>2, <2>1, <2>3
<1> HIDE DEF P
<1>3. ASSUME T # {} PROVE FALSE
  <2>1. T \in SUBSET Seq(X) /\ <<>> \notin T
    BY <1>1
  <2>2. PICK l \in Seq(X), e \in X : Append(l, e) \in T /\ l \notin T
    BY <1>3, <2>1, ShortestList
  <2> QED
    BY <1>2, <2>2
<1>4. P(t)
  BY <1>3
<1> QED
  BY <1>4 DEF P

(* What a function makes of a finite set is finite.                        *)
LEMMA FiniteImage ==
  ASSUME NEW S, IsFiniteSet(S), NEW f
  PROVE  IsFiniteSet({f[x] : x \in S})
<1> DEFINE T == {f[x] : x \in S}
           g == [x \in S |-> f[x]]
<1>1. g \in [S -> T] /\ \A y \in T : \E x \in S : g[x] = y
  OBVIOUS
<1>2. g \in Surjection(S, T)
  BY <1>1 DEF Surjection
<1> HIDE DEF g
<1> QED
  BY <1>2, FS_Surjection

(* A filtered list is no longer than the list.                             *)
LEMMA OnlyShorter ==
  ASSUME NEW X, NEW s \in Seq(X), NEW S
  PROVE  Len(Only(s, S)) <= Len(s)
<1> DEFINE P(l) == Len(Only(l, S)) <= Len(l)
           T == {l \in Seq(X) : ~P(l)}
<1>1. P(<<>>)
  <2>1. Only(<<>>, S) = <<>> /\ Len(<<>>) = 0
    BY OnlyEmpty
  <2> QED
    BY <2>1
<1>2. ASSUME NEW l \in Seq(X), NEW e \in X, P(l) PROVE P(Append(l, e))
  <2>1. Only(l, S) \in Seq(X)
    BY OnlyIs
  <2>2. Only(Append(l, e), S) = IF e \in S THEN Append(Only(l, S), e) ELSE Only(l, S)
    BY OnlyAppend
  <2>3. Len(Append(l, e)) = Len(l) + 1 /\ Len(Append(Only(l, S), e)) = Len(Only(l, S)) + 1
    BY <2>1, AppendProperties
  <2>4. Len(l) \in Nat /\ Len(Only(l, S)) \in Nat
    BY <2>1, LenProperties
  <2> QED
    BY <1>2, <2>2, <2>3, <2>4
<1> HIDE DEF P
<1>3. T = {}
  <2>1. ASSUME T # {} PROVE FALSE
    <3>1. T \in SUBSET Seq(X) /\ <<>> \notin T
      BY <1>1
    <3> HIDE DEF T
    <3>2. PICK l \in Seq(X), e \in X : Append(l, e) \in T /\ l \notin T
      BY <2>1, <3>1, ShortestList
    <3> QED
      BY <1>2, <3>2 DEF T
  <2> QED
    BY <2>1
<1>4. P(s)
  BY <1>3
<1> QED
  BY <1>4 DEF P

(* A filter that lets one entry pass, of a list that names nothing twice,  *)
(* leaves a list of that one.                                              *)
LEMMA OnlyOne ==
  ASSUME NEW X, NEW s \in Seq(X), Distinct(s), NEW S, NEW x \in ToSet(s) \intersect S,
         \A y \in ToSet(s) \intersect S : y = x
  PROVE  Len(Only(s, S)) = 1 /\ Only(s, S)[1] = x
<1> DEFINE t == Only(s, S)
           Y == {x}
<1>1. t \in Seq(X) /\ ToSet(t) = Y /\ Distinct(t)
  BY OnlyIs
<1>2. IsFiniteSet(Y) /\ Cardinality(Y) = 1
  BY FS_Singleton
<1>3. DOMAIN t = 1..Len(t) /\ Len(t) \in Nat
  BY <1>1, LenProperties
<1> HIDE DEF t, Y
<1>4. t \in Seq(Y)
  BY <1>1, <1>3 DEF ToSet
<1>5. Len(t) = 1
  BY <1>1, <1>2, <1>4, ListLength
<1>6. t[1] \in Y
  BY <1>1, <1>3, <1>5 DEF ToSet
<1> QED
  BY <1>5, <1>6 DEF t, Y

(* A finite set as a list has all of it, each once.                        *)
LEMMA AsList ==
  ASSUME NEW S, IsFiniteSet(S)
  PROVE  SetToSeq(S) \in Seq(S) /\ Distinct(SetToSeq(S)) /\ ToSet(SetToSeq(S)) = S
<1> DEFINE R == S \X S
<1>1. Total(S, R) /\ Transitive(S, R)
  BY DEF Total, Transitive
<1> HIDE DEF R
<1>2. PICK s \in SetToSeqs(S) : InOrderOf(s, R)
  BY <1>1, SortExists
<1>3. s \in [1..Cardinality(S) -> S] /\ IsInjective(s)
  BY <1>2 DEF SetToSeqs, IsInjective
<1>4. SetToSeq(S) \in [1..Cardinality(S) -> S] /\ IsInjective(SetToSeq(S))
  BY <1>3 DEF SetToSeq
<1>5. SetToSeq(S) \in SetToSeqs(S)
  BY <1>4 DEF SetToSeqs, IsInjective
<1> QED
  BY <1>5, ListsOf

(* A list that names nothing twice has each entry at one place.            *)
LEMMA OnceEach ==
  ASSUME NEW X, NEW s \in Seq(X), Distinct(s), NEW x
  PROVE  /\ x \in ToSet(s) => Cardinality({k \in DOMAIN s : s[k] = x}) = 1
         /\ x \notin ToSet(s) => Cardinality({k \in DOMAIN s : s[k] = x}) = 0
<1> DEFINE K == {k \in DOMAIN s : s[k] = x}
<1>1. ASSUME x \in ToSet(s) PROVE Cardinality(K) = 1
  <2>1. PICK k \in DOMAIN s : s[k] = x
    BY <1>1 DEF ToSet
  <2>2. K = {k}
    BY <2>1 DEF Distinct
  <2> HIDE DEF K
  <2> QED
    BY <2>2, FS_Singleton
<1>2. ASSUME x \notin ToSet(s) PROVE Cardinality(K) = 0
  <2>1. K = {}
    BY <1>2 DEF ToSet
  <2> HIDE DEF K
  <2> QED
    BY <2>1, FS_EmptySet
<1> QED
  BY <1>1, <1>2

(* Two lists in order, the second behind the first, are in order together. *)
LEMMA InOrderConcat ==
  ASSUME NEW X, NEW s \in Seq(X), NEW t \in Seq(X), NEW R,
         InOrderOf(s, R), InOrderOf(t, R), \A x \in ToSet(s), y \in ToSet(t) : <<x, y>> \in R
  PROVE  InOrderOf(s \o t, R)
<1> SUFFICES ASSUME NEW i \in DOMAIN (s \o t), NEW k \in DOMAIN (s \o t), i < k
             PROVE  <<(s \o t)[i], (s \o t)[k]>> \in R
  BY DEF InOrderOf
<1>1. /\ DOMAIN s = 1..Len(s) /\ Len(s) \in Nat /\ DOMAIN t = 1..Len(t) /\ Len(t) \in Nat
  BY LenProperties
<1>2. /\ DOMAIN (s \o t) = 1..Len(s) + Len(t)
      /\ \A j \in 1..Len(s) + Len(t) :
           (s \o t)[j] = IF j <= Len(s) THEN s[j] ELSE t[j - Len(s)]
  BY ConcatProperties, LenProperties
<1>3. CASE i <= Len(s) /\ k <= Len(s)
  <2>1. i \in 1..Len(s) /\ k \in 1..Len(s)
    BY <1>1, <1>2, <1>3
  <2> QED
    BY <1>1, <1>2, <1>3, <2>1 DEF InOrderOf
<1>4. CASE i <= Len(s) /\ k > Len(s)
  <2>1. i \in 1..Len(s) /\ k - Len(s) \in 1..Len(t)
    BY <1>1, <1>2, <1>4
  <2>2. (s \o t)[i] = s[i] /\ (s \o t)[k] = t[k - Len(s)]
    BY <1>1, <1>2, <1>4
  <2> QED
    BY <1>1, <2>1, <2>2 DEF ToSet
<1>6. i \in Nat /\ k \in Nat
  BY <1>1, <1>2
<1>5. CASE i > Len(s) /\ k > Len(s)
  <2>1. i - Len(s) \in 1..Len(t) /\ k - Len(s) \in 1..Len(t) /\ i - Len(s) < k - Len(s)
    BY <1>1, <1>2, <1>5
  <2>2. (s \o t)[i] = t[i - Len(s)] /\ (s \o t)[k] = t[k - Len(s)]
    BY <1>1, <1>2, <1>5
  <2> QED
    BY <1>1, <2>1, <2>2 DEF InOrderOf
<1>7. \/ i <= Len(s) /\ k <= Len(s)
      \/ i <= Len(s) /\ k > Len(s)
      \/ i > Len(s) /\ k > Len(s)
  BY <1>1, <1>6
<1> QED
  BY <1>3, <1>4, <1>5, <1>7
=============================================================================

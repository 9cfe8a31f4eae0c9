------------------------ MODULE DatasetWritesProofs ------------------------
(***************************************************************************)
(* Proofs about DatasetWrites for every set of jobs, of rows and of        *)
(* contents, any number of jobs one after the other, and failures and      *)
(* kills anywhere.                                                         *)
(*                                                                         *)
(* The argument: a dataset that was not being removed has its parts        *)
(* numbered from 0 without a gap, so the count is a free number; a dataset *)
(* no write of the job has reached is as it was when the job started; so   *)
(* the relation of a write in a job that writes each dataset once, and     *)
(* the table a keyed write computes, are those of that moment, however     *)
(* late they are computed; and what a write leaves is its part after the   *)
(* parts it kept.  The first section is about the sequences it takes:      *)
(* ascending indices, rows part after part, the merge of a keyed write.    *)
(***************************************************************************)
EXTENDS DatasetWrites, FiniteSetTheorems, SequenceTheorems, WellFoundedInduction, TLAPS

-----------------------------------------------------------------------------
(* Indices in ascending order. *)

\* Induction up to N: a set that holds 0, and n with n - 1, holds all numbers up to N.
LEMMA UpTo ==
  ASSUME NEW N \in Nat, NEW G, 0 \in G, \A n \in 1 .. N : n - 1 \in G => n \in G
  PROVE  \A n \in 0 .. N : n \in G
<1> DEFINE Less == {ss \in Nat \X Nat : ss[1] < ss[2]}
           Bad  == {n \in 0 .. N : n \notin G}
<1>1. IsWellFoundedOn(Less, Nat)
  BY NatLessThanWellFounded DEF OpToRel
<1>2. SUFFICES ASSUME Bad # {} PROVE FALSE
  OBVIOUS
<1>3. Bad \subseteq Nat
  OBVIOUS
<1>4. PICK x \in Bad : \A y \in Bad : ~ (<<y, x>> \in Less)
  <2> HIDE DEF Less, Bad
  <2> QED BY <1>1, <1>2, <1>3, WFMin, Zenon
<1>5. x \in 1 .. N /\ x - 1 \in 0 .. N /\ <<x - 1, x>> \in Less
  BY <1>4
<1> QED
  BY <1>4, <1>5

Increasing(s, n) == \A i, j \in 1 .. n : i < j => s[i] < s[j]

\* Every finite set of numbers can be put in order: by induction on a bound of the set.
LEMMA OrderExists ==
  ASSUME NEW M \in Nat, NEW I \in SUBSET (0 .. M - 1)
  PROVE  /\ IsFiniteSet(I) /\ Cardinality(I) \in Nat
         /\ \E s \in [1 .. Cardinality(I) -> I] : Increasing(s, Cardinality(I))
<1> DEFINE Sorted(J) == \E s \in [1 .. Cardinality(J) -> J] : Increasing(s, Cardinality(J))
           G == {n \in Nat : \A J \in SUBSET (0 .. n - 1) : Sorted(J)}
<1>1. \A n \in Nat : \A J \in SUBSET (0 .. n - 1) : IsFiniteSet(J) /\ Cardinality(J) \in Nat
  <2> SUFFICES ASSUME NEW n \in Nat, NEW J \in SUBSET (0 .. n - 1)
               PROVE  IsFiniteSet(J) /\ Cardinality(J) \in Nat
    OBVIOUS
  <2>1. J \in SUBSET Nat /\ \A x \in J : x <= n
    OBVIOUS
  <2>2. IsFiniteSet(J)
    BY <2>1, FS_BoundedSetOfNaturals
  <2> QED
    BY <2>2, FS_CardinalityType
<1>2. 0 \in G
  <2>1. Cardinality({}) = 0
    BY FS_EmptySet
  <2>2. [i \in 1 .. 0 |-> 0] \in [1 .. 0 -> {}] /\ Increasing([i \in 1 .. 0 |-> 0], 0)
    BY DEF Increasing
  <2>3. Sorted({})
    BY <2>1, <2>2
  <2>4. \A J \in SUBSET (0 .. 0 - 1) : J = {}
    OBVIOUS
  <2> HIDE DEF Sorted
  <2> QED
    BY <2>3, <2>4
<1>3. ASSUME NEW n \in 1 .. M, n - 1 \in G PROVE n \in G
  <2> SUFFICES ASSUME NEW J \in SUBSET (0 .. n - 1) PROVE Sorted(J)
    <3> HIDE DEF Sorted
    <3> QED
      BY n \in Nat
  <2>1. CASE n - 1 \notin J
    <3>1. J \in SUBSET (0 .. (n - 1) - 1)
      BY <2>1
    <3> HIDE DEF Sorted
    <3> QED
      BY <1>3, <3>1
  <2>2. CASE n - 1 \in J
    <3> DEFINE K == J \ {n - 1}
               k == Cardinality(K)
    <3>1. K \in SUBSET (0 .. (n - 1) - 1) /\ n - 1 \in Nat
      OBVIOUS
    <3>2. Sorted(K) /\ IsFiniteSet(K) /\ k \in Nat
      <4> HIDE DEF Sorted, K
      <4> QED
        BY <1>1, <1>3, <3>1
    <3>3. Cardinality(J) = k + 1
      <4>1. J = K \cup {n - 1} /\ n - 1 \notin K
        BY <2>2
      <4> HIDE DEF K
      <4> QED
        BY <3>2, <4>1, FS_AddElement
    <3>4. PICK s \in [1 .. k -> K] : Increasing(s, k)
      BY <3>2
    <3> DEFINE t == [i \in 1 .. k + 1 |-> IF i = k + 1 THEN n - 1 ELSE s[i]]
    <3>a. K \subseteq J /\ \A x \in K : x < n - 1
      OBVIOUS
    <3>b. k \in Nat
      BY <3>2
    <3> HIDE DEF K, k
    <3>c. s \in [1 .. k -> K]
      BY <3>4
    <3>d. \A i \in 1 .. k : i \in 1 .. k + 1 /\ i # k + 1
      BY <3>b
    <3>5. \A i \in 1 .. k : s[i] \in K /\ t[i] = s[i] /\ s[i] < n - 1
      BY <3>a, <3>c, <3>d
    <3>6. t[k + 1] = n - 1
      BY <3>b
    <3>7. t \in [1 .. k + 1 -> J]
      <4>1. \A i \in 1 .. k + 1 : i = k + 1 \/ i \in 1 .. k
        BY <3>b
      <4>2. \A i \in 1 .. k + 1 : t[i] \in J
        BY <2>2, <3>a, <3>5, <3>6, <4>1
      <4> QED
        BY <4>2
    <3>8. Increasing(t, k + 1)
      <4> HIDE DEF t
      <4> SUFFICES ASSUME NEW i \in 1 .. k + 1, NEW j \in 1 .. k + 1, i < j PROVE t[i] < t[j]
        BY DEF Increasing
      <4>1. i \in 1 .. k /\ (j = k + 1 \/ j \in 1 .. k)
        BY <3>b
      <4> QED
        BY <3>4, <3>5, <3>6, <4>1 DEF Increasing
    <3> HIDE DEF t
    <3> QED
      BY <3>3, <3>7, <3>8
  <2> QED
    BY <2>1, <2>2
<1>4. M \in G
  <2>1. \A n \in 0 .. M : n \in G
    <3> HIDE DEF G
    <3> QED
      BY <1>2, <1>3, UpTo
  <2> QED
    BY <2>1
<1> QED
  BY <1>1, <1>4

LEMMA AscendingOrder ==
  ASSUME NEW M \in Nat, NEW I \in SUBSET (0 .. M)
  PROVE  /\ IsFiniteSet(I) /\ Cardinality(I) \in Nat
         /\ Ascending(I) \in [1 .. Cardinality(I) -> I]
         /\ Increasing(Ascending(I), Cardinality(I))
<1> DEFINE n == Cardinality(I)
           P(s) == s \in [1 .. n -> I] /\ \A i, j \in 1 .. n : i < j => s[i] < s[j]
<1>1. IsFiniteSet(I) /\ n \in Nat /\ \E s : P(s)
  BY OrderExists, M + 1 \in Nat, (M + 1) - 1 = M DEF Increasing
<1>2. P(CHOOSE s : P(s))
  <2> HIDE DEF P
  <2> QED
    BY <1>1
<1>3. Ascending(I) = CHOOSE s : P(s)
  BY DEF Ascending
<1> QED
  BY <1>1, <1>2, <1>3 DEF Increasing

\* What InOrder picks are values of f at indices of the set.
LEMMA InOrderTyped ==
  ASSUME NEW S, NEW f, NEW M \in Nat, NEW I \in SUBSET (0 .. M), \A i \in I : f[i] \in S
  PROVE  InOrder(f, I) \in Seq(S) /\ Len(InOrder(f, I)) = Cardinality(I)
<1>1. Cardinality(I) \in Nat /\ \A i \in 1 .. Cardinality(I) : f[Ascending(I)[i]] \in S
  BY AscendingOrder
<1> QED
  BY <1>1 DEF InOrder

\* A single index.
LEMMA InOrderOne ==
  ASSUME NEW f, NEW k \in Nat
  PROVE  InOrder(f, {k}) = <<f[k]>>
<1>1. Cardinality({k}) = 1
  BY FS_Singleton
<1>2. Ascending({k}) \in [1 .. 1 -> {k}]
  <2>1. {k} \in SUBSET (0 .. k)
    OBVIOUS
  <2> QED
    BY <1>1, <2>1, AscendingOrder
<1>3. Ascending({k})[1] = k
  BY <1>2
<1>4. InOrder(f, {k}) = [i \in 1 .. 1 |-> f[Ascending({k})[i]]]
  BY <1>1 DEF InOrder
<1>5. \A i \in 1 .. 1 : f[Ascending({k})[i]] = f[k]
  BY <1>3
<1> QED
  BY <1>4, <1>5

LEMMA InOrderEmpty == ASSUME NEW f PROVE InOrder(f, {}) = <<>>
<1>1. Cardinality({}) = 0
  BY FS_EmptySet
<1> QED
  BY <1>1 DEF InOrder

\* Indices without a gap are in order as they are.
LEMMA AscendingFull ==
  ASSUME NEW n \in Nat
  PROVE  /\ Cardinality(0 .. n - 1) = n
         /\ \A i \in 1 .. n : Ascending(0 .. n - 1)[i] = i - 1
<1> DEFINE s == Ascending(0 .. n - 1)
<1>1. Cardinality(0 .. n - 1) = n
  BY FS_Interval
<1>2. (0 .. n - 1) \in SUBSET (0 .. n)
  OBVIOUS
<1>3. s \in [1 .. n -> 0 .. n - 1] /\ Increasing(s, n)
  BY <1>1, <1>2, AscendingOrder
<1> HIDE DEF s
<1>4. \A i \in 1 .. n : s[i] >= i - 1
  <2> DEFINE G == {i \in Nat : i \in 1 .. n => s[i] >= i - 1}
  <2>1. 0 \in G
    OBVIOUS
  <2>2. ASSUME NEW i \in 1 .. n, i - 1 \in G PROVE i \in G
    <3>1. s[i] \in 0 .. n - 1
      BY <1>3
    <3>2. CASE i = 1
      BY <3>1, <3>2
    <3>3. CASE i # 1
      <4>1. i - 1 \in 1 .. n /\ s[i - 1] >= (i - 1) - 1 /\ s[i - 1] \in 0 .. n - 1
        BY <1>3, <2>2, <3>3
      <4>2. s[i - 1] < s[i]
        BY <1>3, <4>1 DEF Increasing
      <4> QED
        BY <3>1, <4>1, <4>2
    <3> QED
      BY <3>2, <3>3
  <2>3. \A i \in 0 .. n : i \in G
    <3> HIDE DEF G
    <3> QED
      BY <2>1, <2>2, UpTo
  <2> QED
    BY <2>3
<1>5. \A j \in 0 .. n : j < n => s[n - j] <= (n - j) - 1
  <2> DEFINE G == {j \in Nat : j < n => s[n - j] <= (n - j) - 1}
  <2>1. 0 \in G
    BY <1>3
  <2>2. ASSUME NEW j \in 1 .. n, j - 1 \in G PROVE j \in G
    <3> SUFFICES ASSUME j < n PROVE s[n - j] <= (n - j) - 1
      OBVIOUS
    <3> DEFINE i == n - j
    <3>1. i \in 1 .. n /\ i + 1 \in 1 .. n /\ i < i + 1 /\ n - (j - 1) = i + 1
      OBVIOUS
    <3>2. s[i + 1] <= i
      BY <2>2, <3>1
    <3>3. s[i] < s[i + 1] /\ s[i] \in 0 .. n - 1 /\ s[i + 1] \in 0 .. n - 1
      BY <1>3, <3>1 DEF Increasing
    <3> HIDE DEF i
    <3>4. s[i] <= i - 1
      BY <3>1, <3>2, <3>3
    <3> QED
      BY <3>4 DEF i
  <2>3. \A j \in 0 .. n : j \in G
    <3> HIDE DEF G
    <3> QED
      BY <2>1, <2>2, UpTo
  <2> QED
    BY <2>3
<1>6. ASSUME NEW i \in 1 .. n PROVE s[i] = i - 1
  <2>1. n - i \in 0 .. n /\ n - i < n /\ n - (n - i) = i
    OBVIOUS
  <2>2. s[i] <= i - 1 /\ s[i] >= i - 1 /\ s[i] \in 0 .. n - 1
    BY <1>3, <1>4, <1>5, <2>1
  <2> QED
    BY <2>2
<1> QED
  BY <1>1, <1>6 DEF s

-----------------------------------------------------------------------------
(* Rows part after part. *)

\* f[i] is the concatenation of the first i sequences of s.
Adds(f, s) == \A i \in DOMAIN f : f[i] = IF i = 1 THEN s[1] ELSE f[i - 1] \o s[i]

\* The function by which FlattenSeq is defined exists.
LEMMA FlattenDefined ==
  ASSUME NEW S, NEW s \in Seq(Seq(S)), s # <<>>
  PROVE  \E f \in [1 .. Len(s) -> Seq(S)] : Adds(f, s) /\ FlattenSeq(s) = f[Len(s)]
<1> DEFINE N == Len(s)
           G == {n \in Nat : n <= N => \E f \in [1 .. n -> Seq(S)] : Adds(f, s)}
<1>1. N \in Nat /\ N # 0 /\ \A i \in 1 .. N : s[i] \in Seq(S)
  OBVIOUS
<1>2. 0 \in G
  <2>1. [i \in 1 .. 0 |-> s[i]] \in [1 .. 0 -> Seq(S)] /\ Adds([i \in 1 .. 0 |-> s[i]], s)
    BY DEF Adds
  <2> QED BY <2>1
<1>3. ASSUME NEW n \in 1 .. N, n - 1 \in G PROVE n \in G
  <2>1. PICK f \in [1 .. n - 1 -> Seq(S)] : Adds(f, s)
    BY <1>3, <1>1
  <2> DEFINE h == IF n = 1 THEN s[1] ELSE f[n - 1] \o s[n]
             g == [i \in 1 .. n |-> IF i = n THEN h ELSE f[i]]
  <2>2. h \in Seq(S)
    <3>1. CASE n = 1
      BY <3>1, <1>1
    <3>2. CASE n # 1
      <4>1. f[n - 1] \in Seq(S) /\ s[n] \in Seq(S)
        BY <3>2, <1>1
      <4> QED BY <3>2, <4>1
    <3> QED BY <3>1, <3>2
  <2>3. g \in [1 .. n -> Seq(S)]
    BY <2>1, <2>2
  <2>4. Adds(g, s)
    <3> SUFFICES ASSUME NEW i \in 1 .. n
                 PROVE  g[i] = IF i = 1 THEN s[1] ELSE g[i - 1] \o s[i]
      BY DEF Adds
    <3>1. CASE i = n
      <4>1. n # 1 => g[n - 1] = f[n - 1]
        OBVIOUS
      <4> QED BY <3>1, <4>1
    <3>2. CASE i # n
      <4>1. i \in 1 .. n - 1 /\ g[i] = f[i] /\ (i # 1 => g[i - 1] = f[i - 1])
        BY <3>2
      <4> HIDE DEF g
      <4> QED BY <4>1, <2>1 DEF Adds
    <3> QED BY <3>1, <3>2
  <2>5. n \in Nat
    BY <1>1
  <2> HIDE DEF g
  <2> QED
    BY <2>3, <2>4, <2>5
<1>4. N \in G
  <2>1. \A n \in 0 .. N : n \in G
    <3> HIDE DEF G, N
    <3> QED BY <1>1, <1>2, <1>3, UpTo
  <2> QED BY <1>1, <2>1
<1>5. PICK f \in [1 .. N -> Seq(S)] : Adds(f, s)
  BY <1>4, <1>1
<1> DEFINE Rec(h) == h = [i \in 1 .. N |-> IF i = 1 THEN s[i] ELSE h[i - 1] \o s[i]]
           c == CHOOSE h : Rec(h)
<1>6. Rec(f)
  BY <1>5 DEF Adds
<1>7. Rec(c)
  <2> HIDE DEF Rec
  <2> QED BY <1>6
<1>8. FlattenSeq(s) = c[N]
  BY <1>1 DEF FlattenSeq
<1>9. \A n \in 1 .. N : c[n] = f[n]
  <2> DEFINE H == {k \in Nat : k = 0 \/ c[k] = f[k]}
  <2>1. 0 \in H
    OBVIOUS
  <2>2. ASSUME NEW n \in 1 .. N, n - 1 \in H PROVE n \in H
    <3>1. c[n] = IF n = 1 THEN s[n] ELSE c[n - 1] \o s[n]
      <4> HIDE DEF c
      <4> QED BY <1>7
    <3>2. f[n] = IF n = 1 THEN s[n] ELSE f[n - 1] \o s[n]
      BY <1>6
    <3>3. n \in Nat /\ (n = 1 \/ c[n - 1] = f[n - 1])
      <4> HIDE DEF c
      <4> QED BY <2>2, <1>1
    <3> HIDE DEF c
    <3> QED BY <3>1, <3>2, <3>3
  <2> HIDE DEF H
  <2>3. \A n \in 0 .. N : n \in H
    BY <1>1, <2>1, <2>2, UpTo
  <2>4. \A n \in 1 .. N : n # 0 /\ n \in 0 .. N
    BY <1>1
  <2> HIDE DEF c, N
  <2> QED BY <2>3, <2>4 DEF H
<1>10. c[N] = f[N]
  <2>1. N \in 1 .. N
    BY <1>1
  <2> HIDE DEF c, N
  <2> QED BY <2>1, <1>9
<1> QED
  BY <1>5, <1>8, <1>10

LEMMA FlattenEmpty == FlattenSeq(<<>>) = <<>>
BY DEF FlattenSeq

LEMMA FlattenTyped ==
  ASSUME NEW S, NEW s \in Seq(Seq(S))
  PROVE  FlattenSeq(s) \in Seq(S)
<1>1. CASE s = <<>>
  BY <1>1, FlattenEmpty, EmptySeq
<1>2. CASE s # <<>>
  <2>1. Len(s) \in 1 .. Len(s)
    BY <1>2
  <2>2. PICK f \in [1 .. Len(s) -> Seq(S)] : FlattenSeq(s) = f[Len(s)]
    BY <1>2, FlattenDefined
  <2> QED
    BY <2>1, <2>2
<1> QED
  BY <1>1, <1>2

\* One more sequence comes behind the others.
LEMMA FlattenAppend ==
  ASSUME NEW S, NEW s \in Seq(Seq(S)), NEW r \in Seq(S)
  PROVE  FlattenSeq(Append(s, r)) = FlattenSeq(s) \o r
<1> DEFINE t == Append(s, r)
           n == Len(s)
<1>1. t \in Seq(Seq(S)) /\ t # <<>> /\ Len(t) = n + 1 /\ n \in Nat /\ t[n + 1] = r
      /\ \A i \in 1 .. n : t[i] = s[i]
  <2>1. n \in Nat /\ t \in Seq(Seq(S)) /\ Len(t) = n + 1 /\ t[n + 1] = r
    BY AppendProperties
  <2>2. \A i \in 1 .. n : t[i] = s[i]
    BY AppendProperties
  <2> HIDE DEF t
  <2> QED
    BY <2>1, <2>2, EmptySeq
<1> HIDE DEF t
<1>2. PICK f \in [1 .. n + 1 -> Seq(S)] : Adds(f, t) /\ FlattenSeq(t) = f[n + 1]
  BY <1>1, FlattenDefined
<1>3. CASE s = <<>>
  <2>1. n = 0 /\ FlattenSeq(t) = f[1] /\ f[1] = t[1]
    BY <1>1, <1>2, <1>3 DEF Adds
  <2> QED
    BY <1>1, <1>3, <2>1, FlattenEmpty DEF t
<1>4. CASE s # <<>>
  <2>1. PICK g \in [1 .. n -> Seq(S)] : Adds(g, s) /\ FlattenSeq(s) = g[n]
    BY <1>4, FlattenDefined
  <2>2. n # 0
    BY <1>4
  <2> HIDE DEF n
  <2>3. \A i \in 1 .. n : f[i] = g[i]
    <3> DEFINE G == {i \in Nat : i \in 1 .. n => f[i] = g[i]}
    <3>1. 0 \in G
      OBVIOUS
    <3>2. ASSUME NEW i \in 1 .. n, i - 1 \in G PROVE i \in G
      <4>1. f[i] = IF i = 1 THEN t[1] ELSE f[i - 1] \o t[i]
        <5>1. i \in 1 .. n + 1
          BY <1>1
        <5> QED
          BY <1>2, <5>1 DEF Adds
      <4>2. g[i] = IF i = 1 THEN s[1] ELSE g[i - 1] \o s[i]
        BY <2>1 DEF Adds
      <4>3. i # 1 => f[i - 1] = g[i - 1]
        BY <1>1, <3>2
      <4>4. t[i] = s[i]
        BY <1>1
      <4>5. f[i] = g[i]
        BY <4>1, <4>2, <4>3, <4>4
      <4> QED
        BY <1>1, <4>5
    <3>3. \A i \in 0 .. n : i \in G
      <4> HIDE DEF G
      <4> QED
        BY <1>1, <3>1, <3>2, UpTo
    <3> QED
      BY <1>1, <3>3
  <2>4. f[n + 1] = f[n] \o t[n + 1]
    <3>1. n + 1 \in 1 .. n + 1 /\ n + 1 # 1 /\ (n + 1) - 1 = n
      BY <1>1, <2>2
    <3> QED
      BY <1>2, <3>1 DEF Adds
  <2>5. f[n] = g[n]
    BY <1>1, <2>2, <2>3
  <2> QED
    BY <1>1, <1>2, <2>1, <2>4, <2>5 DEF t
<1> QED
  BY <1>3, <1>4

LEMMA FlattenSingles ==
  ASSUME NEW S, NEW g \in Seq(S)
  PROVE  FlattenSeq([i \in DOMAIN g |-> <<g[i]>>]) = g
<1> DEFINE n == Len(g)
           s == [i \in 1 .. n |-> <<g[i]>>]
<1>1. n \in Nat /\ DOMAIN g = 1 .. n /\ \A i \in 1 .. n : g[i] \in S
  OBVIOUS
<1>2. s \in Seq(Seq(S)) /\ Len(s) = n /\ \A i \in 1 .. n : s[i] = <<g[i]>>
  <2>1. \A i \in 1 .. n : <<g[i]>> \in Seq(S)
    BY <1>1
  <2> QED
    BY <1>1, <2>1
<1>3. CASE n = 0
  <2>1. s = <<>> /\ g = <<>>
    BY <1>3
  <2> QED
    BY <1>1, <2>1, FlattenEmpty
<1>4. CASE n # 0
  <2> HIDE DEF s, n
  <2>1. s # <<>>
    BY <1>2, <1>4
  <2>2. PICK f \in [1 .. n -> Seq(S)] : Adds(f, s) /\ FlattenSeq(s) = f[n]
    BY <1>2, <2>1, FlattenDefined
  <2> DEFINE G == {i \in Nat : i \in 1 .. n =>
                     Len(f[i]) = i /\ \A j \in 1 .. i : f[i][j] = g[j]}
  <2>3. 0 \in G
    OBVIOUS
  <2>4. ASSUME NEW i \in 1 .. n, i - 1 \in G PROVE i \in G
    <3>1. f[i] = IF i = 1 THEN s[1] ELSE f[i - 1] \o s[i]
      BY <2>2 DEF Adds
    <3>2. s[i] = <<g[i]>> /\ g[i] \in S /\ i \in Nat
      BY <1>1, <1>2
    <3>3. CASE i = 1
      <4>1. f[i] = <<g[1]>>
        BY <3>1, <3>2, <3>3
      <4>2. Len(<<g[1]>>) = 1 /\ <<g[1]>>[1] = g[1]
        OBVIOUS
      <4>3. \A j \in 1 .. i : j = 1
        BY <3>3
      <4> QED
        BY <3>2, <3>3, <4>1, <4>2, <4>3
    <3>4. CASE i # 1
      <4>1. i - 1 \in 1 .. n
        BY <1>1, <3>4
      <4>a. Len(f[i - 1]) = i - 1 /\ \A j \in 1 .. i - 1 : f[i - 1][j] = g[j]
        BY <2>4, <4>1
      <4> DEFINE u == f[i - 1]
                 v == <<g[i]>>
      <4>2. u \in Seq(S) /\ f[i] = u \o v
        BY <2>2, <3>1, <3>2, <3>4, <4>1
      <4>b. v \in Seq(S) /\ Len(v) = 1 /\ v[1] = g[i]
        BY <3>2
      <4>c. Len(u) = i - 1
        BY <4>a
      <4> HIDE DEF u, v
      <4>d. Len(u \o v) = i /\ \A j \in 1 .. i : (u \o v)[j] = IF j <= i - 1 THEN u[j] ELSE v[j - (i - 1)]
        <5>1. /\ Len(u \o v) = Len(u) + Len(v)
              /\ \A j \in 1 .. Len(u) + Len(v) : (u \o v)[j] = IF j <= Len(u) THEN u[j] ELSE v[j - Len(u)]
          BY <4>2, <4>b, ConcatProperties
        <5>2. Len(u) + Len(v) = i
          BY <3>2, <4>b, <4>c
        <5> QED
          BY <4>c, <5>1, <5>2
      <4>3. Len(f[i]) = i /\ f[i][i] = g[i] /\ \A j \in 1 .. i - 1 : f[i][j] = u[j]
        <5>1. i \in 1 .. i /\ ~(i <= i - 1) /\ i - (i - 1) = 1
              /\ \A j \in 1 .. i - 1 : j \in 1 .. i /\ j <= i - 1
          BY <3>2
        <5> QED
          BY <4>2, <4>b, <4>d, <5>1
      <4>e. \A j \in 1 .. i - 1 : u[j] = g[j]
        BY <4>a DEF u
      <4>4. \A j \in 1 .. i : j = i \/ j \in 1 .. i - 1
        OBVIOUS
      <4> QED
        BY <3>2, <4>3, <4>4, <4>e
    <3> QED
      BY <3>3, <3>4
  <2>5. \A i \in 0 .. n : i \in G
    <3> HIDE DEF G
    <3> QED
      BY <1>1, <2>3, <2>4, UpTo
  <2>6. f[n] \in Seq(S) /\ Len(f[n]) = n /\ \A j \in 1 .. n : f[n][j] = g[j]
    BY <1>1, <1>4, <2>2, <2>5
  <2>7. f[n] = g
    BY <1>1, <2>6 DEF n
  <2> QED
    BY <1>1, <2>2, <2>7 DEF s
<1> QED
  BY <1>3, <1>4

\* A directory whose parts are numbered by numbers up to M and hold rows.
PartsTyped(d, M) ==
  DOMAIN d.parts \subseteq 0 .. M /\ \A k \in DOMAIN d.parts : d.parts[k] \in Seq(Rows)

LEMMA ContentTyped ==
  ASSUME NEW d, NEW M \in Nat, PartsTyped(d, M)
  PROVE  Content(d) \in Seq(Rows)
<1>1. InOrder(d.parts, DOMAIN d.parts) \in Seq(Seq(Rows))
  BY InOrderTyped DEF PartsTyped
<1> QED
  BY <1>1, FlattenTyped DEF Content

LEMMA ContentEmpty ==
  ASSUME NEW d, DOMAIN d.parts = {}
  PROVE  Content(d) = <<>>
BY InOrderEmpty, FlattenEmpty DEF Content

\* A part with the next number: its rows come last.
LEMMA ContentAppend ==
  ASSUME NEW d, NEW e, NEW n \in Nat, NEW rows \in Seq(Rows),
         DOMAIN d.parts = 0 .. n - 1, \A k \in 0 .. n - 1 : d.parts[k] \in Seq(Rows),
         DOMAIN e.parts = 0 .. n, e.parts[n] = rows,
         \A k \in 0 .. n - 1 : e.parts[k] = d.parts[k]
  PROVE  Content(e) = Content(d) \o rows
<1> DEFINE s == [i \in 1 .. n |-> d.parts[i - 1]]
<1>1. InOrder(d.parts, DOMAIN d.parts) = s
  BY AscendingFull DEF InOrder
<1>2. s \in Seq(Seq(Rows)) /\ Len(s) = n
  <2>1. \A i \in 1 .. n : d.parts[i - 1] \in Seq(Rows)
    OBVIOUS
  <2> QED
    BY <2>1, IsASeq
<1>3. InOrder(e.parts, DOMAIN e.parts) = [i \in 1 .. n + 1 |-> e.parts[i - 1]]
  <2>1. n + 1 \in Nat /\ DOMAIN e.parts = 0 .. (n + 1) - 1
    OBVIOUS
  <2>2. Cardinality(DOMAIN e.parts) = n + 1
        /\ \A i \in 1 .. n + 1 : Ascending(DOMAIN e.parts)[i] = i - 1
    BY <2>1, AscendingFull
  <2> QED
    BY <2>2 DEF InOrder
<1>4. [i \in 1 .. n + 1 |-> e.parts[i - 1]] = Append(s, rows)
  <2>1. Append(s, rows) = [i \in 1 .. n + 1 |-> IF i = n + 1 THEN rows ELSE s[i]]
    BY <1>2
  <2>2. \A i \in 1 .. n + 1 : e.parts[i - 1] = IF i = n + 1 THEN rows ELSE s[i]
    OBVIOUS
  <2> QED
    BY <2>1, <2>2
<1> HIDE DEF s
<1>5. FlattenSeq(Append(s, rows)) = FlattenSeq(s) \o rows
  BY <1>2, FlattenAppend
<1>6. Content(d) = FlattenSeq(s) /\ Content(e) = FlattenSeq(Append(s, rows))
  BY <1>1, <1>3, <1>4 DEF Content
<1> QED
  BY <1>5, <1>6

-----------------------------------------------------------------------------
(* The merge of a keyed write. *)

\* Without duplicates an old row meets at most one row, and stays one row.
LEMMA JoinedIsUpdated ==
  ASSUME NEW o \in Rows, NEW new \in Seq(Rows), ~HasDuplicates(new)
  PROVE  Joined(o, new) = <<Updated(o, new)>> /\ Updated(o, new) \in Rows
<1> DEFINE I == {k \in DOMAIN new : Matches(o, new[k])}
<1>1. Joined(o, new) = LET matching == InOrder(new, I) IN
        IF matching = <<>> THEN <<o>>
        ELSE [i \in DOMAIN matching |-> Row(o.key, matching[i].given, o.kept)]
  BY DEF Joined
<1>2. DOMAIN new \subseteq Nat /\ \A k \in DOMAIN new : new[k] \in Rows
  OBVIOUS
<1>3. CASE I = {}
  <2>1. Joined(o, new) = <<o>>
    BY <1>1, <1>3, InOrderEmpty
  <2>2. Updated(o, new) = o
    BY <1>3 DEF Updated
  <2> QED
    BY <2>1, <2>2
<1>4. CASE I # {}
  <2>1. PICK k \in DOMAIN new : Matches(o, new[k])
    BY <1>4
  <2>2. I = {k}
    <3>1. ASSUME NEW i \in DOMAIN new, Matches(o, new[i]) PROVE i = k
      BY <2>1, <3>1 DEF Matches, HasDuplicates
    <3> QED
      BY <2>1, <3>1
  <2>3. InOrder(new, I) = <<new[k]>>
    BY <1>2, <2>1, <2>2, InOrderOne
  <2> DEFINE r == Row(o.key, new[k].given, o.kept)
  <2>4. Joined(o, new) = <<r>>
    <3>1. [i \in DOMAIN <<new[k]>> |-> Row(o.key, <<new[k]>>[i].given, o.kept)] = <<r>>
      BY DEF Row
    <3>2. <<new[k]>> # <<>>
      OBVIOUS
    <3> HIDE DEF r
    <3> QED
      BY <1>1, <2>3, <3>1, <3>2
  <2>5. (CHOOSE i \in DOMAIN new : Matches(o, new[i])) = k
    BY <2>1, <2>2
  <2>6. Updated(o, new) = [o EXCEPT !.given = new[k].given]
    BY <2>1, <2>5 DEF Updated
  <2>7. new[k] \in Rows
    BY <1>2, <2>1
  <2>8. [o EXCEPT !.given = new[k].given] = r /\ r \in Rows
    BY <2>7 DEF Row, Rows
  <2> QED
    BY <2>4, <2>6, <2>8
<1> QED
  BY <1>3, <1>4

\* The rows of the input that match nothing are those the documentation calls new.
LEMMA UnmatchedIsInserted ==
  ASSUME NEW old, NEW new
  PROVE  Unmatched(old, new) = Inserted(old, new)
<1>1. {k \in DOMAIN new : \A i \in DOMAIN old : ~Matches(old[i], new[k])} =
      {k \in DOMAIN new : \/ new[k].key = Null
                          \/ new[k].key \notin {old[i].key : i \in DOMAIN old}}
  BY DEF Matches
<1> QED
  BY <1>1 DEF Unmatched, Inserted

LEMMA MergeIsWritten ==
  ASSUME NEW old \in Seq(Rows), NEW new \in Seq(Rows), ~HasDuplicates(new),
         NEW mode \in {"update", "upsert"}
  PROVE  /\ MergeKeyed(old, new, mode) = Written(mode, old, new)
         /\ MergeKeyed(old, new, mode) \in Seq(Rows)
<1> DEFINE updated == [i \in DOMAIN old |-> Updated(old[i], new)]
<1>1. \A i \in DOMAIN old :
        Joined(old[i], new) = <<Updated(old[i], new)>> /\ Updated(old[i], new) \in Rows
  <2>1. \A i \in DOMAIN old : old[i] \in Rows
    OBVIOUS
  <2> QED
    BY <2>1, JoinedIsUpdated
<1>2. updated \in Seq(Rows) /\ DOMAIN updated = DOMAIN old
  BY <1>1
<1>3. [i \in DOMAIN old |-> Joined(old[i], new)] = [i \in DOMAIN updated |-> <<updated[i]>>]
  BY <1>1
<1>4. FlattenSeq([i \in DOMAIN old |-> Joined(old[i], new)]) = updated
  <2> HIDE DEF updated
  <2> QED
    BY <1>2, <1>3, FlattenSingles
<1>5. Inserted(old, new) \in Seq(Rows)
  <2> DEFINE I == {k \in DOMAIN new : \/ new[k].key = Null
                                      \/ new[k].key \notin {old[i].key : i \in DOMAIN old}}
  <2>1. Len(new) \in Nat /\ I \in SUBSET (0 .. Len(new)) /\ \A k \in I : new[k] \in Rows
    OBVIOUS
  <2>2. InOrder(new, I) \in Seq(Rows)
    <3> HIDE DEF I
    <3> QED
      BY <2>1, InOrderTyped
  <2> QED
    BY <2>2 DEF Inserted
<1>6. CASE mode = "update"
  <2>1. updated \o <<>> = updated
    <3> HIDE DEF updated
    <3> QED
      BY <1>2
  <2> QED
    BY <1>2, <1>4, <1>6, <2>1 DEF MergeKeyed, Written
<1>7. CASE mode = "upsert"
  <2>1. MergeKeyed(old, new, mode) = updated \o Inserted(old, new)
    BY <1>4, <1>7, UnmatchedIsInserted DEF MergeKeyed
  <2>2. updated \o Inserted(old, new) \in Seq(Rows)
    <3> HIDE DEF updated
    <3> QED
      BY <1>2, <1>5
  <2> QED
    BY <1>7, <2>1, <2>2 DEF Written
<1> QED
  BY <1>6, <1>7

-----------------------------------------------------------------------------
(* The invariant. *)

JobInv ==
  /\ job = <<>> => step = "succeeded" /\ at = 1
  /\ job # <<>> => Len(job) <= writes
  /\ job # <<>> => IF step = "succeeded" THEN at = Len(job) + 1 ELSE at \in 1 .. Len(job)

\* The highest number a part may have by now.
Highest == IF Ended THEN writes ELSE writes - Len(job) + at - 1

Removing(d) == step = "remove" /\ d = W.dataset

PartsInv ==
  /\ \A d \in Datasets : DOMAIN disk[d].parts \subseteq 0 .. Highest
  /\ \A d \in Datasets : d \notin cut /\ ~Removing(d) =>
       \E n \in 0 .. Highest + 1 : DOMAIN disk[d].parts = 0 .. n - 1
  /\ step = "copy" /\ W.dataset \notin cut => DOMAIN disk[W.dataset].parts = 0 .. part - 1
  /\ step = "copy" => part \in 0 .. Highest + 1 /\ disk[W.dataset].exists
  /\ step = "copy" => part = Cardinality(DOMAIN disk[W.dataset].parts)

\* Files are removed only for a mode that replaces them, and gone before the copy; where
\* error_if_exists writes there is nothing.
ModeInv ==
  /\ step = "remove" => Keyed(W) \/ W.mode = "overwrite"
  /\ step \in {"create", "copy"} /\ W.mode # "append" => DOMAIN disk[W.dataset].parts = {}

\* The write at hand has not touched its dataset yet.
Waiting == step \in {"begin", "replace"} \/ (step = "failed" /\ Keyed(W))

\* No write of the job has touched dataset d so far.
Unreached(d) == \A i \in DOMAIN job : job[i].dataset = d => i > at \/ (i = at /\ Waiting)

BeforeInv ==
  /\ \A d \in Datasets : Unreached(d) => disk[d] = before[d]
  /\ step \in {"create", "copy"} /\ WritesOnce(job) =>
       /\ W.mode = "append" => disk[W.dataset].parts = before[W.dataset].parts
       /\ W.mode = "error_if_exists" => ~before[W.dataset].exists

\* What the dataset of a write holds afterwards, of what there was when the job started.
Expected(w) == Written(w.mode, Content(before[w.dataset]), Given(w))

StagedInv ==
  WritesOnce(job) /\ step \in {"replace", "remove", "create", "copy"} /\ Keyed(W) =>
    staged = Expected(W)

\* The dataset of a write that was carried out.
Done(w) ==
  IF w.mode = "append" /\ w.dataset \in cut
    THEN disk[w.dataset].parts = Appended(before[w.dataset], Given(w))
    ELSE Content(disk[w.dataset]) = Expected(w)

DoneInv == WritesOnce(job) => \A i \in DOMAIN job : i < at => Done(job[i])

WritesInv == TypeOK /\ JobInv /\ PartsInv /\ ModeInv /\ BeforeInv /\ StagedInv /\ DoneInv

\* A write that was carried out is not undone where its dataset is left alone.
LEMMA DoneKept ==
  ASSUME NEW w, Done(w), disk'[w.dataset] = disk[w.dataset], before' = before,
         w.dataset \in cut' <=> w.dataset \in cut
  PROVE  Done(w)'
BY DEF Done, Expected, Given

-----------------------------------------------------------------------------
(* What the types give. *)

LEMMA AtAWrite ==
  ASSUME TypeOK, JobInv, ~Ended
  PROVE  /\ job \in Seq(Writes) /\ Len(job) \in Nat /\ at \in 1 .. Len(job)
         /\ MaxWrites \in Nat /\ writes \in Nat /\ writes <= MaxWrites /\ Len(job) <= writes
         /\ W \in Writes /\ W.dataset \in Datasets /\ W.mode \in Modes /\ W.rows \in Seq(Rows)
         /\ W.source \in Datasets \cup {NoDataset}
         /\ Highest = writes - Len(job) + at - 1 /\ Highest \in Nat /\ Highest < writes
<1>1. job # <<>> /\ step # "succeeded"
  BY DEF JobInv, Ended
<1>2. job \in Seq(Writes)
  BY <1>1, JobsAssumption DEF TypeOK
<1>3. Len(job) \in Nat /\ at \in 1 .. Len(job) /\ Len(job) <= writes
  BY <1>1, <1>2 DEF JobInv
<1>4. MaxWrites \in Nat /\ writes \in Nat /\ writes <= MaxWrites
  BY JobsAssumption DEF TypeOK
<1>5. W \in Writes
  BY <1>2, <1>3 DEF W
<1>6. W.dataset \in Datasets /\ W.mode \in Modes /\ W.rows \in Seq(Rows)
      /\ W.source \in Datasets \cup {NoDataset}
  BY <1>5 DEF Writes
<1>7. Highest = writes - Len(job) + at - 1
  BY DEF Highest
<1>8. Highest \in Nat /\ Highest < writes
  BY <1>3, <1>4, <1>7
<1> QED
  BY <1>2, <1>3, <1>4, <1>5, <1>6, <1>7, <1>8

LEMMA DiskTyped ==
  ASSUME NEW dk, IsDisk(dk), NEW d \in Datasets
  PROVE  /\ dk[d].exists \in BOOLEAN
         /\ DOMAIN dk[d].parts \subseteq 0 .. MaxWrites
         /\ \A k \in DOMAIN dk[d].parts : dk[d].parts[k] \in Seq(Rows)
         /\ dk[d] = [exists |-> dk[d].exists, parts |-> dk[d].parts]
         /\ Content(dk[d]) \in Seq(Rows)
<1>1. /\ dk[d].exists \in BOOLEAN
      /\ DOMAIN dk[d].parts \subseteq 0 .. MaxWrites
      /\ \A k \in DOMAIN dk[d].parts : dk[d].parts[k] \in Seq(Rows)
  BY DEF IsDisk
<1>2. dk[d] = [exists |-> dk[d].exists, parts |-> dk[d].parts]
  BY Zenon DEF IsDisk
<1>3. Content(dk[d]) \in Seq(Rows)
  BY <1>1, ContentTyped, JobsAssumption DEF PartsTyped
<1> QED
  BY <1>1, <1>2, <1>3

LEMMA DirectoryMade ==
  ASSUME NEW o, o = [exists |-> o.exists, parts |-> o.parts]
  PROVE  [o EXCEPT !.exists = TRUE] = [exists |-> TRUE, parts |-> o.parts]
<1>1. PICK a, b : o = [exists |-> a, parts |-> b] /\ b = o.parts
  OBVIOUS
<1>2. \A x : [[exists |-> a, parts |-> b] EXCEPT !.exists = x] = [exists |-> x, parts |-> b]
  OBVIOUS
<1>3. [[exists |-> a, parts |-> b] EXCEPT !.exists = TRUE] = [exists |-> TRUE, parts |-> b]
  BY <1>2, Zenon
<1>4. [o EXCEPT !.exists = TRUE] = [[exists |-> a, parts |-> b] EXCEPT !.exists = TRUE]
  BY <1>1, Zenon
<1> QED
  BY <1>1, <1>3, <1>4, Zenon

\* Only the content of one dataset changes.
LEMMA DiskChanged ==
  ASSUME IsDisk(disk), NEW e \in Datasets, NEW x \in BOOLEAN, NEW p,
         DOMAIN p \subseteq 0 .. MaxWrites, \A k \in DOMAIN p : p[k] \in Seq(Rows),
         disk' = [disk EXCEPT ![e] = [exists |-> x, parts |-> p]]
  PROVE  /\ IsDisk(disk')
         /\ disk'[e].exists = x /\ disk'[e].parts = p
         /\ \A d \in Datasets : d # e => disk'[d] = disk[d]
<1>1. DOMAIN disk = Datasets
  BY Zenon DEF IsDisk
<1>2. DOMAIN disk' = Datasets /\ disk'[e] = [exists |-> x, parts |-> p]
      /\ \A d \in Datasets : d # e => disk'[d] = disk[d]
  BY <1>1, Zenon
<1>3. disk' = [d \in Datasets |-> disk'[d]]
  BY <1>1, Zenon
<1>4. disk'[e].exists = x /\ disk'[e].parts = p
  BY <1>2
<1>5. \A d \in Datasets : disk'[d] = [exists |-> disk'[d].exists, parts |-> disk'[d].parts]
  <2> SUFFICES ASSUME NEW d \in Datasets
               PROVE  disk'[d] = [exists |-> disk'[d].exists, parts |-> disk'[d].parts]
    OBVIOUS
  <2>1. CASE d = e
    BY <1>2, <1>4, <2>1
  <2>2. CASE d # e
    <3>1. disk'[d] = disk[d]
      BY <1>2, <2>2
    <3> QED
      BY <3>1, DiskTyped
  <2> QED
    BY <2>1, <2>2
<1>6. disk' = [d \in Datasets |-> [exists |-> disk'[d].exists, parts |-> disk'[d].parts]]
  <2> DEFINE r(d) == [exists |-> disk'[d].exists, parts |-> disk'[d].parts]
  <2>1. \A d \in Datasets : disk'[d] = r(d)
    BY <1>5
  <2> HIDE DEF r
  <2>2. disk' = [d \in Datasets |-> r(d)]
    BY <1>3, <2>1, Zenon
  <2> QED
    BY <2>2, Zenon DEF r
<1>7. \A d \in Datasets : /\ disk'[d].exists \in BOOLEAN
                          /\ DOMAIN disk'[d].parts \subseteq 0 .. MaxWrites
                          /\ \A k \in DOMAIN disk'[d].parts : disk'[d].parts[k] \in Seq(Rows)
  <2> SUFFICES ASSUME NEW d \in Datasets
               PROVE  /\ disk'[d].exists \in BOOLEAN
                      /\ DOMAIN disk'[d].parts \subseteq 0 .. MaxWrites
                      /\ \A k \in DOMAIN disk'[d].parts : disk'[d].parts[k] \in Seq(Rows)
    OBVIOUS
  <2>1. CASE d = e
    BY <1>4, <2>1
  <2>2. CASE d # e
    <3>1. disk'[d] = disk[d]
      BY <1>2, <2>2
    <3> QED
      BY <3>1, DiskTyped
  <2> QED
    BY <2>1, <2>2
<1>8. IsDisk(disk')
  BY <1>6, <1>7, Zenon DEF IsDisk
<1> QED
  BY <1>2, <1>4, <1>8

LEMMA RelationTyped ==
  ASSUME TypeOK, NEW w \in Writes
  PROVE  Relation(w) \in Seq(Rows) /\ Given(w) \in Seq(Rows)
<1>1. IsDisk(disk) /\ IsDisk(before) /\ w.source \in Datasets \cup {NoDataset}
      /\ w.rows \in Seq(Rows)
  BY DEF TypeOK, Writes
<1>2. \A d \in Datasets : Content(disk[d]) \in Seq(Rows) /\ Content(before[d]) \in Seq(Rows)
  BY <1>1, DiskTyped
<1> QED
  BY <1>1, <1>2 DEF Relation, Given

\* A dataset no earlier write of the job names, and this one only if it waits.
LEMMA SourceUnreached ==
  ASSUME TypeOK, JobInv, BeforeInv, ModeInv, WritesOnce(job), ~Ended, Readable(W),
         step = "begin" \/ (step = "copy" /\ ~Keyed(W))
  PROVE  Relation(W) = Given(W)
<1>1. job \in Seq(Writes) /\ at \in 1 .. Len(job) /\ W.source \in Datasets \cup {NoDataset}
      /\ W.mode \in Modes /\ W.dataset \in Datasets
  BY AtAWrite
<1>2. CASE W.source = NoDataset
  BY <1>2 DEF Relation, Given
<1>3. CASE W.source # NoDataset
  <2>1. \A i \in DOMAIN job : i < at => job[i].dataset # W.source
    BY <1>1 DEF WritesOnce, W
  <2>2. W.source \in Datasets
    BY <1>1, <1>3
  <2>3. CASE step = "begin" \/ W.source # W.dataset
    <3>1. Unreached(W.source)
      <4> SUFFICES ASSUME NEW i \in DOMAIN job, job[i].dataset = W.source
                   PROVE  i > at \/ (i = at /\ Waiting)
        BY DEF Unreached
      <4>1. i \in Nat /\ at \in Nat /\ ~(i < at)
        BY <1>1, <2>1
      <4>2. i = at => step = "begin"
        BY <2>3 DEF W
      <4> QED
        BY <4>1, <4>2 DEF Waiting
    <3>2. disk[W.source] = before[W.source]
      BY <2>2, <3>1 DEF BeforeInv
    <3> QED
      BY <1>3, <3>2 DEF Relation, Given
  <2>4. CASE step = "copy" /\ ~Keyed(W) /\ W.source = W.dataset
    <3>1. W.mode = "append"
      BY <1>3, <2>4 DEF ModeInv, Readable
    <3>2. disk[W.dataset].parts = before[W.dataset].parts
      BY <2>4, <3>1 DEF BeforeInv
    <3>3. Content(disk[W.dataset]) = Content(before[W.dataset])
      BY <3>2 DEF Content
    <3> QED
      BY <1>3, <2>4, <3>3 DEF Relation, Given
  <2> QED
    BY <2>3, <2>4
<1> QED
  BY <1>2, <1>3

\* In a job that writes each dataset once, no other write has the dataset of this one.
LEMMA OtherDatasets ==
  ASSUME TypeOK, JobInv, WritesOnce(job), ~Ended, NEW i \in DOMAIN job, i # at
  PROVE  job[i].dataset # W.dataset /\ job[i].dataset \in Datasets
<1>1. job \in Seq(Writes) /\ at \in DOMAIN job
  BY AtAWrite
<1>2. job[i] \in Writes
  BY <1>1
<1> QED
  BY <1>1, <1>2 DEF WritesOnce, W, Writes

\* Before it has begun to write, the dataset of a write is as it was.
LEMMA WaitingIsBefore ==
  ASSUME TypeOK, JobInv, BeforeInv, WritesOnce(job), ~Ended, Waiting
  PROVE  disk[W.dataset] = before[W.dataset]
<1>1. W.dataset \in Datasets
  BY AtAWrite
<1>2. \A i \in DOMAIN job : job[i].dataset = W.dataset => i = at
  BY OtherDatasets
<1>3. Unreached(W.dataset)
  BY <1>2 DEF Unreached
<1> QED
  BY <1>1, <1>3 DEF BeforeInv

-----------------------------------------------------------------------------
(* Steps of a job that leave the disk and the datasets cut alone. *)

LEMMA InitStep == Init => WritesInv
<1> SUFFICES ASSUME Init PROVE WritesInv
  OBVIOUS
<1> DEFINE D == {Absent} \cup {Fresh(rows) : rows \in Contents}
<1>1. disk \in [Datasets -> D] /\ before = disk /\ MaxWrites \in Nat
      /\ job = <<>> /\ at = 1 /\ step = "succeeded" /\ writes = 0 /\ part = 0 /\ cut = {}
      /\ staged = <<>>
  BY JobsAssumption DEF Init
<1>2. ASSUME NEW x \in D
      PROVE  /\ x = [exists |-> x.exists, parts |-> x.parts] /\ x.exists \in BOOLEAN
             /\ DOMAIN x.parts = 0 .. (0 - 1) \/ DOMAIN x.parts = 0 .. (1 - 1)
             /\ \A k \in DOMAIN x.parts : x.parts[k] \in Seq(Rows)
             /\ DOMAIN x.parts # {} => x.exists
  <2>1. CASE x = Absent
    BY <2>1 DEF Absent
  <2>2. CASE x # Absent
    <3>1. PICK rows \in Contents : x = Fresh(rows)
      BY <2>2
    <3>2. rows \in Seq(Rows)
      BY JobsAssumption
    <3> QED
      BY <3>1, <3>2 DEF Fresh
  <2> QED
    BY <2>1, <2>2
<1>3. \A d \in Datasets : disk[d] \in D
  BY <1>1
<1> HIDE DEF D
<1>4. IsDisk(disk)
  <2>1. \A d \in Datasets : disk[d] = [exists |-> disk[d].exists, parts |-> disk[d].parts]
    BY <1>2, <1>3
  <2>2. disk = [d \in Datasets |-> disk[d]]
    BY <1>1
  <2>3. disk = [d \in Datasets |-> [exists |-> disk[d].exists, parts |-> disk[d].parts]]
    BY <2>1, <2>2
  <2>4. \A d \in Datasets : /\ disk[d].exists \in BOOLEAN
                            /\ DOMAIN disk[d].parts \subseteq 0 .. MaxWrites
                            /\ \A k \in DOMAIN disk[d].parts : disk[d].parts[k] \in Seq(Rows)
    BY <1>1, <1>2, <1>3
  <2> QED
    BY <2>3, <2>4 DEF IsDisk
<1>5. TypeOK
  <2>1. \A d \in Datasets : DOMAIN disk[d].parts # {} => disk[d].exists
    BY <1>2, <1>3
  <2>2. staged \in Seq(Rows)
    BY <1>1, EmptySeq
  <2> QED
    BY <1>1, <1>4, <2>1, <2>2 DEF TypeOK, Steps
<1>6. JobInv
  BY <1>1 DEF JobInv
<1>7. PartsInv
  <2>1. Highest = 0
    BY <1>1 DEF Highest, Ended
  <2>2. \A d \in Datasets : \E n \in 0 .. 1 : DOMAIN disk[d].parts = 0 .. n - 1
    BY <1>2, <1>3
  <2> QED
    BY <1>1, <2>1, <2>2 DEF PartsInv
<1>8. ModeInv /\ BeforeInv /\ StagedInv /\ DoneInv
  BY <1>1 DEF ModeInv, BeforeInv, StagedInv, DoneInv
<1> QED
  BY <1>5, <1>6, <1>7, <1>8 DEF WritesInv

LEMMA StartStep == WritesInv /\ Start => WritesInv'
<1> SUFFICES ASSUME WritesInv, Start PROVE WritesInv'
  OBVIOUS
<1>1. Ended /\ job' \in Jobs /\ writes' = writes + Len(job') /\ writes' <= MaxWrites
      /\ at' = 1 /\ step' = "begin" /\ before' = disk
      /\ disk' = disk /\ staged' = staged /\ part' = part /\ cut' = cut
  BY DEF Start
<1>2. TypeOK /\ PartsInv /\ writes \in Nat
  BY DEF WritesInv, TypeOK
<1>3. job' \in Seq(Writes) /\ job' # <<>> /\ Len(job') \in Nat /\ Len(job') # 0
  BY <1>1, JobsAssumption, EmptySeq
<1>4. TypeOK'
  <2>1. writes' \in 0 .. MaxWrites
    BY <1>1, <1>2, <1>3, JobsAssumption
  <2> QED
    BY <1>1, <1>2, <2>1 DEF TypeOK, Steps
<1>5. JobInv'
  BY <1>1, <1>2, <1>3 DEF JobInv
<1>6. PartsInv'
  <2>1. ~Ended'
    BY <1>1 DEF Ended
  <2>2. Highest = writes
    BY <1>1 DEF Highest
  <2>3. Highest' = writes
    BY <1>1, <1>2, <1>3, <2>1 DEF Highest
  <2>4. \A d \in Datasets : ~Removing(d)
    BY <1>1 DEF Ended, Removing
  <2> QED
    BY <1>1, <1>2, <2>2, <2>3, <2>4 DEF PartsInv
<1>7. ModeInv' /\ StagedInv'
  BY <1>1 DEF ModeInv, StagedInv
<1>8. BeforeInv'
  BY <1>1 DEF BeforeInv
<1>9. DoneInv'
  BY <1>1, <1>3 DEF DoneInv
<1> QED
  BY <1>4, <1>5, <1>6, <1>7, <1>8, <1>9 DEF WritesInv

\* The job ends early and no file changes; a write killed while it removes files leaves
\* its dataset cut.
LEMMA EndStep ==
  ASSUME WritesInv, ~Ended, step' \in {"failed", "killed"}, Waiting' => Waiting,
         UNCHANGED <<disk, writes, job, at, staged, part, before>>,
         cut' = IF step = "remove" THEN cut \cup {W.dataset} ELSE cut
  PROVE  WritesInv'
<1>1. TypeOK /\ JobInv /\ PartsInv /\ BeforeInv /\ DoneInv
  BY DEF WritesInv
<1>2. at \in 1 .. Len(job) /\ W.dataset \in Datasets /\ writes \in Nat /\ job # <<>>
      /\ Highest \in Nat /\ Highest < writes
  <2>1. job # <<>>
    BY <1>1 DEF JobInv, Ended
  <2> QED
    BY <1>1, <2>1, AtAWrite
<1>3. Ended' /\ Highest' = writes
  BY DEF Highest, Ended
<1>4. TypeOK'
  BY <1>1, <1>2 DEF TypeOK, Steps
<1>5. JobInv'
  BY <1>1, <1>2 DEF JobInv
<1>6. PartsInv'
  <2>1. \A d \in Datasets : DOMAIN disk'[d].parts \subseteq 0 .. Highest'
    BY <1>1, <1>2, <1>3 DEF PartsInv
  <2>2. ASSUME NEW d \in Datasets, d \notin cut'
        PROVE  \E n \in 0 .. Highest' + 1 : DOMAIN disk'[d].parts = 0 .. n - 1
    <3>1. d \notin cut /\ ~Removing(d)
      BY <2>2 DEF Removing
    <3>2. PICK n \in 0 .. Highest + 1 : DOMAIN disk[d].parts = 0 .. n - 1
      BY <1>1, <3>1 DEF PartsInv
    <3>3. n \in 0 .. Highest' + 1
      BY <1>2, <1>3, <3>2
    <3> QED
      BY <3>2, <3>3
  <2> QED
    BY <2>1, <2>2 DEF PartsInv
<1>7. ModeInv' /\ StagedInv'
  BY DEF ModeInv, StagedInv
<1>8. BeforeInv'
  <2>1. \A d \in Datasets : Unreached(d)' => Unreached(d)
    BY DEF Unreached
  <2> QED
    BY <1>1, <2>1 DEF BeforeInv
<1>9. DoneInv'
  <2> SUFFICES ASSUME WritesOnce(job), NEW i \in DOMAIN job, i < at PROVE Done(job[i])'
    BY DEF DoneInv
  <2>1. i # at
    BY <1>2
  <2>2. job[i].dataset # W.dataset
    BY <1>1, <2>1, OtherDatasets
  <2> QED
    BY <1>1, <2>2, DoneKept DEF DoneInv
<1> QED
  BY <1>4, <1>5, <1>6, <1>7, <1>8, <1>9 DEF WritesInv

\* The next step of the same write, before any file changes.
LEMMA MoveStep ==
  ASSUME WritesInv, step \in {"begin", "replace"}, step' \in {"replace", "remove", "create"},
         UNCHANGED <<disk, writes, job, at, part, before, cut>>, staged' \in Seq(Rows),
         Keyed(W) /\ WritesOnce(job) => staged' = Expected(W),
         step' = "remove" => Keyed(W) \/ W.mode = "overwrite",
         step' = "create" => W.mode = "append" \/ ~disk[W.dataset].exists
  PROVE  WritesInv'
<1>1. TypeOK /\ JobInv /\ PartsInv /\ BeforeInv /\ DoneInv
  BY DEF WritesInv
<1>2. ~Ended /\ ~Ended' /\ Waiting
  BY DEF Ended, Waiting
<1>3. W' = W /\ Highest' = Highest /\ (\A w : Expected(w)' = Expected(w))
  BY <1>2 DEF W, Highest, Expected, Given
<1>4. W.dataset \in Datasets
  BY <1>1, <1>2, AtAWrite
<1>5. TypeOK'
  BY <1>1 DEF TypeOK, Steps
<1>6. JobInv'
  BY <1>1, <1>2 DEF JobInv, Ended
<1>7. PartsInv'
  <2>1. \A d \in Datasets : ~Removing(d)
    BY DEF Removing
  <2> QED
    BY <1>1, <1>3, <2>1 DEF PartsInv
<1>8. ModeInv'
  <2>1. ~disk[W.dataset].exists => DOMAIN disk[W.dataset].parts = {}
    BY <1>1, <1>4 DEF TypeOK
  <2> QED
    BY <1>3, <2>1 DEF ModeInv, Keyed
<1>9. BeforeInv'
  <2>1. \A d \in Datasets : Unreached(d)' => Unreached(d)
    BY <1>2 DEF Unreached
  <2>2. WritesOnce(job) => disk[W.dataset] = before[W.dataset]
    BY <1>1, <1>2, WaitingIsBefore
  <2> QED
    BY <1>1, <1>3, <2>1, <2>2 DEF BeforeInv
<1>10. StagedInv'
  BY <1>3 DEF StagedInv
<1>11. DoneInv'
  BY <1>1, DoneKept DEF DoneInv
<1> QED
  BY <1>5, <1>6, <1>7, <1>8, <1>9, <1>10, <1>11 DEF WritesInv

LEMMA MergeStep == WritesInv /\ Merge => WritesInv'
<1> SUFFICES ASSUME WritesInv, Merge PROVE WritesInv'
  OBVIOUS
<1>1. TypeOK /\ JobInv /\ PartsInv /\ ModeInv /\ BeforeInv
  BY DEF WritesInv
<1>2. /\ step = "begin" /\ step' = "replace" /\ Keyed(W) /\ Readable(W)
      /\ ~HasDuplicates(Relation(W))
      /\ staged' = MergeKeyed(Content(disk[W.dataset]), Relation(W), W.mode)
      /\ UNCHANGED <<disk, writes, job, at, part, before, cut>>
  BY DEF Merge
<1>3. ~Ended /\ Waiting
  BY <1>2 DEF Ended, Waiting
<1>4. W \in Writes /\ W.dataset \in Datasets /\ W.mode \in {"update", "upsert"}
  BY <1>1, <1>2, <1>3, AtAWrite DEF Keyed
<1>5. Content(disk[W.dataset]) \in Seq(Rows) /\ Relation(W) \in Seq(Rows)
  BY <1>1, <1>4, DiskTyped, RelationTyped DEF TypeOK
<1>6. staged' \in Seq(Rows)
      /\ staged' = Written(W.mode, Content(disk[W.dataset]), Relation(W))
  BY <1>2, <1>4, <1>5, MergeIsWritten
<1>7. WritesOnce(job) => staged' = Expected(W)
  BY <1>1, <1>2, <1>3, <1>6, SourceUnreached, WaitingIsBefore DEF Expected
<1> QED
  BY <1>2, <1>6, <1>7, MoveStep

LEMMA SkipMergeStep == WritesInv /\ SkipMerge => WritesInv'
<1> SUFFICES ASSUME WritesInv, SkipMerge PROVE WritesInv'
  OBVIOUS
<1>1. staged \in Seq(Rows)
  BY DEF WritesInv, TypeOK
<1> QED
  BY <1>1, MoveStep DEF SkipMerge

LEMMA ReplaceStep == WritesInv /\ Replace => WritesInv'
<1> SUFFICES ASSUME WritesInv, Replace PROVE WritesInv'
  OBVIOUS
<1>1. TypeOK /\ JobInv /\ StagedInv
  BY DEF WritesInv
<1>2. step = "replace" /\ UNCHANGED <<disk, writes, job, at, staged, part, before, cut>>
      /\ ~(W.mode = "error_if_exists" /\ disk[W.dataset].exists)
      /\ step' = IF disk[W.dataset].exists /\ (Keyed(W) \/ W.mode = "overwrite")
                   THEN "remove" ELSE "create"
  BY DEF Replace
<1>3. W.mode \in Modes
  BY <1>1, <1>2, AtAWrite DEF Ended
<1>4. staged' \in Seq(Rows) /\ (Keyed(W) /\ WritesOnce(job) => staged' = Expected(W))
  BY <1>1, <1>2 DEF TypeOK, StagedInv
<1>5. /\ step' = "remove" => Keyed(W) \/ W.mode = "overwrite"
      /\ step' = "create" => W.mode = "append" \/ ~disk[W.dataset].exists
  BY <1>2, <1>3 DEF Keyed, Modes
<1> QED
  BY <1>2, <1>4, <1>5, MoveStep

\* The exceptions: before the write, for duplicate keys, for a directory that exists.
LEMMA FailStep ==
  ASSUME WritesInv, FailBefore \/ RejectDuplicates \/ RefuseExisting
  PROVE  WritesInv'
<1>1. step \in {"begin", "replace"} /\ Fail
  BY DEF FailBefore, RejectDuplicates, RefuseExisting
<1> QED
  BY <1>1, EndStep DEF Fail, Ended, Waiting

-----------------------------------------------------------------------------
(* Steps that change the dataset of the write at hand. *)

\* Once it has begun to write, the datasets still unreached are not its own.
LEMMA OthersUnreached ==
  ASSUME TypeOK, JobInv, ~Ended, ~Waiting, NEW d, Unreached(d)
  PROVE  d # W.dataset
BY AtAWrite DEF Unreached, W

LEMMA RemovePartStep == WritesInv /\ RemovePart => WritesInv'
<1> SUFFICES ASSUME WritesInv, RemovePart PROVE WritesInv'
  OBVIOUS
<1>1. TypeOK /\ JobInv /\ PartsInv /\ ModeInv /\ BeforeInv /\ StagedInv /\ DoneInv
  BY DEF WritesInv
<1>2. step = "remove" /\ UNCHANGED <<writes, job, at, step, staged, part, before, cut>>
  BY DEF RemovePart
<1>3. ~Ended /\ ~Waiting /\ ~Ended'
  BY <1>2 DEF Ended, Waiting
<1>4. W.dataset \in Datasets /\ IsDisk(disk)
  BY <1>1, <1>3, AtAWrite DEF TypeOK
<1>5. PICK k \in DOMAIN disk[W.dataset].parts :
        disk' = [disk EXCEPT ![W.dataset].parts =
                   [i \in DOMAIN disk[W.dataset].parts \ {k} |-> disk[W.dataset].parts[i]]]
  BY DEF RemovePart
<1> DEFINE o == disk[W.dataset]
           p == [i \in DOMAIN o.parts \ {k} |-> o.parts[i]]
<1>6. disk' = [disk EXCEPT ![W.dataset] = [exists |-> o.exists, parts |-> p]]
  <2>1. disk' = [disk EXCEPT ![W.dataset] = [o EXCEPT !.parts = p]]
    BY <1>5
  <2>2. o = [exists |-> o.exists, parts |-> o.parts]
    BY <1>4, DiskTyped
  <2>3. [o EXCEPT !.parts = p] = [exists |-> o.exists, parts |-> p]
    <3> HIDE DEF p, o
    <3> QED
      BY <2>2
  <2> HIDE DEF p, o
  <2> QED
    BY <2>1, <2>3
<1>7. o.exists \in BOOLEAN /\ DOMAIN p \subseteq DOMAIN o.parts
      /\ DOMAIN o.parts \subseteq 0 .. MaxWrites /\ \A i \in DOMAIN p : p[i] \in Seq(Rows)
  BY <1>4, DiskTyped
<1>8. /\ IsDisk(disk') /\ disk'[W.dataset].exists = o.exists /\ disk'[W.dataset].parts = p
      /\ \A d \in Datasets : d # W.dataset => disk'[d] = disk[d]
  <2>1. DOMAIN p \subseteq 0 .. MaxWrites
    BY <1>7
  <2> HIDE DEF p, o
  <2> QED
    BY <1>4, <1>6, <1>7, <2>1, DiskChanged
<1>9. o.exists
  BY <1>1, <1>4, <1>5 DEF TypeOK
<1> HIDE DEF p
<1>10. W' = W /\ Highest' = Highest /\ (\A w : Expected(w)' = Expected(w))
       /\ (\A d : Removing(d)' = Removing(d)) /\ (\A d : Unreached(d)' = Unreached(d))
  BY <1>2 DEF W, Highest, Ended, Expected, Given, Removing, Unreached, Waiting
<1>11. TypeOK'
  <2>1. \A d \in Datasets : DOMAIN disk'[d].parts # {} => disk'[d].exists
    BY <1>1, <1>8, <1>9 DEF TypeOK
  <2> HIDE DEF o
  <2> QED
    BY <1>1, <1>2, <1>8, <2>1 DEF TypeOK
<1>12. JobInv' /\ StagedInv'
  BY <1>1, <1>2, <1>10 DEF JobInv, StagedInv
<1>13. PartsInv'
  <2>1. \A d \in Datasets : DOMAIN disk'[d].parts \subseteq DOMAIN disk[d].parts
    BY <1>7, <1>8
  <2>2. \A d \in Datasets : ~Removing(d) => d # W.dataset
    BY <1>2 DEF Removing
  <2> HIDE DEF o
  <2> QED
    BY <1>1, <1>2, <1>8, <1>10, <2>1, <2>2 DEF PartsInv
<1>14. ModeInv'
  BY <1>1, <1>2, <1>10 DEF ModeInv, Keyed
<1>15. BeforeInv'
  BY <1>1, <1>2, <1>3, <1>8, <1>10, OthersUnreached DEF BeforeInv
<1>16. DoneInv'
  <2> SUFFICES ASSUME WritesOnce(job), NEW i \in DOMAIN job, i < at PROVE Done(job[i])'
    BY <1>2 DEF DoneInv
  <2>1. i # at
    BY <1>1, <1>3, AtAWrite
  <2>2. job[i].dataset # W.dataset /\ job[i].dataset \in Datasets
    BY <1>1, <1>3, <2>1, OtherDatasets
  <2> HIDE DEF o
  <2> QED
    BY <1>1, <1>2, <1>8, <2>2, DoneKept DEF DoneInv
<1> QED
  BY <1>11, <1>12, <1>13, <1>14, <1>15, <1>16 DEF WritesInv

LEMMA RemoveDirectoryStep == WritesInv /\ RemoveDirectory => WritesInv'
<1> SUFFICES ASSUME WritesInv, RemoveDirectory PROVE WritesInv'
  OBVIOUS
<1>1. TypeOK /\ JobInv /\ PartsInv /\ ModeInv /\ BeforeInv /\ StagedInv /\ DoneInv
  BY DEF WritesInv
<1>2. /\ step = "remove" /\ step' = "create"
      /\ disk' = [disk EXCEPT ![W.dataset] = Absent] /\ cut' = cut \ {W.dataset}
      /\ UNCHANGED <<writes, job, at, staged, part, before>>
  BY DEF RemoveDirectory
<1>3. ~Ended /\ ~Waiting /\ ~Ended' /\ ~Waiting'
  BY <1>2 DEF Ended, Waiting
<1>4. W.dataset \in Datasets /\ IsDisk(disk) /\ Highest \in Nat
  BY <1>1, <1>3, AtAWrite DEF TypeOK
<1>5. /\ IsDisk(disk') /\ disk'[W.dataset].exists = FALSE /\ disk'[W.dataset].parts = <<>>
      /\ \A d \in Datasets : d # W.dataset => disk'[d] = disk[d]
  <2>1. DOMAIN <<>> = {}
    OBVIOUS
  <2> QED
    BY <1>2, <1>4, <2>1, DiskChanged DEF Absent
<1>6. DOMAIN disk'[W.dataset].parts = {} /\ DOMAIN disk'[W.dataset].parts = 0 .. 0 - 1
  BY <1>5
<1>7. W' = W /\ Highest' = Highest /\ (\A w : Expected(w)' = Expected(w))
      /\ (\A d : ~Removing(d)') /\ (\A d : Unreached(d)' => Unreached(d))
  BY <1>2, <1>3 DEF W, Highest, Expected, Given, Removing, Unreached
<1>8. Keyed(W) \/ W.mode = "overwrite"
  BY <1>1, <1>2 DEF ModeInv
<1>9. TypeOK'
  <2>1. \A d \in Datasets : DOMAIN disk'[d].parts # {} => disk'[d].exists
    BY <1>1, <1>5, <1>6 DEF TypeOK
  <2> QED
    BY <1>1, <1>2, <1>5, <2>1 DEF TypeOK, Steps
<1>10. JobInv' /\ StagedInv'
  BY <1>1, <1>2, <1>7 DEF JobInv, StagedInv
<1>11. PartsInv'
  <2>1. \A d \in Datasets : DOMAIN disk'[d].parts \subseteq 0 .. Highest
    BY <1>1, <1>5, <1>6 DEF PartsInv
  <2>2. ASSUME NEW d \in Datasets, d \notin cut'
        PROVE  \E n \in 0 .. Highest + 1 : DOMAIN disk'[d].parts = 0 .. n - 1
    <3>1. CASE d = W.dataset
      <4>1. 0 \in 0 .. Highest + 1
        BY <1>4
      <4> QED
        BY <1>6, <3>1, <4>1
    <3>2. CASE d # W.dataset
      BY <1>1, <1>2, <1>5, <2>2, <3>2 DEF PartsInv, Removing
    <3> QED
      BY <3>1, <3>2
  <2> QED
    BY <1>2, <1>7, <2>1, <2>2 DEF PartsInv
<1>12. ModeInv'
  BY <1>2, <1>6, <1>7 DEF ModeInv
<1>13. BeforeInv'
  <2>1. W.mode # "append" /\ W.mode # "error_if_exists"
    BY <1>8 DEF Keyed
  <2> QED
    BY <1>1, <1>2, <1>3, <1>5, <1>7, <2>1, OthersUnreached DEF BeforeInv
<1>14. DoneInv'
  <2> SUFFICES ASSUME WritesOnce(job), NEW i \in DOMAIN job, i < at PROVE Done(job[i])'
    BY <1>2 DEF DoneInv
  <2>1. i # at
    BY <1>1, <1>3, AtAWrite
  <2>2. job[i].dataset # W.dataset /\ job[i].dataset \in Datasets
    BY <1>1, <1>3, <2>1, OtherDatasets
  <2>3. job[i].dataset \in cut' <=> job[i].dataset \in cut
    BY <1>2, <2>2
  <2> QED
    BY <1>1, <1>2, <1>5, <2>2, <2>3, DoneKept DEF DoneInv
<1> QED
  BY <1>9, <1>10, <1>11, <1>12, <1>13, <1>14 DEF WritesInv

LEMMA CreateStep == WritesInv /\ Create => WritesInv'
<1> SUFFICES ASSUME WritesInv, Create PROVE WritesInv'
  OBVIOUS
<1>1. TypeOK /\ JobInv /\ PartsInv /\ ModeInv /\ BeforeInv /\ StagedInv /\ DoneInv
  BY DEF WritesInv
<1>2. /\ step = "create" /\ step' = "copy"
      /\ disk' = [disk EXCEPT ![W.dataset].exists = TRUE]
      /\ part' = Cardinality(DOMAIN disk[W.dataset].parts)
      /\ UNCHANGED <<writes, job, at, staged, before, cut>>
  BY DEF Create
<1>3. ~Ended /\ ~Waiting /\ ~Ended' /\ ~Waiting'
  BY <1>2 DEF Ended, Waiting
<1>4. W.dataset \in Datasets /\ IsDisk(disk) /\ Highest \in Nat
  BY <1>1, <1>3, AtAWrite DEF TypeOK
<1> DEFINE o == disk[W.dataset]
<1>5. disk' = [disk EXCEPT ![W.dataset] = [exists |-> TRUE, parts |-> o.parts]]
  <2>1. disk' = [disk EXCEPT ![W.dataset] = [o EXCEPT !.exists = TRUE]]
    BY <1>2
  <2>2. o = [exists |-> o.exists, parts |-> o.parts]
    BY <1>4, DiskTyped
  <2>3. [o EXCEPT !.exists = TRUE] = [exists |-> TRUE, parts |-> o.parts]
    <3> HIDE DEF o
    <3> QED
      BY <2>2, DirectoryMade
  <2> HIDE DEF o
  <2> QED
    BY <2>1, <2>3
<1>6. /\ IsDisk(disk') /\ disk'[W.dataset].exists = TRUE /\ disk'[W.dataset].parts = o.parts
      /\ \A d \in Datasets : d # W.dataset => disk'[d] = disk[d]
  <2>1. DOMAIN o.parts \subseteq 0 .. MaxWrites /\ \A k \in DOMAIN o.parts : o.parts[k] \in Seq(Rows)
    BY <1>4, DiskTyped
  <2> HIDE DEF o
  <2> QED
    BY <1>4, <1>5, <2>1, DiskChanged
<1>7. \A d \in Datasets : disk'[d].parts = disk[d].parts
  BY <1>6
<1>8. part' \in 0 .. Highest + 1
  <2> DEFINE I == DOMAIN disk[W.dataset].parts
  <2>1. I \subseteq 0 .. Highest
    BY <1>1, <1>4 DEF PartsInv
  <2>2. IsFiniteSet(0 .. Highest) /\ Cardinality(0 .. Highest) = Highest + 1
    BY <1>4, FS_Interval
  <2> HIDE DEF I
  <2>3. Cardinality(I) <= Highest + 1 /\ Cardinality(I) \in Nat
    BY <2>1, <2>2, FS_Subset, FS_CardinalityType
  <2> QED
    BY <1>2, <1>4, <2>3 DEF I
<1>9. W' = W /\ Highest' = Highest /\ (\A w : Expected(w)' = Expected(w))
      /\ (\A d : ~Removing(d) /\ ~Removing(d)') /\ (\A d : Unreached(d)' => Unreached(d))
  BY <1>2, <1>3 DEF W, Highest, Expected, Given, Removing, Unreached
<1> HIDE DEF o
<1>10. TypeOK'
  <2>1. \A d \in Datasets : DOMAIN disk'[d].parts # {} => disk'[d].exists
    BY <1>1, <1>6, <1>7 DEF TypeOK
  <2>2. part' \in Nat
    BY <1>4, <1>8
  <2> QED
    BY <1>1, <1>2, <1>6, <2>1, <2>2 DEF TypeOK, Steps
<1>11. JobInv' /\ StagedInv'
  BY <1>1, <1>2, <1>9 DEF JobInv, StagedInv
<1>12. PartsInv'
  <2>1. W.dataset \notin cut => DOMAIN disk'[W.dataset].parts = 0 .. part' - 1
    <3> SUFFICES ASSUME W.dataset \notin cut PROVE DOMAIN disk'[W.dataset].parts = 0 .. part' - 1
      OBVIOUS
    <3>1. PICK n \in 0 .. Highest + 1 : DOMAIN disk[W.dataset].parts = 0 .. n - 1
      BY <1>1, <1>4, <1>9 DEF PartsInv
    <3>2. n \in Nat
      BY <1>4
    <3>3. part' = n
      BY <1>2, <3>1, <3>2, AscendingFull
    <3> QED
      BY <1>4, <1>7, <3>1, <3>3
  <2>2. part' = Cardinality(DOMAIN disk'[W.dataset].parts)
    BY <1>2, <1>4, <1>7
  <2> QED
    BY <1>1, <1>2, <1>6, <1>7, <1>8, <1>9, <2>1, <2>2 DEF PartsInv
<1>13. ModeInv'
  BY <1>1, <1>2, <1>4, <1>7, <1>9 DEF ModeInv
<1>14. BeforeInv'
  BY <1>1, <1>2, <1>3, <1>4, <1>6, <1>7, <1>9, OthersUnreached DEF BeforeInv
<1>15. DoneInv'
  <2> SUFFICES ASSUME WritesOnce(job), NEW i \in DOMAIN job, i < at PROVE Done(job[i])'
    BY <1>2 DEF DoneInv
  <2>1. i # at
    BY <1>1, <1>3, AtAWrite
  <2>2. job[i].dataset # W.dataset /\ job[i].dataset \in Datasets
    BY <1>1, <1>3, <2>1, OtherDatasets
  <2> QED
    BY <1>1, <1>2, <1>6, <2>2, DoneKept DEF DoneInv
<1> QED
  BY <1>10, <1>11, <1>12, <1>13, <1>14, <1>15 DEF WritesInv

\* A part is written: the next number where none is missing.
LEMMA Put ==
  ASSUME TypeOK, JobInv, PartsInv, step = "copy", NEW rows \in Seq(Rows), PutPart(rows)
  PROVE  /\ IsDisk(disk')
         /\ \A d \in Datasets : d # W.dataset => disk'[d] = disk[d]
         /\ DOMAIN disk'[W.dataset].parts = DOMAIN disk[W.dataset].parts \cup {part}
         /\ disk'[W.dataset].parts[part] = rows
         /\ \A i \in DOMAIN disk[W.dataset].parts :
              i # part => disk'[W.dataset].parts[i] = disk[W.dataset].parts[i]
         /\ disk'[W.dataset].parts = Appended(disk[W.dataset], rows)
         /\ \A d \in Datasets : DOMAIN disk'[d].parts # {} => disk'[d].exists
         /\ \A d \in Datasets : DOMAIN disk'[d].parts \subseteq 0 .. Highest + 1
         /\ \A d \in Datasets : d \notin cut =>
              \E n \in 0 .. (Highest + 1) + 1 : DOMAIN disk'[d].parts = 0 .. n - 1
<1>1. ~Ended
  BY DEF Ended
<1>2. W.dataset \in Datasets /\ IsDisk(disk) /\ Highest \in Nat /\ MaxWrites \in Nat
      /\ Highest + 1 <= MaxWrites
  BY <1>1, AtAWrite DEF TypeOK
<1>3. part \in 0 .. Highest + 1 /\ disk[W.dataset].exists
  BY DEF PartsInv
<1> DEFINE o == disk[W.dataset]
           p == [i \in DOMAIN o.parts \cup {part} |-> IF i = part THEN rows ELSE o.parts[i]]
<1>4. disk' = [disk EXCEPT ![W.dataset] = [exists |-> o.exists, parts |-> p]]
  <2>1. disk' = [disk EXCEPT ![W.dataset] = [o EXCEPT !.parts = p]]
    BY DEF PutPart
  <2>2. o = [exists |-> o.exists, parts |-> o.parts]
    BY <1>2, DiskTyped
  <2>3. [o EXCEPT !.parts = p] = [exists |-> o.exists, parts |-> p]
    <3> HIDE DEF p, o
    <3> QED
      BY <2>2
  <2> HIDE DEF p, o
  <2> QED
    BY <2>1, <2>3
<1>5. o.exists \in BOOLEAN /\ DOMAIN o.parts \subseteq 0 .. Highest
      /\ \A i \in DOMAIN o.parts : o.parts[i] \in Seq(Rows)
  BY <1>2, DiskTyped DEF PartsInv
<1>6. DOMAIN p = DOMAIN o.parts \cup {part} /\ p[part] = rows
      /\ \A i \in DOMAIN o.parts : i # part => p[i] = o.parts[i]
  OBVIOUS
<1>a. p = Appended(o, rows)
  BY DEF PartsInv, Appended
<1> HIDE DEF p
<1>7. DOMAIN p \subseteq 0 .. Highest + 1 /\ DOMAIN p \subseteq 0 .. MaxWrites
      /\ \A i \in DOMAIN p : p[i] \in Seq(Rows)
  <2>1. DOMAIN p \subseteq 0 .. Highest + 1
    BY <1>2, <1>3, <1>5, <1>6
  <2>2. \A i \in DOMAIN p : p[i] \in Seq(Rows)
    BY <1>5, <1>6
  <2> QED
    BY <1>2, <2>1, <2>2
<1>8. /\ IsDisk(disk') /\ disk'[W.dataset].exists = o.exists /\ disk'[W.dataset].parts = p
      /\ \A d \in Datasets : d # W.dataset => disk'[d] = disk[d]
  <2> HIDE DEF o
  <2> QED
    BY <1>2, <1>4, <1>5, <1>7, DiskChanged
<1>9. \A d \in Datasets : DOMAIN disk'[d].parts # {} => disk'[d].exists
  BY <1>3, <1>8 DEF TypeOK
<1>10. \A d \in Datasets : DOMAIN disk'[d].parts \subseteq 0 .. Highest + 1
  <2>1. \A d \in Datasets : DOMAIN disk[d].parts \subseteq 0 .. Highest
    BY DEF PartsInv
  <2>2. (0 .. Highest) \subseteq 0 .. Highest + 1
    BY <1>2
  <2> HIDE DEF o
  <2> QED
    BY <1>7, <1>8, <2>1, <2>2
<1>11. ASSUME NEW d \in Datasets, d \notin cut
       PROVE  \E n \in 0 .. (Highest + 1) + 1 : DOMAIN disk'[d].parts = 0 .. n - 1
  <2>1. CASE d = W.dataset
    <3>1. DOMAIN disk[W.dataset].parts = 0 .. part - 1
      BY <1>11, <2>1 DEF PartsInv
    <3>2. part + 1 \in 0 .. (Highest + 1) + 1 /\ (0 .. part - 1) \cup {part} = 0 .. (part + 1) - 1
      BY <1>2, <1>3
    <3>3. DOMAIN disk'[d].parts = 0 .. (part + 1) - 1
      BY <1>6, <1>8, <2>1, <3>1, <3>2
    <3> QED
      BY <3>2, <3>3
  <2>2. CASE d # W.dataset
    <3>1. disk'[d] = disk[d]
      BY <1>8, <2>2
    <3>2. PICK n \in 0 .. Highest + 1 : DOMAIN disk[d].parts = 0 .. n - 1
      BY <1>11, <2>2 DEF PartsInv, Removing
    <3>3. n \in 0 .. (Highest + 1) + 1
      BY <1>2
    <3> QED
      BY <3>1, <3>2, <3>3
  <2> QED
    BY <2>1, <2>2
<1> QED
  BY <1>6, <1>8, <1>9, <1>10, <1>11, <1>a

\* The job ends while a part is being written, which then holds the first rows.
LEMMA EndCopyStep ==
  ASSUME WritesInv, step = "copy", step' \in {"failed", "killed"}, ~Waiting',
         NEW rows \in Seq(Rows), PutPart(rows),
         UNCHANGED <<writes, job, at, staged, part, before, cut>>
  PROVE  WritesInv'
<1>1. TypeOK /\ JobInv /\ PartsInv /\ BeforeInv /\ DoneInv
  BY DEF WritesInv
<1>2. ~Ended /\ ~Waiting /\ Ended'
  BY DEF Ended, Waiting
<1>3. Highest \in Nat /\ Highest + 1 <= writes /\ writes \in Nat /\ at \in 1 .. Len(job)
      /\ W.dataset \in Datasets
  BY <1>1, <1>2, AtAWrite
<1>4. Highest' = writes /\ (\A w : Expected(w)' = Expected(w)) /\ (\A d : ~Removing(d)')
      /\ (\A d : Unreached(d)' => Unreached(d))
  BY <1>2 DEF Highest, Expected, Given, Removing, Unreached
<1>5. /\ IsDisk(disk')
      /\ \A d \in Datasets : d # W.dataset => disk'[d] = disk[d]
      /\ \A d \in Datasets : DOMAIN disk'[d].parts # {} => disk'[d].exists
      /\ \A d \in Datasets : DOMAIN disk'[d].parts \subseteq 0 .. Highest + 1
      /\ \A d \in Datasets : d \notin cut =>
           \E n \in 0 .. (Highest + 1) + 1 : DOMAIN disk'[d].parts = 0 .. n - 1
  BY <1>1, Put
<1>6. TypeOK'
  BY <1>1, <1>5 DEF TypeOK, Steps
<1>7. JobInv'
  BY <1>1, <1>2 DEF JobInv, Ended
<1>8. PartsInv'
  <2>1. (0 .. Highest + 1) \subseteq 0 .. Highest' /\ (0 .. (Highest + 1) + 1) \subseteq 0 .. Highest' + 1
    BY <1>3, <1>4
  <2> QED
    BY <1>5, <2>1 DEF PartsInv
<1>9. ModeInv' /\ StagedInv'
  BY DEF ModeInv, StagedInv
<1>10. BeforeInv'
  BY <1>1, <1>2, <1>4, <1>5, OthersUnreached DEF BeforeInv
<1>11. DoneInv'
  <2> SUFFICES ASSUME WritesOnce(job), NEW i \in DOMAIN job, i < at PROVE Done(job[i])'
    BY DEF DoneInv
  <2>1. i # at
    BY <1>3
  <2>2. job[i].dataset # W.dataset /\ job[i].dataset \in Datasets
    BY <1>1, <1>2, <2>1, OtherDatasets
  <2> QED
    BY <1>1, <1>5, <2>2, DoneKept DEF DoneInv
<1> QED
  BY <1>6, <1>7, <1>8, <1>9, <1>10, <1>11 DEF WritesInv

LEMMA FirstRows ==
  ASSUME NEW rows \in Seq(Rows), NEW n \in 0 .. Len(rows) - 1
  PROVE  SubSeq(rows, 1, n) \in Seq(Rows)
<1>1. n \in Int /\ 1 \in Int /\ \A i \in 1 .. n : rows[i] \in Rows
  OBVIOUS
<1> QED
  BY <1>1, SubSeqProperties

LEMMA FailCopyStep == WritesInv /\ FailCopy => WritesInv'
<1> SUFFICES ASSUME WritesInv, FailCopy PROVE WritesInv'
  OBVIOUS
<1>1. step = "copy" /\ ~Keyed(W) /\ step' = "failed"
      /\ UNCHANGED <<writes, job, at, staged, part, before, cut>>
  BY DEF FailCopy
<1>2. ~Ended /\ ~Waiting'
  <2>1. W' = W
    BY <1>1 DEF W
  <2> QED
    BY <1>1, <2>1 DEF Ended, Waiting, Keyed
<1>3. CASE UNCHANGED disk
  BY <1>1, <1>2, <1>3, EndStep
<1>4. CASE \E n \in 0 .. Len(Relation(W)) - 1 : PutPart(SubSeq(Relation(W), 1, n))
  <2>1. PICK n \in 0 .. Len(Relation(W)) - 1 : PutPart(SubSeq(Relation(W), 1, n))
    BY <1>4
  <2>2. Relation(W) \in Seq(Rows)
    BY <1>2, AtAWrite, RelationTyped DEF WritesInv
  <2>3. SubSeq(Relation(W), 1, n) \in Seq(Rows)
    BY <2>2, FirstRows
  <2> QED
    BY <1>1, <1>2, <2>1, <2>3, EndCopyStep
<1> QED
  BY <1>3, <1>4 DEF FailCopy

LEMMA KillStep == WritesInv /\ Kill => WritesInv'
<1> SUFFICES ASSUME WritesInv, Kill PROVE WritesInv'
  OBVIOUS
<1>1. /\ ~Ended /\ step' = "killed"
      /\ cut' = (IF step = "remove" THEN cut \cup {W.dataset} ELSE cut)
      /\ UNCHANGED <<writes, job, at, staged, part, before>>
  BY DEF Kill
<1>a. ~Waiting'
  BY <1>1 DEF Waiting
<1>2. CASE UNCHANGED disk
  BY <1>1, <1>2, <1>a, EndStep
<1> DEFINE rows == IF Keyed(W) THEN staged ELSE Relation(W)
<1>3. CASE step = "copy" /\ \E n \in 0 .. Len(rows) - 1 : PutPart(SubSeq(rows, 1, n))
  <2>1. PICK n \in 0 .. Len(rows) - 1 : PutPart(SubSeq(rows, 1, n))
    BY <1>3
  <2>2. Relation(W) \in Seq(Rows) /\ staged \in Seq(Rows)
    BY <1>1, AtAWrite, RelationTyped DEF WritesInv, TypeOK
  <2>3. rows \in Seq(Rows)
    BY <2>2
  <2> HIDE DEF rows
  <2>4. SubSeq(rows, 1, n) \in Seq(Rows)
    BY <2>3, FirstRows
  <2>5. cut' = cut
    BY <1>1, <1>3
  <2> QED
    BY <1>1, <1>3, <1>a, <2>1, <2>4, <2>5, EndCopyStep
<1> QED
  BY <1>2, <1>3 DEF Kill

LEMMA CopyStep == WritesInv /\ Copy => WritesInv'
<1> SUFFICES ASSUME WritesInv, Copy PROVE WritesInv'
  OBVIOUS
<1>1. TypeOK /\ JobInv /\ PartsInv /\ ModeInv /\ BeforeInv /\ StagedInv /\ DoneInv
  BY DEF WritesInv
<1> DEFINE rows == IF Keyed(W) THEN staged ELSE Relation(W)
<1>2. /\ step = "copy" /\ (Keyed(W) \/ Readable(W)) /\ PutPart(rows)
      /\ step' = IF at = Len(job) THEN "succeeded" ELSE "begin"
      /\ at' = at + 1
      /\ UNCHANGED <<writes, job, staged, part, before, cut>>
  BY DEF Copy
<1>3. ~Ended /\ ~Waiting
  BY <1>2 DEF Ended, Waiting
<1>4. /\ job \in Seq(Writes) /\ Len(job) \in Nat /\ at \in 1 .. Len(job)
      /\ Highest \in Nat /\ Highest + 1 <= writes /\ writes \in Nat
      /\ Highest = writes - Len(job) + at - 1
      /\ W \in Writes /\ W.dataset \in Datasets /\ W.mode \in Modes
  BY <1>1, <1>3, AtAWrite
<1>5. rows \in Seq(Rows)
  BY <1>1, <1>4, RelationTyped DEF TypeOK
<1>6. WritesOnce(job) => rows = IF Keyed(W) THEN Expected(W) ELSE Given(W)
  BY <1>1, <1>2, <1>3, SourceUnreached DEF StagedInv
<1> HIDE DEF rows
<1>7. /\ IsDisk(disk')
      /\ \A d \in Datasets : d # W.dataset => disk'[d] = disk[d]
      /\ DOMAIN disk'[W.dataset].parts = DOMAIN disk[W.dataset].parts \cup {part}
      /\ disk'[W.dataset].parts[part] = rows
      /\ \A i \in DOMAIN disk[W.dataset].parts :
           i # part => disk'[W.dataset].parts[i] = disk[W.dataset].parts[i]
      /\ disk'[W.dataset].parts = Appended(disk[W.dataset], rows)
      /\ \A d \in Datasets : DOMAIN disk'[d].parts # {} => disk'[d].exists
      /\ \A d \in Datasets : DOMAIN disk'[d].parts \subseteq 0 .. Highest + 1
      /\ \A d \in Datasets : d \notin cut =>
           \E n \in 0 .. (Highest + 1) + 1 : DOMAIN disk'[d].parts = 0 .. n - 1
  BY <1>1, <1>2, <1>5, Put
<1>8. Highest' = Highest + 1
  <2>1. CASE at = Len(job)
    BY <1>2, <1>4, <2>1 DEF Highest, Ended
  <2>2. CASE at # Len(job)
    <3>1. ~Ended'
      BY <1>2, <2>2 DEF Ended
    <3>2. Highest' = writes - Len(job) + (at + 1) - 1
      BY <1>2, <3>1 DEF Highest
    <3> QED
      BY <1>4, <3>2
  <2> QED
    BY <2>1, <2>2
<1>9. \A w : Expected(w)' = Expected(w)
  BY <1>2 DEF Expected, Given
<1>10. TypeOK'
  BY <1>1, <1>2, <1>4, <1>7 DEF TypeOK, Steps
<1>11. JobInv'
  BY <1>1, <1>2, <1>3, <1>4 DEF JobInv, Ended
<1>12. PartsInv'
  BY <1>2, <1>7, <1>8 DEF PartsInv, Removing
<1>13. ModeInv' /\ StagedInv'
  BY <1>2 DEF ModeInv, StagedInv
<1>14. BeforeInv'
  <2> SUFFICES ASSUME NEW d \in Datasets, Unreached(d)' PROVE disk'[d] = before[d]
    BY <1>2 DEF BeforeInv
  <2>1. \A i \in DOMAIN job : job[i].dataset = d => i > at
    BY <1>2, <1>4 DEF Unreached
  <2>2. Unreached(d)
    BY <2>1 DEF Unreached
  <2>3. d # W.dataset
    BY <1>1, <1>3, <2>2, OthersUnreached
  <2> QED
    BY <1>1, <1>7, <2>2, <2>3 DEF BeforeInv
<1>15. ASSUME WritesOnce(job), W.dataset \notin cut \/ W.mode # "append"
       PROVE  Content(disk'[W.dataset]) = Expected(W)
  <2> DEFINE o == disk[W.dataset]
             e == disk'[W.dataset]
  <2>1. DOMAIN o.parts = 0 .. part - 1 /\ part \in Nat
        /\ \A k \in 0 .. part - 1 : o.parts[k] \in Seq(Rows)
    <3>1. DOMAIN o.parts = 0 .. part - 1 /\ part \in Nat
      <4>1. CASE W.dataset \notin cut
        BY <1>1, <1>2, <4>1 DEF PartsInv, TypeOK
      <4>2. CASE W.mode # "append"
        <5>1. DOMAIN o.parts = {} /\ part = Cardinality(DOMAIN o.parts)
          BY <1>1, <1>2, <4>2 DEF PartsInv, ModeInv
        <5>2. part = 0
          BY <5>1, FS_EmptySet
        <5> QED
          BY <5>1, <5>2
      <4> QED
        BY <1>15, <4>1, <4>2
    <3>2. \A k \in DOMAIN o.parts : o.parts[k] \in Seq(Rows)
      BY <1>1, <1>4, DiskTyped DEF TypeOK
    <3> QED
      BY <3>1, <3>2
  <2>2. DOMAIN e.parts = 0 .. part /\ e.parts[part] = rows
        /\ \A k \in 0 .. part - 1 : e.parts[k] = o.parts[k]
    BY <1>7, <2>1
  <2>3. Content(e) = Content(o) \o rows
    <3> HIDE DEF o, e
    <3> QED
      BY <1>5, <2>1, <2>2, ContentAppend
  <2>4. CASE W.mode = "append"
    <3>1. o.parts = before[W.dataset].parts
      BY <1>1, <1>2, <1>15, <2>4 DEF BeforeInv
    <3>2. Content(o) = Content(before[W.dataset])
      BY <3>1 DEF Content
    <3>3. rows = Given(W)
      BY <1>6, <1>15, <2>4 DEF Keyed
    <3> HIDE DEF o, e
    <3> QED
      BY <2>3, <2>4, <3>2, <3>3 DEF Expected, Written, e
  <2>5. CASE W.mode # "append"
    <3>1. DOMAIN o.parts = {}
      BY <1>1, <1>2, <2>5 DEF ModeInv
    <3> HIDE DEF o, e
    <3>2. Content(o) = <<>>
      BY <3>1, ContentEmpty
    <3>3. Content(e) = rows
      BY <1>5, <2>3, <3>2, ConcatEmptySeq
    <3>4. CASE Keyed(W)
      BY <1>6, <1>15, <3>3, <3>4 DEF e
    <3>5. CASE ~Keyed(W)
      <4>1. W.mode \in {"overwrite", "error_if_exists"}
        BY <1>4, <2>5, <3>5 DEF Keyed, Modes
      <4>2. Expected(W) = Given(W)
        BY <4>1 DEF Expected, Written
      <4> QED
        BY <1>6, <1>15, <3>3, <3>5, <4>2 DEF e
    <3> QED
      BY <3>4, <3>5
  <2> QED
    BY <2>4, <2>5
<1>16. ASSUME WritesOnce(job), W.mode = "append", W.dataset \in cut
       PROVE  disk'[W.dataset].parts = Appended(before[W.dataset], Given(W))
  <2>1. disk[W.dataset].parts = before[W.dataset].parts
    BY <1>1, <1>2, <1>16 DEF BeforeInv
  <2>2. rows = Given(W)
    BY <1>6, <1>16 DEF Keyed
  <2> QED
    BY <1>7, <2>1, <2>2 DEF Appended
<1>17. DoneInv'
  <2> SUFFICES ASSUME WritesOnce(job), NEW i \in DOMAIN job, i < at + 1 PROVE Done(job[i])'
    BY <1>2 DEF DoneInv
  <2>1. CASE i = at
    <3>1. job[i] = W /\ (\A w : Given(w)' = Given(w)) /\ (\A w : Expected(w)' = Expected(w))
      BY <1>2, <1>9, <2>1 DEF W, Given
    <3>2. \A w : Done(w)' = IF w.mode = "append" /\ w.dataset \in cut
                             THEN disk'[w.dataset].parts = Appended(before[w.dataset], Given(w))
                             ELSE Content(disk'[w.dataset]) = Expected(w)
      BY <1>2, <3>1 DEF Done
    <3>3. job[i]' = job[i]
      BY <1>2
    <3> QED
      BY <1>2, <1>15, <1>16, <3>1, <3>2, <3>3
  <2>2. CASE i # at
    <3>1. i < at
      BY <1>4, <2>2
    <3>2. job[i].dataset # W.dataset /\ job[i].dataset \in Datasets
      BY <1>1, <1>3, <2>2, OtherDatasets
    <3> QED
      BY <1>1, <1>2, <1>7, <3>1, <3>2, DoneKept DEF DoneInv
  <2> QED
    BY <2>1, <2>2
<1> QED
  BY <1>10, <1>11, <1>12, <1>13, <1>14, <1>17 DEF WritesInv

-----------------------------------------------------------------------------
(* The theorems. *)

LEMMA StutterStep == WritesInv /\ UNCHANGED vars => WritesInv'
<1> SUFFICES ASSUME WritesInv, UNCHANGED vars PROVE WritesInv'
  OBVIOUS
<1>1. UNCHANGED <<disk, writes, job, at, step, staged, part, before, cut>>
  BY DEF vars
<1>2. W' = W /\ Highest' = Highest /\ (\A w : Expected(w)' = Expected(w))
      /\ (\A d : Removing(d)' = Removing(d)) /\ (\A d : Unreached(d)' = Unreached(d))
  BY <1>1 DEF W, Highest, Ended, Expected, Given, Removing, Unreached, Waiting, Keyed
<1>3. TypeOK' /\ JobInv'
  BY <1>1 DEF WritesInv, TypeOK, JobInv
<1>4. PartsInv' /\ ModeInv'
  BY <1>1, <1>2 DEF WritesInv, PartsInv, ModeInv, Keyed
<1>5. BeforeInv' /\ StagedInv' /\ DoneInv'
  BY <1>1, <1>2, DoneKept DEF WritesInv, BeforeInv, StagedInv, DoneInv, Keyed
<1> QED
  BY <1>3, <1>4, <1>5 DEF WritesInv

\* The invariant holds in every state of every sequence of jobs.
THEOREM WritesInvariant == Spec => []WritesInv
<1>1. Init => WritesInv
  BY InitStep
<1>2. WritesInv /\ [Next]_vars => WritesInv'
  BY StartStep, FailStep, MergeStep, SkipMergeStep, ReplaceStep, RemovePartStep,
     RemoveDirectoryStep, CreateStep, CopyStep, FailCopyStep, KillStep, StutterStep DEF Next
<1> QED
  BY <1>1, <1>2, PTL DEF Spec

\* TypeOK: the state keeps its types; no dataset has more parts than the jobs wrote.
THEOREM DatasetTypes == Spec => []TypeOK
<1>1. WritesInv => TypeOK
  BY DEF WritesInv
<1> QED
  BY <1>1, WritesInvariant, PTL

LEMMA SameRowsRefl == ASSUME NEW s PROVE SameRows(s, s)
BY DEF SameRows

\* SuccessIsExact: a job that succeeds has given every dataset it wrote what the mode of
\* the write says, of the datasets as they were when the job started; an append to a dataset
\* that a kill left partly removed has kept every part but the one that has its number.
THEOREM SuccessCorrect == Spec => []SuccessIsExact
<1>1. WritesInv => SuccessIsExact
  <2> SUFFICES ASSUME WritesInv, step = "succeeded", WritesOnce(job), NEW i \in DOMAIN job
               PROVE  CarriedOut(job[i])
    BY DEF SuccessIsExact
  <2>1. JobInv /\ DoneInv /\ TypeOK
    BY DEF WritesInv
  <2>2. job # <<>> /\ job \in Seq(Writes)
    BY <2>1, JobsAssumption DEF TypeOK
  <2>3. i < at
    BY <2>1, <2>2 DEF JobInv
  <2>4. Done(job[i])
    BY <2>1, <2>3 DEF DoneInv
  <2> QED
    BY <2>4, SameRowsRefl DEF Done, CarriedOut, Expected
<1> QED
  BY <1>1, WritesInvariant, PTL

\* KeyedWritesAreWhole: when a job fails, the dataset of a keyed write holds what the write
\* says if the job had come past it, and is as it was if it had not.
THEOREM KeyedFailureCorrect == Spec => []KeyedWritesAreWhole
<1>1. WritesInv => KeyedWritesAreWhole
  <2> SUFFICES ASSUME WritesInv, step = "failed", WritesOnce(job), NEW i \in DOMAIN job,
                      Keyed(job[i])
               PROVE  \/ i < at /\ SameRows(Content(disk[job[i].dataset]), Expected(job[i]))
                      \/ i >= at /\ disk[job[i].dataset] = before[job[i].dataset]
    BY DEF KeyedWritesAreWhole, Expected
  <2>1. JobInv /\ BeforeInv /\ TypeOK /\ DoneInv
    BY DEF WritesInv
  <2>2. job # <<>> /\ at \in Nat
    BY <2>1 DEF JobInv, TypeOK
  <2>3. job \in Seq(Writes)
    BY <2>1, <2>2, JobsAssumption DEF TypeOK
  <2>4. job[i] \in Writes /\ i \in Nat
    BY <2>3
  <2>5. job[i].dataset \in Datasets /\ at \in Nat /\ i \in Nat
    BY <2>2, <2>4 DEF Writes
  <2>6. CASE i < at
    <3>1. Done(job[i]) /\ job[i].mode # "append"
      BY <2>1, <2>6 DEF DoneInv, Keyed
    <3>2. Content(disk[job[i].dataset]) = Expected(job[i])
      BY <3>1 DEF Done
    <3> QED
      BY <2>6, <3>2, SameRowsRefl
  <2>7. CASE i >= at
    <3>1. Unreached(job[i].dataset)
      <4> SUFFICES ASSUME NEW k \in DOMAIN job, job[k].dataset = job[i].dataset
                   PROVE  k > at \/ (k = at /\ Waiting)
        BY DEF Unreached
      <4>1. k = i
        BY DEF WritesOnce
      <4>2. i = at => Waiting
        BY DEF Waiting, W
      <4> QED
        BY <2>5, <2>7, <4>1, <4>2
    <3> QED
      BY <2>1, <2>5, <2>7, <3>1 DEF BeforeInv
  <2> QED
    BY <2>5, <2>6, <2>7
<1> QED
  BY <1>1, WritesInvariant, PTL

LEMMA UnchangedKept == ASSUME disk' = disk PROVE Kept
BY DEF Kept

LEMMA PutKept ==
  ASSUME WritesInv, step = "copy", NEW rows \in Seq(Rows), PutPart(rows)
  PROVE  Kept
<1> SUFFICES ASSUME ~Ended, W.mode \in {"append", "error_if_exists"}
             PROVE  /\ \A k \in DOMAIN disk[W.dataset].parts :
                         /\ k \in DOMAIN disk'[W.dataset].parts
                         /\ \/ disk'[W.dataset].parts[k] = disk[W.dataset].parts[k]
                            \/ /\ W.mode = "append" /\ W.dataset \in cut
                               /\ k = Cardinality(DOMAIN disk[W.dataset].parts)
                    /\ ~(W.mode = "error_if_exists" /\ before[W.dataset].exists /\ WritesOnce(job))
  BY DEF Kept
<1>1. TypeOK /\ JobInv /\ PartsInv /\ ModeInv /\ BeforeInv
  BY DEF WritesInv
<1>2. part = Cardinality(DOMAIN disk[W.dataset].parts) /\ part \in Nat
      /\ (W.dataset \notin cut => DOMAIN disk[W.dataset].parts = 0 .. part - 1)
      /\ (W.mode # "append" => DOMAIN disk[W.dataset].parts = {})
  BY <1>1 DEF PartsInv, ModeInv, TypeOK
<1>3. \A k \in DOMAIN disk[W.dataset].parts :
        k # part \/ (W.mode = "append" /\ W.dataset \in cut)
  BY <1>2
<1>4. /\ DOMAIN disk'[W.dataset].parts = DOMAIN disk[W.dataset].parts \cup {part}
      /\ \A i \in DOMAIN disk[W.dataset].parts :
           i # part => disk'[W.dataset].parts[i] = disk[W.dataset].parts[i]
  BY <1>1, Put
<1>5. ~(W.mode = "error_if_exists" /\ before[W.dataset].exists /\ WritesOnce(job))
  BY <1>1 DEF BeforeInv
<1> QED
  BY <1>2, <1>3, <1>4, <1>5

LEMMA CreateKept == WritesInv /\ Create => Kept
<1> SUFFICES ASSUME WritesInv, Create PROVE Kept
  OBVIOUS
<1>1. step = "create" /\ disk' = [disk EXCEPT ![W.dataset].exists = TRUE]
  BY DEF Create
<1>2. TypeOK /\ JobInv /\ BeforeInv /\ ~Ended
  BY <1>1 DEF WritesInv, Ended
<1>3. W.dataset \in Datasets /\ DOMAIN disk = Datasets
  <2>1. W.dataset \in Datasets
    BY <1>2, AtAWrite
  <2>2. DOMAIN disk = Datasets
    BY <1>2, Zenon DEF TypeOK, IsDisk
  <2> QED
    BY <2>1, <2>2
<1>4. disk'[W.dataset] = [disk[W.dataset] EXCEPT !.exists = TRUE]
  BY <1>1, <1>3
<1>5. disk[W.dataset] = [exists |-> disk[W.dataset].exists, parts |-> disk[W.dataset].parts]
  BY <1>2, <1>3, DiskTyped DEF TypeOK
<1>6. disk'[W.dataset].parts = disk[W.dataset].parts
  BY <1>4, <1>5, DirectoryMade
<1>7. ~(W.mode = "error_if_exists" /\ before[W.dataset].exists /\ WritesOnce(job))
  BY <1>1, <1>2 DEF BeforeInv
<1> QED
  BY <1>6, <1>7 DEF Kept

\* ExistingPartsAreKept: append never removes a part, and changes none but, in a dataset that
\* a kill left partly removed, the one numbered by the count of the parts; error_if_exists
\* writes nothing where there is something.
THEOREM ExistingPartsCorrect == Spec => ExistingPartsAreKept
<1>1. WritesInv /\ [Next]_vars => Kept
  <2> SUFFICES ASSUME WritesInv, [Next]_vars PROVE Kept
    OBVIOUS
  <2>1. CASE Ended
    BY <2>1 DEF Kept
  <2>2. CASE UNCHANGED vars \/ disk' = disk
    BY <2>2, UnchangedKept DEF vars
  <2>3. CASE RemovePart \/ RemoveDirectory
    <3>1. step = "remove"
      BY <2>3 DEF RemovePart, RemoveDirectory
    <3>2. W.mode # "append" /\ W.mode # "error_if_exists"
      BY <3>1 DEF WritesInv, ModeInv, Keyed
    <3> QED
      BY <3>2 DEF Kept
  <2>4. CASE Create
    BY <2>4, CreateKept
  <2>5. ASSUME ~Ended PROVE staged \in Seq(Rows) /\ Relation(W) \in Seq(Rows)
    BY <2>5, AtAWrite, RelationTyped DEF WritesInv, TypeOK
  <2>6. CASE Copy
    <3>1. step = "copy" /\ PutPart(IF Keyed(W) THEN staged ELSE Relation(W))
      BY <2>6 DEF Copy
    <3>2. ~Ended
      BY <3>1 DEF Ended
    <3>3. (IF Keyed(W) THEN staged ELSE Relation(W)) \in Seq(Rows)
      BY <2>5, <3>2
    <3> QED
      BY <3>1, <3>3, PutKept
  <2>7. CASE FailCopy /\ disk' # disk
    <3>1. step = "copy" /\ \E n \in 0 .. Len(Relation(W)) - 1 : PutPart(SubSeq(Relation(W), 1, n))
      BY <2>7 DEF FailCopy
    <3>2. ~Ended
      BY <3>1 DEF Ended
    <3>3. PICK n \in 0 .. Len(Relation(W)) - 1 : PutPart(SubSeq(Relation(W), 1, n))
      BY <3>1
    <3>4. SubSeq(Relation(W), 1, n) \in Seq(Rows)
      BY <2>5, <3>2, FirstRows
    <3> QED
      BY <3>1, <3>3, <3>4, PutKept
  <2>8. CASE Kill /\ disk' # disk
    <3> DEFINE rows == IF Keyed(W) THEN staged ELSE Relation(W)
    <3>1. ~Ended /\ step = "copy" /\ \E n \in 0 .. Len(rows) - 1 : PutPart(SubSeq(rows, 1, n))
      BY <2>8 DEF Kill
    <3>2. rows \in Seq(Rows)
      BY <2>5, <3>1
    <3> HIDE DEF rows
    <3>3. PICK n \in 0 .. Len(rows) - 1 : PutPart(SubSeq(rows, 1, n))
      BY <3>1
    <3>4. SubSeq(rows, 1, n) \in Seq(Rows)
      BY <3>2, FirstRows
    <3> QED
      BY <3>1, <3>3, <3>4, PutKept
  <2>9. CASE FailBefore \/ RejectDuplicates \/ Merge \/ SkipMerge \/ RefuseExisting \/ Replace
    <3>1. disk' = disk
      BY <2>9 DEF FailBefore, RejectDuplicates, Merge, SkipMerge, RefuseExisting, Replace, Fail
    <3> QED
      BY <3>1, UnchangedKept
  <2>10. CASE Start
    BY <2>1, <2>10 DEF Start
  <2> QED
    BY <2>2, <2>3, <2>4, <2>6, <2>7, <2>8, <2>9, <2>10 DEF Next
<1>2. Spec => []WritesInv
  BY WritesInvariant
<1>3. Spec => [][Kept]_vars
  BY <1>1, <1>2, PTL DEF Spec
<1> QED
  BY <1>3 DEF ExistingPartsAreKept
=============================================================================

--------------------------- MODULE ConversionProofs ---------------------------
(***************************************************************************)
(* Proofs about Conversion and PluginRegistry, for every environment of    *)
(* plug-ins, every set of requests and every bound on the conversions: an  *)
(* identifier keeps its first class, a plan on disk never launches a job   *)
(* that is not there, and a summary vouches for its conversion.            *)
(*                                                                         *)
(* Two facts carry the results about the disk.  One is about the order of  *)
(* the files: where FlattenSeq puts the package of a target, and that in   *)
(* it every text precedes the plan.  The other is the invariant of the     *)
(* current conversion: its files on disk are exactly the first ones of     *)
(* that order, whole.                                                      *)
(***************************************************************************)
EXTENDS Conversion, WellFoundedInduction, TLAPS

-----------------------------------------------------------------------------
(* Sequences. *)

\* The elements of a concatenation.
LEMMA ConcatElements ==
  ASSUME NEW S, NEW x \in Seq(S), NEW y \in Seq(S)
  PROVE  /\ x \o y \in Seq(S)
         /\ Len(x \o y) = Len(x) + Len(y)
         /\ \A p \in 1 .. Len(x) : (x \o y)[p] = x[p]
         /\ \A m \in 1 .. Len(y) : (x \o y)[Len(x) + m] = y[m]
OBVIOUS

LEMMA ConcatSet ==
  ASSUME NEW S, NEW x \in Seq(S), NEW y \in Seq(S)
  PROVE  ToSet(x \o y) = ToSet(x) \cup ToSet(y)
<1>1. /\ DOMAIN x = 1 .. Len(x) /\ DOMAIN y = 1 .. Len(y) /\ DOMAIN (x \o y) = 1 .. Len(x \o y)
      /\ Len(x) \in Nat /\ Len(y) \in Nat
  BY ConcatElements
<1>2. \A p \in 1 .. Len(x) + Len(y) : p \in 1 .. Len(x)
        \/ (p - Len(x) \in 1 .. Len(y) /\ p = Len(x) + (p - Len(x)))
  BY <1>1
<1>3. \A m \in 1 .. Len(y) : Len(x) + m \in 1 .. Len(x) + Len(y)
  BY <1>1
<1>4. \A m \in 1 .. Len(x) : m \in 1 .. Len(x) + Len(y)
  BY <1>1
<1>5. /\ \A p \in 1 .. Len(x) : (x \o y)[p] = x[p]
      /\ \A m \in 1 .. Len(y) : (x \o y)[Len(x) + m] = y[m]
      /\ Len(x \o y) = Len(x) + Len(y)
  BY ConcatElements
<1>6. ASSUME NEW v, v \in ToSet(x \o y) PROVE v \in ToSet(x) \cup ToSet(y)
  <2>1. PICK p \in 1 .. Len(x) + Len(y) : v = (x \o y)[p]
    BY <1>1, <1>5, <1>6 DEF ToSet
  <2> QED BY <1>1, <1>2, <1>5, <2>1 DEF ToSet
<1>7. ASSUME NEW v, v \in ToSet(x) \cup ToSet(y) PROVE v \in ToSet(x \o y)
  <2>1. CASE v \in ToSet(x)
    <3>1. PICK p \in 1 .. Len(x) : v = x[p]
      BY <1>1, <2>1 DEF ToSet
    <3> QED BY <1>1, <1>4, <1>5, <3>1 DEF ToSet
  <2>2. CASE v \in ToSet(y)
    <3>1. PICK m \in 1 .. Len(y) : v = y[m]
      BY <1>1, <2>2 DEF ToSet
    <3> QED BY <1>1, <1>3, <1>5, <3>1 DEF ToSet
  <2> QED BY <1>7, <2>1, <2>2
<1> QED
  BY <1>6, <1>7

\* A sequence over a set is one over its own elements.
LEMMA OwnElements ==
  ASSUME NEW S, NEW s \in Seq(S)
  PROVE  /\ s \in Seq(ToSet(s))
         /\ DOMAIN s = 1 .. Len(s)
         /\ Len(s) \in Nat
         /\ \A i \in 1 .. Len(s) : s[i] \in ToSet(s)
<1>1. DOMAIN s = 1 .. Len(s) /\ Len(s) \in Nat
  OBVIOUS
<1>2. \A i \in 1 .. Len(s) : s[i] \in ToSet(s)
  BY <1>1 DEF ToSet
<1> QED
  BY <1>1, <1>2

\* Induction up to N: a set that holds 0, and n with n - 1, holds all numbers up to N.
LEMMA UpTo ==
  ASSUME NEW N \in Nat, NEW G, 0 \in G, \A n \in 1 .. N : n - 1 \in G => n \in G
  PROVE  \A n \in 0 .. N : n \in G
<1> DEFINE Less == {ss \in Nat \X Nat : ss[1] < ss[2]}
           Bad  == {n \in 0 .. N : n \notin G}
<1>1. IsWellFoundedOn(Less, Nat)
  BY NatLessThanWellFounded DEF OpToRel
<1>2. SUFFICES ASSUME Bad # {} PROVE FALSE
  OBVIOUS
<1>3. Bad \subseteq Nat
  OBVIOUS
<1>4. PICK x \in Bad : \A y \in Bad : ~ (<<y, x>> \in Less)
  <2> HIDE DEF Less, Bad
  <2> QED BY <1>1, <1>2, <1>3, WFMin, Zenon
<1>5. x \in 1 .. N /\ x - 1 \in 0 .. N /\ <<x - 1, x>> \in Less
  BY <1>4
<1> QED
  BY <1>4, <1>5

\* f[i] is the concatenation of the first i sequences of s.
Adds(f, s) == \A i \in DOMAIN f : f[i] = IF i = 1 THEN s[1] ELSE f[i - 1] \o s[i]

\* The function by which FlattenSeq is defined exists.
LEMMA FlattenDefined ==
  ASSUME NEW S, NEW s \in Seq(Seq(S)), s # <<>>
  PROVE  \E f \in [1 .. Len(s) -> Seq(S)] : Adds(f, s) /\ FlattenSeq(s) = f[Len(s)]
<1> DEFINE N == Len(s)
           G == {n \in Nat : n <= N => \E f \in [1 .. n -> Seq(S)] : Adds(f, s)}
<1>1. N \in Nat /\ N # 0 /\ \A i \in 1 .. N : s[i] \in Seq(S)
  OBVIOUS
<1>2. 0 \in G
  <2>1. [i \in 1 .. 0 |-> s[i]] \in [1 .. 0 -> Seq(S)] /\ Adds([i \in 1 .. 0 |-> s[i]], s)
    BY DEF Adds
  <2> QED BY <2>1
<1>3. ASSUME NEW n \in 1 .. N, n - 1 \in G PROVE n \in G
  <2>1. PICK f \in [1 .. n - 1 -> Seq(S)] : Adds(f, s)
    BY <1>3, <1>1
  <2> DEFINE h == IF n = 1 THEN s[1] ELSE f[n - 1] \o s[n]
             g == [i \in 1 .. n |-> IF i = n THEN h ELSE f[i]]
  <2>2. h \in Seq(S)
    <3>1. CASE n = 1
      BY <3>1, <1>1
    <3>2. CASE n # 1
      <4>1. f[n - 1] \in Seq(S) /\ s[n] \in Seq(S)
        BY <3>2, <1>1
      <4> QED BY <3>2, <4>1
    <3> QED BY <3>1, <3>2
  <2>3. g \in [1 .. n -> Seq(S)]
    BY <2>1, <2>2
  <2>4. Adds(g, s)
    <3> SUFFICES ASSUME NEW i \in 1 .. n
                 PROVE  g[i] = IF i = 1 THEN s[1] ELSE g[i - 1] \o s[i]
      BY DEF Adds
    <3>1. CASE i = n
      <4>1. n # 1 => g[n - 1] = f[n - 1]
        OBVIOUS
      <4> QED BY <3>1, <4>1
    <3>2. CASE i # n
      <4>1. i \in 1 .. n - 1 /\ g[i] = f[i] /\ (i # 1 => g[i - 1] = f[i - 1])
        BY <3>2
      <4> HIDE DEF g
      <4> QED BY <4>1, <2>1 DEF Adds
    <3> QED BY <3>1, <3>2
  <2>5. n \in Nat
    BY <1>1
  <2> HIDE DEF g
  <2> QED
    BY <2>3, <2>4, <2>5
<1>4. N \in G
  <2>1. \A n \in 0 .. N : n \in G
    <3> HIDE DEF G, N
    <3> QED BY <1>1, <1>2, <1>3, UpTo
  <2> QED BY <1>1, <2>1
<1>5. PICK f \in [1 .. N -> Seq(S)] : Adds(f, s)
  BY <1>4, <1>1
<1> DEFINE Rec(h) == h = [i \in 1 .. N |-> IF i = 1 THEN s[i] ELSE h[i - 1] \o s[i]]
           c == CHOOSE h : Rec(h)
<1>6. Rec(f)
  BY <1>5 DEF Adds
<1>7. Rec(c)
  <2> HIDE DEF Rec
  <2> QED BY <1>6
<1>8. FlattenSeq(s) = c[N]
  BY <1>1 DEF FlattenSeq
<1>9. \A n \in 1 .. N : c[n] = f[n]
  <2> DEFINE H == {k \in Nat : k = 0 \/ c[k] = f[k]}
  <2>1. 0 \in H
    OBVIOUS
  <2>2. ASSUME NEW n \in 1 .. N, n - 1 \in H PROVE n \in H
    <3>1. c[n] = IF n = 1 THEN s[n] ELSE c[n - 1] \o s[n]
      <4> HIDE DEF c
      <4> QED BY <1>7
    <3>2. f[n] = IF n = 1 THEN s[n] ELSE f[n - 1] \o s[n]
      BY <1>6
    <3>3. n \in Nat /\ (n = 1 \/ c[n - 1] = f[n - 1])
      <4> HIDE DEF c
      <4> QED BY <2>2, <1>1
    <3> HIDE DEF c
    <3> QED BY <3>1, <3>2, <3>3
  <2> HIDE DEF H
  <2>3. \A n \in 0 .. N : n \in H
    BY <1>1, <2>1, <2>2, UpTo
  <2>4. \A n \in 1 .. N : n # 0 /\ n \in 0 .. N
    BY <1>1
  <2> HIDE DEF c, N
  <2> QED BY <2>3, <2>4 DEF H
<1>10. c[N] = f[N]
  <2>1. N \in 1 .. N
    BY <1>1
  <2> HIDE DEF c, N
  <2> QED BY <2>1, <1>9
<1> QED
  BY <1>5, <1>8, <1>10

\* The sequences of s make up F, one after the other: o[i] elements come before the i-th.
Placed(F, s, o) ==
  /\ \A i \in 1 .. Len(s) : \A m \in 1 .. Len(s[i]) : o[i] + m \in 1 .. Len(F) /\ F[o[i] + m] = s[i][m]
  /\ \A p \in 1 .. Len(F) : \E i \in 1 .. Len(s) : \E m \in 1 .. Len(s[i]) : p = o[i] + m

LEMMA FlattenOffsets ==
  ASSUME NEW S, NEW s \in Seq(Seq(S))
  PROVE  /\ FlattenSeq(s) \in Seq(S)
         /\ \E o \in [1 .. Len(s) -> Nat] : Placed(FlattenSeq(s), s, o)
<1>1. CASE s = <<>>
  <2>1. FlattenSeq(s) = <<>>
    BY <1>1 DEF FlattenSeq
  <2> DEFINE z == [i \in 1 .. Len(s) |-> 0]
  <2>2. z \in [1 .. Len(s) -> Nat]
    OBVIOUS
  <2>3. /\ Len(s) = 0
        /\ Len(FlattenSeq(s)) = 0
        /\ FlattenSeq(s) \in Seq(S)
    <3>1. <<>> \in Seq(S) /\ Len(<<>>) = 0
      OBVIOUS
    <3> QED BY <1>1, <2>1, <3>1
  <2> HIDE DEF z
  <2>4. Placed(FlattenSeq(s), s, z)
    BY <2>3 DEF Placed
  <2> QED
    BY <2>2, <2>3, <2>4
<1>2. CASE s # <<>>
  <2> DEFINE N == Len(s)
  <2>1. N \in Nat /\ N # 0 /\ \A i \in 1 .. N : s[i] \in Seq(S)
    BY <1>2
  <2>2. PICK f \in [1 .. N -> Seq(S)] : Adds(f, s) /\ FlattenSeq(s) = f[N]
    BY <1>2, FlattenDefined
  <2> DEFINE o == [i \in 1 .. N |-> IF i = 1 THEN 0 ELSE Len(f[i - 1])]
             Covers(n) ==
               /\ \A i \in 1 .. n : \A m \in 1 .. Len(s[i]) :
                    o[i] + m \in 1 .. Len(f[n]) /\ f[n][o[i] + m] = s[i][m]
               /\ \A p \in 1 .. Len(f[n]) : \E i \in 1 .. n : \E m \in 1 .. Len(s[i]) : p = o[i] + m
             G == {n \in Nat : n = 0 \/ Covers(n)}
  <2>3. o \in [1 .. N -> Nat]
    BY <2>1, <2>2
  <2>4. 0 \in G
    OBVIOUS
  <2>5. ASSUME NEW n \in 1 .. N, n - 1 \in G PROVE n \in G
    <3>0. f[n] \in Seq(S) /\ s[n] \in Seq(S)
      BY <2>1, <2>2
    <3>1. CASE n = 1
      <4>1. f[1] = s[1] /\ o[1] = 0
        <5>1. 1 \in 1 .. N
          BY <2>1
        <5> QED BY <5>1, <2>2 DEF Adds
      <4> HIDE DEF o
      <4> QED BY <3>0, <3>1, <4>1
    <3>2. CASE n # 1
      <4> DEFINE a == f[n - 1]
                 b == s[n]
      <4>1. a \in Seq(S) /\ b \in Seq(S) /\ f[n] = a \o b /\ o[n] = Len(a)
        <5>1. n - 1 \in 1 .. N /\ n \in 1 .. N
          BY <2>1, <3>2
        <5>2. f[n] = f[n - 1] \o s[n]
          BY <5>1, <2>2, <3>2 DEF Adds
        <5>3. o[n] = Len(f[n - 1])
          BY <5>1, <3>2
        <5>4. f[n - 1] \in Seq(S) /\ s[n] \in Seq(S)
          BY <5>1, <2>1, <2>2
        <5> QED BY <5>2, <5>3, <5>4
      <4>2. Covers(n - 1)
        <5>1. n - 1 # 0
          BY <2>1, <3>2
        <5> HIDE DEF Covers
        <5> QED BY <5>1, <2>5
      <4>3. /\ Len(f[n]) = Len(a) + Len(b)
            /\ \A p \in 1 .. Len(a) : f[n][p] = a[p]
            /\ \A m \in 1 .. Len(b) : f[n][Len(a) + m] = b[m]
        <5> HIDE DEF o, a, b
        <5> QED BY <4>1, ConcatElements
      <4>4. Len(a) \in Nat /\ Len(b) \in Nat
        BY <4>1
      <4>5. ASSUME NEW i \in 1 .. n, NEW m \in 1 .. Len(s[i])
            PROVE  o[i] + m \in 1 .. Len(f[n]) /\ f[n][o[i] + m] = s[i][m]
        <5>1. CASE i = n
          <6>1. m \in 1 .. Len(b) /\ o[i] = Len(a)
            BY <4>1, <4>5, <5>1
          <6> HIDE DEF o, a, b
          <6>2. o[i] + m \in 1 .. Len(f[n])
            BY <6>1, <4>3, <4>4
          <6>3. f[n][o[i] + m] = b[m]
            BY <6>1, <4>3
          <6> QED BY <6>2, <6>3, <5>1 DEF b
        <5>2. CASE i # n
          <6>1. o[i] + m \in 1 .. Len(a) /\ a[o[i] + m] = s[i][m]
            <7>1. i \in 1 .. n - 1
              BY <2>1, <5>2
            <7> HIDE DEF o
            <7> QED BY <4>2, <4>5, <7>1
          <6> HIDE DEF o, a, b
          <6> QED BY <6>1, <4>3, <4>4
        <5> QED BY <5>1, <5>2
      <4>6. ASSUME NEW p \in 1 .. Len(f[n])
            PROVE  \E i \in 1 .. n : \E m \in 1 .. Len(s[i]) : p = o[i] + m
        <5>1. CASE p <= Len(a)
          <6> HIDE DEF o
          <6>1. PICK i \in 1 .. n - 1 : \E m \in 1 .. Len(s[i]) : p = o[i] + m
            BY <4>2, <4>4, <4>6, <5>1
          <6> QED BY <6>1
        <5>2. CASE ~ (p <= Len(a))
          <6>1. p - Len(a) \in 1 .. Len(s[n]) /\ o[n] = Len(a)
            <7> HIDE DEF o, a
            <7> QED BY <4>1, <4>3, <4>4, <4>6, <5>2
          <6>2. p = o[n] + (p - Len(a))
            <7> HIDE DEF o, a
            <7> QED BY <6>1, <4>4
          <6>3. n \in 1 .. n
            BY <2>1
          <6> HIDE DEF o, a
          <6> QED BY <6>1, <6>2, <6>3
        <5> QED BY <5>1, <5>2
      <4> HIDE DEF o
      <4>7. Covers(n)
        BY <4>5, <4>6
      <4>8. n \in Nat
        BY <2>1
      <4> HIDE DEF Covers
      <4> QED
        BY <4>7, <4>8
    <3> QED BY <3>1, <3>2
  <2>6. Covers(N)
    <3> HIDE DEF G
    <3>1. \A n \in 0 .. N : n \in G
      <4> HIDE DEF N
      <4> QED BY <2>1, <2>4, <2>5, UpTo
    <3>2. N \in 0 .. N
      BY <2>1
    <3> HIDE DEF Covers
    <3> HIDE DEF N
    <3> QED BY <3>1, <3>2, <2>1 DEF G
  <2>7. FlattenSeq(s) \in Seq(S)
    BY <2>1, <2>2
  <2>8. FlattenSeq(s) = f[N]
    BY <2>2
  <2> DEFINE F == FlattenSeq(s)
  <2>9. \A i \in 1 .. Len(s) : \A m \in 1 .. Len(s[i]) :
          o[i] + m \in 1 .. Len(F) /\ F[o[i] + m] = s[i][m]
    <3> HIDE DEF o
    <3> QED BY <2>6, <2>8
  <2>10. \A p \in 1 .. Len(F) : \E i \in 1 .. Len(s) : \E m \in 1 .. Len(s[i]) : p = o[i] + m
    <3> HIDE DEF o
    <3> QED BY <2>6, <2>8
  <2> HIDE DEF o
  <2>11. Placed(F, s, o)
    BY <2>9, <2>10 DEF Placed
  <2> HIDE DEF F
  <2> QED
    BY <2>3, <2>7, <2>11 DEF F
<1> QED
  BY <1>1, <1>2
-----------------------------------------------------------------------------
(* The registry. *)

Entries == EntriesOf(installed)
Loaded  == Len(Entries) - Len(pending)
ClassOf(group, i) == installed[group][i].cls
NameOf(group, i)  == installed[group][i].name

\* Where the entry points of a group start in the order of discover, and which have been read.
Offset(group) == IF group = "sources" THEN 0 ELSE Len(installed["sources"])
HasRead(group, i) == Offset(group) + i <= Loaded

\* The first entry point of its group with a sound class of this identifier.
Sound(group, i) == Conforms(group, ClassOf(group, i))
IsFirst(group, i) ==
  /\ Sound(group, i)
  /\ \A n \in DOMAIN installed[group] :
       n < i /\ Sound(group, n) => ClassOf(group, n).id # ClassOf(group, i).id

Discovering ==
  /\ installed \in Installed
  /\ DOMAIN registered = Groups
  /\ pending \in Seq(ToSet(Entries))
  /\ Len(pending) <= Len(Entries)
  /\ \A m \in 1 .. Len(pending) : pending[m] = Entries[Loaded + m]

\* Every entry point read is registered or among the errors, and a sound one leaves its
\* identifier registered.
AllTold ==
  \A group \in Groups : \A i \in DOMAIN installed[group] : HasRead(group, i) =>
    LET cls == ClassOf(group, i)
    IN  /\ \/ <<group, NameOf(group, i)>> \in errors
           \/ /\ Sound(group, i)
              /\ cls.id \in DOMAIN registered[group]
              /\ registered[group][cls.id] = cls
        /\ Sound(group, i) => cls.id \in DOMAIN registered[group]

\* Every identifier registered has the class of the first entry point for it, or was added by
\* hand when all entry points had been read and none was for it.
FromFirst(group, id) ==
  \E i \in DOMAIN installed[group] :
    /\ HasRead(group, i)
    /\ IsFirst(group, i)
    /\ id = ClassOf(group, i).id
    /\ registered[group][id] = ClassOf(group, i)
FromHand(group, id) ==
  /\ pending = <<>>
  /\ \E plugin \in ByHand : plugin.group = group /\ plugin.cls.id = id
  /\ \A i \in DOMAIN installed[group] : Sound(group, i) => ClassOf(group, i).id # id
AllKnown ==
  \A group \in Groups : \A id \in DOMAIN registered[group] :
    FromFirst(group, id) \/ FromHand(group, id)

RegistryInv == Discovering /\ AllTold /\ AllKnown

\* The entry points of an environment, in the order of discover.
LEMMA EntriesOrder ==
  ASSUME installed \in Installed
  PROVE  /\ Entries \in Seq(ToSet(Entries))
         /\ \A group \in Groups :
              /\ DOMAIN installed[group] = 1 .. Len(installed[group])
              /\ Len(installed[group]) \in Nat
              /\ Offset(group) \in Nat
              /\ \A i \in DOMAIN installed[group] :
                   /\ Offset(group) + i \in 1 .. Len(Entries)
                   /\ Entries[Offset(group) + i] = <<group, installed[group][i]>>
         /\ \A p \in 1 .. Len(Entries) : \E group \in Groups : \E i \in DOMAIN installed[group] :
              p = Offset(group) + i
         /\ \A g, h \in Groups : \A i \in DOMAIN installed[g] : \A j \in DOMAIN installed[h] :
              Offset(g) + i = Offset(h) + j => g = h /\ i = j
<1> DEFINE s == installed["sources"]
           t == installed["targets"]
           a == [i \in DOMAIN s |-> <<"sources", s[i]>>]
           b == [i \in DOMAIN t |-> <<"targets", t[i]>>]
           X == ({"sources"} \X ToSet(s)) \cup ({"targets"} \X ToSet(t))
<1>1. s \in Seq(ToSet(s)) /\ t \in Seq(ToSet(t))
  BY InstalledAssumption DEF Groups
<1>2. /\ Len(s) \in Nat /\ DOMAIN s = 1 .. Len(s) /\ \A i \in 1 .. Len(s) : s[i] \in ToSet(s)
      /\ Len(t) \in Nat /\ DOMAIN t = 1 .. Len(t) /\ \A i \in 1 .. Len(t) : t[i] \in ToSet(t)
  BY <1>1
<1>3. a \in Seq(X) /\ b \in Seq(X) /\ Len(a) = Len(s) /\ Len(b) = Len(t)
  BY <1>2
<1>4. Entries = a \o b
  BY DEF Entries, EntriesOf
<1>5. /\ Entries \in Seq(X)
      /\ Len(Entries) = Len(s) + Len(t)
      /\ \A i \in 1 .. Len(s) : Entries[i] = a[i]
      /\ \A i \in 1 .. Len(t) : Entries[Len(s) + i] = b[i]
  <2> HIDE DEF a, b, s, t, X
  <2>1. Entries \in Seq(X)
    BY <1>3, <1>4
  <2>2. Len(Entries) = Len(s) + Len(t)
    <3>1. Len(a \o b) = Len(a) + Len(b)
      BY <1>3, ConcatElements
    <3> QED BY <1>3, <1>4, <3>1
  <2>3. \A i \in 1 .. Len(s) : Entries[i] = a[i]
    BY <1>3, <1>4, ConcatElements
  <2>4. \A i \in 1 .. Len(t) : Entries[Len(s) + i] = b[i]
    BY <1>3, <1>4, ConcatElements
  <2> QED BY <2>1, <2>2, <2>3, <2>4
<1>6. Entries \in Seq(ToSet(Entries))
  BY <1>5, OwnElements
<1>7. /\ \A i \in 1 .. Len(s) : Entries[i] = <<"sources", s[i]>>
      /\ \A i \in 1 .. Len(t) : Entries[Len(s) + i] = <<"targets", t[i]>>
  BY <1>2, <1>5
<1> HIDE DEF a, b, X
<1>a. /\ Len(s) \in Nat /\ Len(t) \in Nat /\ Len(Entries) = Len(s) + Len(t)
  BY <1>2, <1>5
<1>b. /\ \A i \in 1 .. Len(s) : i \in 1 .. Len(Entries) /\ 0 + i = i
      /\ \A i \in 1 .. Len(t) : Len(s) + i \in 1 .. Len(Entries)
      /\ \A p \in 1 .. Len(Entries) :
           p \in 1 .. Len(s) \/ (p - Len(s) \in 1 .. Len(t) /\ p = Len(s) + (p - Len(s)))
  <2> HIDE DEF s, t
  <2> QED BY <1>a
<1>8. Offset("sources") = 0 /\ Offset("targets") = Len(s)
  BY DEF Offset
<1>9. ASSUME NEW p \in 1 .. Len(Entries)
      PROVE  \E group \in Groups : \E i \in DOMAIN installed[group] : p = Offset(group) + i
  <2>1. CASE p \in 1 .. Len(s)
    <3>1. p \in DOMAIN installed["sources"] /\ p = Offset("sources") + p
      BY <1>2, <1>8, <2>1
    <3> QED BY <3>1 DEF Groups
  <2>2. CASE p - Len(s) \in 1 .. Len(t) /\ p = Len(s) + (p - Len(s))
    <3>1. p - Len(s) \in DOMAIN installed["targets"] /\ p = Offset("targets") + (p - Len(s))
      BY <1>2, <1>8, <2>2
    <3> QED BY <3>1 DEF Groups
  <2> QED BY <1>b, <2>1, <2>2
<1>11. ASSUME NEW group \in Groups
       PROVE  /\ DOMAIN installed[group] = 1 .. Len(installed[group])
              /\ Len(installed[group]) \in Nat
              /\ Offset(group) \in Nat
              /\ \A i \in DOMAIN installed[group] :
                   /\ Offset(group) + i \in 1 .. Len(Entries)
                   /\ Entries[Offset(group) + i] = <<group, installed[group][i]>>
  <2>1. CASE group = "sources"
    BY <1>2, <1>7, <1>8, <2>1, <1>b
  <2>2. CASE group = "targets"
    BY <1>2, <1>7, <1>8, <2>2, <1>b
  <2> QED BY <2>1, <2>2 DEF Groups
<1>12. \A g, h \in Groups : \A i \in DOMAIN installed[g] : \A j \in DOMAIN installed[h] :
              Offset(g) + i = Offset(h) + j => g = h /\ i = j
  BY <1>2, <1>8 DEF Groups
<1> QED
  BY <1>6, <1>9, <1>11, <1>12


LEMMA RegistryInvInit == Init => RegistryInv
<1> SUFFICES ASSUME Init PROVE RegistryInv
  OBVIOUS
<1>1. /\ installed \in Installed
      /\ registered = [group \in Groups |-> <<>>]
      /\ pending = Entries
  BY DEF Init, RegistryInit, Entries
<1>2. Entries \in Seq(ToSet(Entries)) /\ Len(Entries) \in Nat /\ Loaded = 0
  BY <1>1, EntriesOrder DEF Loaded
<1>3. Discovering
  BY <1>1, <1>2 DEF Discovering
<1>4. \A group \in Groups : \A i \in DOMAIN installed[group] : ~ HasRead(group, i)
  BY <1>1, <1>2, EntriesOrder DEF HasRead
<1>5. \A group \in Groups : DOMAIN registered[group] = {}
  BY <1>1
<1> QED
  BY <1>3, <1>4, <1>5 DEF RegistryInv, AllTold, AllKnown

\* A class that may be added is found under its identifier afterwards; nothing else changes.
LEMMA AddedTable ==
  ASSUME NEW group \in Groups, NEW cls, DOMAIN registered = Groups, MayAdd(registered, group, cls)
  PROVE  LET table == Added(registered, group, cls)
         IN  /\ DOMAIN table = Groups
             /\ DOMAIN table[group] = DOMAIN registered[group] \cup {cls.id}
             /\ table[group][cls.id] = cls
             /\ \A id \in DOMAIN registered[group] : table[group][id] = registered[group][id]
             /\ \A g \in Groups : g # group => table[g] = registered[g]
BY DEF Added, MayAdd

LEMMA LoadStep == RegistryInv /\ LoadEntryPoint => RegistryInv'
<1> SUFFICES ASSUME RegistryInv, LoadEntryPoint PROVE RegistryInv'
  OBVIOUS
<1>1. /\ installed \in Installed /\ installed' = installed
      /\ pending # <<>> /\ pending' = Tail(pending)
      /\ Entries' = Entries
      /\ \A g : Offset(g)' = Offset(g)
  BY DEF RegistryInv, Discovering, LoadEntryPoint, Entries, Offset
<1>2. /\ Len(pending) \in Nat /\ Len(pending) # 0 /\ Len(pending') = Len(pending) - 1
      /\ pending' \in Seq(ToSet(Entries))
      /\ \A m \in 1 .. Len(pending') : pending'[m] = pending[m + 1]
      /\ Len(Entries) \in Nat /\ Len(pending) <= Len(Entries)
  BY <1>1, EntriesOrder DEF RegistryInv, Discovering
<1>3. Loaded \in Nat /\ Loaded' = Loaded + 1 /\ Loaded + 1 \in 1 .. Len(Entries)
  BY <1>1, <1>2 DEF Loaded
<1>a. PICK group \in Groups : \E i \in DOMAIN installed[group] : Loaded + 1 = Offset(group) + i
  BY <1>1, <1>3, EntriesOrder
<1>4. PICK i \in DOMAIN installed[group] : Loaded + 1 = Offset(group) + i
  BY <1>a
<1> DEFINE cls == ClassOf(group, i)
<1>5. Head(pending) = <<group, installed[group][i]>>
  <2>1. Head(pending) = pending[1] /\ pending[1] = Entries[Loaded + 1]
    BY <1>1, <1>2 DEF RegistryInv, Discovering
  <2> QED BY <1>1, <1>4, <2>1, EntriesOrder
<1>6. \A g \in Groups : \A j \in DOMAIN installed[g] :
        HasRead(g, j)' <=> HasRead(g, j) \/ (g = group /\ j = i)
  <2>1. \A g \in Groups : \A j \in DOMAIN installed[g] :
          Offset(g) + j = Loaded + 1 <=> g = group /\ j = i
    <3>1. \A g, h \in Groups : \A j \in DOMAIN installed[g] : \A k \in DOMAIN installed[h] :
            Offset(g) + j = Offset(h) + k => g = h /\ j = k
      BY <1>1, EntriesOrder
    <3> QED BY <1>4, <3>1
  <2>2. \A g \in Groups : \A j \in DOMAIN installed[g] : Offset(g) + j \in Nat
    BY <1>1, EntriesOrder
  <2>3. \A x \in Nat : x <= Loaded + 1 <=> x <= Loaded \/ x = Loaded + 1
    BY <1>3
  <2> QED BY <1>1, <1>3, <2>1, <2>2, <2>3 DEF HasRead
<1>7. ~ HasRead(group, i) /\ \A n \in DOMAIN installed[group] : HasRead(group, n) <=> n < i
  BY <1>1, <1>3, <1>4, EntriesOrder DEF HasRead
<1>8. \A g, j : /\ ClassOf(g, j)' = ClassOf(g, j) /\ NameOf(g, j)' = NameOf(g, j)
                /\ Sound(g, j)' = Sound(g, j) /\ IsFirst(g, j)' = IsFirst(g, j)
  BY <1>1 DEF ClassOf, NameOf, Sound, IsFirst
<1>9. /\ IF MayAdd(registered, group, cls)
           THEN registered' = Added(registered, group, cls) /\ errors' = errors
           ELSE registered' = registered /\ errors' = errors \cup {<<group, NameOf(group, i)>>}
  BY <1>5 DEF LoadEntryPoint, ClassOf, NameOf
<1>10. Discovering'
  <2>1. DOMAIN registered' = Groups
    BY <1>9, AddedTable DEF RegistryInv, Discovering
  <2>2. \A m \in 1 .. Len(pending') : pending'[m] = Entries[Loaded' + m]
    BY <1>1, <1>2, <1>3 DEF RegistryInv, Discovering
  <2> QED BY <1>1, <1>2, <2>1, <2>2 DEF Discovering
<1>11. \A g \in Groups : \A id \in DOMAIN registered[g] :
         id \in DOMAIN registered'[g] /\ registered'[g][id] = registered[g][id]
  BY <1>9, AddedTable DEF RegistryInv, Discovering
<1>12. \A g \in Groups : \A id \in DOMAIN registered[g] : FromFirst(g, id)
  BY <1>1 DEF RegistryInv, AllKnown, FromHand
<1>13. AllTold'
  <2> SUFFICES ASSUME NEW g \in Groups, NEW j \in DOMAIN installed[g], HasRead(g, j)'
               PROVE  /\ \/ <<g, NameOf(g, j)>> \in errors'
                         \/ /\ Sound(g, j)
                            /\ ClassOf(g, j).id \in DOMAIN registered'[g]
                            /\ registered'[g][ClassOf(g, j).id] = ClassOf(g, j)
                      /\ Sound(g, j) => ClassOf(g, j).id \in DOMAIN registered'[g]
    BY <1>1, <1>8 DEF AllTold
  <2>1. CASE HasRead(g, j)
    BY <2>1, <1>9, <1>11 DEF RegistryInv, AllTold
  <2>2. CASE g = group /\ j = i
    <3>1. CASE MayAdd(registered, group, cls)
      BY <2>2, <3>1, <1>9, AddedTable DEF RegistryInv, Discovering, Sound, MayAdd
    <3>2. CASE ~ MayAdd(registered, group, cls)
      BY <2>2, <3>2, <1>9 DEF Sound, MayAdd
    <3> QED BY <3>1, <3>2
  <2> QED BY <1>6, <2>1, <2>2
<1>14. AllKnown'
  <2> SUFFICES ASSUME NEW g \in Groups, NEW id \in DOMAIN registered'[g]
               PROVE  FromFirst(g, id)'
    BY DEF AllKnown
  <2>1. CASE id \in DOMAIN registered[g]
    <3>1. PICK j \in DOMAIN installed[g] : /\ HasRead(g, j) /\ IsFirst(g, j)
                                          /\ id = ClassOf(g, j).id
                                          /\ registered[g][id] = ClassOf(g, j)
      BY <2>1, <1>12 DEF FromFirst
    <3> QED BY <2>1, <3>1, <1>1, <1>6, <1>8, <1>11 DEF FromFirst
  <2>2. CASE id \notin DOMAIN registered[g]
    <3>1. MayAdd(registered, group, cls) /\ g = group /\ id = cls.id /\ registered'[g][id] = cls
      BY <2>2, <1>9, AddedTable DEF RegistryInv, Discovering
    <3>2. IsFirst(group, i)
      <4>1. Sound(group, i)
        BY <3>1 DEF MayAdd, Sound
      <4>2. ASSUME NEW n \in DOMAIN installed[group], n < i, Sound(group, n)
            PROVE  ClassOf(group, n).id # cls.id
        BY <4>2, <1>7, <2>2, <3>1 DEF RegistryInv, AllTold
      <4> QED BY <4>1, <4>2 DEF IsFirst
    <3>3. HasRead(group, i)'
      BY <1>6
    <3> QED BY <3>1, <3>2, <3>3, <1>1, <1>8 DEF FromFirst
  <2> QED BY <2>1, <2>2
<1> QED
  BY <1>10, <1>13, <1>14 DEF RegistryInv

LEMMA AddByHandStep == RegistryInv /\ AddByHand => RegistryInv'
<1> SUFFICES ASSUME RegistryInv, AddByHand PROVE RegistryInv'
  OBVIOUS
<1>1. /\ installed \in Installed /\ installed' = installed
      /\ pending = <<>> /\ pending' = <<>> /\ errors' = errors
      /\ Entries' = Entries /\ Loaded' = Loaded
      /\ \A g : Offset(g)' = Offset(g)
  BY DEF RegistryInv, Discovering, AddByHand, Entries, Loaded, Offset
<1>2. PICK plugin \in ByHand : /\ MayAdd(registered, plugin.group, plugin.cls)
                              /\ registered' = Added(registered, plugin.group, plugin.cls)
  BY DEF AddByHand
<1> DEFINE group == plugin.group
           cls == plugin.cls
<1>3. group \in Groups
  BY ByHandAssumption
<1>4. /\ DOMAIN registered = Groups
      /\ DOMAIN registered' = Groups
      /\ DOMAIN registered'[group] = DOMAIN registered[group] \cup {cls.id}
      /\ registered'[group][cls.id] = cls
      /\ \A g \in Groups : g # group => registered'[g] = registered[g]
      /\ \A g \in Groups : \A id \in DOMAIN registered[g] :
           id \in DOMAIN registered'[g] /\ registered'[g][id] = registered[g][id]
  BY <1>2, <1>3, AddedTable DEF RegistryInv, Discovering
<1>5. \A g, j : /\ ClassOf(g, j)' = ClassOf(g, j) /\ NameOf(g, j)' = NameOf(g, j)
                /\ Sound(g, j)' = Sound(g, j) /\ IsFirst(g, j)' = IsFirst(g, j)
                /\ HasRead(g, j)' = HasRead(g, j)
  BY <1>1 DEF ClassOf, NameOf, Sound, IsFirst, HasRead
<1>6. \A g \in Groups : \A j \in DOMAIN installed[g] : HasRead(g, j)
  <2>1. Loaded = Len(Entries) /\ Len(Entries) \in Nat
    BY <1>1, EntriesOrder DEF Loaded
  <2> QED BY <1>1, <2>1, EntriesOrder DEF HasRead
<1>7. Discovering'
  <2>1. Len(pending) = 0 /\ Len(pending') = 0
    BY <1>1
  <2> QED BY <1>1, <1>4, <2>1 DEF RegistryInv, Discovering
<1>8. AllTold'
  BY <1>1, <1>4, <1>5 DEF RegistryInv, AllTold
<1>9. AllKnown'
  <2> SUFFICES ASSUME NEW g \in Groups, NEW id \in DOMAIN registered'[g]
               PROVE  (FromFirst(g, id) \/ FromHand(g, id))'
    BY DEF AllKnown
  <2>1. CASE id \in DOMAIN registered[g]
    <3>1. FromFirst(g, id) => FromFirst(g, id)'
      BY <2>1, <1>1, <1>4, <1>5 DEF FromFirst
    <3>2. FromHand(g, id) => FromHand(g, id)'
      BY <1>1, <1>5 DEF FromHand
    <3> QED BY <2>1, <3>1, <3>2 DEF RegistryInv, AllKnown
  <2>2. CASE id \notin DOMAIN registered[g]
    <3>1. g = group /\ id = cls.id
      BY <2>2, <1>4
    <3>3. \E other \in ByHand : other.group = g /\ other.cls.id = id
      BY <3>1
    <3>2. \A j \in DOMAIN installed[g] : Sound(g, j) => ClassOf(g, j).id # id
      BY <2>2, <1>6 DEF RegistryInv, AllTold
    <3> QED BY <3>2, <3>3, <1>1, <1>5 DEF FromHand
  <2> QED BY <2>1, <2>2
<1> QED
  BY <1>7, <1>8, <1>9 DEF RegistryInv

LEMMA RegistryStep == RegistryInv /\ [Next]_vars => RegistryInv'
<1>1. ASSUME RegistryInv, UNCHANGED registryVars PROVE RegistryInv'
  <2>1. /\ installed' = installed /\ registered' = registered
        /\ errors' = errors /\ pending' = pending
    BY <1>1 DEF registryVars
  <2>2. /\ Entries' = Entries /\ Loaded' = Loaded
        /\ \A g, j : /\ ClassOf(g, j)' = ClassOf(g, j) /\ NameOf(g, j)' = NameOf(g, j)
                     /\ Sound(g, j)' = Sound(g, j) /\ IsFirst(g, j)' = IsFirst(g, j)
                     /\ HasRead(g, j)' = HasRead(g, j)
    BY <2>1 DEF Entries, Loaded, ClassOf, NameOf, Sound, IsFirst, HasRead, Offset
  <2>3. \A g, id : FromFirst(g, id)' = FromFirst(g, id) /\ FromHand(g, id)' = FromHand(g, id)
    BY <2>1, <2>2 DEF FromFirst, FromHand
  <2> QED BY <1>1, <2>1, <2>2, <2>3 DEF RegistryInv, Discovering, AllTold, AllKnown
<1> QED
  BY <1>1, LoadStep, AddByHandStep DEF Next, vars, Refuse, FailBeforeWriting, Accept, Put, Stop

LEMMA RegistryInvImplies == RegistryInv => FirstPluginWins
<1> SUFFICES ASSUME RegistryInv, pending = <<>>,
                    NEW group \in Groups, NEW i \in DOMAIN installed[group]
             PROVE  LET entries == installed[group]
                        id      == entries[i].cls.id
                        sound   == {k \in DOMAIN entries :
                                      entries[k].cls.id = id /\ Conforms(group, entries[k].cls)}
                        first   == entries[CHOOSE k \in sound : \A n \in sound : k <= n].cls
                    IN  IF i \in sound /\ entries[i].cls = first
                        THEN id \in DOMAIN registered[group] /\ registered[group][id] = first
                        ELSE <<group, entries[i].name>> \in errors
  BY DEF FirstPluginWins
<1> DEFINE entries == installed[group]
           id == entries[i].cls.id
           sound == {k \in DOMAIN entries :
                       entries[k].cls.id = id /\ Conforms(group, entries[k].cls)}
           least == CHOOSE k \in sound : \A n \in sound : k <= n
<1>1. installed \in Installed /\ DOMAIN entries = 1 .. Len(entries) /\ Len(entries) \in Nat
  BY EntriesOrder DEF RegistryInv, Discovering
<1>2. HasRead(group, i)
  <2>1. Loaded = Len(Entries) /\ Len(Entries) \in Nat
    BY <1>1, EntriesOrder DEF Loaded
  <2> QED BY <1>1, <2>1, EntriesOrder DEF HasRead
<1>3. /\ <<group, entries[i].name>> \in errors \/ (i \in sound /\ registered[group][id] = entries[i].cls)
      /\ i \in sound => id \in DOMAIN registered[group]
  BY <1>2 DEF RegistryInv, AllTold, Sound, ClassOf, NameOf
<1>4. ASSUME i \in sound PROVE registered[group][id] = entries[least].cls
  <2>1. FromFirst(group, id)
    BY <1>3, <1>4 DEF RegistryInv, AllKnown, FromHand, Sound, ClassOf
  <2>2. PICK j \in DOMAIN entries : IsFirst(group, j) /\ id = ClassOf(group, j).id
                                   /\ registered[group][id] = ClassOf(group, j)
    BY <2>1 DEF FromFirst
  <2>3. j \in sound /\ \A n \in sound : j <= n
    BY <1>1, <2>2 DEF IsFirst, Sound, ClassOf
  <2>4. least \in sound /\ \A n \in sound : least <= n
    <3> HIDE DEF sound
    <3> QED BY <2>3
  <2>5. least = j
    <3>1. \A n \in sound : n \in Nat
      BY <1>1
    <3> HIDE DEF sound, least
    <3> QED BY <2>3, <2>4, <3>1
  <2> QED BY <2>2, <2>5 DEF ClassOf
<1> QED
  BY <1>3, <1>4
LEMMA RegisteredTargets == RegistryInv => DOMAIN registered["targets"] \subseteq TargetIds
<1> SUFFICES ASSUME RegistryInv, NEW id \in DOMAIN registered["targets"] PROVE id \in TargetIds
  OBVIOUS
<1>1. FromFirst("targets", id) \/ FromHand("targets", id)
  BY DEF RegistryInv, AllKnown, Groups
<1>2. CASE FromFirst("targets", id)
  BY <1>2, PluginsAssumption DEF RegistryInv, Discovering, FromFirst, IsFirst, Sound, ClassOf
<1>3. CASE FromHand("targets", id)
  BY <1>3, PluginsAssumption DEF FromHand
<1> QED
  BY <1>1, <1>2, <1>3
-----------------------------------------------------------------------------
(* The order in which a conversion writes its files. *)

\* What a conversion may be accepted with.
EmitsSequences(input) == \A t \in TargetIds : input.emitted[t] \in Seq(ToSet(input.emitted[t]))
JobSet == { [input |-> request.input, targets |-> list] :
              request \in Requests, list \in Seq(TargetIds) }

\* The files that a workflow plan refers to.
TextsOf(input, target) ==
  {Runtime} \cup { Launcher(df) : df \in ToSet(Emitted(input, target)) }
            \cup { Statement(df) : df \in ToSet(Emitted(input, target)) }

LEMMA JobParts ==
  ASSUME NEW job \in JobSet
  PROVE  job.targets \in Seq(TargetIds) /\ EmitsSequences(job.input)
BY RequestsAssumption DEF JobSet, EmitsSequences

LEMMA TextsOrder ==
  ASSUME NEW input, EmitsSequences(input), NEW target \in TargetIds
  PROVE  LET T == Texts(input, target)
         IN  T \in Seq(TextsOf(input, target)) /\ ToSet(T) = TextsOf(input, target)
<1> DEFINE flows == Emitted(input, target)
           F == ToSet(flows)
           TS == TextsOf(input, target)
           a == <<Runtime>>
           b == [i \in DOMAIN flows |-> Launcher(flows[i])]
           c == [i \in DOMAIN flows |-> Statement(flows[i])]
<1>1. flows \in Seq(F) /\ Len(flows) \in Nat /\ DOMAIN flows = 1 .. Len(flows)
  BY OwnElements DEF EmitsSequences, Emitted
<1>2. \A i \in DOMAIN flows : flows[i] \in F
  BY DEF ToSet
<1>3. \A f \in F : \E i \in DOMAIN flows : f = flows[i]
  BY DEF ToSet
<1>4. Runtime \in TS /\ \A f \in F : Launcher(f) \in TS /\ Statement(f) \in TS
  BY DEF TextsOf
<1>5. \A path \in TS : path = Runtime \/ \E f \in F : path = Launcher(f) \/ path = Statement(f)
  BY DEF TextsOf
<1> HIDE DEF flows, F, TS
<1>6. a \in Seq(TS) /\ ToSet(a) = {Runtime}
  BY <1>4 DEF ToSet
<1>7. b \in Seq(TS) /\ DOMAIN b = DOMAIN flows
  BY <1>1, <1>2, <1>4
<1>8. c \in Seq(TS) /\ DOMAIN c = DOMAIN flows
  BY <1>1, <1>2, <1>4
<1>9. ToSet(b) = {Launcher(f) : f \in F}
  BY <1>2, <1>3 DEF ToSet
<1>10. ToSet(c) = {Statement(f) : f \in F}
  BY <1>2, <1>3 DEF ToSet
<1>11. Texts(input, target) = (a \o b) \o c
  BY DEF Texts, flows
<1> HIDE DEF a, b, c
<1>12. a \o b \in Seq(TS) /\ ToSet(a \o b) = ToSet(a) \cup ToSet(b)
  BY <1>6, <1>7, ConcatSet, ConcatElements
<1>13. /\ Texts(input, target) \in Seq(TS)
       /\ ToSet(Texts(input, target)) = (ToSet(a) \cup ToSet(b)) \cup ToSet(c)
  <2> DEFINE e == a \o b
  <2>1. e \in Seq(TS) /\ ToSet(e) = ToSet(a) \cup ToSet(b) /\ Texts(input, target) = e \o c
    BY <1>11, <1>12
  <2> HIDE DEF e
  <2>2. ToSet(e \o c) = ToSet(e) \cup ToSet(c) /\ e \o c \in Seq(TS)
    BY <1>8, <2>1, ConcatSet, ConcatElements
  <2> QED BY <2>1, <2>2
<1>14. TS = {Runtime} \cup {Launcher(f) : f \in F} \cup {Statement(f) : f \in F}
  BY DEF TS, F, flows, TextsOf
<1> QED
  BY <1>6, <1>9, <1>10, <1>13, <1>14 DEF TS

\* The four files of the plan are none of the texts.
LEMMA PlanFilesOrder ==
  ASSUME NEW input, NEW target
  PROVE  /\ PlanFiles \in Seq(ToSet(PlanFiles)) /\ Len(PlanFiles) = 4
         /\ \A m \in 1 .. 4 : PlanFiles[m] \notin TextsOf(input, target)
         /\ \A m \in 1 .. 4 : PlanFiles[m] = WorkflowPlan <=> m = 2
<1> DEFINE Y == {""} \X {"target_plan", "workflow_plan", "bindings.example", "parameters.example"}
<1>1. PlanFiles \in Seq(Y) /\ Len(PlanFiles) = 4
  <2>1. /\ <<"", "target_plan">> \in Y /\ <<"", "workflow_plan">> \in Y
        /\ <<"", "bindings.example">> \in Y /\ <<"", "parameters.example">> \in Y
    OBVIOUS
  <2>2. ASSUME NEW a \in Y, NEW b \in Y, NEW c \in Y, NEW d \in Y
        PROVE  <<a, b, c, d>> \in Seq(Y) /\ Len(<<a, b, c, d>>) = 4
    <3> HIDE DEF Y
    <3> QED OBVIOUS
  <2> HIDE DEF Y
  <2>3. /\ << <<"", "target_plan">>, <<"", "workflow_plan">>,
              <<"", "bindings.example">>, <<"", "parameters.example">> >> \in Seq(Y)
        /\ Len(<< <<"", "target_plan">>, <<"", "workflow_plan">>,
                  <<"", "bindings.example">>, <<"", "parameters.example">> >>) = 4
    BY <2>1, <2>2, Zenon
  <2> QED BY <2>3, Zenon DEF PlanFiles, WorkflowPlan
<1>2. \A m \in 1 .. 4 : m = 1 \/ m = 2 \/ m = 3 \/ m = 4
  OBVIOUS
<1>3. /\ PlanFiles[1] = <<"", "target_plan">> /\ PlanFiles[2] = WorkflowPlan
      /\ PlanFiles[3] = <<"", "bindings.example">> /\ PlanFiles[4] = <<"", "parameters.example">>
  BY DEF PlanFiles
<1>4. ASSUME NEW path \in TextsOf(input, target)
      PROVE  path[2] = "runtime" \/ path[1] = "jobs" \/ path[1] = "sql"
  <2>1. CASE path = Runtime
    BY <2>1 DEF Runtime
  <2>2. CASE \E df : path = <<"jobs", df>>
    <3>1. PICK df : path = <<"jobs", df>>
      BY <2>2
    <3> QED BY <3>1
  <2>3. CASE \E df : path = <<"sql", df>>
    <3>1. PICK df : path = <<"sql", df>>
      BY <2>3
    <3> QED BY <3>1
  <2> QED BY <2>1, <2>2, <2>3 DEF TextsOf, Launcher, Statement
<1>5. \A m \in 1 .. 4 : PlanFiles[m][1] = "" /\ PlanFiles[m][2] # "runtime"
  <2>1. \A y \in Y : y[1] = "" /\ y[2] # "runtime"
    OBVIOUS
  <2>2. \A m \in 1 .. 4 : PlanFiles[m] \in Y
    <3> HIDE DEF Y
    <3>1. \A m \in 1 .. Len(PlanFiles) : PlanFiles[m] \in Y
      BY <1>1
    <3> QED BY <1>1, <3>1
  <2> HIDE DEF Y
  <2> QED BY <2>1, <2>2
<1>6. \A m \in 1 .. 4 : PlanFiles[m] \notin TextsOf(input, target)
  <2> SUFFICES ASSUME NEW m \in 1 .. 4, PlanFiles[m] \in TextsOf(input, target) PROVE FALSE
    OBVIOUS
  <2> DEFINE v == PlanFiles[m]
  <2>1. v[2] = "runtime" \/ v[1] = "jobs" \/ v[1] = "sql"
    BY <1>4
  <2>2. v[1] = "" /\ v[2] # "runtime"
    BY <1>5
  <2> HIDE DEF v
  <2> QED BY <2>1, <2>2
<1>7. \A m \in 1 .. 4 : PlanFiles[m] = WorkflowPlan <=> m = 2
  <2>1. <<"", "target_plan">>[2] = "target_plan" /\ <<"", "bindings.example">>[2] = "bindings.example"
        /\ <<"", "parameters.example">>[2] = "parameters.example"
    OBVIOUS
  <2>2. WorkflowPlan[2] = "workflow_plan"
    BY DEF WorkflowPlan
  <2>3. /\ PlanFiles[1][2] # WorkflowPlan[2] /\ PlanFiles[3][2] # WorkflowPlan[2]
        /\ PlanFiles[4][2] # WorkflowPlan[2]
    BY <1>3, <2>1, <2>2
  <2> QED BY <1>2, <1>3, <2>3
<1> QED
  BY <1>1, <1>6, <1>7, OwnElements

\* In the package of a target the texts come first, then the four files of the plan.
LEMMA PackageOrder ==
  ASSUME NEW input, EmitsSequences(input), NEW target \in TargetIds
  PROVE  LET P == PackageFiles(input, target)
         IN  /\ P \in Seq(ToSet(P))
             /\ \A m \in 1 .. Len(P) : P[m][1] = target
             /\ \A m \in 1 .. Len(P) : P[m] = <<target, WorkflowPlan>> => m = Len(P) - 2
             /\ \A path \in TextsOf(input, target) :
                  /\ \E m \in 1 .. Len(P) : P[m] = <<target, path>>
                  /\ \A m \in 1 .. Len(P) : P[m] = <<target, path>> => m < Len(P) - 2
<1> DEFINE T == Texts(input, target)
           TS == TextsOf(input, target)
           X == TS \cup ToSet(PlanFiles)
           all == T \o PlanFiles
           t == Len(T)
           P == At(target, all)
<1>1. /\ T \in Seq(TS) /\ ToSet(T) = TS
      /\ t \in Nat /\ DOMAIN T = 1 .. t
      /\ \A m \in 1 .. t : T[m] \in TS
  <2>1. T \in Seq(TS) /\ ToSet(T) = TS
    BY TextsOrder
  <2> HIDE DEF T, TS
  <2> QED BY <2>1, OwnElements
<1>2. \A path \in TS : \E m \in 1 .. t : T[m] = path
  BY <1>1 DEF ToSet
<1>3. PlanFiles \in Seq(ToSet(PlanFiles)) /\ Len(PlanFiles) = 4
  BY PlanFilesOrder
<1>4. /\ \A m \in 1 .. 4 : PlanFiles[m] \notin TS
      /\ \A m \in 1 .. 4 : PlanFiles[m] = WorkflowPlan => m = 2
  BY PlanFilesOrder
<1>5. WorkflowPlan \notin TS
  <2>1. PlanFiles[2] = WorkflowPlan
    BY DEF PlanFiles
  <2> QED BY <1>4, <2>1
<1> HIDE DEF TS, T
<1>6. /\ Len(all) = t + 4 /\ all \in Seq(X) /\ DOMAIN all = 1 .. t + 4
      /\ \A m \in 1 .. t : all[m] = T[m]
      /\ \A m \in 1 .. 4 : all[t + m] = PlanFiles[m]
  <2> DEFINE PF == PlanFiles
  <2>1. T \in Seq(X) /\ PF \in Seq(X)
    BY <1>1, <1>3
  <2> HIDE DEF PF, X
  <2>2. /\ Len(T \o PF) = t + Len(PF) /\ T \o PF \in Seq(X)
        /\ \A m \in 1 .. t : (T \o PF)[m] = T[m]
        /\ \A m \in 1 .. Len(PF) : (T \o PF)[t + m] = PF[m]
    BY <2>1, ConcatElements
  <2>3. DOMAIN (T \o PF) = 1 .. Len(T \o PF)
    BY <2>2
  <2>4. Len(PF) = 4
    BY <1>3 DEF PF
  <2> QED BY <2>2, <2>3, <2>4 DEF PF
<1> HIDE DEF X, all, t
<1>7. /\ P \in Seq({target} \X X) /\ Len(P) = t + 4
      /\ \A m \in 1 .. t + 4 : P[m] = <<target, all[m]>>
  BY <1>1, <1>6 DEF At
<1> HIDE DEF P
<1>8. ASSUME NEW m \in 1 .. t + 4
      PROVE  \/ m <= t /\ all[m] \in TS
             \/ m > t /\ all[m] \notin TS /\ (all[m] = WorkflowPlan => m = t + 2)
  <2>1. CASE m <= t
    <3>1. m \in 1 .. t
      BY <2>1, <1>1
    <3> QED BY <2>1, <3>1, <1>1, <1>6
  <2>2. CASE ~ (m <= t)
    <3>1. m - t \in 1 .. 4 /\ m = t + (m - t)
      BY <2>2, <1>1
    <3>2. all[m] = PlanFiles[m - t]
      BY <3>1, <1>6
    <3>3. all[m] \notin TS /\ (all[m] = WorkflowPlan => m - t = 2)
      BY <3>1, <3>2, <1>4
    <3> QED BY <2>2, <3>1, <3>3, <1>1
  <2> QED BY <2>1, <2>2
<1>9. \A m \in 1 .. Len(P) : P[m] = <<target, WorkflowPlan>> => m = Len(P) - 2
  <2>1. ASSUME NEW m \in 1 .. t + 4, P[m] = <<target, WorkflowPlan>> PROVE m = t + 4 - 2
    <3>1. all[m] = WorkflowPlan
      BY <1>7, <2>1
    <3>2. m = t + 2
      BY <1>5, <1>8, <3>1
    <3> QED BY <3>2, <1>1
  <2> QED BY <1>1, <1>7, <2>1
<1>10. ASSUME NEW path \in TS
       PROVE  /\ \E m \in 1 .. Len(P) : P[m] = <<target, path>>
              /\ \A m \in 1 .. Len(P) : P[m] = <<target, path>> => m < Len(P) - 2
  <2>1. PICK m \in 1 .. t : T[m] = path
    BY <1>2
  <2>2. m \in 1 .. t + 4 /\ P[m] = <<target, path>>
    BY <2>1, <1>1, <1>6, <1>7
  <2>3. ASSUME NEW k \in 1 .. t + 4, P[k] = <<target, path>> PROVE k < t + 4 - 2
    <3>1. all[k] = path
      BY <2>3, <1>7
    <3>2. k <= t
      BY <3>1, <1>8
    <3> QED BY <3>2, <1>1
  <2>4. Len(P) - 2 = t + 4 - 2 /\ 1 .. Len(P) = 1 .. t + 4
    BY <1>1, <1>7
  <2> QED BY <2>2, <2>3, <2>4
<1>11. P \in Seq(ToSet(P))
  BY <1>7, OwnElements
<1>12. \A m \in 1 .. Len(P) : P[m][1] = target
  BY <1>7
<1>13. PackageFiles(input, target) = P
  BY DEF PackageFiles, P, all, T
<1> QED
  BY <1>9, <1>10, <1>11, <1>12, <1>13 DEF TS

\* The files of a conversion: those of the m-th place in the package of the i-th target are at
\* place o[i] + m, all others are reports, and the last two are the summary and the report.
Package(job, i) == PackageFiles(job.input, job.targets[i])
Offsets(job, o) ==
  LET W == WriteOrder(job)
  IN  /\ \A i \in 1 .. Len(job.targets) : \A m \in 1 .. Len(Package(job, i)) :
           o[i] + m \in 1 .. Len(W) /\ W[o[i] + m] = Package(job, i)[m]
      /\ \A p \in 1 .. Len(W) :
           \/ W[p][1] = "out"
           \/ \E i \in 1 .. Len(job.targets) : \E m \in 1 .. Len(Package(job, i)) : p = o[i] + m

LEMMA PackagesOrder ==
  ASSUME NEW job \in JobSet
  PROVE  LET F == Packages(job)
             L == Len(job.targets)
         IN  /\ F \in Seq(ToSet(F))
             /\ \A p \in 1 .. Len(F) : F[p][1] \in TargetIds
             /\ \E o \in [1 .. L -> Nat] : Placed(F, [i \in 1 .. L |-> Package(job, i)], o)
<1> DEFINE s == [k \in DOMAIN job.targets |-> PackageFiles(job.input, job.targets[k])]
           X == UNION {ToSet(PackageFiles(job.input, t)) : t \in TargetIds}
           L == Len(job.targets)
           F == FlattenSeq(s)
<1>1. /\ job.targets \in Seq(TargetIds) /\ EmitsSequences(job.input)
      /\ L \in Nat /\ DOMAIN job.targets = 1 .. L
      /\ \A i \in 1 .. L : job.targets[i] \in TargetIds
  BY JobParts
<1>2. \A i \in 1 .. L : s[i] = Package(job, i)
  BY <1>1 DEF Package
<1>3. ASSUME NEW i \in 1 .. L
      PROVE  Package(job, i) \in Seq(X) /\ \A m \in 1 .. Len(Package(job, i)) : Package(job, i)[m][1] \in TargetIds
  <2> DEFINE P == Package(job, i)
  <2>1. P \in Seq(ToSet(P)) /\ \A m \in 1 .. Len(P) : P[m][1] = job.targets[i]
    BY <1>1, PackageOrder DEF Package
  <2>2. ToSet(P) \subseteq X
    BY <1>1 DEF Package
  <2> HIDE DEF P, X
  <2>3. P \in Seq(X)
    BY <2>1, <2>2
  <2> QED BY <1>1, <2>1, <2>3 DEF P
<1> HIDE DEF X
<1>4. s \in Seq(Seq(X)) /\ Len(s) = L
  <2> DEFINE Y == Seq(X)
  <2>1. \A i \in 1 .. L : s[i] \in Y
    BY <1>2, <1>3
  <2>2. s = [i \in 1 .. L |-> s[i]]
    BY <1>1
  <2> HIDE DEF s, Y, L
  <2>3. s \in Seq(Y) /\ Len(s) = L
    BY <1>1, <2>1, <2>2
  <2> QED BY <2>3 DEF Y
<1> HIDE DEF s, L
<1>5. FlattenSeq(s) \in Seq(X) /\ \E o \in [1 .. Len(s) -> Nat] : Placed(FlattenSeq(s), s, o)
  BY <1>4, FlattenOffsets, Zenon
<1>6. PICK o \in [1 .. L -> Nat] : Placed(F, s, o)
  BY <1>4, <1>5
<1>7. s = [i \in 1 .. L |-> Package(job, i)]
  BY <1>1 DEF s, L, Package
<1> HIDE DEF F
<1>9. \A p \in 1 .. Len(F) : F[p][1] \in TargetIds
  <2> SUFFICES ASSUME NEW p \in 1 .. Len(F) PROVE F[p][1] \in TargetIds
    OBVIOUS
  <2>1. PICK i \in 1 .. L : \E m \in 1 .. Len(s[i]) : p = o[i] + m
    BY <1>4, <1>6 DEF Placed
  <2>2. PICK m \in 1 .. Len(s[i]) : p = o[i] + m
    BY <2>1
  <2>3. F[p] = s[i][m]
    BY <1>4, <1>6, <2>2 DEF Placed
  <2> QED BY <1>2, <1>3, <2>2, <2>3
<1>10. F \in Seq(ToSet(F))
  BY <1>5, OwnElements DEF F
<1>11. Packages(job) = F
  BY DEF Packages, F, s
<1> QED
  BY <1>6, <1>7, <1>9, <1>10, <1>11 DEF L

LEMMA WriteOrderFacts ==
  ASSUME NEW job \in JobSet
  PROVE  LET W == WriteOrder(job)
         IN  /\ W \in Seq(ToSet(W)) /\ Len(W) \in Nat /\ Len(W) >= 3
             /\ W[Len(W)] = Report("report")
             /\ W[Len(W) - 1] = Report("summary")
             /\ \A p \in 1 .. Len(W) : W[p] = Report("summary") => p = Len(W) - 1
             /\ \E o \in [1 .. Len(job.targets) -> Nat] : Offsets(job, o)
<1> DEFINE F == Packages(job)
           a == Stages
           c == Reports(<<"evidence", "summary", "report">>)
           X == ToSet(F) \cup ToSet(a) \cup ToSet(c)
           W == WriteOrder(job)
<1>1. /\ F \in Seq(ToSet(F)) /\ Len(F) \in Nat
      /\ \A p \in 1 .. Len(F) : F[p][1] \in TargetIds
  BY PackagesOrder
<1>2. /\ a \in Seq(ToSet(a)) /\ Len(a) = 5
      /\ \A p \in 1 .. 5 : a[p][1] = "out" /\ a[p] # Report("summary")
  <2> DEFINE n == <<"run_manifest", "inventory", "raw_ir", "canonical_ir", "validation">>
             Y == {"run_manifest", "inventory", "raw_ir", "canonical_ir", "validation"}
  <2>1. n \in Seq(Y) /\ Len(n) = 5 /\ DOMAIN n = 1 .. 5
    OBVIOUS
  <2>2. \A p \in 1 .. 5 : n[p] \in Y
    BY <2>1
  <2>3. \A y \in Y : y # "summary"
    OBVIOUS
  <2> HIDE DEF n, Y
  <2>4. /\ a \in Seq({Report(y) : y \in Y}) /\ Len(a) = 5
        /\ \A p \in 1 .. 5 : a[p] = Report(n[p])
    BY <2>1, <2>2 DEF Stages, Reports, n
  <2>5. \A y : Report(y)[1] = "out" /\ (Report(y) = Report("summary") => y = "summary")
    BY DEF Report
  <2> HIDE DEF a
  <2> QED BY <2>2, <2>3, <2>4, <2>5, OwnElements
<1>3. /\ c \in Seq(ToSet(c)) /\ Len(c) = 3
      /\ \A p \in 1 .. 3 : c[p][1] = "out"
      /\ c[2] = Report("summary") /\ c[3] = Report("report")
      /\ c[1] # Report("summary") /\ c[3] # Report("summary")
  <2> DEFINE n == <<"evidence", "summary", "report">>
             Y == {"evidence", "summary", "report"}
  <2>1. n \in Seq(Y) /\ Len(n) = 3 /\ DOMAIN n = 1 .. 3
    OBVIOUS
  <2>2. n[1] = "evidence" /\ n[2] = "summary" /\ n[3] = "report" /\ \A p \in 1 .. 3 : n[p] \in Y
    BY <2>1
  <2> HIDE DEF n, Y
  <2>4. /\ c \in Seq({Report(y) : y \in Y}) /\ Len(c) = 3
        /\ \A p \in 1 .. 3 : c[p] = Report(n[p])
    BY <2>1, <2>2 DEF Reports, n
  <2>5. \A y : Report(y)[1] = "out" /\ (Report(y) = Report("summary") => y = "summary")
    BY DEF Report
  <2> HIDE DEF c
  <2> QED BY <2>2, <2>4, <2>5, OwnElements
<1>4. W = (a \o F) \o c
  BY DEF WriteOrder
<1> HIDE DEF F, a, c, W
<1> DEFINE d == a \o F
           f == Len(F)
<1>5. a \in Seq(X) /\ F \in Seq(X) /\ c \in Seq(X)
  BY <1>1, <1>2, <1>3
<1> HIDE DEF X
<1>6. /\ d \in Seq(X) /\ Len(d) = 5 + f
      /\ \A p \in 1 .. 5 : d[p] = a[p]
      /\ \A m \in 1 .. f : d[5 + m] = F[m]
  <2>1. /\ d \in Seq(X) /\ Len(d) = Len(a) + f
        /\ \A p \in 1 .. Len(a) : d[p] = a[p]
        /\ \A m \in 1 .. f : d[Len(a) + m] = F[m]
    <3> HIDE DEF X
    <3> QED BY <1>5, ConcatElements
  <2> HIDE DEF d, f
  <2> QED BY <2>1, <1>2
<1> HIDE DEF d
<1>7. /\ W \in Seq(X) /\ Len(W) = 8 + f
      /\ \A p \in 1 .. 5 + f : W[p] = d[p]
      /\ \A m \in 1 .. 3 : W[5 + f + m] = c[m]
  <2>0. d \in Seq(X) /\ c \in Seq(X)
    BY <1>5, <1>6
  <2>1. /\ d \o c \in Seq(X) /\ Len(d \o c) = Len(d) + Len(c)
        /\ \A p \in 1 .. Len(d) : (d \o c)[p] = d[p]
        /\ \A m \in 1 .. Len(c) : (d \o c)[Len(d) + m] = c[m]
    BY <2>0, ConcatElements
  <2> QED BY <2>1, <1>1, <1>3, <1>4, <1>6 DEF d
<1> HIDE DEF f
<1>8. f \in Nat
  BY <1>1 DEF f
<1>9. \A p \in 1 .. 5 : W[p] = a[p]
  BY <1>6, <1>7, <1>8
<1>10. \A m \in 1 .. f : W[5 + m] = F[m] /\ 5 + m \in 1 .. 8 + f
  BY <1>6, <1>7, <1>8
<1>11. W[6 + f] = c[1] /\ W[7 + f] = c[2] /\ W[8 + f] = c[3]
  <2>1. 1 \in 1 .. 3 /\ 2 \in 1 .. 3 /\ 3 \in 1 .. 3
    OBVIOUS
  <2>2. 5 + f + 1 = 6 + f /\ 5 + f + 2 = 7 + f /\ 5 + f + 3 = 8 + f
    BY <1>8
  <2> QED BY <2>1, <2>2, <1>7
<1>12. \A p \in 1 .. 8 + f : p \in 1 .. 5 \/ (p - 5 \in 1 .. f /\ p = 5 + (p - 5))
                            \/ p = 6 + f \/ p = 7 + f \/ p = 8 + f
  BY <1>8
<1>13. Report("summary")[1] = "out"
  BY DEF Report
<1>14. \A m \in 1 .. f : F[m] # Report("summary")
  BY <1>1, <1>13, OutIsNoTarget DEF f
<1>15. \A p \in 1 .. 8 + f : W[p] = Report("summary") => p = 7 + f
  <2> SUFFICES ASSUME NEW p \in 1 .. 8 + f, W[p] = Report("summary") PROVE p = 7 + f
    OBVIOUS
  <2>1. CASE p \in 1 .. 5
    BY <2>1, <1>2, <1>9
  <2>2. CASE p - 5 \in 1 .. f /\ p = 5 + (p - 5)
    BY <2>2, <1>10, <1>14
  <2> QED BY <2>1, <2>2, <1>3, <1>11, <1>12
<1>16. PICK o \in [1 .. Len(job.targets) -> Nat] :
         /\ \A i \in 1 .. Len(job.targets) : \A m \in 1 .. Len(Package(job, i)) :
              o[i] + m \in 1 .. f /\ F[o[i] + m] = Package(job, i)[m]
         /\ \A p \in 1 .. f :
              \E i \in 1 .. Len(job.targets) : \E m \in 1 .. Len(Package(job, i)) : p = o[i] + m
  <2> DEFINE L == Len(job.targets)
             s == [i \in 1 .. L |-> Package(job, i)]
  <2>1. \E o \in [1 .. L -> Nat] : Placed(F, s, o)
    BY PackagesOrder DEF F
  <2>2. L \in Nat
    BY JobParts
  <2> HIDE DEF L
  <2>3. Len(s) = L /\ \A i \in 1 .. L : s[i] = Package(job, i)
    BY <2>2
  <2> HIDE DEF s
  <2>4. \A o : Placed(F, s, o) =>
          /\ \A i \in 1 .. L : \A m \in 1 .. Len(Package(job, i)) :
               o[i] + m \in 1 .. f /\ F[o[i] + m] = Package(job, i)[m]
          /\ \A p \in 1 .. f : \E i \in 1 .. L : \E m \in 1 .. Len(Package(job, i)) : p = o[i] + m
    BY <2>3 DEF Placed, f
  <2> QED BY <2>1, <2>4 DEF L
<1> DEFINE g == [i \in 1 .. Len(job.targets) |-> 5 + o[i]]
<1>17. g \in [1 .. Len(job.targets) -> Nat] /\ \A i \in 1 .. Len(job.targets) : g[i] = 5 + o[i] /\ o[i] \in Nat
  OBVIOUS
<1> HIDE DEF g
<1>18. ASSUME NEW i \in 1 .. Len(job.targets), NEW m \in 1 .. Len(Package(job, i))
       PROVE  g[i] + m \in 1 .. Len(W) /\ W[g[i] + m] = Package(job, i)[m]
  <2>1. o[i] + m \in 1 .. f /\ F[o[i] + m] = Package(job, i)[m]
    BY <1>16
  <2>2. g[i] + m = 5 + (o[i] + m)
    BY <1>17
  <2> QED BY <2>1, <2>2, <1>7, <1>10
<1>19. ASSUME NEW p \in 1 .. Len(W)
       PROVE  \/ W[p][1] = "out"
              \/ \E i \in 1 .. Len(job.targets) : \E m \in 1 .. Len(Package(job, i)) : p = g[i] + m
  <2>1. CASE p \in 1 .. 5
    BY <2>1, <1>2, <1>9
  <2>2. CASE p - 5 \in 1 .. f /\ p = 5 + (p - 5)
    <3>1. PICK i \in 1 .. Len(job.targets) : \E m \in 1 .. Len(Package(job, i)) : p - 5 = o[i] + m
      BY <2>2, <1>16
    <3>2. PICK m \in 1 .. Len(Package(job, i)) : p - 5 = o[i] + m
      BY <3>1
    <3>3. g[i] = 5 + o[i] /\ o[i] \in Nat
      BY <1>17
    <3>4. p = g[i] + m
      BY <3>2, <3>3, <2>2
    <3> QED BY <3>4
  <2>3. CASE p = 6 + f \/ p = 7 + f \/ p = 8 + f
    <3>1. c[1][1] = "out" /\ c[2][1] = "out" /\ c[3][1] = "out"
      BY <1>3
    <3> QED BY <2>3, <3>1, <1>11
  <2> QED BY <2>1, <2>2, <2>3, <1>7, <1>12
<1>20. Offsets(job, g)
  BY <1>18, <1>19 DEF Offsets, W
<1>21. /\ W \in Seq(ToSet(W)) /\ Len(W) \in Nat /\ Len(W) >= 3
       /\ Len(W) - 1 = 7 + f
  BY <1>7, <1>8, OwnElements
<1> QED
  BY <1>3, <1>7, <1>11, <1>15, <1>17, <1>20, <1>21 DEF W

\* A plan comes after the texts of its target, if only after those of the same package.
LEMMA PlanAfterTexts ==
  ASSUME NEW job \in JobSet, NEW i \in DOMAIN job.targets,
         NEW path \in TextsOf(job.input, job.targets[i]),
         NEW p \in 1 .. Len(WriteOrder(job)),
         WriteOrder(job)[p] = <<job.targets[i], WorkflowPlan>>
  PROVE  LET W == WriteOrder(job)
             file == <<job.targets[i], path>>
         IN  /\ \E q \in 1 .. Len(W) : q < p /\ W[q] = file
             /\ (\A j \in DOMAIN job.targets : job.targets[j] = job.targets[i] => j = i) =>
                  \A q \in 1 .. Len(W) : W[q] = file => q < p
<1> DEFINE W == WriteOrder(job)
           L == Len(job.targets)
           target == job.targets[i]
           P(j) == Package(job, j)
<1>1. /\ job.targets \in Seq(TargetIds) /\ EmitsSequences(job.input)
      /\ L \in Nat /\ DOMAIN job.targets = 1 .. L
      /\ \A j \in 1 .. L : job.targets[j] \in TargetIds
  BY JobParts
<1>2. \A j \in 1 .. L :
        /\ Len(P(j)) \in Nat
        /\ \A m \in 1 .. Len(P(j)) : P(j)[m][1] = job.targets[j]
        /\ \A m \in 1 .. Len(P(j)) : P(j)[m] = <<job.targets[j], WorkflowPlan>> => m = Len(P(j)) - 2
        /\ \A text \in TextsOf(job.input, job.targets[j]) :
             /\ \E m \in 1 .. Len(P(j)) : P(j)[m] = <<job.targets[j], text>>
             /\ \A m \in 1 .. Len(P(j)) : P(j)[m] = <<job.targets[j], text>> => m < Len(P(j)) - 2
  <2> SUFFICES ASSUME NEW j \in 1 .. L
               PROVE  /\ Len(P(j)) \in Nat
                      /\ \A m \in 1 .. Len(P(j)) : P(j)[m][1] = job.targets[j]
                      /\ \A m \in 1 .. Len(P(j)) :
                           P(j)[m] = <<job.targets[j], WorkflowPlan>> => m = Len(P(j)) - 2
                      /\ \A text \in TextsOf(job.input, job.targets[j]) :
                           /\ \E m \in 1 .. Len(P(j)) : P(j)[m] = <<job.targets[j], text>>
                           /\ \A m \in 1 .. Len(P(j)) :
                                P(j)[m] = <<job.targets[j], text>> => m < Len(P(j)) - 2
    OBVIOUS
  <2>1. P(j) \in Seq(ToSet(P(j)))
    BY <1>1, PackageOrder DEF Package
  <2>2. Len(P(j)) \in Nat
    <3> HIDE DEF P
    <3> QED BY <2>1
  <2> QED BY <1>1, <2>2, PackageOrder DEF Package
<1>3. PICK o \in [1 .. L -> Nat] : Offsets(job, o)
  BY WriteOrderFacts
<1> HIDE DEF W, L, P
<1>4. /\ \A j \in 1 .. L : \A m \in 1 .. Len(P(j)) : o[j] + m \in 1 .. Len(W) /\ W[o[j] + m] = P(j)[m]
      /\ \A q \in 1 .. Len(W) : W[q][1] # "out" =>
           \E j \in 1 .. L : \E m \in 1 .. Len(P(j)) : q = o[j] + m
  BY <1>3 DEF Offsets, W, L, P
<1>5. target # "out" /\ i \in 1 .. L
  BY <1>1, OutIsNoTarget
<1>6. W[p] = <<target, WorkflowPlan>> /\ W[p][1] = target /\ p \in 1 .. Len(W)
  BY DEF W
<1>7. PICK j \in 1 .. L : \E m \in 1 .. Len(P(j)) : p = o[j] + m
  BY <1>4, <1>5, <1>6
<1>8. PICK m \in 1 .. Len(P(j)) : p = o[j] + m
  BY <1>7
<1>9. P(j)[m] = <<target, WorkflowPlan>> /\ job.targets[j] = target /\ m = Len(P(j)) - 2
  <2>1. P(j)[m] = <<target, WorkflowPlan>>
    BY <1>4, <1>6, <1>8
  <2>2. job.targets[j] = target
    BY <1>2, <2>1
  <2> QED BY <1>2, <2>1, <2>2
<1>10. /\ \E k \in 1 .. Len(P(j)) : P(j)[k] = <<target, path>>
       /\ \A k \in 1 .. Len(P(j)) : P(j)[k] = <<target, path>> => k < Len(P(j)) - 2
  <2>1. path \in TextsOf(job.input, job.targets[j])
    BY <1>9
  <2>2. \A text \in TextsOf(job.input, job.targets[j]) :
          /\ \E k \in 1 .. Len(P(j)) : P(j)[k] = <<job.targets[j], text>>
          /\ \A k \in 1 .. Len(P(j)) : P(j)[k] = <<job.targets[j], text>> => k < Len(P(j)) - 2
    BY <1>2
  <2> QED BY <1>9, <2>1, <2>2
<1> HIDE DEF target
<1>11. o[j] \in Nat /\ Len(P(j)) \in Nat
  BY <1>2
<1>12. \E q \in 1 .. Len(W) : q < p /\ W[q] = <<target, path>>
  <2>1. PICK k \in 1 .. Len(P(j)) : P(j)[k] = <<target, path>>
    BY <1>10
  <2>2. k < m
    BY <1>9, <1>10, <2>1
  <2>3. o[j] + k \in 1 .. Len(W) /\ W[o[j] + k] = <<target, path>>
    BY <1>4, <2>1
  <2>4. o[j] + k < p
    BY <1>8, <1>11, <2>2
  <2> QED BY <2>3, <2>4
<1>13. ASSUME \A h \in 1 .. L : job.targets[h] = target => h = i,
              NEW q \in 1 .. Len(W), W[q] = <<target, path>>
       PROVE  q < p
  <2>1. W[q][1] = target
    BY <1>13
  <2>2. PICK h \in 1 .. L : \E k \in 1 .. Len(P(h)) : q = o[h] + k
    BY <1>4, <1>5, <2>1
  <2>3. PICK k \in 1 .. Len(P(h)) : q = o[h] + k
    BY <2>2
  <2>4. P(h)[k] = <<target, path>>
    BY <1>4, <1>13, <2>3
  <2>5. job.targets[h] = target
    BY <1>2, <2>1, <2>4
  <2>6. h = j
    BY <1>9, <1>13, <2>5
  <2>7. k < m
    BY <1>9, <1>10, <2>3, <2>4, <2>6
  <2> QED BY <1>8, <1>11, <2>3, <2>6, <2>7
<1> QED
  BY <1>1, <1>12, <1>13 DEF W, L, target
-----------------------------------------------------------------------------
(* The current conversion, and the two properties of the disk. *)

Order   == WriteOrder(Job)
Done    == Len(Order) - Len(queue)
Own(k)  == [of |-> k, whole |-> TRUE]

\* What is on disk was written by a conversion accepted.
ConvType ==
  /\ jobs \in Seq(JobSet)
  /\ \A f \in DOMAIN disk : disk[f] \in [of : 1 .. Len(jobs), whole : BOOLEAN]

\* The files of the current conversion on disk are the first ones of its order, whole.
Writing ==
  outcome = "writing" =>
    /\ Len(jobs) >= 1
    /\ queue \in Seq(ToSet(Order)) /\ Len(queue) \in 1 .. Len(Order)
    /\ \A m \in 1 .. Len(queue) : queue[m] = Order[Done + m]
    /\ \A p \in 1 .. Done : Order[p] \in DOMAIN disk /\ disk[Order[p]] = Own(Len(jobs))
    /\ \A f \in DOMAIN disk : disk[f].of = Len(jobs) => \E p \in 1 .. Done : f = Order[p]

\* The two properties, of a conversion: its plans and, if it is the last one, its summary.
Once(job, i) == \A j \in DOMAIN job.targets : job.targets[j] = job.targets[i] => j = i
StandsOn(job, files, k, i, isLast) ==
  LET target == job.targets[i]
      plan   == <<target, WorkflowPlan>>
  IN  plan \in DOMAIN files /\ files[plan] = Own(k) =>
        \A text \in TextsOf(job.input, target) :
          /\ <<target, text>> \in DOMAIN files
          /\ files[<<target, text>>].of >= k
          /\ isLast /\ Once(job, i) => files[<<target, text>>].whole
Vouches(job, files, k) ==
  LET summary == Report("summary")
  IN  summary \in DOMAIN files /\ files[summary] = Own(k) =>
        \A file \in ToSet(WriteOrder(job)) \ {Report("report")} :
          file \in DOMAIN files /\ files[file] = Own(k)

PlansInv ==
  \A k \in DOMAIN jobs : \A i \in DOMAIN jobs[k].targets :
    StandsOn(jobs[k], disk, k, i, k = Len(jobs))
SummaryInv == Vouches(jobs[Len(jobs)], disk, Len(jobs))

ConvInv == RegistryInv /\ ConvType /\ Writing /\ PlansInv /\ SummaryInv

LEMMA ConvInvImplies == ConvInv => PlansStandOnTheirJobs /\ SummaryVouches
<1>1. SummaryInv => SummaryVouches
  BY DEF SummaryInv, Vouches, SummaryVouches, Own
<1>2. ASSUME PlansInv PROVE PlansStandOnTheirJobs
  <2>1. ASSUME NEW k \in DOMAIN jobs, NEW i \in DOMAIN jobs[k].targets,
               <<jobs[k].targets[i], WorkflowPlan>> \in DOMAIN disk,
               disk[<<jobs[k].targets[i], WorkflowPlan>>] = Own(k),
               NEW n \in DOMAIN Emitted(jobs[k].input, jobs[k].targets[i]),
               NEW text \in {Launcher(Emitted(jobs[k].input, jobs[k].targets[i])[n]),
                             Statement(Emitted(jobs[k].input, jobs[k].targets[i])[n]), Runtime}
        PROVE  /\ <<jobs[k].targets[i], text>> \in DOMAIN disk
               /\ disk[<<jobs[k].targets[i], text>>].of >= k
               /\ k = Len(jobs) /\ Once(jobs[k], i) => disk[<<jobs[k].targets[i], text>>].whole
    <3>1. text \in TextsOf(jobs[k].input, jobs[k].targets[i])
      BY DEF TextsOf, ToSet
    <3>2. StandsOn(jobs[k], disk, k, i, k = Len(jobs))
      BY <1>2 DEF PlansInv
    <3> QED BY <2>1, <3>1, <3>2 DEF StandsOn
  <2> QED BY <2>1, Zenon DEF PlansStandOnTheirJobs, Own, Once
<1> QED
  BY <1>1, <1>2 DEF ConvInv

LEMMA ConvInit == Init => ConvInv
<1> SUFFICES ASSUME Init PROVE ConvInv
  OBVIOUS
<1>1. RegistryInv
  BY RegistryInvInit DEF Init
<1>2. jobs = <<>> /\ Len(jobs) = 0 /\ DOMAIN jobs = {} /\ DOMAIN disk = {} /\ outcome = "none"
  BY DEF Init
<1> QED
  BY <1>1, <1>2 DEF ConvInv, ConvType, Writing, PlansInv, SummaryInv, Vouches

\* Every request that is not refused makes a conversion, and its targets are known.
LEMMA RequestAccepted ==
  ASSUME RegistryInv, NEW request \in Requests, ~ IsRefused(request)
  PROVE  [input |-> request.input, targets |-> TargetsOf(request)] \in JobSet
<1>1. TargetsOf(request) \in Seq(TargetIds)
  <2>1. CASE request.targets # <<"all">>
    <3> DEFINE list == request.targets
    <3>1. list \in Seq(ToSet(list))
      BY RequestsAssumption
    <3>2. ToSet(list) \subseteq TargetIds
      BY <2>1, RegisteredTargets DEF IsRefused, TargetsOf
    <3>3. TargetsOf(request) = list
      BY <2>1 DEF TargetsOf
    <3> HIDE DEF list
    <3> QED BY <3>1, <3>2, <3>3
  <2>2. CASE request.targets = <<"all">>
    <3> DEFINE ids == DOMAIN registered["targets"]
               Names(list) == list \in SortedLists /\ ToSet(list) = ids
    <3>1. \E list : Names(list)
      BY SortedAssumption, RegisteredTargets
    <3>2. TargetsOf(request) = CHOOSE list \in SortedLists : ToSet(list) = ids
      BY <2>2 DEF TargetsOf
    <3>3. TargetsOf(request) \in SortedLists
      BY <3>1, <3>2
    <3> QED BY <3>3, SortedAssumption
  <2> QED BY <2>1, <2>2
<1> QED
  BY <1>1 DEF JobSet

LEMMA AcceptStep == ConvInv /\ Accept => ConvInv'
<1> SUFFICES ASSUME ConvInv, Accept PROVE ConvInv'
  OBVIOUS
<1>1. PICK request \in Requests :
        /\ ~ IsRefused(request)
        /\ jobs' = Append(jobs, [input |-> request.input, targets |-> TargetsOf(request)])
        /\ queue' = WriteOrder([input |-> request.input, targets |-> TargetsOf(request)])
  BY DEF Accept
<1> DEFINE job == [input |-> request.input, targets |-> TargetsOf(request)]
           K == Len(jobs)
           W == WriteOrder(job)
<1>2. job \in JobSet
  BY <1>1, RequestAccepted DEF ConvInv
<1>3. /\ outcome' = "writing" /\ UNCHANGED <<registryVars, disk>>
      /\ jobs \in Seq(JobSet) /\ jobs' = Append(jobs, job) /\ queue' = W
  BY <1>1 DEF Accept, ConvInv, ConvType
<1>4. RegistryInv'
  <2>1. Next
    BY DEF Next
  <2> QED BY <2>1, RegistryStep DEF ConvInv
<1> HIDE DEF job, W
<1>5. /\ jobs' \in Seq(JobSet) /\ Len(jobs') = K + 1 /\ K \in Nat
      /\ DOMAIN jobs = 1 .. K /\ DOMAIN jobs' = 1 .. K + 1
      /\ \A k \in 1 .. K : jobs'[k] = jobs[k]
      /\ jobs'[K + 1] = job
  BY <1>2, <1>3
<1>6. Job' = job /\ Order' = W
  BY <1>5 DEF Job, Order, W
<1>7. /\ W \in Seq(ToSet(W)) /\ Len(W) \in Nat /\ Len(W) >= 3
  BY <1>2, WriteOrderFacts DEF W
<1> HIDE DEF K
<1>8. \A f \in DOMAIN disk : disk[f] \in [of : 1 .. K, whole : BOOLEAN]
  BY DEF ConvInv, ConvType, K
<1>9. ConvType'
  <2>1. \A f \in DOMAIN disk : disk[f] \in [of : 1 .. K + 1, whole : BOOLEAN]
    BY <1>5, <1>8
  <2> QED BY <1>3, <1>5, <2>1 DEF ConvType
<1>10. Writing'
  <2>1. Done' = 0
    BY <1>3, <1>6, <1>7 DEF Done
  <2>2. \A f \in DOMAIN disk : disk[f].of # K + 1
    BY <1>5, <1>8
  <2>3. \A m \in 1 .. Len(W) : W[0 + m] = W[m]
    OBVIOUS
  <2> QED BY <1>3, <1>5, <1>6, <1>7, <2>1, <2>2, <2>3 DEF Writing
<1>11. PlansInv'
  <2> SUFFICES ASSUME NEW k \in 1 .. K + 1, NEW i \in DOMAIN jobs'[k].targets
               PROVE  StandsOn(jobs'[k], disk, k, i, k = K + 1)
    BY <1>3, <1>5 DEF PlansInv
  <2>1. CASE k = K + 1
    <3>1. \A f \in DOMAIN disk : disk[f] # Own(k)
      BY <1>5, <1>8, <2>1 DEF Own
    <3> QED BY <3>1 DEF StandsOn
  <2>2. CASE k # K + 1
    <3>1. k \in 1 .. K /\ jobs'[k] = jobs[k]
      BY <1>5, <2>2
    <3>2. StandsOn(jobs[k], disk, k, i, k = K)
      BY <1>5, <3>1 DEF ConvInv, PlansInv, K
    <3> QED BY <2>2, <3>1, <3>2 DEF StandsOn
  <2> QED BY <2>1, <2>2
<1>12. SummaryInv'
  <2>1. \A f \in DOMAIN disk : disk[f] # Own(K + 1)
    BY <1>5, <1>8 DEF Own
  <2> QED BY <1>3, <1>5, <2>1 DEF SummaryInv, Vouches
<1> QED
  BY <1>4, <1>9, <1>10, <1>11, <1>12 DEF ConvInv

\* While a conversion is under way: the next file, and what is on disk of the others.
LEMMA NextFile ==
  ASSUME ConvInv, outcome = "writing"
  PROVE  /\ jobs \in Seq(JobSet) /\ Len(jobs) \in Nat /\ Len(jobs) >= 1 /\ DOMAIN jobs = 1 .. Len(jobs)
         /\ Job \in JobSet /\ Job = jobs[Len(jobs)]
         /\ Order \in Seq(ToSet(Order)) /\ Len(Order) \in Nat /\ Len(Order) >= 3
         /\ queue \in Seq(ToSet(Order)) /\ queue # <<>>
         /\ Len(queue) \in Nat /\ Done \in Nat /\ Done + 1 \in 1 .. Len(Order)
         /\ Head(queue) = Order[Done + 1]
         /\ Len(queue) = Len(Order) - Done
<1>1. /\ jobs \in Seq(JobSet) /\ Len(jobs) >= 1
      /\ queue \in Seq(ToSet(Order)) /\ Len(queue) \in 1 .. Len(Order)
      /\ \A m \in 1 .. Len(queue) : queue[m] = Order[Done + m]
  BY DEF ConvInv, ConvType, Writing
<1>2. Job \in JobSet /\ Len(jobs) \in Nat /\ DOMAIN jobs = 1 .. Len(jobs)
  BY <1>1 DEF Job
<1>3. Order \in Seq(ToSet(Order)) /\ Len(Order) \in Nat /\ Len(Order) >= 3
  BY <1>2, WriteOrderFacts DEF Order
<1>4. Len(queue) \in Nat /\ Len(queue) >= 1
  BY <1>1, <1>3
<1>5. Done \in Nat /\ Done + 1 \in 1 .. Len(Order) /\ Len(queue) = Len(Order) - Done
  BY <1>1, <1>3, <1>4 DEF Done
<1>6. queue # <<>> /\ Head(queue) = queue[1] /\ queue[1] = Order[Done + 1]
  BY <1>1, <1>4
<1> QED
  BY <1>1, <1>2, <1>3, <1>4, <1>5, <1>6 DEF Job

\* The conversion that stops inside a file, or writes it, leaves the properties of the disk.
LEMMA WrittenDisk ==
  ASSUME ConvInv, outcome = "writing", NEW w \in BOOLEAN,
         jobs' = jobs, disk' = Written(Head(queue), w)
  PROVE  ConvType' /\ PlansInv' /\ SummaryInv'
<1> DEFINE K == Len(jobs)
           new == Head(queue)
<1>1. /\ K \in Nat /\ K >= 1 /\ DOMAIN jobs = 1 .. K /\ jobs \in Seq(JobSet)
      /\ Job \in JobSet /\ Job = jobs[K]
      /\ Len(Order) \in Nat /\ Len(Order) >= 3 /\ Done \in Nat
      /\ Done + 1 \in 1 .. Len(Order) /\ new = Order[Done + 1]
  BY NextFile
<1>2. /\ DOMAIN disk' = DOMAIN disk \cup {new}
      /\ disk'[new] = [of |-> K, whole |-> w]
      /\ \A f \in DOMAIN disk : f # new => disk'[f] = disk[f]
  BY DEF Written
<1>3. /\ \A f \in DOMAIN disk : disk[f] \in [of : 1 .. K, whole : BOOLEAN]
      /\ \A p \in 1 .. Done : Order[p] \in DOMAIN disk /\ disk[Order[p]] = Own(K)
      /\ \A f \in DOMAIN disk : disk[f].of = K => \E p \in 1 .. Done : f = Order[p]
  BY DEF ConvInv, ConvType, Writing
<1> HIDE DEF K, new
<1>4. ConvType'
  <2>1. \A f \in DOMAIN disk' : disk'[f] \in [of : 1 .. K, whole : BOOLEAN]
    BY <1>1, <1>2, <1>3
  <2> QED BY <1>1, <2>1 DEF ConvType, K
<1>5. PlansInv'
  <2> SUFFICES ASSUME NEW k \in 1 .. K, NEW i \in DOMAIN jobs[k].targets
               PROVE  StandsOn(jobs[k], disk', k, i, k = K)
    BY <1>1 DEF PlansInv, K
  <2> DEFINE job == jobs[k]
             target == job.targets[i]
             plan == <<target, WorkflowPlan>>
  <2>1. job \in JobSet
    BY <1>1
  <2>2. StandsOn(job, disk, k, i, k = K)
    BY <1>1 DEF ConvInv, PlansInv, K
  <2>3. k = K => job = Job
    BY <1>1
  <2> SUFFICES ASSUME plan \in DOMAIN disk', disk'[plan] = Own(k),
                      NEW text \in TextsOf(job.input, target)
               PROVE  /\ <<target, text>> \in DOMAIN disk'
                      /\ disk'[<<target, text>>].of >= k
                      /\ k = K /\ Once(job, i) => disk'[<<target, text>>].whole
    BY DEF StandsOn
  <2> DEFINE file == <<target, text>>
  <2>4. ASSUME k = K, NEW p \in 1 .. Len(Order), Order[p] = plan
        PROVE  /\ \E q \in 1 .. Len(Order) : q < p /\ Order[q] = file
               /\ Once(job, i) => \A q \in 1 .. Len(Order) : Order[q] = file => q < p
    <3>1. Order = WriteOrder(job)
      BY <2>3, <2>4 DEF Order
    <3>2. p \in 1 .. Len(WriteOrder(job)) /\ WriteOrder(job)[p] = <<job.targets[i], WorkflowPlan>>
      BY <2>4, <3>1
    <3>3. i \in DOMAIN job.targets /\ text \in TextsOf(job.input, job.targets[i])
      OBVIOUS
    <3> HIDE DEF job
    <3>4. /\ \E q \in 1 .. Len(WriteOrder(job)) : q < p /\ WriteOrder(job)[q] = file
          /\ Once(job, i) => \A q \in 1 .. Len(WriteOrder(job)) : WriteOrder(job)[q] = file => q < p
      BY <2>1, <3>2, <3>3, PlanAfterTexts DEF Once
    <3> QED BY <3>1, <3>4
  <2> HIDE DEF job
  <2>5. plan \in DOMAIN disk /\ disk[plan] = Own(k) =>
          /\ file \in DOMAIN disk
          /\ disk[file].of >= k
          /\ k = K /\ Once(job, i) => disk[file].whole
    BY <2>2 DEF StandsOn
  <2> HIDE DEF target, plan, file
  <2>6. CASE plan = new
    <3>1. k = K /\ w = TRUE
      BY <1>2, <2>6 DEF Own
    <3>2. \E q \in 1 .. Len(Order) : q < Done + 1 /\ Order[q] = file
      BY <1>1, <2>4, <2>6, <3>1
    <3>3. PICK q \in 1 .. Done : Order[q] = file
      BY <1>1, <3>2
    <3>4. file \in DOMAIN disk /\ disk[file] = Own(K)
      BY <1>3, <3>3
    <3>5. file \in DOMAIN disk' /\ disk'[file] = Own(K)
      BY <1>2, <3>1, <3>4 DEF Own
    <3>6. Own(K).of = K /\ Own(K).whole
      BY DEF Own
    <3>7. K >= k
      BY <1>1, <3>1
    <3> QED BY <3>1, <3>5, <3>6, <3>7 DEF file
  <2>7. CASE plan # new
    <3>1. plan \in DOMAIN disk /\ disk[plan] = Own(k)
      BY <1>2, <2>7
    <3>2. file \in DOMAIN disk /\ disk[file].of >= k /\ (k = K /\ Once(job, i) => disk[file].whole)
      BY <2>5, <3>1
    <3>3. file \in DOMAIN disk' /\ disk'[file].of >= k
      BY <1>1, <1>2, <3>2
    <3>4. ASSUME k = K, Once(job, i) PROVE file # new
      <4>1. PICK p \in 1 .. Done : plan = Order[p]
        BY <1>3, <3>1, <3>4 DEF Own
      <4>2. p \in 1 .. Len(Order) /\ p < Done + 1
        BY <1>1
      <4>3. Order[Done + 1] = file => Done + 1 < p
        BY <1>1, <2>4, <3>4, <4>1, <4>2
      <4> QED BY <1>1, <4>2, <4>3
    <3> QED BY <1>2, <3>2, <3>3, <3>4 DEF file
  <2> QED BY <2>6, <2>7
<1>6. SummaryInv'
  <2> DEFINE summary == Report("summary")
             N == Len(Order)
  <2>1. /\ Order[N] = Report("report")
        /\ \A p \in 1 .. N : Order[p] = summary => p = N - 1
    BY <1>1, WriteOrderFacts DEF Order
  <2> SUFFICES ASSUME summary \in DOMAIN disk', disk'[summary] = Own(K),
                      NEW file \in ToSet(Order), file # Report("report")
               PROVE  file \in DOMAIN disk' /\ disk'[file] = Own(K)
    <3>1. SummaryInv' = Vouches(Job, disk', K)
      BY <1>1 DEF SummaryInv, K
    <3>2. WriteOrder(Job) = Order
      BY DEF Order
    <3> QED BY <3>1, <3>2 DEF Vouches
  <2>2. PICK p \in 1 .. N : file = Order[p]
    <3>1. DOMAIN Order = 1 .. N
      BY NextFile
    <3>2. ToSet(Order) = {Order[p] : p \in DOMAIN Order}
      BY DEF ToSet
    <3> QED BY <3>1, <3>2
  <2>3. p < N
    BY <1>1, <2>1, <2>2
  <2> HIDE DEF summary, N
  <2>4. CASE summary = new
    <3>1. Done + 1 = N - 1 /\ w = TRUE
      BY <1>1, <1>2, <2>1, <2>4 DEF Own, N
    <3>2. CASE p = Done + 1
      BY <1>1, <1>2, <2>2, <3>1, <3>2 DEF Own
    <3>3. CASE p # Done + 1
      <4>1. p \in 1 .. Done
        BY <1>1, <2>3, <3>1, <3>3 DEF N
      <4> QED BY <1>2, <1>3, <2>2, <3>1, <4>1 DEF Own
    <3> QED BY <3>2, <3>3
  <2>5. CASE summary # new
    <3>1. summary \in DOMAIN disk /\ disk[summary] = Own(K)
      BY <1>2, <2>5
    <3>2. PICK s \in 1 .. Done : summary = Order[s]
      BY <1>3, <3>1 DEF Own
    <3>3. s = N - 1
      BY <1>1, <2>1, <3>2 DEF N
    <3>4. p \in 1 .. Done /\ Done + 1 = N
      BY <1>1, <2>3, <3>3 DEF N
    <3>5. file \in DOMAIN disk /\ disk[file] = Own(K)
      BY <1>3, <2>2, <3>4
    <3>6. file # new
      BY <1>1, <2>1, <3>4
    <3> QED BY <1>2, <3>5, <3>6
  <2> QED BY <2>4, <2>5
<1> QED
  BY <1>4, <1>5, <1>6

LEMMA PutStep == ConvInv /\ Put => ConvInv'
<1> SUFFICES ASSUME ConvInv, Put PROVE ConvInv'
  OBVIOUS
<1> DEFINE K == Len(jobs)
           new == Head(queue)
<1>1. /\ outcome = "writing" /\ jobs' = jobs /\ disk' = Written(new, TRUE) /\ queue' = Tail(queue)
      /\ outcome' = "writing" => queue' # <<>>
  BY DEF Put
<1>2. RegistryInv'
  <2>1. Next
    BY DEF Next
  <2> QED BY <2>1, RegistryStep DEF ConvInv
<1>3. ConvType' /\ PlansInv' /\ SummaryInv'
  BY <1>1, WrittenDisk
<1>4. /\ K \in Nat /\ K >= 1 /\ Len(Order) \in Nat /\ Done \in Nat
      /\ Done + 1 \in 1 .. Len(Order) /\ new = Order[Done + 1]
      /\ queue \in Seq(ToSet(Order)) /\ queue # <<>>
      /\ Len(queue) = Len(Order) - Done /\ Len(queue) \in Nat
  BY <1>1, NextFile
<1>5. Order' = Order /\ Len(jobs') = K
  BY <1>1 DEF Order, Job
<1>6. /\ DOMAIN disk' = DOMAIN disk \cup {new}
      /\ disk'[new] = Own(K)
      /\ \A f \in DOMAIN disk : f # new => disk'[f] = disk[f]
  BY <1>1 DEF Written, Own
<1>7. /\ \A m \in 1 .. Len(queue) : queue[m] = Order[Done + m]
      /\ \A p \in 1 .. Done : Order[p] \in DOMAIN disk /\ disk[Order[p]] = Own(K)
      /\ \A f \in DOMAIN disk : disk[f].of = K => \E p \in 1 .. Done : f = Order[p]
  BY <1>1 DEF ConvInv, Writing
<1> HIDE DEF K, new
<1>8. /\ queue' \in Seq(ToSet(Order)) /\ Len(queue') = Len(queue) - 1
      /\ \A m \in 1 .. Len(queue') : queue'[m] = queue[m + 1]
  BY <1>1, <1>4
<1>9. Done' = Done + 1
  BY <1>4, <1>5, <1>8 DEF Done
<1>10. Writing'
  <2> SUFFICES ASSUME outcome' = "writing"
               PROVE  /\ K >= 1
                      /\ queue' \in Seq(ToSet(Order)) /\ Len(queue') \in 1 .. Len(Order)
                      /\ \A m \in 1 .. Len(queue') : queue'[m] = Order[Done + 1 + m]
                      /\ \A p \in 1 .. Done + 1 : Order[p] \in DOMAIN disk' /\ disk'[Order[p]] = Own(K)
                      /\ \A f \in DOMAIN disk' : disk'[f].of = K => \E p \in 1 .. Done + 1 : f = Order[p]
    BY <1>5, <1>9 DEF Writing
  <2>1. Len(queue') \in 1 .. Len(Order)
    <3>1. Len(queue') # 0
      BY <1>1, <1>8
    <3> QED BY <1>4, <1>8, <3>1
  <2>2. ASSUME NEW m \in 1 .. Len(queue') PROVE queue'[m] = Order[Done + 1 + m]
    <3>1. m + 1 \in 1 .. Len(queue) /\ Done + (m + 1) = Done + 1 + m
      BY <1>4, <1>8
    <3> QED BY <1>7, <1>8, <3>1
  <2>3. ASSUME NEW p \in 1 .. Done + 1 PROVE Order[p] \in DOMAIN disk' /\ disk'[Order[p]] = Own(K)
    <3>1. p = Done + 1 \/ p \in 1 .. Done
      BY <1>4
    <3> QED BY <1>4, <1>6, <1>7, <3>1
  <2>4. ASSUME NEW f \in DOMAIN disk', disk'[f].of = K PROVE \E p \in 1 .. Done + 1 : f = Order[p]
    <3>1. CASE f = new
      BY <1>4, <3>1
    <3>2. CASE f # new
      <4>1. PICK p \in 1 .. Done : f = Order[p]
        BY <1>6, <1>7, <2>4, <3>2
      <4> QED BY <1>4, <4>1
    <3> QED BY <3>1, <3>2
  <2> QED BY <1>4, <1>8, <2>1, <2>2, <2>3, <2>4
<1> QED
  BY <1>2, <1>3, <1>10 DEF ConvInv

LEMMA StopStep == ConvInv /\ Stop => ConvInv'
<1> SUFFICES ASSUME ConvInv, Stop PROVE ConvInv'
  OBVIOUS
<1>1. /\ outcome = "writing" /\ outcome' = "stopped" /\ jobs' = jobs
      /\ disk' = disk \/ disk' = Written(Head(queue), FALSE)
  BY DEF Stop
<1>2. RegistryInv'
  <2>1. Next
    BY DEF Next
  <2> QED BY <2>1, RegistryStep DEF ConvInv
<1>3. ConvType' /\ PlansInv' /\ SummaryInv'
  <2>1. CASE disk' = disk
    BY <1>1, <2>1 DEF ConvInv, ConvType, PlansInv, SummaryInv
  <2>2. CASE disk' = Written(Head(queue), FALSE)
    BY <1>1, <2>2, WrittenDisk
  <2> QED BY <1>1, <2>1, <2>2
<1> QED
  BY <1>1, <1>2, <1>3 DEF ConvInv, Writing

LEMMA ConvStep == ConvInv /\ [Next]_vars => ConvInv'
<1> SUFFICES ASSUME ConvInv, [Next]_vars PROVE ConvInv'
  OBVIOUS
<1>1. RegistryInv'
  BY RegistryStep DEF ConvInv
<1>2. ASSUME UNCHANGED <<jobs, queue, disk>>, outcome' # "writing" \/ outcome' = outcome PROVE ConvInv'
  <2>1. ConvType'
    BY <1>2 DEF ConvInv, ConvType
  <2>2. Writing'
    <3>1. jobs' = jobs /\ queue' = queue /\ disk' = disk /\ Order' = Order /\ Done' = Done
      BY <1>2 DEF Order, Done, Job
    <3> QED BY <1>2, <3>1 DEF ConvInv, Writing
  <2>3. PlansInv' /\ SummaryInv'
    BY <1>2 DEF ConvInv, PlansInv, SummaryInv
  <2> QED BY <1>1, <2>1, <2>2, <2>3 DEF ConvInv
<1>3. CASE Refuse \/ FailBeforeWriting
  <2>1. UNCHANGED <<jobs, queue, disk>> /\ outcome' # "writing"
    BY <1>3 DEF Refuse, FailBeforeWriting
  <2> QED BY <1>2, <2>1
<1>4. CASE (LoadEntryPoint \/ AddByHand) /\ UNCHANGED <<jobs, queue, disk, outcome>>
  BY <1>2, <1>4
<1>5. CASE UNCHANGED vars
  BY <1>2, <1>5 DEF vars
<1> QED
  BY <1>3, <1>4, <1>5, AcceptStep, PutStep, StopStep DEF Next

LEMMA ConvInvariance == Spec => []ConvInv
BY ConvInit, ConvStep, PTL DEF Spec

\* However many entry points an environment has and whatever is added after them, an identifier
\* of the registry means the first sound class in its group, and every entry point passed over
\* is among the errors (src/etlir/registry.py:78 and :90).
THEOREM FirstPluginCorrect == Spec => []FirstPluginWins
<1>1. ConvInv => FirstPluginWins
  BY RegistryInvImplies DEF ConvInv
<1> QED
  BY <1>1, ConvInvariance, PTL

\* Whatever the conversions over a directory and wherever they stop, a workflow plan that is
\* whole launches jobs that are on disk (src/etlir/package.py:59-62).
THEOREM PlansCorrect == Spec => []PlansStandOnTheirJobs
BY ConvInvImplies, ConvInvariance, PTL

\* Whatever the conversions over a directory and wherever they stop, the summary of the last one
\* is on disk only with all other files of it (src/etlir/pipeline.py:160-166).
THEOREM SummaryCorrect == Spec => []SummaryVouches
BY ConvInvImplies, ConvInvariance, PTL
=============================================================================

------------------------- MODULE RowAlignmentProofs -------------------------
(***************************************************************************)
(* Proofs about topological_order (DataflowGraph) and about the fusion of  *)
(* row-aligned merges that calls it in every round (RowAlignment), for     *)
(* every dataflow with finitely many operations and edges.                 *)
(*                                                                         *)
(* The order is the least linear extension by declaration, and the error   *)
(* means a cycle.  The counters are the heart of that invariant:           *)
(* indegree[o] is the number of edges into o from operations that are not  *)
(* out, and ready holds the operations, not out, whose counter is zero.    *)
(*                                                                         *)
(* Fusion comes in two parts: the rows, that is the edges and what they    *)
(* make of origins, merges and cycles (FusionInv), and the columns, that   *)
(* is what each column means before and after (MeaningInv).                *)
(***************************************************************************)
EXTENDS RowAlignment, FiniteSetTheorems, WellFoundedInduction, TLAPS

Graph(d) ==
  /\ Ops(d) \subseteq Nat
  /\ IsFiniteSet(Ops(d))
  /\ IsFiniteSet(d.edges)
GraphOK == Graph(df)

Counted ==
  /\ \A o \in Ops(df) : indegree[o] = Cardinality(Unmet(o, Placed))
  /\ ready = {o \in Ops(df) \ Placed : indegree[o] = 0}

\* Every place was filled with the first operation that was free.
FirstAt(i) ==
  LET free == {o \in Ops(df) \ Before(i) : Unmet(o, Before(i)) = {}}
  IN  out[i] \in free /\ \A o \in free : out[i] <= o
LeastSoFar == \A i \in 1 .. Len(out) : FirstAt(i)

Ended ==
  /\ phase # "ordering" => ready = {}
  /\ phase = "cycle" <=> phase # "ordering" /\ Len(out) # Cardinality(Ops(df))

OrderState ==
  /\ GraphOK
  /\ OrderStateOK
  /\ Counted
  /\ LeastSoFar
  /\ Cardinality(Placed) = Len(out)
Starting == StartsWith(df, phase, indegree, ready, out)

OrderInv == OrderTypeOK /\ OrderState /\ Ended

\* No operations wait for each other in a circle.
Acyclic(d) ==
  \A S \in SUBSET Ops(d) :
    S # {} => \E o \in S : \A e \in d.edges : e.to = o => e.from \notin S

Origins(d, o, s) == Boundaries(d, Upstreams(d, o, s))

\* A merge that is left comes from where it came from; one that is gone had one origin.
OriginsKept ==
  \A o \in Ops(df) :
    /\ \A s \in Merges(df, o) : s \in Merges(start, o) /\ Origins(df, o, s) = Origins(start, o, s)
    /\ \A s \in Merges(start, o) \ Merges(df, o) : Cardinality(Origins(start, o, s)) = 1
FailuresReal ==
  \A o \in failed : \E s \in Merges(start, o) : Cardinality(Origins(start, o, s)) # 1
NothingLeft == \A o \in Ops(df) \ failed : Merges(df, o) = {}

FusionInv ==
  /\ TypeOK
  /\ GraphOK /\ LeastSoFar /\ Cardinality(Placed) = Len(out) /\ Ended
  /\ phase # "done" => Counted /\ FlowOK(df) /\ OriginsKept /\ (df = start \/ Acyclic(df))
  /\ phase = "fused" => NothingLeft
  /\ FailuresReal /\ FailsIffNotAligned /\ OneUpstreamPerSlot

-----------------------------------------------------------------------------
\* A nonempty set of numbers has a first element, which First chooses.
LEMMA FirstExists ==
  ASSUME NEW S \in SUBSET Nat, S # {}
  PROVE  First(S) \in S /\ \A p \in S : First(S) <= p
<1> DEFINE Less == {ss \in Nat \X Nat : ss[1] < ss[2]}
<1>1. IsWellFoundedOn(Less, Nat)
  BY NatLessThanWellFounded DEF OpToRel
<1> HIDE DEF Less
<1>2. PICK x \in S : \A y \in S : ~ (<<y, x>> \in Less)
  BY <1>1, WFMin, Zenon
<1>3. ASSUME NEW y \in S PROVE x <= y
  <2>1. <<y, x>> \in Nat \X Nat /\ <<y, x>>[1] = y /\ <<y, x>>[2] = x
    OBVIOUS
  <2>2. ~ (y < x)
    BY <1>2, <2>1 DEF Less
  <2> QED
    BY <2>2
<1> QED
  BY <1>3 DEF First

\* The unmet edges of an operation are finite, and none is left when it has no count.
LEMMA UnmetFinite ==
  ASSUME IsFiniteSet(df.edges), NEW o, NEW S
  PROVE  /\ IsFiniteSet(Unmet(o, S))
         /\ Cardinality(Unmet(o, S)) \in Nat
         /\ Cardinality(Unmet(o, S)) = 0 <=> Unmet(o, S) = {}
<1>1. Unmet(o, S) \in SUBSET df.edges
  BY DEF Unmet, Links
<1>2. IsFiniteSet(Unmet(o, S))
  BY <1>1, FS_Subset
<1> QED
  BY <1>2, FS_CardinalityType, FS_EmptySet
\* Taking out an operation removes its edges from what is unmet, and no others.
LEMMA UnmetAfter ==
  ASSUME GraphOK, NEW S \in SUBSET Ops(df), NEW n \in Ops(df) \ S, NEW o \in Ops(df)
  PROVE  /\ Unmet(o, S \cup {n}) \subseteq Unmet(o, S)
         /\ Closed(df, n)[o] \in Nat
         /\ Cardinality(Unmet(o, S \cup {n})) = Cardinality(Unmet(o, S)) - Closed(df, n)[o]
         /\ Closed(df, n)[o] > 0 => Unmet(o, S) # {}
<1> DEFINE rest == Unmet(o, S \cup {n})
           gone == {e \in Links(df) : e.from = n /\ e.to = o}
<1>1. rest = Unmet(o, S) \ gone /\ gone \subseteq Unmet(o, S)
  BY DEF Unmet
<1>2. IsFiniteSet(Unmet(o, S)) /\ IsFiniteSet(rest)
  BY UnmetFinite DEF GraphOK, Graph
<1>3. IsFiniteSet(gone) /\ Cardinality(gone) \in Nat /\ Cardinality(rest) \in Nat
  BY <1>1, <1>2, FS_Subset, FS_CardinalityType
<1>4. Closed(df, n)[o] = Cardinality(gone)
  BY DEF Closed
<1>5. rest \cup gone = Unmet(o, S) /\ rest \cap gone = {}
  BY <1>1
<1> HIDE DEF rest, gone
<1>6. Cardinality(Unmet(o, S)) = Cardinality(rest) + Cardinality(gone)
  <2>1. Cardinality(rest \cup gone)
           = Cardinality(rest) + Cardinality(gone) - Cardinality(rest \cap gone)
    BY <1>2, <1>3, FS_Union
  <2>2. Cardinality(rest \cap gone) = 0
    BY <1>5, FS_EmptySet
  <2>3. Cardinality(rest \cup gone) = Cardinality(Unmet(o, S))
    BY <1>5, Zenon
  <2> QED
    BY <1>3, <2>1, <2>2, <2>3
<1>7. Cardinality(gone) > 0 => gone # {}
  BY FS_EmptySet
<1>8. Cardinality(rest) = Cardinality(Unmet(o, S)) - Cardinality(gone)
  BY <1>3, <1>6
<1>9. rest \subseteq Unmet(o, S) /\ (Cardinality(gone) > 0 => Unmet(o, S) # {})
  BY <1>1, <1>7
<1> QED
  BY <1>3, <1>4, <1>8, <1>9 DEF rest

-----------------------------------------------------------------------------
\* What is out is a finite set of operations, with nothing left unmet.
LEMMA PlacedMet ==
  ASSUME OrderState
  PROVE  /\ Placed \in SUBSET Ops(df)
         /\ \A o \in Placed : Unmet(o, Placed) = {}
<1>1. \A i \in 1 .. Len(out) : out[i] \in Ops(df) /\ Before(i) \subseteq Placed
  <2>1. out \in Seq(Ops(df)) /\ Len(out) \in Nat
    BY DEF OrderState, OrderStateOK
  <2> QED
    BY <2>1 DEF Placed, Before
<1>2. \A i \in 1 .. Len(out) : Unmet(out[i], Before(i)) = {}
  BY DEF OrderState, LeastSoFar, FirstAt
<1> QED
  BY <1>1, <1>2 DEF Placed, Unmet

\* The loop starts with nothing out.
LEMMA StartingOK == GraphOK /\ Starting => OrderState
<1> SUFFICES ASSUME GraphOK, Starting PROVE OrderState
  OBVIOUS
<1> USE DEF Starting, StartsWith
<1>1. Len(out) = 0 /\ Placed = {}
  BY DEF Placed
<1>2. \A o \in Ops(df) : Unmet(o, {}) = {e \in Links(df) : e.to = o}
  BY DEF Unmet
<1>3. \A o \in Ops(df) : indegree[o] = Cardinality(Unmet(o, {})) /\ indegree[o] \in Nat
  BY <1>2, UnmetFinite DEF GraphOK, Graph, InDegree
<1>4. OrderStateOK
  <2>1. out = << >> /\ out \in Seq(Ops(df))
    OBVIOUS
  <2>2. indegree \in [Ops(df) -> Nat] /\ ready \subseteq Ops(df)
    BY <1>3 DEF InDegree
  <2> QED
    BY <2>1, <2>2 DEF OrderStateOK
<1>5. Counted
  BY <1>1, <1>3 DEF Counted, InDegree
<1>6. Cardinality(Placed) = Len(out)
  BY <1>1, FS_EmptySet
<1> QED
  BY <1>1, <1>4, <1>5, <1>6 DEF OrderState, LeastSoFar

LEMMA OrderInvInit == OrderInit => OrderInv
<1> SUFFICES ASSUME OrderInit PROVE OrderInv
  OBVIOUS
<1>1. GraphOK /\ Starting
  BY DataflowsAssumption DEF OrderInit, GraphOK, Graph, Starting
<1>2. OrderState
  BY <1>1, StartingOK
<1> QED
  BY <1>1, <1>2 DEF Starting, StartsWith, OrderInv, OrderState, OrderTypeOK, Ended

\* One iteration: the first ready operation takes the next place.
LEMMA NextReadyPreserves == OrderState /\ NextReady => OrderState'
<1> SUFFICES ASSUME OrderState, NextReady PROVE OrderState'
  OBVIOUS
<1> DEFINE n == First(ready)
<1>1. /\ phase = "ordering" /\ df' = df /\ phase' = phase
      /\ out' = Append(out, n)
      /\ indegree' = [o \in Ops(df) |-> indegree[o] - Closed(df, n)[o]]
      /\ ready' = (ready \ {n}) \cup {o \in Ops(df) : Closed(df, n)[o] > 0 /\ indegree'[o] = 0}
  BY DEF NextReady, Take
<1>2. GraphOK /\ GraphOK'
  BY <1>1 DEF OrderState, GraphOK, Graph, Ops
<1>3. ready \in SUBSET Nat /\ ready # {} /\ ready \subseteq Ops(df)
  BY <1>2 DEF OrderState, OrderStateOK, NextReady, GraphOK, Graph
<1>4. n \in ready /\ \A p \in ready : n <= p
  BY <1>3, FirstExists
<1>5. n \in Ops(df) \ Placed /\ indegree[n] = 0
  BY <1>4 DEF OrderState, Counted
<1>6. Placed \in SUBSET Ops(df) /\ \A o \in Placed : Unmet(o, Placed) = {}
  BY PlacedMet
<1>7. out \in Seq(Ops(df)) /\ n \in Ops(df)
  BY <1>5 DEF OrderState, OrderStateOK
<1> HIDE DEF n
<1>8. /\ Len(out') = Len(out) + 1 /\ out' \in Seq(Ops(df))
      /\ \A i \in 1 .. Len(out) : out'[i] = out[i]
      /\ out'[Len(out) + 1] = n
  BY <1>1, <1>7
<1>9. Placed' = Placed \cup {n}
  BY <1>8 DEF Placed
<1>10. \A o \in Ops(df) : /\ indegree'[o] \in Nat
                           /\ indegree'[o] = Cardinality(Unmet(o, Placed \cup {n}))
  <2>1. TAKE o \in Ops(df)
  <2>2. indegree[o] = Cardinality(Unmet(o, Placed))
    BY DEF OrderState, Counted
  <2>3. Cardinality(Unmet(o, Placed \cup {n})) = Cardinality(Unmet(o, Placed)) - Closed(df, n)[o]
    BY <1>2, <1>5, <1>6, UnmetAfter
  <2>4. Cardinality(Unmet(o, Placed \cup {n})) \in Nat
    BY <1>2, UnmetFinite DEF GraphOK, Graph
  <2> QED
    BY <1>1, <2>2, <2>3, <2>4
<1>11. \A o, S : Unmet(o, S)' = Unmet(o, S')
  BY <1>1 DEF Unmet, Links, Ops
<1>12. Counted'
  <2>1. \A o \in Ops(df) : indegree'[o] = Cardinality(Unmet(o, Placed)')
    BY <1>9, <1>10, <1>11
  <2>2. ready' \subseteq {o \in Ops(df) \ (Placed \cup {n}) : indegree'[o] = 0}
    <3>1. SUFFICES ASSUME NEW o \in ready' PROVE o \in Ops(df) \ (Placed \cup {n}) /\ indegree'[o] = 0
      OBVIOUS
    <3>2. CASE o \in ready /\ o # n
      <4>1. o \in Ops(df) \ Placed /\ indegree[o] = 0
        BY <3>2 DEF OrderState, Counted
      <4>2. Closed(df, n)[o] \in Nat /\ indegree'[o] = 0 - Closed(df, n)[o] /\ indegree'[o] \in Nat
        BY <1>1, <1>2, <1>5, <1>6, <1>10, <4>1, UnmetAfter
      <4> QED
        BY <3>2, <4>1, <4>2
    <3>3. CASE o \in Ops(df) /\ Closed(df, n)[o] > 0 /\ indegree'[o] = 0
      <4>1. Unmet(o, Placed) # {}
        BY <1>2, <1>5, <1>6, <3>3, UnmetAfter
      <4>2. Unmet(n, Placed) = {}
        BY <1>2, <1>5, UnmetFinite DEF OrderState, Counted, GraphOK, Graph
      <4> QED
        BY <1>6, <3>3, <4>1, <4>2
    <3> QED
      BY <1>1, <3>1, <3>2, <3>3
  <2>3. {o \in Ops(df) \ (Placed \cup {n}) : indegree'[o] = 0} \subseteq ready'
    <3>1. SUFFICES ASSUME NEW o \in Ops(df) \ (Placed \cup {n}), indegree'[o] = 0 PROVE o \in ready'
      OBVIOUS
    <3>2. Closed(df, n)[o] \in Nat /\ indegree'[o] = indegree[o] - Closed(df, n)[o] /\ indegree[o] \in Nat
      BY <1>1, <1>2, <1>5, <1>6, UnmetAfter DEF OrderState, OrderStateOK
    <3>3. CASE Closed(df, n)[o] = 0
      BY <1>1, <3>1, <3>2, <3>3 DEF OrderState, Counted
    <3> QED
      BY <1>1, <3>1, <3>2, <3>3
  <2> QED
    BY <1>1, <1>9, <2>1, <2>2, <2>3 DEF Counted, Ops
<1>13. OrderStateOK'
  BY <1>1, <1>3, <1>8, <1>10, <1>12 DEF OrderState, OrderStateOK, Ops
<1>14. LeastSoFar'
  <2>1. SUFFICES ASSUME NEW i \in 1 .. Len(out) + 1 PROVE FirstAt(i)'
    BY <1>8 DEF LeastSoFar
  <2>2. CASE i \in 1 .. Len(out)
    <3>1. Before(i)' = Before(i) /\ out'[i] = out[i]
      BY <1>8, <2>2 DEF Before
    <3>2. FirstAt(i)
      BY <2>2 DEF OrderState, LeastSoFar
    <3> QED
      BY <1>1, <1>11, <3>1, <3>2 DEF FirstAt, Ops
  <2>3. CASE i = Len(out) + 1
    <3>1. Before(i)' = Placed /\ out'[i] = n
      BY <1>8, <2>3 DEF Before, Placed
    <3>2. \A o \in Ops(df) \ Placed : Unmet(o, Placed) = {} <=> o \in ready
      BY <1>2, UnmetFinite DEF OrderState, Counted, GraphOK, Graph
    <3> QED
      BY <1>1, <1>4, <1>5, <1>11, <3>1, <3>2 DEF FirstAt, Ops
  <2> QED
    BY <2>1, <2>2, <2>3
<1>15. Cardinality(Placed') = Len(out')
  <2>1. IsFiniteSet(Placed)
    BY <1>2, <1>6, FS_Subset DEF GraphOK, Graph
  <2> QED
    BY <1>5, <1>8, <1>9, <2>1, FS_AddElement DEF OrderState
<1> QED
  BY <1>2, <1>12, <1>13, <1>14, <1>15 DEF OrderState

\* A step that leaves the graph, the counters and the order alone keeps what is said of them.
LEMMA OrderUnchanged ==
  ASSUME OrderState, df' = df, indegree' = indegree, ready' = ready, out' = out
  PROVE  OrderState'
<1>1. Placed' = Placed
  BY DEF Placed
<1>2. \A o, S : Unmet(o, S)' = Unmet(o, S')
  BY DEF Unmet, Links, Ops
<1>3. GraphOK' /\ OrderStateOK'
  BY DEF OrderState, GraphOK, Graph, OrderStateOK, Ops
<1>4. Counted'
  <2>1. \A o \in Ops(df) : indegree[o] = Cardinality(Unmet(o, Placed)')
    BY <1>1, <1>2 DEF OrderState, Counted
  <2> QED
    BY <1>1, <2>1 DEF OrderState, Counted, Ops
<1>5. LeastSoFar'
  <2>1. \A i : Before(i)' = Before(i)
    BY DEF Before
  <2>2. \A i : FirstAt(i) => FirstAt(i)'
    BY <1>2, <2>1 DEF FirstAt, Ops
  <2> QED
    BY <2>2 DEF OrderState, LeastSoFar
<1>6. Cardinality(Placed') = Len(out')
  BY <1>1 DEF OrderState
<1> QED
  BY <1>3, <1>4, <1>5, <1>6 DEF OrderState

LEMMA OrderStepOK == OrderState /\ OrderNext => OrderState'
<1>1. ASSUME OrderState, EndOrder PROVE OrderState'
  BY <1>1, OrderUnchanged DEF EndOrder
<1> QED
  BY <1>1, NextReadyPreserves DEF OrderNext

LEMMA OrderInvariant == OrderSpec => []OrderInv
<1>1. OrderInv /\ [OrderNext]_<<df, orderVars>> => OrderInv'
  <2> SUFFICES ASSUME OrderInv, [OrderNext]_<<df, orderVars>> PROVE OrderInv'
    OBVIOUS
  <2>1. OrderState
    BY DEF OrderInv
  <2>2. CASE NextReady
    <3>1. OrderState'
      BY <2>1, <2>2, OrderStepOK DEF OrderNext
    <3> QED
      BY <2>2, <3>1 DEF NextReady, OrderInv, OrderState, OrderTypeOK, Ended
  <2>3. CASE EndOrder
    <3>1. OrderState'
      BY <2>1, <2>3, OrderStepOK DEF OrderNext
    <3> QED
      BY <2>3, <3>1 DEF EndOrder, OrderInv, OrderState, OrderTypeOK, Ended, Ops
  <2>4. CASE UNCHANGED <<df, orderVars>>
    <3>1. UNCHANGED <<df, phase, indegree, ready, out>>
      BY <2>4 DEF orderVars
    <3>2. OrderState'
      BY <2>1, <3>1, OrderUnchanged
    <3> QED
      BY <3>1, <3>2 DEF OrderInv, OrderState, OrderTypeOK, Ended, Ops
  <2> QED
    BY <2>2, <2>3, <2>4 DEF OrderNext
<1> QED
  BY <1>1, OrderInvInit, PTL DEF OrderSpec

\* The counts tell a finished order from a cycle.
LEMMA OrderInvSuffices == OrderInv => OrderIsLeastExtension /\ CycleIsReal
<1> SUFFICES ASSUME OrderInv PROVE OrderIsLeastExtension /\ CycleIsReal
  OBVIOUS
<1>1. /\ IsFiniteSet(Ops(df)) /\ Placed \in SUBSET Ops(df)
      /\ Cardinality(Placed) = Len(out)
  BY PlacedMet DEF OrderInv, OrderState, GraphOK, Graph
<1>2. ASSUME phase \notin {"ordering", "cycle"} PROVE Placed = Ops(df)
  <2>1. Len(out) = Cardinality(Ops(df))
    BY <1>2 DEF OrderInv, Ended
  <2> QED
    BY <1>1, <2>1, FS_Subset
<1>3. ASSUME phase = "cycle"
      PROVE  LET left == Ops(df) \ Placed
             IN  left # {} /\ \A o \in left : \E e \in Links(df) : e.to = o /\ e.from \in left
  <2>1. Len(out) # Cardinality(Ops(df)) /\ ready = {}
    BY <1>3 DEF OrderInv, Ended
  <2>2. Ops(df) \ Placed # {}
    <3>1. Placed # Ops(df)
      BY <1>1, <2>1, Zenon
    <3> QED
      BY <1>1, <3>1
  <2>3. ASSUME NEW o \in Ops(df) \ Placed
        PROVE  \E e \in Links(df) : e.to = o /\ e.from \in Ops(df) \ Placed
    <3>1. Cardinality(Unmet(o, Placed)) # 0
      BY <2>1 DEF OrderInv, OrderState, Counted
    <3>2. Unmet(o, Placed) # {}
      BY <3>1, FS_EmptySet
    <3> QED
      BY <3>2 DEF Unmet, Links
  <2> QED
    BY <2>2, <2>3
<1> QED
  BY <1>2, <1>3 DEF OrderIsLeastExtension, CycleIsReal, OrderInv, OrderState, LeastSoFar, FirstAt

-----------------------------------------------------------------------------
\* The ordering state keeps its type, and out lists operations only.
THEOREM OrderTypeCorrect == OrderSpec => []OrderTypeOK
<1>1. OrderInv => OrderTypeOK
  BY DEF OrderInv
<1> QED
  BY <1>1, OrderInvariant, PTL

\* topological_order: each place holds the first operation by declaration that is free,
\* and a finished order has every operation.
THEOREM LeastExtension == OrderSpec => []OrderIsLeastExtension
  BY OrderInvariant, OrderInvSuffices, PTL

\* topological_order raises its error for a real cycle only.
THEOREM CycleCorrect == OrderSpec => []CycleIsReal
  BY OrderInvariant, OrderInvSuffices, PTL

-----------------------------------------------------------------------------
(* What a finished order says of the dataflow. *)

\* Among finitely or infinitely many numbered things one has the least number.
LEMMA FirstNumbered ==
  ASSUME NEW S, S # {}, NEW f, \A o \in S : f[o] \in Nat
  PROVE  \E o \in S : \A p \in S : f[o] <= f[p]
<1> DEFINE I == {f[o] : o \in S}
<1>1. I \in SUBSET Nat /\ I # {}
  OBVIOUS
<1>2. First(I) \in I /\ \A i \in I : First(I) <= i
  <2> HIDE DEF I
  <2> QED
    BY <1>1, FirstExists
<1>3. PICK o \in S : f[o] = First(I)
  BY <1>2
<1> QED
  BY <1>2, <1>3

\* No operation is out twice.
LEMMA OutOnce ==
  ASSUME OrderState, NEW i \in 1 .. Len(out), NEW j \in 1 .. Len(out), out[i] = out[j]
  PROVE  i = j
<1>1. Len(out) \in Nat
  BY DEF OrderState, OrderStateOK
<1>2. \A k \in 1 .. Len(out) : out[k] \notin Before(k)
  BY DEF OrderState, LeastSoFar, FirstAt
<1>3. ~ (i < j) /\ ~ (j < i)
  BY <1>1, <1>2 DEF Before
<1> QED
  BY <1>1, <1>3

LEMMA PlaceOf ==
  ASSUME OrderState, NEW o \in Placed
  PROVE  Place(o) \in 1 .. Len(out) /\ out[Place(o)] = o
<1>1. \E i \in 1 .. Len(out) : out[i] = o
  BY DEF Placed
<1> QED
  BY <1>1 DEF Place

\* An edge goes from an earlier place to a later one.
LEMMA EdgesGoOn ==
  ASSUME OrderState, NEW e \in Links(df), e.to \in Placed
  PROVE  e.from \in Placed /\ Place(e.from) < Place(e.to)
<1> DEFINE i == Place(e.to)
<1>1. i \in 1 .. Len(out) /\ out[i] = e.to /\ Len(out) \in Nat
  BY PlaceOf DEF OrderState, OrderStateOK
<1>2. Unmet(out[i], Before(i)) = {}
  BY <1>1 DEF OrderState, LeastSoFar, FirstAt
<1>3. e.from \in Before(i)
  BY <1>1, <1>2 DEF Unmet
<1> HIDE DEF i
<1>4. PICK j \in 1 .. i - 1 : out[j] = e.from
  BY <1>3 DEF Before
<1>5. j \in 1 .. Len(out) /\ e.from \in Placed
  BY <1>1, <1>4 DEF Placed
<1>6. Place(e.from) = j
  BY <1>4, <1>5, PlaceOf, OutOnce
<1> QED
  BY <1>1, <1>4, <1>5, <1>6 DEF i

\* Operations have a number that grows along every edge.
Numbered(d, place) ==
  /\ \A o \in Ops(d) : place[o] \in Nat
  /\ \A e \in d.edges : place[e.from] < place[e.to]

LEMMA OrderNumbers ==
  ASSUME OrderState, FlowOK(df), Placed = Ops(df)
  PROVE  Numbered(df, [o \in Ops(df) |-> Place(o)])
<1>1. \A e \in df.edges : e \in Links(df) /\ e.from \in Ops(df) /\ e.to \in Ops(df)
  BY DEF FlowOK, Links
<1>2. \A o \in Ops(df) : Place(o) \in Nat
  <2>1. Len(out) \in Nat
    BY DEF OrderState, OrderStateOK
  <2> QED
    BY <2>1, PlaceOf
<1>3. \A e \in df.edges : Place(e.from) < Place(e.to)
  BY <1>1, EdgesGoOn
<1> QED
  BY <1>1, <1>2, <1>3 DEF Numbered

\* So a dataflow that could be ordered has no cycle.
LEMMA NumberedAcyclic ==
  ASSUME NEW d, NEW place, Numbered(d, place)
  PROVE  Acyclic(d)
<1> SUFFICES ASSUME NEW S \in SUBSET Ops(d), S # {}
             PROVE  \E o \in S : \A e \in d.edges : e.to = o => e.from \notin S
  BY DEF Acyclic
<1>1. PICK o \in S : \A p \in S : place[o] <= place[p]
  BY FirstNumbered DEF Numbered
<1>2. ASSUME NEW e \in d.edges, e.to = o, e.from \in S PROVE FALSE
  <2>1. place[e.from] < place[o] /\ place[o] <= place[e.from]
    BY <1>1, <1>2 DEF Numbered
  <2>2. place[e.from] \in Nat /\ place[o] \in Nat
    BY <1>2 DEF Numbered
  <2> QED
    BY <2>1, <2>2
<1> QED
  BY <1>2

-----------------------------------------------------------------------------
(* What _walk_up meets: the least set that holds the first outputs and, with  *)
(* an output of an operation that passes, all upstreams of that operation.    *)

\* What holds of 0, and of a number when of the one before, holds up to N.
LEMMA UpTo ==
  ASSUME NEW N \in Nat, NEW G, 0 \in G, \A n \in 1 .. N : n - 1 \in G => n \in G
  PROVE  \A n \in 0 .. N : n \in G
<1> DEFINE bad == {n \in 0 .. N : n \notin G}
<1>1. SUFFICES ASSUME bad # {} PROVE FALSE
  OBVIOUS
<1>2. First(bad) \in bad /\ \A p \in bad : First(bad) <= p
  <2>1. bad \in SUBSET Nat
    OBVIOUS
  <2> HIDE DEF bad
  <2> QED
    BY <1>1, <2>1, FirstExists
<1>3. First(bad) \in 1 .. N /\ First(bad) - 1 \in 0 .. N /\ First(bad) - 1 \notin bad
  BY <1>2
<1> QED
  BY <1>2, <1>3

\* The function by which Met is defined exists.
LEMMA MetSteps ==
  ASSUME NEW d, NEW keys, Cardinality(Ops(d)) \in Nat
  PROVE  \E met : /\ met[0] = keys
                  /\ \A n \in 1 .. Cardinality(Ops(d)) : met[n] = WithNext(d, met[n - 1])
                  /\ Met(d, keys) = met[Cardinality(Ops(d))]
<1> DEFINE N == Cardinality(Ops(d))
           Walks(f, n) == f[0] = keys /\ \A i \in 1 .. n : f[i] = WithNext(d, f[i - 1])
           G == {n \in Nat : \E f : Walks(f, n)}
<1>1. 0 \in G
  <2>1. Walks([i \in 0 .. 0 |-> keys], 0)
    OBVIOUS
  <2> QED
    BY <2>1
<1>2. ASSUME NEW n \in 1 .. N, n - 1 \in G PROVE n \in G
  <2>1. PICK f : Walks(f, n - 1)
    BY <1>2
  <2> DEFINE g == [i \in 0 .. n |-> IF i = n THEN WithNext(d, f[n - 1]) ELSE f[i]]
  <2>2. g[0] = keys
    BY <2>1
  <2>3. ASSUME NEW i \in 1 .. n PROVE g[i] = WithNext(d, g[i - 1])
    <3>1. i - 1 \in 0 .. n /\ g[i - 1] = f[i - 1]
      OBVIOUS
    <3>2. i # n => i \in 1 .. n - 1 /\ g[i] = f[i]
      OBVIOUS
    <3>3. i = n => g[i] = WithNext(d, f[i - 1])
      OBVIOUS
    <3> HIDE DEF g
    <3> QED
      BY <2>1, <3>1, <3>2, <3>3
  <2> HIDE DEF g
  <2>4. Walks(g, n)
    BY <2>2, <2>3
  <2> HIDE DEF Walks
  <2> QED
    BY <2>4
<1>3. N \in G
  <2>1. \A n \in 0 .. N : n \in G
    <3> HIDE DEF G, N
    <3>1. N \in Nat
      BY DEF N
    <3> QED
      BY <1>1, <1>2, <3>1, UpTo
  <2> QED
    BY <2>1
<1>4. PICK f : Walks(f, N)
  BY <1>3
<1> DEFINE Rec(h) == h = [n \in 0 .. N |-> IF n = 0 THEN keys ELSE WithNext(d, h[n - 1])]
           met    == CHOOSE h : Rec(h)
<1>5. Rec([n \in 0 .. N |-> f[n]])
  <2> DEFINE h == [n \in 0 .. N |-> f[n]]
  <2>1. ASSUME NEW n \in 0 .. N
        PROVE  h[n] = IF n = 0 THEN keys ELSE WithNext(d, h[n - 1])
    <3>1. n # 0 => n \in 1 .. N /\ h[n - 1] = f[n - 1]
      OBVIOUS
    <3>2. h[n] = f[n]
      OBVIOUS
    <3> HIDE DEF h
    <3> QED
      BY <1>4, <3>1, <3>2
  <2>2. h = [n \in 0 .. N |-> IF n = 0 THEN keys ELSE WithNext(d, h[n - 1])]
    <3>1. h = [n \in 0 .. N |-> h[n]]
      OBVIOUS
    <3> HIDE DEF h
    <3> QED
      BY <2>1, <3>1
  <2> QED
    BY <2>2, Zenon
<1>6. Rec(met)
  <2> HIDE DEF Rec
  <2> QED
    BY <1>5
<1>7. Met(d, keys) = met[N]
  BY DEF Met
<1> HIDE DEF met
<1>8. met[0] = keys /\ \A n \in 1 .. N : met[n] = WithNext(d, met[n - 1])
  BY <1>6
<1> QED
  BY <1>7, <1>8

\* A set of outputs that holds the upstreams of its operations that pass.
ClosedUp(d, T) == \A k \in T : Passes(d, k[1]) => Upstreams(d, k[1], In) \subseteq T

LEMMA MetHoldsFirst ==
  ASSUME NEW d, NEW keys, Cardinality(Ops(d)) \in Nat
  PROVE  keys \subseteq Met(d, keys)
<1> DEFINE N == Cardinality(Ops(d))
<1>1. PICK met : /\ met[0] = keys
                 /\ \A n \in 1 .. N : met[n] = WithNext(d, met[n - 1])
                 /\ Met(d, keys) = met[N]
  BY MetSteps
<1> DEFINE G == {n \in 0 .. N : keys \subseteq met[n]}
<1>2. 0 \in G
  BY <1>1
<1>3. ASSUME NEW n \in 1 .. N, n - 1 \in G PROVE n \in G
  BY <1>1, <1>3 DEF WithNext
<1> HIDE DEF G, N
<1>4. \A n \in 0 .. N : n \in G
  BY <1>2, <1>3, UpTo DEF N
<1> QED
  BY <1>1, <1>4 DEF G, N

\* It is the least such set.
LEMMA MetIsLeast ==
  ASSUME NEW d, NEW keys, Cardinality(Ops(d)) \in Nat,
         NEW T, keys \subseteq T, ClosedUp(d, T)
  PROVE  Met(d, keys) \subseteq T
<1> DEFINE N == Cardinality(Ops(d))
<1>1. PICK met : /\ met[0] = keys
                 /\ \A n \in 1 .. N : met[n] = WithNext(d, met[n - 1])
                 /\ Met(d, keys) = met[N]
  BY MetSteps
<1> DEFINE G == {n \in 0 .. N : met[n] \subseteq T}
<1>2. 0 \in G
  BY <1>1
<1>3. ASSUME NEW n \in 1 .. N, n - 1 \in G PROVE n \in G
  BY <1>1, <1>3 DEF WithNext, ClosedUp
<1> HIDE DEF G, N
<1>4. \A n \in 0 .. N : n \in G
  BY <1>2, <1>3, UpTo DEF N
<1> QED
  BY <1>1, <1>4 DEF G, N

\* As many rounds as there are operations are enough: each that is not the last meets
\* another operation that passes.
LEMMA MetIsClosed ==
  ASSUME NEW d, NEW keys, Graph(d), FlowOK(d)
  PROVE  ClosedUp(d, Met(d, keys))
<1> DEFINE N == Cardinality(Ops(d))
           passing(T) == {o \in Ops(d) : Passes(d, o) /\ \E k \in T : k[1] = o}
<1>1. N \in Nat /\ IsFiniteSet(Ops(d))
  BY FS_CardinalityType DEF Graph
<1>2. PICK met : /\ met[0] = keys
                 /\ \A n \in 1 .. N : met[n] = WithNext(d, met[n - 1])
                 /\ Met(d, keys) = met[N]
  BY <1>1, MetSteps
<1>3. \A T : /\ IsFiniteSet(passing(T))
             /\ Cardinality(passing(T)) \in Nat
             /\ Cardinality(passing(T)) <= N
  <2>1. TAKE T
  <2>2. passing(T) \in SUBSET Ops(d)
    OBVIOUS
  <2> HIDE DEF passing
  <2> QED
    BY <1>1, <2>2, FS_Subset, FS_CardinalityType
<1>4. \A o : Passes(d, o) => o \in Ops(d)
  BY DEF Passes, Upstreams, Into, FlowOK
<1>5. \A T : ClosedUp(d, T) \/ passing(T) # {}
  BY <1>4 DEF ClosedUp
<1> DEFINE G == {n \in 0 .. N : ClosedUp(d, met[n]) \/ Cardinality(passing(met[n])) > n}
<1>6. 0 \in G
  <2>1. passing(met[0]) # {} => Cardinality(passing(met[0])) # 0
    <3> HIDE DEF passing
    <3> QED
      BY <1>3, FS_EmptySet
  <2>2. passing(met[0]) # {} => Cardinality(passing(met[0])) > 0
    <3> HIDE DEF passing
    <3> QED
      BY <1>3, <2>1
  <2> HIDE DEF passing
  <2> QED
    BY <1>1, <1>5, <2>2
<1>7. ASSUME NEW n \in 1 .. N, n - 1 \in G PROVE n \in G
  <2>1. met[n] = WithNext(d, met[n - 1])
    BY <1>2
  <2>2. passing(met[n - 1]) \subseteq passing(met[n])
    BY <2>1 DEF WithNext
  <2>3. CASE ClosedUp(d, met[n - 1])
    <3>1. met[n] = met[n - 1]
      BY <2>1, <2>3 DEF WithNext, ClosedUp
    <3> QED
      BY <2>3, <3>1
  <2>4. CASE passing(met[n]) = passing(met[n - 1])
    <3>1. ASSUME NEW k \in met[n], Passes(d, k[1]) PROVE Upstreams(d, k[1], In) \subseteq met[n]
      <4>1. k[1] \in passing(met[n])
        BY <1>4, <3>1
      <4>2. PICK j \in met[n - 1] : j[1] = k[1]
        BY <2>4, <4>1
      <4> QED
        BY <2>1, <3>1, <4>2 DEF WithNext
    <3>2. ClosedUp(d, met[n])
      BY <3>1 DEF ClosedUp
    <3> QED
      BY <3>2
  <2>5. CASE ~ ClosedUp(d, met[n - 1]) /\ passing(met[n]) # passing(met[n - 1])
    <3>1. Cardinality(passing(met[n - 1])) > n - 1
      BY <1>7, <2>5
    <3>2. Cardinality(passing(met[n - 1])) < Cardinality(passing(met[n]))
      <4> HIDE DEF passing
      <4>1. passing(met[n - 1]) \in SUBSET passing(met[n])
        BY <2>2
      <4>2. /\ Cardinality(passing(met[n - 1])) <= Cardinality(passing(met[n]))
            /\ Cardinality(passing(met[n])) # Cardinality(passing(met[n - 1]))
        BY <1>3, <2>5, <4>1, FS_Subset
      <4> QED
        BY <1>3, <4>2
    <3> HIDE DEF passing
    <3> QED
      BY <1>3, <3>1, <3>2
  <2> QED
    BY <2>3, <2>4, <2>5
<1> HIDE DEF passing, G
<1>8. \A n \in 0 .. N : n \in G
  <2> HIDE DEF N
  <2> QED
    BY <1>1, <1>6, <1>7, UpTo
<1>9. N \in G
  BY <1>1, <1>8
<1>10. ~ (Cardinality(passing(met[N])) > N)
  BY <1>1, <1>3
<1> QED
  BY <1>2, <1>9, <1>10 DEF G

-----------------------------------------------------------------------------
(* What can be fused. *)

Outputs(d) == {<<e.from, e.group>> : e \in d.edges}

LEMMA OutputsFinite ==
  ASSUME NEW d, IsFiniteSet(d.edges), NEW T \in SUBSET Outputs(d)
  PROVE  IsFiniteSet(T)
<1> DEFINE f == [e \in d.edges |-> <<e.from, e.group>>]
<1>1. f \in Surjection(d.edges, Outputs(d))
  BY DEF Surjection, Outputs
<1>2. IsFiniteSet(Outputs(d))
  BY <1>1, FS_Surjection
<1> QED
  BY <1>2, FS_Subset

\* A merge has two different upstreams.
Joins(d, o, s) == \E x, y \in Upstreams(d, o, s) : x # y

LEMMA MergesJoin ==
  ASSUME NEW d, IsFiniteSet(d.edges), NEW o, NEW s
  PROVE  s \in Merges(d, o) <=> Joins(d, o, s)
<1> DEFINE U == Upstreams(d, o, s)
<1>1. U \in SUBSET Outputs(d)
  BY DEF Upstreams, Into, Outputs
<1>2. IsFiniteSet(U) /\ Cardinality(U) \in Nat
  BY <1>1, OutputsFinite, FS_CardinalityType
<1>3. U # {} => s \in Slots(d, o)
  BY DEF Upstreams, Into, Slots
<1>4. Cardinality(U) > 1 <=> Cardinality(U) # 0 /\ Cardinality(U) # 1
  BY <1>2
<1> HIDE DEF U
<1>5. Cardinality(U) = 0 <=> U = {}
  BY <1>2, FS_EmptySet
<1>6. Cardinality(U) = 1 <=> \E x : U = {x}
  BY <1>2, FS_Singleton
<1>7. (U # {} /\ ~ \E x : U = {x}) <=> \E x, y \in U : x # y
  OBVIOUS
<1> QED
  BY <1>3, <1>4, <1>5, <1>6, <1>7 DEF U, Merges, Joins

\* Walking up stays in the dataflow, and an operation that passes is in it.
LEMMA MetInOutputs ==
  ASSUME NEW d, Graph(d), NEW keys \in SUBSET Outputs(d)
  PROVE  Met(d, keys) \subseteq Outputs(d)
<1>1. Cardinality(Ops(d)) \in Nat
  BY FS_CardinalityType DEF Graph
<1>2. ClosedUp(d, Outputs(d))
  BY DEF ClosedUp, Upstreams, Into, Outputs
<1> QED
  BY <1>1, <1>2, MetIsLeast

LEMMA UpstreamsAre ==
  ASSUME NEW d, NEW o, NEW s
  PROVE  /\ Upstreams(d, o, s) \in SUBSET Outputs(d)
         /\ \A u : u \in Upstreams(d, o, s) <=>
              \E e \in d.edges : e.to = o /\ e.slot = s /\ u = <<e.from, e.group>>
  BY DEF Upstreams, Into, Outputs

LEMMA PassingOps ==
  ASSUME NEW d, FlowOK(d), NEW o, Passes(d, o)
  PROVE  o \in Ops(d)
  BY DEF Passes, Upstreams, Into, FlowOK

\* The slot s of m takes its rows from the output a, the anchor, through the operations of
\* R, the region: all of them pass, and all inputs of all of them are a or in the region.
Fusable(d, m, s, a, R) ==
  /\ R \subseteq Ops(d) /\ m \in Ops(d) \ R
  /\ a = <<a[1], a[2]>> /\ a[1] \in Ops(d) \ R
  /\ ~ Passes(d, a[1])
  /\ \A r \in R : Passes(d, r)
  /\ \A e \in d.edges : (e.to \in R /\ e.slot = In) \/ (e.to = m /\ e.slot = s) =>
       <<e.from, e.group>> = a \/ e.from \in R
  /\ \E e \in d.edges : e.to = m /\ e.slot = s /\ e.from \in R
  /\ \A e \in d.edges : RowPreserving(d.op[e.to]) /\ e.slot # In =>
       e.from \notin R /\ e.from # a[1]

LEMMA RegionFusable ==
  ASSUME NEW d, Graph(d), FlowOK(d), NEW m \in Ops(d), NEW s \in Merges(d, m),
         Cardinality(Boundaries(d, Upstreams(d, m, s))) = 1,
         NEW a \in Boundaries(d, Upstreams(d, m, s)),
         m \notin Region(d, Upstreams(d, m, s))
  PROVE  Fusable(d, m, s, a, Region(d, Upstreams(d, m, s)))
<1> DEFINE K == Upstreams(d, m, s)
           M == Met(d, K)
           R == Region(d, K)
<1>1. Cardinality(Ops(d)) \in Nat /\ IsFiniteSet(d.edges)
  BY FS_CardinalityType DEF Graph
<1>2. K \subseteq M /\ ClosedUp(d, M) /\ M \in SUBSET Outputs(d)
  BY <1>1, UpstreamsAre, MetHoldsFirst, MetIsClosed, MetInOutputs
<1>3. Boundaries(d, K) = {a}
  <2>1. Boundaries(d, K) \in SUBSET Outputs(d)
    BY <1>2 DEF Boundaries
  <2>2. IsFiniteSet(Boundaries(d, K))
    BY <1>1, <2>1, OutputsFinite
  <2>3. \E x : Boundaries(d, K) = {x}
    BY <2>2, FS_Singleton
  <2> QED
    BY <2>3
<1>4. \A k \in M : IF Passes(d, k[1]) THEN k[1] \in R ELSE k = a
  BY <1>3 DEF Boundaries, Region
<1>5. \A r \in R : Passes(d, r) /\ r \in Ops(d) /\ \E k \in M : k[1] = r
  BY PassingOps DEF Region
<1>6. a \in M /\ ~ Passes(d, a[1])
  BY DEF Boundaries
<1> HIDE DEF K, M, R
<1>7. a = <<a[1], a[2]>> /\ a[1] \in Ops(d) \ R
  BY <1>2, <1>5, <1>6 DEF Outputs, FlowOK
<1>8. ASSUME NEW e \in d.edges, (e.to \in R /\ e.slot = In) \/ (e.to = m /\ e.slot = s)
      PROVE  <<e.from, e.group>> \in M
  <2>1. CASE e.to \in R /\ e.slot = In
    <3>1. PICK k \in M : k[1] = e.to
      BY <1>5, <2>1
    <3>2. <<e.from, e.group>> \in Upstreams(d, k[1], In)
      BY <2>1, <3>1, UpstreamsAre
    <3> QED
      BY <1>2, <1>5, <2>1, <3>1, <3>2 DEF ClosedUp
  <2>2. CASE e.to = m /\ e.slot = s
    <3>1. <<e.from, e.group>> \in K
      BY <2>2, UpstreamsAre DEF K
    <3> QED
      BY <1>2, <3>1
  <2> QED
    BY <1>8, <2>1, <2>2
<1>9. \A e \in d.edges : (e.to \in R /\ e.slot = In) \/ (e.to = m /\ e.slot = s) =>
        <<e.from, e.group>> = a \/ e.from \in R
  <2> SUFFICES ASSUME NEW e \in d.edges, (e.to \in R /\ e.slot = In) \/ (e.to = m /\ e.slot = s)
               PROVE  <<e.from, e.group>> = a \/ e.from \in R
    OBVIOUS
  <2>1. <<e.from, e.group>> \in M /\ <<e.from, e.group>>[1] = e.from
    BY <1>8
  <2> QED
    BY <1>4, <2>1
<1>10. PICK x \in K, y \in K : x # y
  BY <1>1, MergesJoin DEF K, Joins
<1>11. \E e \in d.edges : e.to = m /\ e.slot = s /\ e.from \in R
  <2>1. x[1] \in R \/ y[1] \in R
    BY <1>2, <1>4, <1>10
  <2>2. \A u \in K : \E e \in d.edges : e.to = m /\ e.slot = s /\ u[1] = e.from
    BY UpstreamsAre DEF K
  <2> QED
    BY <1>10, <2>1, <2>2
<1>12. \A k \in M : \E e \in d.edges : /\ k = <<e.from, e.group>>
                                       /\ (e.to \in R /\ e.slot = In) \/ (e.to = m /\ e.slot = s)
  <2> DEFINE T == {k \in M : \E e \in d.edges :
                     /\ k = <<e.from, e.group>>
                     /\ (e.to \in R /\ e.slot = In) \/ (e.to = m /\ e.slot = s)}
  <2>1. K \subseteq T
    BY <1>2, UpstreamsAre DEF K
  <2>2. ASSUME NEW k \in T, Passes(d, k[1]), NEW u \in Upstreams(d, k[1], In) PROVE u \in T
    <3>1. k[1] \in R /\ u \in M
      BY <1>2, <1>4, <2>2 DEF ClosedUp
    <3>2. PICK e \in d.edges : e.to = k[1] /\ e.slot = In /\ u = <<e.from, e.group>>
      BY UpstreamsAre
    <3> QED
      BY <3>1, <3>2
  <2> HIDE DEF T
  <2>3. M \subseteq T
    BY <1>1, <2>1, <2>2, MetIsLeast DEF ClosedUp, M
  <2> QED
    BY <2>3 DEF T
<1>13. ASSUME NEW e \in d.edges, RowPreserving(d.op[e.to]), e.slot # In
       PROVE  e.from \notin R /\ e.from # a[1]
  <2> SUFFICES ASSUME NEW k \in M, k[1] = e.from PROVE FALSE
    BY <1>5, <1>6
  <2>1. PICK f \in d.edges : /\ k = <<f.from, f.group>>
                             /\ (f.to \in R /\ f.slot = In) \/ (f.to = m /\ f.slot = s)
    BY <1>12
  <2>2. \A g \in d.edges : g.from = e.from \/ (g.to = e.to /\ g.slot = e.slot) => g = e
    BY <1>13 DEF FlowOK
  <2>3. f.from = e.from
    BY <2>1
  <2>4. f = e
    BY <2>2, <2>3
  <2>5. e.to = m /\ e.slot = s
    BY <1>13, <2>1, <2>4
  <2>6. \A u \in K : u = k
    BY <2>1, <2>2, <2>4, <2>5, UpstreamsAre DEF K
  <2> QED
    BY <1>10, <2>6
<1> QED
  BY <1>5, <1>6, <1>7, <1>9, <1>11, <1>13 DEF Fusable, K, R

-----------------------------------------------------------------------------
(* The edges of the fused dataflow. *)

\* A sequence holds each element of a set once.
Lists(order, R) ==
  /\ order \in Seq(R)
  /\ \A r \in R : \E i \in 1 .. Len(order) : order[i] = r
  /\ \A i, j \in 1 .. Len(order) : order[i] = order[j] => i = j

Fusion(d, m, s, a, R, order) ==
  /\ Graph(d) /\ FlowOK(d)
  /\ Fusable(d, m, s, a, R)
  /\ Lists(order, R)

\* A slot outside of the region that takes rows from it.
Fed(d, R, o, t) == \E e \in d.edges : e.to = o /\ e.slot = t /\ e.from \in R

LEMMA ListEnds ==
  ASSUME NEW R, NEW order, Lists(order, R), R # {}
  PROVE  /\ Len(order) \in Nat \ {0}
         /\ order[1] \in R
         /\ Last(order) = order[Len(order)] /\ Last(order) \in R
         /\ \A i \in 1 .. Len(order) : order[i] \in R
<1>1. Len(order) \in Nat /\ \A i \in 1 .. Len(order) : order[i] \in R
  BY DEF Lists
<1>2. Len(order) # 0
  BY DEF Lists
<1> QED
  BY <1>1, <1>2 DEF Last

LEMMA LeavingAre ==
  ASSUME NEW d, NEW a, NEW R, NEW e
  PROVE  e \in Leaving(d, a, R) <=>
           /\ e \in d.edges /\ e.to \notin R
           /\ e.from \in R \/ (<<e.from, e.group>> = a /\ Fed(d, R, e.to, e.slot))
<1>1. ASSUME e \in d.edges, e.to \notin R
      PROVE  <<e.to, e.slot>> \in {<<f.to, f.slot>> : f \in {g \in {h \in d.edges : h.to \notin R} : g.from \in R}}
               <=> Fed(d, R, e.to, e.slot)
  BY <1>1 DEF Fed
<1> QED
  BY <1>1 DEF Leaving

LEMMA KeptAre ==
  ASSUME NEW d, NEW m, NEW s, NEW a, NEW R, NEW order, Fusion(d, m, s, a, R, order), NEW e
  PROVE  e \in Kept(d, a, R) <=>
           /\ e \in d.edges
           /\ \/ e.to \in R /\ e.slot # In
              \/ e.to \notin R /\ e \notin Leaving(d, a, R)
<1>1. ASSUME e \in d.edges, e.to \in R
      PROVE  e.slot # In <=> e.from \notin R /\ e.from # a[1]
  <2>1. RowPreserving(d.op[e.to])
    BY <1>1 DEF Fusion, Fusable, Passes
  <2>2. e.slot = In => <<e.from, e.group>> = a \/ e.from \in R
    BY <1>1 DEF Fusion, Fusable
  <2>3. <<e.from, e.group>> = a => e.from = a[1]
    BY DEF Fusion, Fusable
  <2> QED
    BY <1>1, <2>1, <2>2, <2>3 DEF Fusion, Fusable
<1> QED
  BY <1>1 DEF Kept

\* What an edge of the fused dataflow is.
LEMMA FusedEdges ==
  ASSUME NEW d, NEW a, NEW R, NEW order, NEW e \in Fused(d, a, R, order).edges
  PROVE  \/ e = Edge(a[1], a[2], order[1], In, e.columns)
         \/ \E i \in 1 .. Len(order) - 1 : e = Edge(order[i], "out", order[i + 1], In, e.columns)
         \/ e \in Kept(d, a, R)
         \/ \E f \in Leaving(d, a, R) : e = Edge(Last(order), "out", f.to, f.slot, e.columns)
<1> DEFINE name == WideName(d, a, order)
<1>1. Fused(d, a, R, order).edges
        = Chain(d, a, order, name) \cup Kept(d, a, R) \cup Rerouted(d, a, R, name, Last(order))
  BY DEF Fused
<1> HIDE DEF name
<1>2. ASSUME e \in Chain(d, a, order, name)
      PROVE  \/ e = Edge(a[1], a[2], order[1], In, e.columns)
             \/ \E i \in 1 .. Len(order) - 1 : e = Edge(order[i], "out", order[i + 1], In, e.columns)
  BY <1>2 DEF Chain, Edge
<1>3. ASSUME e \in Rerouted(d, a, R, name, Last(order))
      PROVE  \E f \in Leaving(d, a, R) : e = Edge(Last(order), "out", f.to, f.slot, e.columns)
  <2>1. PICK f \in Leaving(d, a, R) :
          \E columns : e = Edge(Last(order), "out", f.to, f.slot, columns)
    BY <1>3 DEF Rerouted
  <2> QED
    BY <2>1 DEF Edge
<1> QED
  BY <1>1, <1>2, <1>3

\* Which edges it has.
LEMMA EdgesFused ==
  ASSUME NEW d, NEW a, NEW R, NEW order
  PROVE  LET E == Fused(d, a, R, order).edges
         IN  /\ \E e \in E : e.from = a[1] /\ e.group = a[2] /\ e.to = order[1] /\ e.slot = In
             /\ \A i \in 1 .. Len(order) - 1 :
                  \E e \in E : e.from = order[i] /\ e.group = "out" /\ e.to = order[i + 1] /\ e.slot = In
             /\ Kept(d, a, R) \subseteq E
             /\ \A f \in Leaving(d, a, R) :
                  \E e \in E : /\ e.from = Last(order) /\ e.group = "out"
                               /\ e.to = f.to /\ e.slot = f.slot
<1> DEFINE name == WideName(d, a, order)
           E == Fused(d, a, R, order).edges
<1>1. E = Chain(d, a, order, name) \cup Kept(d, a, R) \cup Rerouted(d, a, R, name, Last(order))
  BY DEF Fused
<1> HIDE DEF name, E
<1>2. \E e \in Chain(d, a, order, name) :
        e.from = a[1] /\ e.group = a[2] /\ e.to = order[1] /\ e.slot = In
  <2>1. PICK columns : Edge(a[1], a[2], order[1], In, columns) \in Chain(d, a, order, name)
    BY DEF Chain
  <2> QED
    BY <2>1 DEF Edge
<1>3. ASSUME NEW i \in 1 .. Len(order) - 1
      PROVE  \E e \in Chain(d, a, order, name) :
               e.from = order[i] /\ e.group = "out" /\ e.to = order[i + 1] /\ e.slot = In
  <2>1. Edge(order[i], "out", order[i + 1], In, {}) \in Chain(d, a, order, name)
    BY DEF Chain
  <2> QED
    BY <2>1 DEF Edge
<1>4. ASSUME NEW f \in Leaving(d, a, R)
      PROVE  \E e \in Rerouted(d, a, R, name, Last(order)) :
               e.from = Last(order) /\ e.group = "out" /\ e.to = f.to /\ e.slot = f.slot
  <2>1. PICK columns : Edge(Last(order), "out", f.to, f.slot, columns)
                         \in Rerouted(d, a, R, name, Last(order))
    BY DEF Rerouted
  <2> QED
    BY <2>1 DEF Edge
<1> QED
  BY <1>1, <1>2, <1>3, <1>4 DEF E

\* A rewritten operation keeps its fields; a projection becomes a derivation.
LEMMA RewrittenKind ==
  ASSUME NEW d, NEW a, NEW order, NEW name, NEW n,
         {"kind", "match"} \subseteq DOMAIN d.op[order[n]]
  PROVE  LET op   == d.op[order[n]]
             wide == Rewritten(d, a, order, name, n)
         IN  /\ DOMAIN wide = DOMAIN op
             /\ wide.kind = IF op.kind = "project" THEN "derive" ELSE op.kind
             /\ wide.match = op.match
<1> DEFINE op == d.op[order[n]]
<1>1. ASSUME NEW kind, NEW out0, NEW assigns, NEW returns, NEW cond
      PROVE  LET q == [op EXCEPT !.kind = kind, !.out = out0, !.assigns = assigns,
                                 !.returns = returns, !.cond = cond]
             IN  DOMAIN q = DOMAIN op /\ q.kind = kind /\ q.match = op.match
  <2> HIDE DEF op
  <2> {"kind", "match"} \subseteq DOMAIN op
    BY DEF op
  <2> QED
    OBVIOUS
<1> QED
  BY <1>1 DEF Rewritten

\* Fusion keeps the operations, and which of them keep rows.
LEMMA FusedOps ==
  ASSUME NEW d, FlowOK(d), NEW a, NEW R, NEW order, Lists(order, R)
  PROVE  LET F == Fused(d, a, R, order)
         IN  /\ Ops(F) = Ops(d)
             /\ \A o \in Ops(d) : /\ {"kind", "match"} \subseteq DOMAIN F.op[o]
                                  /\ RowPreserving(F.op[o]) <=> RowPreserving(d.op[o])
<1> DEFINE F == Fused(d, a, R, order)
<1>1. Ops(F) = Ops(d)
  BY DEF Fused, Ops
<1>2. ASSUME NEW o \in Ops(d)
      PROVE  /\ {"kind", "match"} \subseteq DOMAIN F.op[o]
             /\ RowPreserving(F.op[o]) <=> RowPreserving(d.op[o])
  <2>1. {"kind", "match"} \subseteq DOMAIN d.op[o]
    BY DEF FlowOK
  <2>2. CASE o \notin R
    <3>1. F.op[o] = d.op[o]
      BY <2>2 DEF Fused, Ops
    <3> QED
      BY <2>1, <3>1
  <2>3. CASE o \in R
    <3> DEFINE n == CHOOSE n \in 1 .. Len(order) : order[n] = o
    <3>1. order[n] = o
      BY <2>3 DEF Lists
    <3>2. F.op[o] = Rewritten(d, a, order, WideName(d, a, order), n)
      BY <2>3 DEF Fused, Ops
    <3> HIDE DEF n, F
    <3>3. /\ DOMAIN F.op[o] = DOMAIN d.op[o]
          /\ F.op[o].kind = IF d.op[o].kind = "project" THEN "derive" ELSE d.op[o].kind
          /\ F.op[o].match = d.op[o].match
      BY <2>1, <3>1, <3>2, RewrittenKind
    <3> QED
      BY <2>1, <3>3 DEF RowPreserving
  <2> QED
    BY <2>2, <2>3
<1> QED
  BY <1>1, <1>2

\* Along the chain each operation takes the output of the one before, the first the anchor.
LEMMA ChainUpstreams ==
  ASSUME NEW d, NEW m, NEW s, NEW a, NEW R, NEW order, Fusion(d, m, s, a, R, order),
         NEW i \in 1 .. Len(order)
  PROVE  Upstreams(Fused(d, a, R, order), order[i], In)
           = {IF i = 1 THEN a ELSE <<order[i - 1], "out">>}
<1> DEFINE E == Fused(d, a, R, order).edges
           up == IF i = 1 THEN a ELSE <<order[i - 1], "out">>
<1>1. /\ Len(order) \in Nat \ {0} /\ \A j \in 1 .. Len(order) : order[j] \in R
      /\ a = <<a[1], a[2]>>
      /\ \A j, k \in 1 .. Len(order) : order[j] = order[k] => j = k
  BY ListEnds DEF Fusion, Fusable, Lists
<1>2. up \in Upstreams(Fused(d, a, R, order), order[i], In)
  <2>1. CASE i = 1
    BY <1>1, <2>1, EdgesFused, UpstreamsAre
  <2>2. CASE i # 1
    <3>1. i - 1 \in 1 .. Len(order) - 1 /\ (i - 1) + 1 = i
      BY <1>1, <2>2
    <3>2. PICK e \in E : /\ e.from = order[i - 1] /\ e.group = "out"
                         /\ e.to = order[(i - 1) + 1] /\ e.slot = In
      BY <3>1, EdgesFused
    <3> QED
      BY <2>2, <3>1, <3>2, UpstreamsAre
  <2> QED
    BY <2>1, <2>2
<1>3. ASSUME NEW u \in Upstreams(Fused(d, a, R, order), order[i], In) PROVE u = up
  <2>1. PICK e \in E : e.to = order[i] /\ e.slot = In /\ u = <<e.from, e.group>>
    BY UpstreamsAre
  <2>2. CASE e = Edge(a[1], a[2], order[1], In, e.columns)
    <3>1. e.to = order[1] /\ e.from = a[1] /\ e.group = a[2]
      BY <2>2 DEF Edge
    <3>2. 1 \in 1 .. Len(order) /\ order[1] = order[i]
      BY <1>1, <2>1, <3>1
    <3>3. i = 1
      BY <1>1, <3>2
    <3> QED
      BY <1>1, <2>1, <3>1, <3>3
  <2>3. ASSUME NEW j \in 1 .. Len(order) - 1, e = Edge(order[j], "out", order[j + 1], In, e.columns)
        PROVE  u = up
    <3>1. e.to = order[j + 1] /\ e.from = order[j] /\ e.group = "out"
      BY <2>3 DEF Edge
    <3>2. j + 1 \in 1 .. Len(order) /\ order[j + 1] = order[i] /\ j \in Nat \ {0}
      BY <1>1, <2>1, <2>3, <3>1
    <3>3. i = j + 1 /\ i # 1 /\ i - 1 = j
      BY <1>1, <3>2
    <3> QED
      BY <2>1, <3>1, <3>3
  <2>4. CASE e \in Kept(d, a, R)
    BY <1>1, <2>1, <2>4, KeptAre
  <2>5. ASSUME NEW f \in Leaving(d, a, R), e = Edge(Last(order), "out", f.to, f.slot, e.columns)
        PROVE  FALSE
    <3>1. e.to = f.to
      BY <2>5 DEF Edge
    <3> QED
      BY <1>1, <2>1, <3>1, LeavingAre
  <2> QED
    BY <2>2, <2>3, <2>4, <2>5, FusedEdges
<1> QED
  BY <1>2, <1>3

\* The other slots of the region keep their edges.
LEMMA RegionUpstreams ==
  ASSUME NEW d, NEW m, NEW s, NEW a, NEW R, NEW order, Fusion(d, m, s, a, R, order),
         NEW r \in R, NEW t, t # In
  PROVE  Upstreams(Fused(d, a, R, order), r, t) = Upstreams(d, r, t)
<1> DEFINE E == Fused(d, a, R, order).edges
<1>1. ASSUME NEW e, e.to = r, e.slot = t PROVE e \in E <=> e \in d.edges
  <2>1. e \in d.edges => e \in Kept(d, a, R)
    BY <1>1, KeptAre
  <2>2. e \in E => e \in Kept(d, a, R)
    <3>1. e # Edge(a[1], a[2], order[1], In, e.columns)
      BY <1>1 DEF Edge
    <3>2. ASSUME NEW i \in 1 .. Len(order) - 1
          PROVE  e # Edge(order[i], "out", order[i + 1], In, e.columns)
      BY <1>1 DEF Edge
    <3>3. ASSUME NEW f \in Leaving(d, a, R)
          PROVE  e # Edge(Last(order), "out", f.to, f.slot, e.columns)
      <4>1. f.to \notin R
        BY LeavingAre
      <4> QED
        BY <1>1, <4>1 DEF Edge
    <3> QED
      BY <3>1, <3>2, <3>3, FusedEdges
  <2> QED
    BY <2>1, <2>2, KeptAre, EdgesFused
<1> QED
  BY <1>1 DEF Upstreams, Into

\* A slot outside of the region takes the end of the chain in place of what is fused.
LEMMA OutsideUpstreams ==
  ASSUME NEW d, NEW m, NEW s, NEW a, NEW R, NEW order, Fusion(d, m, s, a, R, order),
         NEW o, o \notin R, NEW t
  PROVE  Upstreams(Fused(d, a, R, order), o, t) =
           IF Fed(d, R, o, t)
             THEN {u \in Upstreams(d, o, t) : u[1] \notin R /\ u # a} \cup {<<Last(order), "out">>}
             ELSE Upstreams(d, o, t)
<1> DEFINE E == Fused(d, a, R, order).edges
           V == Upstreams(Fused(d, a, R, order), o, t)
           end == <<Last(order), "out">>
<1>1. R # {} /\ Len(order) \in Nat \ {0} /\ \A j \in 1 .. Len(order) : order[j] \in R
  <2>1. R # {}
    BY DEF Fusion, Fusable
  <2> QED
    BY <2>1, ListEnds DEF Fusion
<1>2. ASSUME NEW e \in E, e.to = o, e.slot = t
      PROVE  \/ e \in d.edges /\ e \notin Leaving(d, a, R)
             \/ Fed(d, R, o, t) /\ <<e.from, e.group>> = end
  <2>1. e # Edge(a[1], a[2], order[1], In, e.columns)
    BY <1>1, <1>2 DEF Edge
  <2>2. ASSUME NEW i \in 1 .. Len(order) - 1
        PROVE  e # Edge(order[i], "out", order[i + 1], In, e.columns)
    BY <1>1, <1>2 DEF Edge
  <2>3. CASE e \in Kept(d, a, R)
    BY <1>2, <2>3, KeptAre
  <2>4. ASSUME NEW f \in Leaving(d, a, R), e = Edge(Last(order), "out", f.to, f.slot, e.columns)
        PROVE  Fed(d, R, o, t) /\ <<e.from, e.group>> = end
    <3>1. e.to = f.to /\ e.slot = f.slot /\ e.from = Last(order) /\ e.group = "out"
      BY <2>4 DEF Edge
    <3> QED
      BY <1>2, <3>1, LeavingAre DEF Fed
  <2> QED
    BY <2>1, <2>2, <2>3, <2>4, FusedEdges
<1>3. ASSUME NEW e \in d.edges, e.to = o, e.slot = t
      PROVE  /\ e \in Leaving(d, a, R)
                  <=> Fed(d, R, o, t) /\ (e.from \in R \/ <<e.from, e.group>> = a)
             /\ e \notin Leaving(d, a, R) => e \in E
  <2>1. e.from \in R => Fed(d, R, o, t)
    BY <1>3 DEF Fed
  <2> QED
    BY <1>3, <2>1, LeavingAre, KeptAre, EdgesFused
<1>4. CASE ~ Fed(d, R, o, t)
  BY <1>2, <1>3, <1>4 DEF Upstreams, Into
<1>5. CASE Fed(d, R, o, t)
  <2>1. end \in V
    <3>1. PICK f \in d.edges : f.to = o /\ f.slot = t /\ f.from \in R
      BY <1>5 DEF Fed
    <3>2. f \in Leaving(d, a, R)
      BY <1>3, <1>5, <3>1
    <3> QED
      BY <3>1, <3>2, EdgesFused, UpstreamsAre
  <2>2. ASSUME NEW u \in V, u # end PROVE u \in Upstreams(d, o, t) /\ u[1] \notin R /\ u # a
    <3>1. PICK e \in E : e.to = o /\ e.slot = t /\ u = <<e.from, e.group>>
      BY UpstreamsAre
    <3>2. e \in d.edges /\ e \notin Leaving(d, a, R)
      BY <1>2, <2>2, <3>1
    <3> QED
      BY <1>3, <1>5, <3>1, <3>2, UpstreamsAre
  <2>3. ASSUME NEW u \in Upstreams(d, o, t), u[1] \notin R, u # a PROVE u \in V
    <3>1. PICK e \in d.edges : e.to = o /\ e.slot = t /\ u = <<e.from, e.group>>
      BY UpstreamsAre
    <3>2. e \in E
      BY <1>3, <2>3, <3>1
    <3> QED
      BY <3>1, <3>2, UpstreamsAre
  <2> HIDE DEF V, end
  <2> QED
    BY <1>5, <2>1, <2>2, <2>3 DEF end, V
<1> QED
  BY <1>4, <1>5

-----------------------------------------------------------------------------
(* The fused dataflow is a dataflow of the same kind. *)

LEMMA GraphFused ==
  ASSUME NEW d, NEW m, NEW s, NEW a, NEW R, NEW order, Fusion(d, m, s, a, R, order)
  PROVE  Graph(Fused(d, a, R, order))
<1> DEFINE F    == Fused(d, a, R, order)
           name == WideName(d, a, order)
           end  == Last(order)
<1>1. Ops(F) \subseteq Nat /\ IsFiniteSet(Ops(F)) /\ IsFiniteSet(d.edges)
  BY FusedOps DEF Fusion, Graph
<1>2. F.edges = Chain(d, a, order, name) \cup Kept(d, a, R) \cup Rerouted(d, a, R, name, end)
  BY DEF Fused
<1>3. Len(order) \in Nat
  BY DEF Fusion, Lists
<1> HIDE DEF name, end
<1>4. IsFiniteSet(Chain(d, a, order, name))
  <2> DEFINE I == 1 .. Len(order) - 1
             f == [i \in I |-> Edge(order[i], "out", order[i + 1], In, {})]
             T == {Edge(order[i], "out", order[i + 1], In, {}) : i \in I}
  <2>1. \E x : Chain(d, a, order, name) = {x} \cup T
    BY DEF Chain
  <2>2. f \in Surjection(I, T)
    BY DEF Surjection
  <2>3. IsFiniteSet(I)
    BY <1>3, FS_Interval
  <2> HIDE DEF f, I, T
  <2>4. IsFiniteSet(T)
    BY <2>2, <2>3, FS_Surjection
  <2>5. PICK x : Chain(d, a, order, name) = T \cup {x}
    BY <2>1
  <2> QED
    BY <2>4, <2>5, FS_AddElement
<1>5. IsFiniteSet(Kept(d, a, R))
  <2>1. Kept(d, a, R) \in SUBSET d.edges
    BY KeptAre
  <2> QED
    BY <1>1, <2>1, FS_Subset
<1>6. IsFiniteSet(Rerouted(d, a, R, name, end))
  <2> DEFINE L == Leaving(d, a, R)
             out0(e) == Edge(end, "out", e.to, e.slot,
                             WideColumns(d, {f \in L : f.to = e.to /\ f.slot = e.slot}, name))
             T == {out0(e) : e \in L}
             g == [e \in L |-> out0(e)]
  <2>1. L \in SUBSET d.edges
    BY LeavingAre
  <2>2. IsFiniteSet(L)
    BY <1>1, <2>1, FS_Subset
  <2>3. Rerouted(d, a, R, name, end) = T
    BY DEF Rerouted
  <2>4. g \in Surjection(L, T)
    <3> HIDE DEF out0, L
    <3> QED
      BY DEF Surjection
  <2> HIDE DEF g, L, T
  <2> QED
    BY <2>2, <2>3, <2>4, FS_Surjection
<1>7. IsFiniteSet(F.edges)
  BY <1>2, <1>4, <1>5, <1>6, FS_Union
<1> QED
  BY <1>1, <1>7 DEF Graph

\* An edge into a slot that is not In belongs to the dataflow before, or leaves the chain
\* in place of one that did.
LEMMA SideEdges ==
  ASSUME NEW d, NEW m, NEW s, NEW a, NEW R, NEW order, Fusion(d, m, s, a, R, order),
         NEW e \in Fused(d, a, R, order).edges, RowPreserving(d.op[e.to]), e.slot # In
  PROVE  e \in d.edges /\ e \notin Leaving(d, a, R) /\ e.from \notin R
<1>1. e # Edge(a[1], a[2], order[1], In, e.columns)
  BY DEF Edge
<1>2. ASSUME NEW i \in 1 .. Len(order) - 1
      PROVE  e # Edge(order[i], "out", order[i + 1], In, e.columns)
  BY DEF Edge
<1>3. ASSUME NEW f \in d.edges, RowPreserving(d.op[f.to]), f.slot # In
      PROVE  f \notin Leaving(d, a, R) /\ f.from \notin R
  <2>1. f.from \notin R /\ f.from # a[1]
    BY <1>3 DEF Fusion, Fusable
  <2> QED
    BY <2>1, LeavingAre DEF Fusion, Fusable
<1>4. ASSUME NEW f \in Leaving(d, a, R), e = Edge(Last(order), "out", f.to, f.slot, e.columns)
      PROVE  FALSE
  <2>1. e.to = f.to /\ e.slot = f.slot /\ f \in d.edges
    BY <1>4, LeavingAre DEF Edge
  <2> QED
    BY <1>3, <2>1
<1>5. e \in Kept(d, a, R)
  BY <1>1, <1>2, <1>4, FusedEdges
<1> QED
  BY <1>3, <1>5, KeptAre

LEMMA FlowFused ==
  ASSUME NEW d, NEW m, NEW s, NEW a, NEW R, NEW order, Fusion(d, m, s, a, R, order)
  PROVE  FlowOK(Fused(d, a, R, order))
<1> DEFINE F == Fused(d, a, R, order)
<1>1. /\ Ops(F) = Ops(d)
      /\ \A o \in Ops(d) : /\ {"kind", "match"} \subseteq DOMAIN F.op[o]
                           /\ RowPreserving(F.op[o]) <=> RowPreserving(d.op[o])
  BY FusedOps DEF Fusion
<1>2. /\ a = <<a[1], a[2]>> /\ a[1] \in Ops(d) \ R /\ R \subseteq Ops(d)
      /\ Len(order) \in Nat \ {0} /\ \A i \in 1 .. Len(order) : order[i] \in R
      /\ Last(order) \in R
  <2>1. R # {} /\ a = <<a[1], a[2]>> /\ a[1] \in Ops(d) \ R /\ R \subseteq Ops(d)
    BY DEF Fusion, Fusable
  <2> QED
    BY <2>1, ListEnds DEF Fusion
<1>3. \A e \in d.edges : /\ e = Edge(e.from, e.group, e.to, e.slot, e.columns)
                         /\ e.from \in Ops(d) /\ e.to \in Ops(d) /\ e.slot \in ToSet(SlotNames)
  BY DEF Fusion, FlowOK
<1> HIDE DEF F
<1>4. ASSUME NEW e \in F.edges
      PROVE  /\ e = Edge(e.from, e.group, e.to, e.slot, e.columns)
             /\ e.from \in Ops(d) /\ e.to \in Ops(d) /\ e.slot \in ToSet(SlotNames)
  <2>1. CASE e = Edge(a[1], a[2], order[1], In, e.columns)
    BY <1>2, <2>1, FusionAssumption DEF Edge
  <2>2. ASSUME NEW i \in 1 .. Len(order) - 1,
               e = Edge(order[i], "out", order[i + 1], In, e.columns)
        PROVE  /\ e = Edge(e.from, e.group, e.to, e.slot, e.columns)
               /\ e.from \in Ops(d) /\ e.to \in Ops(d) /\ e.slot \in ToSet(SlotNames)
    <3>1. i \in 1 .. Len(order) /\ i + 1 \in 1 .. Len(order)
      BY <1>2
    <3>2. order[i] \in Ops(d) /\ order[i + 1] \in Ops(d)
      BY <1>2, <3>1
    <3>3. e.from = order[i] /\ e.group = "out" /\ e.to = order[i + 1] /\ e.slot = In
      BY <2>2 DEF Edge
    <3> QED
      BY <2>2, <3>2, <3>3, FusionAssumption
  <2>3. CASE e \in Kept(d, a, R)
    BY <1>3, <2>3, KeptAre
  <2>4. ASSUME NEW f \in Leaving(d, a, R), e = Edge(Last(order), "out", f.to, f.slot, e.columns)
        PROVE  /\ e = Edge(e.from, e.group, e.to, e.slot, e.columns)
               /\ e.from \in Ops(d) /\ e.to \in Ops(d) /\ e.slot \in ToSet(SlotNames)
    <3>1. f \in d.edges
      BY LeavingAre
    <3>2. e.from = Last(order) /\ e.group = "out" /\ e.to = f.to /\ e.slot = f.slot
      BY <2>4 DEF Edge
    <3> QED
      BY <1>2, <1>3, <2>4, <3>1, <3>2
  <2> QED
    BY <2>1, <2>2, <2>3, <2>4, FusedEdges DEF F
<1>5. ASSUME NEW e \in F.edges, RowPreserving(d.op[e.to]), e.slot # In, NEW f \in F.edges
      PROVE  f.to # e.from /\ (f.from = e.from \/ (f.to = e.to /\ f.slot = e.slot) => f = e)
  <2>1. /\ e \in d.edges /\ e \notin Leaving(d, a, R)
        /\ e.from \notin R /\ e.from # a[1]
    <3>1. e \in d.edges /\ e \notin Leaving(d, a, R) /\ e.from \notin R
      BY <1>5, SideEdges DEF F
    <3> QED
      BY <1>5, <3>1 DEF Fusion, Fusable
  <2>2. \A g \in d.edges : /\ g.to # e.from
                           /\ g.from = e.from \/ (g.to = e.to /\ g.slot = e.slot) => g = e
    BY <1>5, <2>1 DEF Fusion, FlowOK
  <2>3. CASE f = Edge(a[1], a[2], order[1], In, f.columns)
    <3>1. f.from = a[1] /\ f.to = order[1] /\ f.slot = In /\ order[1] \in R
      BY <1>2, <2>3 DEF Edge
    <3> QED
      BY <1>5, <2>1, <3>1
  <2>4. ASSUME NEW i \in 1 .. Len(order) - 1,
               f = Edge(order[i], "out", order[i + 1], In, f.columns)
        PROVE  f.to \in R /\ f.from \in R /\ f.slot = In
    <3>1. i \in 1 .. Len(order) /\ i + 1 \in 1 .. Len(order)
      BY <1>2
    <3> QED
      BY <1>2, <2>4, <3>1 DEF Edge
  <2>5. CASE f \in Kept(d, a, R)
    BY <2>2, <2>5, KeptAre
  <2>6. ASSUME NEW g \in Leaving(d, a, R), f = Edge(Last(order), "out", g.to, g.slot, f.columns)
        PROVE  f.to # e.from /\ f.from \in R /\ ~ (f.to = e.to /\ f.slot = e.slot)
    <3>1. g \in d.edges
      BY LeavingAre
    <3>2. f.from = Last(order) /\ f.to = g.to /\ f.slot = g.slot
      BY <2>6 DEF Edge
    <3> QED
      BY <1>2, <2>1, <2>2, <3>1, <3>2
  <2> QED
    BY <1>5, <2>1, <2>3, <2>4, <2>5, <2>6, FusedEdges DEF F
<1> QED
  BY <1>1, <1>4, <1>5 DEF FlowOK, F

\* A slot that is not In of an operation that keeps rows has one upstream at most.
LEMMA SideSlotsSingle ==
  ASSUME NEW d, FlowOK(d), NEW o, RowPreserving(d.op[o]), NEW t, t # In
  PROVE  ~ Joins(d, o, t)
<1>1. \A e, f \in d.edges : e.to = o /\ e.slot = t /\ f.to = o /\ f.slot = t => f = e
  BY DEF FlowOK
<1> QED
  BY <1>1, UpstreamsAre DEF Joins

\* Fusion makes no merge, and the merge it is for is gone.
LEMMA FusedMerges ==
  ASSUME NEW d, NEW m, NEW s, NEW a, NEW R, NEW order, Fusion(d, m, s, a, R, order),
         NEW o, NEW t
  PROVE  /\ Joins(Fused(d, a, R, order), o, t) => Joins(d, o, t) /\ o \notin R
         /\ ~ Joins(Fused(d, a, R, order), m, s)
<1> DEFINE F == Fused(d, a, R, order)
           end == <<Last(order), "out">>
<1>1. ASSUME o \in R PROVE ~ Joins(F, o, t)
  <2>1. CASE t = In
    <3>1. PICK i \in 1 .. Len(order) : order[i] = o
      BY <1>1 DEF Fusion, Lists
    <3>2. Upstreams(F, order[i], In) = {IF i = 1 THEN a ELSE <<order[i - 1], "out">>}
      BY ChainUpstreams
    <3> QED
      BY <2>1, <3>1, <3>2 DEF Joins
  <2>2. CASE t # In
    <3>1. RowPreserving(d.op[o])
      BY <1>1 DEF Fusion, Fusable, Passes
    <3>2. Upstreams(F, o, t) = Upstreams(d, o, t)
      BY <1>1, <2>2, RegionUpstreams
    <3> QED
      BY <2>2, <3>1, <3>2, SideSlotsSingle DEF Fusion, Joins
  <2> QED
    BY <2>1, <2>2
<1>2. ASSUME o \notin R, Fed(d, R, o, t), Joins(F, o, t) PROVE Joins(d, o, t)
  <2>1. PICK u \in Upstreams(d, o, t) : u[1] \notin R
    BY <1>2, OutsideUpstreams DEF Joins
  <2>2. PICK e \in d.edges : e.to = o /\ e.slot = t /\ e.from \in R
    BY <1>2 DEF Fed
  <2>3. <<e.from, e.group>> \in Upstreams(d, o, t) /\ <<e.from, e.group>>[1] \in R
    BY <2>2, UpstreamsAre
  <2> QED
    BY <2>1, <2>3 DEF Joins
<1>3. ASSUME o \notin R, ~ Fed(d, R, o, t), Joins(F, o, t) PROVE Joins(d, o, t)
  BY <1>3, OutsideUpstreams DEF Joins
<1>4. ~ Joins(F, m, s)
  <2>1. m \notin R /\ Fed(d, R, m, s)
    BY DEF Fusion, Fusable, Fed
  <2>2. \A u \in Upstreams(d, m, s) : u = a \/ u[1] \in R
    BY UpstreamsAre DEF Fusion, Fusable
  <2>3. Upstreams(F, m, s) = {end}
    BY <2>1, <2>2, OutsideUpstreams
  <2> QED
    BY <2>3 DEF Joins
<1> QED
  BY <1>1, <1>2, <1>3, <1>4

\* Fusion keeps what passes.
LEMMA FusedPasses ==
  ASSUME NEW d, NEW m, NEW s, NEW a, NEW R, NEW order, Fusion(d, m, s, a, R, order),
         NEW o \in Ops(d)
  PROVE  Passes(Fused(d, a, R, order), o) <=> Passes(d, o)
<1> DEFINE F == Fused(d, a, R, order)
<1>1. RowPreserving(F.op[o]) <=> RowPreserving(d.op[o])
  BY FusedOps DEF Fusion
<1>2. Upstreams(F, o, In) # {} <=> Upstreams(d, o, In) # {}
  <2>1. CASE o \in R
    <3>1. PICK i \in 1 .. Len(order) : order[i] = o
      BY <2>1 DEF Fusion, Lists
    <3>2. Upstreams(F, order[i], In) = {IF i = 1 THEN a ELSE <<order[i - 1], "out">>}
      BY ChainUpstreams
    <3>3. Upstreams(d, o, In) # {}
      BY <2>1 DEF Fusion, Fusable, Passes
    <3> QED
      BY <3>1, <3>2, <3>3
  <2>2. CASE o \notin R /\ Fed(d, R, o, In)
    <3>1. PICK e \in d.edges : e.to = o /\ e.slot = In
      BY <2>2 DEF Fed
    <3>2. <<e.from, e.group>> \in Upstreams(d, o, In)
      BY <3>1, UpstreamsAre
    <3>3. <<Last(order), "out">> \in Upstreams(F, o, In)
      BY <2>2, OutsideUpstreams
    <3> QED
      BY <3>2, <3>3
  <2>3. CASE o \notin R /\ ~ Fed(d, R, o, In)
    BY <2>3, OutsideUpstreams
  <2> QED
    BY <2>1, <2>2, <2>3
<1> QED
  BY <1>1, <1>2 DEF Passes

-----------------------------------------------------------------------------
(* No cycle. *)

\* The region lies after its anchor.
LEMMA AnchorFirst ==
  ASSUME NEW d, NEW m, NEW s, NEW a, NEW R, NEW order, Fusion(d, m, s, a, R, order),
         NEW place, Numbered(d, place), NEW r \in R
  PROVE  place[a[1]] < place[r]
<1> DEFINE early == {o \in R : ~ (place[a[1]] < place[o])}
<1>1. SUFFICES ASSUME early # {} PROVE FALSE
  OBVIOUS
<1>2. \A o \in R : place[o] \in Nat
  BY DEF Numbered, Fusion, Fusable
<1>3. PICK o \in early : \A p \in early : place[o] <= place[p]
  <2> HIDE DEF early
  <2>1. \A p \in early : place[p] \in Nat
    BY <1>2 DEF early
  <2> QED
    BY <1>1, <2>1, FirstNumbered
<1>4. PICK e \in d.edges : e.to = o /\ e.slot = In
  BY UpstreamsAre DEF Fusion, Fusable, Passes
<1>5. place[e.from] < place[o]
  BY <1>4 DEF Numbered
<1>6. <<e.from, e.group>> = a \/ e.from \in R
  BY <1>4 DEF Fusion, Fusable
<1>7. CASE <<e.from, e.group>> = a
  <2>1. e.from = a[1]
    BY <1>7
  <2> QED
    BY <1>5, <2>1
<1>8. CASE e.from \in R
  <2>1. place[e.from] \in Nat /\ place[o] \in Nat /\ place[a[1]] \in Nat
    BY <1>2, <1>8 DEF Numbered, Fusion, Fusable
  <2>2. e.from \in early
    BY <1>5, <1>8, <2>1
  <2> QED
    BY <1>3, <1>5, <2>1, <2>2
<1> QED
  BY <1>6, <1>7, <1>8

\* What takes rows from the region lies after the anchor as well.
LEMMA LeavingLater ==
  ASSUME NEW d, NEW m, NEW s, NEW a, NEW R, NEW order, Fusion(d, m, s, a, R, order),
         NEW place, Numbered(d, place), NEW e \in Leaving(d, a, R)
  PROVE  place[a[1]] < place[e.to]
<1>1. e \in d.edges /\ (e.from \in R \/ e.from = a[1])
  BY LeavingAre
<1>2. place[e.from] < place[e.to]
  BY <1>1 DEF Numbered
<1>3. e.from \in R => place[a[1]] < place[e.from]
  BY AnchorFirst
<1>4. place[e.from] \in Nat /\ place[a[1]] \in Nat /\ place[e.to] \in Nat
  BY <1>1 DEF Numbered, Fusion, Fusable, FlowOK
<1> QED
  BY <1>1, <1>2, <1>3, <1>4

\* Fusion makes no cycle: what feeds a lookup comes first, then what lies up to the anchor,
\* then the region, then the rest, each part in the order of before.
LEMMA FusedAcyclic ==
  ASSUME NEW d, NEW m, NEW s, NEW a, NEW R, NEW order, Fusion(d, m, s, a, R, order),
         NEW place, Numbered(d, place),
         \A i \in 1 .. Len(order) - 1 : place[order[i]] < place[order[i + 1]]
  PROVE  Acyclic(Fused(d, a, R, order))
<1> DEFINE F    == Fused(d, a, R, order)
           side == {e.from : e \in {f \in d.edges : RowPreserving(d.op[f.to]) /\ f.slot # In}}
           low  == {o \in Ops(d) \ R : ~ (place[a[1]] < place[o])}
           Ends(S, o) == \A e \in F.edges : e.to = o => e.from \notin S
<1>1. /\ Ops(F) = Ops(d)
      /\ \A o \in Ops(d) : place[o] \in Nat
      /\ \A e \in d.edges : place[e.from] < place[e.to] /\ e.from \in Ops(d) /\ e.to \in Ops(d)
      /\ a[1] \in Ops(d) \ R /\ R \subseteq Ops(d)
  BY FusedOps DEF Fusion, Fusable, Numbered, FlowOK
<1>2. Len(order) \in Nat \ {0} /\ \A i \in 1 .. Len(order) : order[i] \in R
  <2>1. R # {}
    BY DEF Fusion, Fusable
  <2> QED
    BY <2>1, ListEnds DEF Fusion
<1>3. \A e \in F.edges : e.to \notin side
  <2> SUFFICES ASSUME NEW e \in F.edges, NEW f \in d.edges,
                      RowPreserving(d.op[f.to]), f.slot # In, e.to = f.from
               PROVE  FALSE
    OBVIOUS
  <2>1. f.from \notin R /\ \A g \in d.edges : g.to # f.from
    BY DEF Fusion, Fusable, FlowOK
  <2>2. e # Edge(a[1], a[2], order[1], In, e.columns)
    BY <1>2, <2>1 DEF Edge
  <2>3. ASSUME NEW i \in 1 .. Len(order) - 1
        PROVE  e # Edge(order[i], "out", order[i + 1], In, e.columns)
    <3>1. i + 1 \in 1 .. Len(order)
      BY <1>2
    <3> QED
      BY <1>2, <2>1, <3>1 DEF Edge
  <2>4. e \notin Kept(d, a, R)
    BY <2>1, KeptAre
  <2>5. ASSUME NEW g \in Leaving(d, a, R)
        PROVE  e # Edge(Last(order), "out", g.to, g.slot, e.columns)
    <3>1. g \in d.edges
      BY LeavingAre
    <3> QED
      BY <2>1, <3>1 DEF Edge
  <2> QED
    BY <2>2, <2>3, <2>4, <2>5, FusedEdges
\* An edge of F comes from the side, or grows by parts and in each part by place.
<1>4. ASSUME NEW e \in F.edges, e.from \notin side
      PROVE  /\ e.from \in Ops(d) /\ e.to \in Ops(d)
             /\ e.to \in low => e.from \in low /\ place[e.from] < place[e.to]
             /\ e.to \in R => e.from \in low \/ (e.from \in R /\ place[e.from] < place[e.to])
             /\ e.from \in low \/ e.from \in R \/ (e.to \notin R /\ place[e.from] < place[e.to])
  <2>1. CASE e = Edge(a[1], a[2], order[1], In, e.columns)
    <3>1. e.from = a[1] /\ e.to = order[1] /\ order[1] \in R
      BY <1>2, <2>1 DEF Edge
    <3>2. a[1] \in low
      BY <1>1
    <3> QED
      BY <1>1, <3>1, <3>2
  <2>2. ASSUME NEW i \in 1 .. Len(order) - 1,
               e = Edge(order[i], "out", order[i + 1], In, e.columns)
        PROVE  e.from \in R /\ e.to \in R /\ place[e.from] < place[e.to]
    <3>1. i \in 1 .. Len(order) /\ i + 1 \in 1 .. Len(order)
      BY <1>2
    <3> QED
      BY <1>2, <2>2, <3>1 DEF Edge
  <2>3. CASE e \in Kept(d, a, R)
    <3>1. e \in d.edges
      BY <2>3, KeptAre
    <3>2. e.to \notin R
      <4>1. ASSUME e.to \in R PROVE FALSE
        <5>1. e.slot # In
          BY <2>3, <4>1, KeptAre
        <5>2. RowPreserving(d.op[e.to])
          BY <4>1 DEF Fusion, Fusable, Passes
        <5> QED
          BY <1>4, <3>1, <5>1, <5>2
      <4> QED
        BY <4>1
    <3>3. e.from \notin R
      BY <2>3, <3>1, <3>2, KeptAre, LeavingAre
    <3>4. place[e.from] < place[e.to] /\ e.from \in Ops(d) /\ e.to \in Ops(d)
      BY <1>1, <3>1
    <3>5. place[e.from] \in Nat /\ place[e.to] \in Nat /\ place[a[1]] \in Nat
      BY <1>1, <3>4
    <3> QED
      BY <3>2, <3>3, <3>4, <3>5
  <2>4. ASSUME NEW f \in Leaving(d, a, R), e = Edge(Last(order), "out", f.to, f.slot, e.columns)
        PROVE  e.from \in R /\ e.to \in Ops(d) /\ e.to \notin R /\ e.to \notin low
    <3>1. e.from = Last(order) /\ e.to = f.to
      BY <2>4 DEF Edge
    <3>2. f \in d.edges /\ f.to \notin R /\ place[a[1]] < place[f.to]
      BY LeavingAre, LeavingLater
    <3>3. Last(order) \in R
      BY <1>2, ListEnds DEF Fusion, Fusable
    <3> QED
      BY <1>1, <3>1, <3>2, <3>3
  <2> HIDE DEF F, low, side
  <2>5. \A o \in low : o \notin R
    BY DEF low
  <2> QED
    BY <1>1, <2>1, <2>2, <2>3, <2>4, <2>5, FusedEdges DEF F
<1> HIDE DEF F, low, side
<1>5. \A T \in SUBSET Ops(d) : T # {} => \E o \in T : \A p \in T : place[o] <= place[p]
  BY <1>1, FirstNumbered
<1>6. \A o, p \in Ops(d) : place[o] <= place[p] => ~ (place[p] < place[o])
  BY <1>1
<1> SUFFICES ASSUME NEW S \in SUBSET Ops(d), S # {} PROVE \E o \in S : Ends(S, o)
  BY <1>1 DEF Acyclic, F
<1>7. CASE S \cap side # {}
  BY <1>3, <1>7
<1>8. CASE S \cap side = {} /\ S \cap low # {}
  <2>1. PICK o \in S \cap low : \A p \in S \cap low : place[o] <= place[p]
    BY <1>5, <1>8
  <2>2. Ends(S, o)
    BY <1>4, <1>6, <1>8, <2>1
  <2> QED
    BY <2>1, <2>2
<1>9. CASE S \cap side = {} /\ S \cap low = {} /\ S \cap R # {}
  <2>1. PICK o \in S \cap R : \A p \in S \cap R : place[o] <= place[p]
    BY <1>5, <1>9
  <2>2. Ends(S, o)
    BY <1>4, <1>6, <1>9, <2>1
  <2> QED
    BY <2>1, <2>2
<1>10. CASE S \cap side = {} /\ S \cap low = {} /\ S \cap R = {}
  <2>1. PICK o \in S : \A p \in S : place[o] <= place[p]
    BY <1>5
  <2>2. Ends(S, o)
    BY <1>4, <1>6, <1>10, <2>1
  <2> QED
    BY <2>1, <2>2
<1> QED
  BY <1>7, <1>8, <1>9, <1>10

-----------------------------------------------------------------------------
(* Fusion keeps where the rows of the other operations come from. *)

\* Whoever meets the region meets its anchor.
LEMMA WalkMeetsAnchor ==
  ASSUME NEW d, Acyclic(d), NEW a, NEW R \in SUBSET Ops(d),
         \A r \in R : Passes(d, r) /\ \A u \in Upstreams(d, r, In) : u = a \/ u[1] \in R,
         NEW T, ClosedUp(d, T), NEW k \in T, k[1] \in R
  PROVE  a \in T
<1> DEFINE S == {r \in R : \E j \in T : j[1] = r}
<1>1. S \in SUBSET Ops(d) /\ S # {}
  OBVIOUS
<1>2. PICK o \in S : \A e \in d.edges : e.to = o => e.from \notin S
  BY <1>1 DEF Acyclic
<1>3. PICK j \in T : j[1] = o
  BY <1>2
<1>4. PICK u \in Upstreams(d, o, In) : TRUE
  BY <1>2 DEF Passes
<1>5. u \in T
  BY <1>2, <1>3, <1>4 DEF ClosedUp
<1>6. u[1] \notin S
  <2>1. PICK e \in d.edges : e.to = o /\ u = <<e.from, e.group>>
    BY <1>4, UpstreamsAre
  <2> QED
    BY <1>2, <2>1
<1>7. u = a \/ u[1] \in R
  BY <1>2, <1>4
<1> QED
  BY <1>5, <1>6, <1>7

\* The region before the fusion and after it.
LEMMA RegionWalks ==
  ASSUME NEW d, NEW m, NEW s, NEW a, NEW R, NEW order, Fusion(d, m, s, a, R, order)
  PROVE  LET F == Fused(d, a, R, order)
         IN  /\ \A r \in R : Passes(d, r) /\ Passes(F, r)
             /\ \A r \in R : \A u \in Upstreams(d, r, In) \cup Upstreams(F, r, In) :
                  u = a \/ u[1] \in R
             /\ ~ Passes(d, a[1]) /\ ~ Passes(F, a[1])
             /\ R \in SUBSET Ops(d) /\ R \in SUBSET Ops(F) /\ a[1] \notin R
<1> DEFINE F == Fused(d, a, R, order)
<1>1. /\ R \in SUBSET Ops(d) /\ a[1] \in Ops(d) \ R /\ ~ Passes(d, a[1])
      /\ \A r \in R : Passes(d, r)
  BY DEF Fusion, Fusable
<1>2. Ops(F) = Ops(d)
  BY FusedOps DEF Fusion
<1>3. \A o \in Ops(d) : Passes(F, o) <=> Passes(d, o)
  BY FusedPasses
<1>4. ASSUME NEW r \in R, NEW u \in Upstreams(d, r, In) PROVE u = a \/ u[1] \in R
  BY UpstreamsAre DEF Fusion, Fusable
<1>5. ASSUME NEW r \in R, NEW u \in Upstreams(F, r, In) PROVE u = a \/ u[1] \in R
  <2>1. PICK i \in 1 .. Len(order) : order[i] = r
    BY DEF Fusion, Lists
  <2>2. Upstreams(F, order[i], In) = {IF i = 1 THEN a ELSE <<order[i - 1], "out">>}
    BY ChainUpstreams
  <2>3. i # 1 => i - 1 \in 1 .. Len(order) /\ order[i - 1] \in R
    BY DEF Fusion, Lists
  <2> QED
    BY <1>5, <2>1, <2>2, <2>3
<1> QED
  BY <1>1, <1>2, <1>3, <1>4, <1>5

\* What takes its rows from the region and the anchor only comes from the anchor.
LEMMA SingleOrigin ==
  ASSUME NEW d, NEW m, NEW s, NEW a, NEW R, NEW order, Fusion(d, m, s, a, R, order),
         Acyclic(d), NEW K, K # {}, \A k \in K : k = a \/ k[1] \in R
  PROVE  Boundaries(d, K) = {a}
<1> DEFINE M == Met(d, K)
           T == {k \in M : k = a \/ k[1] \in R}
<1>1. Cardinality(Ops(d)) \in Nat
  BY FS_CardinalityType DEF Fusion, Graph
<1>2. K \subseteq M /\ ClosedUp(d, M)
  BY <1>1, MetHoldsFirst, MetIsClosed DEF Fusion
<1>3. M \subseteq T
  <2>1. K \subseteq T
    BY <1>2
  <2>2. ClosedUp(d, T)
    BY <1>2, RegionWalks DEF ClosedUp
  <2> HIDE DEF T
  <2> QED
    BY <1>1, <2>1, <2>2, MetIsLeast
<1>4. a \in M
  <2>1. PICK k \in K : TRUE
    OBVIOUS
  <2>2. k[1] \in R => a \in M
    BY <1>2, <2>1, RegionWalks, WalkMeetsAnchor
  <2> QED
    BY <1>2, <2>1, <2>2
<1> HIDE DEF M
<1>5. \A k \in M : ~ Passes(d, k[1]) <=> k = a
  BY <1>3, RegionWalks
<1> QED
  BY <1>4, <1>5 DEF Boundaries, M

LEMMA FusedOrigins ==
  ASSUME NEW d, NEW m, NEW s, NEW a, NEW R, NEW order, Fusion(d, m, s, a, R, order),
         Acyclic(d), Acyclic(Fused(d, a, R, order)), NEW o \in Ops(d) \ R, NEW t
  PROVE  Origins(Fused(d, a, R, order), o, t) = Origins(d, o, t)
<1> DEFINE F   == Fused(d, a, R, order)
           end == <<Last(order), "out">>
           KD  == Upstreams(d, o, t)
           KF  == Upstreams(F, o, t)
           MD  == Met(d, KD)
           MF  == Met(F, KF)
<1>1. /\ Graph(d) /\ FlowOK(d) /\ Graph(F) /\ FlowOK(F)
      /\ Cardinality(Ops(d)) \in Nat /\ Cardinality(Ops(F)) \in Nat
  BY GraphFused, FlowFused, FS_CardinalityType DEF Fusion, Graph
<1>2. KD \subseteq MD /\ ClosedUp(d, MD) /\ KF \subseteq MF /\ ClosedUp(F, MF)
  BY <1>1, MetHoldsFirst, MetIsClosed
<1>3. MD \subseteq Outputs(d) /\ MF \subseteq Outputs(F)
  BY <1>1, UpstreamsAre, MetInOutputs
<1>4. /\ \A k \in Outputs(d) \cup Outputs(F) : k[1] \in Ops(d)
      /\ \A p \in Ops(d) : Passes(F, p) <=> Passes(d, p)
  <2>1. Ops(F) = Ops(d)
    BY FusedOps DEF Fusion
  <2> QED
    BY <1>1, <2>1, FusedPasses DEF Outputs, FlowOK
<1>5. end[1] \in R
  BY ListEnds DEF Fusion, Fusable
<1>6. \A p \in Ops(d) \ R : \A q :
        Upstreams(F, p, q) =
           IF Fed(d, R, p, q)
             THEN {u \in Upstreams(d, p, q) : u[1] \notin R /\ u # a} \cup {end}
             ELSE Upstreams(d, p, q)
  BY OutsideUpstreams
<1>7. \A p, q : \A u \in Upstreams(d, p, q) : u[1] \in R => Fed(d, R, p, q)
  BY UpstreamsAre DEF Fed
<1>8. \A p, q : Fed(d, R, p, q) => \E u \in Upstreams(d, p, q) : u[1] \in R
  <2> SUFFICES ASSUME NEW p, NEW q, NEW e \in d.edges, e.to = p, e.slot = q, e.from \in R
               PROVE  \E u \in Upstreams(d, p, q) : u[1] \in R
    BY DEF Fed
  <2>1. <<e.from, e.group>> \in Upstreams(d, p, q) /\ <<e.from, e.group>>[1] \in R
    BY UpstreamsAre
  <2> QED
    BY <2>1
<1>0. /\ R \in SUBSET Ops(d)
      /\ \A r \in R : Passes(d, r) /\ \A u \in Upstreams(d, r, In) : u = a \/ u[1] \in R
      /\ R \in SUBSET Ops(F) /\ Acyclic(F)
      /\ \A r \in R : Passes(F, r) /\ \A u \in Upstreams(F, r, In) : u = a \/ u[1] \in R
  BY RegionWalks
<1> HIDE DEF F, end, KD, KF, MD, MF
\* Who meets the region in F meets the end of the chain, and its anchor.
<1>9. ASSUME NEW k \in MF, k[1] \in R PROVE end \in MF /\ a \in MF
  <2>1. end \in MF
    <3> SUFFICES ASSUME end \notin MF PROVE FALSE
      OBVIOUS
    <3> DEFINE T == {j \in MF : j[1] \notin R}
    <3>1. \A p \in Ops(d) \ R : \A q : \A u \in Upstreams(F, p, q) : u[1] \in R => u = end
      BY <1>6, <1>7
    <3>2. KF \subseteq T
      BY <1>2, <3>1 DEF KF
    <3>3. ASSUME NEW j \in T, Passes(F, j[1]), NEW u \in Upstreams(F, j[1], In) PROVE u \in T
      <4>1. u \in MF /\ j[1] \in Ops(d) \ R
        BY <1>2, <1>3, <1>4, <3>3 DEF ClosedUp
      <4> QED
        BY <3>1, <3>3, <4>1
    <3>4. MF \subseteq T
      <4> HIDE DEF T
      <4> QED
        BY <1>1, <3>2, <3>3, MetIsLeast DEF ClosedUp, MF
    <3> QED
      BY <1>9, <3>4
  <2>2. a \in MF
    BY <1>0, <1>2, <1>9, WalkMeetsAnchor
  <2> QED
    BY <2>1, <2>2
<1>10. \A k \in MD : k[1] \in R => a \in MD
  BY <1>0, <1>2, WalkMeetsAnchor
<1>11. ASSUME NEW k \in MD PROVE k \in MF \/ (end \in MF /\ (k = a \/ k[1] \in R))
  <2> DEFINE T == {j \in MD : j \in MF \/ (end \in MF /\ (j = a \/ j[1] \in R))}
  <2>1. ASSUME NEW p \in Ops(d) \ R, NEW q, Upstreams(F, p, q) \subseteq MF,
               NEW u \in Upstreams(d, p, q)
        PROVE  u \in MF \/ (end \in MF /\ (u = a \/ u[1] \in R))
    BY <1>6, <2>1
  <2>2. KD \subseteq T
    BY <1>2, <2>1 DEF KD, KF
  <2>3. ASSUME NEW j \in T, Passes(d, j[1]), NEW u \in Upstreams(d, j[1], In) PROVE u \in T
    <3>1. u \in MD /\ j[1] \in Ops(d)
      BY <1>2, <1>3, <1>4, <2>3 DEF ClosedUp
    <3>2. CASE j[1] \in R
      <4>1. end \in MF
        BY <1>9, <2>3, <3>2
      <4>2. u = a \/ u[1] \in R
        BY <2>3, <3>2, RegionWalks
      <4> QED
        BY <3>1, <4>1, <4>2
    <3>3. CASE j[1] \notin R
      <4>1. j # a
        BY <2>3, RegionWalks
      <4>2. j \in MF
        BY <2>3, <3>3, <4>1
      <4>3. Upstreams(F, j[1], In) \subseteq MF
        BY <1>2, <1>4, <2>3, <3>1, <4>2 DEF ClosedUp
      <4> QED
        BY <2>1, <2>3, <3>1, <3>3, <4>3
    <3> QED
      BY <3>2, <3>3
  <2>4. MD \subseteq T
    <3> HIDE DEF T
    <3> QED
      BY <1>1, <2>2, <2>3, MetIsLeast DEF ClosedUp, MD
  <2> QED
    BY <1>11, <2>4
<1>12. ASSUME NEW k \in MF
       PROVE  k \in MD \/ (k[1] \in R /\ \E j \in MD : j[1] \in R)
  <2> DEFINE T == {k0 \in MF : k0 \in MD \/ (k0[1] \in R /\ \E j \in MD : j[1] \in R)}
  <2>1. ASSUME NEW p \in Ops(d) \ R, NEW q, Upstreams(d, p, q) \subseteq MD,
               NEW u \in Upstreams(F, p, q)
        PROVE  u \in MD \/ (u[1] \in R /\ \E j \in MD : j[1] \in R)
    BY <1>5, <1>6, <1>8, <2>1
  <2>2. KF \subseteq T
    BY <1>2, <2>1 DEF KD, KF
  <2>3. ASSUME NEW j \in T, Passes(F, j[1]), NEW u \in Upstreams(F, j[1], In) PROVE u \in T
    <3>1. u \in MF /\ j[1] \in Ops(d)
      BY <1>2, <1>3, <1>4, <2>3 DEF ClosedUp
    <3>2. CASE j[1] \in R
      <4>1. \E i \in MD : i[1] \in R
        BY <2>3, <3>2
      <4>2. a \in MD
        BY <1>10, <4>1
      <4>3. u = a \/ u[1] \in R
        BY <2>3, <3>2, RegionWalks DEF F
      <4> QED
        BY <3>1, <4>1, <4>2, <4>3
    <3>3. CASE j[1] \notin R
      <4>1. j \in MD
        BY <2>3, <3>3
      <4>2. Upstreams(d, j[1], In) \subseteq MD
        BY <1>2, <1>4, <2>3, <3>1, <4>1 DEF ClosedUp
      <4> QED
        BY <2>1, <2>3, <3>1, <3>3, <4>2
    <3> QED
      BY <3>2, <3>3
  <2>4. MF \subseteq T
    <3> HIDE DEF T
    <3> QED
      BY <1>1, <2>2, <2>3, MetIsLeast DEF ClosedUp, MF
  <2> QED
    BY <1>12, <2>4
<1>13. \A k : (k \in MF /\ ~ Passes(F, k[1])) <=> (k \in MD /\ ~ Passes(d, k[1]))
  <2> SUFFICES ASSUME NEW k, k \in MF \/ k \in MD
               PROVE  (k \in MF /\ ~ Passes(F, k[1])) <=> (k \in MD /\ ~ Passes(d, k[1]))
    OBVIOUS
  <2>1. Passes(F, k[1]) <=> Passes(d, k[1])
    BY <1>3, <1>4
  <2>2. ~ Passes(d, k[1]) => k[1] \notin R
    BY RegionWalks
  <2>3. ASSUME k \in MF, ~ Passes(d, k[1]) PROVE k \in MD
    BY <1>12, <2>2, <2>3
  <2>4. ASSUME k \in MD, ~ Passes(d, k[1]) PROVE k \in MF
    <3>1. k = a /\ end \in MF => k \in MF
      BY <1>5, <1>9
    <3> QED
      BY <1>11, <2>2, <2>4, <3>1
  <2> QED
    BY <2>1, <2>3, <2>4
<1> QED
  BY <1>13 DEF Origins, Boundaries, MF, MD, KF, KD, F

-----------------------------------------------------------------------------
(* One round of the loop. *)

\* Some operations in the order in which they are out: each once, at growing places.
LEMMA InOrderLists ==
  ASSUME OrderState, NEW S \in SUBSET Placed
  PROVE  /\ Lists(InOrder(S), S)
         /\ \A i \in 1 .. Len(InOrder(S)) - 1 : Place(InOrder(S)[i]) < Place(InOrder(S)[i + 1])
<1> DEFINE N == Cardinality(S)
           below(o) == {p \in S : Place(p) < Place(o)}
           rank(o)  == Cardinality(below(o))
<1>1. IsFiniteSet(S) /\ N \in Nat
  <2>1. IsFiniteSet(Placed)
    BY PlacedMet, FS_Subset DEF OrderState, GraphOK, Graph
  <2> QED
    BY <2>1, FS_Subset, FS_CardinalityType
<1>2. \A o, p \in S : Place(o) \in Nat /\ (Place(o) = Place(p) => o = p)
  <2>1. \A o \in S : Place(o) \in 1 .. Len(out) /\ out[Place(o)] = o
    BY PlaceOf
  <2>2. Len(out) \in Nat
    BY DEF OrderState, OrderStateOK
  <2> QED
    BY <2>1, <2>2
<1>3. ASSUME NEW o \in S PROVE IsFiniteSet(below(o)) /\ rank(o) \in 0 .. N - 1
  <2>1. below(o) \in SUBSET S /\ o \notin below(o)
    BY <1>2
  <2> HIDE DEF below
  <2>2. /\ IsFiniteSet(below(o)) /\ rank(o) \in Nat
        /\ rank(o) <= N /\ rank(o) # N
    BY <1>1, <2>1, FS_Subset, FS_CardinalityType
  <2> QED
    BY <1>1, <2>2
<1>4. ASSUME NEW o \in S, NEW p \in S, Place(o) < Place(p) PROVE rank(o) < rank(p)
  <2>1. below(o) \cup {o} \in SUBSET below(p) /\ o \notin below(o)
    BY <1>2, <1>4
  <2> HIDE DEF below
  <2>2. Cardinality(below(o) \cup {o}) = rank(o) + 1 /\ rank(o) \in Nat /\ rank(p) \in Nat
    BY <1>3, <2>1, FS_AddElement, FS_CardinalityType
  <2>3. Cardinality(below(o) \cup {o}) <= rank(p)
    BY <1>3, <2>1, FS_Subset
  <2> QED
    BY <2>2, <2>3
<1> HIDE DEF below
<1>5. ASSUME NEW o \in S, NEW p \in S, rank(o) = rank(p) PROVE o = p
  <2>1. ~ (Place(o) < Place(p)) /\ ~ (Place(p) < Place(o))
    BY <1>3, <1>4, <1>5
  <2> QED
    BY <1>2, <2>1
<1>6. \A n \in 1 .. N : \E o \in S : rank(o) = n - 1
  <2> DEFINE f == [o \in S |-> rank(o) + 1]
  <2>1. f \in [S -> 1 .. N]
    <3> HIDE DEF N
    <3> QED
      BY <1>1, <1>3 DEF N
  <2>2. \A o, p \in S : f[o] = f[p] => o = p
    <3>1. SUFFICES ASSUME NEW o \in S, NEW p \in S, f[o] = f[p] PROVE o = p
      OBVIOUS
    <3>2. rank(o) = rank(p)
      BY <1>1, <1>3, <3>1
    <3> QED
      BY <1>5, <3>2
  <2>3. f \in Injection(S, 1 .. N)
    BY <2>1, <2>2 DEF Injection, IsInjective
  <2>4. IsFiniteSet(1 .. N) /\ Cardinality(1 .. N) = N
    BY <1>1, FS_Interval
  <2> HIDE DEF f, N
  <2>5. f \in Surjection(S, 1 .. N)
    BY <2>3, <2>4, FS_Injection DEF N
  <2>6. ASSUME NEW n \in 1 .. N PROVE \E o \in S : rank(o) = n - 1
    <3>1. PICK o \in S : f[o] = n
      BY <2>5 DEF Surjection
    <3>2. rank(o) + 1 = n
      BY <3>1 DEF f
    <3>3. rank(o) \in Nat
      BY <1>1, <1>3 DEF N
    <3> QED
      BY <3>2, <3>3
  <2> QED
    BY <2>6
<1> DEFINE order == InOrder(S)
<1>7. order = [n \in 1 .. N |-> CHOOSE o \in S : rank(o) = n - 1]
  BY DEF InOrder, below
<1> HIDE DEF order, rank, N
<1>8. \A n \in 1 .. N : order[n] \in S /\ rank(order[n]) = n - 1
  BY <1>6, <1>7
<1>9. order \in Seq(S) /\ Len(order) = N
  BY <1>1, <1>7, <1>8
<1>10. ASSUME NEW o \in S PROVE \E i \in 1 .. N : order[i] = o
  <2>1. rank(o) + 1 \in 1 .. N /\ (rank(o) + 1) - 1 = rank(o)
    BY <1>1, <1>3
  <2>2. order[rank(o) + 1] = o
    BY <1>5, <1>8, <2>1
  <2> QED
    BY <2>1, <2>2
<1>11. \A i, j \in 1 .. N : order[i] = order[j] => i = j
  BY <1>1, <1>8
<1>12. ASSUME NEW i \in 1 .. N - 1 PROVE Place(order[i]) < Place(order[i + 1])
  <2>1. i \in 1 .. N /\ i + 1 \in 1 .. N
    BY <1>1
  <2>2. rank(order[i]) = i - 1 /\ rank(order[i + 1]) = (i + 1) - 1
    BY <1>8, <2>1
  <2>3. ~ (Place(order[i + 1]) < Place(order[i]))
    <3>1. order[i] \in S /\ order[i + 1] \in S /\ ~ (rank(order[i + 1]) < rank(order[i]))
      BY <1>1, <1>8, <2>1, <2>2
    <3> QED
      BY <1>4, <3>1
  <2>4. Place(order[i + 1]) # Place(order[i])
    BY <1>1, <1>2, <1>8, <1>11, <2>1
  <2>5. Place(order[i]) \in Nat /\ Place(order[i + 1]) \in Nat
    BY <1>2, <1>8, <2>1
  <2> QED
    BY <2>3, <2>4, <2>5
<1> QED
  BY <1>9, <1>10, <1>11, <1>12 DEF Lists, order

\* A merge that is gone took its rows from the region and the anchor only.
LEMMA GoneOrigin ==
  ASSUME NEW d, NEW m, NEW s, NEW a, NEW R, NEW order, Fusion(d, m, s, a, R, order),
         Acyclic(d), NEW o, NEW t, Joins(d, o, t), ~ Joins(Fused(d, a, R, order), o, t)
  PROVE  Origins(d, o, t) = {a}
<1> DEFINE F   == Fused(d, a, R, order)
           end == <<Last(order), "out">>
<1>1. Upstreams(d, o, t) # {}
  BY DEF Joins
<1>2. CASE o \in R
  <2>1. RowPreserving(d.op[o])
    BY <1>2 DEF Fusion, Fusable, Passes
  <2>2. t = In
    BY <2>1, SideSlotsSingle DEF Fusion
  <2>3. \A u \in Upstreams(d, o, t) : u = a \/ u[1] \in R
    BY <1>2, <2>2, RegionWalks
  <2> QED
    BY <1>1, <2>3, SingleOrigin DEF Origins
<1>3. CASE o \notin R
  <2>1. Fed(d, R, o, t)
    BY <1>3, OutsideUpstreams DEF Joins
  <2>2. Upstreams(F, o, t) = {u \in Upstreams(d, o, t) : u[1] \notin R /\ u # a} \cup {end}
    BY <1>3, <2>1, OutsideUpstreams
  <2>3. end[1] \in R
    BY ListEnds DEF Fusion, Fusable
  <2>4. \A u \in Upstreams(d, o, t) : u = a \/ u[1] \in R
    <3> HIDE DEF end, F
    <3>1. ASSUME NEW u \in Upstreams(d, o, t), u # a, u[1] \notin R PROVE FALSE
      <4>1. u \in Upstreams(F, o, t) /\ end \in Upstreams(F, o, t) /\ u # end
        BY <2>2, <2>3, <3>1
      <4> QED
        BY <4>1 DEF Joins, F
    <3> QED
      BY <3>1
  <2> QED
    BY <1>1, <2>4, SingleOrigin DEF Origins
<1> QED
  BY <1>2, <1>3

\* The loop finds a merge that has not failed.
LEMMA MergeFound ==
  ASSUME OrderState, FlowOK(df), Waiting # {}
  PROVE  /\ MergeOp \in Placed /\ MergeOp \in Ops(df) /\ MergeOp \notin failed
         /\ MergeSlot \in Merges(df, MergeOp)
<1>1. Waiting \in SUBSET Nat
  BY DEF Waiting
<1>2. First(Waiting) \in Waiting
  BY <1>1, FirstExists
<1>3. MergeOp \in Placed /\ MergeOp \notin failed /\ Merges(df, MergeOp) # {}
  BY <1>2 DEF MergeOp, Waiting, Placed
<1>4. MergeOp \in Ops(df)
  BY <1>3, PlacedMet
<1> DEFINE N == {n \in 1 .. Len(SlotNames) : SlotNames[n] \in Merges(df, MergeOp)}
<1>5. PICK s \in Merges(df, MergeOp) : TRUE
  BY <1>3
<1>6. s \in ToSet(SlotNames)
  BY <1>5 DEF Merges, Slots, FlowOK
<1>7. N # {} /\ N \in SUBSET Nat
  BY <1>5, <1>6, FusionAssumption DEF ToSet
<1>8. First(N) \in N
  <2> HIDE DEF N
  <2> QED
    BY <1>7, FirstExists
<1>9. MergeSlot \in Merges(df, MergeOp)
  BY <1>8 DEF MergeSlot
<1> QED
  BY <1>3, <1>4, <1>9

\* A merge of an ordered dataflow does not lie in its own region.
LEMMA MergeOutside ==
  ASSUME NEW d, Graph(d), FlowOK(d), NEW place, Numbered(d, place),
         NEW m \in Ops(d), NEW s
  PROVE  m \notin Region(d, Upstreams(d, m, s))
<1> DEFINE T == {k \in Outputs(d) : place[k[1]] < place[m]}
<1>1. Cardinality(Ops(d)) \in Nat
  BY FS_CardinalityType DEF Graph
<1>2. \A p, q : \A u \in Upstreams(d, p, q) : u \in Outputs(d) /\ place[u[1]] < place[p]
                   /\ u[1] \in Ops(d) /\ p \in Ops(d)
  <2> SUFFICES ASSUME NEW p, NEW q, NEW e \in d.edges, e.to = p
               PROVE  LET u == <<e.from, e.group>>
                      IN  /\ u \in Outputs(d) /\ place[u[1]] < place[p]
                          /\ u[1] \in Ops(d) /\ p \in Ops(d)
    BY UpstreamsAre
  <2> QED
    BY DEF Outputs, Numbered, FlowOK
<1>3. Upstreams(d, m, s) \subseteq T
  BY <1>2
<1>4. ASSUME NEW k \in T, NEW u \in Upstreams(d, k[1], In) PROVE u \in T
  <2>1. k[1] \in Ops(d) /\ u[1] \in Ops(d) /\ place[u[1]] < place[k[1]] /\ u \in Outputs(d)
    BY <1>2, <1>4
  <2>2. place[k[1]] < place[m] /\ place[k[1]] \in Nat /\ place[u[1]] \in Nat
    BY <1>4, <2>1 DEF Numbered
  <2>3. place[m] \in Nat
    BY DEF Numbered
  <2> QED
    BY <2>1, <2>2, <2>3
<1>5. Met(d, Upstreams(d, m, s)) \subseteq T
  <2> HIDE DEF T
  <2> QED
    BY <1>1, <1>3, <1>4, MetIsLeast DEF ClosedUp
<1>6. ASSUME m \in Region(d, Upstreams(d, m, s)) PROVE FALSE
  <2>1. PICK k \in T : k[1] = m /\ Passes(d, m)
    BY <1>5, <1>6 DEF Region
  <2>2. place[m] \in Nat
    BY <2>1, PassingOps DEF Numbered
  <2> QED
    BY <2>1, <2>2
<1> QED
  BY <1>6

\* Every operation is out once the order has ended without a cycle.
LEMMA AllPlaced ==
  ASSUME GraphOK, OrderStateOK, Cardinality(Placed) = Len(out), Ended,
         phase \notin {"ordering", "cycle"}
  PROVE  Placed = Ops(df)
<1>1. Placed \in SUBSET Ops(df)
  <2>1. \A i \in 1 .. Len(out) : out[i] \in Ops(df)
    BY DEF OrderStateOK
  <2> QED
    BY <2>1 DEF Placed
<1>2. Cardinality(Placed) = Cardinality(Ops(df)) /\ IsFiniteSet(Ops(df))
  BY DEF Ended, GraphOK, Graph
<1> QED
  BY <1>1, <1>2, FS_Subset

\* The fused region and the order of its chain.
Ups    == Upstreams(df, MergeOp, MergeSlot)
Anchor == CHOOSE k \in Boundaries(df, Ups) : TRUE
Span   == Region(df, Ups)
After  == Fused(df, Anchor, Span, InOrder(Span))

LEMMA RoundFuses ==
  ASSUME OrderState, FlowOK(df), Placed = Ops(df), Waiting # {},
         Aligned(df, MergeOp, MergeSlot)
  PROVE  /\ Fusion(df, MergeOp, MergeSlot, Anchor, Span, InOrder(Span))
         /\ Acyclic(df) /\ Acyclic(After)
<1> DEFINE place == [o \in Ops(df) |-> Place(o)]
<1>1. Graph(df) /\ Numbered(df, place)
  BY OrderNumbers DEF OrderState, GraphOK
<1>2. /\ MergeOp \in Ops(df) /\ MergeSlot \in Merges(df, MergeOp)
      /\ Cardinality(Boundaries(df, Ups)) = 1 /\ MergeOp \notin Span
  BY MergeFound DEF Aligned, Ups, Span
<1>3. Anchor \in Boundaries(df, Ups)
  <2>1. Boundaries(df, Ups) # {}
    BY <1>2, FS_EmptySet
  <2> QED
    BY <2>1 DEF Anchor
<1>4. Fusable(df, MergeOp, MergeSlot, Anchor, Span)
  BY <1>1, <1>2, <1>3, RegionFusable DEF Ups, Span
<1>5. Span \in SUBSET Placed
  BY <1>4 DEF Fusable
<1>6. /\ Lists(InOrder(Span), Span)
      /\ \A i \in 1 .. Len(InOrder(Span)) - 1 :
           Place(InOrder(Span)[i]) < Place(InOrder(Span)[i + 1])
  BY <1>5, InOrderLists
<1>7. Fusion(df, MergeOp, MergeSlot, Anchor, Span, InOrder(Span))
  BY <1>1, <1>4, <1>6 DEF Fusion
<1>8. \A i \in 1 .. Len(InOrder(Span)) - 1 :
        place[InOrder(Span)[i]] < place[InOrder(Span)[i + 1]]
  <2> TAKE i \in 1 .. Len(InOrder(Span)) - 1
  <2>1. InOrder(Span)[i] \in Ops(df) /\ InOrder(Span)[i + 1] \in Ops(df)
    BY <1>5, <1>6 DEF Lists
  <2> QED
    BY <1>6, <2>1
<1> HIDE DEF place
<1>9. Acyclic(df)
  BY <1>1, NumberedAcyclic
<1>10. Acyclic(After)
  BY <1>1, <1>7, <1>8, FusedAcyclic DEF After
<1> QED
  BY <1>7, <1>9, <1>10

\* What a round of fusion does to the merges.
LEMMA RoundMerges ==
  ASSUME OrderState, FlowOK(df), Placed = Ops(df), Waiting # {},
         Aligned(df, MergeOp, MergeSlot)
  PROVE  /\ Graph(After) /\ FlowOK(After) /\ Ops(After) = Ops(df)
         /\ \A o \in Ops(df) :
              /\ \A s \in Merges(After, o) : s \in Merges(df, o) /\ Origins(After, o, s) = Origins(df, o, s)
              /\ \A s \in Merges(df, o) \ Merges(After, o) : Cardinality(Origins(df, o, s)) = 1
         /\ MergeSlot \notin Merges(After, MergeOp)
<1>1. Fusion(df, MergeOp, MergeSlot, Anchor, Span, InOrder(Span)) /\ Acyclic(df) /\ Acyclic(After)
  BY RoundFuses
<1>2. Graph(df) /\ Graph(After) /\ FlowOK(After) /\ Ops(After) = Ops(df)
  BY <1>1, GraphFused, FlowFused, FusedOps DEF Fusion, After
<1>3. \A o, s : /\ s \in Merges(df, o) <=> Joins(df, o, s)
                /\ s \in Merges(After, o) <=> Joins(After, o, s)
  BY <1>2, MergesJoin DEF Graph
<1>4. ASSUME NEW o \in Ops(df), NEW s \in Merges(After, o)
      PROVE  s \in Merges(df, o) /\ Origins(After, o, s) = Origins(df, o, s)
  <2>1. Joins(df, o, s) /\ o \notin Span
    BY <1>1, <1>3, <1>4, FusedMerges DEF After
  <2> QED
    BY <1>1, <1>3, <2>1, FusedOrigins DEF After
<1>5. ASSUME NEW o \in Ops(df), NEW s \in Merges(df, o) \ Merges(After, o)
      PROVE  Cardinality(Origins(df, o, s)) = 1
  <2>1. Origins(df, o, s) = {Anchor}
    BY <1>1, <1>3, <1>5, GoneOrigin DEF After
  <2> QED
    BY <2>1, FS_Singleton
<1>6. MergeSlot \notin Merges(After, MergeOp)
  BY <1>1, <1>3, FusedMerges DEF After
<1> QED
  BY <1>2, <1>4, <1>5, <1>6

\* A merge that is not aligned has no single origin.
LEMMA RoundFails ==
  ASSUME OrderState, FlowOK(df), Placed = Ops(df), Waiting # {},
         ~ Aligned(df, MergeOp, MergeSlot)
  PROVE  Cardinality(Origins(df, MergeOp, MergeSlot)) # 1
<1>1. Numbered(df, [o \in Ops(df) |-> Place(o)]) /\ Graph(df)
  BY OrderNumbers DEF OrderState, GraphOK
<1>2. MergeOp \in Ops(df)
  BY MergeFound
<1>3. MergeOp \notin Region(df, Upstreams(df, MergeOp, MergeSlot))
  BY <1>1, <1>2, MergeOutside
<1> QED
  BY <1>3 DEF Aligned, Origins

-----------------------------------------------------------------------------
(* The invariant. *)

\* What the invariant says while the loop runs, of any dataflow.
LEMMA InvSays ==
  ASSUME FusionInv, phase # "done"
  PROVE  /\ OrderState /\ FlowOK(df)
         /\ phase \notin {"ordering", "cycle"} => Placed = Ops(df)
<1>1. OrderState
  BY DEF FusionInv, TypeOK, OrderState
<1> QED
  BY <1>1, AllPlaced DEF FusionInv, TypeOK

LEMMA FusionInvInit == Init => FusionInv
<1> SUFFICES ASSUME Init PROVE FusionInv
  OBVIOUS
<1>1. OrderInv
  BY OrderInvInit DEF Init
<1>2. phase = "ordering" /\ df = start /\ failed = {} /\ df \in Dataflows
  BY DEF Init, OrderInit, StartsWith
<1>3. FlowOK(df)
  BY <1>2, FusionAssumption
<1>4. Links(df) = df.edges
  BY <1>3 DEF Links, FlowOK
<1>5. OriginsKept /\ FailuresReal
  BY <1>2 DEF OriginsKept, FailuresReal
<1>6. TypeOK
  BY <1>1, <1>2, <1>4 DEF TypeOK, OrderInv, OrderState
<1> QED
  BY <1>1, <1>2, <1>3, <1>5, <1>6
     DEF FusionInv, OrderInv, OrderState, FailsIffNotAligned, OneUpstreamPerSlot

\* A step that keeps the dataflow and the failures, before the merges are marked.
LEMMA SameDataflow ==
  ASSUME FusionInv, phase # "done", UNCHANGED <<df, start, failed>>, OrderState', Ended',
         phase' \in {"ordering", "ordered", "cycle", "fused"},
         phase' = "fused" => NothingLeft
  PROVE  FusionInv'
<1>1. /\ OriginsKept' /\ FailuresReal'
      /\ FlowOK(df') /\ (df' = start' \/ Acyclic(df'))
  BY DEF FusionInv, OriginsKept, FailuresReal
<1>2. TypeOK'
  BY DEF FusionInv, TypeOK, OrderState
<1>3. (phase = "fused" => NothingLeft)'
  BY DEF NothingLeft
<1>4. FailsIffNotAligned'
  <2> SUFFICES ASSUME phase' = "fused"
               PROVE  failed = {o \in Ops(start) : \E s \in Merges(start, o) :
                                  Cardinality(Origins(start, o, s)) # 1}
    BY DEF FailsIffNotAligned, Origins
  <2>1. Ops(df) = Ops(start) /\ failed \subseteq Ops(df) /\ OriginsKept /\ FailuresReal /\ NothingLeft
    BY DEF FusionInv, TypeOK
  <2>2. ASSUME NEW o \in Ops(start) \ failed, NEW s \in Merges(start, o)
        PROVE  Cardinality(Origins(start, o, s)) = 1
    BY <2>1, <2>2 DEF OriginsKept, NothingLeft
  <2> QED
    BY <2>1, <2>2 DEF FailuresReal
<1>5. OneUpstreamPerSlot'
  BY DEF OneUpstreamPerSlot
<1> QED
  BY <1>1, <1>2, <1>3, <1>4, <1>5 DEF FusionInv, OrderState

LEMMA OrderStepFuses == FusionInv /\ OrderNext /\ UNCHANGED <<start, failed>> => FusionInv'
<1> SUFFICES ASSUME FusionInv, OrderNext, UNCHANGED <<start, failed>> PROVE FusionInv'
  OBVIOUS
<1>1. phase = "ordering" /\ df' = df /\ phase' \in {"ordering", "ordered", "cycle"}
  BY DEF OrderNext, NextReady, EndOrder
<1>2. OrderState'
  BY <1>1, InvSays, OrderStepOK
<1>3. Ended'
  BY DEF OrderNext, NextReady, EndOrder, Ended, Ops
<1> QED
  BY <1>1, <1>2, <1>3, SameDataflow

LEMMA NothingPendingFuses == FusionInv /\ NothingPending => FusionInv'
<1> SUFFICES ASSUME FusionInv, NothingPending PROVE FusionInv'
  OBVIOUS
<1>1. phase = "ordered" /\ phase' = "fused" /\ UNCHANGED <<df, indegree, ready, out, start, failed>>
  BY DEF NothingPending
<1>2. OrderState' /\ OrderState /\ Placed = Ops(df)
  BY <1>1, InvSays, OrderUnchanged
<1>3. Ended'
  BY <1>1 DEF FusionInv, Ended, Ops
<1>4. NothingLeft
  BY <1>2 DEF NothingLeft, NothingPending, Waiting, Placed
<1> QED
  BY <1>1, <1>2, <1>3, <1>4, SameDataflow

\* The loop starts again with some dataflow.
LEMMA StartsAgain ==
  ASSUME Graph(df'), StartsWith(df', phase', indegree', ready', out')
  PROVE  OrderState' /\ Ended' /\ phase' = "ordering"
<1>1. (GraphOK /\ Starting => OrderState)'
  BY StartingOK, PTL
<1>2. GraphOK' /\ Starting'
  BY DEF GraphOK, Starting
<1> QED
  BY <1>1, <1>2 DEF StartsWith, Ended

LEMMA FailOneFuses == FusionInv /\ FailOne => FusionInv'
<1> SUFFICES ASSUME FusionInv, FailOne PROVE FusionInv'
  OBVIOUS
<1>1. /\ phase = "ordered" /\ Waiting # {} /\ ~ Aligned(df, MergeOp, MergeSlot)
      /\ failed' = failed \cup {MergeOp} /\ UNCHANGED <<df, start>>
      /\ StartsWith(df', phase', indegree', ready', out')
  BY DEF FailOne
<1>2. OrderState /\ FlowOK(df) /\ Placed = Ops(df)
  BY <1>1, InvSays
<1>3. OrderState' /\ Ended' /\ phase' = "ordering"
  BY <1>1, <1>2, StartsAgain DEF OrderState, GraphOK
<1>4. MergeOp \in Ops(df) /\ MergeSlot \in Merges(df, MergeOp)
  BY <1>1, <1>2, MergeFound
<1>5. MergeSlot \in Merges(start, MergeOp) /\ Cardinality(Origins(start, MergeOp, MergeSlot)) # 1
  BY <1>1, <1>2, <1>4, RoundFails DEF FusionInv, OriginsKept
<1>6. FailuresReal'
  BY <1>1, <1>5 DEF FusionInv, FailuresReal
<1>7. OriginsKept' /\ FlowOK(df') /\ (df' = start' \/ Acyclic(df'))
  BY <1>1 DEF FusionInv, OriginsKept
<1>8. TypeOK'
  BY <1>1, <1>3, <1>4 DEF FusionInv, TypeOK, OrderState
<1> QED
  BY <1>3, <1>6, <1>7, <1>8
     DEF FusionInv, OrderState, FailsIffNotAligned, OneUpstreamPerSlot

LEMMA FuseOneFuses == FusionInv /\ FuseOne => FusionInv'
<1> SUFFICES ASSUME FusionInv, FuseOne PROVE FusionInv'
  OBVIOUS
<1>1. /\ phase = "ordered" /\ Waiting # {} /\ Aligned(df, MergeOp, MergeSlot)
      /\ df' = After /\ UNCHANGED <<start, failed>>
      /\ StartsWith(df', phase', indegree', ready', out')
  BY DEF FuseOne, After, Ups, Anchor, Span
<1>2. OrderState /\ FlowOK(df) /\ Placed = Ops(df)
  BY <1>1, InvSays
<1>3. Acyclic(After)
  BY <1>1, <1>2, RoundFuses
<1>4. /\ Graph(After) /\ FlowOK(After) /\ Ops(After) = Ops(df)
      /\ \A o \in Ops(df) :
           /\ \A s \in Merges(After, o) : s \in Merges(df, o) /\ Origins(After, o, s) = Origins(df, o, s)
           /\ \A s \in Merges(df, o) \ Merges(After, o) : Cardinality(Origins(df, o, s)) = 1
  BY <1>1, <1>2, RoundMerges
<1>5. OrderState' /\ Ended' /\ phase' = "ordering"
  BY <1>1, <1>4, StartsAgain
<1>6. \A o \in Ops(df) :
        /\ \A s \in Merges(After, o) : s \in Merges(start, o) /\ Origins(After, o, s) = Origins(start, o, s)
        /\ \A s \in Merges(start, o) \ Merges(After, o) : Cardinality(Origins(start, o, s)) = 1
  BY <1>1, <1>4 DEF FusionInv, OriginsKept
<1>7. OriginsKept'
  BY <1>1, <1>4, <1>6 DEF OriginsKept
<1>8. FailuresReal' /\ FlowOK(df') /\ Acyclic(df')
  BY <1>1, <1>3, <1>4 DEF FusionInv, FailuresReal
<1>9. Links(df') = df'.edges
  BY <1>8 DEF Links, FlowOK
<1>10. TypeOK'
  BY <1>1, <1>4, <1>5, <1>9 DEF FusionInv, TypeOK, OrderState
<1> QED
  BY <1>5, <1>7, <1>8, <1>10
     DEF FusionInv, OrderState, FailsIffNotAligned, OneUpstreamPerSlot

\* The edges into an operation can be numbered.
LEMMA Numbering ==
  ASSUME NEW S, IsFiniteSet(S)
  PROVE  \E n \in [S -> 1 .. Cardinality(S)] : IsInjective(n)
<1>1. Cardinality(S) \in Nat
  BY FS_CardinalityType
<1>2. IsFiniteSet(1 .. Cardinality(S)) /\ Cardinality(1 .. Cardinality(S)) = Cardinality(S)
  BY <1>1, FS_Interval
<1>3. ExistsBijection(S, 1 .. Cardinality(S))
  BY <1>2, FS_SameCardinalityBij
<1> QED
  BY <1>3 DEF ExistsBijection, Bijection, Injection, IsInjective

\* Marking numbers the edges into the failed operations and leaves the others alone.
LEMMA MarkedEdges ==
  ASSUME FlowOK(df), IsFiniteSet(df.edges), MarkUnsupported
  PROVE  \E number :
           /\ \A e, f \in df.edges : e.to = f.to /\ number[e] = number[f] => e = f
           /\ \A g : g \in df'.edges <=>
                \E e \in df.edges :
                  g = Edge(e.from, e.group, e.to,
                           IF e.to \in failed THEN <<"in", number[e]>> ELSE e.slot, e.columns)
<1> DEFINE into(o) == {e \in df.edges : e.to = o}
           num(o)  == CHOOSE n \in [into(o) -> 1 .. Cardinality(into(o))] : IsInjective(n)
           number  == [e \in df.edges |-> num(e.to)[e]]
           slot(e) == IF e.to \in failed THEN <<"in", num(e.to)[e]>> ELSE e.slot
<1>1. \A o : num(o) \in [into(o) -> 1 .. Cardinality(into(o))] /\ IsInjective(num(o))
  <2>1. TAKE o
  <2>2. IsFiniteSet(into(o))
    BY FS_Subset
  <2> HIDE DEF into
  <2>3. \E n \in [into(o) -> 1 .. Cardinality(into(o))] : IsInjective(n)
    BY <2>2, Numbering
  <2> QED
    BY <2>3
<1>2. df'.edges = {[e EXCEPT !.slot = slot(e)] : e \in df.edges}
  BY DEF MarkUnsupported
<1> HIDE DEF num
<1>3. ASSUME NEW e \in df.edges, NEW f \in df.edges, e.to = f.to, number[e] = number[f]
      PROVE  e = f
  <2>1. e \in into(e.to) /\ f \in into(e.to) /\ num(e.to)[e] = num(e.to)[f]
    BY <1>3
  <2> HIDE DEF number, into
  <2> QED
    BY <1>1, <2>1 DEF IsInjective
<1>4. ASSUME NEW e \in df.edges
      PROVE  [e EXCEPT !.slot = slot(e)]
               = Edge(e.from, e.group, e.to,
                      IF e.to \in failed THEN <<"in", number[e]>> ELSE e.slot, e.columns)
  <2>1. slot(e) = IF e.to \in failed THEN <<"in", number[e]>> ELSE e.slot
    OBVIOUS
  <2>2. e = Edge(e.from, e.group, e.to, e.slot, e.columns)
    BY DEF FlowOK
  <2>3. \A from, group, to, s, columns, t :
          [Edge(from, group, to, s, columns) EXCEPT !.slot = t] = Edge(from, group, to, t, columns)
    BY DEF Edge
  <2> HIDE DEF slot, number
  <2>4. [e EXCEPT !.slot = slot(e)] = Edge(e.from, e.group, e.to, slot(e), e.columns)
    BY <2>2, <2>3
  <2> QED
    BY <2>1, <2>4
<1> HIDE DEF slot, number
<1>5. \A g : g \in df'.edges <=>
                \E e \in df.edges :
                  g = Edge(e.from, e.group, e.to,
                           IF e.to \in failed THEN <<"in", number[e]>> ELSE e.slot, e.columns)
  BY <1>2, <1>4
<1> QED
  BY <1>3, <1>5

LEMMA MarkUnsupportedFuses == FusionInv /\ MarkUnsupported => FusionInv'
<1> SUFFICES ASSUME FusionInv, MarkUnsupported PROVE FusionInv'
  OBVIOUS
<1>1. /\ phase = "fused" /\ phase' = "done"
      /\ UNCHANGED <<indegree, ready, out, start, failed>>
  BY DEF MarkUnsupported
<1>2. /\ OrderState /\ FlowOK(df) /\ NothingLeft /\ Graph(df)
      /\ Ops(df) = Ops(start) /\ failed \subseteq Ops(df)
  BY <1>1, InvSays DEF FusionInv, TypeOK, GraphOK
<1>3. Ops(df') = Ops(df)
  BY DEF MarkUnsupported, Ops
<1>4. PICK number :
           /\ \A e, f \in df.edges : e.to = f.to /\ number[e] = number[f] => e = f
           /\ \A g : g \in df'.edges <=>
                \E e \in df.edges :
                  g = Edge(e.from, e.group, e.to,
                           IF e.to \in failed THEN <<"in", number[e]>> ELSE e.slot, e.columns)
  BY <1>2, MarkedEdges DEF Graph
<1> DEFINE mark(e) == Edge(e.from, e.group, e.to,
                           IF e.to \in failed THEN <<"in", number[e]>> ELSE e.slot, e.columns)
<1>5. \A e : /\ mark(e).from = e.from /\ mark(e).group = e.group /\ mark(e).to = e.to
             /\ mark(e).slot = IF e.to \in failed THEN <<"in", number[e]>> ELSE e.slot
  BY DEF Edge
<1>6. df'.edges = {mark(e) : e \in df.edges}
  BY <1>4
<1> HIDE DEF mark
<1>7. IsFiniteSet(df'.edges)
  <2> DEFINE f == [e \in df.edges |-> mark(e)]
  <2>1. f \in Surjection(df.edges, df'.edges)
    BY <1>6 DEF Surjection
  <2> QED
    BY <1>2, <2>1, FS_Surjection DEF Graph
<1>8. Graph(df') /\ GraphOK'
  BY <1>2, <1>3, <1>7 DEF Graph, GraphOK
<1>9. Links(df) = df.edges /\ Links(df') = df'.edges
  BY <1>2, <1>3, <1>5, <1>6 DEF Links, FlowOK
<1>10. \A o, S : Unmet(o, S)' = {} <=> Unmet(o, S) = {}
  <2>1. TAKE o, S
  <2>2. Unmet(o, S)' = {e \in df'.edges : e.to = o /\ e.from \notin S'}
    BY <1>9 DEF Unmet
  <2>3. Unmet(o, S) = {e \in df.edges : e.to = o /\ e.from \notin S}
    BY <1>9 DEF Unmet
  <2> QED
    BY <1>5, <1>6, <2>2, <2>3
<1>11. LeastSoFar'
  <2>1. \A i : Before(i)' = Before(i)
    BY <1>1 DEF Before
  <2>2. \A i : FirstAt(i) => FirstAt(i)'
    BY <1>1, <1>3, <1>10, <2>1 DEF FirstAt
  <2> QED
    BY <1>1, <1>2, <2>2 DEF OrderState, LeastSoFar
<1>12. Cardinality(Placed') = Len(out') /\ Ended'
  <2>1. Placed' = Placed
    BY <1>1 DEF Placed
  <2>2. Ended
    BY DEF FusionInv
  <2> QED
    BY <1>1, <1>2, <1>3, <2>1, <2>2 DEF OrderState, Ended
<1>13. TypeOK'
  <2>1. OrderStateOK'
    BY <1>1, <1>2, <1>3 DEF OrderState, OrderStateOK
  <2> QED
    BY <1>1, <1>2, <1>3, <1>9, <2>1 DEF TypeOK
<1>14. FailuresReal' /\ FailsIffNotAligned'
  BY <1>1 DEF FusionInv, FailuresReal, FailsIffNotAligned
<1>15. OneUpstreamPerSlot'
  <2>1. SUFFICES ASSUME NEW o \in Ops(df), NEW t PROVE ~ Joins(df', o, t)
    BY <1>3, <1>7, MergesJoin DEF OneUpstreamPerSlot
  <2>2. SUFFICES ASSUME NEW e \in df.edges, NEW f \in df.edges,
                        e.to = o, f.to = o, mark(e).slot = t, mark(f).slot = t
                 PROVE  <<e.from, e.group>> = <<f.from, f.group>>
    BY <1>5, <1>6, UpstreamsAre DEF Joins
  <2>3. CASE o \in failed
    <3>1. mark(e).slot = <<"in", number[e]>> /\ mark(f).slot = <<"in", number[f]>>
      BY <1>5, <2>2, <2>3
    <3>2. <<"in", number[e]>>[2] = <<"in", number[f]>>[2]
      BY <2>2, <3>1
    <3> QED
      BY <1>4, <2>2, <3>2
  <2>4. CASE o \notin failed
    <3>1. e.slot = t /\ f.slot = t
      BY <1>5, <2>2, <2>4
    <3>2. <<e.from, e.group>> \in Upstreams(df, o, t) /\ <<f.from, f.group>> \in Upstreams(df, o, t)
      BY <2>2, <3>1, UpstreamsAre
    <3>3. ~ Joins(df, o, t)
      BY <1>2, <2>4, MergesJoin DEF NothingLeft, Graph
    <3> QED
      BY <3>2, <3>3 DEF Joins
  <2> QED
    BY <2>3, <2>4
<1> QED
  BY <1>1, <1>8, <1>11, <1>12, <1>13, <1>14, <1>15 DEF FusionInv

LEMMA StutterFuses == FusionInv /\ UNCHANGED fusionVars => FusionInv'
<1> SUFFICES ASSUME FusionInv, UNCHANGED fusionVars PROVE FusionInv'
  OBVIOUS
<1>1. UNCHANGED <<df, phase, indegree, ready, out, start, failed>>
  BY DEF fusionVars, orderVars
<1>2. CASE phase # "done"
  <2>1. OrderState'
    BY <1>1, <1>2, InvSays, OrderUnchanged
  <2> QED
    BY <1>1, <1>2, <2>1, SameDataflow DEF FusionInv, TypeOK, Ended
<1>3. CASE phase = "done"
  <2>1. Placed' = Placed /\ \A i : Before(i)' = Before(i)
    BY <1>1 DEF Placed, Before
  <2>2. \A o, S : Unmet(o, S)' = Unmet(o, S)
    BY <1>1 DEF Unmet, Links, Ops
  <2>3. LeastSoFar'
    <3>1. \A i : FirstAt(i) => FirstAt(i)'
      BY <1>1, <2>1, <2>2 DEF FirstAt, Ops
    <3> QED
      BY <1>1, <3>1 DEF FusionInv, LeastSoFar
  <2>4. TypeOK' /\ GraphOK' /\ Ended'
    BY <1>1 DEF FusionInv, TypeOK, OrderStateOK, GraphOK, Ended
  <2>5. FailuresReal' /\ FailsIffNotAligned' /\ OneUpstreamPerSlot'
    BY <1>1 DEF FusionInv, FailuresReal, FailsIffNotAligned, OneUpstreamPerSlot
  <2> QED
    BY <1>1, <1>3, <2>1, <2>3, <2>4, <2>5 DEF FusionInv
<1> QED
  BY <1>2, <1>3

LEMMA FusionInvariant == Spec => []FusionInv
<1>1. FusionInv /\ [Next]_fusionVars => FusionInv'
  BY OrderStepFuses, FuseOneFuses, FailOneFuses, NothingPendingFuses, MarkUnsupportedFuses,
     StutterFuses DEF Next
<1> QED
  BY <1>1, FusionInvInit, PTL DEF Spec

-----------------------------------------------------------------------------
\* Fusion rewrites operations and edges, never which operations there are.
THEOREM FusionTypes == Spec => []TypeOK
<1>1. FusionInv => TypeOK
  BY DEF FusionInv
<1> QED
  BY <1>1, FusionInvariant, PTL

\* In every round the order is the least linear extension of what the rounds before made.
THEOREM RoundsAreOrdered == Spec => []OrderIsLeastExtension
<1>1. FusionInv => OrderIsLeastExtension
  BY AllPlaced DEF FusionInv, TypeOK, OrderIsLeastExtension, LeastSoFar, FirstAt
<1> QED
  BY <1>1, FusionInvariant, PTL

\* A merge fails if and only if its upstreams, in the dataflow as it was, do not come from
\* one output: what fuse_row_aligned did before it changes no outcome.
THEOREM FailuresCorrect == Spec => []FailsIffNotAligned
<1>1. FusionInv => FailsIffNotAligned
  BY DEF FusionInv
<1> QED
  BY <1>1, FusionInvariant, PTL

\* After fusion and mark_unsupported every slot of every operation has one upstream.
THEOREM OneUpstreamCorrect == Spec => []OneUpstreamPerSlot
<1>1. FusionInv => OneUpstreamPerSlot
  BY DEF FusionInv
<1> QED
  BY <1>1, FusionInvariant, PTL

\* Only a cycle of the dataflow as it was makes topological_order raise its error.
THEOREM NoCycleCorrect == Spec => []FusionMakesNoCycle
<1>1. FusionInv => FusionMakesNoCycle
  <2> SUFFICES ASSUME FusionInv, phase = "cycle" PROVE df = start /\ CycleIsReal
    BY DEF FusionMakesNoCycle
  <2>1. OrderState
    BY InvSays
  <2>2. OrderInv
    BY <2>1 DEF FusionInv, OrderInv, OrderState, OrderTypeOK
  <2>3. CycleIsReal
    BY <2>2, OrderInvSuffices
  <2>4. ~ Acyclic(df)
    <3> DEFINE left == Ops(df) \ Placed
    <3>1. left # {} /\ \A o \in left : \E e \in Links(df) : e.to = o /\ e.from \in left
      BY <2>3 DEF CycleIsReal
    <3>2. left \in SUBSET Ops(df) /\ Links(df) \subseteq df.edges
      BY DEF Links
    <3> HIDE DEF left
    <3> QED
      BY <3>1, <3>2 DEF Acyclic
  <2> QED
    BY <2>3, <2>4 DEF FusionInv
<1> QED
  BY <1>1, FusionInvariant, PTL

\* Each round of the loop leaves strictly fewer merges pending, so the loop ends.
THEOREM RoundsShrinkCorrect == Spec => RoundsShrink
<1> DEFINE Shrinks == phase = "ordered" /\ phase' = "ordering" =>
                        /\ Pending(df', failed') \subseteq Pending(df, failed)
                        /\ Pending(df', failed') # Pending(df, failed)
<1>1. FusionInv /\ [Next]_fusionVars => [Shrinks]_fusionVars
  <2> SUFFICES ASSUME FusionInv, Next, phase = "ordered", phase' = "ordering"
               PROVE  /\ Pending(df', failed') \subseteq Pending(df, failed)
                      /\ Pending(df', failed') # Pending(df, failed)
    OBVIOUS
  <2>1. OrderState /\ FlowOK(df) /\ Placed = Ops(df)
    BY InvSays
  <2>2. Waiting # {} => /\ MergeOp \in Ops(df) \ failed /\ MergeSlot \in Merges(df, MergeOp)
                        /\ <<MergeOp, MergeSlot>> \in Pending(df, failed)
    BY <2>1, MergeFound DEF Pending
  <2>3. CASE FuseOne
    <3>1. /\ Waiting # {} /\ Aligned(df, MergeOp, MergeSlot)
          /\ df' = After /\ failed' = failed
      BY <2>3 DEF FuseOne, After, Ups, Anchor, Span
    <3>2. /\ Ops(df') = Ops(df) /\ \A o \in Ops(df) : Merges(df', o) \subseteq Merges(df, o)
          /\ MergeSlot \notin Merges(df', MergeOp)
      BY <2>1, <3>1, RoundMerges
    <3>3. <<MergeOp, MergeSlot>> \notin Pending(df', failed')
      BY <3>2 DEF Pending
    <3> QED
      BY <2>2, <3>1, <3>2, <3>3 DEF Pending
  <2>4. CASE FailOne
    <3>1. Waiting # {} /\ df' = df /\ failed' = failed \cup {MergeOp}
      BY <2>4 DEF FailOne
    <3>2. <<MergeOp, MergeSlot>> \notin Pending(df', failed')
      BY <3>1 DEF Pending
    <3> QED
      BY <2>2, <3>1, <3>2 DEF Pending
  <2> QED
    BY <2>3, <2>4 DEF Next, OrderNext, NextReady, EndOrder, NothingPending, MarkUnsupported
<1> QED
  BY <1>1, FusionInvariant, PTL DEF Spec, RoundsShrink

-----------------------------------------------------------------------------
(* The columns of a dataflow and what arrives at a slot. *)

LEMMA AllColumnsAre ==
  ASSUME NEW d, NEW k
  PROVE  k \in AllColumns(d) <=>
           /\ k = <<k[1], k[2], k[3]>> /\ k[1] \in Ops(d)
           /\ k[2] \in Groups(d, k[1]) \cup {"out"}
           /\ k[3] \in DOMAIN OutputColumns(d, k[1], k[2])
<1>1. ASSUME NEW o
      PROVE  k \in ColumnsOf(d, o) <=>
               \E g \in Groups(d, o) \cup {"out"} :
                 \E c \in DOMAIN OutputColumns(d, o, g) : k = <<o, g, c>>
  BY DEF ColumnsOf
<1>2. k \in AllColumns(d) <=> \E o \in Ops(d) : k \in ColumnsOf(d, o)
  BY DEF AllColumns
<1> QED
  BY <1>1, <1>2

\* The columns of an operation that passes are those it declares.
LEMMA PassedColumns ==
  ASSUME NEW d, FlowOK(d), ColumnsOK(d), NEW o, Passes(d, o)
  PROVE  /\ o \in Ops(d) /\ PassesColumns(d, o)
         /\ OutputColumns(d, o, "out") = d.op[o].out["out"]
         /\ \A k : k \in AllColumns(d) /\ k[1] = o <=>
                     k = <<o, "out", k[3]>> /\ k[3] \in Declared(d.op[o])
<1>1. o \in Ops(d) /\ PassesColumns(d, o)
  BY PassingOps DEF ColumnsOK
<1>2. Groups(d, o) = {"out"}
  BY <1>1 DEF PassesColumns
<1>3. OutputColumns(d, o, "out") = d.op[o].out["out"]
  BY <1>2 DEF OutputColumns
<1>4. ASSUME NEW k
      PROVE  k \in AllColumns(d) /\ k[1] = o <=>
                k = <<o, "out", k[3]>> /\ k[3] \in Declared(d.op[o])
  <2>1. k = <<o, "out", k[3]>> => k[1] = o /\ k[2] = "out"
    OBVIOUS
  <2> QED
    BY <1>1, <1>2, <1>3, <2>1, AllColumnsAre DEF Declared
<1> QED
  BY <1>1, <1>3, <1>4

\* Two edges do not join one output to one slot.
EdgesOnce(d) ==
  \A e, f \in d.edges :
    e.from = f.from /\ e.group = f.group /\ e.to = f.to /\ e.slot = f.slot => e = f

LEMMA EdgesAreOnce ==
  ASSUME NEW d, FlowOK(d), ColumnsOK(d)
  PROVE  EdgesOnce(d)
<1> SUFFICES ASSUME NEW e \in d.edges, NEW f \in d.edges,
                    e.from = f.from, e.group = f.group, e.to = f.to, e.slot = f.slot
             PROVE  e = f
  BY DEF EdgesOnce
<1>1. e = Edge(e.from, e.group, e.to, e.slot, e.columns)
  BY DEF FlowOK
<1>2. Edge(f.from, f.group, f.to, f.slot, e.columns) = e
  BY <1>1
<1> QED
  BY <1>2 DEF ColumnsOK

\* So what arrives at a slot is what each edge takes.
LEMMA ArrivalsAre ==
  ASSUME NEW d, EdgesOnce(d), NEW o, NEW s, NEW x
  PROVE  x \in Arrivals(d, o, s) <=>
           \E e \in d.edges : /\ e.to = o /\ e.slot = s
                              /\ \E t \in Taken(d, e) : x = <<<<e.from, e.group, t[1]>>, t[2]>>
<1>1. ASSUME NEW e \in d.edges, e.to = o, e.slot = s
      PROVE  Mappings(d, o, s, <<e.from, e.group>>) = Taken(d, e)
  <2>1. {f \in Into(d, o, s) : <<f.from, f.group>> = <<e.from, e.group>>} = {e}
    BY <1>1 DEF Into, EdgesOnce
  <2>2. UNION {f.columns : f \in {g \in Into(d, o, s) : <<g.from, g.group>> = <<e.from, e.group>>}}
          = e.columns
    BY <2>1
  <2> QED
    BY <2>2 DEF Mappings, Taken
<1>2. x \in Arrivals(d, o, s) <=>
        \E u \in Upstreams(d, o, s) :
          \E t \in Mappings(d, o, s, u) : x = <<<<u[1], u[2], t[1]>>, t[2]>>
  BY DEF Arrivals
<1>3. ASSUME NEW e \in d.edges, e.to = o, e.slot = s, NEW t \in Taken(d, e),
             x = <<<<e.from, e.group, t[1]>>, t[2]>>
      PROVE  x \in Arrivals(d, o, s)
  <2>1. <<e.from, e.group>> \in Upstreams(d, o, s) /\ t \in Mappings(d, o, s, <<e.from, e.group>>)
    BY <1>1, <1>3, UpstreamsAre
  <2> QED
    BY <1>2, <1>3, <2>1
<1>4. ASSUME NEW u \in Upstreams(d, o, s), NEW t \in Mappings(d, o, s, u),
             x = <<<<u[1], u[2], t[1]>>, t[2]>>
      PROVE  \E e \in d.edges : /\ e.to = o /\ e.slot = s
                                /\ \E r \in Taken(d, e) : x = <<<<e.from, e.group, r[1]>>, r[2]>>
  <2>1. PICK e \in d.edges : e.to = o /\ e.slot = s /\ u = <<e.from, e.group>>
    BY UpstreamsAre
  <2>2. t \in Taken(d, e) /\ x = <<<<e.from, e.group, t[1]>>, t[2]>>
    BY <1>1, <1>4, <2>1
  <2> QED
    BY <2>1, <2>2
<1> QED
  BY <1>2, <1>3, <1>4

\* The source of a port of an operation that passes is what arrives there.
LEMMA SourceIs ==
  ASSUME NEW d, NEW o, PassesColumns(d, o), NEW s \in {In, Lookup},
         NEW x \in Arrivals(d, o, s)
  PROVE  SourceOf(d, o, s, x[2]) = x[1]
<1>1. \A y \in Arrivals(d, o, s) : y[2] = x[2] => y = x
  BY DEF PassesColumns
<1> QED
  BY <1>1 DEF SourceOf

LEMMA SourceExists ==
  ASSUME NEW d, FlowOK(d), ColumnsOK(d), NEW o, Passes(d, o), NEW s \in {In, Lookup},
         NEW c \in Ports(d, o, s)
  PROVE  /\ <<SourceOf(d, o, s, c), c>> \in Arrivals(d, o, s)
         /\ SourceOf(d, o, s, c) \in AllColumns(d)
<1>1. PICK x \in Arrivals(d, o, s) : x[2] = c
  BY DEF Ports
<1>2. SourceOf(d, o, s, c) = x[1]
  BY <1>1, PassedColumns, SourceIs
<1>3. PICK e \in d.edges : /\ e.to = o /\ e.slot = s
                           /\ \E t \in Taken(d, e) : x = <<<<e.from, e.group, t[1]>>, t[2]>>
  BY EdgesAreOnce, ArrivalsAre
<1>4. PICK t \in Taken(d, e) : x = <<<<e.from, e.group, t[1]>>, t[2]>>
  BY <1>3
<1>5. x[1] = <<e.from, e.group, t[1]>> /\ c = t[2] /\ x = <<x[1], c>>
  BY <1>1, <1>4
<1>6. x[1] \in AllColumns(d)
  BY <1>5 DEF ColumnsOK
<1> QED
  BY <1>2, <1>3, <1>5, <1>6

-----------------------------------------------------------------------------
(* The values of a dataflow: the equations they satisfy, and that nothing else does. *)

\* Columns of an upstream operation of o.
Above(d, o) == {j \in AllColumns(d) : \E e \in d.edges : e.to = o /\ e.from = j[1]}

LEMMA ReadAbove ==
  ASSUME NEW d, FlowOK(d), ColumnsOK(d), NEW o, Passes(d, o),
         NEW s \in {In, Lookup}, NEW c \in Ports(d, o, s)
  PROVE  SourceOf(d, o, s, c) \in Above(d, o)
<1>1. <<SourceOf(d, o, s, c), c>> \in Arrivals(d, o, s) /\ SourceOf(d, o, s, c) \in AllColumns(d)
  BY SourceExists
<1>2. PICK e \in d.edges : /\ e.to = o /\ e.slot = s
                           /\ \E t \in Taken(d, e) :
                                <<SourceOf(d, o, s, c), c>> = <<<<e.from, e.group, t[1]>>, t[2]>>
  BY <1>1, EdgesAreOnce, ArrivalsAre
<1>3. SourceOf(d, o, s, c)[1] = e.from
  BY <1>2
<1> QED
  BY <1>1, <1>2, <1>3 DEF Above

LEMMA ValueDepends ==
  ASSUME NEW d, FlowOK(d), ColumnsOK(d), NEW k \in AllColumns(d), NEW V, NEW W,
         \A j \in Above(d, k[1]) : V[j] = W[j]
  PROVE  ValueIn(d, FALSE, V, k) = ValueIn(d, FALSE, W, k)
<1> DEFINE o == k[1]
           op == d.op[o]
           ports == Ports(d, o, In) \cup Ports(d, o, Lookup)
<1> SUFFICES ASSUME Passes(d, o)
             PROVE  ValueIn(d, FALSE, V, k) = ValueIn(d, FALSE, W, k)
  BY DEF ValueIn
<1>1. PassesColumns(d, o) /\ k[3] \in Declared(op)
  BY PassedColumns
<1>2. ASSUME NEW c \in ports PROVE ValueRead(d, V, o, c) = ValueRead(d, W, o, c)
  BY <1>2, ReadAbove DEF ValueRead
<1>3. ASSUME NEW refs \in Seq(ports) PROVE ValuesRead(d, V, o, refs) = ValuesRead(d, W, o, refs)
  <2>1. \A i \in 1 .. Len(refs) : refs[i] \in ports
    OBVIOUS
  <2> QED
    BY <1>2, <2>1 DEF ValuesRead
<1>4. CASE k[3] \in DOMAIN op.assigns
  <2>1. op.assigns[k[3]].refs \in Seq(ports)
    BY <1>1, <1>4 DEF PassesColumns
  <2>2. ValuesRead(d, V, o, op.assigns[k[3]].refs) = ValuesRead(d, W, o, op.assigns[k[3]].refs)
    BY <1>3, <2>1
  <2> QED
    BY <1>4, <2>2 DEF ValueIn
<1>5. CASE k[3] \notin DOMAIN op.assigns /\ k[3] \in DOMAIN op.returns
  <2>1. op.cond \in Seq(ports) /\ op.returns[k[3]] \in Ports(d, o, Lookup)
    BY <1>1, <1>5 DEF PassesColumns
  <2>2. ValuesRead(d, V, o, op.cond) = ValuesRead(d, W, o, op.cond)
    BY <1>3, <2>1
  <2>3. V[SourceOf(d, o, Lookup, op.returns[k[3]])] = W[SourceOf(d, o, Lookup, op.returns[k[3]])]
    BY <2>1, ReadAbove
  <2> QED
    BY <1>5, <2>2, <2>3 DEF ValueIn
<1>6. CASE k[3] \notin NewColumns(op)
  <2>1. k[3] \in ports
    BY <1>1, <1>6 DEF PassesColumns
  <2>2. ValueRead(d, V, o, k[3]) = ValueRead(d, W, o, k[3])
    BY <1>2, <2>1
  <2> QED
    BY <1>6, <2>2 DEF ValueIn, NewColumns
<1> QED
  BY <1>4, <1>5, <1>6 DEF NewColumns

\* What the definition of Values asks of a function.
Solves(d, V) == V = [k \in AllColumns(d) |-> ValueIn(d, FALSE, V, k)]

LEMMA ValuesSolveOnce ==
  ASSUME NEW d, FlowOK(d), ColumnsOK(d), Acyclic(d),
         NEW V, Solves(d, V), NEW W, Solves(d, W)
  PROVE  V = W
<1> DEFINE S == {o \in Ops(d) : \E k \in AllColumns(d) : k[1] = o /\ V[k] # W[k]}
<1>1. \A k \in AllColumns(d) : /\ V[k] = ValueIn(d, FALSE, V, k)
                               /\ W[k] = ValueIn(d, FALSE, W, k)
  BY DEF Solves
<1>2. S = {}
  <2> SUFFICES ASSUME S # {} PROVE FALSE
    OBVIOUS
  <2>1. PICK o \in S : \A e \in d.edges : e.to = o => e.from \notin S
    BY DEF Acyclic
  <2>2. PICK k \in AllColumns(d) : k[1] = o /\ V[k] # W[k]
    BY <2>1
  <2>3. \A j \in Above(d, k[1]) : V[j] = W[j]
    <3> SUFFICES ASSUME NEW j \in Above(d, k[1]) PROVE V[j] = W[j]
      OBVIOUS
    <3>1. j[1] \notin S /\ j \in AllColumns(d)
      BY <2>1, <2>2 DEF Above
    <3>2. j[1] \in Ops(d)
      BY <3>1, AllColumnsAre
    <3> QED
      BY <3>1, <3>2
  <2>4. ValueIn(d, FALSE, V, k) = ValueIn(d, FALSE, W, k)
    BY <2>3, ValueDepends
  <2> QED
    BY <1>1, <2>2, <2>4
<1>3. \A k \in AllColumns(d) : V[k] = W[k]
  <2> SUFFICES ASSUME NEW k \in AllColumns(d) PROVE V[k] = W[k]
    OBVIOUS
  <2>1. k[1] \in Ops(d)
    BY AllColumnsAre
  <2> QED
    BY <1>2, <2>1
<1>4. V = [k \in AllColumns(d) |-> V[k]] /\ W = [k \in AllColumns(d) |-> W[k]]
  BY <1>1 DEF Solves
<1> QED
  BY <1>3, <1>4

LEMMA ValuesIsSolution ==
  ASSUME NEW d, FlowOK(d), ColumnsOK(d), Acyclic(d), NEW V, Solves(d, V)
  PROVE  Values(d, FALSE) = V
<1>1. Values(d, FALSE) = CHOOSE W : W = [k \in AllColumns(d) |-> ValueIn(d, FALSE, W, k)]
  BY DEF Values
<1>2. Values(d, FALSE) = CHOOSE W : Solves(d, W)
  BY <1>1 DEF Solves
<1>3. Solves(d, Values(d, FALSE))
  BY <1>2
<1> QED
  BY <1>3, ValuesSolveOnce

\* A dataflow whose operations are numbered has values: those below n can be computed.
LEMMA ValuesExist ==
  ASSUME NEW d, FlowOK(d), ColumnsOK(d), NEW place, Numbered(d, place),
         NEW N \in Nat, \A o \in Ops(d) : place[o] <= N
  PROVE  \E V : Solves(d, V)
<1> DEFINE K == AllColumns(d)
           Holds(V, n) == \A k \in K : place[k[1]] < n => V[k] = ValueIn(d, FALSE, V, k)
           G == {n \in Nat : \E V : Holds(V, n)}
<1>1. \A k \in K : k[1] \in Ops(d) /\ place[k[1]] \in Nat
  BY AllColumnsAre DEF Numbered
<1>2. 0 \in G
  <2>1. Holds(<< >>, 0)
    BY <1>1
  <2> QED
    BY <2>1
<1>3. ASSUME NEW n \in 1 .. N + 1, n - 1 \in G PROVE n \in G
  <2>1. PICK V : Holds(V, n - 1)
    BY <1>3
  <2> DEFINE W == [k \in K |-> ValueIn(d, FALSE, V, k)]
  <2>2. ASSUME NEW k \in K, place[k[1]] < n PROVE W[k] = ValueIn(d, FALSE, W, k)
    <3>1. \A j \in Above(d, k[1]) : V[j] = W[j]
      <4> SUFFICES ASSUME NEW j \in Above(d, k[1]) PROVE V[j] = W[j]
        OBVIOUS
      <4>1. j \in K /\ place[j[1]] < place[k[1]]
        BY DEF Above, Numbered
      <4>2. place[j[1]] < n - 1
        BY <1>1, <2>2, <4>1
      <4> QED
        BY <2>1, <4>1, <4>2
    <3>2. ValueIn(d, FALSE, V, k) = ValueIn(d, FALSE, W, k)
      <4> HIDE DEF W
      <4> QED
        BY <3>1, ValueDepends
    <3> QED
      BY <3>2
  <2>3. Holds(W, n)
    <3> HIDE DEF W
    <3> QED
      BY <2>2
  <2> HIDE DEF W, Holds
  <2> QED
    BY <2>3
<1>4. N + 1 \in G
  <2> HIDE DEF G
  <2>1. N + 1 \in Nat /\ N + 1 \in 0 .. N + 1
    OBVIOUS
  <2>2. \A n \in 0 .. N + 1 : n \in G
    BY <1>2, <1>3, <2>1, UpTo
  <2> QED
    BY <2>1, <2>2
<1>5. PICK V : Holds(V, N + 1)
  BY <1>4
<1> DEFINE W == [k \in K |-> V[k]]
<1>6. ASSUME NEW k \in K PROVE W[k] = ValueIn(d, FALSE, W, k)
  <2>1. V[k] = ValueIn(d, FALSE, V, k)
    <3>1. place[k[1]] \in Nat /\ place[k[1]] <= N
      BY <1>1
    <3>2. place[k[1]] < N + 1
      BY <3>1
    <3> QED
      BY <1>5, <3>2
  <2>2. \A j \in Above(d, k[1]) : V[j] = W[j]
    BY DEF Above
  <2>3. ValueIn(d, FALSE, V, k) = ValueIn(d, FALSE, W, k)
    <3> HIDE DEF W
    <3> QED
      BY <2>2, ValueDepends
  <2> QED
    BY <2>1, <2>3
<1>7. Solves(d, W)
  <2>1. W = [k \in K |-> W[k]]
    OBVIOUS
  <2> HIDE DEF W
  <2> QED
    BY <1>6, <2>1 DEF Solves
<1> QED
  BY <1>7

-----------------------------------------------------------------------------
(* The columns of the widened row and their names. *)

\* A fusion of a dataflow with columns, along an order in which numbers grow.
Chained(d, m, s, a, R, order, place) ==
  /\ Fusion(d, m, s, a, R, order)
  /\ ColumnsOK(d)
  /\ Numbered(d, place)
  /\ \E N \in Nat : \A o \in Ops(d) : place[o] <= N
  /\ \A i, j \in 1 .. Len(order) : i < j => place[order[i]] < place[order[j]]

\* The columns of the anchor's output and of the operations of the region.
InWide(d, a, R) == {k \in AllColumns(d) : k[1] \in R \/ <<k[1], k[2]>> = a}

LEMMA ChainedSays ==
  ASSUME NEW d, NEW m, NEW s, NEW a, NEW R, NEW order, NEW place,
         Chained(d, m, s, a, R, order, place)
  PROVE  /\ FlowOK(d) /\ ColumnsOK(d) /\ Acyclic(d)
         /\ R # {} /\ R \subseteq Ops(d) /\ Len(order) \in Nat \ {0}
         /\ \A i \in 1 .. Len(order) : order[i] \in R
         /\ \A r \in R : \E i \in 1 .. Len(order) : order[i] = r
         /\ Last(order) = order[Len(order)]
         /\ \A i, j \in 1 .. Len(order) : place[order[i]] <= place[order[j]] => i <= j
         /\ \A i, j \in 1 .. Len(order) : order[i] = order[j] => i = j
         /\ a = <<a[1], a[2]>> /\ a[1] \in Ops(d) /\ a[1] \notin R /\ ~ Passes(d, a[1])
         /\ \A r \in R : Passes(d, r)
<1>1. Fusable(d, m, s, a, R) /\ Lists(order, R) /\ FlowOK(d) /\ ColumnsOK(d) /\ Numbered(d, place)
  BY DEF Chained, Fusion
<1>2. R # {} /\ R \subseteq Ops(d)
  BY <1>1 DEF Fusable
<1>3. /\ Len(order) \in Nat \ {0} /\ \A i \in 1 .. Len(order) : order[i] \in R
      /\ Last(order) = order[Len(order)]
  BY <1>1, <1>2, ListEnds
<1>4. ASSUME NEW i \in 1 .. Len(order), NEW j \in 1 .. Len(order),
             place[order[i]] <= place[order[j]]
      PROVE  i <= j
  <2>1. place[order[i]] \in Nat /\ place[order[j]] \in Nat
    BY <1>1, <1>2, <1>3 DEF Numbered
  <2>2. j < i => place[order[j]] < place[order[i]]
    BY DEF Chained
  <2>3. i \in Nat /\ j \in Nat
    BY <1>3
  <2> QED
    BY <1>4, <2>1, <2>2, <2>3
<1>5. Acyclic(d)
  BY <1>1, NumberedAcyclic
<1>6. a = <<a[1], a[2]>> /\ a[1] \in Ops(d) /\ a[1] \notin R /\ ~ Passes(d, a[1])
  BY <1>1 DEF Fusable
<1>7. \A r \in R : Passes(d, r)
  BY <1>1 DEF Fusable
<1> QED
  BY <1>1, <1>2, <1>3, <1>4, <1>5, <1>6, <1>7 DEF Lists

\* The first operation of the chain takes columns of the anchor.
LEMMA AnchorFeeds ==
  ASSUME NEW d, NEW m, NEW s, NEW a, NEW R, NEW order, NEW place,
         Chained(d, m, s, a, R, order, place)
  PROVE  \E k \in AllColumns(d) : <<k[1], k[2]>> = a
<1>1. order[1] \in R /\ Passes(d, order[1]) /\ 1 \in 1 .. Len(order)
  BY ChainedSays
<1>2. PICK e \in d.edges : e.to = order[1] /\ e.slot = In
  BY <1>1, UpstreamsAre DEF Passes
<1>3. <<e.from, e.group>> = a
  <2> SUFFICES ASSUME e.from \in R PROVE FALSE
    BY <1>1, <1>2 DEF Chained, Fusion, Fusable
  <2>1. PICK i \in 1 .. Len(order) : order[i] = e.from
    BY ChainedSays
  <2>2. place[order[i]] < place[order[1]]
    BY <1>2, <2>1 DEF Chained, Numbered
  <2>3. place[order[i]] \in Nat /\ place[order[1]] \in Nat
    BY <1>1, <2>1, ChainedSays DEF Chained, Numbered
  <2>4. i <= 1 /\ i = 1
    BY <1>1, <2>2, <2>3, ChainedSays
  <2> QED
    BY <2>2, <2>3, <2>4
<1>4. PICK t \in Taken(d, e) : TRUE
  BY <1>1, <1>2, ChainedSays DEF ColumnsOK
<1>5. <<e.from, e.group, t[1]>> \in AllColumns(d)
  BY ChainedSays DEF ColumnsOK
<1> QED
  BY <1>3, <1>5

\* The columns that have a place in the widened row after n operations.
LEMMA WideKeysAre ==
  ASSUME NEW d, NEW m, NEW s, NEW a, NEW R, NEW order, NEW place,
         Chained(d, m, s, a, R, order, place), NEW n \in 0 .. Len(order), NEW k
  PROVE  k \in WideKeys(d, a, order, n) <=>
           /\ k \in InWide(d, a, R)
           /\ \/ <<k[1], k[2]>> = a
              \/ \E i \in 1 .. n : k[1] = order[i] /\ k[3] \in NewColumns(d.op[order[i]])
<1>1. PICK b \in AllColumns(d) : <<b[1], b[2]>> = a
  BY AnchorFeeds
<1>2. a[1] \in Ops(d) /\ a[2] \in Groups(d, a[1]) \cup {"out"} /\ a = <<a[1], a[2]>>
  BY <1>1, AllColumnsAre, ChainedSays
<1>3. \A i \in 1 .. n : i \in 1 .. Len(order)
  BY ChainedSays
<1>4. ASSUME NEW i \in 1 .. n
      PROVE  /\ order[i] \in R /\ Passes(d, order[i])
             /\ PassesColumns(d, order[i])
             /\ NewColumns(d.op[order[i]]) \subseteq Declared(d.op[order[i]])
  <2>1. order[i] \in R /\ Passes(d, order[i])
    BY <1>3, ChainedSays
  <2>2. PassesColumns(d, order[i])
    BY <2>1, ChainedSays, PassedColumns
  <2> QED
    BY <2>1, <2>2 DEF PassesColumns
<1>5. k \in {<<a[1], a[2], c>> : c \in DOMAIN OutputColumns(d, a[1], a[2])} <=>
        k \in AllColumns(d) /\ <<k[1], k[2]>> = a
  <2>1. ASSUME NEW c \in DOMAIN OutputColumns(d, a[1], a[2]), k = <<a[1], a[2], c>>
        PROVE  k \in AllColumns(d) /\ <<k[1], k[2]>> = a
    <3>1. k[1] = a[1] /\ k[2] = a[2] /\ k[3] = c
      BY <2>1
    <3> QED
      BY <1>2, <2>1, <3>1, AllColumnsAre
  <2>2. ASSUME k \in AllColumns(d), <<k[1], k[2]>> = a
        PROVE  k = <<a[1], a[2], k[3]>> /\ k[3] \in DOMAIN OutputColumns(d, a[1], a[2])
    <3>1. k[1] = a[1] /\ k[2] = a[2]
      BY <1>2, <2>2
    <3> QED
      BY <2>2, <3>1, AllColumnsAre
  <2> QED
    BY <2>1, <2>2
<1>6. ASSUME NEW i \in 1 .. n
      PROVE  k \in {<<order[i], "out", c>> : c \in NewColumns(d.op[order[i]])} <=>
               k \in AllColumns(d) /\ k[1] = order[i] /\ k[3] \in NewColumns(d.op[order[i]])
  <2>1. \A j : j \in AllColumns(d) /\ j[1] = order[i] <=>
                 j = <<order[i], "out", j[3]>> /\ j[3] \in Declared(d.op[order[i]])
    BY <1>4, PassedColumns, ChainedSays
  <2>2. ASSUME NEW c \in NewColumns(d.op[order[i]]), k = <<order[i], "out", c>>
        PROVE  k \in AllColumns(d) /\ k[1] = order[i] /\ k[3] \in NewColumns(d.op[order[i]])
    <3>1. k[1] = order[i] /\ k[3] = c /\ c \in Declared(d.op[order[i]])
      BY <1>4, <2>2
    <3> QED
      BY <2>1, <2>2, <3>1
  <2> QED
    BY <2>1, <2>2
<1> QED
  BY <1>4, <1>5, <1>6 DEF WideKeys, InWide

\* What an operation of the region takes is a column of the anchor or of an earlier one.
LEMMA RegionSource ==
  ASSUME NEW d, NEW m, NEW s, NEW a, NEW R, NEW order, NEW place,
         Chained(d, m, s, a, R, order, place), NEW r \in R, NEW c \in Ports(d, r, In)
  PROVE  /\ SourceOf(d, r, In, c) \in InWide(d, a, R)
         /\ place[SourceOf(d, r, In, c)[1]] < place[r]
<1> DEFINE k == SourceOf(d, r, In, c)
<1>1. FlowOK(d) /\ ColumnsOK(d) /\ Passes(d, r)
  BY ChainedSays
<1>2. <<k, c>> \in Arrivals(d, r, In) /\ k \in AllColumns(d)
  BY <1>1, SourceExists
<1>3. PICK e \in d.edges : /\ e.to = r /\ e.slot = In
                           /\ \E t \in Taken(d, e) : <<k, c>> = <<<<e.from, e.group, t[1]>>, t[2]>>
  BY <1>1, <1>2, EdgesAreOnce, ArrivalsAre
<1>4. k[1] = e.from /\ k[2] = e.group
  BY <1>3
<1>5. <<e.from, e.group>> = a \/ e.from \in R
  BY <1>3 DEF Chained, Fusion, Fusable
<1>6. place[e.from] < place[r]
  BY <1>3 DEF Chained, Numbered
<1> HIDE DEF k
<1>7. k \in InWide(d, a, R) /\ place[k[1]] < place[r]
  BY <1>2, <1>4, <1>5, <1>6 DEF InWide
<1> QED
  BY <1>7 DEF k

LEMMA PassedInWide ==
  ASSUME NEW d, NEW m, NEW s, NEW a, NEW R, NEW order, NEW place,
         Chained(d, m, s, a, R, order, place),
         NEW k \in InWide(d, a, R), k \notin WideKeys(d, a, order, Len(order))
  PROVE  /\ k[1] \in R /\ k[3] \notin NewColumns(d.op[k[1]])
         /\ k[3] \in Ports(d, k[1], In)
<1>1. Len(order) \in 0 .. Len(order)
  BY ChainedSays
<1>2. <<k[1], k[2]>> # a
  BY <1>1, WideKeysAre
<1>3. k[1] \in R /\ k \in AllColumns(d)
  BY <1>2 DEF InWide
<1>4. PICK i \in 1 .. Len(order) : order[i] = k[1]
  BY <1>3, ChainedSays
<1>5. k[3] \notin NewColumns(d.op[k[1]])
  BY <1>1, <1>4, WideKeysAre
<1>6. Passes(d, k[1]) /\ FlowOK(d) /\ ColumnsOK(d)
  BY <1>3, ChainedSays
<1>7. PassesColumns(d, k[1]) /\ k[3] \in Declared(d.op[k[1]])
  BY <1>3, <1>6, PassedColumns
<1> QED
  BY <1>3, <1>5, <1>7 DEF PassesColumns

\* The equation by which WideName is defined has a solution, which it satisfies.
NameIn(d, order, made, name, k) ==
  IF k \in made THEN <<k[1]>> \o k[3] ELSE name[SourceOf(d, k[1], In, k[3])]

LEMMA WideNameSolves ==
  ASSUME NEW d, NEW m, NEW s, NEW a, NEW R, NEW order, NEW place,
         Chained(d, m, s, a, R, order, place)
  PROVE  LET name == WideName(d, a, order)
             made == WideKeys(d, a, order, Len(order))
         IN  /\ \A k \in made : name[k] = <<k[1]>> \o k[3]
             /\ \A k \in InWide(d, a, R) \ made : name[k] = name[SourceOf(d, k[1], In, k[3])]
<1> PICK N \in Nat : \A o \in Ops(d) : place[o] <= N
  BY DEF Chained
<1> DEFINE made == WideKeys(d, a, order, Len(order))
           K == InWide(d, a, R)
           Keys == made \cup UNION {ColumnsOf(d, o) : o \in ToSet(order)}
           Holds(f, n) == \A k \in K : place[k[1]] < n => f[k] = NameIn(d, order, made, f, k)
           G == {n \in Nat : \E f : Holds(f, n)}
<1>1. Len(order) \in 0 .. Len(order) /\ \A k \in made : k \in K
  BY ChainedSays, WideKeysAre
<1>2. Keys = K
  <2>1. ToSet(order) = R
    BY ChainedSays DEF ToSet, Chained, Fusion, Lists
  <2>2. ASSUME NEW o \in R, NEW k PROVE k \in ColumnsOf(d, o) <=> k \in AllColumns(d) /\ k[1] = o
    <3>1. o \in Ops(d)
      BY ChainedSays
    <3>2. k \in ColumnsOf(d, o) => k[1] = o
      BY DEF ColumnsOf
    <3> QED
      BY <3>1, <3>2 DEF AllColumns, ColumnsOf
  <2>3. ASSUME NEW k \in K, k \notin made PROVE k \in Keys
    <3>1. k[1] \in R /\ k \in AllColumns(d)
      BY <2>3, PassedInWide DEF InWide
    <3> QED
      BY <2>1, <2>2, <3>1
  <2> QED
    BY <1>1, <2>1, <2>2, <2>3 DEF InWide
<1>3. \A k \in K : k[1] \in Ops(d) /\ place[k[1]] \in Nat
  <2> SUFFICES ASSUME NEW k \in K PROVE k[1] \in Ops(d) /\ place[k[1]] \in Nat
    OBVIOUS
  <2>1. k \in AllColumns(d)
    BY DEF InWide
  <2> QED
    BY <2>1, AllColumnsAre DEF Chained, Numbered
<1>4. ASSUME NEW k \in K, k \notin made
      PROVE  /\ SourceOf(d, k[1], In, k[3]) \in K
             /\ place[SourceOf(d, k[1], In, k[3])[1]] < place[k[1]]
  BY <1>4, PassedInWide, RegionSource
<1> HIDE DEF made, K
<1>5. 0 \in G
  <2>1. Holds(<< >>, 0)
    BY <1>3
  <2> QED
    BY <2>1
<1>6. ASSUME NEW n \in 1 .. N + 1, n - 1 \in G PROVE n \in G
  <2>1. PICK f : Holds(f, n - 1)
    BY <1>6
  <2> DEFINE g == [k \in K |-> NameIn(d, order, made, f, k)]
  <2>2. ASSUME NEW k \in K, place[k[1]] < n PROVE g[k] = NameIn(d, order, made, g, k)
    <3>1. CASE k \in made
      BY <3>1 DEF NameIn
    <3>2. CASE k \notin made
      <4> DEFINE j == SourceOf(d, k[1], In, k[3])
      <4>1. j \in K /\ place[j[1]] < n - 1
        BY <1>3, <1>4, <2>2, <3>2
      <4>2. g[k] = f[j]
        BY <3>2 DEF NameIn
      <4>3. g[j] = f[j]
        <5> HIDE DEF j
        <5>1. f[j] = NameIn(d, order, made, f, j)
          BY <2>1, <4>1
        <5> QED
          BY <4>1, <5>1
      <4> HIDE DEF g
      <4> QED
        BY <3>2, <4>2, <4>3 DEF NameIn
    <3> QED
      BY <3>1, <3>2
  <2>3. Holds(g, n)
    <3> HIDE DEF g
    <3> QED
      BY <2>2
  <2> HIDE DEF g, Holds
  <2> QED
    BY <2>3
<1>7. N + 1 \in G
  <2> HIDE DEF G
  <2>1. N + 1 \in Nat /\ N + 1 \in 0 .. N + 1
    OBVIOUS
  <2>2. \A n \in 0 .. N + 1 : n \in G
    BY <1>5, <1>6, <2>1, UpTo
  <2> QED
    BY <2>1, <2>2
<1>8. PICK f : Holds(f, N + 1)
  BY <1>7
<1> DEFINE Rec(h) == h = [k \in K |-> NameIn(d, order, made, h, k)]
           g == [k \in K |-> f[k]]
<1>9. ASSUME NEW k \in K PROVE g[k] = NameIn(d, order, made, g, k)
  <2>1. place[k[1]] < N + 1
    BY <1>3
  <2>2. f[k] = NameIn(d, order, made, f, k)
    BY <1>8, <2>1
  <2>3. k \notin made => g[SourceOf(d, k[1], In, k[3])] = f[SourceOf(d, k[1], In, k[3])]
    BY <1>4
  <2>4. g[k] = f[k]
    OBVIOUS
  <2> HIDE DEF g
  <2> QED
    BY <2>2, <2>3, <2>4 DEF NameIn
<1>10. Rec(g)
  <2>1. g = [k \in K |-> g[k]]
    OBVIOUS
  <2> HIDE DEF g
  <2> QED
    BY <1>9, <2>1
<1>11. WideName(d, a, order) = CHOOSE h : Rec(h)
  BY <1>2 DEF WideName, NameIn, made
<1>12. Rec(WideName(d, a, order))
  <2> HIDE DEF Rec
  <2> QED
    BY <1>10, <1>11
<1> DEFINE name == WideName(d, a, order)
<1> HIDE DEF name
<1>13. \A k \in K : name[k] = NameIn(d, order, made, name, k)
  BY <1>12 DEF name
<1>14. \A k \in made : name[k] = <<k[1]>> \o k[3]
  BY <1>1, <1>13 DEF NameIn
<1>15. \A k \in K \ made : name[k] = name[SourceOf(d, k[1], In, k[3])]
  BY <1>13 DEF NameIn
<1> QED
  BY <1>14, <1>15 DEF name, made, K

\* A name with a part in front is a name, and gives back the part and the name.
LEMMA PrefixedName ==
  ASSUME NEW c, IsName(c), NEW o
  PROVE  /\ IsName(<<o>> \o c) /\ Len(<<o>> \o c) = Len(c) + 1
         /\ (<<o>> \o c)[1] = o
         /\ \A i \in 1 .. Len(c) : (<<o>> \o c)[i + 1] = c[i]
<1> DEFINE S == {o} \cup {c[i] : i \in 1 .. Len(c)}
           w == <<o>> \o c
<1>1. c = [i \in 1 .. Len(c) |-> c[i]] /\ Len(c) \in Nat \ {0}
  BY DEF IsName
<1>2. \A i \in 1 .. Len(c) : c[i] \in S
  OBVIOUS
<1>3. c \in [1 .. Len(c) -> S]
  <2> HIDE DEF S
  <2> QED
    BY <1>1, <1>2
<1>4. c \in Seq(S) /\ <<o>> \in Seq(S)
  BY <1>1, <1>3
<1>5. w \in Seq(S) /\ Len(w) = Len(c) + 1 /\ w[1] = o /\ \A i \in 1 .. Len(c) : w[i + 1] = c[i]
  <2> HIDE DEF S
  <2> QED
    BY <1>1, <1>4
<1>6. IsName(w)
  <2> HIDE DEF w, S
  <2>1. w = [i \in 1 .. Len(w) |-> w[i]] /\ Len(w) \in Nat \ {0}
    BY <1>1, <1>5
  <2> QED
    BY <2>1 DEF IsName
<1> QED
  BY <1>5, <1>6

LEMMA PrefixedOnce ==
  ASSUME NEW b, IsName(b), NEW c, IsName(c), NEW o, NEW p, <<o>> \o b = <<p>> \o c
  PROVE  o = p /\ b = c
<1> DEFINE w == <<o>> \o b
<1>1. /\ Len(w) = Len(b) + 1 /\ w[1] = o /\ \A i \in 1 .. Len(b) : w[i + 1] = b[i]
      /\ Len(w) = Len(c) + 1 /\ w[1] = p /\ \A i \in 1 .. Len(c) : w[i + 1] = c[i]
  BY PrefixedName
<1> HIDE DEF w
<1>2. Len(b) = Len(c) /\ b = [i \in 1 .. Len(b) |-> b[i]] /\ c = [i \in 1 .. Len(c) |-> c[i]]
  <2>1. Len(b) \in Nat /\ Len(c) \in Nat
    BY DEF IsName
  <2>2. Len(b) = Len(c)
    BY <1>1, <2>1
  <2> QED
    BY <2>2 DEF IsName
<1>3. \A i \in 1 .. Len(b) : b[i] = c[i]
  BY <1>1, <1>2
<1> QED
  BY <1>1, <1>2, <1>3

\* The names of the widened row: longer than any other, and each of one column.
LEMMA WideNames ==
  ASSUME NEW d, NEW m, NEW s, NEW a, NEW R, NEW order, NEW place,
         Chained(d, m, s, a, R, order, place)
  PROVE  LET name == WideName(d, a, order)
             made == WideKeys(d, a, order, Len(order))
         IN  /\ \A k \in made : IsName(name[k]) /\ Len(name[k]) > 1
             /\ \A j, k \in made : name[j] = name[k] => j = k
<1> DEFINE name == WideName(d, a, order)
           made == WideKeys(d, a, order, Len(order))
<1>1. ASSUME NEW k \in made
      PROVE  /\ name[k] = <<k[1]>> \o k[3] /\ IsName(k[3])
             /\ k = <<k[1], k[2], k[3]>> /\ (<<k[1], k[2]>> = a \/ (k[1] \in R /\ k[2] = "out"))
  <2>1. Len(order) \in 0 .. Len(order) /\ FlowOK(d) /\ ColumnsOK(d)
    BY ChainedSays
  <2>2. k \in InWide(d, a, R) /\ k \in AllColumns(d)
    BY <2>1, WideKeysAre DEF InWide
  <2>3. k[1] \in R => k[2] = "out"
    <3> SUFFICES ASSUME k[1] \in R PROVE k[2] = "out"
      OBVIOUS
    <3>1. k = <<k[1], "out", k[3]>>
      BY <2>1, <2>2, ChainedSays, PassedColumns
    <3> QED
      BY <3>1
  <2>4. name[k] = <<k[1]>> \o k[3]
    BY WideNameSolves
  <2>5. k = <<k[1], k[2], k[3]>> /\ IsName(k[3])
    BY <2>1, <2>2, AllColumnsAre DEF ColumnsOK
  <2>6. k[1] \in R \/ <<k[1], k[2]>> = a
    BY <2>2 DEF InWide
  <2> QED
    BY <2>3, <2>4, <2>5, <2>6
<1> HIDE DEF name, made
<1>2. \A k \in made : IsName(name[k]) /\ Len(name[k]) > 1
  <2> SUFFICES ASSUME NEW k \in made PROVE IsName(name[k]) /\ Len(name[k]) > 1
    OBVIOUS
  <2>1. IsName(<<k[1]>> \o k[3]) /\ Len(<<k[1]>> \o k[3]) = Len(k[3]) + 1 /\ Len(k[3]) \in Nat \ {0}
    BY <1>1, PrefixedName DEF IsName
  <2>2. Len(<<k[1]>> \o k[3]) > 1
    BY <2>1
  <2> QED
    BY <1>1, <2>1, <2>2
<1>3. ASSUME NEW j \in made, NEW k \in made, name[j] = name[k] PROVE j = k
  <2>1. <<j[1]>> \o j[3] = <<k[1]>> \o k[3] /\ IsName(j[3]) /\ IsName(k[3])
    BY <1>1, <1>3
  <2>2. j[1] = k[1] /\ j[3] = k[3]
    BY <2>1, PrefixedOnce
  <2>3. a = <<a[1], a[2]>> /\ a[1] \notin R
    BY ChainedSays
  <2>4. ASSUME NEW i \in made PROVE (i[1] = a[1] /\ i[2] = a[2]) \/ (i[1] \in R /\ i[2] = "out")
    <3>1. <<i[1], i[2]>> = a => i[1] = a[1] /\ i[2] = a[2]
      OBVIOUS
    <3> QED
      BY <1>1, <3>1
  <2>5. j[2] = k[2]
    BY <2>2, <2>3, <2>4
  <2>6. j = <<j[1], j[2], j[3]>> /\ k = <<k[1], k[2], k[3]>>
    BY <1>1
  <2> QED
    BY <2>2, <2>5, <2>6
<1> QED
  BY <1>2, <1>3 DEF name, made

\* Every column in the region is one of the widened row, of its name and of its value.
LEMMA WideRoots ==
  ASSUME NEW d, NEW m, NEW s, NEW a, NEW R, NEW order, NEW place,
         Chained(d, m, s, a, R, order, place), NEW V, Solves(d, V), NEW k \in InWide(d, a, R)
  PROVE  \E r \in WideKeys(d, a, order, Len(order)) :
           /\ WideName(d, a, order)[r] = WideName(d, a, order)[k]
           /\ V[r] = V[k] /\ place[r[1]] <= place[k[1]]
<1> DEFINE made == WideKeys(d, a, order, Len(order))
           name == WideName(d, a, order)
           Root(j) == \E r \in made : name[r] = name[j] /\ V[r] = V[j] /\ place[r[1]] <= place[j[1]]
           S == {j \in InWide(d, a, R) : ~ Root(j)}
<1>1. \A j \in InWide(d, a, R) : place[j[1]] \in Nat /\ j \in AllColumns(d)
  <2> SUFFICES ASSUME NEW j \in InWide(d, a, R) PROVE place[j[1]] \in Nat /\ j \in AllColumns(d)
    OBVIOUS
  <2>1. j \in AllColumns(d)
    BY DEF InWide
  <2> QED
    BY <2>1, AllColumnsAre DEF Chained, Numbered
<1>2. \A j \in made : j \in InWide(d, a, R)
  BY ChainedSays, WideKeysAre
<1>3. \A j \in made : Root(j)
  BY <1>1, <1>2
<1>4. ASSUME S # {} PROVE FALSE
  <2>1. PICK j \in S : \A i \in S : place[j[1]] <= place[i[1]]
    <3> DEFINE f == [i \in S |-> place[i[1]]]
    <3>1. \A i \in S : f[i] = place[i[1]] /\ f[i] \in Nat
      BY <1>1
    <3> HIDE DEF S, f
    <3>2. \E i \in S : \A p \in S : f[i] <= f[p]
      BY <1>4, <3>1, FirstNumbered
    <3> QED
      BY <3>1, <3>2
  <2> DEFINE i == SourceOf(d, j[1], In, j[3])
  <2>2. j \in InWide(d, a, R) /\ j \notin made /\ ~ Root(j)
    BY <1>3
  <2>3. /\ j[1] \in R /\ j[3] \notin NewColumns(d.op[j[1]]) /\ j[3] \in Ports(d, j[1], In)
    BY <2>2, PassedInWide
  <2>4. i \in InWide(d, a, R) /\ place[i[1]] < place[j[1]]
    BY <2>3, RegionSource
  <2>5. name[j] = name[i]
    BY <2>2, WideNameSolves
  <2>6. V[j] = V[i]
    <3>1. Passes(d, j[1])
      BY <2>3, ChainedSays
    <3>2. V[j] = ValueIn(d, FALSE, V, j)
      BY <1>1, <2>2 DEF Solves
    <3>3. j[3] \notin DOMAIN d.op[j[1]].assigns /\ j[3] \notin DOMAIN d.op[j[1]].returns
      BY <2>3 DEF NewColumns
    <3> QED
      BY <2>3, <3>1, <3>2, <3>3 DEF ValueIn, ValueRead
  <2>7. i \notin S
    BY <1>1, <2>1, <2>2, <2>4
  <2> HIDE DEF i, made, name
  <2>8. PICK r \in made : name[r] = name[i] /\ V[r] = V[i] /\ place[r[1]] <= place[i[1]]
    BY <2>4, <2>7
  <2>9. place[r[1]] <= place[j[1]]
    BY <1>1, <1>2, <2>2, <2>4, <2>8
  <2>10. Root(j)
    BY <2>5, <2>6, <2>8, <2>9
  <2> QED
    BY <2>2, <2>10
<1> QED
  BY <1>4

-----------------------------------------------------------------------------
(* The columns of the fused dataflow. *)

LEMMA WideKeysWithin ==
  ASSUME NEW d, NEW m, NEW s, NEW a, NEW R, NEW order, NEW place,
         Chained(d, m, s, a, R, order, place), NEW n \in 0 .. Len(order)
  PROVE  WideKeys(d, a, order, n) \subseteq WideKeys(d, a, order, Len(order))
<1>1. Len(order) \in 0 .. Len(order) /\ \A i \in 1 .. n : i \in 1 .. Len(order)
  BY ChainedSays
<1> QED
  BY <1>1, WideKeysAre

\* Each column of the widened row has the type it is made with.
LEMMA WideTypes ==
  ASSUME NEW d, NEW m, NEW s, NEW a, NEW R, NEW order, NEW place,
         Chained(d, m, s, a, R, order, place), NEW n \in 0 .. Len(order),
         NEW k \in WideKeys(d, a, order, n)
  PROVE  WideRow(d, a, order, WideName(d, a, order), n)[WideName(d, a, order)[k]]
           = OutputColumns(d, k[1], k[2])[k[3]]
<1> DEFINE name == WideName(d, a, order)
           row  == WideRow(d, a, order, name, n)
           keys == WideKeys(d, a, order, n)
<1>1. \A j \in keys : name[j] = name[k] => j = k
  <2>1. keys \subseteq WideKeys(d, a, order, Len(order))
    BY WideKeysWithin
  <2>2. \A i, j \in WideKeys(d, a, order, Len(order)) : name[i] = name[j] => i = j
    BY WideNames
  <2> HIDE DEF keys, name
  <2> QED
    BY <2>1, <2>2 DEF keys
<1>2. row = [c \in {name[j] : j \in keys} |->
               LET i == CHOOSE j \in keys : name[j] = c IN OutputColumns(d, i[1], i[2])[i[3]]]
  BY DEF WideRow
<1> HIDE DEF name, row
<1>3. (CHOOSE j \in keys : name[j] = name[k]) = k
  BY <1>1
<1> HIDE DEF keys
<1>4. row[name[k]] = OutputColumns(d, k[1], k[2])[k[3]]
  BY <1>2, <1>3 DEF keys
<1> QED
  BY <1>4 DEF row, name

\* What w keeps and renames of the operation at the n-th place of the chain.
RewrittenAs(d, a, order, name, n, w) ==
  LET o  == order[n]
      op == d.op[o]
      wide(b) == name[<<o, "out", b>>]
  IN  /\ DOMAIN w = DOMAIN op
      /\ DOMAIN w.out = {"out"}
      /\ w.out["out"] = WideRow(d, a, order, name, n)
      /\ DOMAIN w.assigns = {wide(b) : b \in DOMAIN op.assigns}
      /\ \A b \in DOMAIN op.assigns :
           /\ DOMAIN w.assigns[wide(b)] = DOMAIN op.assigns[b]
           /\ w.assigns[wide(b)].id = op.assigns[b].id
           /\ w.assigns[wide(b)].refs = Renamed(d, name, o, op.assigns[b].refs)
      /\ DOMAIN w.returns = {wide(b) : b \in DOMAIN op.returns}
      /\ \A b \in DOMAIN op.returns : w.returns[wide(b)] = op.returns[b]
      /\ w.cond = Renamed(d, name, o, op.cond)

LEMMA FusedOp ==
  ASSUME NEW d, NEW m, NEW s, NEW a, NEW R, NEW order, NEW place,
         Chained(d, m, s, a, R, order, place), NEW n \in 1 .. Len(order)
  PROVE  RewrittenAs(d, a, order, WideName(d, a, order), n, Fused(d, a, R, order).op[order[n]])
<1> DEFINE name == WideName(d, a, order)
           o    == order[n]
           op   == d.op[o]
           w    == Fused(d, a, R, order).op[o]
           keys == WideKeys(d, a, order, n)
           wide(c) == name[<<o, "out", c>>]
           former(cs, c) == CHOOSE b \in cs : wide(b) = c
<1>1. /\ o \in R /\ o \in Ops(d) /\ n \in 0 .. Len(order)
      /\ \A i \in 1 .. Len(order) : order[i] = o => i = n
      /\ Passes(d, o) /\ FlowOK(d) /\ ColumnsOK(d)
  BY ChainedSays
<1>2. PassesColumns(d, o)
  BY <1>1, PassedColumns
<1>3. w = Rewritten(d, a, order, name, n)
  <2>1. w = Rewritten(d, a, order, name, CHOOSE i \in 1 .. Len(order) : order[i] = o)
    BY <1>1 DEF Fused
  <2>2. (CHOOSE i \in 1 .. Len(order) : order[i] = o) = n
    BY <1>1
  <2> QED
    BY <2>1, <2>2
<1>4. \A b \in NewColumns(op) : <<o, "out", b>> \in keys
  <2> SUFFICES ASSUME NEW b \in NewColumns(op) PROVE <<o, "out", b>> \in keys
    OBVIOUS
  <2>1. n \in 1 .. n
    BY <1>1, ChainedSays
  <2> QED
    BY <2>1 DEF WideKeys
<1>5. \A b, c \in NewColumns(op) : wide(b) = wide(c) => b = c
  <2> SUFFICES ASSUME NEW b \in NewColumns(op), NEW c \in NewColumns(op), wide(b) = wide(c)
               PROVE  b = c
    OBVIOUS
  <2>1. /\ <<o, "out", b>> \in WideKeys(d, a, order, Len(order))
        /\ <<o, "out", c>> \in WideKeys(d, a, order, Len(order))
    BY <1>1, <1>4, WideKeysWithin
  <2>2. <<o, "out", b>> = <<o, "out", c>>
    BY <2>1, WideNames
  <2> QED
    BY <2>2
<1> DEFINE assigns == [c \in {wide(b) : b \in DOMAIN op.assigns} |->
                         LET x == op.assigns[former(DOMAIN op.assigns, c)]
                         IN  [x EXCEPT !.refs = Renamed(d, name, o, x.refs)]]
           returns == [c \in {wide(b) : b \in DOMAIN op.returns} |->
                         op.returns[former(DOMAIN op.returns, c)]]
<1>6. \A cs \in SUBSET NewColumns(op) : \A b \in cs : former(cs, wide(b)) = b
  BY <1>5
<1>7. /\ DOMAIN op.assigns \in SUBSET NewColumns(op) /\ DOMAIN op.returns \in SUBSET NewColumns(op)
      /\ {"out", "assigns", "returns", "cond"} \subseteq DOMAIN op
      /\ \A b \in DOMAIN op.assigns : {"id", "refs"} \subseteq DOMAIN op.assigns[b]
  BY <1>2 DEF NewColumns, PassesColumns
<1>8. /\ DOMAIN w = DOMAIN op
      /\ w.out = [g \in {"out"} |-> WideRow(d, a, order, name, n)]
      /\ w.assigns = assigns /\ w.returns = returns /\ w.cond = Renamed(d, name, o, op.cond)
  <2>1. ASSUME NEW kind, NEW out0, NEW assigns0, NEW returns0, NEW cond
        PROVE  LET q == [op EXCEPT !.kind = kind, !.out = out0, !.assigns = assigns0,
                                   !.returns = returns0, !.cond = cond]
               IN  /\ DOMAIN q = DOMAIN op /\ q.out = out0 /\ q.assigns = assigns0
                   /\ q.returns = returns0 /\ q.cond = cond
    <3> HIDE DEF op
    <3> QED
      BY <1>7
  <2>2. w = [op EXCEPT !.kind    = IF op.kind = "project" THEN "derive" ELSE op.kind,
                       !.out     = [g \in {"out"} |-> WideRow(d, a, order, name, n)],
                       !.assigns = assigns, !.returns = returns,
                       !.cond    = Renamed(d, name, o, op.cond)]
    <3> HIDE DEF name, w
    <3> QED
      BY <1>3 DEF Rewritten
  <2> HIDE DEF name, assigns, returns, w, op, o
  <2> QED
    BY <2>1, <2>2
<1> HIDE DEF w, keys, name, op, o
<1>9. ASSUME NEW b \in DOMAIN op.assigns
      PROVE  LET x == assigns[wide(b)]
             IN  /\ DOMAIN x = DOMAIN op.assigns[b] /\ x.id = op.assigns[b].id
                 /\ x.refs = Renamed(d, name, o, op.assigns[b].refs)
  <2>1. former(DOMAIN op.assigns, wide(b)) = b
    BY <1>6, <1>7
  <2> HIDE DEF wide, former
  <2>2. assigns[wide(b)] = [op.assigns[b] EXCEPT !.refs = Renamed(d, name, o, op.assigns[b].refs)]
    BY <2>1
  <2> QED
    BY <1>7, <2>2
<1>10. ASSUME NEW b \in DOMAIN op.returns PROVE returns[wide(b)] = op.returns[b]
  <2>1. former(DOMAIN op.returns, wide(b)) = b
    BY <1>6, <1>7
  <2> HIDE DEF wide, former
  <2> QED
    BY <2>1
<1>11. /\ DOMAIN assigns = {wide(b) : b \in DOMAIN op.assigns}
       /\ DOMAIN returns = {wide(b) : b \in DOMAIN op.returns}
  OBVIOUS
<1>12. DOMAIN w.out = {"out"} /\ w.out["out"] = WideRow(d, a, order, name, n)
  BY <1>8
<1> HIDE DEF assigns, returns
<1>13. RewrittenAs(d, a, order, name, n, w)
  BY <1>8, <1>9, <1>10, <1>11, <1>12 DEF RewrittenAs, op, o
<1> QED
  BY <1>13 DEF w, name, o

\* The edge from the anchor, along the chain, and from its end in place of an edge f.
AnchorEdge(d, a, order) ==
  Edge(a[1], a[2], order[1], In,
       {<<c, WideName(d, a, order)[<<a[1], a[2], c>>]>> : c \in DOMAIN OutputColumns(d, a[1], a[2])})
ChainEdge(order, n) == Edge(order[n - 1], "out", order[n], In, {})
Beside(d, a, R, f)  == {g \in Leaving(d, a, R) : g.to = f.to /\ g.slot = f.slot}
EndEdge(d, a, R, order, f) ==
  Edge(Last(order), "out", f.to, f.slot, WideColumns(d, Beside(d, a, R, f), WideName(d, a, order)))

\* What an edge of the fused dataflow is, with its columns.
LEMMA FusedEdgesAre ==
  ASSUME NEW d, NEW a, NEW R, NEW order, Len(order) \in Nat, NEW e
  PROVE  e \in Fused(d, a, R, order).edges <=>
           \/ e = AnchorEdge(d, a, order)
           \/ \E n \in 2 .. Len(order) : e = ChainEdge(order, n)
           \/ e \in Kept(d, a, R)
           \/ \E f \in Leaving(d, a, R) : e = EndEdge(d, a, R, order, f)
<1> DEFINE name == WideName(d, a, order)
<1>1. Fused(d, a, R, order).edges
        = Chain(d, a, order, name) \cup Kept(d, a, R) \cup Rerouted(d, a, R, name, Last(order))
  BY DEF Fused
<1>2. e \in Chain(d, a, order, name) <=>
        e = AnchorEdge(d, a, order) \/ \E n \in 2 .. Len(order) : e = ChainEdge(order, n)
  <2>1. e \in Chain(d, a, order, name) <=>
          e = AnchorEdge(d, a, order)
            \/ \E i \in 1 .. Len(order) - 1 : e = Edge(order[i], "out", order[i + 1], In, {})
    BY DEF Chain, AnchorEdge
  <2>2. ASSUME NEW i \in 1 .. Len(order) - 1
        PROVE  /\ i + 1 \in 2 .. Len(order)
               /\ ChainEdge(order, i + 1) = Edge(order[i], "out", order[i + 1], In, {})
    <3>1. (i + 1) - 1 = i
      OBVIOUS
    <3> QED
      BY <3>1 DEF ChainEdge
  <2>3. ASSUME NEW n \in 2 .. Len(order)
        PROVE  /\ n - 1 \in 1 .. Len(order) - 1
               /\ ChainEdge(order, n) = Edge(order[n - 1], "out", order[(n - 1) + 1], In, {})
    <3>1. (n - 1) + 1 = n
      OBVIOUS
    <3> QED
      BY <3>1 DEF ChainEdge
  <2> QED
    BY <2>1, <2>2, <2>3
<1>3. e \in Rerouted(d, a, R, name, Last(order)) <=>
        \E f \in Leaving(d, a, R) : e = EndEdge(d, a, R, order, f)
  BY DEF Rerouted, EndEdge, Beside
<1> QED
  BY <1>1, <1>2, <1>3

\* Where an edge of the fused dataflow goes tells of which kind it is.
LEMMA FusedEdgeInto ==
  ASSUME NEW d, NEW m, NEW s, NEW a, NEW R, NEW order, NEW place,
         Chained(d, m, s, a, R, order, place), NEW e
  PROVE  LET E == Fused(d, a, R, order).edges
         IN  /\ \A n \in 1 .. Len(order) :
                  e \in E /\ e.to = order[n] /\ e.slot = In <=>
                    e = IF n = 1 THEN AnchorEdge(d, a, order) ELSE ChainEdge(order, n)
             /\ e.to \in R /\ e.slot # In => (e \in E <=> e \in d.edges)
             /\ e.to \notin R =>
                  (e \in E <=> \/ e \in d.edges /\ e \notin Leaving(d, a, R)
                               \/ \E f \in Leaving(d, a, R) : e = EndEdge(d, a, R, order, f))
<1> DEFINE E       == Fused(d, a, R, order).edges
           first   == AnchorEdge(d, a, order)
           next(n) == ChainEdge(order, n)
           last(f) == EndEdge(d, a, R, order, f)
<1>1. e \in E <=> \/ e = first
                  \/ \E n \in 2 .. Len(order) : e = next(n)
                  \/ e \in Kept(d, a, R)
                  \/ \E f \in Leaving(d, a, R) : e = last(f)
  BY ChainedSays, FusedEdgesAre
<1>2. /\ Len(order) \in Nat \ {0} /\ \A i \in 1 .. Len(order) : order[i] \in R
      /\ \A i, j \in 1 .. Len(order) : order[i] = order[j] => i = j
  BY ChainedSays
<1>3. first.to = order[1] /\ first.slot = In
  BY DEF Edge, AnchorEdge
<1>4. ASSUME NEW n \in 2 .. Len(order)
      PROVE  next(n).to = order[n] /\ next(n).slot = In /\ n \in 1 .. Len(order) /\ n # 1
  BY <1>2 DEF Edge, ChainEdge
<1>5. ASSUME NEW f \in Leaving(d, a, R)
      PROVE  last(f).to = f.to /\ last(f).slot = f.slot /\ f.to \notin R
  BY LeavingAre DEF Edge, EndEdge
<1>6. e \in Kept(d, a, R) <=> /\ e \in d.edges
                              /\ \/ e.to \in R /\ e.slot # In
                                 \/ e.to \notin R /\ e \notin Leaving(d, a, R)
  BY KeptAre DEF Chained
<1> HIDE DEF first, next, last, E
<1>7. ASSUME NEW n \in 1 .. Len(order)
      PROVE  e \in E /\ e.to = order[n] /\ e.slot = In <=> e = IF n = 1 THEN first ELSE next(n)
  <2>1. 1 \in 1 .. Len(order) /\ (n # 1 => n \in 2 .. Len(order))
    BY <1>2
  <2>2. e.to = order[n] /\ e = first => n = 1
    BY <1>2, <1>3, <2>1
  <2>3. ASSUME NEW i \in 2 .. Len(order), e.to = order[n], e = next(i) PROVE n = i
    BY <1>2, <1>4, <2>3
  <2> QED
    BY <1>1, <1>2, <1>3, <1>4, <1>5, <1>6, <2>1, <2>2, <2>3
<1>8. e.to \in R /\ e.slot # In => (e \in E <=> e \in d.edges)
  BY <1>1, <1>3, <1>4, <1>5, <1>6
<1>9. e.to \notin R => (e \in E <=> \/ e \in d.edges /\ e \notin Leaving(d, a, R)
                                    \/ \E f \in Leaving(d, a, R) : e = last(f))
  <2>1. 1 \in 1 .. Len(order)
    BY <1>2
  <2> QED
    BY <1>1, <1>2, <1>3, <1>4, <1>6, <2>1
<1> QED
  BY <1>7, <1>8, <1>9 DEF first, next, last, E

LEMMA FusedOnce ==
  ASSUME NEW d, NEW m, NEW s, NEW a, NEW R, NEW order, NEW place,
         Chained(d, m, s, a, R, order, place)
  PROVE  EdgesOnce(Fused(d, a, R, order))
<1> DEFINE E == Fused(d, a, R, order).edges
<1> SUFFICES ASSUME NEW e \in E, NEW f \in E,
                    e.from = f.from, e.group = f.group, e.to = f.to, e.slot = f.slot
             PROVE  e = f
  BY DEF EdgesOnce
<1>1. EdgesOnce(d)
  BY ChainedSays, EdgesAreOnce
<1>2. CASE e.to \in R /\ e.slot = In
  <2>1. PICK n \in 1 .. Len(order) : order[n] = e.to
    BY <1>2, ChainedSays
  <2>2. \A x : x \in E /\ x.to = order[n] /\ x.slot = In =>
               x = IF n = 1 THEN AnchorEdge(d, a, order) ELSE ChainEdge(order, n)
    BY FusedEdgeInto
  <2> DEFINE into == IF n = 1 THEN AnchorEdge(d, a, order) ELSE ChainEdge(order, n)
  <2>3. \A x \in E : x.to = order[n] /\ x.slot = In => x = into
    BY <2>2
  <2> HIDE DEF E, into
  <2>4. e = into /\ f = into
    BY <1>2, <2>1, <2>3
  <2> QED
    BY <2>4
<1>3. CASE e.to \in R /\ e.slot # In
  BY <1>1, <1>3, FusedEdgeInto DEF EdgesOnce
<1>4. CASE e.to \notin R
  <2>1. ASSUME NEW x \in d.edges, x \notin Leaving(d, a, R), x.to \notin R PROVE x.from \notin R
    BY <2>1, LeavingAre
  <2>2. ASSUME NEW g \in Leaving(d, a, R)
        PROVE  LET x == EndEdge(d, a, R, order, g)
               IN  x.from \in R /\ x.to = g.to /\ x.slot = g.slot
    <3>1. Last(order) \in R
      BY ChainedSays
    <3> QED
      BY <3>1 DEF EndEdge, Edge
  <2>3. ASSUME NEW g \in Leaving(d, a, R), NEW h \in Leaving(d, a, R), g.to = h.to, g.slot = h.slot
        PROVE  EndEdge(d, a, R, order, g) = EndEdge(d, a, R, order, h)
    BY <2>3 DEF EndEdge, Beside
  <2>4. /\ (e \in d.edges /\ e \notin Leaving(d, a, R))
           \/ \E g \in Leaving(d, a, R) : e = EndEdge(d, a, R, order, g)
        /\ (f \in d.edges /\ f \notin Leaving(d, a, R))
           \/ \E g \in Leaving(d, a, R) : f = EndEdge(d, a, R, order, g)
    BY <1>4, FusedEdgeInto
  <2>5. CASE e.from \in R
    <3>1. PICK g \in Leaving(d, a, R) : e = EndEdge(d, a, R, order, g)
      BY <1>4, <2>1, <2>4, <2>5
    <3>2. PICK h \in Leaving(d, a, R) : f = EndEdge(d, a, R, order, h)
      BY <1>4, <2>1, <2>4, <2>5
    <3> QED
      BY <2>2, <2>3, <3>1, <3>2
  <2>6. CASE e.from \notin R
    BY <1>1, <2>2, <2>4, <2>6 DEF EdgesOnce
  <2> QED
    BY <2>5, <2>6
<1> QED
  BY <1>2, <1>3, <1>4

\* Outside of the region nothing about an operation changes, and so nothing about its output.
LEMMA FusedOutside ==
  ASSUME NEW d, NEW a, NEW R, NEW order, NEW o, o \in Ops(d), o \notin R
  PROVE  Fused(d, a, R, order).op[o] = d.op[o]
  BY DEF Fused

LEMMA FusedOutput ==
  ASSUME NEW d, NEW a, NEW R, NEW order, NEW o, o \in Ops(d), o \notin R, NEW g
  PROVE  OutputColumns(Fused(d, a, R, order), o, g) = OutputColumns(d, o, g)
  BY FusedOutside DEF Groups, OutputColumns

\* The slots of the region other than the input receive what they did.
LEMMA SideArrivals ==
  ASSUME NEW d, NEW m, NEW s, NEW a, NEW R, NEW order, NEW place,
         Chained(d, m, s, a, R, order, place), NEW r \in R, NEW t, t # In
  PROVE  Arrivals(Fused(d, a, R, order), r, t) = Arrivals(d, r, t)
<1> DEFINE F == Fused(d, a, R, order)
<1>1. ASSUME NEW e, e.to = r, e.slot = t PROVE e \in F.edges <=> e \in d.edges
  BY <1>1, FusedEdgeInto
<1>2. ASSUME NEW e \in d.edges, e.to = r, e.slot = t PROVE Taken(F, e) = Taken(d, e)
  <2>1. RowPreserving(d.op[e.to])
    BY <1>2, ChainedSays DEF Passes
  <2>2. e.from \notin R
    BY <1>2, <2>1 DEF Chained, Fusion, Fusable
  <2>3. e.from \in Ops(d)
    BY ChainedSays DEF FlowOK
  <2>4. OutputColumns(F, e.from, e.group) = OutputColumns(d, e.from, e.group)
    BY <2>2, <2>3, FusedOutput
  <2> HIDE DEF F
  <2> QED
    BY <2>4 DEF Taken
<1>3. EdgesOnce(d) /\ EdgesOnce(F)
  BY ChainedSays, EdgesAreOnce, FusedOnce
<1> HIDE DEF F
<1>4. ASSUME NEW x PROVE x \in Arrivals(F, r, t) <=> x \in Arrivals(d, r, t)
  <2>1. x \in Arrivals(d, r, t) <=>
          \E e \in d.edges : /\ e.to = r /\ e.slot = t
                             /\ \E p \in Taken(d, e) : x = <<<<e.from, e.group, p[1]>>, p[2]>>
    BY <1>3, ArrivalsAre
  <2>2. x \in Arrivals(F, r, t) <=>
          \E e \in F.edges : /\ e.to = r /\ e.slot = t
                             /\ \E p \in Taken(F, e) : x = <<<<e.from, e.group, p[1]>>, p[2]>>
    BY <1>3, ArrivalsAre
  <2> QED
    BY <1>1, <1>2, <2>1, <2>2
<1>5. /\ Arrivals(F, r, t) = {x \in Arrivals(F, r, t) \cup Arrivals(d, r, t) : x \in Arrivals(F, r, t)}
      /\ Arrivals(d, r, t) = {x \in Arrivals(F, r, t) \cup Arrivals(d, r, t) : x \in Arrivals(d, r, t)}
  OBVIOUS
<1> QED
  BY <1>4, <1>5 DEF F

\* Along the chain each operation receives the row as wide as it was before it.
LEMMA ChainArrivals ==
  ASSUME NEW d, NEW m, NEW s, NEW a, NEW R, NEW order, NEW place,
         Chained(d, m, s, a, R, order, place), NEW n \in 1 .. Len(order), NEW x
  PROVE  LET name == WideName(d, a, order)
         IN  x \in Arrivals(Fused(d, a, R, order), order[n], In) <=>
               \E k \in WideKeys(d, a, order, n - 1) :
                 x = <<IF n = 1 THEN k ELSE <<order[n - 1], "out", name[k]>>, name[k]>>
<1> DEFINE F    == Fused(d, a, R, order)
           name == WideName(d, a, order)
           keys == WideKeys(d, a, order, n - 1)
<1>1. /\ Len(order) \in Nat /\ order[n] \in R /\ a = <<a[1], a[2]>> /\ a[1] \in Ops(d) /\ a[1] \notin R
      /\ n \in Nat /\ (n # 1 => n - 1 \in 1 .. Len(order) /\ n - 1 \in 0 .. Len(order))
  BY ChainedSays
<1> DEFINE into == IF n = 1 THEN AnchorEdge(d, a, order) ELSE ChainEdge(order, n)
<1>2. \A e : e \in F.edges /\ e.to = order[n] /\ e.slot = In <=> e = into
  BY FusedEdgeInto
<1>3. EdgesOnce(F)
  BY FusedOnce
<1> HIDE DEF F, into
<1>4. x \in Arrivals(F, order[n], In) <=>
        \E p \in Taken(F, into) : x = <<<<into.from, into.group, p[1]>>, p[2]>>
  <2>1. x \in Arrivals(F, order[n], In) <=>
          \E e \in F.edges : /\ e.to = order[n] /\ e.slot = In
                             /\ \E p \in Taken(F, e) : x = <<<<e.from, e.group, p[1]>>, p[2]>>
    BY <1>3, ArrivalsAre
  <2> QED
    BY <1>2, <2>1
<1>5. CASE n = 1
  <2>1. keys = {<<a[1], a[2], c>> : c \in DOMAIN OutputColumns(d, a[1], a[2])}
    BY <1>5 DEF WideKeys
  <2>2. /\ into.from = a[1] /\ into.group = a[2]
        /\ into.columns = {<<c, name[<<a[1], a[2], c>>]>> : c \in DOMAIN OutputColumns(d, a[1], a[2])}
    BY <1>5 DEF into, AnchorEdge, Edge
  <2>3. OutputColumns(F, a[1], a[2]) = OutputColumns(d, a[1], a[2])
    BY <1>1, FusedOutput DEF F
  <2>4. Taken(F, into) = {<<c, name[<<a[1], a[2], c>>]>> : c \in DOMAIN OutputColumns(d, a[1], a[2])}
    BY <2>2, <2>3 DEF Taken
  <2> HIDE DEF name, keys
  <2>5. x \in Arrivals(F, order[n], In) <=>
          \E c \in DOMAIN OutputColumns(d, a[1], a[2]) : x = <<<<a[1], a[2], c>>, name[<<a[1], a[2], c>>]>>
    <3> DEFINE C    == DOMAIN OutputColumns(d, a[1], a[2])
               w(c) == name[<<a[1], a[2], c>>]
    <3>1. \A p \in Taken(F, into) : \E c \in C : p = <<c, w(c)>>
      BY <2>4
    <3>2. \A c \in C : <<c, w(c)>> \in Taken(F, into)
      BY <2>4
    <3> HIDE DEF C, w
    <3>3. ASSUME NEW p \in Taken(F, into), x = <<<<a[1], a[2], p[1]>>, p[2]>>
          PROVE  \E c \in C : x = <<<<a[1], a[2], c>>, w(c)>>
      <4>1. PICK c \in C : p = <<c, w(c)>>
        BY <3>1
      <4>2. p[1] = c /\ p[2] = w(c)
        BY <4>1
      <4> QED
        BY <3>3, <4>2
    <3>4. ASSUME NEW c \in C, x = <<<<a[1], a[2], c>>, w(c)>>
          PROVE  \E p \in Taken(F, into) : x = <<<<a[1], a[2], p[1]>>, p[2]>>
      <4> DEFINE p == <<c, w(c)>>
      <4>1. p \in Taken(F, into) /\ p[1] = c /\ p[2] = w(c)
        BY <3>2
      <4> HIDE DEF p
      <4> QED
        BY <3>4, <4>1
    <3>5. x \in Arrivals(F, order[n], In) <=>
            \E p \in Taken(F, into) : x = <<<<a[1], a[2], p[1]>>, p[2]>>
      BY <1>4, <2>2
    <3>6. x \in Arrivals(F, order[n], In) <=> \E c \in C : x = <<<<a[1], a[2], c>>, w(c)>>
      BY <3>3, <3>4, <3>5
    <3> QED
      BY <3>6 DEF C, w
  <2>6. x \in Arrivals(F, order[n], In) <=> \E k \in keys : x = <<k, name[k]>>
    BY <2>1, <2>5
  <2> QED
    BY <1>5, <2>6 DEF F, name, keys
<1>6. CASE n # 1
  <2>1. into.from = order[n - 1] /\ into.group = "out" /\ into.columns = {}
    BY <1>6 DEF into, ChainEdge, Edge
  <2>2. OutputColumns(F, order[n - 1], "out") = WideRow(d, a, order, name, n - 1)
    <3>1. DOMAIN F.op[order[n - 1]].out = {"out"}
          /\ F.op[order[n - 1]].out["out"] = WideRow(d, a, order, name, n - 1)
      <4>1. n - 1 \in 1 .. Len(order)
        BY <1>1, <1>6
      <4> DEFINE i == n - 1
      <4> HIDE DEF i
      <4>2. DOMAIN F.op[order[i]].out = {"out"} /\ F.op[order[i]].out["out"] = WideRow(d, a, order, name, i)
        BY <4>1, FusedOp DEF RewrittenAs, F, i
      <4> QED
        BY <4>2 DEF i
    <3> QED
      BY <3>1 DEF OutputColumns, Groups
  <2>3. DOMAIN WideRow(d, a, order, name, n - 1) = {name[k] : k \in keys}
    BY DEF WideRow
  <2>4. Taken(F, into) = {<<c, c>> : c \in {name[k] : k \in keys}}
    BY <2>1, <2>2, <2>3 DEF Taken
  <2> HIDE DEF name, keys
  <2>5. x \in Arrivals(F, order[n], In) <=>
          \E k \in keys : x = <<<<order[n - 1], "out", name[k]>>, name[k]>>
    <3>1. \A p \in Taken(F, into) : \E k \in keys : p = <<name[k], name[k]>>
      BY <2>4
    <3>2. \A k \in keys : <<name[k], name[k]>> \in Taken(F, into)
      BY <2>4
    <3>3. ASSUME NEW p \in Taken(F, into), x = <<<<order[n - 1], "out", p[1]>>, p[2]>>
          PROVE  \E k \in keys : x = <<<<order[n - 1], "out", name[k]>>, name[k]>>
      <4>1. PICK k \in keys : p = <<name[k], name[k]>>
        BY <3>1
      <4>2. p[1] = name[k] /\ p[2] = name[k]
        BY <4>1
      <4> QED
        BY <3>3, <4>2
    <3>4. ASSUME NEW k \in keys, x = <<<<order[n - 1], "out", name[k]>>, name[k]>>
          PROVE  \E p \in Taken(F, into) : x = <<<<order[n - 1], "out", p[1]>>, p[2]>>
      <4> DEFINE p == <<name[k], name[k]>>
      <4>1. p \in Taken(F, into) /\ p[1] = name[k] /\ p[2] = name[k]
        BY <3>2
      <4> HIDE DEF p
      <4> QED
        BY <3>4, <4>1
    <3>5. x \in Arrivals(F, order[n], In) <=>
            \E p \in Taken(F, into) : x = <<<<order[n - 1], "out", p[1]>>, p[2]>>
      BY <1>4, <2>1
    <3> QED
      BY <3>3, <3>4, <3>5
  <2> QED
    BY <1>6, <2>5 DEF F, name, keys
<1> QED
  BY <1>5, <1>6

\* What leaves the region, or the anchor beside it, comes from the end of the chain.
Leaves(d, a, R, o, t, k) == k[1] \in R \/ (<<k[1], k[2]>> = a /\ Fed(d, R, o, t))
AtEnd(d, a, order, k)    == <<Last(order), "out", WideName(d, a, order)[k]>>

LEMMA EndFeeds ==
  ASSUME NEW d, NEW m, NEW s, NEW a, NEW R, NEW order, NEW place,
         Chained(d, m, s, a, R, order, place), NEW f \in Leaving(d, a, R)
  PROVE  \E g \in Beside(d, a, R, f) : \E q \in Taken(d, g) : TRUE
<1>1. f \in d.edges /\ f.to \notin R /\ (f.from \in R \/ Fed(d, R, f.to, f.slot))
  BY LeavingAre
<1>2. PICK g \in d.edges : g.to = f.to /\ g.slot = f.slot /\ g.from \in R
  BY <1>1 DEF Fed
<1>3. g \in Leaving(d, a, R)
  BY <1>1, <1>2, LeavingAre
<1>4. g \in Beside(d, a, R, f)
  BY <1>2, <1>3 DEF Beside
<1>5. Passes(d, g.from) /\ ColumnsOK(d)
  BY <1>2, ChainedSays
<1>6. PICK q \in Taken(d, g) : TRUE
  BY <1>2, <1>5 DEF ColumnsOK
<1> QED
  BY <1>4, <1>6

LEMMA EndTakes ==
  ASSUME NEW d, NEW m, NEW s, NEW a, NEW R, NEW order, NEW place,
         Chained(d, m, s, a, R, order, place), NEW f \in Leaving(d, a, R), NEW p
  PROVE  p \in Taken(Fused(d, a, R, order), EndEdge(d, a, R, order, f)) <=>
           \E g \in Beside(d, a, R, f) : \E q \in Taken(d, g) :
             p = <<WideName(d, a, order)[<<g.from, g.group, q[1]>>], q[2]>>
<1> DEFINE F    == Fused(d, a, R, order)
           name == WideName(d, a, order)
           e    == EndEdge(d, a, R, order, f)
<1>1. e.columns = WideColumns(d, Beside(d, a, R, f), name)
  BY DEF EndEdge, Edge
<1>2. ASSUME NEW r
      PROVE  r \in WideColumns(d, Beside(d, a, R, f), name) <=>
               \E g \in Beside(d, a, R, f) : \E q \in Taken(d, g) :
                 r = <<name[<<g.from, g.group, q[1]>>], q[2]>>
  <2> HIDE DEF name
  <2>1. ASSUME NEW g
        PROVE  r \in {<<name[<<g.from, g.group, q[1]>>], q[2]>> : q \in Taken(d, g)} <=>
                 \E q \in Taken(d, g) : r = <<name[<<g.from, g.group, q[1]>>], q[2]>>
    OBVIOUS
  <2> DEFINE B    == Beside(d, a, R, f)
             W(g) == {<<name[<<g.from, g.group, q[1]>>], q[2]>> : q \in Taken(d, g)}
  <2>2. WideColumns(d, B, name) = UNION {W(g) : g \in B}
    BY DEF WideColumns
  <2>3. r \in UNION {W(g) : g \in B} <=> \E g \in B : r \in W(g)
    <3> HIDE DEF B, W
    <3> QED
      OBVIOUS
  <2> HIDE DEF B
  <2>4. r \in WideColumns(d, B, name) <=> \E g \in B : r \in W(g)
    BY <2>2, <2>3
  <2> QED
    BY <2>1, <2>4 DEF B
<1>3. e.columns # {}
  <2>1. PICK g \in Beside(d, a, R, f) : \E q \in Taken(d, g) : TRUE
    BY ChainedSays, EndFeeds
  <2>2. PICK q \in Taken(d, g) : TRUE
    BY <2>1
  <2> DEFINE r == <<name[<<g.from, g.group, q[1]>>], q[2]>>
  <2>3. r \in WideColumns(d, Beside(d, a, R, f), name)
    BY <1>2, <2>1, <2>2
  <2> HIDE DEF r, name, e
  <2> QED
    BY <1>1, <2>3
<1>4. Taken(F, e) = e.columns
  <2> HIDE DEF F, e
  <2> QED
    BY <1>3 DEF Taken
<1> HIDE DEF F, name, e
<1>5. p \in Taken(F, e) <=> p \in WideColumns(d, Beside(d, a, R, f), name)
  BY <1>1, <1>4
<1> QED
  BY <1>2, <1>5 DEF F, name, e

LEMMA OutsideArrivals ==
  ASSUME NEW d, NEW m, NEW s, NEW a, NEW R, NEW order, NEW place,
         Chained(d, m, s, a, R, order, place), NEW o, o \notin R, NEW t, NEW x
  PROVE  x \in Arrivals(Fused(d, a, R, order), o, t) <=>
           \E y \in Arrivals(d, o, t) :
             x = <<IF Leaves(d, a, R, o, t, y[1]) THEN AtEnd(d, a, order, y[1]) ELSE y[1], y[2]>>
<1> DEFINE F      == Fused(d, a, R, order)
           last(f) == EndEdge(d, a, R, order, f)
           moved(k) == IF Leaves(d, a, R, o, t, k) THEN AtEnd(d, a, order, k) ELSE k
<1>1. FlowOK(d) /\ EdgesOnce(d) /\ EdgesOnce(F)
  BY ChainedSays, EdgesAreOnce, FusedOnce
<1>2. ASSUME NEW y
      PROVE  y \in Arrivals(d, o, t) <=>
               \E e \in d.edges : /\ e.to = o /\ e.slot = t
                                  /\ \E q \in Taken(d, e) : y = <<<<e.from, e.group, q[1]>>, q[2]>>
  BY <1>1, ArrivalsAre
<1>3. x \in Arrivals(F, o, t) <=>
        \E e \in F.edges : /\ e.to = o /\ e.slot = t
                           /\ \E q \in Taken(F, e) : x = <<<<e.from, e.group, q[1]>>, q[2]>>
  <2> HIDE DEF F
  <2> QED
    BY <1>1, ArrivalsAre
<1>4. ASSUME NEW e, e.to = o
      PROVE  e \in F.edges <=> \/ e \in d.edges /\ e \notin Leaving(d, a, R)
                               \/ \E f \in Leaving(d, a, R) : e = last(f)
  BY <1>4, FusedEdgeInto
<1>5. ASSUME NEW f \in Leaving(d, a, R)
      PROVE  /\ last(f).from = Last(order) /\ last(f).group = "out"
             /\ last(f).to = f.to /\ last(f).slot = f.slot
  BY DEF EndEdge, Edge
<1>6. ASSUME NEW e \in d.edges, e \notin Leaving(d, a, R), e.to = o, e.slot = t
      PROVE  /\ Taken(F, e) = Taken(d, e)
             /\ \A k : k[1] = e.from /\ k[2] = e.group => moved(k) = k
  <2>1. e.from \notin R /\ ~ (<<e.from, e.group>> = a /\ Fed(d, R, o, t))
    BY <1>6, LeavingAre
  <2>2. OutputColumns(F, e.from, e.group) = OutputColumns(d, e.from, e.group)
    <3>1. e.from \in Ops(d)
      BY <1>1 DEF FlowOK
    <3> QED
      BY <2>1, <3>1, FusedOutput
  <2>3. Taken(F, e) = Taken(d, e)
    <3> HIDE DEF F
    <3> QED
      BY <2>2 DEF Taken
  <2> QED
    BY <2>1, <2>3 DEF Leaves
<1>7. ASSUME NEW g \in Leaving(d, a, R), g.to = o, g.slot = t, NEW k, k[1] = g.from, k[2] = g.group
      PROVE  moved(k) = AtEnd(d, a, order, k)
  BY <1>7, LeavingAre DEF Leaves
<1> HIDE DEF F, last, moved
<1>8. ASSUME NEW e \in F.edges, e.to = o, e.slot = t, NEW q \in Taken(F, e),
             x = <<<<e.from, e.group, q[1]>>, q[2]>>
      PROVE  \E y \in Arrivals(d, o, t) : x = <<moved(y[1]), y[2]>>
  <2>1. CASE e \in d.edges /\ e \notin Leaving(d, a, R)
    <3> DEFINE k == <<e.from, e.group, q[1]>>
               y == <<k, q[2]>>
    <3>1. k[1] = e.from /\ k[2] = e.group /\ y[1] = k /\ y[2] = q[2] /\ x = <<k, q[2]>>
      BY <1>8
    <3>2. y \in Arrivals(d, o, t)
      BY <1>2, <1>6, <1>8, <2>1
    <3> HIDE DEF k, y
    <3>3. moved(k) = k
      BY <1>6, <1>8, <2>1, <3>1
    <3>4. x = <<moved(y[1]), y[2]>>
      BY <3>1, <3>3
    <3> QED
      BY <3>2, <3>4
  <2>2. CASE \E f \in Leaving(d, a, R) : e = last(f)
    <3>1. PICK f \in Leaving(d, a, R) : e = last(f)
      BY <2>2
    <3>2. q \in Taken(F, last(f))
      BY <1>8, <3>1
    <3>3. PICK g \in Beside(d, a, R, f) : \E r \in Taken(d, g) :
             q = <<WideName(d, a, order)[<<g.from, g.group, r[1]>>], r[2]>>
      BY <3>2, EndTakes DEF F, last
    <3>4. PICK r \in Taken(d, g) : q = <<WideName(d, a, order)[<<g.from, g.group, r[1]>>], r[2]>>
      BY <3>3
    <3>5. g \in Leaving(d, a, R) /\ g.to = o /\ g.slot = t /\ g \in d.edges
      BY <1>5, <1>8, <3>1, <3>3, LeavingAre DEF Beside
    <3> DEFINE k == <<g.from, g.group, r[1]>>
               y == <<k, r[2]>>
    <3>6. y \in Arrivals(d, o, t) /\ k[1] = g.from /\ k[2] = g.group /\ y[1] = k /\ y[2] = r[2]
      BY <1>2, <3>4, <3>5
    <3>7. q[1] = WideName(d, a, order)[k] /\ q[2] = r[2]
      BY <3>4
    <3> HIDE DEF k, y
    <3>8. moved(k) = AtEnd(d, a, order, k)
      BY <1>7, <3>5, <3>6
    <3>9. AtEnd(d, a, order, k) = <<e.from, e.group, q[1]>>
      BY <1>5, <3>1, <3>7 DEF AtEnd
    <3>10. x = <<moved(y[1]), y[2]>>
      BY <1>8, <3>6, <3>7, <3>8, <3>9
    <3> QED
      BY <3>6, <3>10
  <2> QED
    BY <1>4, <1>8, <2>1, <2>2
<1>9. ASSUME NEW y \in Arrivals(d, o, t), x = <<moved(y[1]), y[2]>>
      PROVE  \E e \in F.edges : /\ e.to = o /\ e.slot = t
                                /\ \E q \in Taken(F, e) : x = <<<<e.from, e.group, q[1]>>, q[2]>>
  <2>1. PICK g \in d.edges : /\ g.to = o /\ g.slot = t
                             /\ \E r \in Taken(d, g) : y = <<<<g.from, g.group, r[1]>>, r[2]>>
    BY <1>2
  <2>2. PICK r \in Taken(d, g) : y = <<<<g.from, g.group, r[1]>>, r[2]>>
    BY <2>1
  <2> DEFINE k == <<g.from, g.group, r[1]>>
  <2>3. k[1] = g.from /\ k[2] = g.group /\ y[1] = k /\ y[2] = r[2]
    BY <2>2
  <2>4. CASE g \notin Leaving(d, a, R)
    <3>1. g \in F.edges /\ r \in Taken(F, g)
      BY <1>4, <1>6, <2>1, <2>4
    <3>2. moved(k) = k
      <4> HIDE DEF k
      <4> QED
        BY <1>6, <2>1, <2>3, <2>4
    <3>3. x = <<<<g.from, g.group, r[1]>>, r[2]>>
      BY <1>9, <2>3, <3>2
    <3> QED
      BY <2>1, <3>1, <3>3
  <2>5. CASE g \in Leaving(d, a, R)
    <3> DEFINE q == <<WideName(d, a, order)[k], r[2]>>
    <3>1. g \in Beside(d, a, R, g)
      BY <2>5 DEF Beside
    <3>2. q \in Taken(F, last(g))
      <4>1. q = <<WideName(d, a, order)[<<g.from, g.group, r[1]>>], r[2]>>
        OBVIOUS
      <4> HIDE DEF q, k
      <4> QED
        BY <2>5, <3>1, <4>1, EndTakes DEF F, last
    <3>3. last(g) \in F.edges /\ last(g).to = o /\ last(g).slot = t
      BY <1>4, <1>5, <2>1, <2>5
    <3>4. q[1] = WideName(d, a, order)[k] /\ q[2] = r[2]
      OBVIOUS
    <3> HIDE DEF q, k
    <3>5. moved(k) = AtEnd(d, a, order, k)
      BY <1>7, <2>1, <2>3, <2>5
    <3>6. AtEnd(d, a, order, k) = <<last(g).from, last(g).group, q[1]>>
      BY <1>5, <2>5, <3>4 DEF AtEnd
    <3>7. x = <<<<last(g).from, last(g).group, q[1]>>, q[2]>>
      BY <1>9, <2>3, <3>4, <3>5, <3>6
    <3> QED
      BY <3>2, <3>3, <3>7
  <2> QED
    BY <2>4, <2>5
<1>10. x \in Arrivals(F, o, t) <=> \E y \in Arrivals(d, o, t) : x = <<moved(y[1]), y[2]>>
  BY <1>3, <1>8, <1>9
<1> QED
  BY <1>10 DEF F, moved

\* The columns of the fused dataflow: those outside of the region, and the widened rows.
LEMMA WideGroups ==
  ASSUME NEW d, NEW m, NEW s, NEW a, NEW R, NEW order, NEW place,
         Chained(d, m, s, a, R, order, place), NEW n \in 1 .. Len(order)
  PROVE  Groups(Fused(d, a, R, order), order[n]) = {"out"}
  BY FusedOp DEF RewrittenAs, Groups

LEMMA WideOutput ==
  ASSUME NEW d, NEW m, NEW s, NEW a, NEW R, NEW order, NEW place,
         Chained(d, m, s, a, R, order, place), NEW n \in 1 .. Len(order)
  PROVE  OutputColumns(Fused(d, a, R, order), order[n], "out")
           = WideRow(d, a, order, WideName(d, a, order), n)
  BY FusedOp DEF RewrittenAs, Groups, OutputColumns

LEMMA WideColumnsAre ==
  ASSUME NEW d, NEW m, NEW s, NEW a, NEW R, NEW order, NEW place,
         Chained(d, m, s, a, R, order, place), NEW n \in 1 .. Len(order), NEW k, k[1] = order[n]
  PROVE  k \in AllColumns(Fused(d, a, R, order)) <=>
           \E j \in WideKeys(d, a, order, n) : k = <<order[n], "out", WideName(d, a, order)[j]>>
<1> DEFINE F    == Fused(d, a, R, order)
           name == WideName(d, a, order)
           keys == WideKeys(d, a, order, n)
           row  == WideRow(d, a, order, name, n)
<1>1. order[n] \in R /\ R \subseteq Ops(d) /\ FlowOK(d) /\ Lists(order, R)
  BY ChainedSays DEF Chained, Fusion
<1>2. order[n] \in Ops(F)
  BY <1>1, FusedOps
<1>3. Groups(F, order[n]) = {"out"} /\ OutputColumns(F, order[n], "out") = row
  BY WideGroups, WideOutput
<1>4. DOMAIN row = {name[j] : j \in keys}
  BY DEF WideRow
<1> HIDE DEF F, name, keys, row
<1>5. k \in AllColumns(F) <=>
        /\ k = <<k[1], k[2], k[3]>> /\ k[1] \in Ops(F)
        /\ k[2] \in Groups(F, k[1]) \cup {"out"}
        /\ k[3] \in DOMAIN OutputColumns(F, k[1], k[2])
  BY AllColumnsAre
<1>6. k \in AllColumns(F) <=> k = <<order[n], "out", k[3]>> /\ k[3] \in {name[j] : j \in keys}
  <2>1. k = <<order[n], "out", k[3]>> => k[1] = order[n] /\ k[2] = "out"
    OBVIOUS
  <2> QED
    BY <1>2, <1>3, <1>4, <1>5, <2>1
<1>7. ASSUME NEW j \in keys, k = <<order[n], "out", name[j]>>
      PROVE  k = <<order[n], "out", k[3]>> /\ k[3] \in {name[i] : i \in keys}
  <2>1. k[3] = name[j]
    BY <1>7
  <2> QED
    BY <1>7, <2>1
<1>8. k \in AllColumns(F) <=> \E j \in keys : k = <<order[n], "out", name[j]>>
  BY <1>6, <1>7
<1> QED
  BY <1>8 DEF F, name, keys

LEMMA OutsideColumns ==
  ASSUME NEW d, FlowOK(d), NEW a, NEW R, NEW order, Lists(order, R), NEW k, k[1] \notin R
  PROVE  k \in AllColumns(Fused(d, a, R, order)) <=> k \in AllColumns(d)
<1> DEFINE F == Fused(d, a, R, order)
<1>1. Ops(F) = Ops(d)
  BY FusedOps
<1>2. ASSUME k[1] \in Ops(d)
      PROVE  /\ Groups(F, k[1]) = Groups(d, k[1])
             /\ OutputColumns(F, k[1], k[2]) = OutputColumns(d, k[1], k[2])
  BY <1>2, FusedOutside, FusedOutput DEF Groups
<1>3. k \in AllColumns(d) <=>
        /\ k = <<k[1], k[2], k[3]>> /\ k[1] \in Ops(d)
        /\ k[2] \in Groups(d, k[1]) \cup {"out"}
        /\ k[3] \in DOMAIN OutputColumns(d, k[1], k[2])
  BY AllColumnsAre
<1> HIDE DEF F
<1>4. k \in AllColumns(F) <=>
        /\ k = <<k[1], k[2], k[3]>> /\ k[1] \in Ops(F)
        /\ k[2] \in Groups(F, k[1]) \cup {"out"}
        /\ k[3] \in DOMAIN OutputColumns(F, k[1], k[2])
  BY AllColumnsAre
<1>5. k \in AllColumns(F) <=> k \in AllColumns(d)
  BY <1>1, <1>2, <1>3, <1>4
<1> QED
  BY <1>5 DEF F

\* A column that an operation of the region reads is in the row that reaches it.
LEMMA RootBefore ==
  ASSUME NEW d, NEW m, NEW s, NEW a, NEW R, NEW order, NEW place,
         Chained(d, m, s, a, R, order, place), NEW V, Solves(d, V),
         NEW n \in 1 .. Len(order), NEW k \in InWide(d, a, R), place[k[1]] < place[order[n]]
  PROVE  \E r \in WideKeys(d, a, order, n - 1) :
           WideName(d, a, order)[r] = WideName(d, a, order)[k] /\ V[r] = V[k]
<1>1. PICK r \in WideKeys(d, a, order, Len(order)) :
        /\ WideName(d, a, order)[r] = WideName(d, a, order)[k]
        /\ V[r] = V[k] /\ place[r[1]] <= place[k[1]]
  BY WideRoots
<1>2. /\ Len(order) \in 0 .. Len(order) /\ n - 1 \in 0 .. Len(order)
      /\ order[n] \in R /\ R \subseteq Ops(d)
  BY ChainedSays
<1>3. /\ r \in InWide(d, a, R)
      /\ \/ <<r[1], r[2]>> = a
         \/ \E i \in 1 .. Len(order) : r[1] = order[i] /\ r[3] \in NewColumns(d.op[order[i]])
  BY <1>1, <1>2, WideKeysAre
<1>4. r[1] \in Ops(d) /\ k[1] \in Ops(d)
  <2>1. r \in AllColumns(d) /\ k \in AllColumns(d)
    BY <1>3 DEF InWide
  <2> QED
    BY <2>1, AllColumnsAre
<1>5. place[r[1]] \in Nat /\ place[k[1]] \in Nat /\ place[order[n]] \in Nat
  BY <1>2, <1>4 DEF Chained, Numbered
<1>6. place[r[1]] < place[order[n]]
  BY <1>1, <1>5
<1>7. ASSUME NEW i \in 1 .. Len(order), r[1] = order[i] PROVE i \in 1 .. n - 1
  <2>1. i <= n
    BY <1>5, <1>6, <1>7, ChainedSays
  <2>2. i # n
    BY <1>5, <1>6, <1>7
  <2> QED
    BY <2>1, <2>2
<1> DEFINE i == n - 1
<1> HIDE DEF i
<1>8. r \in WideKeys(d, a, order, i)
  <2>1. \/ <<r[1], r[2]>> = a
        \/ \E j \in 1 .. i : r[1] = order[j] /\ r[3] \in NewColumns(d.op[order[j]])
    BY <1>3, <1>7 DEF i
  <2>2. i \in 0 .. Len(order)
    BY <1>2 DEF i
  <2> QED
    BY <1>3, <2>1, <2>2, WideKeysAre
<1> QED
  BY <1>1, <1>8 DEF i

\* What arrives anywhere in the fused dataflow is a column of it.
LEMMA FusedSources ==
  ASSUME NEW d, NEW m, NEW s, NEW a, NEW R, NEW order, NEW place,
         Chained(d, m, s, a, R, order, place), NEW o \in Ops(d), NEW t,
         NEW x \in Arrivals(Fused(d, a, R, order), o, t)
  PROVE  x[1] \in AllColumns(Fused(d, a, R, order))
<1> DEFINE F    == Fused(d, a, R, order)
           name == WideName(d, a, order)
<1>1. FlowOK(d) /\ ColumnsOK(d) /\ EdgesOnce(d) /\ Lists(order, R)
  BY ChainedSays, EdgesAreOnce DEF Chained, Fusion
<1>2. \A y \in Arrivals(d, o, t) :
        /\ y[1] \in AllColumns(d)
        /\ \E e \in d.edges : e.to = o /\ e.slot = t /\ y[1][1] = e.from
  <2> SUFFICES ASSUME NEW y \in Arrivals(d, o, t)
               PROVE  /\ y[1] \in AllColumns(d)
                      /\ \E e \in d.edges : e.to = o /\ e.slot = t /\ y[1][1] = e.from
    OBVIOUS
  <2>1. PICK e \in d.edges : /\ e.to = o /\ e.slot = t
                             /\ \E p \in Taken(d, e) : y = <<<<e.from, e.group, p[1]>>, p[2]>>
    BY <1>1, ArrivalsAre
  <2>2. PICK p \in Taken(d, e) : y = <<<<e.from, e.group, p[1]>>, p[2]>>
    BY <2>1
  <2>3. y[1] = <<e.from, e.group, p[1]>> /\ y[1][1] = e.from
    BY <2>2
  <2> QED
    BY <1>1, <2>1, <2>3 DEF ColumnsOK
<1>3. ASSUME NEW k, k \in AllColumns(d), k[1] \notin R PROVE k \in AllColumns(F)
  BY <1>1, <1>3, OutsideColumns
<1>4. ASSUME NEW n \in 1 .. Len(order), NEW j \in WideKeys(d, a, order, n)
      PROVE  <<order[n], "out", name[j]>> \in AllColumns(F)
  <2> DEFINE k == <<order[n], "out", name[j]>>
  <2>1. k[1] = order[n] /\ k = <<order[n], "out", WideName(d, a, order)[j]>>
    OBVIOUS
  <2> HIDE DEF k
  <2>2. k \in AllColumns(F)
    BY <2>1, WideColumnsAre
  <2> QED
    BY <2>2 DEF k
<1>5. CASE o \notin R
  <2>1. PICK y \in Arrivals(d, o, t) :
          x = <<IF Leaves(d, a, R, o, t, y[1]) THEN AtEnd(d, a, order, y[1]) ELSE y[1], y[2]>>
    BY <1>5, OutsideArrivals
  <2>2. x[1] = IF Leaves(d, a, R, o, t, y[1]) THEN AtEnd(d, a, order, y[1]) ELSE y[1]
    BY <2>1
  <2>3. CASE Leaves(d, a, R, o, t, y[1])
    <3>1. y[1] \in InWide(d, a, R)
      BY <1>2, <2>3 DEF Leaves, InWide
    <3>2. PICK N \in Nat : \A p \in Ops(d) : place[p] <= N
      BY DEF Chained
    <3>3. PICK V : Solves(d, V)
      BY <1>1, <3>2, ValuesExist DEF Chained
    <3>4. PICK r \in WideKeys(d, a, order, Len(order)) : name[r] = name[y[1]]
      BY <3>1, <3>3, WideRoots
    <3>5. Len(order) \in 1 .. Len(order) /\ Last(order) = order[Len(order)]
      BY ChainedSays
    <3>6. <<order[Len(order)], "out", name[r]>> \in AllColumns(F)
      BY <1>4, <3>5
    <3> HIDE DEF F
    <3> QED
      BY <2>2, <2>3, <3>4, <3>5, <3>6 DEF AtEnd, F
  <2>4. CASE ~ Leaves(d, a, R, o, t, y[1])
    <3>1. y[1] \in AllColumns(d) /\ y[1][1] \notin R
      BY <1>2, <2>4 DEF Leaves
    <3> QED
      BY <1>3, <2>2, <2>4, <3>1
  <2> QED
    BY <2>3, <2>4
<1>6. CASE o \in R /\ t # In
  <2>1. x \in Arrivals(d, o, t)
    BY <1>6, SideArrivals
  <2>2. x[1] \in AllColumns(d) /\ \E e \in d.edges : e.to = o /\ e.slot = t /\ x[1][1] = e.from
    BY <1>2, <2>1
  <2>3. RowPreserving(d.op[o])
    BY <1>6, ChainedSays DEF Passes
  <2>4. x[1][1] \notin R
    BY <1>6, <2>2, <2>3 DEF Chained, Fusion, Fusable
  <2> QED
    BY <1>3, <2>2, <2>4
<1>7. CASE o \in R /\ t = In
  <2>1. PICK n \in 1 .. Len(order) : order[n] = o
    BY <1>7, ChainedSays
  <2>2. PICK k \in WideKeys(d, a, order, n - 1) :
          x = <<IF n = 1 THEN k ELSE <<order[n - 1], "out", name[k]>>, name[k]>>
    BY <1>7, <2>1, ChainArrivals
  <2>3. x[1] = IF n = 1 THEN k ELSE <<order[n - 1], "out", name[k]>>
    BY <2>2
  <2>4. CASE n = 1
    <3>1. 0 \in 0 .. Len(order) /\ k \in WideKeys(d, a, order, 0)
      BY <2>2, <2>4, ChainedSays
    <3>2. k \in InWide(d, a, R) /\ <<k[1], k[2]>> = a
      BY <3>1, WideKeysAre
    <3>3. k \in AllColumns(d) /\ k[1] = a[1] /\ a[1] \notin R
      <4>1. k[1] = a[1]
        BY <3>2
      <4> QED
        BY <3>2, <4>1, ChainedSays DEF InWide
    <3> QED
      BY <1>3, <2>3, <2>4, <3>3
  <2>5. CASE n # 1
    <3> DEFINE i == n - 1
    <3>1. i \in 1 .. Len(order)
      BY <2>5, ChainedSays
    <3> HIDE DEF i
    <3>2. k \in WideKeys(d, a, order, i) /\ x[1] = <<order[i], "out", name[k]>>
      BY <2>2, <2>3, <2>5 DEF i
    <3> QED
      BY <1>4, <3>1, <3>2
  <2> QED
    BY <2>4, <2>5
<1> QED
  BY <1>5, <1>6, <1>7

\* Which columns arrive at a slot of the fused dataflow.
LEMMA WidePorts ==
  ASSUME NEW d, NEW m, NEW s, NEW a, NEW R, NEW order, NEW place,
         Chained(d, m, s, a, R, order, place), NEW n \in 1 .. Len(order), NEW c
  PROVE  c \in Ports(Fused(d, a, R, order), order[n], In) <=>
           \E k \in WideKeys(d, a, order, n - 1) : c = WideName(d, a, order)[k]
<1> DEFINE F     == Fused(d, a, R, order)
           name  == WideName(d, a, order)
           keys  == WideKeys(d, a, order, n - 1)
           at(k) == <<IF n = 1 THEN k ELSE <<order[n - 1], "out", name[k]>>, name[k]>>
<1>1. \A x : x \in Arrivals(F, order[n], In) <=> \E k \in keys : x = at(k)
  BY ChainArrivals
<1>2. \A k : at(k)[2] = name[k]
  OBVIOUS
<1> HIDE DEF at, keys, name, F
<1>3. c \in Ports(F, order[n], In) <=> \E k \in keys : c = name[k]
  <2>1. c \in Ports(F, order[n], In) <=> \E x \in Arrivals(F, order[n], In) : c = x[2]
    BY DEF Ports
  <2>2. ASSUME NEW k \in keys, c = name[k] PROVE \E x \in Arrivals(F, order[n], In) : c = x[2]
    BY <1>1, <1>2, <2>2
  <2>3. ASSUME NEW x \in Arrivals(F, order[n], In), c = x[2] PROVE \E k \in keys : c = name[k]
    BY <1>1, <1>2, <2>3
  <2> QED
    BY <2>1, <2>2, <2>3
<1> QED
  BY <1>3 DEF F, keys, name

LEMMA OutsidePorts ==
  ASSUME NEW d, NEW m, NEW s, NEW a, NEW R, NEW order, NEW place,
         Chained(d, m, s, a, R, order, place), NEW o, o \notin R, NEW t, NEW c
  PROVE  c \in Ports(Fused(d, a, R, order), o, t) <=> c \in Ports(d, o, t)
<1> DEFINE F       == Fused(d, a, R, order)
           moved(k) == IF Leaves(d, a, R, o, t, k) THEN AtEnd(d, a, order, k) ELSE k
<1>1. \A x : x \in Arrivals(F, o, t) <=> \E y \in Arrivals(d, o, t) : x = <<moved(y[1]), y[2]>>
  BY OutsideArrivals
<1> HIDE DEF moved, F
<1>2. c \in Ports(F, o, t) <=> \E x \in Arrivals(F, o, t) : c = x[2]
  BY DEF Ports
<1>3. c \in Ports(d, o, t) <=> \E x \in Arrivals(d, o, t) : c = x[2]
  BY DEF Ports
<1>4. ASSUME NEW x \in Arrivals(F, o, t), c = x[2] PROVE \E y \in Arrivals(d, o, t) : c = y[2]
  <2>1. PICK y \in Arrivals(d, o, t) : x = <<moved(y[1]), y[2]>>
    BY <1>1
  <2>2. x[2] = y[2]
    BY <2>1
  <2> QED
    BY <1>4, <2>2
<1>5. ASSUME NEW y \in Arrivals(d, o, t), c = y[2] PROVE \E x \in Arrivals(F, o, t) : c = x[2]
  <2> DEFINE x == <<moved(y[1]), y[2]>>
  <2>1. x \in Arrivals(F, o, t) /\ x[2] = y[2]
    BY <1>1
  <2> HIDE DEF x
  <2> QED
    BY <1>5, <2>1
<1>6. c \in Ports(F, o, t) <=> c \in Ports(d, o, t)
  BY <1>2, <1>3, <1>4, <1>5
<1> QED
  BY <1>6 DEF F

LEMMA SidePorts ==
  ASSUME NEW d, NEW m, NEW s, NEW a, NEW R, NEW order, NEW place,
         Chained(d, m, s, a, R, order, place), NEW r \in R, NEW t, t # In
  PROVE  Ports(Fused(d, a, R, order), r, t) = Ports(d, r, t)
  BY SideArrivals DEF Ports

\* A slot receives a column once, under its name.
ArriveOnce(d, o, t) == \A x, y \in Arrivals(d, o, t) : x[2] = y[2] => x = y

LEMMA WideArrivesOnce ==
  ASSUME NEW d, NEW m, NEW s, NEW a, NEW R, NEW order, NEW place,
         Chained(d, m, s, a, R, order, place), NEW n \in 1 .. Len(order)
  PROVE  ArriveOnce(Fused(d, a, R, order), order[n], In)
<1> DEFINE F     == Fused(d, a, R, order)
           name  == WideName(d, a, order)
           keys  == WideKeys(d, a, order, n - 1)
           at(k) == <<IF n = 1 THEN k ELSE <<order[n - 1], "out", name[k]>>, name[k]>>
<1>1. \A x : x \in Arrivals(F, order[n], In) <=> \E k \in keys : x = at(k)
  BY ChainArrivals
<1>2. \A k : at(k)[2] = name[k]
  OBVIOUS
<1>3. \A j, k \in keys : name[j] = name[k] => j = k
  <2> DEFINE i == n - 1
  <2>1. i \in 0 .. Len(order)
    BY ChainedSays
  <2> HIDE DEF i
  <2>2. WideKeys(d, a, order, i) \subseteq WideKeys(d, a, order, Len(order))
    BY <2>1, WideKeysWithin
  <2>3. \A j, k \in WideKeys(d, a, order, Len(order)) : name[j] = name[k] => j = k
    BY WideNames
  <2>4. keys = WideKeys(d, a, order, i)
    BY DEF i
  <2> HIDE DEF keys, name
  <2> QED
    BY <2>2, <2>3, <2>4
<1> HIDE DEF at, keys, name, F
<1>4. ASSUME NEW x \in Arrivals(F, order[n], In), NEW y \in Arrivals(F, order[n], In), x[2] = y[2]
      PROVE  x = y
  <2>1. PICK j \in keys : x = at(j)
    BY <1>1
  <2>2. PICK k \in keys : y = at(k)
    BY <1>1
  <2>3. j = k
    BY <1>2, <1>3, <1>4, <2>1, <2>2
  <2> QED
    BY <2>1, <2>2, <2>3
<1> QED
  BY <1>4 DEF ArriveOnce, F

LEMMA OutsideArrivesOnce ==
  ASSUME NEW d, NEW m, NEW s, NEW a, NEW R, NEW order, NEW place,
         Chained(d, m, s, a, R, order, place), NEW o, o \notin R, NEW t, ArriveOnce(d, o, t)
  PROVE  ArriveOnce(Fused(d, a, R, order), o, t)
<1> DEFINE F       == Fused(d, a, R, order)
           moved(k) == IF Leaves(d, a, R, o, t, k) THEN AtEnd(d, a, order, k) ELSE k
<1>1. \A x : x \in Arrivals(F, o, t) <=> \E y \in Arrivals(d, o, t) : x = <<moved(y[1]), y[2]>>
  BY OutsideArrivals
<1> HIDE DEF moved, F
<1>2. ASSUME NEW x \in Arrivals(F, o, t), NEW y \in Arrivals(F, o, t), x[2] = y[2] PROVE x = y
  <2>1. PICK u \in Arrivals(d, o, t) : x = <<moved(u[1]), u[2]>>
    BY <1>1
  <2>2. PICK v \in Arrivals(d, o, t) : y = <<moved(v[1]), v[2]>>
    BY <1>1
  <2>3. x[2] = u[2] /\ y[2] = v[2]
    BY <2>1, <2>2
  <2>4. u = v
    BY <1>2, <2>3 DEF ArriveOnce
  <2> QED
    BY <2>1, <2>2, <2>4
<1> QED
  BY <1>2 DEF ArriveOnce, F

\* Renamed references of an operation of the region are to what reaches it.
LEMMA RenamedReads ==
  ASSUME NEW d, NEW m, NEW s, NEW a, NEW R, NEW order, NEW place,
         Chained(d, m, s, a, R, order, place), NEW n \in 1 .. Len(order),
         NEW refs \in Seq(Ports(d, order[n], In) \cup Ports(d, order[n], Lookup))
  PROVE  Renamed(d, WideName(d, a, order), order[n], refs)
           \in Seq(Ports(Fused(d, a, R, order), order[n], In)
                     \cup Ports(Fused(d, a, R, order), order[n], Lookup))
<1> DEFINE F    == Fused(d, a, R, order)
           name == WideName(d, a, order)
           o    == order[n]
           read == Ports(F, o, In) \cup Ports(F, o, Lookup)
           new  == Renamed(d, name, o, refs)
<1>1. Len(refs) \in Nat /\ \A i \in 1 .. Len(refs) : refs[i] \in Ports(d, o, In) \cup Ports(d, o, Lookup)
  OBVIOUS
<1>2. o \in R /\ FlowOK(d) /\ ColumnsOK(d) /\ Lookup # In
  BY ChainedSays DEF Lookup, In
<1>3. ASSUME NEW c \in Ports(d, o, In) PROVE name[SourceOf(d, o, In, c)] \in read
  <2>1. PICK N \in Nat : \A p \in Ops(d) : place[p] <= N
    BY DEF Chained
  <2>2. PICK V : Solves(d, V)
    BY <1>2, <2>1, ValuesExist DEF Chained
  <2>3. SourceOf(d, o, In, c) \in InWide(d, a, R) /\ place[SourceOf(d, o, In, c)[1]] < place[o]
    BY <1>2, RegionSource
  <2>4. PICK r \in WideKeys(d, a, order, n - 1) : name[r] = name[SourceOf(d, o, In, c)]
    BY <2>2, <2>3, RootBefore
  <2>5. name[r] \in Ports(F, o, In)
    BY WidePorts
  <2> QED
    BY <2>4, <2>5
<1>4. ASSUME NEW i \in 1 .. Len(refs)
      PROVE  (IF refs[i] \in Ports(d, o, In) THEN name[SourceOf(d, o, In, refs[i])] ELSE refs[i]) \in read
  <2>1. CASE refs[i] \in Ports(d, o, In)
    BY <1>3, <2>1
  <2>2. CASE refs[i] \notin Ports(d, o, In)
    <3>1. refs[i] \in Ports(d, o, Lookup)
      BY <1>1, <2>2
    <3>2. refs[i] \in Ports(F, o, Lookup)
      BY <1>2, <3>1, SidePorts
    <3> QED
      BY <2>2, <3>2
  <2> QED
    BY <2>1, <2>2
<1> HIDE DEF read, name, F, o
<1>5. new = [i \in 1 .. Len(refs) |->
               IF refs[i] \in Ports(d, o, In) THEN name[SourceOf(d, o, In, refs[i])] ELSE refs[i]]
  BY DEF Renamed
<1> HIDE DEF new
<1>6. new \in [1 .. Len(refs) -> read]
  BY <1>4, <1>5
<1>7. new \in Seq(read)
  BY <1>1, <1>6
<1> QED
  BY <1>7 DEF new, read, name, F, o

\* The row after an operation of the chain is the row before it and its new columns.
LEMMA WideGrows ==
  ASSUME NEW d, NEW a, NEW order, NEW n \in Nat \ {0}, NEW k
  PROVE  k \in WideKeys(d, a, order, n) <=>
           \/ k \in WideKeys(d, a, order, n - 1)
           \/ \E b \in NewColumns(d.op[order[n]]) : k = <<order[n], "out", b>>
<1> DEFINE M(i) == {<<order[i], "out", c>> : c \in NewColumns(d.op[order[i]])}
           A    == {<<a[1], a[2], c>> : c \in DOMAIN OutputColumns(d, a[1], a[2])}
<1>1. \A i : k \in M(i) <=> \E b \in NewColumns(d.op[order[i]]) : k = <<order[i], "out", b>>
  OBVIOUS
<1>2. /\ WideKeys(d, a, order, n) = A \cup UNION {M(i) : i \in 1 .. n}
      /\ WideKeys(d, a, order, n - 1) = A \cup UNION {M(i) : i \in 1 .. n - 1}
  BY DEF WideKeys
<1> HIDE DEF M, A
<1>3. \A i : i \in 1 .. n <=> i \in 1 .. n - 1 \/ i = n
  OBVIOUS
<1>4. k \in WideKeys(d, a, order, n) <=> k \in WideKeys(d, a, order, n - 1) \/ k \in M(n)
  BY <1>2, <1>3
<1> QED
  BY <1>1, <1>4

\* Operations of the region pass what they now receive and make columns of it.
LEMMA WidePasses ==
  ASSUME NEW d, NEW m, NEW s, NEW a, NEW R, NEW order, NEW place,
         Chained(d, m, s, a, R, order, place), NEW n \in 1 .. Len(order)
  PROVE  PassesColumns(Fused(d, a, R, order), order[n])
<1> DEFINE F    == Fused(d, a, R, order)
           name == WideName(d, a, order)
           o    == order[n]
           op   == d.op[o]
           w    == F.op[o]
           keys == WideKeys(d, a, order, n)
           read == Ports(F, o, In) \cup Ports(F, o, Lookup)
           wide(b) == name[<<o, "out", b>>]
<1>1. o \in R /\ FlowOK(d) /\ ColumnsOK(d) /\ Passes(d, o) /\ Lookup # In /\ n \in Nat \ {0}
  BY ChainedSays DEF Lookup, In
<1>2. PassesColumns(d, o)
  BY <1>1, PassedColumns
<1>3. Groups(F, o) = {"out"}
  BY WideGroups
<1>4. ArriveOnce(F, o, In) /\ ArriveOnce(F, o, Lookup)
  <2>1. Arrivals(F, o, Lookup) = Arrivals(d, o, Lookup)
    BY <1>1, SideArrivals
  <2>2. ArriveOnce(d, o, Lookup)
    BY <1>2 DEF PassesColumns, ArriveOnce
  <2> QED
    BY <2>1, <2>2, WideArrivesOnce DEF ArriveOnce
<1>5. Ports(F, o, Lookup) = Ports(d, o, Lookup)
  BY <1>1, SidePorts
<1>6. RewrittenAs(d, a, order, name, n, w)
  BY FusedOp
<1>9. DOMAIN WideRow(d, a, order, name, n) = {name[k] : k \in keys}
  BY DEF WideRow
<1>10. \A refs \in Seq(Ports(d, o, In) \cup Ports(d, o, Lookup)) : Renamed(d, name, o, refs) \in Seq(read)
  BY RenamedReads
<1>11. \A c : c \in Ports(F, o, In) <=> \E k \in WideKeys(d, a, order, n - 1) : c = name[k]
  BY WidePorts
<1>12. \A k : k \in keys <=> \/ k \in WideKeys(d, a, order, n - 1)
                             \/ \E b \in NewColumns(op) : k = <<o, "out", b>>
  BY <1>1, WideGrows
<1> HIDE DEF keys, name, F, op, w, o
<1>7. /\ DOMAIN w = DOMAIN op
      /\ w.out["out"] = WideRow(d, a, order, name, n)
      /\ DOMAIN w.assigns = {wide(b) : b \in DOMAIN op.assigns}
      /\ \A b \in DOMAIN op.assigns :
           /\ DOMAIN w.assigns[wide(b)] = DOMAIN op.assigns[b]
           /\ w.assigns[wide(b)].refs = Renamed(d, name, o, op.assigns[b].refs)
  BY <1>6 DEF RewrittenAs, op, o
<1>8. /\ DOMAIN w.returns = {wide(b) : b \in DOMAIN op.returns}
      /\ \A b \in DOMAIN op.returns : w.returns[wide(b)] = op.returns[b]
      /\ w.cond = Renamed(d, name, o, op.cond)
  BY <1>6 DEF RewrittenAs, op, o
<1>13. {"out", "assigns", "returns", "cond"} \subseteq DOMAIN w
  BY <1>2, <1>7 DEF PassesColumns, op
<1>14. ASSUME NEW c \in NewColumns(w) PROVE \E b \in NewColumns(op) : c = wide(b)
  <2> HIDE DEF wide
  <2> QED
    BY <1>7, <1>8 DEF NewColumns
<1>15. ASSUME NEW b \in NewColumns(op) PROVE wide(b) \in NewColumns(w)
  <2> HIDE DEF wide
  <2> QED
    BY <1>7, <1>8 DEF NewColumns
<1>16. Declared(w) = {name[k] : k \in keys}
  BY <1>7, <1>9 DEF Declared
<1>17. NewColumns(w) \subseteq Declared(w)
  BY <1>12, <1>14, <1>16
<1>18. Declared(w) \ NewColumns(w) \subseteq Ports(F, o, In)
  <2> SUFFICES ASSUME NEW k \in keys, name[k] \notin NewColumns(w) PROVE name[k] \in Ports(F, o, In)
    BY <1>16
  <2>1. k \in WideKeys(d, a, order, n - 1)
    BY <1>12, <1>15
  <2> QED
    BY <1>11, <2>1
<1>19. \A c \in DOMAIN w.assigns : /\ {"id", "refs"} \subseteq DOMAIN w.assigns[c]
                                   /\ w.assigns[c].refs \in Seq(read)
  <2> HIDE DEF wide, read
  <2> SUFFICES ASSUME NEW b \in DOMAIN op.assigns
               PROVE  /\ {"id", "refs"} \subseteq DOMAIN w.assigns[wide(b)]
                      /\ w.assigns[wide(b)].refs \in Seq(read)
    BY <1>7
  <2>1. /\ {"id", "refs"} \subseteq DOMAIN op.assigns[b]
        /\ op.assigns[b].refs \in Seq(Ports(d, o, In) \cup Ports(d, o, Lookup))
    BY <1>2 DEF PassesColumns, op
  <2> QED
    BY <1>7, <1>10, <2>1
<1>20. \A c \in DOMAIN w.returns : w.returns[c] \in Ports(F, o, Lookup)
  <2> HIDE DEF wide, read
  <2> SUFFICES ASSUME NEW b \in DOMAIN op.returns PROVE w.returns[wide(b)] \in Ports(F, o, Lookup)
    BY <1>8
  <2> QED
    BY <1>2, <1>5, <1>8 DEF PassesColumns, op
<1>21. w.cond \in Seq(read)
  <2>1. op.cond \in Seq(Ports(d, o, In) \cup Ports(d, o, Lookup))
    BY <1>2 DEF PassesColumns, op
  <2> QED
    BY <1>8, <1>10, <2>1
<1>22. \A c \in Ports(F, o, Lookup) : Len(c) = 1
  BY <1>2, <1>5 DEF PassesColumns
<1>23. PassesColumns(F, o)
  <2>1. \A t \in {In, Lookup} : \A x, y \in Arrivals(F, o, t) : x[2] = y[2] => x = y
    BY <1>4 DEF ArriveOnce
  <2> QED
    BY <1>3, <1>13, <1>17, <1>18, <1>19, <1>20, <1>21, <1>22, <2>1 DEF PassesColumns, w
<1> QED
  BY <1>23 DEF F, o

LEMMA OutsidePasses ==
  ASSUME NEW d, NEW m, NEW s, NEW a, NEW R, NEW order, NEW place,
         Chained(d, m, s, a, R, order, place), NEW o \in Ops(d), o \notin R, PassesColumns(d, o)
  PROVE  PassesColumns(Fused(d, a, R, order), o)
<1> DEFINE F == Fused(d, a, R, order)
<1>1. F.op[o] = d.op[o]
  BY FusedOutside
<1>2. \A t : Ports(F, o, t) = Ports(d, o, t)
  <2> SUFFICES ASSUME NEW t PROVE Ports(F, o, t) = Ports(d, o, t)
    OBVIOUS
  <2>1. \A c : c \in Ports(F, o, t) <=> c \in Ports(d, o, t)
    BY OutsidePorts
  <2> QED
    BY <2>1
<1>3. \A t \in {In, Lookup} : ArriveOnce(F, o, t)
  <2> SUFFICES ASSUME NEW t \in {In, Lookup} PROVE ArriveOnce(F, o, t)
    OBVIOUS
  <2>1. ArriveOnce(d, o, t)
    BY DEF PassesColumns, ArriveOnce
  <2> QED
    BY <2>1, OutsideArrivesOnce
<1> HIDE DEF F
<1>4. Groups(F, o) = Groups(d, o)
  BY <1>1 DEF Groups
<1>5. PassesColumns(F, o)
  BY <1>1, <1>2, <1>3, <1>4 DEF PassesColumns, ArriveOnce
<1> QED
  BY <1>5 DEF F

\* Every edge of the fused dataflow that must take a column does.
LEMMA FusedTakes ==
  ASSUME NEW d, NEW m, NEW s, NEW a, NEW R, NEW order, NEW place,
         Chained(d, m, s, a, R, order, place), NEW e \in Fused(d, a, R, order).edges,
         Passes(d, e.from) \/ (Passes(d, e.to) /\ e.slot = In)
  PROVE  Taken(Fused(d, a, R, order), e) # {}
<1> DEFINE F == Fused(d, a, R, order)
<1>1. FlowOK(d) /\ ColumnsOK(d)
  BY ChainedSays
<1>2. ASSUME e \in d.edges, e.from \notin R PROVE Taken(F, e) # {}
  <2>1. e.from \in Ops(d) /\ Taken(d, e) # {}
    BY <1>1, <1>2 DEF FlowOK, ColumnsOK
  <2>2. OutputColumns(F, e.from, e.group) = OutputColumns(d, e.from, e.group)
    BY <1>2, <2>1, FusedOutput
  <2> HIDE DEF F
  <2> QED
    BY <2>1, <2>2 DEF Taken
<1>3. CASE e.to \notin R
  <2>1. \/ e \in d.edges /\ e \notin Leaving(d, a, R)
        \/ \E f \in Leaving(d, a, R) : e = EndEdge(d, a, R, order, f)
    BY <1>3, FusedEdgeInto
  <2>2. CASE e \in d.edges /\ e \notin Leaving(d, a, R)
    <3>1. e.from \notin R
      BY <1>3, <2>2, LeavingAre
    <3> QED
      BY <1>2, <2>2, <3>1
  <2>3. CASE \E f \in Leaving(d, a, R) : e = EndEdge(d, a, R, order, f)
    <3>1. PICK f \in Leaving(d, a, R) : e = EndEdge(d, a, R, order, f)
      BY <2>3
    <3>2. PICK g \in Beside(d, a, R, f) : \E q \in Taken(d, g) : TRUE
      BY <1>1, EndFeeds
    <3>3. PICK q \in Taken(d, g) : TRUE
      BY <3>2
    <3> DEFINE p == <<WideName(d, a, order)[<<g.from, g.group, q[1]>>], q[2]>>
    <3>4. p = <<WideName(d, a, order)[<<g.from, g.group, q[1]>>], q[2]>>
      OBVIOUS
    <3> HIDE DEF p
    <3>5. p \in Taken(F, EndEdge(d, a, R, order, f))
      BY <3>2, <3>3, <3>4, EndTakes
    <3>6. p \in Taken(F, e)
      BY <3>1, <3>5
    <3> QED
      BY <3>6
  <2> QED
    BY <2>1, <2>2, <2>3
<1>4. CASE e.to \in R /\ e.slot # In
  <2>1. e \in d.edges
    BY <1>4, FusedEdgeInto
  <2>2. RowPreserving(d.op[e.to])
    BY <1>4, ChainedSays DEF Passes
  <2>3. e.from \notin R
    BY <1>4, <2>1, <2>2 DEF Chained, Fusion, Fusable
  <2> QED
    BY <1>2, <2>1, <2>3
<1>5. CASE e.to \in R /\ e.slot = In
  <2>1. PICK n \in 1 .. Len(order) : order[n] = e.to
    BY <1>5, ChainedSays
  <2>2. \A f : f \in F.edges /\ f.to = order[n] /\ f.slot = In =>
                 f = IF n = 1 THEN AnchorEdge(d, a, order) ELSE ChainEdge(order, n)
    BY FusedEdgeInto
  <2> DEFINE into == IF n = 1 THEN AnchorEdge(d, a, order) ELSE ChainEdge(order, n)
  <2>3. \A f : f \in F.edges /\ f.to = order[n] /\ f.slot = In => f = into
    BY <2>2
  <2> HIDE DEF into
  <2>4. \A f \in F.edges : f.to = order[n] /\ f.slot = In => f = e
    BY <1>5, <2>1, <2>3
  <2>5. PICK k \in AllColumns(d) : <<k[1], k[2]>> = a
    BY AnchorFeeds
  <2> DEFINE i == n - 1
  <2>6. i \in 0 .. Len(order)
    BY ChainedSays
  <2> HIDE DEF i
  <2>7. k \in WideKeys(d, a, order, i)
    <3>1. k \in InWide(d, a, R)
      BY <2>5 DEF InWide
    <3> QED
      BY <2>5, <2>6, <3>1, WideKeysAre
  <2> DEFINE x == <<IF n = 1 THEN k ELSE <<order[n - 1], "out", WideName(d, a, order)[k]>>,
                    WideName(d, a, order)[k]>>
  <2>8. x \in Arrivals(F, order[n], In)
    <3>1. x = <<IF n = 1 THEN k ELSE <<order[n - 1], "out", WideName(d, a, order)[k]>>,
                WideName(d, a, order)[k]>>
      OBVIOUS
    <3> HIDE DEF x
    <3>2. k \in WideKeys(d, a, order, n - 1)
      BY <2>7 DEF i
    <3> QED
      BY <3>1, <3>2, ChainArrivals
  <2>9. EdgesOnce(F)
    BY FusedOnce
  <2> HIDE DEF F, x
  <2>10. \E f \in F.edges : /\ f.to = order[n] /\ f.slot = In
                            /\ \E p \in Taken(F, f) : x = <<<<f.from, f.group, p[1]>>, p[2]>>
    BY <2>8, <2>9, ArrivalsAre
  <2>11. PICK f \in F.edges : /\ f.to = order[n] /\ f.slot = In
                              /\ \E p \in Taken(F, f) : x = <<<<f.from, f.group, p[1]>>, p[2]>>
    BY <2>10
  <2>12. f = e /\ Taken(F, f) # {}
    BY <2>4, <2>11
  <2>13. Taken(F, e) # {}
    BY <2>12
  <2> QED
    BY <2>13 DEF F
<1> QED
  BY <1>3, <1>4, <1>5

\* So the fused dataflow has columns again.
LEMMA ColumnsFused ==
  ASSUME NEW d, NEW m, NEW s, NEW a, NEW R, NEW order, NEW place,
         Chained(d, m, s, a, R, order, place)
  PROVE  ColumnsOK(Fused(d, a, R, order))
<1> DEFINE F == Fused(d, a, R, order)
<1>1. Fusion(d, m, s, a, R, order) /\ FlowOK(d) /\ ColumnsOK(d) /\ Lists(order, R)
  BY ChainedSays DEF Chained, Fusion
<1>2. Ops(F) = Ops(d) /\ FlowOK(F) /\ EdgesOnce(F)
  BY <1>1, FusedOps, FlowFused, FusedOnce
<1>3. \A o \in Ops(d) : Passes(F, o) <=> Passes(d, o)
  BY <1>1, FusedPasses
<1>4. \A e \in F.edges : e.from \in Ops(d) /\ e.to \in Ops(d)
  BY <1>2 DEF FlowOK
<1>5. ASSUME NEW k \in AllColumns(F) PROVE IsName(k[3])
  <2>1. CASE k[1] \notin R
    <3>1. k \in AllColumns(d)
      BY <1>1, <1>5, <2>1, OutsideColumns
    <3> QED
      BY <1>1, <3>1 DEF ColumnsOK
  <2>2. CASE k[1] \in R
    <3>1. PICK n \in 1 .. Len(order) : order[n] = k[1]
      BY <2>2, ChainedSays
    <3>2. PICK j \in WideKeys(d, a, order, n) : k = <<order[n], "out", WideName(d, a, order)[j]>>
      BY <1>5, <3>1, WideColumnsAre
    <3>3. j \in WideKeys(d, a, order, Len(order))
      <4>1. n \in 0 .. Len(order)
        BY ChainedSays
      <4>2. WideKeys(d, a, order, n) \subseteq WideKeys(d, a, order, Len(order))
        BY <4>1, WideKeysWithin
      <4> QED
        BY <3>2, <4>2
    <3>4. IsName(WideName(d, a, order)[j])
      BY <3>3, WideNames
    <3> QED
      BY <3>2, <3>4
  <2> QED
    BY <2>1, <2>2
<1>6. ASSUME NEW e \in F.edges, NEW f \in F.edges, Edge(f.from, f.group, f.to, f.slot, e.columns) = e
      PROVE  f = e
  <2>1. e.from = f.from /\ e.group = f.group /\ e.to = f.to /\ e.slot = f.slot
    BY <1>6 DEF Edge
  <2> QED
    BY <1>2, <2>1 DEF EdgesOnce
<1>7. ASSUME NEW e \in F.edges, NEW t \in Taken(F, e)
      PROVE  <<e.from, e.group, t[1]>> \in AllColumns(F)
  <2> DEFINE k == <<e.from, e.group, t[1]>>
             x == <<k, t[2]>>
  <2>1. x \in Arrivals(F, e.to, e.slot)
    <3>1. x = <<<<e.from, e.group, t[1]>>, t[2]>>
      OBVIOUS
    <3> HIDE DEF F, x
    <3> QED
      BY <1>2, <3>1, ArrivalsAre
  <2>2. x[1] = k
    OBVIOUS
  <2> HIDE DEF x, k
  <2>3. x[1] \in AllColumns(F)
    BY <1>4, <2>1, FusedSources
  <2> QED
    BY <2>2, <2>3 DEF k
<1>8. ASSUME NEW e \in F.edges, Passes(F, e.from) \/ (Passes(F, e.to) /\ e.slot = In)
      PROVE  Taken(F, e) # {}
  BY <1>3, <1>4, <1>8, FusedTakes
<1>9. ASSUME NEW o \in Ops(F), Passes(F, o) PROVE PassesColumns(F, o)
  <2>1. o \in Ops(d) /\ Passes(d, o)
    BY <1>2, <1>3, <1>9
  <2>2. CASE o \in R
    <3>1. PICK n \in 1 .. Len(order) : order[n] = o
      BY <2>2, ChainedSays
    <3> QED
      BY <3>1, WidePasses
  <2>3. CASE o \notin R
    <3>1. PassesColumns(d, o)
      BY <1>1, <2>1, PassedColumns
    <3> QED
      BY <2>1, <2>3, <3>1, OutsidePasses
  <2> QED
    BY <2>2, <2>3
<1> HIDE DEF F
<1>10. ColumnsOK(F)
  BY <1>5, <1>6, <1>7, <1>8, <1>9 DEF ColumnsOK
<1> QED
  BY <1>10 DEF F

-----------------------------------------------------------------------------
(* The values of the fused dataflow: those of the dataflow before. *)

FormerOf(d, a, order, c) ==
  CHOOSE j \in WideKeys(d, a, order, Len(order)) : WideName(d, a, order)[j] = c
FusedValues(d, a, R, order, V) ==
  [k \in AllColumns(Fused(d, a, R, order)) |->
     IF k[1] \in R THEN V[FormerOf(d, a, order, k[3])] ELSE V[k]]

LEMMA FusedValueOutside ==
  ASSUME NEW d, FlowOK(d), NEW a, NEW R, NEW order, Lists(order, R), NEW V,
         NEW k \in AllColumns(d), k[1] \notin R
  PROVE  FusedValues(d, a, R, order, V)[k] = V[k]
<1>1. k \in AllColumns(Fused(d, a, R, order))
  BY OutsideColumns
<1> QED
  BY <1>1 DEF FusedValues

LEMMA FusedValueInside ==
  ASSUME NEW d, NEW m, NEW s, NEW a, NEW R, NEW order, NEW place,
         Chained(d, m, s, a, R, order, place), NEW V,
         NEW n \in 1 .. Len(order), NEW j \in WideKeys(d, a, order, n)
  PROVE  FusedValues(d, a, R, order, V)[<<order[n], "out", WideName(d, a, order)[j]>>] = V[j]
<1> DEFINE F    == Fused(d, a, R, order)
           name == WideName(d, a, order)
           made == WideKeys(d, a, order, Len(order))
           k    == <<order[n], "out", name[j]>>
<1>1. k[1] = order[n] /\ k[3] = name[j] /\ k = <<order[n], "out", WideName(d, a, order)[j]>>
  OBVIOUS
<1> HIDE DEF k
<1>2. k \in AllColumns(F) /\ k[1] \in R
  BY <1>1, WideColumnsAre, ChainedSays
<1>3. j \in made
  <2>1. n \in 0 .. Len(order)
    BY ChainedSays
  <2>2. WideKeys(d, a, order, n) \subseteq made
    BY <2>1, WideKeysWithin
  <2> QED
    BY <2>2
<1>4. \A i \in made : name[i] = name[j] => i = j
  BY <1>3, WideNames
<1>5. FormerOf(d, a, order, name[j]) = j
  <2> HIDE DEF name, made
  <2>1. (CHOOSE i \in made : name[i] = name[j]) = j
    BY <1>3, <1>4
  <2> QED
    BY <2>1 DEF FormerOf, name, made
<1>6. FusedValues(d, a, R, order, V)[k] = V[j]
  BY <1>1, <1>2, <1>5 DEF FusedValues
<1> QED
  BY <1>6 DEF k

\* What arrives at an operation outside of the region has the value it had.
LEMMA ArrivedValue ==
  ASSUME NEW d, NEW m, NEW s, NEW a, NEW R, NEW order, NEW place,
         Chained(d, m, s, a, R, order, place), NEW V, Solves(d, V),
         NEW o, o \notin R, NEW t, NEW k \in AllColumns(d)
  PROVE  FusedValues(d, a, R, order, V)[IF Leaves(d, a, R, o, t, k) THEN AtEnd(d, a, order, k) ELSE k]
           = V[k]
<1>1. FlowOK(d) /\ Lists(order, R) /\ Len(order) \in 1 .. Len(order) /\ Last(order) = order[Len(order)]
  BY ChainedSays DEF Chained, Fusion
<1>2. CASE ~ Leaves(d, a, R, o, t, k)
  <2>1. k[1] \notin R
    BY <1>2 DEF Leaves
  <2> QED
    BY <1>1, <1>2, <2>1, FusedValueOutside
<1>3. CASE Leaves(d, a, R, o, t, k)
  <2>1. k \in InWide(d, a, R)
    BY <1>3 DEF Leaves, InWide
  <2>2. PICK r \in WideKeys(d, a, order, Len(order)) :
          WideName(d, a, order)[r] = WideName(d, a, order)[k] /\ V[r] = V[k]
    BY <2>1, WideRoots
  <2>3. FusedValues(d, a, R, order, V)[<<order[Len(order)], "out", WideName(d, a, order)[r]>>] = V[r]
    BY <1>1, FusedValueInside
  <2>4. AtEnd(d, a, order, k) = <<order[Len(order)], "out", WideName(d, a, order)[r]>>
    BY <1>1, <2>2 DEF AtEnd
  <2> QED
    BY <1>3, <2>2, <2>3, <2>4
<1> QED
  BY <1>2, <1>3

LEMMA OutsideSource ==
  ASSUME NEW d, NEW m, NEW s, NEW a, NEW R, NEW order, NEW place,
         Chained(d, m, s, a, R, order, place), NEW V, Solves(d, V),
         NEW o \in Ops(d), o \notin R, Passes(d, o), NEW t \in {In, Lookup}, NEW c \in Ports(d, o, t)
  PROVE  FusedValues(d, a, R, order, V)[SourceOf(Fused(d, a, R, order), o, t, c)]
           = V[SourceOf(d, o, t, c)]
<1> DEFINE F == Fused(d, a, R, order)
           k == SourceOf(d, o, t, c)
           j == IF Leaves(d, a, R, o, t, k) THEN AtEnd(d, a, order, k) ELSE k
           x == <<j, c>>
<1>1. FlowOK(d) /\ ColumnsOK(d)
  BY ChainedSays
<1>2. <<k, c>> \in Arrivals(d, o, t) /\ k \in AllColumns(d)
  BY <1>1, SourceExists
<1>3. x \in Arrivals(F, o, t)
  <2> DEFINE y == <<k, c>>
  <2>1. y \in Arrivals(d, o, t) /\ y[1] = k /\ y[2] = c
    BY <1>2
  <2> HIDE DEF y, k
  <2>2. x = <<IF Leaves(d, a, R, o, t, y[1]) THEN AtEnd(d, a, order, y[1]) ELSE y[1], y[2]>>
    BY <2>1
  <2> HIDE DEF x
  <2> QED
    BY <2>1, <2>2, OutsideArrivals
<1>4. PassesColumns(F, o)
  <2>1. PassesColumns(d, o)
    BY <1>1, PassedColumns
  <2> QED
    BY <2>1, OutsidePasses
<1>5. x[1] = j /\ x[2] = c
  OBVIOUS
<1> HIDE DEF x, j, F
<1>6. SourceOf(F, o, t, x[2]) = x[1]
  BY <1>3, <1>4, SourceIs
<1>7. FusedValues(d, a, R, order, V)[j] = V[k]
  <2> HIDE DEF k
  <2> QED
    BY <1>2, ArrivedValue DEF j
<1> QED
  BY <1>5, <1>6, <1>7 DEF F

\* The operations of the region read the values they read.
LEMMA WideSource ==
  ASSUME NEW d, NEW m, NEW s, NEW a, NEW R, NEW order, NEW place,
         Chained(d, m, s, a, R, order, place), NEW V,
         NEW n \in 1 .. Len(order), NEW k \in WideKeys(d, a, order, n - 1)
  PROVE  FusedValues(d, a, R, order, V)
           [SourceOf(Fused(d, a, R, order), order[n], In, WideName(d, a, order)[k])] = V[k]
<1> DEFINE F    == Fused(d, a, R, order)
           name == WideName(d, a, order)
           j    == IF n = 1 THEN k ELSE <<order[n - 1], "out", name[k]>>
           x    == <<j, name[k]>>
           W    == FusedValues(d, a, R, order, V)
<1>1. x \in Arrivals(F, order[n], In)
  <2>1. x = <<IF n = 1 THEN k ELSE <<order[n - 1], "out", WideName(d, a, order)[k]>>,
              WideName(d, a, order)[k]>>
    OBVIOUS
  <2> HIDE DEF x
  <2> QED
    BY <2>1, ChainArrivals
<1>2. x[1] = j /\ x[2] = name[k]
  OBVIOUS
<1>3. PassesColumns(F, order[n])
  BY WidePasses
<1>4. W[j] = V[k]
  <2>1. CASE n = 1
    <3>1. 0 \in 0 .. Len(order) /\ k \in WideKeys(d, a, order, 0)
      BY <2>1, ChainedSays
    <3>2. k \in InWide(d, a, R) /\ <<k[1], k[2]>> = a
      BY <3>1, WideKeysAre
    <3>3. k \in AllColumns(d) /\ k[1] \notin R
      <4>1. k[1] = a[1]
        BY <3>2
      <4> QED
        BY <3>2, <4>1, ChainedSays DEF InWide
    <3>4. W[k] = V[k]
      BY <3>3, ChainedSays, FusedValueOutside DEF Chained, Fusion
    <3> QED
      BY <2>1, <3>4
  <2>2. CASE n # 1
    <3> DEFINE i == n - 1
    <3>1. i \in 1 .. Len(order)
      BY <2>2, ChainedSays
    <3> HIDE DEF i
    <3>2. k \in WideKeys(d, a, order, i)
      BY DEF i
    <3>3. j = <<order[i], "out", name[k]>>
      BY <2>2 DEF i
    <3>4. W[<<order[i], "out", name[k]>>] = V[k]
      BY <3>1, <3>2, FusedValueInside
    <3> HIDE DEF j
    <3> QED
      BY <3>3, <3>4
  <2> QED
    BY <2>1, <2>2
<1> HIDE DEF x, j, F, name, W
<1>5. SourceOf(F, order[n], In, x[2]) = x[1]
  BY <1>1, <1>3, SourceIs
<1>6. W[SourceOf(F, order[n], In, name[k])] = V[k]
  BY <1>2, <1>4, <1>5
<1> QED
  BY <1>6 DEF W, F, name

LEMMA SideSource ==
  ASSUME NEW d, NEW m, NEW s, NEW a, NEW R, NEW order, NEW place,
         Chained(d, m, s, a, R, order, place), NEW V,
         NEW r \in R, NEW c \in Ports(d, r, Lookup)
  PROVE  FusedValues(d, a, R, order, V)[SourceOf(Fused(d, a, R, order), r, Lookup, c)]
           = V[SourceOf(d, r, Lookup, c)]
<1> DEFINE F == Fused(d, a, R, order)
           k == SourceOf(d, r, Lookup, c)
<1>1. FlowOK(d) /\ ColumnsOK(d) /\ Lookup # In /\ Passes(d, r)
  BY ChainedSays DEF Lookup, In
<1>2. Arrivals(F, r, Lookup) = Arrivals(d, r, Lookup)
  BY <1>1, SideArrivals
<1>3. SourceOf(F, r, Lookup, c) = k
  <2> HIDE DEF F
  <2> QED
    BY <1>2 DEF SourceOf
<1>4. <<k, c>> \in Arrivals(d, r, Lookup) /\ k \in AllColumns(d)
  BY <1>1, SourceExists
<1>5. PICK e \in d.edges : /\ e.to = r /\ e.slot = Lookup
                           /\ \E t \in Taken(d, e) : <<k, c>> = <<<<e.from, e.group, t[1]>>, t[2]>>
  BY <1>1, <1>4, EdgesAreOnce, ArrivalsAre
<1>6. k[1] = e.from
  BY <1>5
<1>7. RowPreserving(d.op[e.to])
  BY <1>1, <1>5 DEF Passes
<1>8. k[1] \notin R
  BY <1>1, <1>5, <1>6, <1>7 DEF Chained, Fusion, Fusable
<1> HIDE DEF F, k
<1>9. FusedValues(d, a, R, order, V)[k] = V[k]
  BY <1>1, <1>4, <1>8, FusedValueOutside DEF Chained, Fusion
<1> QED
  BY <1>3, <1>9 DEF F, k

\* Operations read the values they read, in the region under the new names.
LEMMA OutsideReads ==
  ASSUME NEW d, NEW m, NEW s, NEW a, NEW R, NEW order, NEW place,
         Chained(d, m, s, a, R, order, place), NEW V, Solves(d, V),
         NEW o \in Ops(d), o \notin R, Passes(d, o),
         NEW c \in Ports(d, o, In) \cup Ports(d, o, Lookup)
  PROVE  ValueRead(Fused(d, a, R, order), FusedValues(d, a, R, order, V), o, c) = ValueRead(d, V, o, c)
<1> DEFINE F == Fused(d, a, R, order)
           W == FusedValues(d, a, R, order, V)
           t == IF c \in Ports(d, o, In) THEN In ELSE Lookup
<1>1. c \in Ports(F, o, In) <=> c \in Ports(d, o, In)
  BY OutsidePorts
<1>2. t \in {In, Lookup} /\ c \in Ports(d, o, t)
  OBVIOUS
<1>3. ValueRead(F, W, o, c) = W[SourceOf(F, o, t, c)]
  <2> HIDE DEF F, W
  <2> QED
    BY <1>1 DEF ValueRead
<1>4. ValueRead(d, V, o, c) = V[SourceOf(d, o, t, c)]
  BY DEF ValueRead
<1> HIDE DEF t
<1>5. W[SourceOf(F, o, t, c)] = V[SourceOf(d, o, t, c)]
  BY <1>2, OutsideSource
<1> QED
  BY <1>3, <1>4, <1>5

\* The name under which the operation at place n reads what it read as c.
NewName(d, a, order, o, c) ==
  IF c \in Ports(d, o, In) THEN WideName(d, a, order)[SourceOf(d, o, In, c)] ELSE c

LEMMA WideReads ==
  ASSUME NEW d, NEW m, NEW s, NEW a, NEW R, NEW order, NEW place,
         Chained(d, m, s, a, R, order, place), NEW V, Solves(d, V),
         NEW n \in 1 .. Len(order),
         NEW c \in Ports(d, order[n], In) \cup Ports(d, order[n], Lookup)
  PROVE  ValueRead(Fused(d, a, R, order), FusedValues(d, a, R, order, V), order[n],
                   NewName(d, a, order, order[n], c)) = ValueRead(d, V, order[n], c)
<1> DEFINE F    == Fused(d, a, R, order)
           W    == FusedValues(d, a, R, order, V)
           o    == order[n]
           name == WideName(d, a, order)
           b    == NewName(d, a, order, o, c)
<1>1. o \in R /\ FlowOK(d) /\ ColumnsOK(d) /\ Passes(d, o) /\ Lookup # In
  BY ChainedSays DEF Lookup, In
<1>2. \A p : p \in Ports(F, o, In) <=> \E k \in WideKeys(d, a, order, n - 1) : p = name[k]
  BY WidePorts
<1>3. CASE c \in Ports(d, o, In)
  <2> DEFINE k == SourceOf(d, o, In, c)
  <2>1. k \in InWide(d, a, R) /\ place[k[1]] < place[o]
    BY <1>1, <1>3, RegionSource
  <2>2. PICK r \in WideKeys(d, a, order, n - 1) : name[r] = name[k] /\ V[r] = V[k]
    BY <2>1, RootBefore
  <2>3. b = name[r]
    BY <1>3, <2>2 DEF NewName
  <2>4. W[SourceOf(F, o, In, name[r])] = V[r]
    BY WideSource
  <2>5. b \in Ports(F, o, In)
    BY <1>2, <2>3
  <2>6. ValueRead(d, V, o, c) = V[k]
    BY <1>3 DEF ValueRead
  <2> HIDE DEF F, W, o, name, b, k
  <2>7. ValueRead(F, W, o, b) = ValueRead(d, V, o, c)
    BY <2>2, <2>3, <2>4, <2>5, <2>6 DEF ValueRead
  <2> QED
    BY <2>7 DEF F, W, o, b
<1>4. CASE c \notin Ports(d, o, In)
  <2>1. c \in Ports(d, o, Lookup) /\ b = c
    BY <1>4 DEF NewName
  <2>2. c \notin Ports(F, o, In)
    <3>1. Len(c) = 1
      BY <1>1, <2>1, PassedColumns DEF PassesColumns
    <3>2. \A k \in WideKeys(d, a, order, n - 1) : Len(name[k]) > 1
      <4> DEFINE i == n - 1
      <4>1. i \in 0 .. Len(order)
        BY ChainedSays
      <4> HIDE DEF i
      <4>2. WideKeys(d, a, order, i) \subseteq WideKeys(d, a, order, Len(order))
        BY <4>1, WideKeysWithin
      <4>3. \A k \in WideKeys(d, a, order, Len(order)) : Len(name[k]) > 1
        BY WideNames
      <4> QED
        BY <4>2, <4>3 DEF i
    <3>3. ASSUME c \in Ports(F, o, In) PROVE FALSE
      <4>1. PICK k \in WideKeys(d, a, order, n - 1) : c = name[k]
        BY <1>2, <3>3
      <4>2. Len(c) > 1
        BY <3>2, <4>1
      <4> HIDE DEF F, W, name, o, b
      <4> QED
        BY <3>1, <4>2
    <3> QED
      BY <3>3
  <2>3. W[SourceOf(F, o, Lookup, c)] = V[SourceOf(d, o, Lookup, c)]
    BY <1>1, <2>1, SideSource
  <2> HIDE DEF F, W, b
  <2>4. ValueRead(F, W, o, b) = ValueRead(d, V, o, c)
    BY <1>4, <2>1, <2>2, <2>3 DEF ValueRead
  <2> QED
    BY <2>4 DEF F, W, b
<1> QED
  BY <1>3, <1>4

LEMMA WideReadsAll ==
  ASSUME NEW d, NEW m, NEW s, NEW a, NEW R, NEW order, NEW place,
         Chained(d, m, s, a, R, order, place), NEW V, Solves(d, V),
         NEW n \in 1 .. Len(order),
         NEW refs \in Seq(Ports(d, order[n], In) \cup Ports(d, order[n], Lookup))
  PROVE  ValuesRead(Fused(d, a, R, order), FusedValues(d, a, R, order, V), order[n],
                    Renamed(d, WideName(d, a, order), order[n], refs)) = ValuesRead(d, V, order[n], refs)
<1> DEFINE F   == Fused(d, a, R, order)
           W   == FusedValues(d, a, R, order, V)
           o   == order[n]
           new == Renamed(d, WideName(d, a, order), o, refs)
<1>1. new = [i \in 1 .. Len(refs) |-> NewName(d, a, order, o, refs[i])]
  BY DEF Renamed, NewName
<1>2. Len(refs) \in Nat /\ \A i \in 1 .. Len(refs) : refs[i] \in Ports(d, o, In) \cup Ports(d, o, Lookup)
  OBVIOUS
<1>3. \A i \in 1 .. Len(refs) : ValueRead(F, W, o, NewName(d, a, order, o, refs[i])) = ValueRead(d, V, o, refs[i])
  BY <1>2, WideReads
<1> HIDE DEF F, W, o, new
<1>4. Len(new) = Len(refs) /\ \A i \in 1 .. Len(refs) : new[i] = NewName(d, a, order, o, refs[i])
  <2>1. \A i \in 1 .. Len(refs) : new[i] = NewName(d, a, order, o, refs[i])
    BY <1>1
  <2>2. Len(new) = Len(refs)
    BY <1>1, <1>2
  <2> QED
    BY <2>1, <2>2
<1>5. ValuesRead(F, W, o, new) = ValuesRead(d, V, o, refs)
  BY <1>3, <1>4 DEF ValuesRead
<1> QED
  BY <1>5 DEF F, W, o, new

LEMMA OutsideReadsAll ==
  ASSUME NEW d, NEW m, NEW s, NEW a, NEW R, NEW order, NEW place,
         Chained(d, m, s, a, R, order, place), NEW V, Solves(d, V),
         NEW o \in Ops(d), o \notin R, Passes(d, o),
         NEW refs \in Seq(Ports(d, o, In) \cup Ports(d, o, Lookup))
  PROVE  ValuesRead(Fused(d, a, R, order), FusedValues(d, a, R, order, V), o, refs)
           = ValuesRead(d, V, o, refs)
<1>1. \A i \in 1 .. Len(refs) : refs[i] \in Ports(d, o, In) \cup Ports(d, o, Lookup)
  OBVIOUS
<1>2. \A i \in 1 .. Len(refs) :
        ValueRead(Fused(d, a, R, order), FusedValues(d, a, R, order, V), o, refs[i])
          = ValueRead(d, V, o, refs[i])
  BY <1>1, OutsideReads
<1> QED
  BY <1>2 DEF ValuesRead

\* What the equation of a column makes of some values, casts apart.
ValueOf(d, V, k) == ValueIn(d, FALSE, V, k)

\* The equation of a column outside of the region holds of the same values.
LEMMA OutsideSolves ==
  ASSUME NEW d, NEW m, NEW s, NEW a, NEW R, NEW order, NEW place,
         Chained(d, m, s, a, R, order, place), NEW V, Solves(d, V),
         NEW k \in AllColumns(d), k[1] \notin R
  PROVE  ValueOf(Fused(d, a, R, order), FusedValues(d, a, R, order, V), k) = V[k]
<1> DEFINE F  == Fused(d, a, R, order)
           W  == FusedValues(d, a, R, order, V)
           o  == k[1]
           op == d.op[o]
<1>1. FlowOK(d) /\ ColumnsOK(d) /\ Fusion(d, m, s, a, R, order) /\ o \in Ops(d)
  BY ChainedSays, AllColumnsAre DEF Chained
<1>2. V[k] = ValueIn(d, FALSE, V, k)
  BY DEF Solves
<1>3. F.op[o] = op /\ OutputColumns(F, o, k[2]) = OutputColumns(d, o, k[2])
  BY <1>1, FusedOutside, FusedOutput
<1>4. Passes(F, o) <=> Passes(d, o)
  BY <1>1, FusedPasses
<1>5. ASSUME Passes(d, o)
      PROVE  /\ \A refs \in Seq(Ports(d, o, In) \cup Ports(d, o, Lookup)) :
                  ValuesRead(F, W, o, refs) = ValuesRead(d, V, o, refs)
             /\ \A c \in Ports(d, o, In) \cup Ports(d, o, Lookup) :
                  ValueRead(F, W, o, c) = ValueRead(d, V, o, c)
             /\ \A c \in Ports(d, o, Lookup) : W[SourceOf(F, o, Lookup, c)] = V[SourceOf(d, o, Lookup, c)]
             /\ PassesColumns(d, o) /\ k[3] \in Declared(op)
  <2>1. \A refs \in Seq(Ports(d, o, In) \cup Ports(d, o, Lookup)) :
          ValuesRead(F, W, o, refs) = ValuesRead(d, V, o, refs)
    BY <1>1, <1>5, OutsideReadsAll
  <2>2. \A c \in Ports(d, o, In) \cup Ports(d, o, Lookup) :
          ValueRead(F, W, o, c) = ValueRead(d, V, o, c)
    BY <1>1, <1>5, OutsideReads
  <2>3. \A c \in Ports(d, o, Lookup) : W[SourceOf(F, o, Lookup, c)] = V[SourceOf(d, o, Lookup, c)]
    BY <1>1, <1>5, OutsideSource
  <2>4. PassesColumns(d, o) /\ k[3] \in Declared(op)
    BY <1>1, <1>5, PassedColumns
  <2> QED
    BY <2>1, <2>2, <2>3, <2>4
<1> HIDE DEF ValueOf, F, W
<1>6. CASE ~ Passes(d, o)
  BY <1>2, <1>3, <1>4, <1>6 DEF ValueOf, ValueIn, F, W
<1>7. CASE Passes(d, o) /\ k[3] \in DOMAIN op.assigns
  <2>1. op.assigns[k[3]].refs \in Seq(Ports(d, o, In) \cup Ports(d, o, Lookup))
    BY <1>5, <1>7 DEF PassesColumns
  <2>2. ValuesRead(F, W, o, op.assigns[k[3]].refs) = ValuesRead(d, V, o, op.assigns[k[3]].refs)
    BY <1>5, <1>7, <2>1
  <2>3. ValueIn(F, FALSE, W, k) = ValueIn(d, FALSE, V, k)
    BY <1>3, <1>4, <1>7, <2>2 DEF ValueIn
  <2> QED
    BY <1>2, <2>3 DEF ValueOf, F, W
<1>8. CASE Passes(d, o) /\ k[3] \notin DOMAIN op.assigns /\ k[3] \in DOMAIN op.returns
  <2>1. op.cond \in Seq(Ports(d, o, In) \cup Ports(d, o, Lookup)) /\ op.returns[k[3]] \in Ports(d, o, Lookup)
    BY <1>5, <1>8 DEF PassesColumns
  <2>2. ValuesRead(F, W, o, op.cond) = ValuesRead(d, V, o, op.cond)
    BY <1>5, <1>8, <2>1
  <2>3. W[SourceOf(F, o, Lookup, op.returns[k[3]])] = V[SourceOf(d, o, Lookup, op.returns[k[3]])]
    BY <1>5, <1>8, <2>1
  <2>4. ValueIn(F, FALSE, W, k) = ValueIn(d, FALSE, V, k)
    BY <1>3, <1>4, <1>8, <2>2, <2>3 DEF ValueIn
  <2> QED
    BY <1>2, <2>4 DEF ValueOf, F, W
<1>9. CASE Passes(d, o) /\ k[3] \notin NewColumns(op)
  <2>1. k[3] \in Ports(d, o, In)
    BY <1>5, <1>9 DEF PassesColumns
  <2>2. ValueRead(F, W, o, k[3]) = ValueRead(d, V, o, k[3])
    BY <1>5, <1>9, <2>1
  <2>3. ValueIn(F, FALSE, W, k) = ValueIn(d, FALSE, V, k)
    BY <1>3, <1>4, <1>9, <2>2 DEF ValueIn, NewColumns
  <2> QED
    BY <1>2, <2>3 DEF ValueOf, F, W
<1> QED
  BY <1>6, <1>7, <1>8, <1>9 DEF NewColumns

\* The equation of a column of the widened row holds of the value it came from.
LEMMA WideSolves ==
  ASSUME NEW d, NEW m, NEW s, NEW a, NEW R, NEW order, NEW place,
         Chained(d, m, s, a, R, order, place), NEW V, Solves(d, V),
         NEW n \in 1 .. Len(order), NEW j \in WideKeys(d, a, order, n)
  PROVE  ValueOf(Fused(d, a, R, order), FusedValues(d, a, R, order, V),
                 <<order[n], "out", WideName(d, a, order)[j]>>) = V[j]
<1> DEFINE F    == Fused(d, a, R, order)
           W    == FusedValues(d, a, R, order, V)
           name == WideName(d, a, order)
           o    == order[n]
           op   == d.op[o]
           w    == F.op[o]
           wide(b) == name[<<o, "out", b>>]
           k    == <<o, "out", name[j]>>
<1>1. /\ o \in R /\ o \in Ops(d) /\ FlowOK(d) /\ ColumnsOK(d) /\ Passes(d, o)
      /\ n \in Nat \ {0} /\ n \in 0 .. Len(order) /\ Fusion(d, m, s, a, R, order)
  BY ChainedSays DEF Chained
<1>2. PassesColumns(d, o) /\ Passes(F, o)
  BY <1>1, PassedColumns, FusedPasses
<1>3. RewrittenAs(d, a, order, name, n, w)
  BY FusedOp
<1>4. /\ \A i \in WideKeys(d, a, order, n) : i \in WideKeys(d, a, order, Len(order))
      /\ \A i \in WideKeys(d, a, order, n) :
           WideRow(d, a, order, name, n)[name[i]] = OutputColumns(d, i[1], i[2])[i[3]]
  <2>1. WideKeys(d, a, order, n) \subseteq WideKeys(d, a, order, Len(order))
    BY <1>1, WideKeysWithin
  <2>2. \A i \in WideKeys(d, a, order, n) :
          WideRow(d, a, order, name, n)[name[i]] = OutputColumns(d, i[1], i[2])[i[3]]
    BY <1>1, WideTypes
  <2> QED
    BY <2>1, <2>2
<1>5. \A i \in WideKeys(d, a, order, n) : name[i] = name[j] => i = j
  <2>1. \A i, h \in WideKeys(d, a, order, Len(order)) : name[i] = name[h] => i = h
    BY WideNames
  <2> HIDE DEF name
  <2> QED
    BY <1>4, <2>1
<1>6. OutputColumns(F, o, "out")[name[j]] = OutputColumns(d, j[1], j[2])[j[3]]
  <2>1. OutputColumns(F, o, "out") = WideRow(d, a, order, name, n)
    BY WideOutput
  <2> QED
    BY <1>4, <2>1
<1>7. \A i : i \in WideKeys(d, a, order, n) <=>
               \/ i \in WideKeys(d, a, order, n - 1)
               \/ \E b \in NewColumns(op) : i = <<o, "out", b>>
  BY <1>1, WideGrows
<1>8. k[1] = o /\ k[2] = "out" /\ k[3] = name[j]
  OBVIOUS
<1>9. \A refs \in Seq(Ports(d, o, In) \cup Ports(d, o, Lookup)) :
        ValuesRead(F, W, o, Renamed(d, name, o, refs)) = ValuesRead(d, V, o, refs)
  BY WideReadsAll
<1>10. \A c \in Ports(d, o, Lookup) : W[SourceOf(F, o, Lookup, c)] = V[SourceOf(d, o, Lookup, c)]
  BY <1>1, SideSource
<1> HIDE DEF k
<1>11. CASE j \in WideKeys(d, a, order, n - 1)
  <2>1. j[1] # o
    <3> DEFINE i == n - 1
    <3>1. i \in 0 .. Len(order) /\ \A h \in 1 .. i : h \in 1 .. Len(order) /\ h # n
      BY <1>1
    <3> HIDE DEF i
    <3>2. j \in WideKeys(d, a, order, i)
      BY <1>11 DEF i
    <3>3. <<j[1], j[2]>> = a \/ \E h \in 1 .. i : j[1] = order[h]
      BY <3>1, <3>2, WideKeysAre
    <3>4. CASE <<j[1], j[2]>> = a
      <4>1. j[1] = a[1]
        BY <3>4
      <4> QED
        BY <1>1, <4>1, ChainedSays
    <3>5. CASE \E h \in 1 .. i : j[1] = order[h]
      BY <3>1, <3>5, ChainedSays
    <3> QED
      BY <3>3, <3>4, <3>5
  <2>2. \A b \in NewColumns(op) : wide(b) # name[j]
    <3> SUFFICES ASSUME NEW b \in NewColumns(op), wide(b) = name[j] PROVE FALSE
      OBVIOUS
    <3> DEFINE i == <<o, "out", b>>
    <3>1. i[1] = o /\ i \in WideKeys(d, a, order, n)
      BY <1>7
    <3>2. i = j
      <4>1. name[i] = name[j]
        OBVIOUS
      <4> HIDE DEF i, name
      <4> QED
        BY <1>5, <3>1, <4>1
    <3> HIDE DEF i
    <3> QED
      BY <2>1, <3>1, <3>2
  <2>3. W[SourceOf(F, o, In, name[j])] = V[j]
    BY <1>11, WideSource
  <2>4. name[j] \in Ports(F, o, In)
    BY <1>11, WidePorts
  <2> HIDE DEF F, W, name, o, op, w
  <2>5. k[3] \notin DOMAIN w.assigns /\ k[3] \notin DOMAIN w.returns
    <3>1. /\ DOMAIN w.assigns = {wide(b) : b \in DOMAIN op.assigns}
          /\ DOMAIN w.returns = {wide(b) : b \in DOMAIN op.returns}
      BY <1>3 DEF RewrittenAs, o, op
    <3> HIDE DEF wide
    <3> QED
      BY <1>8, <2>2, <3>1 DEF NewColumns
  <2>6. ValueIn(F, FALSE, W, k) = V[j]
    BY <1>2, <1>8, <2>3, <2>4, <2>5 DEF ValueIn, ValueRead, w
  <2> QED
    BY <2>6 DEF ValueOf, F, W, k, o, name
<1>12. CASE \E b \in NewColumns(op) : j = <<o, "out", b>>
  <2>1. PICK b \in NewColumns(op) : j = <<o, "out", b>>
    BY <1>12
  <2>2. j[1] = o /\ j[2] = "out" /\ j[3] = b /\ name[j] = wide(b)
    BY <2>1
  <2>3. V[j] = ValueIn(d, FALSE, V, j)
    <3>1. j \in InWide(d, a, R)
      BY <1>1, WideKeysAre
    <3> QED
      BY <3>1 DEF InWide, Solves
  <2>4. \A c \in NewColumns(op) : wide(c) = wide(b) => c = b
    <3> SUFFICES ASSUME NEW c \in NewColumns(op), wide(c) = wide(b) PROVE c = b
      OBVIOUS
    <3> DEFINE i == <<o, "out", c>>
    <3>1. i[3] = c /\ i \in WideKeys(d, a, order, n)
      BY <1>7
    <3>2. name[i] = name[j]
      BY <2>2
    <3> HIDE DEF i, name
    <3>3. i = j
      BY <1>5, <3>1, <3>2
    <3> QED
      BY <2>2, <3>1, <3>3
  <2>5. k[3] = wide(b)
    BY <1>8, <2>2
  <2> HIDE DEF F, W, name, o, op, w
  <2>6. /\ DOMAIN w.assigns = {wide(c) : c \in DOMAIN op.assigns}
        /\ \A c \in DOMAIN op.assigns :
             /\ w.assigns[wide(c)].id = op.assigns[c].id
             /\ w.assigns[wide(c)].refs = Renamed(d, name, o, op.assigns[c].refs)
        /\ DOMAIN w.returns = {wide(c) : c \in DOMAIN op.returns}
        /\ \A c \in DOMAIN op.returns : w.returns[wide(c)] = op.returns[c]
        /\ w.cond = Renamed(d, name, o, op.cond)
    BY <1>3 DEF RewrittenAs, o, op
  <2>7. OutputColumns(F, k[1], k[2])[k[3]] = OutputColumns(d, j[1], j[2])[j[3]]
    BY <1>6, <1>8
  <2> HIDE DEF wide
  <2>8. /\ k[3] \in DOMAIN w.assigns <=> b \in DOMAIN op.assigns
        /\ k[3] \in DOMAIN w.returns <=> b \in DOMAIN op.returns
    BY <2>4, <2>5, <2>6 DEF NewColumns
  <2>9. CASE b \in DOMAIN op.assigns
    <3>1. op.assigns[b].refs \in Seq(Ports(d, o, In) \cup Ports(d, o, Lookup))
      BY <1>2, <2>9 DEF PassesColumns, op
    <3>2. /\ ValuesRead(F, W, o, w.assigns[k[3]].refs) = ValuesRead(d, V, o, op.assigns[b].refs)
          /\ w.assigns[k[3]].id = op.assigns[b].id
      BY <1>9, <2>5, <2>6, <2>9, <3>1
    <3>3. ValueIn(d, FALSE, V, j) =
            [type |-> OutputColumns(d, j[1], j[2])[j[3]], of |-> op.assigns[b].id,
             args |-> ValuesRead(d, V, o, op.assigns[b].refs)]
      BY <1>1, <2>2, <2>9 DEF ValueIn, op
    <3>4. ValueIn(F, FALSE, W, k) =
            [type |-> OutputColumns(F, k[1], k[2])[k[3]], of |-> w.assigns[k[3]].id,
             args |-> ValuesRead(F, W, o, w.assigns[k[3]].refs)]
      BY <1>2, <1>8, <2>8, <2>9 DEF ValueIn, w
    <3> QED
      BY <2>3, <2>7, <3>2, <3>3, <3>4 DEF ValueOf, F, W, k, o, name
  <2>10. CASE b \notin DOMAIN op.assigns
    <3>1. b \in DOMAIN op.returns
      BY <2>1, <2>10 DEF NewColumns
    <3>2. /\ op.cond \in Seq(Ports(d, o, In) \cup Ports(d, o, Lookup))
          /\ op.returns[b] \in Ports(d, o, Lookup)
      BY <1>2, <3>1 DEF PassesColumns, op
    <3>3. /\ ValuesRead(F, W, o, w.cond) = ValuesRead(d, V, o, op.cond)
          /\ w.returns[k[3]] = op.returns[b]
          /\ W[SourceOf(F, o, Lookup, op.returns[b])] = V[SourceOf(d, o, Lookup, op.returns[b])]
      BY <1>9, <1>10, <2>5, <2>6, <3>1, <3>2
    <3>4. ValueIn(d, FALSE, V, j) =
            [type |-> OutputColumns(d, j[1], j[2])[j[3]], of |-> <<o, "return", op.returns[b]>>,
             args |-> <<V[SourceOf(d, o, Lookup, op.returns[b])]>> \o ValuesRead(d, V, o, op.cond)]
      BY <1>1, <2>2, <2>10, <3>1 DEF ValueIn, op
    <3>5. ValueIn(F, FALSE, W, k) =
            [type |-> OutputColumns(F, k[1], k[2])[k[3]], of |-> <<o, "return", w.returns[k[3]]>>,
             args |-> <<W[SourceOf(F, o, Lookup, w.returns[k[3]])]>> \o ValuesRead(F, W, o, w.cond)]
      BY <1>2, <1>8, <2>8, <2>10, <3>1 DEF ValueIn, w
    <3> QED
      BY <2>3, <2>7, <3>3, <3>4, <3>5 DEF ValueOf, F, W, k, o, name
  <2> QED
    BY <2>9, <2>10
<1> QED
  BY <1>7, <1>11, <1>12

\* The values of the columns, casts apart.
PlainValues(d) == Values(d, FALSE)

LEMMA ValuesFused ==
  ASSUME NEW d, NEW m, NEW s, NEW a, NEW R, NEW order, NEW place,
         Chained(d, m, s, a, R, order, place), NEW V, Solves(d, V),
         Acyclic(Fused(d, a, R, order))
  PROVE  PlainValues(Fused(d, a, R, order)) = FusedValues(d, a, R, order, V)
<1> DEFINE F == Fused(d, a, R, order)
           W == FusedValues(d, a, R, order, V)
<1>1. Fusion(d, m, s, a, R, order) /\ FlowOK(d) /\ Lists(order, R)
  BY DEF Chained, Fusion
<1>2. ASSUME NEW k \in AllColumns(F) PROVE W[k] = ValueOf(F, W, k)
  <2>1. CASE k[1] \notin R
    <3>1. k \in AllColumns(d)
      BY <1>1, <1>2, <2>1, OutsideColumns
    <3>2. W[k] = V[k]
      BY <1>1, <2>1, <3>1, FusedValueOutside
    <3>3. ValueOf(F, W, k) = V[k]
      BY <2>1, <3>1, OutsideSolves
    <3> QED
      BY <3>2, <3>3
  <2>2. CASE k[1] \in R
    <3>1. PICK n \in 1 .. Len(order) : order[n] = k[1]
      BY <2>2, ChainedSays
    <3>2. PICK j \in WideKeys(d, a, order, n) : k = <<order[n], "out", WideName(d, a, order)[j]>>
      BY <1>2, <3>1, WideColumnsAre
    <3>3. W[<<order[n], "out", WideName(d, a, order)[j]>>] = V[j]
      BY FusedValueInside
    <3>4. ValueOf(F, W, <<order[n], "out", WideName(d, a, order)[j]>>) = V[j]
      BY WideSolves
    <3> HIDE DEF F, W
    <3> QED
      BY <3>2, <3>3, <3>4
  <2> QED
    BY <2>1, <2>2
<1>3. W = [k \in AllColumns(F) |-> W[k]]
  BY DEF FusedValues
<1>4. FlowOK(F) /\ ColumnsOK(F)
  BY <1>1, FlowFused, ColumnsFused
<1> HIDE DEF F, W
<1>5. Solves(F, W)
  BY <1>2, <1>3 DEF Solves, ValueOf
<1>6. PlainValues(F) = W
  BY <1>4, <1>5, ValuesIsSolution DEF F, PlainValues
<1> QED
  BY <1>6 DEF F, W

\* An operation that is not rewritten receives what it did, in every slot.
LEMMA MeaningFused ==
  ASSUME NEW d, NEW m, NEW s, NEW a, NEW R, NEW order, NEW place,
         Chained(d, m, s, a, R, order, place), Acyclic(Fused(d, a, R, order)),
         NEW o \in Ops(d), o \notin R, NEW t
  PROVE  Meaning(Fused(d, a, R, order), o, t, PlainValues(Fused(d, a, R, order)))
           = Meaning(d, o, t, PlainValues(d))
<1> DEFINE F == Fused(d, a, R, order)
<1>1. Fusion(d, m, s, a, R, order) /\ FlowOK(d) /\ ColumnsOK(d) /\ Acyclic(d)
  BY ChainedSays DEF Chained
<1>2. PICK N \in Nat : \A p \in Ops(d) : place[p] <= N
  BY DEF Chained
<1>3. PICK V : Solves(d, V)
  BY <1>1, <1>2, ValuesExist DEF Chained
<1> DEFINE W        == FusedValues(d, a, R, order, V)
           moved(k) == IF Leaves(d, a, R, o, t, k) THEN AtEnd(d, a, order, k) ELSE k
<1>4. PlainValues(d) = V /\ PlainValues(F) = W
  <2>1. PlainValues(d) = V
    BY <1>1, <1>3, ValuesIsSolution DEF PlainValues
  <2>2. PlainValues(F) = W
    BY <1>3, ValuesFused
  <2> QED
    BY <2>1, <2>2
<1>5. Boundaries(F, Upstreams(F, o, t)) = Boundaries(d, Upstreams(d, o, t))
  <2>1. Origins(F, o, t) = Origins(d, o, t)
    BY <1>1, FusedOrigins
  <2> HIDE DEF F
  <2> QED
    BY <2>1 DEF Origins
<1>6. \A x : x \in Arrivals(F, o, t) <=> \E y \in Arrivals(d, o, t) : x = <<moved(y[1]), y[2]>>
  BY OutsideArrivals
<1>7. \A y \in Arrivals(d, o, t) : W[moved(y[1])] = V[y[1]]
  <2> SUFFICES ASSUME NEW y \in Arrivals(d, o, t) PROVE W[moved(y[1])] = V[y[1]]
    OBVIOUS
  <2>1. y[1] \in AllColumns(d)
    <3>1. PICK e \in d.edges : /\ e.to = o /\ e.slot = t
                               /\ \E p \in Taken(d, e) : y = <<<<e.from, e.group, p[1]>>, p[2]>>
      BY <1>1, EdgesAreOnce, ArrivalsAre
    <3>2. PICK p \in Taken(d, e) : y = <<<<e.from, e.group, p[1]>>, p[2]>>
      BY <3>1
    <3>3. y[1] = <<e.from, e.group, p[1]>>
      BY <3>2
    <3> QED
      BY <1>1, <3>1, <3>3 DEF ColumnsOK
  <2> QED
    BY <1>3, <2>1, ArrivedValue
<1> HIDE DEF F, W, moved
<1>8. {<<x[2], W[x[1]]>> : x \in Arrivals(F, o, t)} = {<<y[2], V[y[1]]>> : y \in Arrivals(d, o, t)}
  <2>1. ASSUME NEW x \in Arrivals(F, o, t)
        PROVE  <<x[2], W[x[1]]>> \in {<<y[2], V[y[1]]>> : y \in Arrivals(d, o, t)}
    <3>1. PICK y \in Arrivals(d, o, t) : x = <<moved(y[1]), y[2]>>
      BY <1>6
    <3>2. x[1] = moved(y[1]) /\ x[2] = y[2]
      BY <3>1
    <3> QED
      BY <1>7, <3>2
  <2>2. ASSUME NEW y \in Arrivals(d, o, t)
        PROVE  <<y[2], V[y[1]]>> \in {<<x[2], W[x[1]]>> : x \in Arrivals(F, o, t)}
    <3> DEFINE x == <<moved(y[1]), y[2]>>
    <3>1. x \in Arrivals(F, o, t) /\ x[1] = moved(y[1]) /\ x[2] = y[2]
      BY <1>6
    <3> HIDE DEF x
    <3>2. <<y[2], V[y[1]]>> = <<x[2], W[x[1]]>>
      BY <1>7, <3>1
    <3> QED
      BY <3>1, <3>2
  <2> QED
    BY <2>1, <2>2
<1>9. Meaning(F, o, t, W) = Meaning(d, o, t, V)
  BY <1>5, <1>8 DEF Meaning
<1> QED
  BY <1>4, <1>9 DEF F

\* An operation of the region is rewritten into one with longer names.
LEMMA RewrittenWider ==
  ASSUME NEW d, NEW m, NEW s, NEW a, NEW R, NEW order, NEW place,
         Chained(d, m, s, a, R, order, place), NEW r \in R
  PROVE  \E c \in DOMAIN OutputColumns(Fused(d, a, R, order), r, "out") : Len(c) > 1
<1>1. PICK n \in 1 .. Len(order) : order[n] = r
  BY ChainedSays
<1>2. PICK k \in AllColumns(d) : <<k[1], k[2]>> = a
  BY AnchorFeeds
<1>3. n \in 0 .. Len(order)
  BY ChainedSays
<1>4. k \in WideKeys(d, a, order, n)
  <2>1. k \in InWide(d, a, R)
    BY <1>2 DEF InWide
  <2> QED
    BY <1>2, <1>3, <2>1, WideKeysAre
<1>5. Len(WideName(d, a, order)[k]) > 1
  <2>1. k \in WideKeys(d, a, order, Len(order))
    BY <1>3, <1>4, WideKeysWithin
  <2> QED
    BY <2>1, WideNames
<1>6. WideName(d, a, order)[k] \in DOMAIN WideRow(d, a, order, WideName(d, a, order), n)
  BY <1>4 DEF WideRow
<1>7. OutputColumns(Fused(d, a, R, order), r, "out") = WideRow(d, a, order, WideName(d, a, order), n)
  BY <1>1, WideOutput
<1> QED
  BY <1>5, <1>6, <1>7

\* Numbers that grow from each place of an order to the next grow along it.
LEMMA Ascending ==
  ASSUME NEW order, Len(order) \in Nat, NEW f,
         \A i \in 1 .. Len(order) : f[order[i]] \in Nat,
         \A i \in 1 .. Len(order) - 1 : f[order[i]] < f[order[i + 1]]
  PROVE  \A i, j \in 1 .. Len(order) : i < j => f[order[i]] < f[order[j]]
<1> SUFFICES ASSUME NEW i \in 1 .. Len(order)
             PROVE  \A j \in 1 .. Len(order) : i < j => f[order[i]] < f[order[j]]
  OBVIOUS
<1> DEFINE G == {n \in Nat : i < n => f[order[i]] < f[order[n]]}
<1>1. 0 \in G
  OBVIOUS
<1>2. ASSUME NEW n \in 1 .. Len(order), n - 1 \in G PROVE n \in G
  <2> SUFFICES ASSUME i < n PROVE f[order[i]] < f[order[n]]
    OBVIOUS
  <2>1. n - 1 \in 1 .. Len(order) - 1 /\ n - 1 \in 1 .. Len(order)
    OBVIOUS
  <2> DEFINE p == n - 1
  <2>2. f[order[p]] < f[order[p + 1]] /\ p + 1 = n /\ p \in 1 .. Len(order)
    BY <2>1
  <2>3. p = i \/ f[order[i]] < f[order[p]]
    BY <1>2
  <2> HIDE DEF p
  <2>4. f[order[i]] \in Nat /\ f[order[p]] \in Nat /\ f[order[n]] \in Nat
    BY <2>2
  <2> QED
    BY <2>2, <2>3, <2>4
<1>3. \A n \in 0 .. Len(order) : n \in G
  <2> HIDE DEF G
  <2> QED
    BY <1>1, <1>2, UpTo
<1> QED
  BY <1>3

\* A round that fuses does so along an order in which places grow.
LEMMA RoundChained ==
  ASSUME OrderState, FlowOK(df), ColumnsOK(df), Placed = Ops(df), Waiting # {},
         Aligned(df, MergeOp, MergeSlot)
  PROVE  Chained(df, MergeOp, MergeSlot, Anchor, Span, InOrder(Span), [o \in Ops(df) |-> Place(o)])
<1> DEFINE place == [o \in Ops(df) |-> Place(o)]
           order == InOrder(Span)
<1>1. Fusion(df, MergeOp, MergeSlot, Anchor, Span, order)
  BY RoundFuses
<1>2. Numbered(df, place)
  BY OrderNumbers
<1>3. Span \in SUBSET Placed
  BY <1>1 DEF Fusion, Fusable
<1>4. Lists(order, Span) /\ \A i \in 1 .. Len(order) - 1 : Place(order[i]) < Place(order[i + 1])
  BY <1>3, InOrderLists
<1>5. Len(order) \in Nat /\ \A i \in 1 .. Len(order) : order[i] \in Ops(df)
  BY <1>3, <1>4 DEF Lists
<1>6. \A i \in 1 .. Len(order) : place[order[i]] \in Nat
  <2> HIDE DEF place, order
  <2> QED
    BY <1>2, <1>5 DEF Numbered
<1>7. \A i \in 1 .. Len(order) - 1 : place[order[i]] < place[order[i + 1]]
  <2> HIDE DEF order
  <2> TAKE i \in 1 .. Len(order) - 1
  <2>1. order[i] \in Ops(df) /\ order[i + 1] \in Ops(df)
    BY <1>5
  <2> QED
    BY <1>4, <2>1
<1>8. Len(out) \in Nat /\ \A o \in Ops(df) : place[o] <= Len(out)
  <2>1. Len(out) \in Nat
    BY DEF OrderState, OrderStateOK
  <2>2. \A o \in Ops(df) : Place(o) \in 1 .. Len(out)
    BY PlaceOf
  <2> QED
    BY <2>1, <2>2
<1> HIDE DEF place, order
<1>9. \A i, j \in 1 .. Len(order) : i < j => place[order[i]] < place[order[j]]
  BY <1>5, <1>6, <1>7, Ascending
<1>10. Chained(df, MergeOp, MergeSlot, Anchor, Span, order, place)
  BY <1>1, <1>2, <1>8, <1>9 DEF Chained
<1> QED
  BY <1>10 DEF place, order

-----------------------------------------------------------------------------
\* The invariant from which follows that fusion keeps what dataflows mean.
MeaningInv ==
  /\ FusionInv
  /\ start \in Dataflows
  /\ phase # "done" => ColumnsOK(df) /\ SameMeaning(FALSE)

LEMMA MeaningInvInit == Init => MeaningInv
<1> SUFFICES ASSUME Init PROVE MeaningInv
  OBVIOUS
<1>1. start \in Dataflows /\ df = start
  BY DEF Init, OrderInit
<1>2. ColumnsOK(df)
  BY <1>1, ColumnsAssumption
<1>3. SameMeaning(FALSE)
  BY <1>1 DEF SameMeaning
<1> QED
  BY <1>1, <1>2, <1>3, FusionInvInit DEF MeaningInv

LEMMA MeaningKeptSame ==
  ASSUME MeaningInv, phase # "done", UNCHANGED <<df, start>>, FusionInv'
  PROVE  MeaningInv'
<1>1. SameMeaning(FALSE)'
  BY DEF MeaningInv, SameMeaning
<1> QED
  BY <1>1 DEF MeaningInv

LEMMA MeaningFuseOne == MeaningInv /\ FuseOne => MeaningInv'
<1> SUFFICES ASSUME MeaningInv, FuseOne PROVE MeaningInv'
  OBVIOUS
<1> DEFINE place == [o \in Ops(df) |-> Place(o)]
           order == InOrder(Span)
<1>1. /\ phase = "ordered" /\ Waiting # {} /\ Aligned(df, MergeOp, MergeSlot)
      /\ df' = After /\ UNCHANGED <<start, failed>>
  BY DEF FuseOne, After, Ups, Anchor, Span
<1>2. OrderState /\ FlowOK(df) /\ Placed = Ops(df) /\ ColumnsOK(df) /\ Ops(start) = Ops(df)
  BY <1>1, InvSays DEF MeaningInv, FusionInv, TypeOK
<1>3. Chained(df, MergeOp, MergeSlot, Anchor, Span, order, place) /\ Acyclic(After)
  BY <1>1, <1>2, RoundChained, RoundFuses
<1> HIDE DEF place
<1>4. ColumnsOK(After)
  BY <1>3, ColumnsFused DEF After
<1>5. ASSUME NEW o \in Ops(start), After.op[o] = start.op[o], NEW t \in Slots(start, o)
      PROVE  Meaning(After, o, t, PlainValues(After)) = Meaning(start, o, t, PlainValues(start))
  <2>1. o \notin Span
    <3> SUFFICES ASSUME o \in Span PROVE FALSE
      OBVIOUS
    <3>1. PICK c \in DOMAIN OutputColumns(After, o, "out") : Len(c) > 1
      BY <1>3, RewrittenWider DEF After
    <3>2. OutputColumns(After, o, "out") = OutputColumns(start, o, "out")
      BY <1>5 DEF OutputColumns, Groups
    <3> DEFINE k == <<o, "out", c>>
    <3>3. k[3] = c /\ k[1] = o /\ k[2] = "out" /\ k = <<k[1], k[2], k[3]>>
      OBVIOUS
    <3> HIDE DEF k
    <3>4. k \in AllColumns(start)
      BY <3>1, <3>2, <3>3, AllColumnsAre
    <3>5. Len(k[3]) = 1
      BY <3>4, ColumnsAssumption DEF MeaningInv
    <3> QED
      BY <3>1, <3>3, <3>5
  <2>2. o \in Ops(df) /\ After.op[o] = df.op[o]
    BY <1>2, <2>1, FusedOutside DEF After
  <2>3. Meaning(df, o, t, PlainValues(df)) = Meaning(start, o, t, PlainValues(start))
    BY <1>1, <1>5, <2>2 DEF MeaningInv, SameMeaning, PlainValues
  <2>4. Meaning(After, o, t, PlainValues(After)) = Meaning(df, o, t, PlainValues(df))
    BY <1>3, <2>1, <2>2, MeaningFused DEF After
  <2> QED
    BY <2>3, <2>4
<1>6. SameMeaning(FALSE)'
  BY <1>1, <1>5 DEF SameMeaning, PlainValues
<1>7. FusionInv'
  BY FuseOneFuses DEF MeaningInv
<1> QED
  BY <1>1, <1>4, <1>6, <1>7 DEF MeaningInv

LEMMA MeaningInvariant == Spec => []MeaningInv
<1>1. MeaningInv /\ [Next]_fusionVars => MeaningInv'
  <2> SUFFICES ASSUME MeaningInv, [Next]_fusionVars PROVE MeaningInv'
    OBVIOUS
  <2>1. FusionInv'
    BY OrderStepFuses, FuseOneFuses, FailOneFuses, NothingPendingFuses, MarkUnsupportedFuses,
       StutterFuses DEF Next, MeaningInv
  <2>2. CASE OrderNext /\ UNCHANGED <<start, failed>>
    <3>1. phase = "ordering" /\ df' = df
      BY <2>2 DEF OrderNext, NextReady, EndOrder
    <3> QED
      BY <2>1, <2>2, <3>1, MeaningKeptSame
  <2>3. CASE FuseOne
    BY <2>3, MeaningFuseOne
  <2>4. CASE FailOne
    BY <2>1, <2>4, MeaningKeptSame DEF FailOne
  <2>5. CASE NothingPending
    BY <2>1, <2>5, MeaningKeptSame DEF NothingPending
  <2>6. CASE MarkUnsupported
    BY <2>1, <2>6 DEF MarkUnsupported, MeaningInv
  <2>7. CASE UNCHANGED fusionVars
    <3>1. UNCHANGED <<df, phase, start>>
      BY <2>7 DEF fusionVars, orderVars
    <3>2. CASE phase = "done"
      BY <2>1, <3>1, <3>2 DEF MeaningInv
    <3>3. CASE phase # "done"
      BY <2>1, <3>1, <3>3, MeaningKeptSame
    <3> QED
      BY <3>2, <3>3
  <2> QED
    BY <2>2, <2>3, <2>4, <2>5, <2>6, <2>7 DEF Next
<1> QED
  BY <1>1, MeaningInvInit, PTL DEF Spec

\* Whatever is fused and in whatever order, an operation that is not rewritten receives in
\* each slot rows of the same origin with the same columns, computed by the same expressions
\* from the same columns: what the wide names, rename_columns and the rerouting of
\* _fuse_one are for.
THEOREM MeaningCorrect == Spec => []MergesKeepMeaning
<1>1. MeaningInv => MergesKeepMeaning
  BY DEF MeaningInv, MergesKeepMeaning
<1> QED
  BY <1>1, MeaningInvariant, PTL

=============================================================================

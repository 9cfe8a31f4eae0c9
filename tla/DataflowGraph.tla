--------------------------- MODULE DataflowGraph ---------------------------
(***************************************************************************)
(* The dataflow graph of the canonical model and the helpers every reader  *)
(* of it goes through (src/etlir/canonical/graph.py): the topological      *)
(* order, the inputs of an operation by slot, and the columns of both.     *)
(*                                                                         *)
(* An operation is its position in the list of operations, which is also   *)
(* its rank when topological_order breaks ties.  A dataflow maps           *)
(* operations to records and has a set of edges.  The names of slots and   *)
(* of columns are sequences: <<"in">>, or with the number of an edge into  *)
(* an unsupported operation; <<"x">>, or with the prefixes of a fusion.    *)
(***************************************************************************)
EXTENDS Integers, FiniteSets, Sequences

CONSTANT Dataflows    \* the dataflows that are ordered

Ops(d) == DOMAIN d.op

\* The edges topological_order counts: an edge with an unknown end is skipped.
Links(d) == {e \in d.edges : e.from \in Ops(d) /\ e.to \in Ops(d)}

ASSUME DataflowsAssumption ==
  \A d \in Dataflows :
    /\ Ops(d) \subseteq Nat /\ IsFiniteSet(Ops(d))
    /\ IsFiniteSet(d.edges)

Edge(from, group, to, slot, columns) ==
  [from |-> from, group |-> group, to |-> to, slot |-> slot, columns |-> columns]

In == <<"in">>
Slots(d, o) == {e.slot : e \in {f \in d.edges : f.to = o}}

\* One upstream of a slot per operation and output group, however many edges.
Into(d, o, s)      == {e \in d.edges : e.to = o /\ e.slot = s}
Upstreams(d, o, s) == {<<e.from, e.group>> : e \in Into(d, o, s)}

Groups(d, o) == DOMAIN d.op[o].out

\* The columns of an output group, each with its type; reads default to the dataset's.
OutputColumns(d, o, g) ==
  IF g \in Groups(d, o) THEN d.op[o].out[g]
  ELSE IF d.op[o].kind = "read" THEN d.op[o].dataset
  ELSE << >>

\* The mappings of all edges from one upstream; none at all passes every column by name.
Mappings(d, o, s, up) ==
  LET named == UNION {e.columns : e \in {f \in Into(d, o, s) : <<f.from, f.group>> = up}}
  IN  IF named = {} THEN {<<c, c>> : c \in DOMAIN OutputColumns(d, up[1], up[2])} ELSE named

\* What arrives at a slot: the columns of upstream groups, under their new names.
Arrivals(d, o, s) ==
  UNION {{<<<<up[1], up[2], m[1]>>, m[2]>> : m \in Mappings(d, o, s, up)} : up \in Upstreams(d, o, s)}
SlotColumns(d, o, s) ==
  {a[2] : a \in {b \in Arrivals(d, o, s) : b[1][3] \in DOMAIN OutputColumns(d, b[1][1], b[1][2])}}

\* The upstream column that arrives under a name.
SourceOf(d, o, s, c) == (CHOOSE a \in Arrivals(d, o, s) : a[2] = c)[1]

-----------------------------------------------------------------------------
VARIABLES
  df,         \* the dataflow
  phase,      \* "ordering", then "ordered", or "cycle" when ValueError is raised
  indegree,   \* the edges into an operation from operations that are not out
  ready,      \* operations without such edges, sorted when used
  out         \* the order

orderVars == <<phase, indegree, ready, out>>

InDegree(d)    == [o \in Ops(d) |-> Cardinality({e \in Links(d) : e.to = o})]
First(S)       == CHOOSE o \in S : \A p \in S : o <= p
\* Mutant of Closed: a successor is told once, however many edges go there.
ClosedOnce(d, n) ==
  [o \in Ops(d) |-> IF \E e \in Links(d) : e.from = n /\ e.to = o THEN 1 ELSE 0]

Closed(d, n)   == [o \in Ops(d) |-> Cardinality({e \in Links(d) : e.from = n /\ e.to = o})]

\* The state in which the loop over the ready operations of a dataflow starts.
StartsWith(d, ph, degree, rdy, order) ==
  /\ ph = "ordering"
  /\ degree = InDegree(d)
  /\ rdy = {o \in Ops(d) : InDegree(d)[o] = 0}
  /\ order = << >>

Take(n) ==
  LET left == [o \in Ops(df) |-> indegree[o] - Closed(df, n)[o]]
  IN  /\ out' = Append(out, n)
      /\ indegree' = left
      /\ ready' = (ready \ {n}) \cup {o \in Ops(df) : Closed(df, n)[o] > 0 /\ left[o] = 0}

\* Mutant of NextReady: the last one, as _find_cycle does.
NextReadyLast ==
  /\ phase = "ordering"
  /\ ready # {}
  /\ Take(CHOOSE o \in ready : \A p \in ready : p <= o)
  /\ UNCHANGED <<df, phase>>

\* One iteration of the loop: the first ready operation goes out.
NextReady ==
  /\ phase = "ordering"
  /\ ready # {}
  /\ Take(First(ready))
  /\ UNCHANGED <<df, phase>>

\* The loop ends; operations are left over if and only if there is a cycle.
EndOrder ==
  /\ phase = "ordering"
  /\ ready = {}
  /\ phase' = IF Len(out) # Cardinality(Ops(df)) THEN "cycle" ELSE "ordered"
  /\ UNCHANGED <<df, indegree, ready, out>>

OrderInit == df \in Dataflows /\ StartsWith(df, phase, indegree, ready, out)
OrderNext == NextReady \/ EndOrder
OrderSpec == OrderInit /\ [][OrderNext]_<<df, orderVars>>

-----------------------------------------------------------------------------
Placed == {out[i] : i \in 1 .. Len(out)}
Before(i) == {out[j] : j \in 1 .. i - 1}
Unmet(o, S) == {e \in Links(df) : e.to = o /\ e.from \notin S}

\* The type of the ordering state.
OrderStateOK ==
  /\ indegree \in [Ops(df) -> Nat]
  /\ ready \subseteq Ops(df)
  /\ out \in Seq(Ops(df))
OrderTypeOK == phase \in {"ordering", "ordered", "cycle"} /\ OrderStateOK

(***************************************************************************)
(* topological_order: each place of the order holds the first operation,   *)
(* by declaration, of those whose upstream operations all stand before it  *)
(* and that do not; so the order is a linear extension, nothing is listed  *)
(* twice, and the result depends on the document only.                     *)
(***************************************************************************)
OrderIsLeastExtension ==
  /\ \A i \in 1 .. Len(out) :
       LET free == {o \in Ops(df) \ Before(i) : Unmet(o, Before(i)) = {}}
       IN  out[i] \in free /\ \A o \in free : out[i] <= o
  /\ phase \notin {"ordering", "cycle"} => Placed = Ops(df)

\* ValueError is raised only for a cycle: every operation left waits for one left.
CycleIsReal ==
  phase = "cycle" =>
    LET left == Ops(df) \ Placed
    IN  left # {} /\ \A o \in left : \E e \in Links(df) : e.to = o /\ e.from \in left
=============================================================================

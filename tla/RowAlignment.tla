---------------------------- MODULE RowAlignment ----------------------------
(***************************************************************************)
(* Row-aligned merge fusion (src/etlir/canonical/rowalign.py) as the       *)
(* normaliser uses it: fuse_row_aligned over the dataflow it has built,    *)
(* and mark_unsupported on the merges that cannot be fused.                *)
(*                                                                         *)
(* Each round of the loop orders the dataflow (NextReady and EndOrder of   *)
(* DataflowGraph, an action per iteration), takes the first slot with      *)
(* several upstreams of an operation that has not failed, and fuses it or  *)
(* records the failure.  Aliases are operations: the code makes them       *)
(* distinct with suffixes.  An expression is the sequence of the columns   *)
(* it reads; the assignments and the condition of an operation hold theirs.*)
(***************************************************************************)
EXTENDS DataflowGraph, SequencesExt

CONSTANT SlotNames    \* the names of the slots, in the order of sorted()

Lookup == <<"lookup">>

RowPreserving(op) ==
  op.kind \in {"derive", "project"} \/ (op.kind = "lookup" /\ op.match # "all")

\* Edges join operations of the dataflow.  What feeds the lookup slot of an operation that
\* keeps rows is made for this slot alone, and stands here as one operation without inputs.
FlowOK(d) ==
  /\ \A o \in Ops(d) : {"kind", "match"} \subseteq DOMAIN d.op[o]
  /\ \A e \in d.edges :
       /\ e = Edge(e.from, e.group, e.to, e.slot, e.columns)
       /\ e.from \in Ops(d) /\ e.to \in Ops(d) /\ e.slot \in ToSet(SlotNames)
       /\ RowPreserving(d.op[e.to]) /\ e.slot # In =>
            \A f \in d.edges : /\ f.to # e.from
                               /\ f.from = e.from \/ (f.to = e.to /\ f.slot = e.slot) => f = e

\* _walk_up goes on through a row-preserving operation that has an input.
Passes(d, o) == RowPreserving(d.op[o]) /\ Upstreams(d, o, In) # {}

NewColumns(op) == DOMAIN op.assigns \cup DOMAIN op.returns
Declared(op)   == DOMAIN op.out["out"]

\* The columns of an operation, of a dataflow, and those that arrive at a slot.
ColumnsOf(d, o) ==
  UNION {{<<o, g, c>> : c \in DOMAIN OutputColumns(d, o, g)} : g \in Groups(d, o) \cup {"out"}}
AllColumns(d)  == UNION {ColumnsOf(d, o) : o \in Ops(d)}
Ports(d, o, s) == {a[2] : a \in Arrivals(d, o, s)}

\* What an edge takes: every column by name if it lists none.
Taken(d, e) ==
  IF e.columns = {} THEN {<<c, c>> : c \in DOMAIN OutputColumns(d, e.from, e.group)} ELSE e.columns

\* An operation that keeps rows passes what arrives and makes columns of what arrives (any
\* other raises KeyError); a port has one source, and the lookup side names of its own.
PassesColumns(d, o) ==
  LET op   == d.op[o]
      read == Ports(d, o, In) \cup Ports(d, o, Lookup)
  IN  /\ {"out", "assigns", "returns", "cond"} \subseteq DOMAIN op
      /\ Groups(d, o) = {"out"}
      /\ NewColumns(op) \subseteq Declared(op)
      /\ Declared(op) \ NewColumns(op) \subseteq Ports(d, o, In)
      /\ \A c \in DOMAIN op.assigns : /\ {"id", "refs"} \subseteq DOMAIN op.assigns[c]
                                      /\ op.assigns[c].refs \in Seq(read)
      /\ \A c \in DOMAIN op.returns : op.returns[c] \in Ports(d, o, Lookup)
      /\ op.cond \in Seq(read)
      /\ \A s \in {In, Lookup} : \A a, b \in Arrivals(d, o, s) : a[2] = b[2] => a = b
      /\ \A c \in Ports(d, o, Lookup) : Len(c) = 1

\* Names are sequences; one edge joins an output to a slot, and takes columns that exist,
\* at least one from or into the rows that are kept.
IsName(c) == Len(c) \in Nat \ {0} /\ c = [i \in 1 .. Len(c) |-> c[i]]
ColumnsOK(d) ==
  /\ \A k \in AllColumns(d) : IsName(k[3])
  /\ \A e \in d.edges :
       /\ \A f \in d.edges : Edge(f.from, f.group, f.to, f.slot, e.columns) = e => f = e
       /\ \A t \in Taken(d, e) : <<e.from, e.group, t[1]>> \in AllColumns(d)
       /\ Passes(d, e.from) \/ (Passes(d, e.to) /\ e.slot = In) => Taken(d, e) # {}
  /\ \A o \in Ops(d) : Passes(d, o) => PassesColumns(d, o)

ASSUME FusionAssumption ==
  /\ SlotNames \in Seq(ToSet(SlotNames)) /\ In \in ToSet(SlotNames)
  /\ \A d \in Dataflows : FlowOK(d)

\* The name of a column of the dataflow that is given has one part.
ASSUME ColumnsAssumption ==
  \A d \in Dataflows : ColumnsOK(d) /\ \A k \in AllColumns(d) : Len(k[3]) = 1

VARIABLES
  start,      \* the dataflow before fusion
  failed      \* operations with a merge that is not row-aligned

fusionVars == <<df, orderVars, start, failed>>

Merges(d, o) == {s \in Slots(d, o) : Cardinality(Upstreams(d, o, s)) > 1}

\* The places in the order of the merges that have not failed; the first slot of the first.
Waiting   == {i \in 1 .. Len(out) : Merges(df, out[i]) # {} /\ out[i] \notin failed}
MergeOp   == out[First(Waiting)]
MergeSlot == SlotNames[First({n \in 1 .. Len(SlotNames) : SlotNames[n] \in Merges(df, MergeOp)})]

\* Some operations in the order in which they are out.
Place(o)   == CHOOSE i \in 1 .. Len(out) : out[i] = o
InOrder(S) == [n \in 1 .. Cardinality(S) |->
                 CHOOSE o \in S : Cardinality({p \in S : Place(p) < Place(o)}) = n - 1]

\* _walk_up: what is reached from some outputs against the flow, through row-preserving
\* operations that have an input.  Region and boundaries are the two kinds of what is met.
WithNext(d, keys) ==
  keys \cup UNION {Upstreams(d, k[1], In) : k \in {j \in keys : Passes(d, j[1])}}
Met(d, keys) ==
  LET met[n \in 0 .. Cardinality(Ops(d))] == IF n = 0 THEN keys ELSE WithNext(d, met[n - 1])
  IN  met[Cardinality(Ops(d))]
Region(d, keys)     == {k[1] : k \in {j \in Met(d, keys) : Passes(d, j[1])}}
Boundaries(d, keys) == {k \in Met(d, keys) : ~ Passes(d, k[1])}

-----------------------------------------------------------------------------
(* One fusion: of the slot s of m, whose upstreams have one boundary. *)

\* The columns of the anchor and those that the first n operations of the chain make.
WideKeys(d, anchor, order, n) ==
  {<<anchor[1], anchor[2], c>> : c \in DOMAIN OutputColumns(d, anchor[1], anchor[2])}
    \cup UNION {{<<order[i], "out", c>> : c \in NewColumns(d.op[order[i]])} : i \in 1 .. n}

\* Mutant of WideName: a passed column is taken to be the anchor's of that name.
WideNameByName(d, anchor, order) ==
  LET keys == WideKeys(d, anchor, order, Len(order)) \cup UNION {ColumnsOf(d, o) : o \in ToSet(order)}
      name[k \in keys] ==
        IF k \in WideKeys(d, anchor, order, Len(order)) THEN <<k[1]>> \o k[3]
        ELSE IF <<anchor[1], anchor[2], k[3]>> \in keys THEN <<anchor[1]>> \o k[3]
        ELSE name[SourceOf(d, k[1], In, k[3])]
  IN  name

\* The name in the widened row of a column of the anchor or of a region operation: a new
\* one under its operation, and a passed one as where it comes from.
WideName(d, anchor, order) ==
  LET keys == WideKeys(d, anchor, order, Len(order)) \cup UNION {ColumnsOf(d, o) : o \in ToSet(order)}
      name[k \in keys] ==
        IF k \in WideKeys(d, anchor, order, Len(order)) THEN <<k[1]>> \o k[3]
        ELSE name[SourceOf(d, k[1], In, k[3])]
  IN  name

\* rename_columns with the input columns of o; other names (of the lookup side) stay.
Renamed(d, name, o, refs) ==
  [i \in 1 .. Len(refs) |->
     IF refs[i] \in Ports(d, o, In)
       THEN name[SourceOf(d, o, In, refs[i])]
       ELSE refs[i]]

\* The widened row after the first n operations of the chain: names and types.
WideRow(d, anchor, order, name, n) ==
  LET keys == WideKeys(d, anchor, order, n)
  IN  [c \in {name[k] : k \in keys} |->
         LET k == CHOOSE j \in keys : name[j] = c IN OutputColumns(d, k[1], k[2])[k[3]]]

Rewritten(d, anchor, order, name, n) ==
  LET o  == order[n]
      op == d.op[o]
      wide(c) == name[<<o, "out", c>>]
      former(cs, c) == CHOOSE b \in cs : wide(b) = c
  IN  [op EXCEPT
        !.kind    = IF op.kind = "project" THEN "derive" ELSE op.kind,
        !.out     = [g \in {"out"} |-> WideRow(d, anchor, order, name, n)],
        !.assigns = [c \in {wide(b) : b \in DOMAIN op.assigns} |->
                       LET a == op.assigns[former(DOMAIN op.assigns, c)]
                       IN  [a EXCEPT !.refs = Renamed(d, name, o, a.refs)]],
        !.returns = [c \in {wide(b) : b \in DOMAIN op.returns} |->
                       op.returns[former(DOMAIN op.returns, c)]],
        !.cond    = Renamed(d, name, o, op.cond)]

Chain(d, anchor, order, name) ==
  {Edge(anchor[1], anchor[2], order[1], In,
        {<<c, name[<<anchor[1], anchor[2], c>>]>> :
           c \in DOMAIN OutputColumns(d, anchor[1], anchor[2])})}
    \cup {Edge(order[i], "out", order[i + 1], In, {}) : i \in 1 .. Len(order) - 1}

\* Edges that leave the region, and those of the anchor into a slot the region feeds too.
Leaving(d, anchor, region) ==
  LET outside == {e \in d.edges : e.to \notin region}
      fed     == {<<e.to, e.slot>> : e \in {f \in outside : f.from \in region}}
  IN  {e \in outside : \/ e.from \in region
                       \/ <<e.from, e.group>> = anchor /\ <<e.to, e.slot>> \in fed}

\* The columns of one slot that these edges took to it, from the widened row.
WideColumns(d, edges, name) ==
  UNION {{<<name[<<e.from, e.group, t[1]>>], t[2]>> : t \in Taken(d, e)} : e \in edges}

Rerouted(d, anchor, region, name, end) ==
  LET leaving == Leaving(d, anchor, region)
  IN  {Edge(end, "out", e.to, e.slot,
            WideColumns(d, {f \in leaving : f.to = e.to /\ f.slot = e.slot}, name)) : e \in leaving}

\* Edges into the region from elsewhere stay: the lookup side of a lookup.
Kept(d, anchor, region) ==
  {e \in d.edges : e.to \in region /\ e.from \notin region /\ e.from # anchor[1]}
    \cup ({e \in d.edges : e.to \notin region} \ Leaving(d, anchor, region))

Fused(d, anchor, region, order) ==
  LET name == WideName(d, anchor, order)
  IN  [op    |-> [o \in Ops(d) |->
                    IF o \in region
                      THEN Rewritten(d, anchor, order, name, CHOOSE n \in 1 .. Len(order) : order[n] = o)
                      ELSE d.op[o]],
       edges |-> Chain(d, anchor, order, name) \cup Kept(d, anchor, region)
                   \cup Rerouted(d, anchor, region, name, Last(order))]

-----------------------------------------------------------------------------
(* The loop of fuse_row_aligned. *)

Aligned(d, o, s) ==
  /\ Cardinality(Boundaries(d, Upstreams(d, o, s))) = 1
  /\ o \notin Region(d, Upstreams(d, o, s))

FuseOne ==
  /\ phase = "ordered"
  /\ Waiting # {}
  /\ Aligned(df, MergeOp, MergeSlot)
  /\ LET ups    == Upstreams(df, MergeOp, MergeSlot)
         anchor == CHOOSE k \in Boundaries(df, ups) : TRUE
         region == Region(df, ups)
         fused  == Fused(df, anchor, region, InOrder(region))
     IN  df' = fused /\ StartsWith(fused, phase', indegree', ready', out')
  /\ UNCHANGED <<start, failed>>

\* Mutant of FailOne: the failure is not remembered.
FailOneForgotten ==
  /\ phase = "ordered"
  /\ Waiting # {}
  /\ ~ Aligned(df, MergeOp, MergeSlot)
  /\ StartsWith(df, phase', indegree', ready', out')
  /\ UNCHANGED <<df, start, failed>>

\* Mutant of FailOne: the first failure ends the loop for every merge that waits.
FailOneFailsAll ==
  /\ phase = "ordered"
  /\ Waiting # {}
  /\ ~ Aligned(df, MergeOp, MergeSlot)
  /\ failed' = failed \cup {out[i] : i \in Waiting}
  /\ StartsWith(df, phase', indegree', ready', out')
  /\ UNCHANGED <<df, start>>

\* NotRowAligned: the merge is left untouched.
FailOne ==
  /\ phase = "ordered"
  /\ Waiting # {}
  /\ ~ Aligned(df, MergeOp, MergeSlot)
  /\ failed' = failed \cup {MergeOp}
  /\ StartsWith(df, phase', indegree', ready', out')
  /\ UNCHANGED <<df, start>>

NothingPending ==
  /\ phase = "ordered"
  /\ Waiting = {}
  /\ phase' = "fused"
  /\ UNCHANGED <<df, indegree, ready, out, start, failed>>

\* Mutant of MarkUnsupported: the operation is marked and its edges stay in their slot.
MarkUnsupportedOnly ==
  /\ phase = "fused"
  /\ phase' = "done"
  /\ df' = [df EXCEPT !.op = [o \in Ops(df) |->
              IF o \in failed THEN [df.op[o] EXCEPT !.kind = "unsupported"] ELSE df.op[o]]]
  /\ UNCHANGED <<indegree, ready, out, start, failed>>

\* mark_unsupported, for every failure: each edge into the operation gets its own slot.
MarkUnsupported ==
  /\ phase = "fused"
  /\ phase' = "done"
  /\ LET into(o) == {e \in df.edges : e.to = o}
         slot(e) == LET n == CHOOSE n \in [into(e.to) -> 1 .. Cardinality(into(e.to))] : IsInjective(n)
                    IN  IF e.to \in failed THEN <<"in", n[e]>> ELSE e.slot
     IN  df' = [op    |-> [o \in Ops(df) |->
                             IF o \in failed THEN [df.op[o] EXCEPT !.kind = "unsupported"]
                             ELSE df.op[o]],
                edges |-> {[e EXCEPT !.slot = slot(e)] : e \in df.edges}]
  /\ UNCHANGED <<indegree, ready, out, start, failed>>

Init == OrderInit /\ start = df /\ failed = {}

Next ==
  \/ OrderNext /\ UNCHANGED <<start, failed>>
  \/ FuseOne
  \/ FailOne
  \/ NothingPending
  \/ MarkUnsupported

Spec == Init /\ [][Next]_fusionVars

-----------------------------------------------------------------------------
(* What a dataflow means: where the rows and the columns of a slot come from. *)

\* What an operation reads under a name that arrives, in its input slot first.
ValueRead(d, values, o, c) ==
  values[SourceOf(d, o, IF c \in Ports(d, o, In) THEN In ELSE Lookup, c)]
ValuesRead(d, values, o, refs) == [i \in 1 .. Len(refs) |-> ValueRead(d, values, o, refs[i])]

\* The value of every column of every output: a column of an operation that makes its own
\* rows stands for itself, a new column for its expression over values, and a passed one
\* for the value it has upstream, cast to the type it is declared with if casts count.
ValueIn(d, casts, values, k) ==
  LET o    == k[1]
      op   == d.op[o]
      type == OutputColumns(d, o, k[2])[k[3]]
  IN  IF ~ Passes(d, o)
        THEN [type |-> type, of |-> k, args |-> << >>]
      ELSE IF k[3] \in DOMAIN op.assigns
        THEN [type |-> type, of |-> op.assigns[k[3]].id,
              args |-> ValuesRead(d, values, o, op.assigns[k[3]].refs)]
      ELSE IF k[3] \in DOMAIN op.returns
        THEN [type |-> type, of |-> <<o, "return", op.returns[k[3]]>>,
              args |-> <<values[SourceOf(d, o, Lookup, op.returns[k[3]])]>>
                         \o ValuesRead(d, values, o, op.cond)]
      ELSE IF casts /\ ValueRead(d, values, o, k[3]).type # type
        THEN [type |-> type, of |-> <<0, "cast", << >> >>, args |-> <<ValueRead(d, values, o, k[3])>>]
      ELSE ValueRead(d, values, o, k[3])
Values(d, casts) ==
  LET value[k \in AllColumns(d)] == ValueIn(d, casts, value, k)
  IN  value

Meaning(d, o, s, values) ==
  [ rows    |-> Boundaries(d, Upstreams(d, o, s)),
    columns |-> {<<a[2], values[a[1]]>> : a \in Arrivals(d, o, s)} ]

SameMeaning(casts) ==
  LET old == Values(start, casts)
      new == Values(df, casts)
  IN  \A o \in Ops(start) : df.op[o] = start.op[o] =>
        \A s \in Slots(start, o) : Meaning(df, o, s, new) = Meaning(start, o, s, old)

-----------------------------------------------------------------------------
\* The type of the state: fusion rewrites operations and edges, never which there are.
TypeOK ==
  /\ phase \in {"ordering", "ordered", "cycle", "fused", "done"}
  /\ OrderStateOK
  /\ Ops(df) = Ops(start)
  /\ Links(df) = df.edges
  /\ failed \subseteq Ops(df)

(***************************************************************************)
(* Fusion keeps what it fuses: an operation that is not rewritten receives *)
(* in each slot rows of the same origin, with the same columns computed by *)
(* the same expressions from the same columns, casts of passed columns     *)
(* apart (rename_columns and the wide names of _fuse_one, the rerouting).  *)
(***************************************************************************)
MergesKeepMeaning == phase \in {"ordered", "fused"} => SameMeaning(FALSE)

(***************************************************************************)
(* The same with casts: a passed column has the type it is declared with.  *)
(* DeriveOp and ProjectOp say so of every column (model.py).               *)
(***************************************************************************)
MergesKeepCasts == phase \in {"ordered", "fused"} => SameMeaning(TRUE)

(***************************************************************************)
(* A merge fails if and only if its upstreams, in the dataflow as it was,  *)
(* do not come from one output: neither an earlier fusion nor a failure    *)
(* elsewhere changes the outcome.                                          *)
(***************************************************************************)
FailsIffNotAligned ==
  phase \in {"fused", "done"} =>
    failed = {o \in Ops(start) : \E s \in Merges(start, o) :
                Cardinality(Boundaries(start, Upstreams(start, o, s))) # 1}

\* In the end every slot has one upstream, which validation (IR-V-013) and the lowering
\* plan, which takes ups[0], rely on.
OneUpstreamPerSlot ==
  phase = "done" => \A o \in Ops(df) : Merges(df, o) = {}

\* Fusing an acyclic dataflow leaves it acyclic, so that only a cycle of the export raises.
FusionMakesNoCycle == phase = "cycle" => df = start /\ CycleIsReal

(***************************************************************************)
(* Each round of `while True` leaves strictly fewer merges pending: the    *)
(* fused slot has one upstream for good, a failed operation is passed by,  *)
(* and rerouting gives no slot a second upstream.  So the loop ends.       *)
(***************************************************************************)
Pending(d, without) == UNION {{o} \X Merges(d, o) : o \in Ops(d) \ without}
RoundsShrink ==
  [][phase = "ordered" /\ phase' = "ordering" =>
       /\ Pending(df', failed') \subseteq Pending(df, failed)
       /\ Pending(df', failed') # Pending(df, failed)]_fusionVars
=============================================================================

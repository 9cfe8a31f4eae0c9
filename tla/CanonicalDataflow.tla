-------------------------- MODULE CanonicalDataflow --------------------------
(***************************************************************************)
(* Dataflows of the canonical model (src/etlir/canonical/model.py): what   *)
(* the structural checks report of one (canonical/invariants.py), and what *)
(* the relations of one mean, as both emitters render them                 *)
(* (canonical/plan.py, targets/duckdb/emitter.py, targets/spark/emitter.py)*)
(*                                                                         *)
(* Column types are left out: they decide casts, which are not part of the *)
(* structure.  Edges are a set, and output groups a function from names to *)
(* sets of columns; no declared groups is the empty function.              *)
(***************************************************************************)
EXTENDS Naturals, SequencesExt, FiniteSetsExt, Functions

(***************************************************************************)
(* Expressions                                                             *)
(***************************************************************************)

Column(name) == [node |-> "column", name |-> name]
Call(function, args) == [node |-> "call", function |-> function, args |-> args]
Literal(value) == [node |-> "literal", value |-> value]
OpaqueNode == [node |-> "opaque"]

IsOpaque(ast) == ast.node = "opaque"

RECURSIVE Walk(_)
Walk(ast) ==
  {ast} \cup IF ast.node = "call" THEN UNION {Walk(ast.args[i]) : i \in DOMAIN ast.args} ELSE {}

ColumnsOf(ast) == {n.name : n \in {m \in Walk(ast) : m.node = "column"}}

Aggregates == {"sum", "count", "count_all"}
HasAggregate(ast) == \E n \in Walk(ast) : n.node = "call" /\ n.function \in Aggregates

\* An expression over a row whose columns have the given values.
RECURSIVE Eval(_, _)
Eval(ast, row) ==
  CASE ast.node = "column" -> row[ast.name]
    [] ast.node = "call"   -> Call(ast.function, [i \in DOMAIN ast.args |-> Eval(ast.args[i], row)])
    [] ast.node \notin {"column", "call"} -> ast

(***************************************************************************)
(* The graph.  A flow has operations and expressions (sequences, each with *)
(* an id), edges, and the datasets it knows (id -> columns).               *)
(***************************************************************************)

Ids(flow) == {op.id : op \in ToSet(flow.operations)}
Op(flow, id) == CHOOSE op \in ToSet(flow.operations) : op.id = id
ExpressionIds(flow) == {e.id : e \in ToSet(flow.expressions)}
Ast(flow, id) == (CHOOSE e \in ToSet(flow.expressions) : e.id = id).ast

\* Expressions an operation uses: its condition, its assignments or aggregations, its groups.
UsedExpressions(op) ==
  (IF "condition" \in DOMAIN op THEN {op.condition} ELSE {})
    \cup (IF "assigned" \in DOMAIN op THEN Range(op.assigned) ELSE {})
    \cup (IF "groups" \in DOMAIN op THEN Range(op.groups) ELSE {})

EdgesInto(flow, id) == {e \in flow.edges : e.to = id}
SlotsOf(flow, id) == {e.input : e \in EdgesInto(flow, id)}

\* The upstreams of a slot, each an operation and a group, with the mappings of all its edges.
UpstreamsOf(flow, id, slot) ==
  LET into == {e \in EdgesInto(flow, id) : e.input = slot}
  IN  {[from |-> e.from, group |-> e.group,
        columns |-> UNION {x.columns : x \in {y \in into : y.from = e.from /\ y.group = e.group}}]
         : e \in into}

OutputsOf(flow, id, group) ==
  LET op == Op(flow, id)
  IN  IF group \in DOMAIN op.outputs THEN op.outputs[group]
      ELSE IF op.kind = "read" /\ op.dataset \in DOMAIN flow.datasets
      THEN flow.datasets[op.dataset] ELSE {}

\* Columns that arrive in a slot.
SlotColumnsOf(flow, id, slot) ==
  UNION { IF u.columns = {} THEN OutputsOf(flow, u.from, u.group)
          ELSE {m[2] : m \in {x \in u.columns : x[1] \in OutputsOf(flow, u.from, u.group)}} :
          u \in {v \in UpstreamsOf(flow, id, slot) : v.from \in Ids(flow)} }

Visible(flow, id) == UNION {SlotColumnsOf(flow, id, slot) : slot \in SlotsOf(flow, id)}

\* What is left when operations without predecessors are taken away, again and again.
RECURSIVE Unordered(_, _)
Unordered(ids, edges) ==
  LET free == {n \in ids : ~ \E e \in edges : e.to = n /\ e.from \in ids}
  IN  IF free = {} THEN ids ELSE Unordered(ids \ free, edges)

(***************************************************************************)
(* Structural checks: pairs of a code and what it is about                 *)
(***************************************************************************)

DuplicateIds(flow) ==
  LET ids == [i \in DOMAIN flow.operations |-> flow.operations[i].id]
               \o [i \in DOMAIN flow.expressions |-> flow.expressions[i].id]
  IN  {<<"IR-V-001", ids[i]>> : i \in {j \in DOMAIN ids : \E k \in 1..(j - 1) : ids[k] = ids[j]}}

UnresolvedReferences(flow) ==
  {<<"IR-V-002", op.id>> : op \in {o \in ToSet(flow.operations) :
     \/ "dataset" \in DOMAIN o /\ o.dataset \notin DOMAIN flow.datasets
     \/ ~ UsedExpressions(o) \subseteq ExpressionIds(flow)}}
  \cup {<<"IR-V-002", e.to>> : e \in {x \in flow.edges : ~ {x.from, x.to} \subseteq Ids(flow)}}

Resolved(flow) == {e \in flow.edges : {e.from, e.to} \subseteq Ids(flow)}

Groups(op) == IF op.outputs = <<>> THEN {"out"} ELSE DOMAIN op.outputs

EdgeErrors(flow) ==
  {<<"IR-V-008", e.from>> : e \in {x \in Resolved(flow) : x.group \notin Groups(Op(flow, x.from))}}
  \cup {<<"IR-V-007", e.to>> : e \in {x \in Resolved(flow) :
          Op(flow, x.to).kind = "read" \/ Op(flow, x.from).kind = "write"}}

RequiredInputs(op) ==
  CASE op.kind \in {"project", "derive", "filter", "route", "aggregate", "write", "sequence"} -> {"in"}
    [] op.kind = "lookup" -> {"in", "lookup"}
    [] op.kind \in {"read", "join", "unsupported"} -> {}

MissingInputs(flow) ==
  {<<"IR-V-018", op.id>> :
     op \in {o \in ToSet(flow.operations) : ~ RequiredInputs(o) \subseteq SlotsOf(flow, o.id)}}

Cycles(flow) ==
  IF Unordered(Ids(flow), Resolved(flow)) = {} THEN {} ELSE {<<"IR-V-004", "">>}

\* Mutant of SlotErrors: what an edge takes from an upstream is not looked at.
SlotErrorsOfCount(flow) ==
  {<<"IR-V-013", op.id>> : op \in {o \in ToSet(flow.operations) :
     \E slot \in SlotsOf(flow, o.id) : Cardinality(UpstreamsOf(flow, o.id, slot)) > 1}}

SlotErrors(flow) ==
  LET At == {<<op.id, slot>> : op \in ToSet(flow.operations),
                               slot \in UNION {SlotsOf(flow, id) : id \in Ids(flow)}}
      Known(u) == OutputsOf(flow, u.from, u.group)
  IN  {<<"IR-V-013", x[1]>> : x \in {y \in At : Cardinality(UpstreamsOf(flow, y[1], y[2])) > 1}}
      \cup {<<"IR-V-015", x[1]>> : x \in {y \in At :
              \E u \in UpstreamsOf(flow, y[1], y[2]) :
                 /\ u.from \in Ids(flow)
                 /\ Known(u) # {}
                 /\ \E m \in u.columns : m[1] \notin Known(u)}}

\* The two slots of a join and a lookup must be there, with distinct columns.
SidesOf(op) == IF op.kind = "join" THEN {"left", "right"} ELSE {"in", "lookup"}

SideErrors(flow) ==
  {<<"IR-V-016", op.id>> : op \in {o \in ToSet(flow.operations) :
     /\ o.kind \in {"join", "lookup"}
     /\ \/ ~ SidesOf(o) \subseteq SlotsOf(flow, o.id)
        \/ \E a, b \in SidesOf(o) :
              a # b /\ SlotColumnsOf(flow, o.id, a) \cap SlotColumnsOf(flow, o.id, b) # {}}}

\* Columns an operation must find: those its expressions and its specification name, and, for
\* one that passes columns on, those it declares and does not make itself.
Needed(flow, op) ==
  LET declared == UNION Range(op.outputs)
      read == UNION {ColumnsOf(Ast(flow, x)) : x \in UsedExpressions(op) \cap ExpressionIds(flow)}
  IN  read \cup
      CASE op.kind = "derive"    -> declared \ DOMAIN op.assigned
        [] op.kind = "lookup"    -> declared \ DOMAIN op.returns
        [] op.kind = "sequence"  -> declared \ {op.column}
        [] op.kind = "project"   -> op.columns
        [] op.kind = "aggregate" -> op.keys
        [] op.kind \in {"filter", "route", "join", "write"} -> {}

ColumnErrors(flow) ==
  LET live == {o \in ToSet(flow.operations) : o.kind \notin {"read", "unsupported"}}
      In(o, slot) == IF slot \in SlotsOf(flow, o.id) THEN SlotColumnsOf(flow, o.id, slot) ELSE {}
  IN  {<<"IR-V-017", o.id>> : o \in {x \in live : x.kind # "write" /\ x.outputs = <<>>}}
      \cup {<<"IR-V-015", o.id>> : o \in {x \in live :
              \/ ~ Needed(flow, x) \subseteq Visible(flow, x.id)
              \/ x.kind = "lookup" /\ \/ ~ Range(x.returns) \subseteq In(x, "lookup")
                                      \/ ~ (UNION Range(x.outputs) \ DOMAIN x.returns) \subseteq In(x, "in")
              \/ x.kind = "sequence" /\ x.column \in Visible(flow, x.id)
              \/ x.kind = "write" /\ x.dataset \in DOMAIN flow.datasets
                   /\ ~ Visible(flow, x.id) \subseteq flow.datasets[x.dataset]}}
      \cup {<<"IR-V-014", o.id>> : o \in {x \in live : x.kind # "aggregate"
              /\ \E e \in UsedExpressions(x) \cap ExpressionIds(flow) : HasAggregate(Ast(flow, e))}}

KeyErrors(flow) ==
  {<<"IR-V-019", op.id>> : op \in {o \in ToSet(flow.operations) :
     /\ o.kind = "write"
     /\ o.dataset \in DOMAIN flow.datasets
     /\ \/ (o.mode \in {"update", "upsert"}) # (o.keys # {})
        \/ ~ o.keys \subseteq flow.datasets[o.dataset] \cap Visible(flow, o.id)}}

Errors(flow) ==
  UNION {DuplicateIds(flow), UnresolvedReferences(flow), EdgeErrors(flow), MissingInputs(flow),
         Cycles(flow), SlotErrors(flow), SideErrors(flow), ColumnErrors(flow), KeyErrors(flow)}

\* Findings that are warnings of validate: they block, but the document is sound.
UnsupportedOps(flow) == {op.id : op \in {o \in ToSet(flow.operations) : o.kind = "unsupported"}}
OpaqueExpressions(flow) == {e.id : e \in {x \in ToSet(flow.expressions) : IsOpaque(x.ast)}}

(***************************************************************************)
(* Meaning.  The relation of an output group: which rows (a term) and what *)
(* each column holds (a term over the fields of datasets).                 *)
(***************************************************************************)

Relation(rows, columns) == [rows |-> rows, columns |-> columns]

RECURSIVE RelationOf(_, _, _)

\* What arrives in a slot, from its first upstream, with the renames of the edge.
Arriving(flow, id, slot) ==
  LET up == CHOOSE u \in UpstreamsOf(flow, id, slot) : TRUE
      r  == RelationOf(flow, up.from, up.group)
  IN  IF up.columns = {} THEN r
      ELSE Relation(r.rows,
             [c \in {m[2] : m \in up.columns} |-> r.columns[(CHOOSE m \in up.columns : m[2] = c)[1]]])

Kept(rows, condition) == [keep |-> rows, when |-> condition]
Rest(rows, conditions) == IF conditions = {} THEN rows ELSE [rest |-> rows, unless |-> conditions]
JoinedRows(type, left, right, condition) ==
  [join |-> type, left |-> left, right |-> right, on |-> condition]
Grouped(rows, keys) == [group |-> rows, by |-> keys]
Aggregated(rows, keys, value) == [aggregate |-> value, of |-> rows, by |-> keys]
\* The rows of a lookup with policy "all"; the other policies leave the rows as they are.
Matched(rows, policy, table, condition) ==
  IF policy = "all" THEN JoinedRows("left", rows, table, condition) ELSE rows
Found(policy, table, condition, value) ==
  [found |-> value, in |-> table, on |-> condition, policy |-> policy]
\* Rows are numbered in the order of all their columns.
Number(start, increment, rows, columns, after) ==
  [number |-> start, by |-> increment, of |-> rows, ordered |-> columns, after |-> after]
NoRows == [none |-> TRUE]

RelationOf(flow, id, group) ==
  LET op == Op(flow, id)
      in == Arriving(flow, id, "in")
      declared == op.outputs[group]
      Value(expression, row) == Eval(Ast(flow, expression), row)
      Passed(row) == [c \in declared |-> row[c]]
  IN  CASE op.kind = "read" ->
             Relation([read |-> op.dataset],
                      [c \in flow.datasets[op.dataset] |-> [field |-> c, of |-> op.dataset]])
        [] op.kind = "project" -> Relation(in.rows, Passed(in.columns))
        [] op.kind = "derive" ->
             Relation(in.rows, [c \in declared |-> IF c \in DOMAIN op.assigned
                                                   THEN Value(op.assigned[c], in.columns)
                                                   ELSE in.columns[c]])
        [] op.kind = "filter" ->
             Relation(Kept(in.rows, Value(op.condition, in.columns)), Passed(in.columns))
        [] op.kind = "route" ->
             Relation(IF group \in DOMAIN op.groups
                      THEN Kept(in.rows, Value(op.groups[group], in.columns))
                      ELSE Rest(in.rows, {Value(x, in.columns) : x \in Range(op.groups)}),
                      Passed(in.columns))
        [] op.kind = "join" ->
             LET left == Arriving(flow, id, "left")
                 right == Arriving(flow, id, "right")
                 row == left.columns @@ right.columns
             IN  Relation(JoinedRows(op.type, left.rows, right.rows, Value(op.condition, row)),
                          Passed(row))
        [] op.kind = "lookup" ->
             LET table == Arriving(flow, id, "lookup")
                 condition == Value(op.condition, in.columns @@ table.columns)
             IN  Relation(Matched(in.rows, op.policy, table.rows, condition),
                   [c \in declared |->
                      IF c \in DOMAIN op.returns
                      THEN Found(op.policy, table.rows, condition, table.columns[op.returns[c]])
                      ELSE in.columns[c]])
        [] op.kind = "aggregate" ->
             LET keys == {in.columns[k] : k \in op.keys}
             IN  Relation(Grouped(in.rows, keys),
                   [c \in declared |-> IF c \in DOMAIN op.assigned
                      THEN Aggregated(in.rows, keys, Value(op.assigned[c], in.columns))
                      ELSE in.columns[c]])
        [] op.kind = "sequence" ->
             LET after == IF "after" \in SlotsOf(flow, id) THEN Arriving(flow, id, "after").rows
                          ELSE NoRows
             IN  Relation(in.rows,
                   [c \in declared |-> IF c = op.column
                      THEN Number(op.start, op.increment, in.rows, Range(in.columns), after)
                      ELSE in.columns[c]])

\* What a write loads, and how.
LoadOf(flow, id) ==
  LET op == Op(flow, id)
      in == Arriving(flow, id, "in")
  IN  [dataset |-> op.dataset, mode |-> op.mode, keys |-> op.keys, rows |-> in.rows,
       columns |-> in.columns]
=============================================================================

--------------------------- MODULE MappingMeaning ---------------------------
(***************************************************************************)
(* What a mapping means, in PowerCenter's terms                            *)
(* (src/docs/sources/powercenter.md, "Normalization rules"), and what must *)
(* hold of the dataflow the normaliser makes of it.  The meaning is read   *)
(* off the connectors as they are exported: Sequence Generators are where  *)
(* the mapping has them, and variables are evaluated, not inlined.         *)
(*                                                                         *)
(* Constructs that have no canonical meaning (the value a variable had in  *)
(* the previous row, the last row of a group) have a term of their own     *)
(* here, which no operation has: a flow that claims to be supported and    *)
(* holds one is caught.                                                    *)
(***************************************************************************)
EXTENDS MappingNormaliser

Exported == {Key(i) : i \in ToSet(mapping.instances)}
Definition(key) == (CHOOSE i \in ToSet(mapping.instances) : Key(i) = key).definition
PortsOf(key) == ToSet(Definition(key).ports)
PortOf(key, name) == CHOOSE p \in PortsOf(key) : p.name = name
Into(key) == {c \in mapping.connectors : c.to = key}
IsGenerator(key) == key[2] \in SequenceTypes

\* Instances that give a consumer its rows; a joiner has two sides.
RowsFrom(key) == {c \in Into(key) : ~ IsGenerator(c.from)}
SideOf(key, master) == {c \in RowsFrom(key) : PortOf(key, c.port).master = master}

PortIn(definition, name) == CHOOSE p \in ToSet(definition.ports) : p.name = name

Undefined(what, where) == [undefined |-> what, where |-> where]

\* The rows and the value of an output field, and the term of an expression in an instance, rest
\* on each other; all three are defined below.
RECURSIVE Meant(_, _, _)
RowsOf(key, field)  == Meant("rows", key, field)
ValueOf(key, field) == Meant("value", key, field)
\* "before" is the variable the expression defines, if it does.
TermOf(key, e, before) == Meant("term", key, [of |-> e, before |-> before])

\* The rows that come in over some connectors: those of the output a connector reads.
RowsOver(connections) ==
  LET c == CHOOSE x \in connections : TRUE
  IN  RowsOf(c.from, c.field)

\* NEXTVAL numbers the rows of the consumer; a second consumer goes on after the first.
NumberFor(generator, key) ==
  LET consumers == {c.to : c \in {x \in mapping.connectors : x.from = generator}}
      inOrder == SelectSeq(NameOrder, LAMBDA n : \E k \in consumers : k[1] = n)
      before == {k \in consumers : k # key /\ k[1] = inOrder[1]}
  IN  Number(Definition(generator).name, Definition(generator).increment, RowsOver(RowsFrom(key)),
             {ValueOf(c.from, c.field) : c \in RowsFrom(key)},
             IF before = {} THEN NoRows ELSE RowsOver(RowsFrom(CHOOSE k \in before : TRUE)))

\* What an input port gets; an unconnected one is NULL.
GivenTo(key, port) ==
  LET over == {c \in Into(key) : c.port = port}
      c == CHOOSE x \in over : TRUE
  IN  IF over = {} THEN Literal("NULL")
      ELSE IF IsGenerator(c.from) THEN NumberFor(c.from, key) ELSE ValueOf(c.from, c.field)

TestOf(key, condition, constant) ==
  IF condition = None THEN Literal(constant) ELSE TermOf(key, condition, "")

Keys(key) == {GivenTo(key, p.name) : p \in {q \in PortsOf(key) : q.key}}

\* Ports an expression reads outside its aggregates.
RECURSIVE Bare(_)
Bare(e) ==
  CASE e.tag = "port" -> {e.name}
    [] e.tag \in {"call", "lookup"} -> UNION {Bare(e.args[i]) : i \in DOMAIN e.args}
    [] e.tag \in {"literal", "other", "aggregate"} -> {}

\* The term of an expression over ports with the given values.
RECURSIVE Filled(_, _)
Filled(e, values) ==
  CASE e.tag = "port" -> values[e.name]
    [] e.tag = "call" -> Call(e.function, [i \in DOMAIN e.args |-> Filled(e.args[i], values)])
    [] e.tag = "literal" -> Literal(e.value)

\* A lookup on the rows of its table, with the input ports given; one that changes the table, or
\* replaces a value that is not found, is another thing.
LookedUp(definition, Given(_), return) ==
  LET table == LookupDataset(definition)
      rows == [read |-> table]
      Of(n) == IF PortIn(definition, n).lookup THEN [field |-> n, of |-> table] ELSE Given(n)
      condition == Filled(definition.condition, [n \in Bare(definition.condition) |-> Of(n)])
      changing == definition.dynamic \/ \E p \in ToSet(definition.ports) : p.default
  IN  [value |-> IF changing THEN Undefined("lookup", return)
                 ELSE Found(Policy(definition), rows, condition, [field |-> return, of |-> table]),
       rows |-> rows, condition |-> condition]

TermMeant(key, e, before) ==
  CASE e.tag = "literal" -> Literal(e.value)
    [] e.tag = "other"   -> Undefined("syntax", key[1])
    [] e.tag = "port"    ->
         LET port == PortOf(key, e.name)
             order == Definition(key).ports
             Place(n) == CHOOSE i \in DOMAIN order : order[i].name = n
         IN  IF ~ \E p \in PortsOf(key) : p.name = e.name THEN Undefined("port", e.name)
             ELSE IF port.variable
             THEN IF before # "" /\ Place(e.name) >= Place(before)
                  THEN Undefined("previous row", e.name)
                  ELSE TermOf(key, port.expression, e.name)
             ELSE GivenTo(key, e.name)
    [] e.tag \in {"call", "aggregate"} ->
         Call(e.function, [i \in DOMAIN e.args |-> TermOf(key, e.args[i], before)])
    [] e.tag = "lookup" ->
         LET definition == LookupDefinition(e.name)
             inputs == LookupInputs(definition)
             Given(n) == TermOf(key, e.args[CHOOSE i \in DOMAIN inputs : inputs[i].name = n], before)
         IN  LookedUp(definition, Given, (CHOOSE p \in LookupReturns(definition) : TRUE).name).value

ValueMeant(key, field) ==
  LET d == Definition(key)
      type == key[2]
      port == PortOf(key, field)
      Given(n) == GivenTo(key, n)
      known == type = "Source Definition" \/ \E p \in PortsOf(key) : p.name = field
  IN  CASE ~ known -> Undefined("field", field)
        [] type = "Source Definition" -> [field |-> field, of |-> "src." \o d.name]
        [] known /\ type = "Router" -> GivenTo(key, port.ref)
        [] known /\ type = "Expression" /\ ~ port.input -> TermOf(key, port.expression, "")
        [] known /\ type = "Lookup Procedure" /\ port.lookup -> LookedUp(d, Given, field).value
        [] known /\ type = "Aggregator" /\ ~ port.key ->
             IF port.input \/ ~ Bare(port.expression) \subseteq {p.name : p \in {q \in PortsOf(key) : q.key}}
             THEN Undefined("last row", field)
             ELSE Aggregated(RowsOver(RowsFrom(key)), Keys(key), TermOf(key, port.expression, ""))
        [] OTHER -> GivenTo(key, field)

\* A router has rows for each group.
RowsMeant(key, field) ==
  LET d == Definition(key)
      type == key[2]
      rows == RowsOver(RowsFrom(key))
      Given(n) == GivenTo(key, n)
  IN  CASE type = "Source Definition" -> [read |-> "src." \o d.name]
        [] type = "Filter" -> Kept(rows, TestOf(key, d.condition, "TRUE"))
        [] type = "Router" ->
             LET group == PortOf(key, field).group
                 tested == {g \in ToSet(d.groups) : ~ g.default}
             IN  IF \E g \in tested : g.name = group
                 THEN Kept(rows, TestOf(key, (CHOOSE g \in tested : g.name = group).condition, "FALSE"))
                 ELSE Rest(rows, {TestOf(key, g.condition, "FALSE") : g \in tested})
        [] type = "Joiner" ->
             JoinedRows(JoinTypes[d.type], RowsOver(SideOf(key, FALSE)), RowsOver(SideOf(key, TRUE)),
                        TestOf(key, d.condition, "TRUE"))
        [] type = "Sorter" ->
             IF d.distinct THEN Grouped(rows, {GivenTo(key, p.name) : p \in
                                                 {q \in PortsOf(key) : q.name \in Fed(key)}})
             ELSE rows
        [] type = "Aggregator" ->
             IF Keys(key) # {} THEN Grouped(rows, Keys(key))
             ELSE Kept(Grouped(rows, {}),
                       Call("gt", <<Aggregated(rows, {}, Call("count_all", <<>>)), Literal("0")>>))
        [] type = "Lookup Procedure" ->
             LET found == LookedUp(d, Given, "") IN Matched(rows, Policy(d), found.rows, found.condition)
        [] OTHER -> rows

Meant(what, key, x) ==
  CASE what = "rows"  -> RowsMeant(key, x)
    [] what = "value" -> ValueMeant(key, x)
    [] what = "term"  -> TermMeant(key, x.of, x.before)

\* Rows to update in a file, in a target that is truncated or in one without a primary key: a
\* load that is not supported, whatever the writer makes of updates
\* (src/docs/sources/powercenter.md:72-74).
UnsupportedUpdate(key) ==
  /\ key[2] = "Target Definition"
  /\ mapping.session # None
  /\ "update" \in RowsAskedOver(key, mapping.connectors)
  /\ LET writer == WriterOf(key[1])
     IN  writer.file \/ writer.truncate \/ Definition(key).keys = {}

\* How the rows of a target are loaded: what the session asks for, and what its writer allows.
ModeOf(key) ==
  LET writer == WriterOf(key[1])
      updates == mapping.session # None /\ "update" \in RowsAskedOver(key, mapping.connectors)
  IN  CASE mapping.session = None -> "append"
        [] UnsupportedUpdate(key) -> "unsupported"
        [] updates /\ ~ UnsupportedUpdate(key) ->
             IF writer.asInsert THEN "append" ELSE IF writer.elseInsert THEN "upsert" ELSE "update"
        [] mapping.session # None /\ ~ updates ->
             IF (writer.file /\ ~ writer.append) \/ (~ writer.file /\ writer.truncate)
             THEN "overwrite" ELSE "append"

LoadMeant(key) ==
  [dataset |-> "tgt." \o Definition(key).name, mode |-> ModeOf(key),
   keys |-> IF ModeOf(key) \in {"update", "upsert"} THEN Definition(key).keys ELSE {},
   rows |-> RowsOver(RowsFrom(key)),
   columns |-> [n \in {c.port : c \in Into(key)} |-> GivenTo(key, n)]]

(***************************************************************************)
(* Properties                                                              *)
(***************************************************************************)

\* A flow both emitters may render: nothing unsupported, opaque or unsound in it, and one
\* upstream per slot.
Supported == Errors(flow) = {} /\ UnsupportedOps(flow) = {} /\ OpaqueExpressions(flow) = {}

\* Unsupported updates that are carried out all the same: a writer that updates as inserts makes
\* an append before the table's truncation and its keys are looked at (normalize.py:1228-1231).
UpdatedAsInsert(key) == UnsupportedUpdate(key) /\ WriterOf(key[1]).asInsert /\ ~ WriterOf(key[1]).file

\* A dataflow that can be emitted loads into each target the rows and the values the mapping
\* gives it, in the mode its session asks for, and holds no load that is not supported: through
\* generators and their copies, groups and renamed ports of routers, sides of joiners,
\* variables, calls of unconnected lookups, and ports that were dropped
\* (src/docs/sources/powercenter.md:40-74).  Left out are the targets of UpdatedAsInsert, which
\* ConvertedAsDocumented is about.
MeaningKept ==
  Done /\ Supported =>
    \A key \in Exported :
      key[2] = "Target Definition" /\ ~ UpdatedAsInsert(key) =>
        LoadOf(flow, OpId(key)) = LoadMeant(key)

(* Connectors join ports that are there. *)
WellFormed ==
  \A c \in mapping.connectors :
    /\ {c.from, c.to} \subseteq Exported
    /\ \/ IsGenerator(c.from)
       \/ Definition(c.from) = None
       \/ IF c.from[2] = "Source Definition" THEN c.field \in Datasets["src." \o Definition(c.from).name]
          ELSE \E p \in PortsOf(c.from) : p.name = c.field /\ p.output
    /\ \/ Definition(c.to) = None
       \/ IF c.to[2] = "Target Definition" THEN c.port \in Datasets["tgt." \o Definition(c.to).name]
          ELSE \E p \in PortsOf(c.to) : p.name = c.port /\ p.input

\* Errors that are left when row-aligned inputs are fused: an operation with several upstreams
\* in a slot is fused, or becomes unsupported (RowAlignment).
ErrorsLeft == {e \in Errors(flow) : <<"IR-V-013", e[2]>> \notin Errors(flow)}

\* A global aggregator, one without keys, makes two expressions of its own; a port it computes
\* may have the id of one (normalize.py:2037).
OwnExpressions ==
  UNION {{<<"IR-V-001", ExId(OpId(k), n)>> :
            n \in {"rows", "nonempty"} \cap Names({p \in Outputs(k) : ~ p.input})} :
           k \in {x \in Exported : x[2] = "Aggregator" /\ Buildable(x) /\ GroupKeys(x) = {}}}

\* The second block of a generator goes after the group "out" of what feeds the first consumer,
\* which a router has not.
AfterRouter ==
  {<<"IR-V-008", OpId(k)>> :
     k \in {x \in Exported : /\ x[2] = "Router" /\ DefinitionOf(x) # None
                             /\ \E s \in DOMAIN sequences : Buildable(s) /\ x \in sequences[s].after}}

\* A Source Qualifier that nothing feeds and nobody reads is built, as a projection of nothing.
Unsourced ==
  {<<"IR-V-018", OpId(k)>> :
     k \in {x \in Exported : x[2] = "Source Qualifier" /\ Incoming(x) = {} /\ Buildable(x)}}

\* Calls an expression makes, those of its variables included.
CallsMade(key) ==
  LET set == ExpressionEnv(key)
  IN  TranslateOutputs(SelectSeq(Ports(key), LAMBDA p : p.output /\ ~ p.input), set.env, set.calls).calls

\* An argument of a lookup call that holds another call, itself or by a variable, reads the
\* column of that call before it is there: all arguments are computed at once.
CallsInArguments ==
  LET Nested(k) == \E m, n \in DOMAIN CallsMade(k) : \E a \in ToSet(CallsMade(k)[n].args) :
                      CallColumn(m) \in ColumnsOf(a)
  IN  {<<"IR-V-015", OpId(k) \o ".lkp-args">> :
         k \in {x \in Exported : x[2] = "Expression" /\ Buildable(x) /\ Nested(x)}}

\* Whatever the mapping, if its connectors join ports that are there, the errors of the document
\* made of it are those of the four causes above and no others: what cannot be translated
\* becomes an unsupported operation or an opaque expression, and never an id that is taken, an
\* edge from a group that is not there, a slot without input, a cycle or a column nobody makes
\* (Normalizer.dataflow against canonical/invariants.py).  That there are four at all is against
\* what the documents say, which ConvertedAsDocumented is about.
OnlyKnownErrors ==
  Done /\ WellFormed =>
    ErrorsLeft = OwnExpressions \cup AfterRouter \cup Unsourced \cup CallsInArguments

\* A sound mapping becomes a document without errors, as the conformance test asserts of every
\* document (src/src/etlir/testing/conformance.py:64-65), with the two blocks of a generator,
\* the global aggregates and the lookup calls that the documentation describes, and with an
\* unsupported operation for an update it calls unsupported and for a transformation without
\* any input (src/docs/sources/powercenter.md:49,72-87).
ConvertedAsDocumented ==
  Done /\ WellFormed =>
    /\ ErrorsLeft = {}
    /\ \A key \in Exported : UnsupportedUpdate(key) => Op(flow, OpId(key)).kind = "unsupported"

\* Columns an operation selects from what arrives, as the emitters write its statement.
Selected(op) ==
  LET declared == UNION Range(op.outputs)
  IN  CASE op.kind \in {"project", "filter", "route", "join"} -> declared
        [] op.kind \in {"derive", "aggregate"} -> declared \ DOMAIN op.assigned
        [] op.kind = "lookup"   -> declared \ DOMAIN op.returns
        [] op.kind = "sequence" -> declared \ {op.column}
        [] op.kind \in {"read", "write", "unsupported"} -> {}

\* A flow without findings can be emitted even if connectors of the mapping name fields and ports
\* nobody has: every column a statement selects arrives there, so no job fails on a name
\* (canonical/invariants.py:369-499; targets/duckdb/emitter.py:444-612).
ColumnsArrive ==
  Done /\ Supported =>
    \A op \in ToSet(flow.operations) : Selected(op) \subseteq Visible(flow, op.id)
=============================================================================

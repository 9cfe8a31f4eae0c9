-------------------------- MODULE MappingNormaliser --------------------------
(***************************************************************************)
(* From a PowerCenter mapping to a canonical dataflow                      *)
(* (src/etlir/sources/powercenter/normalize.py, Normalizer.dataflow):      *)
(* Sequence Generators are spliced into the connectors, then each instance *)
(* becomes an operation, or an unsupported one, with its edges.            *)
(*                                                                         *)
(* Data types are left out, and with them conversions; so are qualifiers   *)
(* and lookups with SQL of their own, and mappings where one slot gets     *)
(* several upstreams, which fuse_row_aligned treats (RowAlignment).  The   *)
(* dataset registered for a lookup that is then refused, or whose result   *)
(* nothing reads, stays in the document; it is left out too.               *)
(***************************************************************************)
EXTENDS CanonicalDataflow

\* A mapping has instances (name, type and definition, None if it is not found), connectors
\* and a session, or None.  A transformation has ports and attributes.  An expression of a port
\* is a tree of ports, calls, aggregate calls, lookup calls and anything else.
CONSTANTS
  Mappings,
  Datasets,  \* the datasets of the folder, "src." or "tgt." and a name -> columns
  NameOrder  \* the names of instances, sorted

VARIABLES
  mapping,     \* the mapping and its session
  connectors,  \* its connectors, rewritten by splicing
  instances,   \* instances in order, the copies made by splicing last
  sequences,   \* spliced generator -> what passes through it, its column, what goes before
  todo,        \* generators still to be looked at
  pending,     \* instances still to be built
  flow         \* the dataflow built so far

vars == <<mapping, connectors, instances, sequences, todo, pending, flow>>

None == [none |-> TRUE]

Key(instance) == <<instance.name, instance.type>>
KeysOf(seq) == {Key(seq[i]) : i \in DOMAIN seq}
InstanceOf(key) == CHOOSE i \in ToSet(instances) : Key(i) = key
DefinitionOf(key) == InstanceOf(key).definition

SequenceTypes == {"Sequence", "Sequence Generator"}

Incoming(key) == {c \in connectors : c.to = key}
Outgoing(key) == {c \in connectors : c.from = key}
Fed(key) == {c.port : c \in Incoming(key)}

Connector(from, field, to, port) == [from |-> from, field |-> field, to |-> to, port |-> port]

Init ==
  /\ mapping \in Mappings
  /\ connectors = mapping.connectors
  /\ instances = mapping.instances
  /\ sequences = <<>>
  /\ todo = SelectSeq(mapping.instances,
                      LAMBDA i : i.type \in SequenceTypes /\ i.definition # None)
  /\ pending = mapping.instances
  /\ flow = [operations |-> <<>>, expressions |-> <<>>, edges |-> {}, datasets |-> Datasets]

(***************************************************************************)
(* Sequence Generators                                                     *)
(***************************************************************************)

\* port_types: what a consumer may be fed.
InputsOf(key) ==
  LET definition == DefinitionOf(key)
      dataset == "tgt." \o definition.name
  IN  IF key[2] = "Target Definition" THEN (IF dataset \in DOMAIN Datasets THEN Datasets[dataset] ELSE {})
      ELSE {p.name : p \in {q \in ToSet(definition.ports) : q.input}}

\* The other connectors of a consumer.
Feeding(key, consumer) == {c \in Incoming(consumer) : c.from # key}

\* NEXTVAL feeds one port of one or two transformations, each of which has one other upstream.
MayBeSpliced(key) ==
  LET consumers == {c.to : c \in Outgoing(key)}
  IN  /\ Outgoing(key) # {}
      /\ \A c \in Outgoing(key) : c.field = "NEXTVAL"
      /\ Cardinality(Outgoing(key)) = Cardinality(consumers)
      /\ Cardinality(consumers) <= 2
      /\ \A k \in consumers :
           /\ Cardinality({c.from : c \in Feeding(key, k)}) = 1
           /\ k \in KeysOf(instances) /\ DefinitionOf(k) # None
           /\ {c.port : c \in Feeding(key, k)} \subseteq InputsOf(k)

\* What flows into a consumer goes through a generator, which adds the number.
Through(key, generator, consumer) ==
  LET out == CHOOSE c \in Outgoing(key) : c.to = consumer
      feeding == Feeding(key, consumer)
  IN  {Connector(c.from, c.field, generator, c.port) : c \in feeding}
      \cup {Connector(generator, c.port, consumer, c.port) : c \in feeding}
      \cup {Connector(generator, out.port, consumer, out.port)}

UpstreamInstance(key, consumer) == (CHOOSE c \in Feeding(key, consumer) : TRUE).from

Block(key, consumer, after) ==
  [passed |-> {c.port : c \in Feeding(key, consumer)},
   column |-> (CHOOSE c \in Outgoing(key) : c.to = consumer).port,
   after  |-> after]

\* The consumers in order of their names.
ConsumersInOrder(key) ==
  LET consumers == {c.to : c \in Outgoing(key)}
      names == SelectSeq(NameOrder, LAMBDA n : \E k \in consumers : k[1] = n)
  IN  [i \in DOMAIN names |-> CHOOSE k \in consumers : k[1] = names[i]]

Second(key) == <<key[1] \o "#2", key[2]>>

\* One generator: the first consumer has the generator itself, the second a copy of it.
Splice ==
  /\ todo # <<>>
  /\ LET instance == Head(todo)
         key == Key(instance)
         consumers == ConsumersInOrder(key)
         one == consumers[1]
         two == consumers[2]
         copy == [instance EXCEPT !.name = Second(key)[1]]
         both == Len(consumers) = 2
     IN  IF ~ MayBeSpliced(key)
         THEN UNCHANGED <<connectors, instances, sequences, pending>>
         ELSE /\ connectors' =
                   (connectors \ (Outgoing(key) \cup UNION {Feeding(key, k) : k \in ToSet(consumers)}))
                     \cup Through(key, key, one)
                     \cup IF both THEN Through(key, Second(key), two) ELSE {}
              /\ sequences' = sequences @@ (key :> Block(key, one, {}))
                   @@ IF both THEN Second(key) :> Block(key, two, {UpstreamInstance(key, one)}) ELSE <<>>
              /\ instances' = IF both THEN Append(instances, copy) ELSE instances
              /\ pending' = IF both THEN Append(pending, copy) ELSE pending
  /\ todo' = Tail(todo)
  /\ UNCHANGED <<mapping, flow>>

(***************************************************************************)
(* Instances and their surroundings                                        *)
(***************************************************************************)

OpId(key) ==
  IF \E i \in ToSet(instances) : i.name = key[1] /\ i.type # key[2]
  THEN key[1] \o "." \o key[2] ELSE key[1]

\* The group and column a connector reads: a router's ports are renamed input ports.
Upstream(c) ==
  LET known == c.from \in KeysOf(instances) /\ DefinitionOf(c.from) # None
      routed == IF known /\ c.from[2] = "Router"
                THEN {p \in ToSet(DefinitionOf(c.from).ports) : p.name = c.field /\ p.output}
                ELSE {}
      port == CHOOSE p \in routed : TRUE
  IN  IF routed = {} THEN <<"out", c.field>>
      ELSE <<port.group, IF port.ref = "" THEN port.name ELSE port.ref>>

\* Mutant of Dropped: a port that passes something on is dropped too.
DroppedThoughRead(key) ==
  IF key[2] \notin {"Source Qualifier", "Filter", "Router", "Joiner", "Sorter"} THEN {}
  ELSE {p.name : p \in {q \in ToSet(DefinitionOf(key).ports) : q.input /\ q.name \notin Fed(key)}}

\* Ports that get nothing and pass nothing on carry no data; for these types they are dropped.
Dropped(key) ==
  LET ports == ToSet(DefinitionOf(key).ports)
      read  == {c.field : c \in Outgoing(key)}
      used  == read \cup {p.ref : p \in {q \in ports : q.name \in read}}
  IN  IF key[2] \notin {"Source Qualifier", "Filter", "Router", "Joiner", "Sorter"} THEN {}
      ELSE {p.name : p \in {q \in ports : q.input /\ q.name \notin Fed(key) \cup used}}

Ports(key) ==
  SelectSeq(DefinitionOf(key).ports,
            LAMBDA p : p.name \notin Dropped(key) /\ p.ref \notin Dropped(key))

PortSet(key) == ToSet(Ports(key))
Inputs(key)  == {p \in PortSet(key) : p.input}
Outputs(key) == {p \in PortSet(key) : p.output}
Names(ports) == {p.name : p \in ports}
Unconnected(key) == Names(Inputs(key)) \ Fed(key)

\* What lies above some instances.
RECURSIVE Above(_, _)
Above(keys, links) ==
  LET more == {c.from : c \in {x \in links : x.to \in keys}} \ keys
  IN  IF more = {} THEN keys ELSE Above(keys \cup more, links)

RowOperations == [DD_INSERT |-> "insert", DD_UPDATE |-> "update", DD_DELETE |-> "delete",
                  DD_REJECT |-> "reject"]
RowOperation(definition) ==
  IF definition.strategy \in DOMAIN RowOperations THEN RowOperations[definition.strategy]
  ELSE "expression"

Strategies(target, links) ==
  {RowOperation(DefinitionOf(k)) :
     k \in {u \in Above({target}, links) \ {target} :
              u[2] = "Update Strategy" /\ u \in KeysOf(instances) /\ DefinitionOf(u) # None}}

(***************************************************************************)
(* Expressions of ports                                                    *)
(***************************************************************************)

\* An environment: the ports that are columns, the ports that stand for an expression, the
\* variables not set yet, whether aggregates are allowed and with which keys.
Env(columns) ==
  [columns |-> columns, inline |-> <<>>, unset |-> {}, aggregates |-> FALSE, keys |-> {},
   calls |-> FALSE, within |-> FALSE]

Resolve(env, name) ==
  IF name \in DOMAIN env.inline THEN env.inline[name]
  ELSE IF name \in env.columns \ env.unset
          /\ (env.aggregates /\ ~ env.within => name \in env.keys)
  THEN Column(name) ELSE OpaqueNode

LookupDefinition(name) ==
  LET of == {i \in ToSet(instances) : i.name = name /\ i.type = "Lookup Procedure"}
  IN  IF of = {} THEN None ELSE (CHOOSE i \in of : TRUE).definition

LookupInputs(definition)  == SelectSeq(definition.ports, LAMBDA p : p.input)
LookupReturns(definition) ==
  LET declared == {p \in ToSet(definition.ports) : p.return}
  IN  IF declared # {} THEN declared
      ELSE {p \in ToSet(definition.ports) : p.output /\ p.lookup}

Policy(definition) ==
  CASE definition.policy = "Use Any Value" -> "any"
    [] definition.policy = "Return All Values" -> "all"
    [] definition.policy \notin {"Use Any Value", "Return All Values"} -> "error"

RECURSIVE Translate(_, _, _)

\* Arguments from left to right; the first that is opaque makes the whole opaque.
RECURSIVE TranslateAll(_, _, _)
TranslateAll(env, args, calls) ==
  IF args = <<>> THEN [asts |-> <<>>, calls |-> calls, opaque |-> FALSE]
  ELSE LET first == Translate(env, Head(args), calls)
           rest  == TranslateAll(env, Tail(args), first.calls)
       IN  IF IsOpaque(first.ast) THEN [asts |-> <<>>, calls |-> first.calls, opaque |-> TRUE]
           ELSE [rest EXCEPT !.asts = <<first.ast>> \o rest.asts]

Result(ast, calls) == [ast |-> ast, calls |-> calls]

LookupCondition(definition) ==
  Translate(Env(Names({p \in ToSet(definition.ports) : p.input \/ p.lookup})),
            definition.condition, <<>>).ast

\* lookup_parts raises.
LookupRefused(definition) ==
  \/ definition.dynamic
  \/ \E p \in ToSet(definition.ports) : p.default
  \/ ~ \E p \in ToSet(definition.ports) : p.lookup
  \/ definition.condition = None
  \/ IsOpaque(LookupCondition(definition))

CallColumn(k) == "__lkp" \o ToString(k)

\* An unconnected lookup: one call per lookup and arguments, whose column the expression reads.
CallLookup(name, args, calls) ==
  LET definition == LookupDefinition(name)
      call == [name |-> name, args |-> args]
      known == {k \in DOMAIN calls : calls[k] = call}
  IN  IF \/ definition = None
         \/ Cardinality(LookupReturns(definition)) # 1
         \/ Len(args) # Len(LookupInputs(definition))
         \/ LookupRefused(definition)
         \/ Policy(definition) = "all"
      THEN Result(OpaqueNode, calls)
      ELSE IF known # {} THEN Result(Column(CallColumn(CHOOSE k \in known : TRUE)), calls)
      ELSE Result(Column(CallColumn(Len(calls) + 1)), Append(calls, call))

Translate(env, e, calls) ==
  LET inner == [env EXCEPT !.within = TRUE]
      args  == IF e.tag = "aggregate" THEN TranslateAll(inner, e.args, calls)
               ELSE TranslateAll(env, e.args, calls)
  IN  CASE e.tag = "port"    -> Result(Resolve(env, e.name), calls)
        [] e.tag = "literal" -> Result(Literal(e.value), calls)
        [] e.tag = "other"   -> Result(OpaqueNode, calls)
        [] e.tag \in {"call", "aggregate", "lookup"} ->
             IF \/ e.tag = "aggregate" /\ (~ env.aggregates \/ env.within)
                \/ e.tag = "lookup" /\ (~ env.calls \/ env.within)
             THEN Result(OpaqueNode, calls)
             ELSE IF args.opaque THEN Result(OpaqueNode, args.calls)
             ELSE IF e.tag = "lookup" THEN CallLookup(e.name, args.asts, args.calls)
             ELSE Result(Call(e.function, args.asts), args.calls)

(***************************************************************************)
(* What is built of an instance: its operation (outputs included), what    *)
(* goes before it and between (more operations and edges), expressions,    *)
(* and the operation its connectors feed                                   *)
(***************************************************************************)

Expression(id, ast) == [id |-> id, ast |-> ast]
Edge(from, group, to, input, columns) ==
  [from |-> from, group |-> group, to |-> to, input |-> input, columns |-> columns]
Same(names) == {<<n, n>> : n \in names}
Out(columns) == ("out" :> columns)

Built(operation, expressions) ==
  [operation |-> operation, expressions |-> expressions, before |-> <<>>, edges |-> {},
   target |-> operation.id, datasets |-> <<>>]

Operation(id, kind, outputs) == [id |-> id, kind |-> kind, outputs |-> outputs]

ExId(id, suffix) == "ex:" \o id \o "." \o suffix

ReadOp(id, dataset) == Operation(id, "read", <<>>) @@ [dataset |-> dataset]
Project(id, ports) ==
  Operation(id, "project", Out(Names(ports))) @@ [columns |-> Names(ports)]
Derive(id, columns, assigned) == Operation(id, "derive", Out(columns)) @@ [assigned |-> assigned]
Aggregate(id, columns, keys, assigned) ==
  Operation(id, "aggregate", Out(columns)) @@ [keys |-> keys, assigned |-> assigned]
FilterOp(id, columns, condition) ==
  Operation(id, "filter", Out(columns)) @@ [condition |-> condition]
Write(id, dataset, mode, keys) ==
  Operation(id, "write", <<>>) @@ [dataset |-> dataset, mode |-> mode, keys |-> keys]

\* A condition over the inputs of an instance; one that is empty stands for a constant.
ConditionOf(key, text, constant) ==
  IF text = None THEN Literal(constant)
  ELSE Translate(Env(Names(Inputs(key))), text, <<>>).ast

(* Targets *)

\* The writer of a target in the session, if it has one.
WriterOf(name) ==
  IF name \in DOMAIN mapping.session.writers THEN mapping.session.writers[name]
  ELSE [file |-> FALSE, append |-> FALSE, truncate |-> FALSE, asInsert |-> FALSE, elseInsert |-> FALSE]

\* An insert session inserts every row; a data-driven one does what the strategies say.
RowsAskedOver(key, links) ==
  IF mapping.session.treat = "data driven" /\ Strategies(key, links) # {} THEN Strategies(key, links)
  ELSE {"insert"}
RowsAsked(key) == RowsAskedOver(key, connectors)

TargetDataset(key) == "tgt." \o DefinitionOf(key).name

WriteRefused(key) ==
  LET writer == WriterOf(key[1])
  IN  \/ TargetDataset(key) \notin DOMAIN Datasets
      \/ /\ mapping.session # None
         /\ \/ mapping.session.treat \notin {"insert", "data driven"}
            \/ Cardinality(RowsAsked(key)) > 1
            \/ RowsAsked(key) \cap {"delete", "reject", "expression"} # {}
            \/ /\ RowsAsked(key) = {"update"}
               /\ \/ writer.file
                  \/ ~ writer.asInsert /\ (writer.truncate \/ DefinitionOf(key).keys = {})

WriteModeOf(key) ==
  LET writer == WriterOf(key[1])
  IN  CASE mapping.session = None -> "append"
        [] mapping.session # None /\ RowsAsked(key) = {"update"} ->
             IF writer.asInsert THEN "append" ELSE IF writer.elseInsert THEN "upsert" ELSE "update"
        [] mapping.session # None /\ RowsAsked(key) # {"update"} ->
             IF writer.file THEN (IF writer.append THEN "append" ELSE "overwrite")
             ELSE IF writer.truncate THEN "overwrite" ELSE "append"

BuildWrite(key) ==
  Built(Write(OpId(key), TargetDataset(key), WriteModeOf(key),
              IF WriteModeOf(key) \in {"update", "upsert"} THEN DefinitionOf(key).keys ELSE {}), <<>>)

(* Generators *)

BuildSequence(key) ==
  LET block == sequences[key]
      op == Operation(OpId(key), "sequence", Out(block.passed \cup {block.column}))
              @@ [column |-> block.column, start |-> DefinitionOf(key).name,
                  increment |-> DefinitionOf(key).increment]
  IN  [Built(op, <<>>) EXCEPT
        !.edges = {Edge(OpId(k), "out", OpId(key), "after", {}) : k \in block.after}]

(* Lookups *)

\* Lookup ports that the condition reads or that are returned.
LookupColumns(definition) ==
  Names({p \in ToSet(definition.ports) :
           p.lookup /\ (p.output \/ p.name \in ColumnsOf(LookupCondition(definition)))})

\* The table of a lookup: a source or else a target of the folder that has the columns; if
\* there is none, a dataset of its own.
LookupDataset(definition) ==
  LET table == definition.table
      known == {d \in {"src." \o table, "tgt." \o table} : d \in DOMAIN Datasets}
      first == IF "src." \o table \in known THEN "src." \o table ELSE "tgt." \o table
  IN  IF known # {} /\ LookupColumns(definition) \subseteq Datasets[first] THEN first
      ELSE "lkp." \o table \o "." \o definition.name

LookupRead(definition, id) == ReadOp(id \o ".lookup-read", LookupDataset(definition))

OwnDataset(definition) ==
  IF LookupDataset(definition) \in DOMAIN Datasets THEN <<>>
  ELSE LookupDataset(definition) :> LookupColumns(definition)

LookupOp(id, columns, definition, condition, returns) ==
  Operation(id, "lookup", Out(columns))
    @@ [condition |-> condition, policy |-> Policy(definition), returns |-> returns]

BuildLookup(key) ==
  LET definition == DefinitionOf(key)
      id == OpId(key)
      returned == Names({p \in Outputs(key) : p.lookup})
      read == LookupRead(definition, id)
  IN  [Built(LookupOp(id, Names(Outputs(key)), definition, ExId(id, "condition"),
                      [n \in returned |-> n]),
             <<Expression(ExId(id, "condition"), LookupCondition(definition))>>) EXCEPT
         !.before = <<read>>,
         !.edges = {Edge(read.id, "out", id, "lookup", Same(LookupColumns(definition)))},
         !.datasets = OwnDataset(definition)]

(* Expressions *)

\* The variables in port order: each is what its expression is, in terms of those set before;
\* a variable is not set while its own expression is translated.
RECURSIVE SetVariables(_, _, _)
SetVariables(variables, env, calls) ==
  IF variables = <<>> THEN [env |-> env, calls |-> calls]
  ELSE LET v == Head(variables)
           t == Translate(env, v.expression, calls)
       IN  SetVariables(Tail(variables),
             [env EXCEPT !.inline = (v.name :> t.ast) @@ @, !.unset = @ \ {v.name}], t.calls)

RECURSIVE TranslateOutputs(_, _, _)
TranslateOutputs(outputs, env, calls) ==
  IF outputs = <<>> THEN [asts |-> <<>>, calls |-> calls]
  ELSE LET p == Head(outputs)
           t == Translate(env, p.expression, calls)
           rest == TranslateOutputs(Tail(outputs), env, t.calls)
       IN  [rest EXCEPT !.asts = (p.name :> t.ast) @@ @]

\* The environment after the variables; an input port that is not connected is NULL.
ExpressionEnv(key) ==
  LET variables == SelectSeq(Ports(key), LAMBDA p : p.variable)
      start == [Env(Names(Inputs(key)) \cap Fed(key)) EXCEPT
                  !.calls = TRUE,
                  !.inline = [n \in Unconnected(key) |-> Literal("NULL")],
                  !.unset = Names(ToSet(variables))]
  IN  SetVariables(variables, start, <<>>)

\* Mutant of Arguments: the calls of one lookup share their argument columns.
ArgumentsShared(k, call) ==
  LET inputs == LookupInputs(LookupDefinition(call.name))
  IN  [i \in DOMAIN inputs |-> "__lkp." \o inputs[i].name]

\* Columns that hold the arguments of a call, and the names its table's columns get.
Arguments(k, call) ==
  LET inputs == LookupInputs(LookupDefinition(call.name))
  IN  [i \in DOMAIN inputs |-> CallColumn(k) \o "." \o inputs[i].name]
Side(k, name) == CallColumn(k) \o "#" \o name

\* The condition of a lookup over argument columns and renamed table columns.
CallCondition(k, call) ==
  LET definition == LookupDefinition(call.name)
      inputs == LookupInputs(definition)
      args == [i \in DOMAIN inputs |-> inputs[i].name]
      Renamed(n) == IF n \in LookupColumns(definition) THEN Side(k, n)
                    ELSE Arguments(k, call)[CHOOSE i \in DOMAIN args : args[i] = n]
      ast == LookupCondition(definition)
  IN  Eval(ast, [n \in ColumnsOf(ast) |-> Column(Renamed(n))])

\* Calls become operations before the expression: one derives the arguments, then a lookup per
\* call adds its column.
MaterializeCalls(built, key, calls) ==
  LET id == built.operation.id
      inputs == Names(Inputs(key)) \cap Fed(key)
      Definition(k) == LookupDefinition(calls[k].name)
      ArgId(k, i) == ExId(id, "lkp" \o ToString(k) \o ".arg." \o LookupInputs(Definition(k))[i].name)
      pairs == UNION {{<<k, i>> : i \in DOMAIN calls[k].args} : k \in DOMAIN calls}
      Place(name) == CHOOSE x \in pairs : Arguments(x[1], calls[x[1]])[x[2]] = name
      arguments == {Arguments(x[1], calls[x[1]])[x[2]] : x \in pairs}
      assigned == [c \in arguments |-> ArgId(Place(c)[1], Place(c)[2])]
      argsId == id \o ".lkp-args"
      Id(k) == id \o ".lkp" \o ToString(k)
      Return(k) == CHOOSE p \in LookupReturns(Definition(k)) : TRUE
      Read(k) == LookupRead(Definition(k), Id(k))
      Columns(k) == inputs \cup arguments \cup {CallColumn(n) : n \in 1..k}
      Lookup(k) == LookupOp(Id(k), Columns(k), Definition(k), ExId(Id(k), "condition"),
                            (CallColumn(k) :> Side(k, Return(k).name)))
      Before(k) == IF k = 1 THEN argsId ELSE Id(k - 1)
      n == Len(calls)
  IN  [built EXCEPT
        !.before = <<Derive(argsId, inputs \cup arguments, assigned)>>
                     \o FlattenSeq([k \in DOMAIN calls |-> <<Read(k), Lookup(k)>>]),
        !.edges = {Edge(Read(k).id, "out", Id(k), "lookup",
                        {<<c, Side(k, c)>> : c \in LookupColumns(Definition(k))}) : k \in DOMAIN calls}
                  \cup {Edge(Before(k), "out", Id(k), "in", {}) : k \in DOMAIN calls}
                  \cup {Edge(Id(n), "out", id, "in", {})},
        !.expressions = @
          \o SetToSeq({Expression(ArgId(x[1], x[2]), calls[x[1]].args[x[2]]) : x \in pairs})
          \o [k \in DOMAIN calls |-> Expression(ExId(Id(k), "condition"), CallCondition(k, calls[k]))],
        !.target = argsId,
        !.datasets = FoldLeft(LAMBDA acc, d : acc @@ d, <<>>,
                              [k \in DOMAIN calls |-> OwnDataset(Definition(k))])]

BuildExpression(key) ==
  LET set == ExpressionEnv(key)
      computed == SelectSeq(Ports(key), LAMBDA p : p.output /\ ~ p.input)
      t == TranslateOutputs(computed, set.env, set.calls)
      asts == t.asts @@ [n \in Unconnected(key) \cap Names(Outputs(key)) |-> Literal("NULL")]
      id == OpId(key)
      built == Built(Derive(id, Names(Outputs(key)), [n \in DOMAIN asts |-> ExId(id, n)]),
                     SetToSeq({Expression(ExId(id, n), asts[n]) : n \in DOMAIN asts}))
  IN  IF t.calls = <<>> THEN built ELSE MaterializeCalls(built, key, t.calls)

(* Routers, joiners, aggregators *)

RouterInputs(key) == Names({p \in PortSet(key) : p.input})
RouterGroups(key) == DefinitionOf(key).groups

\* The conditions of the groups are there before the router may be refused.
GroupExpressions(key) ==
  LET tested == SelectSeq(RouterGroups(key), LAMBDA g : ~ g.default)
  IN  [i \in DOMAIN tested |->
         Expression(ExId(OpId(key), "group." \o tested[i].name), ConditionOf(key, tested[i].condition, "FALSE"))]

BuildRouter(key) ==
  LET groups == ToSet(RouterGroups(key))
  IN  Built(Operation(OpId(key), "route", [g \in Names(groups) |-> RouterInputs(key)])
              @@ [groups |-> [g \in Names({x \in groups : ~ x.default}) |-> ExId(OpId(key), "group." \o g)]],
            GroupExpressions(key))

JoinTypes == [Normal |-> "inner", MasterOuter |-> "left", DetailOuter |-> "right", FullOuter |-> "full"]

BuildJoiner(key) ==
  LET id == OpId(key)
  IN  Built(Operation(id, "join", Out(Names(Outputs(key))))
              @@ [type |-> JoinTypes[DefinitionOf(key).type], condition |-> ExId(id, "condition")],
            <<Expression(ExId(id, "condition"), ConditionOf(key, DefinitionOf(key).condition, "TRUE"))>>)

\* The slot a port belongs to: the master is the right side; a port a joiner does not have has
\* no side.
SlotOf(key, port) ==
  LET ports == IF key[2] = "Joiner" THEN ToSet(DefinitionOf(key).ports) ELSE {}
      sides == {p \in ports : p.name = port}
  IN  IF sides = {} THEN "in" ELSE IF \E p \in sides : p.master THEN "right" ELSE "left"

GroupKeys(key) == Names({p \in PortSet(key) : p.key})

\* Without group-by ports there is no row for an empty input: the rows are counted and the one
\* row kept if the count is positive.
BuildGlobal(key, columns, assigned, expressions) ==
  LET id == OpId(key)
      counted == columns \cup {"__rows"}
      aggregate == Aggregate(id \o ".aggregate", counted, {}, assigned @@ ("__rows" :> ExId(id, "rows")))
      nonempty == FilterOp(id \o ".nonempty", counted, ExId(id, "nonempty"))
  IN  [Built(Project(id, Outputs(key)), expressions \o
             <<Expression(ExId(id, "rows"), Call("count_all", <<>>)),
               Expression(ExId(id, "nonempty"),
                          Call("gt", <<Column("__rows"), Literal("0")>>))>>) EXCEPT
         !.before = <<aggregate, nonempty>>,
         !.edges = {Edge(aggregate.id, "out", nonempty.id, "in", {}),
                    Edge(nonempty.id, "out", id, "in", {})},
         !.target = aggregate.id]

BuildAggregator(key) ==
  LET env == [Env(Names(Inputs(key))) EXCEPT !.aggregates = TRUE, !.keys = GroupKeys(key)]
      computed == SelectSeq(Ports(key), LAMBDA p : p.output /\ ~ p.key)
      id == OpId(key)
      assigned == [n \in Names(ToSet(computed)) |-> ExId(id, n)]
      expressions == [i \in DOMAIN computed |->
        Expression(ExId(id, computed[i].name), Translate(env, computed[i].expression, <<>>).ast)]
      columns == Names(Outputs(key))
  IN  IF GroupKeys(key) # {} THEN Built(Aggregate(id, columns, GroupKeys(key), assigned), expressions)
      ELSE BuildGlobal(key, columns, assigned, expressions)

(***************************************************************************)
(* Building an instance                                                    *)
(***************************************************************************)

\* What the builder of each type raises on.
TypeRefuses(key) ==
  LET d == DefinitionOf(key)
      type == key[2]
      upstream == {c.from : c \in Incoming(key)}
  IN  CASE type = "Source Definition" ->
             d.hierarchical \/ "src." \o d.name \notin DOMAIN Datasets
        [] type = "Target Definition" -> WriteRefused(key)
        [] type = "Source Qualifier" ->
             \/ d.statements
             \/ \E k \in upstream : k[2] # "Source Definition"
             \/ Cardinality(upstream) > 1
             \/ Unconnected(key) # {}
        [] type \in {"Filter", "Sorter"} -> Unconnected(key) # {}
        [] type = "Update Strategy" -> RowOperation(d) = "expression" \/ Unconnected(key) # {}
        [] type = "Router" ->
             \/ Unconnected(key) # {}
             \/ \E p \in Outputs(key) : p.ref \notin RouterInputs(key)
        [] type = "Joiner" ->
             \/ d.type \notin DOMAIN JoinTypes
             \/ d.caseless
             \/ Unconnected(key) # {}
             \/ \A p \in Inputs(key) : p.master
             \/ \A p \in Inputs(key) : ~ p.master
             \/ d.condition = None
        [] type = "Aggregator" ->
             \/ \E p \in PortSet(key) : p.variable \/ (p.input /\ p.output /\ ~ p.key)
             \/ Unconnected(key) # {}
        [] type = "Lookup Procedure" -> LookupRefused(d) \/ Unconnected(key) # {}
        [] type = "Expression" -> \E p \in PortSet(key) : p.default /\ (p.input \/ p.output)
        [] type \in SequenceTypes -> key \notin DOMAIN sequences \/ d.bounded
        [] type \notin {"Source Definition", "Target Definition", "Source Qualifier", "Filter",
                        "Sorter", "Update Strategy", "Router", "Joiner", "Aggregator",
                        "Lookup Procedure", "Expression"} \cup SequenceTypes -> TRUE

Buildable(key) ==
  /\ DefinitionOf(key) # None
  /\ Incoming(key) = {} => key[2] \in {"Source Definition", "Source Qualifier"} \cup SequenceTypes
  /\ ~ TypeRefuses(key)

BuiltOf(key) ==
  LET id == OpId(key)
      d == DefinitionOf(key)
      type == key[2]
  IN  CASE type = "Source Definition" -> Built(ReadOp(id, "src." \o d.name), <<>>)
        [] type = "Target Definition" -> BuildWrite(key)
        [] type \in {"Source Qualifier", "Update Strategy"} -> Built(Project(id, Outputs(key)), <<>>)
        [] type = "Sorter" ->
             Built(IF d.distinct
                   THEN Aggregate(id, Names(Outputs(key)), Names(Outputs(key)), <<>>)
                   ELSE Project(id, Outputs(key)), <<>>)
        [] type = "Filter" ->
             Built(FilterOp(id, Names(Outputs(key)), ExId(id, "condition")),
                   <<Expression(ExId(id, "condition"), ConditionOf(key, d.condition, "TRUE"))>>)
        [] type = "Router" -> BuildRouter(key)
        [] type = "Joiner" -> BuildJoiner(key)
        [] type = "Aggregator" -> BuildAggregator(key)
        [] type = "Lookup Procedure" -> BuildLookup(key)
        [] type = "Expression" -> BuildExpression(key)
        [] type \in SequenceTypes -> BuildSequence(key)

\* Edges of the connectors of an instance: one per upstream, its group and slot.
EdgesOf(key, target, slots) ==
  LET ins == {c \in Incoming(key) : c.from \in KeysOf(instances)}
      Of(c) == <<c.from, Upstream(c)[1], slots[c]>>
  IN  {Edge(OpId(Of(c)[1]), Of(c)[2], target, Of(c)[3],
            {<<Upstream(x)[2], x.port>> : x \in {y \in ins : Of(y) = Of(c)}}) : c \in ins}

FlowWith(key, built) ==
  LET slots == [c \in Incoming(key) |-> SlotOf(key, c.port)]
  IN  [flow EXCEPT
        !.operations = @ \o <<built.operation>> \o built.before,
        !.expressions = @ \o built.expressions,
        !.edges = @ \cup built.edges \cup EdgesOf(key, built.target, slots),
        !.datasets = @ @@ built.datasets]

K == Key(Head(pending))

\* An unconnected lookup is a function, built where it is called.
IsFunction(key) == key[2] = "Lookup Procedure" /\ Incoming(key) = {} /\ Outgoing(key) = {}

SkipFunction ==
  /\ todo = <<>>
  /\ pending # <<>>
  /\ IsFunction(K)
  /\ pending' = Tail(pending)
  /\ UNCHANGED <<mapping, connectors, instances, sequences, todo, flow>>

Build ==
  /\ todo = <<>>
  /\ pending # <<>>
  /\ ~ IsFunction(K)
  /\ Buildable(K)
  /\ flow' = FlowWith(K, BuiltOf(K))
  /\ pending' = Tail(pending)
  /\ UNCHANGED <<mapping, connectors, instances, sequences, todo>>

\* Unsupported: its outputs are those that are read, each upstream has a slot of its own, and
\* the expressions of a router stay.
BuildUnsupported ==
  /\ todo = <<>>
  /\ pending # <<>>
  /\ ~ IsFunction(K)
  /\ ~ Buildable(K)
  /\ LET read == {Upstream(c) : c \in Outgoing(K)}
         outputs == [g \in {r[1] : r \in read} |-> {r[2] : r \in {x \in read : x[1] = g}}]
         slots == [c \in Incoming(K) |-> "in:" \o c.from[1] \o c.from[2] \o Upstream(c)[1]]
     IN  flow' = [flow EXCEPT
           !.operations = Append(@, Operation(OpId(K), "unsupported", outputs)),
           !.edges = @ \cup EdgesOf(K, OpId(K), slots),
           !.expressions = IF DefinitionOf(K) # None /\ K[2] = "Router" /\ Incoming(K) # {}
                                /\ Unconnected(K) = {}
                           THEN @ \o GroupExpressions(K) ELSE @]
  /\ pending' = Tail(pending)
  /\ UNCHANGED <<mapping, connectors, instances, sequences, todo>>

Next == Splice \/ SkipFunction \/ Build \/ BuildUnsupported

Spec == Init /\ [][Next]_vars

Done == todo = <<>> /\ pending = <<>>
=============================================================================

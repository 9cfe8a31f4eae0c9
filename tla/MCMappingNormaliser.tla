------------------------- MODULE MCMappingNormaliser -------------------------
(***************************************************************************)
(* Mappings for MappingNormaliser: chains of two transformations out of    *)
(* every type and its variants, and shapes of their own for generators,    *)
(* routers, joiners, sessions and connectors that are wrong.               *)
(***************************************************************************)
EXTENDS MappingMeaning

(* Ports and expressions of the export *)

Port(n) ==
  [name |-> n, input |-> FALSE, output |-> FALSE, variable |-> FALSE, master |-> FALSE,
   lookup |-> FALSE, return |-> FALSE, group |-> "", ref |-> "", key |-> FALSE,
   expression |-> None, default |-> FALSE]
In(n) == [Port(n) EXCEPT !.input = TRUE]
InOut(n) == [In(n) EXCEPT !.output = TRUE]
Computed(n, e) == [Port(n) EXCEPT !.output = TRUE, !.expression = e]
Var(n, e) == [Port(n) EXCEPT !.variable = TRUE, !.expression = e]
KeyPort(n) == [InOut(n) EXCEPT !.key = TRUE]
MasterPort(n) == [InOut(n) EXCEPT !.master = TRUE]
Routed(n, group, ref) == [Port(n) EXCEPT !.output = TRUE, !.group = group, !.ref = ref]
LookupPort(n) == [Port(n) EXCEPT !.output = TRUE, !.lookup = TRUE]
Returned(n) == [LookupPort(n) EXCEPT !.return = TRUE]

Ref(n) == [tag |-> "port", name |-> n]
Lit(v) == [tag |-> "literal", value |-> v]
Fn(f, args) == [tag |-> "call", function |-> f, args |-> args]
Agg(f, args) == [tag |-> "aggregate", function |-> f, args |-> args]
Lkp(n, args) == [tag |-> "lookup", name |-> n, args |-> args]
Strange == [tag |-> "other"]

Instance(name, type, definition) == [name |-> name, type |-> type, definition |-> definition]

(* The folder *)

MCDatasets ==
  ("src.s" :> {"a", "b"}) @@ ("src.r" :> {"c", "d"})
    @@ ("tgt.t" :> {"a", "b", "n"}) @@ ("tgt.u" :> {"a", "b", "n"})

MCNameOrder == <<"e", "f", "t", "u">>

SourceS == Instance("s", "Source Definition", [name |-> "s", hierarchical |-> FALSE])
\* A Source Qualifier often has the name of its source.
QualifierS == Instance("s", "Source Qualifier",
                       [ports |-> <<InOut("a"), InOut("b")>>, statements |-> FALSE])
Target(name) == Instance(name, "Target Definition", [name |-> name, keys |-> {"a"}])

Wire(from, to, pairs) == {Connector(from, p[1], to, p[2]) : p \in pairs}
Both == {<<"a", "a">>, <<"b", "b">>}
FromSource == Wire(Key(SourceS), Key(QualifierS), Both)

MappingOf(insts, conns, session) == [instances |-> insts, connectors |-> conns, session |-> session]

(* Stages: a transformation, the ports that take a and b, and those that give them *)

Stage(type, definition, in, out) == [type |-> type, definition |-> definition, in |-> in, out |-> out]
Expr(ports, in, out) == Stage("Expression", [ports |-> ports], in, out)

TableLookup(ports, policy, table, dynamic) ==
  [name |-> "LK", ports |-> ports, dynamic |-> dynamic, policy |-> policy, table |-> table,
   condition |-> Fn("eq", <<Ref("c"), Ref("k")>>)]
LookupStage(policy, table, dynamic) ==
  Stage("Lookup Procedure",
        TableLookup(<<InOut("k"), InOut("x"), LookupPort("c"), LookupPort("d")>>, policy, table, dynamic),
        <<"k", "x">>, <<"d", "x">>)

Expressions ==
  { \* a swap; a constant and a pass-through port that gets nothing
    Expr(<<InOut("a"), InOut("b"), Computed("o", Fn("add", <<Ref("a"), Ref("b")>>))>>, <<"a", "b">>, <<"o", "a">>),
    Expr(<<InOut("a"), InOut("b"), Computed("o", Fn("add", <<Ref("b"), Lit("1")>>))>>, <<"a", "">>, <<"b", "o">>),
    \* a variable that uses one before it; one that uses itself; one used before it is set
    Expr(<<In("a"), In("b"), Var("v", Fn("neg", <<Ref("a")>>)), Var("w", Fn("add", <<Ref("v"), Ref("b")>>)),
           Computed("o", Ref("w")), Computed("q", Ref("v"))>>, <<"a", "b">>, <<"o", "q">>),
    Expr(<<In("a"), InOut("b"), Var("v", Fn("add", <<Ref("v"), Ref("a")>>)), Computed("o", Ref("v"))>>,
         <<"a", "b">>, <<"o", "b">>),
    Expr(<<In("a"), InOut("b"), Var("v", Ref("w")), Var("w", Ref("a")), Computed("o", Ref("v"))>>,
         <<"a", "b">>, <<"o", "b">>),
    \* what is not understood, a port that is not there, a default
    Expr(<<InOut("a"), In("b"), Computed("o", Strange), Computed("q", Ref("z"))>>, <<"a", "b">>, <<"a", "o">>),
    Expr(<<InOut("a"), [InOut("b") EXCEPT !.default = TRUE]>>, <<"a", "b">>, <<"a", "b">>),
    \* calls of lookups: the same twice, another, one within a call; one that is not there
    Expr(<<In("a"), In("b"), Var("v", Lkp("LKP", <<Ref("a"), Ref("b")>>)), Computed("o", Fn("add", <<Ref("v"), Lkp("LKP", <<Ref("b"), Ref("a")>>)>>)),
           Computed("q", Lkp("LKP", <<Ref("a"), Ref("b")>>))>>, <<"a", "b">>, <<"o", "q">>),
    Expr(<<In("a"), InOut("b"), Computed("o", Lkp("LKP", <<Lkp("LKP", <<Ref("a"), Lit("1")>>), Ref("a")>>))>>, <<"a", "b">>, <<"b", "o">>),
    Expr(<<InOut("a"), In("b"), Computed("o", Lkp("NONE", <<Ref("a")>>))>>, <<"a", "b">>, <<"a", "o">>),
    Expr(<<InOut("a"), In("b"), Computed("o", Fn("neg", <<Lkp("LKP", <<Strange, Ref("a")>>)>>))>>, <<"a", "b">>, <<"a", "a">>) }

Passing ==
  { Stage("Filter", [ports |-> <<InOut("a"), InOut("b")>>, condition |-> Fn("gt", <<Ref("a"), Ref("b")>>)], <<"a", "b">>, <<"b", "a">>),
    \* a port without data, dropped or still read by the condition
    Stage("Filter", [ports |-> <<InOut("a"), InOut("b"), InOut("z")>>, condition |-> None], <<"b", "a">>, <<"a", "b">>),
    Stage("Filter", [ports |-> <<InOut("a"), InOut("z")>>, condition |-> Ref("z")], <<"a", "a">>, <<"a", "a">>),
    Stage("Sorter", [ports |-> <<InOut("a"), InOut("b")>>, distinct |-> FALSE], <<"a", "b">>, <<"a", "b">>),
    Stage("Sorter", [ports |-> <<InOut("a"), InOut("b"), InOut("z")>>, distinct |-> TRUE], <<"a", "b">>, <<"b", "a">>),
    Stage("Router", [ports |-> <<In("a"), In("b"), Routed("a1", "g", "a"), Routed("b1", "g", "b"), Routed("a2", "rest", "a"), Routed("b2", "rest", "b")>>,
                     groups |-> <<[name |-> "g", default |-> FALSE, condition |-> Ref("a")],
                                  [name |-> "h", default |-> FALSE, condition |-> None],
                                  [name |-> "rest", default |-> TRUE, condition |-> None]>>],
          <<"a", "b">>, <<"a2", "b2">>),
    Stage("Router", [ports |-> <<In("a"), In("b"), Routed("a1", "g", "a"), Routed("b1", "g", "b")>>,
                     groups |-> <<[name |-> "g", default |-> FALSE, condition |-> Fn("not", <<Ref("b")>>)]>>],
          <<"a", "b">>, <<"b1", "a1">>),
    \* an input that gets nothing; an output without input
    Stage("Router", [ports |-> <<In("a"), In("b"), Routed("a1", "g", "a"), Routed("b1", "g", "b")>>,
                     groups |-> <<[name |-> "g", default |-> FALSE, condition |-> Ref("a")]>>],
          <<"a", "">>, <<"a1", "b1">>),
    Stage("Router", [ports |-> <<In("a"), In("b"), Routed("a1", "g", "")>>,
                     groups |-> <<[name |-> "g", default |-> FALSE, condition |-> Ref("a")]>>],
          <<"a", "b">>, <<"a1", "a1">>),
    Stage("Normalizer", [ports |-> <<InOut("a"), InOut("b")>>], <<"a", "b">>, <<"a", "b">>),
    Stage("Mapplet", None, <<"a", "b">>, <<"a", "b">>) }

Grouping ==
  { Stage("Aggregator", [ports |-> <<KeyPort("a"), In("b"), Computed("o", Agg("sum", <<Ref("b")>>))>>], <<"a", "b">>, <<"a", "o">>),
    Stage("Aggregator", [ports |-> <<KeyPort("a"), In("b"), Computed("o", Fn("add", <<Ref("a"), Agg("sum", <<Fn("neg", <<Ref("b")>>)>>)>>))>>], <<"b", "a">>, <<"o", "a">>),
    Stage("Aggregator", [ports |-> <<In("a"), In("b"), Computed("o", Agg("sum", <<Ref("a")>>)), Computed("rows", Agg("count", <<Ref("b")>>))>>], <<"a", "b">>, <<"o", "o">>),
    Stage("Aggregator", [ports |-> <<In("a"), In("b"), Computed("o", Agg("sum", <<Ref("a")>>)), Computed("p", Agg("count", <<Ref("b")>>))>>], <<"a", "b">>, <<"p", "o">>),
    \* a port that is neither aggregated nor a key; an aggregate of an aggregate; the last row
    Stage("Aggregator", [ports |-> <<KeyPort("a"), In("b"), Computed("o", Ref("b"))>>], <<"a", "b">>, <<"a", "o">>),
    Stage("Aggregator", [ports |-> <<KeyPort("a"), In("b"), Computed("o", Agg("sum", <<Agg("sum", <<Ref("b")>>)>>))>>], <<"a", "b">>, <<"a", "o">>),
    Stage("Aggregator", [ports |-> <<KeyPort("a"), InOut("b")>>], <<"a", "b">>, <<"a", "b">>) }

Lookups ==
  { LookupStage("Use Any Value", "s", FALSE), LookupStage("Use Any Value", "r", FALSE),
    LookupStage("Return All Values", "r", FALSE), LookupStage("Use Last Value", "q", FALSE),
    LookupStage("Use Any Value", "r", TRUE) }

Strategy(strategy) ==
  Stage("Update Strategy", [ports |-> <<InOut("a"), InOut("b")>>, strategy |-> strategy], <<"a", "b">>, <<"a", "b">>)

Stages == Expressions \cup Passing \cup Grouping \cup Lookups \cup {Strategy("DD_UPDATE")}

\* The lookup that expressions call: an instance without connectors.
Called(definition) == Instance("LKP", "Lookup Procedure", definition)
CalledDefinitions ==
  LET ports == <<In("k"), In("l"), Returned("c"), LookupPort("d")>>
      d == TableLookup(ports, "Use Any Value", "r", FALSE)
      two == Fn("and", <<Fn("eq", <<Ref("c"), Ref("k")>>), Fn("lt", <<Ref("d"), Ref("l")>>)>>)
  IN  {[d EXCEPT !.condition = two], [d EXCEPT !.policy = "Return All Values"],
       [d EXCEPT !.table = "q", !.condition = two], [d EXCEPT !.dynamic = TRUE]}

StageInstance(name, stage) == Instance(name, stage.type, stage.definition)
InPairs(from, stage) == {<<from[i], stage.in[i]>> : i \in {j \in 1..2 : stage.in[j] # ""}}

Chain(one, two, called, session) ==
  LET e == StageInstance("e", one)
      f == StageInstance("f", two)
  IN  MappingOf(<<SourceS, QualifierS, e, f, Target("t")>> \o called,
        FromSource \cup Wire(Key(QualifierS), Key(e), InPairs(<<"a", "b">>, one))
          \cup Wire(Key(e), Key(f), InPairs(one.out, two))
          \cup Wire(Key(f), Key(Target("t")), {<<two.out[1], "a">>, <<two.out[2], "b">>}), session)

Plausible == Called(CHOOSE d \in CalledDefinitions : d.policy = "Use Any Value" /\ d.table = "r" /\ ~ d.dynamic)

Chains ==
  {Chain(one, two, <<Plausible>>, None) : one \in Stages, two \in Stages}
  \cup {Chain(one, Strategy("DD_INSERT"), <<Called(d)>>, None) : one \in Expressions, d \in CalledDefinitions}

(* Sessions and writers *)

Writers ==
  {[file |-> f, append |-> a, truncate |-> t, asInsert |-> i, elseInsert |-> e] :
     f \in BOOLEAN, a \in BOOLEAN, t \in BOOLEAN, i \in BOOLEAN, e \in BOOLEAN}
Sessions == {None} \cup {[treat |-> treat, writers |-> writers] :
  treat \in {"insert", "update", "data driven"}, writers \in {<<>>} \cup {"t" :> w : w \in Writers}}

\* The target without a primary key.
Keyless(m) ==
  [m EXCEPT !.instances = [i \in DOMAIN @ |-> IF @[i] = Target("t") THEN [@[i] EXCEPT !.definition.keys = {}] ELSE @[i]]]

Loads ==
  {Chain(Strategy(one), Strategy(two), <<>>, session) :
     one \in {"DD_INSERT", "DD_UPDATE"}, two \in {"DD_UPDATE", "DD_DELETE", "IIF"}, session \in Sessions}
  \cup {Keyless(Chain(Strategy("DD_UPDATE"), Strategy("DD_UPDATE"), <<>>, session)) : session \in Sessions}

(* Generators: who is numbered, and after whom *)

Generator(bounded) ==
  Instance("g", "Sequence", [name |-> "G", increment |-> 2, bounded |-> bounded,
                             ports |-> <<Port("NEXTVAL"), Port("CURRVAL")>>])

TwoGroups ==
  Stage("Router", [ports |-> <<In("a"), In("b"), Routed("a1", "g", "a"), Routed("b1", "g", "b"), Routed("a2", "rest", "a"), Routed("b2", "rest", "b")>>,
                   groups |-> <<[name |-> "g", default |-> FALSE, condition |-> Ref("a")],
                                [name |-> "rest", default |-> TRUE, condition |-> None]>>], <<"a", "b">>, <<"a1", "b1">>)
Splitting == {TwoGroups, Strategy("DD_INSERT")}
           \cup {Stage("Filter", [ports |-> <<InOut("a"), InOut("b")>>, condition |-> Ref("a")], <<"a", "b">>, <<"a", "b">>)}

\* Two targets, from one transformation or a group each, and a generator that feeds some ports.
Numbered(stage, fed, bounded) ==
  LET e == StageInstance("e", stage)
      second == IF stage = TwoGroups THEN <<"a2", "b2">> ELSE stage.out
  IN  MappingOf(<<SourceS, QualifierS, e, Generator(bounded), Target("t"), Target("u")>>,
        FromSource \cup Wire(Key(QualifierS), Key(e), InPairs(<<"a", "b">>, stage))
          \cup Wire(Key(e), Key(Target("t")), {<<stage.out[1], "a">>, <<stage.out[2], "b">>})
          \cup Wire(Key(e), Key(Target("u")), {<<second[1], "a">>, <<second[2], "b">>})
          \cup {Connector(Key(Generator(FALSE)), f[1], <<f[2], "Target Definition">>, f[3]) : f \in fed}, None)

\* A generator in the middle: its numbers go on through a transformation.
NumberedStage ==
  LET e == Instance("e", "Expression", [ports |-> <<InOut("a"), In("k"), Computed("o", Fn("add", <<Ref("k"), Ref("a")>>))>>])
      g == Generator(FALSE)
  IN  MappingOf(<<SourceS, QualifierS, g, e, Target("t"), Target("u")>>,
        FromSource \cup Wire(Key(QualifierS), Key(e), {<<"a", "a">>})
          \cup Wire(Key(e), Key(Target("t")), {<<"a", "a">>, <<"o", "b">>})
          \cup Wire(Key(QualifierS), Key(Target("u")), Both)
          \cup {Connector(Key(g), "NEXTVAL", Key(e), "k"), Connector(Key(g), "NEXTVAL", Key(Target("u")), "n")}, None)

Numbers ==
  {NumberedStage} \cup
  {Numbered(stage, fed, bounded) : stage \in Splitting, bounded \in BOOLEAN,
     fed \in { {}, {<<"NEXTVAL", "t", "n">>}, {<<"NEXTVAL", "t", "n">>, <<"NEXTVAL", "u", "n">>},
               {<<"CURRVAL", "t", "n">>}, {<<"NEXTVAL", "t", "n">>, <<"CURRVAL", "u", "n">>} }}

(* Joiners *)

SourceR == Instance("r", "Source Definition", [name |-> "r", hierarchical |-> FALSE])
QualifierR == Instance("q", "Source Qualifier", [ports |-> <<InOut("c"), InOut("d")>>, statements |-> FALSE])
Joined(type, caseless, condition, masters, unfed) ==
  LET Of(n) == IF n \in masters THEN MasterPort(n) ELSE InOut(n)
      j == Instance("j", "Joiner", [ports |-> <<Of("a"), Of("b"), Of("c"), Of("d")>>,
                                    type |-> type, caseless |-> caseless, condition |-> condition])
  IN  MappingOf(<<SourceR, SourceS, QualifierS, QualifierR, j, Target("t")>>,
        FromSource \cup Wire(Key(SourceR), Key(QualifierR), {<<"c", "c">>, <<"d", "d">>})
          \cup Wire(Key(QualifierS), Key(j), {x \in Both : x[2] # unfed})
          \cup Wire(Key(QualifierR), Key(j), {<<"c", "c">>, <<"d", "d">>})
          \cup Wire(Key(j), Key(Target("t")), {<<"a", "a">>, <<"d", "b">>}), None)

Joins ==
  {Joined(type, FALSE, condition, masters, unfed) :
     type \in {"Normal", "MasterOuter", "DetailOuter", "FullOuter", "Strange"},
     condition \in {None, Fn("eq", <<Ref("a"), Ref("c")>>), Fn("eq", <<Ref("b"), Ref("c")>>)},
     masters \in {{"a", "b"}, {"c", "d"}, {}}, unfed \in {"", "b"}}
  \cup {Joined("Normal", TRUE, Ref("a"), {"c", "d"}, "")}

(* Connectors and sources that are wrong *)

Filters == {x \in Passing : x.type = "Filter" /\ x.definition.condition # Ref("z")}
Plain(source, qualifier, filter, more) ==
  MappingOf(<<source, qualifier, StageInstance("e", filter), Target("t")>>
              \o IF \E c \in more : c.to = Key(Target("u")) THEN <<Target("u")>> ELSE <<>>,
    FromSource \cup Wire(Key(QualifierS), <<"e", "Filter">>, Both)
      \cup Wire(<<"e", "Filter">>, Key(Target("t")), Both) \cup more, None)

Wrong ==
  {Plain(source, qualifier, filter, more) :
     source \in {SourceS, [SourceS EXCEPT !.definition.hierarchical = TRUE], [SourceS EXCEPT !.definition = None]},
     qualifier \in {QualifierS, [QualifierS EXCEPT !.definition.statements = TRUE],
                    [QualifierS EXCEPT !.definition.ports = Append(@, InOut("z"))]},
     filter \in Filters,
     more \in {{}, Wire(<<"e", "Filter">>, Key(Target("u")), {<<"b", "a">>}),
               Wire(<<"e", "Filter">>, Key(Target("u")), {<<"z", "a">>}),
               Wire(<<"e", "Filter">>, Key(Target("t")), {<<"a", "z">>}),
               Wire(Key(SourceS), Key(QualifierS), {<<"z", "z">>}),
               Wire(Key(QualifierS), <<"e", "Filter">>, {<<"z", "z">>}),
               Wire(<<"nobody", "Filter">>, Key(Target("u")), Both)}}
  \cup {MappingOf(<<SourceS, QualifierS, Target("t")>>, {}, None)}

(* One sound mapping with all that comes out otherwise than documented: a global aggregator with  *)
(* a port "rows", a call within a call, rows to update in truncated targets that take updates as  *)
(* inserts, a generator with two consumers after a router, and a qualifier without connectors.    *)

Counted == Stage("Aggregator", [ports |-> <<In("a"), In("b"), Computed("o", Agg("sum", <<Ref("a")>>)),
                                            Computed("rows", Agg("count", <<Ref("b")>>))>>], <<"a", "b">>, <<"o", "rows">>)
Nesting == Expr(<<In("a"), InOut("b"), Computed("o", Lkp("LKP", <<Lkp("LKP", <<Ref("a"), Lit("1")>>), Ref("a")>>))>>,
                <<"a", "b">>, <<"o", "b">>)
TruncatedAsInsert == [file |-> FALSE, append |-> FALSE, truncate |-> TRUE, asInsert |-> TRUE, elseInsert |-> FALSE]

Undocumented ==
  LET m == StageInstance("m", Counted)
      x == StageInstance("x", Nesting)
      f == StageInstance("f", Strategy("DD_UPDATE"))
      e == StageInstance("e", TwoGroups)
      g == Generator(FALSE)
  IN  MappingOf(<<SourceS, QualifierS, QualifierR, m, x, f, e, g, Plausible, Target("t"), Target("u")>>,
        FromSource \cup Wire(Key(QualifierS), Key(m), InPairs(<<"a", "b">>, Counted))
          \cup Wire(Key(m), Key(x), InPairs(Counted.out, Nesting))
          \cup Wire(Key(x), Key(f), {<<"o", "a">>, <<"b", "b">>})
          \cup Wire(Key(f), Key(e), Both)
          \cup Wire(Key(e), Key(Target("t")), {<<"a1", "a">>, <<"b1", "b">>})
          \cup Wire(Key(e), Key(Target("u")), {<<"a2", "a">>, <<"b2", "b">>})
          \cup {Connector(Key(g), "NEXTVAL", Key(Target(n)), "n") : n \in {"t", "u"}},
        [treat |-> "data driven", writers |-> [n \in {"t", "u"} |-> TruncatedAsInsert]])

UndocumentedOnly == {Undocumented}

MCMappings == Chains \cup Loads \cup Numbers \cup Joins \cup Wrong \cup UndocumentedOnly
=============================================================================

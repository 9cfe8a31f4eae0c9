------------------------ MODULE ExpressionTranslation -----------------------
(***************************************************************************)
(* The translation of a PowerCenter expression (_Converter, in             *)
(* sources/powercenter/expression.py): every part is a canonical node and  *)
(* its type, or opaque, and then so is the whole.  The state follows one   *)
(* path of the parsed expression from a leaf upwards: each step is the     *)
(* call of the converter on the operator or function around it, the other  *)
(* arguments of which are leaves.  At the top the value becomes that of a  *)
(* port (convert) or a condition (as_condition), or of a variable port,    *)
(* which later expressions read in place of their leaf.                    *)
(*                                                                         *)
(* Reasons and notes are left out, and so are the grammar, arithmetic in   *)
(* literals beyond their sign, and functions that only pass their          *)
(* arguments on as others here do (CONCAT, LOWER, LTRIM, RTRIM, RPAD,      *)
(* IS_SPACES, ROUND, REPLACESTR).                                          *)
(***************************************************************************)
EXTENDS CanonicalExpressions

CONSTANTS
  Types,        \* the type of every port and declared parameter
  Ports,        \* the ports of the input
  GroupKeys,    \* those an Aggregator groups by
  Pending,      \* variable ports that are not set yet
  Leaves,       \* the leaves an expression starts from
  Wraps,        \* the operators and functions around a part: records of its form
                \* ("op" or "call"), name and args, one of which is the Hole
  TargetTypes,  \* the types of output and variable ports
  MaxDepth      \* a bound on the steps of an expression

ASSUME DepthAssumption == MaxDepth \in Nat

VARIABLES
  allow,    \* allow_aggregates: the expression is of an Aggregator with group keys
  inAgg,    \* in_agg: the path is inside an aggregate function
  part,     \* the node and type of the part
  form,     \* "not" or "||" for a part of that syntax without parentheses
  depth,    \* the steps taken
  stage,    \* "part", or what the value of the whole is for
  untyped,  \* history: a variable port took a value without a type
  folded    \* history: an IN compared NULL in upper case

vars == <<allow, inAgg, part, form, depth, stage, untyped, folded>>

Hole == [tag |-> "hole"]

(* The kinds the adapter gives to ports and parameters (types.py); one it  *)
(* cannot type blocks the operation that reads it before its expressions   *)
(* matter.                                                                 *)
PortKinds == Numeric \cup {"string", "timestamp", "binary"}

ASSUME TypesAssumption == /\ Ports \subseteq DOMAIN Types
                          /\ \A p \in DOMAIN Types : Types[p].kind \in PortKinds
                          /\ \A t \in TargetTypes : t.kind \in PortKinds

(* A literal has the type that the lexer or the code that makes it gives,  *)
(* and NULL any; the operands of an operator are two.                      *)
LiteralFits(v, t) ==
  \/ v = Null
  \/ v.is = "string"  /\ t.kind = "string"
  \/ v.is = "number"  /\ t.kind \in Numeric
  \/ v.is = "boolean" /\ t.kind = "boolean"

IsLeaf(a) ==
  \/ a.tag \in {"id", "param", "count"}
  \/ a.tag \in {"unconnected", "lookup"} /\ a.name \in DOMAIN Types
  \/ a.tag = "literal" /\ LiteralFits(a.value, a.type) /\ a.type.kind \in PortKinds \cup {"boolean", "unknown"}

ASSUME LeavesAssumption ==
  /\ \A a \in Leaves : IsLeaf(a)
  /\ \A w \in Wraps : /\ w.args \in Seq(ToSet(w.args))
                      /\ w.form = "op" => Len(w.args) = 2
                      /\ \A a \in ToSet(w.args) : a = Hole \/ IsLeaf(a)

-----------------------------------------------------------------------------
(* Typed nodes.                                                            *)

Typed(n, t) == [node |-> n, type |-> t]
Opaque == Typed(OpaqueNode, Unknown)
Lit(v, t) == Typed(Literal(v, t), t)
IntLit(n) == Lit(Count(n), Type("integer"))
StringLit(s) == Lit(String(s), Type("string"))
NullLit == Lit(Null, Unknown)

IsLiteral(t)     == t.node.node = "literal"
IsNullLiteral(t) == IsLiteral(t) /\ t.node.value = Null

(* A call with an opaque argument is opaque.                               *)
Call(f, as) ==
  IF \E k \in DOMAIN as : as[k] = Opaque THEN Opaque
  ELSE Typed(CallOf(f, [k \in DOMAIN as |-> as[k].node]),
             ResultType(f, [k \in DOMAIN as |-> as[k].type]))

When(condition, t) == IF condition THEN t ELSE Opaque

AsBool(t) ==
  CASE t.type.kind \in {"boolean", "unknown"} -> t
    [] t.type.kind \in Numeric -> Call("ne", <<t, IntLit(0)>>)
    [] OTHER -> Opaque

AsNum(t) ==
  IF t.type.kind \in Numeric \/ IsNullLiteral(t) THEN t
  ELSE When(t.type.kind = "boolean", Typed(Cast(Type("integer"), t.node), Type("integer")))

\* Mutant of AsStr: any number is written as text, a double too.
AsStrOfNumbers(t) ==
  IF t.type.kind = "string" \/ IsNullLiteral(t) THEN t
  ELSE When(t.type.kind \in Numeric, Call("to_string", <<t>>))

AsStr(t) ==
  IF t.type.kind = "string" \/ IsNullLiteral(t) THEN t
  ELSE When(Whole(t.type) \/ t.type.kind = "decimal", Call("to_string", <<t>>))

IsTime(t) == t.type.kind \in {"timestamp", "date"}
AsTime(t) == When(IsTime(t) \/ IsNullLiteral(t), t)

(* str_literal and int_literal; the first may be NULL.  TRUE and FALSE     *)
(* written where an integer literal is due, for 1 and 0, are left out.     *)
IsString(t) == IsLiteral(t) /\ (t.node.value = Null \/ t.node.value.is = "string")
IsInteger(t) == IsLiteral(t) /\ t.type.kind \in Integral /\ t.node.value # Null
TextOf(t) == IF t.node.value = Null THEN <<>> ELSE t.node.value.text
IsCount(t) == t.type.kind \in Integral \cup {"unknown"}

(* A default format, or one in canonical tokens, "F", to which "YY" adds   *)
(* a two-digit year, which cannot be parsed; "U" is a unit of time.        *)
DefaultFormat == StringLit(<<"F">>)
IsFormat(t, parsing) == IsString(t) /\ TextOf(t) \in {<<"F">>} \cup (IF parsing THEN {} ELSE {<<"YY">>})
IsUnit(t) == IsString(t) /\ TextOf(t) = <<"U">>

\* Mutant of Branches: results that have no common type are let through.
BranchesOfAnyType(ts) == ts

(* Results of IIF and DECODE: Booleans among numbers count 1 and 0, and    *)
(* otherwise the types agree.                                              *)
Branches(ts) ==
  LET kinds == {ts[k].type.kind : k \in DOMAIN ts}
      all == IF "boolean" \in kinds /\ kinds \cap Numeric # {}
             THEN [k \in DOMAIN ts |-> AsNum(ts[k])] ELSE ts
      known == {all[k].type.kind : k \in DOMAIN all} \ {"unknown"}
  IN  IF known # {} /\ CommonKind(known) = "unknown"
      THEN [k \in DOMAIN ts |-> Opaque] ELSE all

DefaultFor(t) ==
  CASE t.type.kind \in Numeric  -> IntLit(0)
    [] t.type.kind = "string"   -> StringLit(<<>>)
    [] OTHER -> NullLit

(* The two sides of a comparison, opaque unless their types compare.       *)
Comparable(a, b) ==
  LET kinds == {a.type.kind, b.type.kind}
  IN  IF IsNullLiteral(a) \/ IsNullLiteral(b) THEN <<a, b>>
      ELSE IF kinds \subseteq Numeric \cup {"boolean"} /\ kinds \cap Numeric # {}
        THEN <<AsNum(a), AsNum(b)>>
      ELSE IF a.type.kind = b.type.kind /\ a.type.kind \in {"string", "timestamp", "boolean"}
        THEN <<a, b>> ELSE <<Opaque, Opaque>>

-----------------------------------------------------------------------------
(* Leaves.                                                                 *)

(* An unset variable port has the value of the previous row; a port that   *)
(* is no group key has many values in a group.                             *)
Ident(p, agg) ==
  When(p \in Ports \ Pending /\ (allow /\ ~agg => p \in GroupKeys), Typed(Column(p, Types[p]), Types[p]))

Leaf(a, agg) ==
  CASE a.tag = "id"      -> Ident(a.name, agg)
    [] a.tag = "param"   -> When(a.name \in DOMAIN Types \ Ports, Typed(Parameter(a.name, Types[a.name]), Types[a.name]))
    [] a.tag = "literal" -> Lit(a.value, a.type)
    [] a.tag = "unconnected" -> Lit(Null, Types[a.name])
    [] a.tag = "count"   -> When(allow /\ ~agg, Call("count_all", <<>>))
    [] a.tag = "lookup"  -> When(~allow, Typed(Column(a.name, Types[a.name]), Types[a.name]))

-----------------------------------------------------------------------------
(* Operators and functions.                                                *)

IsNot(n) == form = "not" /\ n = part.node

Negated(t) ==
  LET n == AsNum(t)
  IN  IF IsLiteral(n) /\ ~IsNullLiteral(n)
      THEN Lit(Meaning("negate", <<n.node.value>>), n.type) ELSE Call("negate", <<n>>)

Arithmetic == {"add", "subtract", "multiply", "divide"}

(* An argument of || that is itself one gives its arguments.               *)
Flattened(t) ==
  IF form = "||" /\ t.node = part.node
  THEN [k \in DOMAIN t.node.args |-> Typed(t.node.args[k], Infer(t.node.args[k]))]
  ELSE <<AsStr(t)>>

Binary(op, a, b) ==
  IF op \in {"and", "or"} THEN Call(op, <<AsBool(a), AsBool(b)>>)
  ELSE When(~IsNot(a.node) /\ ~IsNot(b.node),
            CASE op \in Arithmetic  -> Call(op, <<AsNum(a), AsNum(b)>>)
              [] op = "||"          -> Call("concat", Flattened(a) \o Flattened(b))
              [] op \in Comparisons -> Call(op, Comparable(a, b))
              [] OTHER -> Opaque)

Iif(as) ==
  LET results == Branches(<<as[2], IF Len(as) = 3 THEN as[3] ELSE DefaultFor(as[2])>>)
  IN  Call("if", <<AsBool(as[1]), results[1], results[2]>>)

(* DECODE(TRUE, c, r, ...) takes its conditions as they are.               *)
DecodeCondition(value, search) ==
  IF value = Lit(Boolean(TRUE), Type("boolean")) THEN AsBool(search)
  ELSE When(~IsNullLiteral(search), Call("eq", Comparable(value, search)))
Decode(as) ==
  LET n == (Len(as) - 1) \div 2
      default == IF Len(as) % 2 = 0 THEN as[Len(as)] ELSE NullLit
      results == Branches([k \in 1 .. n + 1 |-> IF k <= n THEN as[(2 * k) + 1] ELSE default])
  IN  Call("case", [k \in 1 .. (2 * n) + 1 |->
                      IF k = (2 * n) + 1 THEN results[n + 1]
                      ELSE IF k % 2 = 1 THEN DecodeCondition(as[1], as[k + 1]) ELSE results[k \div 2]])

(* A last integer literal is the case flag of strings, 0 to ignore case;   *)
(* without one, letters are opaque.                                        *)
HasLetters(t) ==
  ~IsLiteral(t) \/ (t.node.value.is = "string" /\ \E c \in ToSet(TextOf(t)) : Code(c) > Code("9"))
AnyOf(terms) ==
  LET either[k \in DOMAIN terms] ==
        IF k = 1 THEN terms[1] ELSE Call("or", <<either[k - 1], terms[k]>>)
  IN  either[Len(terms)]

IsText(t) == t.type.kind = "string"
Flagged(as) ==
  Len(as) > 2 /\ IsText(as[1]) /\ IsLiteral(as[Len(as)]) /\ as[Len(as)].type.kind \in Integral
Folds(as) == Flagged(as) /\ as[Len(as)].node.value = Count(0)

In(as) ==
  LET value == as[1]
      items == SubSeq(as, 2, IF Flagged(as) THEN Len(as) - 1 ELSE Len(as))
      cased(t) == IF Folds(as) THEN Call("upper", <<t>>) ELSE t
      term(t) == LET sides == Comparable(value, t)
                 IN  When(~IsNullLiteral(t), Call("eq", <<cased(sides[1]), cased(sides[2])>>))
      terms == [k \in DOMAIN items |-> term(items[k])]
  IN  When(~(IsText(value) /\ ~Flagged(as) /\ \E k \in DOMAIN items : HasLetters(items[k])),
           AnyOf(terms))

Substr(as) ==
  When(\A k \in 2 .. Len(as) : IsCount(AsNum(as[k])),
       Call("substr", [k \in 1 .. Len(as) |-> IF k = 1 THEN AsStr(as[1]) ELSE AsNum(as[k])]))

Pad(as) ==
  LET fill == IF Len(as) = 3 THEN as[3] ELSE StringLit(<<" ">>)
  IN  When(IsCount(AsNum(as[2])) /\ IsString(fill) /\ TextOf(fill) # <<>>,
           Call("lpad", <<AsStr(as[1]), AsNum(as[2]), fill>>))

Instr(as) ==
  LET start == IF Len(as) > 2 THEN as[3] ELSE IntLit(1)
  IN  When(IsInteger(start) /\ start.node.value.num >= 1 /\ (Len(as) = 4 => as[4].node = IntLit(1).node),
           Call("instr", <<AsStr(as[1]), AsStr(as[2]), IntLit(start.node.value.num)>>))

(* REPLACECHR: every old character, in either case if the flag is 0,       *)
(* becomes the first of the new ones, or goes; the old ones of instances   *)
(* are in lower case.                                                      *)
ReplaceChr(as) ==
  LET old == TextOf(as[3])
      chars == IF as[1].node.value # Count(0) THEN old
               ELSE old \o SelectSeq([k \in DOMAIN old |-> Upper(old[k])], LAMBDA c : c \notin ToSet(old))
      new == TextOf(as[4])
      to == IF new = <<>> THEN <<>> ELSE [k \in DOMAIN chars |-> Head(new)]
  IN  IF ~(IsInteger(as[1]) /\ IsString(as[3]) /\ IsString(as[4])) THEN Opaque
      ELSE IF old = <<>> THEN AsStr(as[2])
      ELSE Call("translate", <<AsStr(as[2]), StringLit(chars), StringLit(to)>>)

Format(as, parsing) ==
  LET f == IF Len(as) = 2 THEN as[2] ELSE DefaultFormat IN When(IsFormat(f, parsing), f)

ToDate(as) ==
  IF IsTime(as[1]) THEN as[1] ELSE Call("parse_timestamp", <<AsStr(as[1]), Format(as, TRUE)>>)

ToChar(as) ==
  IF IsTime(as[1]) THEN Call("format_timestamp", <<as[1], Format(as, FALSE)>>)
  ELSE When(Len(as) = 1, AsStr(as[1]))

ToDecimal(as) ==
  LET scale == IF Len(as) = 2 THEN as[2] ELSE IntLit(18)
      target == Decimal(38, scale.node.value.num)
      value == as[1]
      number == CASE value.type.kind = "string" -> Call("leading_decimal", <<value, scale>>)
                  [] value.type.kind \in Numeric -> Call("round", <<value, scale>>)
                  [] OTHER -> Opaque
  IN  IF ~IsInteger(scale) \/ scale.node.value.num \notin 0 .. 18 THEN Opaque
      ELSE IF number # Opaque THEN Typed(Cast(target, number.node), target)
      ELSE When(IsNullLiteral(value), Lit(Null, target))

ToInteger(as) ==
  LET value == IF as[1].type.kind = "string" THEN Call("leading_decimal", <<as[1], IntLit(18)>>) ELSE as[1]
      truncate == Len(as) = 2 /\ as[2].node.value # Count(0)
      number == IF truncate /\ value.type.kind \notin Integral
                THEN Call("trunc", <<value, IntLit(0)>>) ELSE value
  IN  IF Len(as) = 2 /\ ~IsInteger(as[2]) THEN Opaque
      ELSE IF as[1].type.kind # "string" /\ IsNullLiteral(as[1]) THEN Lit(Null, Type("integer"))
      ELSE When(value.type.kind \in Numeric,
                Typed(Cast(Type("integer"), number.node), Type("integer")))

Trunc(as) ==
  LET places == IF Len(as) = 2 THEN as[2] ELSE IntLit(0)
      unit == IF Len(as) = 2 THEN as[2] ELSE StringLit(<<"U">>)
  IN  IF IsTime(as[1]) THEN When(IsUnit(unit), Call("trunc_timestamp", <<as[1], unit>>))
      ELSE When(IsInteger(places) /\ places.node.value.num >= 0, Call("trunc", <<AsNum(as[1]), places>>))

AddToDate(as) ==
  When(IsUnit(as[2]) /\ IsCount(AsNum(as[3])), Call("add_interval", <<AsTime(as[1]), as[2], AsNum(as[3])>>))

(* SETVARIABLE is its value; of NULL it is that of the previous row.       *)
SetVariable(as) == When(as[1].node.node = "parameter" /\ ~IsNullLiteral(as[2]), as[2])

(* How many arguments the functions accept; what is not in the subset is   *)
(* opaque.                                                                 *)
Arity(f) ==
  CASE f \in {"ISNULL", "UPPER", "LENGTH", "ABS", "SIGN", "CHR", "IS_NUMBER", "ABORT"} -> {1}
    [] f \in {"IS_DATE", "TO_DATE", "TO_CHAR", "TO_DECIMAL", "TO_INTEGER", "TRUNC"} -> {1, 2}
    [] f \in {"GET_DATE_PART", "SETVARIABLE"} -> {2}
    [] f \in {"IIF", "SUBSTR", "LPAD"} -> {2, 3}
    [] f = "INSTR" -> 2 .. 4
    [] f = "ADD_TO_DATE" -> {3}
    [] f = "REPLACECHR" -> {4}
    [] f = "IN" -> Nat \ 0 .. 1
    [] f = "DECODE" -> Nat \ 0 .. 2
    [] OTHER -> {}

Function(f, as) ==
  IF Len(as) \notin Arity(f) THEN Opaque ELSE
  CASE f = "IIF"        -> Iif(as)
    [] f = "DECODE"     -> Decode(as)
    [] f = "IN"         -> In(as)
    [] f = "ISNULL"     -> Call("is_null", <<as[1]>>)
    [] f = "UPPER"      -> Call("upper", <<AsStr(as[1])>>)
    [] f = "LENGTH"     -> Call("length", <<AsStr(as[1])>>)
    [] f = "SUBSTR"     -> Substr(as)
    [] f = "ABS"        -> Call("abs", <<AsNum(as[1])>>)
    [] f = "SIGN"       -> Call("sign", <<AsNum(as[1])>>)
    [] f = "LPAD"       -> Pad(as)
    [] f = "INSTR"      -> Instr(as)
    [] f = "REPLACECHR" -> ReplaceChr(as)
    [] f = "CHR"        -> Call("chr", <<AsNum(as[1])>>)
    [] f = "IS_NUMBER"  -> Call("matches_number", <<AsStr(as[1])>>)
    [] f = "IS_DATE"    -> Call("can_parse_timestamp", <<AsStr(as[1]), Format(as, TRUE)>>)
    [] f = "TO_DATE"    -> ToDate(as)
    [] f = "TO_CHAR"    -> ToChar(as)
    [] f = "TO_DECIMAL" -> ToDecimal(as)
    [] f = "TO_INTEGER" -> ToInteger(as)
    [] f = "TRUNC"      -> Trunc(as)
    [] f = "ADD_TO_DATE"   -> AddToDate(as)
    [] f = "GET_DATE_PART" -> When(IsUnit(as[2]), Call("timestamp_part", <<AsTime(as[1]), as[2]>>))
    [] f = "ABORT"      -> Call("fail", <<StringLit(<<>>)>>)
    [] f = "SETVARIABLE" -> SetVariable(as)

AggregateOf(f, t) ==
  When(allow /\ ~HasAggregate(t.node), Call(f, <<IF f \in {"sum", "avg"} THEN AsNum(t) ELSE t>>))

-----------------------------------------------------------------------------
(* What the value of the whole becomes.                                    *)

(* convert: text of numbers and casts among numbers, and nothing else.     *)
Convert(t, target) ==
  LET src == t.type.kind
  IN  IF src = "unknown" \/ (src = target.kind /\ src # "decimal") \/ t.type = target THEN t.node
      ELSE IF src \in Numeric \cup {"boolean"} /\ target.kind \in Numeric THEN Cast(target, t.node)
      ELSE IF target.kind = "string" /\ (Whole(t.type) \/ src = "decimal")
        THEN CallOf("to_string", <<t.node>>)
      ELSE IF target.kind = "string" /\ src = "boolean"
        THEN CallOf("to_string", <<Cast(Type("integer"), t.node)>>)
      ELSE OpaqueNode

Converted(t, target) ==
  IF Convert(t, target) = OpaqueNode THEN Opaque ELSE Typed(Convert(t, target), target)

-----------------------------------------------------------------------------
(* The steps.                                                              *)

Init ==
  /\ allow \in BOOLEAN
  /\ inAgg \in {FALSE, allow}
  /\ part \in {Leaf(a, inAgg) : a \in Leaves}
  /\ form = ""
  /\ depth = 0
  /\ stage = "part"
  /\ untyped = FALSE
  /\ folded = FALSE

Step(t, f) ==
  /\ stage = "part"
  /\ part # Opaque
  /\ depth < MaxDepth
  /\ part' = t
  /\ form' = f
  /\ depth' = depth + 1
  /\ UNCHANGED allow

ArgumentsOf(w) == [k \in DOMAIN w.args |-> IF w.args[k] = Hole THEN part ELSE Leaf(w.args[k], inAgg)]

NotOf  == Step(Call("not", <<AsBool(part)>>), "not") /\ UNCHANGED <<inAgg, stage, untyped, folded>>
Negate == Step(Negated(part), "") /\ UNCHANGED <<inAgg, stage, untyped, folded>>
Parenthesise == form # "" /\ Step(part, "") /\ UNCHANGED <<inAgg, stage, untyped, folded>>

ApplyOperator(w) ==
  /\ w.form = "op"
  /\ LET as == ArgumentsOf(w)
     IN  Step(Binary(w.name, as[1], as[2]), IF w.name = "||" THEN "||" ELSE "")
  /\ UNCHANGED <<inAgg, stage, untyped, folded>>

ApplyFunction(w) ==
  /\ w.form = "call"
  /\ LET as == ArgumentsOf(w)
     IN  /\ Step(Function(w.name, as), "")
         /\ folded' = (folded \/ (w.name = "IN" /\ Folds(as) /\ IsNullLiteral(as[1])))
  /\ UNCHANGED <<inAgg, stage, untyped>>

(* The argument was read inside the function, unless that is refused.      *)
ApplyAggregate(f) ==
  /\ inAgg \/ ~allow \/ HasAggregate(part.node)
  /\ Step(AggregateOf(f, part), "")
  /\ inAgg' = FALSE
  /\ UNCHANGED <<stage, untyped, folded>>

(* A variable port is read back with its own type.                         *)
AssignVariable(t) ==
  /\ ~allow
  /\ Step(Converted(part, t), "")
  /\ untyped' = (untyped \/ part.type.kind = "unknown")
  /\ UNCHANGED <<inAgg, stage, folded>>

AssignPort(t) ==
  /\ ~inAgg
  /\ Step(Converted(part, t), "")
  /\ stage' = "port"
  /\ UNCHANGED <<inAgg, untyped, folded>>

(* as_condition: filters, groups of a router.                              *)
UseAsCondition ==
  /\ ~allow
  /\ Step(AsBool(part), "")
  /\ stage' = "condition"
  /\ UNCHANGED <<inAgg, untyped, folded>>

Next ==
  \/ NotOf
  \/ Negate
  \/ Parenthesise
  \/ \E w \in Wraps : ApplyOperator(w)
  \/ \E w \in Wraps : ApplyFunction(w)
  \/ \E f \in Aggregates \ {"count_all"} : ApplyAggregate(f)
  \/ \E t \in TargetTypes : AssignVariable(t)
  \/ \E t \in TargetTypes : AssignPort(t)
  \/ UseAsCondition

Spec == Init /\ [][Next]_vars

-----------------------------------------------------------------------------
(* What the calls get.                                                     *)

(* The kinds a function of n arguments is defined for at place k.  NULL is *)
(* of any kind, and so is what has none: it is NULL or fails.              *)
Takes(f, n, k) ==
  CASE f \in Arithmetic \cup {"negate", "abs", "sign", "chr", "trunc", "round", "sum", "avg"} -> Numeric
    [] f \in {"and", "or", "not"} -> {"boolean"}
    [] f \in {"concat", "upper", "length", "translate", "matches_number", "parse_timestamp",
              "can_parse_timestamp"} -> {"string"}
    [] f \in {"substr", "leading_decimal"} -> IF k = 1 THEN {"string"} ELSE Integral
    [] f = "instr" -> IF k < 3 THEN {"string"} ELSE Integral
    [] f = "lpad"  -> IF k = 2 THEN Integral ELSE {"string"}
    [] f = "to_string" -> Integral \cup {"decimal"}
    [] f = "cast" -> Numeric \cup {"boolean"}
    [] f \in {"format_timestamp", "trunc_timestamp", "add_interval", "timestamp_part"} ->
         IF k = 1 THEN {"timestamp"} ELSE IF k = 2 THEN {"string"} ELSE Integral
    [] f \in {"if", "case"} /\ k % 2 = 1 /\ k < n -> {"boolean"}
    [] OTHER -> PortKinds \cup {"boolean"}

(* A call c of an expression gets what it is defined for.                  *)
WellTyped(c) ==
  LET n == Len(c.kinds)
      free(k) == k \in c.nulls \/ c.kinds[k] = "unknown"
  IN  /\ \A k \in 1 .. n : free(k) \/ c.kinds[k] \in Takes(c.function, n, k)
      /\ c.function \in Comparisons =>
           \/ free(1) \/ free(2) \/ c.kinds[1] = c.kinds[2]
           \/ {c.kinds[1], c.kinds[2]} \subseteq Numeric

(* Every function of a translated expression gets arguments of the types   *)
(* it is defined for: conversions between numbers, texts and times that    *)
(* the source makes by itself are explicit or opaque (docs/semantics.md,   *)
(* "Types and casts").  The code departs from it in two cases, each named  *)
(* by what brings it about, and in no other.  A variable port that took    *)
(* NULL has its declared type for the converter and none in the canonical  *)
(* expression, so that a number made from it may be written as text as a   *)
(* double, which powercenter.md:154 calls opaque.  And IN without regard   *)
(* to case compares a NULL of type string with items of any type, in upper *)
(* case (powercenter.md:180-182: comparisons across types are opaque).     *)
CallsAreTyped ==
  part # Opaque =>
    \A c \in part.node.calls :
      \/ WellTyped(c)
      \/ untyped /\ c.function = "to_string" /\ c.kinds[1] = "double"
      \/ folded /\ c.function = "upper"

=============================================================================

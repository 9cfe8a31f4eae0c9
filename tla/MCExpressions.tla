---------------------------- MODULE MCExpressions ----------------------------
(***************************************************************************)
(* Instance of ExpressionMeaning: ports of every type, literals at the     *)
(* boundaries of the functions, and expressions of two operators or        *)
(* functions around a leaf.                                                *)
(***************************************************************************)
EXTENDS ExpressionMeaning

MCTypes == [i |-> Type("integer"), d |-> Decimal(3, 1), s |-> Type("string"),
            t |-> Type("timestamp"), v |-> Type("integer"), p |-> Type("string")]
MCPorts     == {"i", "d", "s", "t", "v"}
MCGroupKeys == {"s"}
MCPending   == {"v"}
MCTargetTypes == {Type("integer"), Decimal(4, 0), Type("string"), Type("timestamp")}

Id(p)       == [tag |-> "id", name |-> p]
Unset(p)    == [tag |-> "unconnected", name |-> p]
Param(p)    == [tag |-> "param", name |-> p]
Lookup(p)   == [tag |-> "lookup", name |-> p]
Const(v, t) == [tag |-> "literal", value |-> v, type |-> t]
N(n)        == Const(Count(n), Type("integer"))
S(s)        == Const(String(s), Type("string"))
NoValue     == Const(Null, Unknown)
Yes         == Const(Boolean(TRUE), Type("boolean"))

MCLeaves == {Id(p) : p \in MCPorts} \cup
            {N(2), Const(Number(5, 2), Decimal(2, 1)), S(<<"1">>), NoValue, Yes, Unset("i"), Unset("s"),
             Param("p"), Lookup("d"), [tag |-> "count"]}

Sides == {Id("i"), Id("s"), Yes, NoValue}
Around(kind, name, shapes) == {[form |-> kind, name |-> name, args |-> a] : a \in shapes}
Op(name)         == Around("op", name, {<<Hole, x>> : x \in Sides} \cup {<<x, Hole>> : x \in Sides})
Left(name)       == Around("op", name, {<<Hole, Id("i")>>, <<Hole, Id("s")>>})
Of(name, shapes) == Around("call", name, shapes)

MCWraps ==
  UNION {Op(o) : o \in {"add", "divide", "eq", "||"}} \cup Left("and") \cup Left("lt") \cup
  UNION {Of(f, {<<Hole>>}) : f \in {"ISNULL", "UPPER", "LENGTH", "ABS", "SIGN", "CHR", "IS_NUMBER", "IS_DATE",
                                     "TO_DATE", "TO_CHAR", "TO_DECIMAL", "TO_INTEGER", "TRUNC", "ABORT"}} \cup
  Of("IIF", {<<Hole, x>> : x \in Sides} \cup {<<Yes, Hole>>} \cup {<<Hole, x, NoValue>> : x \in Sides}
            \cup {<<Id("i"), Hole, x>> : x \in Sides} \cup {<<Id("i"), x, Hole>> : x \in Sides}) \cup
  Of("DECODE", {<<Hole, x, N(0)>> : x \in Sides} \cup {<<Yes, Hole, x>> : x \in Sides}
               \cup {<<Id("i"), N(2), Hole, x>> : x \in Sides}
               \cup {<<Id("s"), Hole, Yes, N(2), NoValue, S(<<"a">>)>>, <<Yes, Id("i"), S(<<>>), Hole, Id("s")>>}) \cup
  Of("IN", {<<Hole, x>> : x \in Sides} \cup {<<Hole, S(<<"1">>), S(<<"A">>), N(0)>>, <<Hole, S(<<"A">>), N(2)>>, <<Hole, N(5), N(0)>>,
                                             <<Id("i"), Hole, N(2)>>}) \cup
  Of("SUBSTR", {<<Hole, N(k)>> : k \in {-2, 0, 2}} \cup {<<Id("s"), Hole>>, <<Id("s"), N(0), Hole>>,
                                                        <<Hole, N(-9), N(1)>>}) \cup
  Of("LPAD", {<<Hole, N(3)>>, <<Hole, N(0), S(<<"b">>)>>, <<Id("s"), Hole, S(<<"a", "1">>)>>,
              <<Id("s"), N(2), Hole>>}) \cup
  Of("INSTR", {<<Hole, S(<<>>)>>, <<Hole, S(<<"b">>), N(2)>>, <<Id("s"), Hole>>, <<Id("s"), Id("s"), Hole, N(1)>>}) \cup
  Of("REPLACECHR", {<<N(0), Hole, S(<<"b">>), S(<<"1">>)>>, <<N(1), Hole, S(<<"a", "b">>), NoValue>>}) \cup
  Of("IS_DATE", {<<Hole, S(<<"F">>)>>, <<Hole, S(<<"YY">>)>>}) \cup
  Of("TO_CHAR", {<<Hole, S(<<"YY">>)>>}) \cup
  Of("TO_DECIMAL", {<<Hole, N(0)>>, <<Hole, N(1)>>, <<Id("d"), Hole>>}) \cup
  Of("TO_INTEGER", {<<Hole, N(1)>>, <<Id("d"), Hole>>}) \cup
  Of("TRUNC", {<<Hole, N(1)>>, <<Hole, S(<<"U">>)>>}) \cup
  Of("ADD_TO_DATE", {<<Hole, S(<<"U">>), N(-1)>>, <<Id("t"), S(<<"U">>), Hole>>}) \cup
  Of("GET_DATE_PART", {<<Hole, S(<<"U">>)>>, <<Hole, S(<<"W">>)>>}) \cup
  Of("SETVARIABLE", {<<Param("p"), Hole>>, <<Hole, N(2)>>})

Row(i, d, s, t) == [i |-> i, d |-> d, s |-> s, t |-> t, v |-> Null, p |-> String(<<"1", "a">>)]
R1 == Row(Count(0), Number(-5, 2), String(<<>>), Time(3))
R2 == Row(Count(-1), Number(1, 2), String(<<"a", "b">>), Null)
R3 == Row(Count(2), Number(5, 2), String(<<"D">>), Time(-1))
R4 == Row(Null, Null, String(<<"d">>), Time(2))
R5 == Row(Count(2), Number(2, 1), String(<<"X">>), Time(1))
R6 == Row(Count(1), Number(-3, 2), Null, Null)

(* Every row alone, and groups of two.                                     *)
Together(r, q) == <<[r EXCEPT !.s = q.s], q>>
MCGroups == {<<r>> : r \in {R1, R2, R3, R4, R5, R6}} \cup
            {Together(R1, R3), Together(R4, R2), Together(R5, R6), Together(R4, R4)}
=============================================================================

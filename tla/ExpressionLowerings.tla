------------------------- MODULE ExpressionLowerings ------------------------
(***************************************************************************)
(* What the SQL of the DuckDB emitter and the columns of the Spark emitter *)
(* compute for a canonical expression, next to what it means: lower(),     *)
(* _extended() and _cast() of both, and the helpers of the Spark runtime.  *)
(* Where the engines differ (docs/semantics.md lists it) their functions   *)
(* are defined apart; a function both are given with the same arguments    *)
(* has its canonical meaning.                                              *)
(***************************************************************************)
EXTENDS CanonicalExpressions

Engines == {"duckdb", "spark"}

-----------------------------------------------------------------------------
(* Functions of the engines.                                               *)

(* A cast to an integer type: DuckDB rounds, Spark truncates.              *)
EngineCast(e, v, t) ==
  IF e = "spark" /\ t.kind \in Integral /\ v.is = "number"
  THEN Count(TowardZero(v)) ELSE CastTo(v, t)

(* substring: a start of 0 is the first place for Spark, the one before it *)
(* for DuckDB; one below 0 counts from the end.                            *)
EngineSubstring(e, s, from, n) ==
  CASE from > 0 -> Slice(s, from, n)
    [] from = 0 -> Slice(s, 1, IF e = "spark" THEN n ELSE n - 1)
    [] OTHER    -> Slice(s, Max({1, Len(s) + from + 1}), n)

(* instr and locate find the empty string where the search starts.         *)
EngineFinds(s, t, start) == IF t = <<>> THEN start ELSE Position(s, t, start)

(* The text of a decimal shows zeros up to its scale, and that of a double *)
(* at least one decimal.                                                   *)
EngineText(v, t) ==
  Plain(v) \o (CASE t.kind \notin Fractional -> <<>>
                 [] v.den = 1 -> <<".", "0">>
                 [] OTHER     -> IF t.kind = "decimal" THEN <<"0">> ELSE <<>>)

EngineReads(e) == IF e = "duckdb" THEN {<<"D">>, <<"d">>} ELSE {<<"D">>}

Floor(v)   == v.num \div v.den
Ceiling(v) == -((-v.num) \div v.den)

-----------------------------------------------------------------------------
(* The guards the emitters write around them.                              *)

LoweredDivide(e, a, b) ==
  IF e = "duckdb" /\ IsZero(b) THEN Null
  ELSE Strict(<<a, b>>, IF IsZero(b) THEN Null ELSE Quotient(a, b))

LoweredConcat(vs) ==
  IF \A k \in DOMAIN vs : vs[k] = Null THEN Null
  ELSE LET texts == [k \in DOMAIN vs |-> IF vs[k] = Null THEN String(<<>>) ELSE vs[k]]
       IN  Strict(texts, String(FlattenSeq([k \in DOMAIN texts |-> texts[k].text])))

LoweredSubstr(e, as) ==
  LET s == as[1].text
      start == as[2].num
      n == IF Len(as) = 3 THEN as[3].num ELSE Len(s)
      from == Max({1, CASE start > 0 -> start
                        [] start = 0 -> 1
                        [] OTHER -> Len(s) + start + 1})
  IN  String(IF n <= 0 THEN <<>> ELSE EngineSubstring(e, s, from, n))

LoweredInstr(e, s, t, start) ==
  LET later == EngineFinds(EngineSubstring(e, s, start, Len(s)), t, 1)
  IN  Count(CASE t = <<>> -> 0
              [] e = "spark" -> EngineFinds(s, t, start)
              [] later = 0   -> 0
              [] OTHER       -> later + start - 1)

(* Zeros at the end of a text with a point, and a point then at the end.   *)
LoweredText(e, v, t) ==
  LET text == EngineText(v, t)
      zeros == {k \in DOMAIN text :
                  \E from \in {IF text[k] = "." THEN k + 1 ELSE k} :
                    from <= Len(text) /\ \A n \in from .. Len(text) : text[n] = "0"}
  IN  CASE t.kind # "decimal" \/ "." \notin ToSet(text) -> text
        [] e = "duckdb" -> Stripped(Stripped(text, "0"), ".")
        [] OTHER -> IF zeros = {} THEN text ELSE SubSeq(text, 1, Min(zeros) - 1)

(* A regular expression asks for every field at its full width; then the   *)
(* engine parses, with NULL for what it cannot read.                       *)
FullWidth == {<<"D">>, <<"X">>}
LoweredParses(e, s) == s \in FullWidth /\ s \in EngineReads(e)

LoweredTrunc(e, v, places) ==
  LET x == Moved(places, v)
  IN  IF e = "spark" THEN ToPlaces(places, v, IF x.num >= 0 THEN Floor(x) ELSE Ceiling(x))
      ELSE ToPlaces(places, v, TowardZero(x))

(* as are the values of the arguments, none of them NULL.                  *)
Extended(e, f, as, ts) ==
  CASE f = "substr" -> LoweredSubstr(e, as)
    [] f \in {"lpad", "rpad"} ->
         String(IF as[2].num <= 0 THEN <<>> ELSE Padded(f, as[1].text, as[2].num, as[3].text))
    [] f = "instr" -> LoweredInstr(e, as[1].text, as[2].text, as[3].num)
    [] f = "chr" -> IF Before(as[1], Count(1)) \/ Before(Count(127), as[1]) THEN Null
                    ELSE String(<<"c">>)
    [] f = "to_string" -> String(LoweredText(e, as[1], ts[1]))
    [] f = "parse_timestamp" -> IF LoweredParses(e, as[1].text) THEN Time(1) ELSE Failure
    [] f = "can_parse_timestamp" -> Boolean(LoweredParses(e, as[1].text))
    [] f = "trunc" -> EngineCast(e, LoweredTrunc(e, as[1], as[2].num), ts[1])
    [] f = "round" -> EngineCast(e, ToPlaces(as[2].num, as[1], HalfAway(Moved(as[2].num, as[1]))), ts[1])
    [] f = "sign"  -> EngineCast(e, Count(Sign(as[1].num)), Type("integer"))
    [] OTHER -> Meaning(f, as)

Lowered(e, f, vs, ts) ==
  CASE f = "divide" -> LoweredDivide(e, vs[1], vs[2])
    [] f = "concat" -> LoweredConcat(vs)
    [] f \in {"if", "case", "and", "or", "not", "is_null", "fail"} -> Meaning(f, vs)
    [] OTHER -> Strict(vs, Extended(e, f, vs, ts))

\* Mutant of LoweredCast: the engine is left to round.
LoweredCastOfEngine(e, v, source, t) == EngineCast(e, v, t)

(* _cast: fractions are rounded first when the target is an integer.       *)
LoweredCast(e, v, source, t) ==
  EngineCast(e, IF RoundsOnCast(source, t) /\ v.is = "number" THEN Count(HalfAway(v)) ELSE v, t)

-----------------------------------------------------------------------------
(* The value of node n over the rows of group g, "means" or on an engine;  *)
(* an expression without aggregate is over groups of one row.              *)
RECURSIVE Value(_, _, _)
Value(e, n, g) ==
  CASE n.node = "literal" -> n.value
    [] n.node \in {"column", "parameter"} -> g[1][n.name]
    [] n.node = "cast" ->
         LET v == Value(e, n.arg, g)
         IN  IF e = "means" THEN CastTo(v, n.type) ELSE LoweredCast(e, v, Infer(n.arg), n.type)
    [] n.node = "call" ->
         LET vs == [k \in DOMAIN n.args |-> Value(e, n.args[k], g)]
             ts == [k \in DOMAIN n.args |-> Infer(n.args[k])]
         IN  CASE n.function = "count_all" -> Count(Len(g))
               [] n.function \in Aggregates ->
                    Aggregated(n.function, [k \in DOMAIN g |-> Value(e, n.args[1], <<g[k]>>)])
               [] e = "means" -> Meaning(n.function, vs)
               [] OTHER -> Lowered(e, n.function, vs, ts)

=============================================================================


------------------------ MODULE CanonicalExpressions ------------------------
(***************************************************************************)
(* Canonical expressions: their nodes, the types the function catalogue    *)
(* gives them (canonical/functions.py, canonical/typing.py), what they     *)
(* mean (docs/semantics.md, which functions.py repeats per function), and  *)
(* what the statements the two emitters lower them to compute              *)
(* (targets/*/emitter.py, etlir_spark_runtime.py).                         *)
(*                                                                         *)
(* A value carries what tells it apart: NULL, the failure of the task, a   *)
(* rational number in lowest terms, a string as a sequence of characters,  *)
(* a Boolean, an instant in half days.  Three characters stand for whole   *)
(* texts of a timestamp: "D" one written at full width, "d" one that only  *)
(* a lenient parser reads, "X" one of the right shape and no date; "c"     *)
(* stands for whatever character chr makes of a code.                      *)
(* Overflow, the precision of divisions and the escaping of patterns are   *)
(* left out, and so are lower, ltrim, rtrim, is_whitespace, replace and    *)
(* replace_ci, which both emitters hand to one function of the engine.     *)
(***************************************************************************)
EXTENDS Integers, Sequences, FiniteSets, SequencesExt, FiniteSetsExt

-----------------------------------------------------------------------------
(* Types and nodes.                                                        *)

Integral   == {"integer", "bigint"}
Fractional == {"decimal", "double"}
Numeric    == Integral \cup Fractional

Type(k)       == [kind |-> k, precision |-> 0, scale |-> 0]
Decimal(p, s) == [kind |-> "decimal", precision |-> p, scale |-> s]
Unknown       == Type("unknown")

(* The decimals that are known to be whole numbers, and the integers.      *)
Whole(t) == t.kind \in Integral \/ (t.kind = "decimal" /\ t.precision > 0 /\ t.scale = 0)

(* A node carries what its nodes below are asked for: the type that infer  *)
(* gives it, by which the emitters round casts and write decimals, and the *)
(* calls and casts in it, with the kinds of their arguments and which of   *)
(* these are NULL literals.                                                *)
Literal(v, t)  == [node |-> "literal", value |-> v, type |-> t, calls |-> {}]
Column(c, t)   == [node |-> "column", name |-> c, type |-> t, calls |-> {}]
Parameter(p, t) == [node |-> "parameter", name |-> p, type |-> t, calls |-> {}]
OpaqueNode     == [node |-> "opaque", type |-> Unknown, calls |-> {}]

Infer(n)  == n.type
IsNull(n) == n.node = "literal" /\ n.value = [is |-> "null"]

CallsIn(f, as) ==
  {[function |-> f,
    kinds    |-> [k \in DOMAIN as |-> Infer(as[k]).kind],
    nulls    |-> {k \in DOMAIN as : IsNull(as[k])}]}
  \cup UNION {as[k].calls : k \in DOMAIN as}

-----------------------------------------------------------------------------
(* The catalogue: the type of a call, from the types of its arguments.     *)

KindsOf(ts) == {ts[k].kind : k \in DOMAIN ts}
Widest(kinds) ==
  IF "unknown" \in kinds THEN "unknown"
  ELSE IF "double" \in kinds THEN "double"
  ELSE IF "decimal" \in kinds THEN "decimal"
  ELSE IF "bigint" \in kinds THEN "bigint" ELSE "integer"
NumericResult(ts) == Type(Widest(KindsOf(ts)))

(* NULL and fail() have no type and take that of the other branches.       *)
CommonKind(kinds) ==
  LET known == kinds \ {"unknown"}
  IN  IF known # {} /\ known \subseteq Numeric THEN Widest(known)
      ELSE IF \E k \in known : known = {k} THEN CHOOSE k \in known : TRUE ELSE "unknown"
CommonType(ts) == Type(CommonKind(KindsOf(ts)))

Divided(ts) ==
  LET r == NumericResult(ts)
  IN  CASE r.kind \in {"double", "unknown"} -> r
        [] r.kind \in Integral -> Type("double")
        [] OTHER -> Type("decimal")

Results(ts) == [k \in DOMAIN ts |-> IF k % 2 = 0 \/ k = Len(ts) THEN ts[k] ELSE Unknown]

Comparisons == {"eq", "ne", "lt"}
Aggregates  == {"sum", "avg", "min", "max", "count", "count_all"}

ResultType(f, ts) ==
  CASE f \in {"add", "subtract", "multiply"} -> NumericResult(ts)
    [] f = "divide" -> Divided(ts)
    [] f \in {"negate", "abs", "trunc", "round", "min", "max"} -> ts[1]
    [] f \in Comparisons \cup {"and", "or", "not", "is_null", "matches_number",
             "can_parse_timestamp"} -> Type("boolean")
    [] f = "if"   -> CommonType(Tail(ts))
    [] f = "case" -> CommonType(Results(ts))
    [] f \in {"concat", "upper", "substr", "lpad", "rpad", "translate", "chr", "to_string",
             "format_timestamp"} -> Type("string")
    [] f \in {"length", "sign", "instr", "timestamp_part"} -> Type("integer")
    [] f = "leading_decimal" -> Type("decimal")
    [] f \in {"parse_timestamp", "trunc_timestamp", "add_interval"} -> Type("timestamp")
    [] f = "sum" -> IF ts[1].kind \in Integral THEN Type("bigint") ELSE ts[1]
    [] f = "avg" -> Type(IF ts[1].kind = "decimal" THEN "decimal" ELSE "double")
    [] f \in {"count", "count_all"} -> Type("bigint")
    [] OTHER -> Unknown

Cast(t, arg)   == [node |-> "cast", arg |-> arg, type |-> t, calls |-> CallsIn("cast", <<arg>>)]
CallOf(f, as)  == [node |-> "call", function |-> f, args |-> as,
                   type  |-> ResultType(f, [k \in DOMAIN as |-> Infer(as[k])]),
                   calls |-> CallsIn(f, as)]

HasAggregate(n) == \E c \in n.calls : c.function \in Aggregates

(* rounds_on_cast *)
RoundsOnCast(source, target) == target.kind \in Integral /\ source.kind \in Fractional

-----------------------------------------------------------------------------
(* Values.                                                                 *)

Null       == [is |-> "null"]
Failure    == [is |-> "failure"]
String(s)  == [is |-> "string", text |-> s]
Boolean(b) == [is |-> "boolean", holds |-> b]
Time(t)    == [is |-> "time", at |-> t]

Abs(x) == IF x < 0 THEN -x ELSE x
Sign(x) == IF x < 0 THEN -1 ELSE IF x = 0 THEN 0 ELSE 1

(* p/q in lowest terms, for p any integer and q one that is not 0.         *)
Number(p, q) ==
  LET g == Max({k \in 1 .. Abs(q) : p % k = 0 /\ Abs(q) % k = 0})
  IN  [is |-> "number", num |-> (p * Sign(q)) \div g, den |-> Abs(q) \div g]
Count(n) == [is |-> "number", num |-> n, den |-> 1]
IsZero(v) == v.is = "number" /\ v.num = 0

(* To whole numbers: half away from zero, and toward zero.                 *)
HalfAway(v)   == Sign(v.num) * ((2 * Abs(v.num) + v.den) \div (2 * v.den))
TowardZero(v) == Sign(v.num) * (Abs(v.num) \div v.den)

(* The same to k decimal places, where whole is made of the number moved   *)
(* up by k places; the numbers of an instance have at most 3.              *)
Moved(k, v) == Number(v.num * 10 ^ k, v.den)
ToPlaces(k, v, whole) == IF k > 3 THEN v ELSE Number(whole, 10 ^ k)

(* A number in digits: whole part, and up to three decimals without        *)
(* trailing zeros.                                                         *)
DigitsOf == <<"0", "1", "2", "3", "4", "5", "6", "7", "8", "9">>
Digit(n) == DigitsOf[n + 1]
Digits[n \in Nat] == IF n < 10 THEN <<Digit(n)>> ELSE Append(Digits[n \div 10], Digit(n % 10))
Decimals(v, k) == Digit(((Abs(v.num) * 10 ^ k) \div v.den) % 10)
Stripped(s, c) ==
  LET keep == {k \in DOMAIN s : s[k] # c} IN SubSeq(s, 1, IF keep = {} THEN 0 ELSE Max(keep))
Plain(v) ==
  (IF v.num < 0 THEN <<"-">> ELSE <<>>) \o Digits[Abs(v.num) \div v.den] \o
  (IF v.den = 1 THEN <<>>
   ELSE <<".">> \o Stripped(<<Decimals(v, 1), Decimals(v, 2), Decimals(v, 3)>>, "0"))

-----------------------------------------------------------------------------
(* What the functions of a row mean.                                       *)

(* NULL-strict: a failure fails the row, then any NULL makes it NULL; the  *)
(* result is of values without either.                                     *)
Strict(vs, result) ==
  IF \E k \in DOMAIN vs : vs[k] = Failure THEN Failure
  ELSE IF \E k \in DOMAIN vs : vs[k] = Null THEN Null ELSE result

(* Three-valued logic.  Which operands an engine evaluates is its choice,  *)
(* so an operand that fails fails the whole.                               *)
And(a, b) == IF Failure \in {a, b} THEN Failure
             ELSE IF Boolean(FALSE) \in {a, b} THEN Boolean(FALSE)
             ELSE IF Null \in {a, b} THEN Null ELSE Boolean(TRUE)
Not(a) == IF a \in {Null, Failure} THEN a ELSE Boolean(~a.holds)

(* The order of strings, by the codes of their characters.                 *)
Alphabet == <<" ", "-", ".">> \o DigitsOf \o <<"A", "B", "D", "X", "a", "b", "c", "d">>
Code(c) == CHOOSE k \in DOMAIN Alphabet : Alphabet[k] = c
TextBefore(s, t) ==
  \/ IsStrictPrefix(s, t)
  \/ \E k \in DOMAIN s \cap DOMAIN t :
        SubSeq(s, 1, k - 1) = SubSeq(t, 1, k - 1) /\ Code(s[k]) < Code(t[k])
Before(a, b) == CASE a.is = "number" -> a.num * b.den < b.num * a.den
                  [] a.is = "string" -> TextBefore(a.text, b.text)
                  [] a.is = "time"   -> a.at < b.at
                  [] OTHER -> ~a.holds /\ b.holds

Quotient(a, b) == Number(a.num * b.den, a.den * b.num)
Calculated(f, a, b) ==
  CASE f = "add"      -> Number(a.num * b.den + b.num * a.den, a.den * b.den)
    [] f = "subtract" -> Number(a.num * b.den - b.num * a.den, a.den * b.den)
    [] f = "multiply" -> Number(a.num * b.num, a.den * b.den)
    [] f = "divide"   -> IF IsZero(b) THEN Null ELSE Quotient(a, b)

Compared(f, a, b) == Boolean(CASE f = "eq" -> a = b
                               [] f = "ne" -> a # b
                               [] f = "lt" -> Before(a, b))

Upper(c) == CASE c = "a" -> "A" [] c = "b" -> "B" [] OTHER -> c
IsDigit(c) == c \in ToSet(DigitsOf)

Slice(s, from, n) == SubSeq(s, from, Min({Len(s), from + n - 1}))
Substring(s, start, n) ==
  LET from == CASE start > 0 -> start
                [] start = 0 -> 1
                [] OTHER     -> Max({1, Len(s) + start + 1})
  IN  IF n <= 0 THEN <<>> ELSE Slice(s, from, n)

(* The first place of t in s at or after start, 0 if there is none.        *)
Position(s, t, start) ==
  LET at == {k \in start .. Len(s) - Len(t) + 1 : SubSeq(s, k, k + Len(t) - 1) = t}
  IN  IF t = <<>> \/ at = {} THEN 0 ELSE Min(at)

Padded(f, s, n, fill) ==
  LET missing == [k \in 1 .. n - Len(s) |-> fill[((k - 1) % Len(fill)) + 1]]
  IN  CASE n <= 0      -> <<>>
        [] n <= Len(s) -> SubSeq(s, 1, n)
        [] f = "lpad"  -> missing \o s
        [] OTHER       -> s \o missing

(* Each character of from becomes the one at its place of to, or goes.     *)
Translated(s, from, to) ==
  LET place(c) == Min({k \in DOMAIN from : from[k] = c})
      kept == SelectSeq(s, LAMBDA c : c \in ToSet(from) => place(c) <= Len(to))
  IN  [k \in DOMAIN kept |-> IF kept[k] \in ToSet(from) THEN to[place(kept[k])] ELSE kept[k]]

LeadingDigits(s) == Max({k \in 0 .. Len(s) : \A n \in 1 .. k : IsDigit(s[n])})
Parses(s) == s = <<"D">>

OfText(f, vs) ==
  LET s == vs[1].text
  IN  CASE f = "upper"  -> String([k \in DOMAIN s |-> Upper(s[k])])
        [] f = "length" -> Count(Len(s))
        [] f = "substr" -> String(Substring(s, vs[2].num, IF Len(vs) = 3 THEN vs[3].num ELSE Len(s)))
        [] f \in {"lpad", "rpad"} -> String(Padded(f, s, vs[2].num, vs[3].text))
        [] f = "instr"  -> Count(Position(s, vs[2].text, vs[3].num))
        [] f = "translate" -> String(Translated(s, vs[2].text, vs[3].text))
        [] f = "matches_number" -> Boolean(s # <<>> /\ LeadingDigits(s) = Len(s))
        [] f = "leading_decimal" ->
             Count(FoldLeft(LAMBDA n, c : (10 * n) + (Code(c) - Code("0")), 0,
                            SubSeq(s, 1, LeadingDigits(s))))
        [] f = "parse_timestamp" -> IF Parses(s) THEN Time(1) ELSE Failure
        [] f = "can_parse_timestamp" -> Boolean(Parses(s))

OfNumber(f, vs) ==
  LET x == vs[1]
  IN  CASE f = "negate" -> Number(-x.num, x.den)
        [] f = "abs"    -> Number(Abs(x.num), x.den)
        [] f = "sign"   -> Count(Sign(x.num))
        [] f = "trunc"  -> ToPlaces(vs[2].num, x, TowardZero(Moved(vs[2].num, x)))
        [] f = "round"  -> ToPlaces(vs[2].num, x, HalfAway(Moved(vs[2].num, x)))
        [] f = "to_string" -> String(Plain(x))
        [] f = "chr"    -> IF x.den = 1 /\ x.num \in 1 .. 127 THEN String(<<"c">>) ELSE Null

OfTime(f, vs) ==
  LET t == vs[1].at
  IN  CASE f = "format_timestamp" -> String(<<"D">>)
        [] f = "trunc_timestamp" -> Time(t - (t % 2))
        [] f = "add_interval"    -> Time(t + (2 * vs[3].num))
        [] f = "timestamp_part"  -> Count(t \div 2)

(* The value after the first condition that is TRUE, or the default.       *)
Chosen(vs) ==
  LET n == (Len(vs) - 1) \div 2
      taken == {k \in 1 .. n : vs[2 * k - 1] # Boolean(FALSE) /\ vs[2 * k - 1] # Null}
  IN  IF taken = {} THEN vs[Len(vs)]
      ELSE LET k == Min(taken) IN IF vs[2 * k - 1] = Failure THEN Failure ELSE vs[2 * k]

(* NULLs count as nothing, unless all are NULL.                            *)
Joined(vs) ==
  LET texts == SelectSeq(vs, LAMBDA v : v # Null)
  IN  IF \E k \in DOMAIN vs : vs[k] = Failure THEN Failure
      ELSE IF texts = <<>> THEN Null
      ELSE String(FlattenSeq([k \in DOMAIN texts |-> texts[k].text]))

Meaning(f, vs) ==
  CASE f \in {"if", "case"} -> Chosen(vs)
    [] f = "concat"  -> Joined(vs)
    [] f = "and"     -> And(vs[1], vs[2])
    [] f = "or"      -> Not(And(Not(vs[1]), Not(vs[2])))
    [] f = "is_null" -> IF vs[1] = Failure THEN Failure ELSE Boolean(vs[1] = Null)
    [] f = "fail"    -> Failure
    [] f = "not"     -> Not(vs[1])
    [] f \in {"add", "subtract", "multiply", "divide"} ->
         Strict(vs, Calculated(f, vs[1], vs[2]))
    [] f \in Comparisons -> Strict(vs, Compared(f, vs[1], vs[2]))
    [] OTHER -> Strict(vs, CASE vs[1].is = "string" -> OfText(f, vs)
                             [] vs[1].is = "number" -> OfNumber(f, vs)
                             [] vs[1].is = "time"   -> OfTime(f, vs))

(* A cast: Booleans count 1 and 0, integers round half away from zero.     *)
CastTo(v, t) ==
  CASE v \in {Null, Failure} -> v
    [] v.is = "boolean" -> Count(IF v.holds THEN 1 ELSE 0)
    [] v.is = "number" /\ t.kind \in Integral -> Count(HalfAway(v))
    [] v.is = "number" /\ t.kind = "decimal" /\ t.precision > 0 ->
         ToPlaces(t.scale, v, HalfAway(Moved(t.scale, v)))
    [] OTHER -> v

(* An aggregate over the values of its argument in the rows of a group.    *)
Aggregated(f, vs) ==
  LET some == SelectSeq(vs, LAMBDA v : v # Null)
      sum == FoldLeft(LAMBDA a, b : Calculated("add", a, b), Count(0), some)
      best(Better(_, _)) == CHOOSE v \in ToSet(some) : \A w \in ToSet(some) : ~Better(w, v)
  IN  IF f = "count_all" THEN Count(Len(vs))
      ELSE IF \E k \in DOMAIN vs : vs[k] = Failure THEN Failure
      ELSE IF f = "count" THEN Count(Len(some))
      ELSE IF some = <<>> THEN Null
      ELSE CASE f = "sum" -> sum
             [] f = "avg" -> Quotient(sum, Count(Len(some)))
             [] f = "min" -> best(Before)
             [] f = "max" -> best(LAMBDA a, b : Before(b, a))

=============================================================================

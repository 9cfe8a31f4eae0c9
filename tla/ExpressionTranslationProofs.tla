--------------------- MODULE ExpressionTranslationProofs ---------------------
(***************************************************************************)
(* CallsAreTyped of ExpressionTranslation, for every depth and for any     *)
(* ports, types, leaves, operators and functions: the calls of whatever    *)
(* the converter does not refuse get what they are defined for.            *)
(*                                                                         *)
(* The converter decides by a type of its own, which travels with each     *)
(* node; what a call gets is the type that infer finds.  The invariant is  *)
(* how far the two may differ (Related): infer may know nothing, for a     *)
(* NULL; and it may find another kind of number once a variable port has   *)
(* taken NULL, which has the type of the port for the converter.  As long  *)
(* as no port has (Exact), the two are the same, so that nothing but the   *)
(* comparison of NULL in upper case is excused then; in an Aggregator no   *)
(* variable port is read back, and the aggregate functions rest on that.   *)
(* Given two types that differ no more than this, every function of the    *)
(* converter makes a part of which the same holds: one lemma for each.     *)
(* What flatten takes out of a || again is what was put into it, of which  *)
(* the last part of the invariant speaks.                                  *)
(***************************************************************************)
EXTENDS ExpressionTranslation, SequenceTheorems, WellFoundedInduction, TLAPS

AllKinds == PortKinds \cup {"boolean", "unknown"}

(* A call is held to its types, but for what the two flags allow.          *)
Held(c, exact, raised) ==
  \/ WellTyped(c)
  \/ ~exact /\ c.function = "to_string" /\ c.kinds[1] = "double"
  \/ raised /\ c.function = "upper"
AllHeld(n, exact, raised) == \A c \in n.calls : Held(c, exact, raised)

(* The kind infer finds against the one the converter has.                 *)
KindFits(i, d) ==
  \/ i = "unknown" \/ i = d
  \/ i \in Numeric /\ d \in Numeric /\ (d \in Integral => i \in Integral)
Related(t) == KindFits(Infer(t.node).kind, t.type.kind)

Good(t, exact, raised) ==
  /\ t.type.kind \in AllKinds
  /\ Infer(t.node).kind \in AllKinds
  /\ Related(t)
  /\ exact => Infer(t.node).kind = t.type.kind
  /\ IsLiteral(t) => LiteralFits(t.node.value, t.node.type)
  /\ AllHeld(t.node, exact, raised)

Fine(t, exact, raised) == t = Opaque \/ Good(t, exact, raised)

GoodNode(n, exact, raised) == Good(Typed(n, Infer(n)), exact, raised)

(* As long as no variable port took a value without a type, the two types  *)
(* of a part are the same; once the value has become that of a port or a   *)
(* condition, only its calls matter.                                       *)
Exact == ~untyped

IInv ==
  /\ part # Opaque => AllHeld(part.node, Exact, folded)
  /\ stage = "part" => Fine(part, Exact, folded)
  /\ allow => Exact
  /\ form = "||" /\ part # Opaque =>
       /\ part.node.args \in Seq(ToSet(part.node.args))
       /\ \A k \in DOMAIN part.node.args :
            LET n == part.node.args[k]
            IN  GoodNode(n, Exact, folded) /\ (Infer(n).kind \in {"string", "unknown"} \/ IsNull(n))

-----------------------------------------------------------------------------
(* Calls.                                                                  *)

IsSeq(s) == s \in Seq(ToSet(s))

Free(t)     == IsNull(t.node) \/ Infer(t.node).kind = "unknown"
Taken(t, S) == Free(t) \/ Infer(t.node).kind \in S

NewCall(f, as) == [function |-> f,
                   kinds    |-> [k \in DOMAIN as |-> Infer(as[k].node).kind],
                   nulls    |-> {k \in DOMAIN as : IsNull(as[k].node)}]
CallsOf(f, as) == {NewCall(f, as)} \cup UNION {as[k].node.calls : k \in DOMAIN as}
CallTyped(f, as) == Typed(CallOf(f, [k \in DOMAIN as |-> as[k].node]),
                          ResultType(f, [k \in DOMAIN as |-> as[k].type]))
Inferred(f, as) == ResultType(f, [k \in DOMAIN as |-> Infer(as[k].node)])
Declared(f, as) == ResultType(f, [k \in DOMAIN as |-> as[k].type])

(* The converter only makes a call when no argument is opaque.             *)
LEMMA CallCases ==
  ASSUME NEW f, NEW as
  PROVE  Call(f, as) = IF \E k \in DOMAIN as : as[k] = Opaque THEN Opaque ELSE CallTyped(f, as)
  BY DEF Call, CallTyped

(* What the node of a call carries.                                        *)
LEMMA CallFields ==
  ASSUME NEW f, NEW as
  PROVE  /\ CallTyped(f, as).type = Declared(f, as)
         /\ Infer(CallTyped(f, as).node) = Inferred(f, as)
         /\ CallTyped(f, as).node.node = "call"
         /\ CallTyped(f, as).node.calls = CallsOf(f, as)
         /\ CallTyped(f, as).node.args = [k \in DOMAIN as |-> as[k].node]
PROOF
  <1> DEFINE nodes == [k \in DOMAIN as |-> as[k].node]
             node  == CallOf(f, nodes)
  <1>1. node.type = ResultType(f, [k \in DOMAIN nodes |-> Infer(nodes[k])])
    BY DEF CallOf
  <1>2. [k \in DOMAIN nodes |-> Infer(nodes[k])] = [k \in DOMAIN as |-> Infer(as[k].node)]
    OBVIOUS
  <1>3. node.calls = CallsIn(f, nodes) /\ node.node = "call" /\ node.args = nodes
    BY DEF CallOf
  <1>4. CallsIn(f, nodes) = CallsOf(f, as)
    <2>1. DOMAIN nodes = DOMAIN as /\ \A k \in DOMAIN as : nodes[k] = as[k].node
      OBVIOUS
    <2>2. [k \in DOMAIN nodes |-> Infer(nodes[k]).kind] = [k \in DOMAIN as |-> Infer(as[k].node).kind]
      BY <2>1
    <2>3. {k \in DOMAIN nodes : IsNull(nodes[k])} = {k \in DOMAIN as : IsNull(as[k].node)}
      BY <2>1
    <2>4. {nodes[k].calls : k \in DOMAIN nodes} = {as[k].node.calls : k \in DOMAIN as}
      BY <2>1
    <2> HIDE DEF nodes
    <2>5. QED  BY <2>2, <2>3, <2>4 DEF CallsIn, CallsOf, NewCall
  <1>5. CallTyped(f, as).node = node /\ CallTyped(f, as).type = Declared(f, as)
    BY DEF CallTyped, Typed, Declared
  <1> HIDE DEF node
  <1>6. QED  BY <1>1, <1>2, <1>3, <1>4, <1>5 DEF Infer, Inferred

(* A call is good if it gets what it takes and the two types of it agree.  *)
LEMMA CallIsGood ==
  ASSUME NEW f, NEW as, NEW exact, NEW raised,
         \A k \in DOMAIN as : Good(as[k], exact, raised),
         Held(NewCall(f, as), exact, raised),
         Declared(f, as).kind \in AllKinds,
         Inferred(f, as).kind \in AllKinds,
         Related(CallTyped(f, as)),
         exact => Inferred(f, as).kind = Declared(f, as).kind
  PROVE  Good(CallTyped(f, as), exact, raised)
PROOF
  <1> DEFINE t == CallTyped(f, as)
  <1>1. /\ t.type = Declared(f, as)  /\ Infer(t.node) = Inferred(f, as)
        /\ t.node.node = "call"      /\ t.node.calls = CallsOf(f, as)
    BY CallFields
  <1>2. AllHeld(t.node, exact, raised)
    <2> SUFFICES ASSUME NEW c \in CallsOf(f, as)  PROVE Held(c, exact, raised)
      BY <1>1 DEF AllHeld
    <2>1. CASE c = NewCall(f, as)  BY <2>1
    <2>2. CASE \E k \in DOMAIN as : c \in as[k].node.calls
      <3>1. PICK k \in DOMAIN as : c \in as[k].node.calls  BY <2>2
      <3>2. QED  BY <3>1 DEF Good, AllHeld
    <2>3. QED  BY <2>1, <2>2 DEF CallsOf
  <1>3. ~IsLiteral(t)  BY <1>1 DEF IsLiteral
  <1> HIDE DEF t
  <1>4. Related(t)  BY DEF t
  <1>5. QED  BY <1>1, <1>2, <1>3, <1>4 DEF Good, t

(* Functions the result of which is of one type whatever they get.         *)
Fixed ==
  Comparisons \cup {"and", "or", "not", "is_null", "matches_number", "can_parse_timestamp", "concat",
    "upper",
    "substr", "lpad", "translate", "chr", "to_string", "format_timestamp", "length", "sign", "instr",
    "timestamp_part", "leading_decimal", "parse_timestamp", "trunc_timestamp", "add_interval", "count",
    "count_all", "fail"}

(* Their result does not depend on the types of the arguments.             *)
LEMMA FixedResult ==
  ASSUME NEW f \in Fixed, NEW ts, NEW us
  PROVE  /\ ResultType(f, ts) = ResultType(f, us)
         /\ ResultType(f, ts).kind \in AllKinds
  BY DEF Fixed, Comparisons, ResultType, Type, Unknown, AllKinds, PortKinds, Numeric, Integral, Fractional

(* Functions the result of which has the type of the first argument.       *)
LikeFirst == {"negate", "abs", "trunc", "round", "min", "max"}

LEMMA FirstResult ==
  ASSUME NEW f \in LikeFirst, NEW ts
  PROVE  ResultType(f, ts) = ts[1]
  BY DEF LikeFirst, Comparisons, ResultType

LEMMA FixedCall ==
  ASSUME NEW f \in Fixed, NEW as, NEW exact, NEW raised,
         \A k \in DOMAIN as : Fine(as[k], exact, raised),
         (\A k \in DOMAIN as : as[k] # Opaque) => Held(NewCall(f, as), exact, raised)
  PROVE  Fine(Call(f, as), exact, raised)
PROOF
  <1>1. CASE \E k \in DOMAIN as : as[k] = Opaque  BY <1>1, CallCases DEF Fine
  <1>2. CASE \A k \in DOMAIN as : as[k] # Opaque
    <2>1. Call(f, as) = CallTyped(f, as)  BY <1>2, CallCases
    <2>2. \A k \in DOMAIN as : Good(as[k], exact, raised)  BY <1>2 DEF Fine
    <2>3. /\ Declared(f, as) = Inferred(f, as)
          /\ Declared(f, as).kind \in AllKinds
      BY FixedResult DEF Declared, Inferred
    <2>4. Related(CallTyped(f, as))
      <3>1. CallTyped(f, as).type = Declared(f, as) /\ Infer(CallTyped(f, as).node) = Inferred(f, as)
        BY CallFields
      <3>2. QED  BY <3>1, <2>3 DEF Related, KindFits
    <2>5. Good(CallTyped(f, as), exact, raised)  BY <1>2, <2>2, <2>3, <2>4, CallIsGood
    <2>6. QED  BY <2>1, <2>5 DEF Fine
  <1>3. QED  BY <1>1, <1>2

(* A function like its first argument loses nothing that this has.         *)
LEMMA FirstCall ==
  ASSUME NEW f \in LikeFirst, NEW as, NEW exact, NEW raised, 1 \in DOMAIN as,
         \A k \in DOMAIN as : Fine(as[k], exact, raised),
         (\A k \in DOMAIN as : as[k] # Opaque) => Held(NewCall(f, as), exact, raised)
  PROVE  Fine(Call(f, as), exact, raised)
PROOF
  <1>1. CASE \E k \in DOMAIN as : as[k] = Opaque  BY <1>1, CallCases DEF Fine
  <1>2. CASE \A k \in DOMAIN as : as[k] # Opaque
    <2>1. Call(f, as) = CallTyped(f, as)  BY <1>2, CallCases
    <2>2. \A k \in DOMAIN as : Good(as[k], exact, raised)  BY <1>2 DEF Fine
    <2>3. Declared(f, as) = as[1].type /\ Inferred(f, as) = Infer(as[1].node)
      <3> DEFINE ts == [k \in DOMAIN as |-> as[k].type]
                 us == [k \in DOMAIN as |-> Infer(as[k].node)]
      <3>1. ts[1] = as[1].type /\ us[1] = Infer(as[1].node)  OBVIOUS
      <3> HIDE DEF ts, us
      <3>2. ResultType(f, ts) = ts[1] /\ ResultType(f, us) = us[1]  BY FirstResult
      <3>3. QED  BY <3>1, <3>2 DEF Declared, Inferred, ts, us
    <2>4. Good(as[1], exact, raised)  BY <2>2
    <2>5. Related(CallTyped(f, as))
      <3>1. CallTyped(f, as).type = Declared(f, as) /\ Infer(CallTyped(f, as).node) = Inferred(f, as)
        BY CallFields
      <3>2. QED  BY <3>1, <2>3, <2>4 DEF Related, Good
    <2>6. Good(CallTyped(f, as), exact, raised)  BY <1>2, <2>2, <2>3, <2>4, <2>5, CallIsGood DEF Good
    <2>7. QED  BY <2>1, <2>6 DEF Fine
  <1>3. QED  BY <1>1, <1>2

(* A call whose arguments are taken place by place is well typed.          *)
LEMMA TakenCall ==
  ASSUME NEW f, f \notin Comparisons, NEW as, NEW n \in Nat, DOMAIN as = 1 .. n,
         \A k \in 1 .. n : Taken(as[k], Takes(f, n, k))
  PROVE  WellTyped(NewCall(f, as))
PROOF
  <1> DEFINE c == NewCall(f, as)
  <1>1. c.function = f /\ c.kinds = [k \in 1 .. n |-> Infer(as[k].node).kind] /\ Len(c.kinds) = n
        /\ c.nulls = {k \in 1 .. n : IsNull(as[k].node)}
    BY DEF NewCall
  <1> HIDE DEF c
  <1>2. \A k \in 1 .. n : k \in c.nulls \/ c.kinds[k] = "unknown" \/ c.kinds[k] \in Takes(f, n, k)
    BY <1>1 DEF Taken, Free
  <1>3. QED  BY <1>1, <1>2 DEF WellTyped, c

(* The same for one, two and three arguments.                              *)
LEMMA TakenOne ==
  ASSUME NEW f, f \notin Comparisons, NEW a, NEW exact, NEW raised, Fine(a, exact, raised),
         a # Opaque => Taken(a, Takes(f, 1, 1))
  PROVE  /\ f \in Fixed => Fine(Call(f, <<a>>), exact, raised)
         /\ f \in LikeFirst => Fine(Call(f, <<a>>), exact, raised)
PROOF
  <1> DEFINE as == <<a>>
  <1>1. DOMAIN as = 1 .. 1 /\ as[1] = a /\ 1 \in DOMAIN as  OBVIOUS
  <1> HIDE DEF as
  <1>2. \A k \in DOMAIN as : Fine(as[k], exact, raised)
    <2>1. \A k \in DOMAIN as : k = 1  BY <1>1
    <2>2. QED  BY <1>1, <2>1
  <1>3. ASSUME \A k \in DOMAIN as : as[k] # Opaque  PROVE Held(NewCall(f, as), exact, raised)
    <2>1. \A k \in 1 .. 1 : Taken(as[k], Takes(f, 1, k))
      <3> SUFFICES ASSUME NEW k \in 1 .. 1  PROVE Taken(as[k], Takes(f, 1, k))  OBVIOUS
      <3>1. k = 1  OBVIOUS
      <3>2. QED  BY <3>1, <1>1, <1>3
    <2>2. WellTyped(NewCall(f, as))  BY <1>1, <2>1, TakenCall, 1 \in Nat
    <2>3. QED  BY <2>2 DEF Held
  <1>4. QED  BY <1>1, <1>2, <1>3, FixedCall, FirstCall DEF as

(* The same of two arguments.                                              *)
LEMMA TakenTwo ==
  ASSUME NEW f, f \notin Comparisons, NEW a, NEW b, NEW exact, NEW raised, Fine(a, exact, raised), Fine(b, exact, raised),
         a # Opaque => Taken(a, Takes(f, 2, 1)),
         b # Opaque => Taken(b, Takes(f, 2, 2))
  PROVE  /\ f \in Fixed => Fine(Call(f, <<a, b>>), exact, raised)
         /\ f \in LikeFirst => Fine(Call(f, <<a, b>>), exact, raised)
PROOF
  <1> DEFINE as == <<a, b>>
  <1>1. DOMAIN as = 1 .. 2 /\ as[1] = a /\ as[2] = b /\ 1 \in DOMAIN as /\ 2 \in DOMAIN as  OBVIOUS
  <1> HIDE DEF as
  <1>2. \A k \in DOMAIN as : k = 1 \/ k = 2  BY <1>1
  <1>3. \A k \in DOMAIN as : Fine(as[k], exact, raised)  BY <1>1, <1>2
  <1>4. ASSUME \A k \in DOMAIN as : as[k] # Opaque  PROVE Held(NewCall(f, as), exact, raised)
    <2>1. \A k \in 1 .. 2 : Taken(as[k], Takes(f, 2, k))
      <3> SUFFICES ASSUME NEW k \in 1 .. 2  PROVE Taken(as[k], Takes(f, 2, k))  OBVIOUS
      <3>0. k = 1 \/ k = 2  OBVIOUS
      <3>1. CASE k = 1  BY <3>1, <1>1, <1>4
      <3>2. CASE k = 2  BY <3>2, <1>1, <1>4
      <3>3. QED  BY <3>0, <3>1, <3>2
    <2>2. WellTyped(NewCall(f, as))  BY <1>1, <2>1, TakenCall, 2 \in Nat
    <2>3. QED  BY <2>2 DEF Held
  <1>5. QED  BY <1>1, <1>3, <1>4, FixedCall, FirstCall DEF as

(* The same of three.                                                      *)
LEMMA TakenThree ==
  ASSUME NEW f, f \notin Comparisons, NEW a, NEW b, NEW c, NEW exact, NEW raised,
         Fine(a, exact, raised), Fine(b, exact, raised), Fine(c, exact, raised), f \in Fixed,
         a # Opaque => Taken(a, Takes(f, 3, 1)),
         b # Opaque => Taken(b, Takes(f, 3, 2)),
         c # Opaque => Taken(c, Takes(f, 3, 3))
  PROVE  Fine(Call(f, <<a, b, c>>), exact, raised)
PROOF
  <1> DEFINE as == <<a, b, c>>
  <1>1. /\ DOMAIN as = 1 .. 3 /\ as[1] = a /\ as[2] = b /\ as[3] = c
        /\ 1 \in DOMAIN as /\ 2 \in DOMAIN as /\ 3 \in DOMAIN as
    OBVIOUS
  <1> HIDE DEF as
  <1>2. \A k \in DOMAIN as : k = 1 \/ k = 2 \/ k = 3  BY <1>1
  <1>3. \A k \in DOMAIN as : Fine(as[k], exact, raised)  BY <1>1, <1>2
  <1>4. ASSUME \A k \in DOMAIN as : as[k] # Opaque  PROVE Held(NewCall(f, as), exact, raised)
    <2>1. \A k \in 1 .. 3 : Taken(as[k], Takes(f, 3, k))
      <3> SUFFICES ASSUME NEW k \in 1 .. 3  PROVE Taken(as[k], Takes(f, 3, k))  OBVIOUS
      <3>0. k = 1 \/ k = 2 \/ k = 3  OBVIOUS
      <3>1. CASE k = 1  BY <3>1, <1>1, <1>4
      <3>2. CASE k = 2  BY <3>2, <1>1, <1>4
      <3>3. CASE k = 3  BY <3>3, <1>1, <1>4
      <3>4. QED  BY <3>0, <3>1, <3>2, <3>3
    <2>2. WellTyped(NewCall(f, as))  BY <1>1, <2>1, TakenCall, 3 \in Nat
    <2>3. QED  BY <2>2 DEF Held
  <1>5. QED  BY <1>3, <1>4, FixedCall DEF as

(* A comparison is of NULL, of one kind or of numbers.                     *)
Compares(a, b) ==
  \/ Free(a) \/ Free(b)
  \/ Infer(a.node).kind = Infer(b.node).kind
  \/ Infer(a.node).kind \in Numeric /\ Infer(b.node).kind \in Numeric

Comparand(t) == Taken(t, PortKinds \cup {"boolean"})

(* A good part may be a side of a comparison.                              *)
LEMMA GoodIsTaken ==
  ASSUME NEW t, NEW exact, NEW raised, Good(t, exact, raised)
  PROVE  Comparand(t)
  BY DEF Good, Comparand, Taken, Free, AllKinds

(* A comparison of what compares is good.                                  *)
LEMMA ComparedCall ==
  ASSUME NEW f \in Comparisons, NEW a, NEW b, NEW exact, NEW raised, Fine(a, exact, raised), Fine(b, exact, raised),
         a # Opaque /\ b # Opaque => Compares(a, b)
  PROVE  Fine(Call(f, <<a, b>>), exact, raised)
PROOF
  <1> DEFINE as == <<a, b>>
  <1>1. DOMAIN as = 1 .. 2 /\ as[1] = a /\ as[2] = b /\ 1 \in DOMAIN as /\ 2 \in DOMAIN as  OBVIOUS
  <1> HIDE DEF as
  <1>2. \A k \in DOMAIN as : k = 1 \/ k = 2  BY <1>1
  <1>3. \A k \in DOMAIN as : Fine(as[k], exact, raised)  BY <1>1, <1>2
  <1>4. ASSUME \A k \in DOMAIN as : as[k] # Opaque  PROVE Held(NewCall(f, as), exact, raised)
    <2> DEFINE c == NewCall(f, as)
    <2>1. /\ c.function = f /\ c.kinds = [k \in 1 .. 2 |-> Infer(as[k].node).kind]
          /\ c.nulls = {k \in 1 .. 2 : IsNull(as[k].node)}
      BY <1>1 DEF NewCall
    <2> HIDE DEF c
    <2>2. /\ Len(c.kinds) = 2 /\ c.kinds[1] = Infer(a.node).kind /\ c.kinds[2] = Infer(b.node).kind
          /\ 1 \in c.nulls <=> IsNull(a.node)
          /\ 2 \in c.nulls <=> IsNull(b.node)
      <3>1. 1 \in 1 .. 2 /\ 2 \in 1 .. 2  OBVIOUS
      <3>2. Len([k \in 1 .. 2 |-> Infer(as[k].node).kind]) = 2  OBVIOUS
      <3>3. c.kinds[1] = Infer(as[1].node).kind /\ c.kinds[2] = Infer(as[2].node).kind  BY <2>1, <3>1
      <3>4. (1 \in c.nulls <=> IsNull(as[1].node)) /\ (2 \in c.nulls <=> IsNull(as[2].node))
        BY <2>1, <3>1
      <3>5. QED  BY <2>1, <3>2, <3>3, <3>4, <1>1
    <2>3. Compares(a, b) /\ Comparand(a) /\ Comparand(b)
      BY <1>1, <1>4, GoodIsTaken DEF Fine
    <2>4. Takes(f, 2, 1) = PortKinds \cup {"boolean"} /\ Takes(f, 2, 2) = PortKinds \cup {"boolean"}
      BY DEF Takes, Comparisons, Arithmetic
    <2>5. \A k \in 1 .. 2 : k \in c.nulls \/ c.kinds[k] = "unknown" \/ c.kinds[k] \in Takes(f, 2, k)
      <3> SUFFICES ASSUME NEW k \in 1 .. 2
                   PROVE  k \in c.nulls \/ c.kinds[k] = "unknown" \/ c.kinds[k] \in Takes(f, 2, k)
        OBVIOUS
      <3>1. CASE k = 1  BY <3>1, <2>2, <2>3, <2>4 DEF Comparand, Taken, Free
      <3>2. CASE k = 2  BY <3>2, <2>2, <2>3, <2>4 DEF Comparand, Taken, Free
      <3>3. QED  BY <3>1, <3>2
    <2>6. \/ 1 \in c.nulls \/ c.kinds[1] = "unknown" \/ 2 \in c.nulls \/ c.kinds[2] = "unknown"
          \/ c.kinds[1] = c.kinds[2] \/ {c.kinds[1], c.kinds[2]} \subseteq Numeric
      BY <2>2, <2>3 DEF Compares, Free
    <2>7. WellTyped(c)  BY <2>1, <2>2, <2>5, <2>6 DEF WellTyped
    <2>8. QED  BY <2>7 DEF Held, c
  <1>5. f \in Fixed  BY DEF Fixed
  <1>6. QED  BY <1>3, <1>4, <1>5, FixedCall DEF as

-----------------------------------------------------------------------------
(* Literals and casts.                                                     *)

LEMMA LiteralIsGood ==
  ASSUME NEW v, NEW T, LiteralFits(v, T), T.kind \in AllKinds, NEW exact, NEW raised
  PROVE  Good(Lit(v, T), exact, raised)
  BY DEF Lit, Typed, Literal, Good, Infer, Related, KindFits, IsLiteral, AllHeld

(* The literals that the converter makes by itself.                        *)
LEMMA MadeLiterals ==
  ASSUME NEW exact, NEW raised
  PROVE  /\ \A n : Good(IntLit(n), exact, raised) /\ Taken(IntLit(n), Integral) /\ Taken(IntLit(n), Numeric)
         /\ \A s : Good(StringLit(s), exact, raised) /\ Taken(StringLit(s), {"string"})
         /\ Good(NullLit, exact, raised) /\ Free(NullLit) /\ IsNullLiteral(NullLit)
PROOF
  <1>1. ASSUME NEW n
        PROVE  Good(IntLit(n), exact, raised) /\ Taken(IntLit(n), Integral) /\ Taken(IntLit(n), Numeric)
    <2>1. LiteralFits(Count(n), Type("integer")) /\ Type("integer").kind \in AllKinds
      BY DEF LiteralFits, Count, Type, Numeric, Integral, AllKinds, PortKinds
    <2>2. Good(IntLit(n), exact, raised)  BY <2>1, LiteralIsGood DEF IntLit
    <2>3. Infer(IntLit(n).node).kind = "integer"
      BY DEF IntLit, Lit, Typed, Literal, Infer, Type
    <2>4. QED  BY <2>2, <2>3 DEF Taken, Integral, Numeric
  <1>2. ASSUME NEW s  PROVE Good(StringLit(s), exact, raised) /\ Taken(StringLit(s), {"string"})
    <2>1. LiteralFits(String(s), Type("string")) /\ Type("string").kind \in AllKinds
      BY DEF LiteralFits, String, Type, AllKinds, PortKinds
    <2>2. Good(StringLit(s), exact, raised)  BY <2>1, LiteralIsGood DEF StringLit
    <2>3. Infer(StringLit(s).node).kind = "string"
      BY DEF StringLit, Lit, Typed, Literal, Infer, Type
    <2>4. QED  BY <2>2, <2>3 DEF Taken
  <1>3. Good(NullLit, exact, raised) /\ Free(NullLit) /\ IsNullLiteral(NullLit)
    <2>1. LiteralFits(Null, Unknown) /\ Unknown.kind \in AllKinds
      BY DEF LiteralFits, Unknown, Type, AllKinds
    <2>2. Good(NullLit, exact, raised)  BY <2>1, LiteralIsGood DEF NullLit
    <2>3. Free(NullLit) /\ IsNullLiteral(NullLit)
      BY DEF NullLit, Lit, Typed, Literal, Infer, Unknown, Type, Free, IsNullLiteral, IsLiteral
    <2>4. QED  BY <2>2, <2>3
  <1>4. QED  BY <1>1, <1>2, <1>3

LEMMA NullIsFree ==
  ASSUME NEW t, IsNullLiteral(t)
  PROVE  Free(t)
  BY DEF IsNullLiteral, IsLiteral, Free, IsNull, Null

(* A cast of a number or a Boolean has the type it casts to.               *)
LEMMA CastIsGood ==
  ASSUME NEW t, NEW exact, NEW raised, Good(t, exact, raised), Taken(t, Numeric \cup {"boolean"}),
         NEW T, T.kind \in AllKinds
  PROVE  Good(Typed(Cast(T, t.node), T), exact, raised)
PROOF
  <1> DEFINE n == Cast(T, t.node)
             as == <<t>>
  <1>1. n.type = T /\ n.node = "cast" /\ n.calls = CallsIn("cast", <<t.node>>)
    BY DEF Cast
  <1>2. CallsIn("cast", <<t.node>>) = CallsOf("cast", as)
    <2> DEFINE ns == <<t.node>>
    <2>1. DOMAIN ns = {1} /\ DOMAIN as = {1} /\ ns[1] = as[1].node  OBVIOUS
    <2> HIDE DEF ns, as
    <2>2. [k \in DOMAIN ns |-> Infer(ns[k]).kind] = [k \in DOMAIN as |-> Infer(as[k].node).kind]
      BY <2>1
    <2>3. {k \in DOMAIN ns : IsNull(ns[k])} = {k \in DOMAIN as : IsNull(as[k].node)}  BY <2>1
    <2>4. {ns[k].calls : k \in DOMAIN ns} = {as[k].node.calls : k \in DOMAIN as}  BY <2>1
    <2>5. CallsIn("cast", ns) = CallsOf("cast", as)  BY <2>2, <2>3, <2>4 DEF CallsIn, CallsOf, NewCall
    <2>6. QED  BY <2>5 DEF ns
  <1>3. DOMAIN as = 1 .. 1 /\ as[1] = t /\ 1 \in DOMAIN as  OBVIOUS
  <1> HIDE DEF n, as
  <1>4. \A k \in DOMAIN as : k = 1  BY <1>3
  <1>5. "cast" \notin Comparisons /\ Takes("cast", 1, 1) = Numeric \cup {"boolean"}
    BY DEF Comparisons, Takes, Arithmetic
  <1>6. WellTyped(NewCall("cast", as))  BY <1>3, <1>4, <1>5, TakenCall, 1 \in Nat
  <1>7. AllHeld(n, exact, raised)
    <2> SUFFICES ASSUME NEW c \in CallsOf("cast", as)  PROVE Held(c, exact, raised)
      BY <1>1, <1>2 DEF AllHeld
    <2>1. CASE c = NewCall("cast", as)  BY <2>1, <1>6 DEF Held
    <2>2. CASE c \in t.node.calls  BY <2>2 DEF Good, AllHeld
    <2>3. QED  BY <2>1, <2>2, <1>3, <1>4 DEF CallsOf
  <1>8. QED  BY <1>1, <1>7 DEF Good, Typed, Related, KindFits, Infer, IsLiteral, n

-----------------------------------------------------------------------------
(* What the converter makes of an argument.                                *)

(* What as_bool returns is Boolean, also for infer.                        *)
LEMMA AsBoolIsFine ==
  ASSUME NEW t, NEW exact, NEW raised, Good(t, exact, raised)
  PROVE  /\ Fine(AsBool(t), exact, raised)
         /\ AsBool(t) # Opaque => Taken(AsBool(t), {"boolean"})
PROOF
  <1>1. CASE t.type.kind \in {"boolean", "unknown"}
    <2>1. AsBool(t) = t  BY <1>1 DEF AsBool, Numeric, Integral, Fractional
    <2>2. Taken(t, {"boolean"})  BY <1>1 DEF Good, Related, KindFits, Taken, Free, Numeric, Integral, Fractional
    <2>3. QED  BY <2>1, <2>2 DEF Fine
  <1>2. CASE t.type.kind \in Numeric
    <2>1. AsBool(t) = Call("ne", <<t, IntLit(0)>>)
      BY <1>2 DEF AsBool, Numeric, Integral, Fractional
    <2>2. Good(IntLit(0), exact, raised) /\ Taken(IntLit(0), Numeric)  BY MadeLiterals
    <2>3. Compares(t, IntLit(0))
      BY <1>2, <2>2 DEF Compares, Good, Related, KindFits, Taken, Free
    <2>4. Fine(AsBool(t), exact, raised)
      BY <2>1, <2>2, <2>3, ComparedCall DEF Fine, Comparisons
    <2>5. AsBool(t) # Opaque => Infer(AsBool(t).node).kind = "boolean"
      <3>1. AsBool(t) # Opaque => AsBool(t) = CallTyped("ne", <<t, IntLit(0)>>)  BY <2>1, CallCases
      <3>2. Infer(CallTyped("ne", <<t, IntLit(0)>>).node) = Inferred("ne", <<t, IntLit(0)>>)
        BY CallFields
      <3>3. Inferred("ne", <<t, IntLit(0)>>) = Type("boolean")
        BY DEF Inferred, ResultType, Comparisons
      <3>4. QED  BY <3>1, <3>2, <3>3 DEF Type
    <2>6. QED  BY <2>4, <2>5 DEF Taken
  <1>3. CASE t.type.kind \notin {"boolean", "unknown"} /\ t.type.kind \notin Numeric
    <2>1. AsBool(t) = Opaque  BY <1>3 DEF AsBool
    <2>2. QED  BY <2>1 DEF Fine
  <1>4. QED  BY <1>1, <1>2, <1>3

(* A number, or NULL of whatever type.                                     *)
LEMMA AsNumIsFine ==
  ASSUME NEW t, NEW exact, NEW raised, Good(t, exact, raised)
  PROVE  /\ Fine(AsNum(t), exact, raised)
         /\ AsNum(t) # Opaque =>
              /\ Taken(AsNum(t), Numeric)
              /\ AsNum(t).type.kind \in Numeric \/ IsNullLiteral(AsNum(t))
              /\ IsCount(AsNum(t)) => Taken(AsNum(t), Integral)
PROOF
  <1>1. CASE t.type.kind \in Numeric \/ IsNullLiteral(t)
    <2>1. AsNum(t) = t  BY <1>1 DEF AsNum
    <2>2. Taken(t, Numeric)
      BY <1>1, NullIsFree DEF Good, Related, KindFits, Taken, Free
    <2>3. IsCount(t) => Taken(t, Integral)
      BY <1>1, NullIsFree DEF Good, Related, KindFits, Taken, Free, IsCount, Numeric, Integral, Fractional
    <2>4. QED  BY <1>1, <2>1, <2>2, <2>3 DEF Fine
  <1>2. CASE ~(t.type.kind \in Numeric \/ IsNullLiteral(t)) /\ t.type.kind = "boolean"
    <2> DEFINE c == Typed(Cast(Type("integer"), t.node), Type("integer"))
    <2>1. AsNum(t) = c  BY <1>2 DEF AsNum, When
    <2>2. Taken(t, Numeric \cup {"boolean"})
      BY <1>2 DEF Good, Related, KindFits, Taken, Free, Numeric, Integral, Fractional
    <2>3. Type("integer").kind \in AllKinds
      BY DEF Type, AllKinds, PortKinds, Numeric, Integral
    <2>4. Good(c, exact, raised)  BY <2>2, <2>3, CastIsGood
    <2>5. c.type.kind = "integer" /\ Infer(c.node).kind = "integer"
      BY DEF Typed, Cast, Infer, Type
    <2> HIDE DEF c
    <2>6. QED  BY <2>1, <2>4, <2>5 DEF Fine, Taken, Numeric, Integral
  <1>3. CASE ~(t.type.kind \in Numeric \/ IsNullLiteral(t)) /\ t.type.kind # "boolean"
    <2>1. AsNum(t) = Opaque  BY <1>3 DEF AsNum, When
    <2>2. QED  BY <2>1 DEF Fine
  <1>4. QED  BY <1>1, <1>2, <1>3

(* The text of a number that is exact for the converter and a double for   *)
(* infer is the first exception.                                           *)
LEMMA TextIsFine ==
  ASSUME NEW t, NEW exact, NEW raised, Good(t, exact, raised), t.type.kind \in Integral \cup {"decimal"}
  PROVE  Fine(Call("to_string", <<t>>), exact, raised)
PROOF
  <1> DEFINE as == <<t>>
  <1>1. DOMAIN as = 1 .. 1 /\ as[1] = t /\ 1 \in DOMAIN as  OBVIOUS
  <1> HIDE DEF as
  <1>2. \A k \in DOMAIN as : k = 1  BY <1>1
  <1>3. Held(NewCall("to_string", as), exact, raised)
    <2>1. CASE Taken(t, Integral \cup {"decimal"})
      <3>1. "to_string" \notin Comparisons /\ Takes("to_string", 1, 1) = Integral \cup {"decimal"}
        BY DEF Comparisons, Takes, Arithmetic
      <3>2. WellTyped(NewCall("to_string", as))  BY <1>1, <1>2, <2>1, <3>1, TakenCall, 1 \in Nat
      <3>3. QED  BY <3>2 DEF Held
    <2>2. CASE ~Taken(t, Integral \cup {"decimal"})
      <3>1. ~exact /\ Infer(t.node).kind = "double"
        BY <2>2 DEF Good, Related, KindFits, Taken, Free, Numeric, Integral, Fractional
      <3>2. NewCall("to_string", as).function = "to_string" /\ NewCall("to_string", as).kinds[1] = "double"
        BY <1>1, <3>1 DEF NewCall
      <3>3. QED  BY <3>1, <3>2 DEF Held
    <2>3. QED  BY <2>1, <2>2
  <1>4. QED  BY <1>1, <1>2, <1>3, FixedCall DEF Fine, Fixed, as

(* These return texts.                                                     *)
LEMMA CallOfText ==
  ASSUME NEW f \in {"to_string", "concat", "upper"}, NEW as, Call(f, as) # Opaque
  PROVE  Infer(Call(f, as).node).kind = "string" /\ Call(f, as).type.kind = "string"
PROOF
  <1>1. Call(f, as) = CallTyped(f, as)  BY CallCases
  <1>2. CallTyped(f, as).type = Declared(f, as) /\ Infer(CallTyped(f, as).node) = Inferred(f, as)
    BY CallFields
  <1>3. Inferred(f, as) = Type("string") /\ Declared(f, as) = Type("string")
    BY DEF Inferred, Declared, ResultType, Comparisons
  <1>4. QED  BY <1>1, <1>2, <1>3 DEF Type

LEMMA AsStrIsFine ==
  ASSUME NEW t, NEW exact, NEW raised, Good(t, exact, raised)
  PROVE  /\ Fine(AsStr(t), exact, raised)
         /\ AsStr(t) # Opaque => Taken(AsStr(t), {"string"})
PROOF
  <1>1. CASE t.type.kind = "string" \/ IsNullLiteral(t)
    <2>1. AsStr(t) = t  BY <1>1 DEF AsStr
    <2>2. Taken(t, {"string"})
      BY <1>1, NullIsFree DEF Good, Related, KindFits, Taken, Free, Numeric, Integral, Fractional
    <2>3. QED  BY <2>1, <2>2 DEF Fine
  <1>2. CASE ~(t.type.kind = "string" \/ IsNullLiteral(t)) /\ (Whole(t.type) \/ t.type.kind = "decimal")
    <2>1. AsStr(t) = Call("to_string", <<t>>)  BY <1>2 DEF AsStr, When
    <2>2. t.type.kind \in Integral \cup {"decimal"}  BY <1>2 DEF Whole
    <2>3. Fine(AsStr(t), exact, raised)  BY <2>1, <2>2, TextIsFine
    <2>4. QED  BY <2>1, <2>3, CallOfText DEF Taken
  <1>3. CASE ~(t.type.kind = "string" \/ IsNullLiteral(t)) /\ ~(Whole(t.type) \/ t.type.kind = "decimal")
    <2>1. AsStr(t) = Opaque  BY <1>3 DEF AsStr, When
    <2>2. QED  BY <2>1 DEF Fine
  <1>4. QED  BY <1>1, <1>2, <1>3

LEMMA AsTimeIsFine ==
  ASSUME NEW t, NEW exact, NEW raised, Good(t, exact, raised)
  PROVE  /\ Fine(AsTime(t), exact, raised)
         /\ AsTime(t) # Opaque => Taken(AsTime(t), {"timestamp"})
         /\ IsTime(t) => Taken(t, {"timestamp"})
PROOF
  <1>1. IsTime(t) \/ IsNullLiteral(t) => Taken(t, {"timestamp"})
    BY NullIsFree DEF IsTime, Good, Related, KindFits, Taken, Free, AllKinds, PortKinds, Numeric, Integral, Fractional
  <1>2. QED  BY <1>1 DEF AsTime, When, Fine

(* The same of an argument that may be opaque.                             *)
LEMMA OpaqueStays ==
  /\ AsBool(Opaque) = Opaque /\ AsNum(Opaque) = Opaque /\ AsStr(Opaque) = Opaque /\ AsTime(Opaque) = Opaque
  /\ Opaque.type.kind = "unknown" /\ ~IsLiteral(Opaque) /\ ~IsNullLiteral(Opaque) /\ ~IsTime(Opaque)
PROOF
  <1>1. Opaque.type.kind = "unknown" /\ ~IsLiteral(Opaque)
    BY DEF Opaque, Typed, OpaqueNode, Unknown, Type, IsLiteral
  <1>2. ~IsNullLiteral(Opaque) /\ ~IsTime(Opaque)  BY <1>1 DEF IsNullLiteral, IsTime
  <1>3. Opaque.type.kind \notin Numeric /\ ~Whole(Opaque.type)
    BY <1>1 DEF Numeric, Integral, Fractional, Whole
  <1>4. AsBool(Opaque) = Opaque  BY <1>1, <1>3 DEF AsBool
  <1>5. AsNum(Opaque) = Opaque  BY <1>1, <1>2, <1>3 DEF AsNum, When
  <1>6. AsStr(Opaque) = Opaque  BY <1>1, <1>2, <1>3 DEF AsStr, When
  <1>7. AsTime(Opaque) = Opaque  BY <1>1, <1>2 DEF AsTime, When
  <1>8. QED  BY <1>1, <1>2, <1>4, <1>5, <1>6, <1>7

LEMMA AsBoolFine ==
  ASSUME NEW t, NEW exact, NEW raised, Fine(t, exact, raised)
  PROVE  /\ Fine(AsBool(t), exact, raised)
         /\ AsBool(t) # Opaque => Taken(AsBool(t), {"boolean"})
  BY OpaqueStays, AsBoolIsFine DEF Fine

LEMMA AsNumFine ==
  ASSUME NEW t, NEW exact, NEW raised, Fine(t, exact, raised)
  PROVE  /\ Fine(AsNum(t), exact, raised)
         /\ AsNum(t) # Opaque =>
              /\ Taken(AsNum(t), Numeric)
              /\ AsNum(t).type.kind \in Numeric \/ IsNullLiteral(AsNum(t))
              /\ IsCount(AsNum(t)) => Taken(AsNum(t), Integral)
  BY OpaqueStays, AsNumIsFine DEF Fine

LEMMA AsStrFine ==
  ASSUME NEW t, NEW exact, NEW raised, Fine(t, exact, raised)
  PROVE  /\ Fine(AsStr(t), exact, raised)
         /\ AsStr(t) # Opaque => Taken(AsStr(t), {"string"})
  BY OpaqueStays, AsStrIsFine DEF Fine

LEMMA AsTimeFine ==
  ASSUME NEW t, NEW exact, NEW raised, Fine(t, exact, raised)
  PROVE  /\ Fine(AsTime(t), exact, raised)
         /\ AsTime(t) # Opaque => Taken(AsTime(t), {"timestamp"})
         /\ IsTime(t) => Taken(t, {"timestamp"})
  BY OpaqueStays, AsTimeIsFine DEF Fine

(* What comparable returns compares.                                       *)
LEMMA ComparableCall ==
  ASSUME NEW f \in Comparisons, NEW a, NEW b, NEW exact, NEW raised, Fine(a, exact, raised), Fine(b, exact, raised)
  PROVE  Fine(Call(f, Comparable(a, b)), exact, raised)
PROOF
  <1> DEFINE kinds == {a.type.kind, b.type.kind}
             numbers == kinds \subseteq Numeric \cup {"boolean"} /\ kinds \cap Numeric # {}
             alike == a.type.kind = b.type.kind /\ a.type.kind \in {"string", "timestamp", "boolean"}
  <1>1. CASE IsNullLiteral(a) \/ IsNullLiteral(b)
    <2>1. Comparable(a, b) = <<a, b>>  BY <1>1 DEF Comparable
    <2>2. Compares(a, b)  BY <1>1, NullIsFree DEF Compares
    <2>3. QED  BY <2>1, <2>2, ComparedCall
  <1>2. CASE ~(IsNullLiteral(a) \/ IsNullLiteral(b)) /\ numbers
    <2>1. Comparable(a, b) = <<AsNum(a), AsNum(b)>>  BY <1>2 DEF Comparable
    <2>2. Fine(AsNum(a), exact, raised) /\ Fine(AsNum(b), exact, raised)  BY AsNumFine
    <2>3. AsNum(a) # Opaque /\ AsNum(b) # Opaque => Compares(AsNum(a), AsNum(b))
      BY AsNumFine DEF Taken, Compares
    <2>4. QED  BY <2>1, <2>2, <2>3, ComparedCall
  <1>3. CASE ~(IsNullLiteral(a) \/ IsNullLiteral(b)) /\ ~numbers /\ alike
    <2>1. Comparable(a, b) = <<a, b>>  BY <1>3 DEF Comparable
    <2>2. Good(a, exact, raised) /\ Good(b, exact, raised)  BY <1>3, OpaqueStays DEF Fine
    <2>3. a.type.kind \notin Numeric /\ b.type.kind \notin Numeric
      BY <1>3 DEF Numeric, Integral, Fractional
    <2>4. Compares(a, b)  BY <1>3, <2>2, <2>3 DEF Good, Related, KindFits, Compares, Free
    <2>5. QED  BY <2>1, <2>4, ComparedCall
  <1>4. CASE ~(IsNullLiteral(a) \/ IsNullLiteral(b)) /\ ~numbers /\ ~alike
    <2>1. Comparable(a, b) = <<Opaque, Opaque>>  BY <1>4 DEF Comparable
    <2>2. Fine(Opaque, exact, raised)  BY DEF Fine
    <2>3. QED  BY <2>1, <2>2, ComparedCall
  <1>5. QED  BY <1>1, <1>2, <1>3, <1>4

-----------------------------------------------------------------------------
(* Results of IIF and DECODE.                                              *)

(* Kinds of results that branches lets through.                            *)
Agree(kinds) == kinds \subseteq {"unknown"} \/ CommonKind(kinds) # "unknown"

(* The widest of some numbers is a number, integral if they all are.       *)
LEMMA WidestKind ==
  ASSUME NEW S, S \subseteq Numeric
  PROVE  /\ Widest(S) \in Numeric
         /\ Widest(S) \in Integral <=> S \subseteq Integral
  BY DEF Widest, Numeric, Integral, Fractional

(* The common kind: the widest number, the only kind, or none.             *)
LEMMA CommonCases ==
  ASSUME NEW S
  PROVE  /\ S \subseteq {"unknown"} => CommonKind(S) = "unknown"
         /\ ~(S \subseteq {"unknown"}) /\ S \subseteq Numeric \cup {"unknown"}
              => CommonKind(S) = Widest(S \ {"unknown"})
         /\ \A k : k \in S /\ k # "unknown" /\ k \notin Numeric /\ S \subseteq {k, "unknown"} => CommonKind(S) = k
         /\ \/ S \subseteq {"unknown"} \/ S \subseteq Numeric \cup {"unknown"}
            \/ \E k \in S : k # "unknown" /\ k \notin Numeric /\ S \subseteq {k, "unknown"}
            \/ CommonKind(S) = "unknown"
PROOF
  <1> DEFINE known == S \ {"unknown"}
  <1>0. "unknown" \notin Numeric  BY DEF Numeric, Integral, Fractional
  <1>1. ASSUME S \subseteq {"unknown"}  PROVE CommonKind(S) = "unknown"
    <2>1. known = {}  BY <1>1
    <2>2. QED  BY <2>1 DEF CommonKind
  <1>2. ASSUME ~(S \subseteq {"unknown"}), S \subseteq Numeric \cup {"unknown"}
        PROVE  CommonKind(S) = Widest(known)
    <2>1. known # {} /\ known \subseteq Numeric  BY <1>2
    <2>2. QED  BY <2>1 DEF CommonKind
  <1>3. ASSUME NEW k, k \in S, k # "unknown", k \notin Numeric, S \subseteq {k, "unknown"}
        PROVE  CommonKind(S) = k
    <2>1. known = {k}  BY <1>3
    <2>2. ~(known \subseteq Numeric)  BY <2>1, <1>3
    <2>3. \E j \in known : known = {j}  BY <2>1
    <2>4. (CHOOSE j \in known : TRUE) = k
      <3>1. (CHOOSE j \in {k} : TRUE) \in {k}  OBVIOUS
      <3>2. QED  BY <3>1, <2>1
    <2>5. QED  BY <2>2, <2>3, <2>4 DEF CommonKind
  <1>4. ASSUME ~(S \subseteq {"unknown"}), ~(S \subseteq Numeric \cup {"unknown"}),
               ~(\E k \in S : k # "unknown" /\ k \notin Numeric /\ S \subseteq {k, "unknown"})
        PROVE  CommonKind(S) = "unknown"
    <2>1. ~(known \subseteq Numeric)  BY <1>4
    <2>2. ~(\E j \in known : known = {j})
      <3> SUFFICES ASSUME NEW j \in known, known = {j}  PROVE FALSE  OBVIOUS
      <3>1. j \notin Numeric  BY <2>1
      <3>2. QED  BY <3>1, <1>4
    <2>3. QED  BY <2>1, <2>2 DEF CommonKind
  <1>5. QED  BY <1>1, <1>2, <1>3, <1>4

LEMMA CommonInKinds ==
  ASSUME NEW S, S \subseteq AllKinds
  PROVE  CommonKind(S) \in AllKinds
PROOF
  <1>1. "unknown" \in AllKinds /\ Numeric \subseteq AllKinds  BY DEF AllKinds, PortKinds
  <1>2. CASE S \subseteq {"unknown"}  BY <1>1, <1>2, CommonCases
  <1>3. CASE ~(S \subseteq {"unknown"}) /\ S \subseteq Numeric \cup {"unknown"}
    <2>1. S \ {"unknown"} \subseteq Numeric  BY <1>3
    <2>2. Widest(S \ {"unknown"}) \in Numeric  BY <2>1, WidestKind
    <2>3. QED  BY <1>1, <1>3, <2>2, CommonCases
  <1>4. CASE \E k \in S : k # "unknown" /\ k \notin Numeric /\ S \subseteq {k, "unknown"}
    BY <1>4, CommonCases
  <1>5. QED  BY <1>1, <1>2, <1>3, <1>4, CommonCases

(* Results that agree for the converter agree for infer.                   *)
LEMMA CommonFits ==
  ASSUME NEW D, NEW I, Agree(D),
         \A i \in I : \E d \in D : KindFits(i, d)
  PROVE  KindFits(CommonKind(I), CommonKind(D))
PROOF
  <1>0. "unknown" \notin Numeric /\ "unknown" \notin Integral  BY DEF Numeric, Integral, Fractional
  <1>1. CASE I \subseteq {"unknown"}  BY <1>1, CommonCases DEF KindFits
  <1>2. CASE ~(I \subseteq {"unknown"}) /\ D \subseteq {"unknown"}
    <2>1. \A i \in I : i = "unknown"  BY <1>0, <1>2 DEF KindFits
    <2>2. QED  BY <1>2, <2>1
  <1>3. CASE ~(I \subseteq {"unknown"}) /\ ~(D \subseteq {"unknown"}) /\ D \subseteq Numeric \cup {"unknown"}
    <2> DEFINE i0 == I \ {"unknown"}
               d0 == D \ {"unknown"}
    <2>1. \A i \in i0 : i \in Numeric  BY <1>0, <1>3 DEF KindFits
    <2>2. i0 \subseteq Numeric /\ d0 \subseteq Numeric /\ I \subseteq Numeric \cup {"unknown"}
      BY <1>3, <2>1
    <2>3. CommonKind(I) = Widest(i0) /\ CommonKind(D) = Widest(d0)  BY <1>3, <2>2, CommonCases
    <2>4. d0 \subseteq Integral => i0 \subseteq Integral
      <3> SUFFICES ASSUME d0 \subseteq Integral, NEW i \in i0  PROVE i \in Integral  OBVIOUS
      <3>1. PICK d \in D : KindFits(i, d)  OBVIOUS
      <3>2. d # "unknown"  BY <1>0, <3>1, <2>1 DEF KindFits
      <3>3. QED  BY <3>1, <3>2 DEF KindFits
    <2> HIDE DEF i0, d0
    <2>5. QED  BY <2>2, <2>3, <2>4, WidestKind DEF KindFits
  <1>4. CASE ~(I \subseteq {"unknown"}) /\ ~(D \subseteq {"unknown"}) /\ ~(D \subseteq Numeric \cup {"unknown"})
    <2>1. PICK k \in D : k # "unknown" /\ k \notin Numeric /\ D \subseteq {k, "unknown"}
      BY <1>4, CommonCases DEF Agree
    <2>2. CommonKind(D) = k  BY <2>1, CommonCases
    <2>3. \A i \in I : i \in {k, "unknown"}
      <3> SUFFICES ASSUME NEW i \in I  PROVE i \in {k, "unknown"}  OBVIOUS
      <3>1. PICK d \in D : KindFits(i, d)  OBVIOUS
      <3>2. d = k \/ d = "unknown"  BY <2>1
      <3>3. QED  BY <3>1, <3>2, <2>1, <1>0 DEF KindFits
    <2>4. k \in I /\ I \subseteq {k, "unknown"}  BY <2>3, <1>4
    <2>5. CommonKind(I) = k  BY <2>1, <2>4, CommonCases
    <2>6. QED  BY <2>2, <2>5 DEF KindFits
  <1>5. QED  BY <1>1, <1>2, <1>3, <1>4

(* An IIF or DECODE whose results are at the places P.                     *)
LEMMA BranchCall ==
  ASSUME NEW f \in {"if", "case"}, NEW as, NEW n \in Nat, DOMAIN as = 1 .. n,
         NEW P \in SUBSET (1 .. n), NEW exact, NEW raised,
         \A k \in 1 .. n : Fine(as[k], exact, raised),
         \A k \in 1 .. n : Takes(f, n, k) = IF k \in P THEN PortKinds \cup {"boolean"} ELSE {"boolean"},
         \A k \in (1 .. n) \ P : as[k] # Opaque => Taken(as[k], {"boolean"}),
         (\A k \in P : as[k] # Opaque) => Agree({as[k].type.kind : k \in P}),
         Declared(f, as).kind = CommonKind({as[k].type.kind : k \in P}),
         Inferred(f, as).kind = CommonKind({Infer(as[k].node).kind : k \in P})
  PROVE  Fine(Call(f, as), exact, raised)
PROOF
  <1>1. CASE \E k \in DOMAIN as : as[k] = Opaque  BY <1>1, CallCases DEF Fine
  <1>2. CASE \A k \in DOMAIN as : as[k] # Opaque
    <2> DEFINE D == {as[k].type.kind : k \in P}
               I == {Infer(as[k].node).kind : k \in P}
               calls == CallsOf(f, as)
    <2>1. Call(f, as) = CallTyped(f, as)  BY <1>2, CallCases
    <2>2. \A k \in 1 .. n : Good(as[k], exact, raised)  BY <1>2 DEF Fine
    <2>3. Held(NewCall(f, as), exact, raised)
      <3>1. \A k \in 1 .. n : Taken(as[k], Takes(f, n, k))
        BY <2>2, <1>2, GoodIsTaken DEF Comparand
      <3>2. f \notin Comparisons  BY DEF Comparisons
      <3>3. QED  BY <3>1, <3>2, TakenCall DEF Held
    <2>4. \A k \in P : Related(as[k])  BY <2>2 DEF Good
    <2>5. Agree(D)  BY <1>2
    <2>6. \A i \in I : \E d \in D : KindFits(i, d)  BY <2>4 DEF Related
    <2>7. KindFits(CommonKind(I), CommonKind(D))  BY <2>5, <2>6, CommonFits
    <2>9. exact => CommonKind(I) = CommonKind(D)
      <3> SUFFICES ASSUME exact  PROVE CommonKind(I) = CommonKind(D)  OBVIOUS
      <3>1. \A k \in P : Infer(as[k].node).kind = as[k].type.kind  BY <2>2 DEF Good
      <3>2. I = D  BY <3>1
      <3>3. QED  BY <3>2
    <2>10. I \subseteq AllKinds /\ D \subseteq AllKinds  BY <2>2 DEF Good
    <2>11. /\ CommonKind(I) \in AllKinds /\ CommonKind(D) \in AllKinds  BY <2>10, CommonInKinds
    <2>12. Related(CallTyped(f, as))
      <3>1. /\ CallTyped(f, as).type = Declared(f, as) /\ Infer(CallTyped(f, as).node) = Inferred(f, as)
            /\ CallTyped(f, as).node.calls = calls
        BY CallFields
      <3> HIDE DEF I, D, calls
      <3>2. Declared(f, as).kind = CommonKind(D) /\ Inferred(f, as).kind = CommonKind(I)  BY DEF I, D
      <3>3. QED  BY <3>1, <3>2, <2>7 DEF Related
    <2> HIDE DEF I, D, calls
    <2>13. Declared(f, as).kind = CommonKind(D) /\ Inferred(f, as).kind = CommonKind(I)  BY DEF I, D
    <2>14. Good(CallTyped(f, as), exact, raised)
      BY <1>2, <2>2, <2>3, <2>9, <2>11, <2>12, <2>13, CallIsGood DEF calls
    <2>15. QED  BY <2>1, <2>14 DEF Fine
  <1>3. QED  BY <1>1, <1>2

(* What branches lets through agrees.                                      *)
LEMMA BranchesFine ==
  ASSUME NEW ts, DOMAIN ts # {}, NEW exact, NEW raised, \A k \in DOMAIN ts : Fine(ts[k], exact, raised)
  PROVE  /\ DOMAIN Branches(ts) = DOMAIN ts
         /\ \A k \in DOMAIN ts : Fine(Branches(ts)[k], exact, raised)
         /\ (\A k \in DOMAIN ts : Branches(ts)[k] # Opaque)
              => Agree({Branches(ts)[k].type.kind : k \in DOMAIN ts})
PROOF
  <1> DEFINE kinds == {ts[k].type.kind : k \in DOMAIN ts}
             all == IF "boolean" \in kinds /\ kinds \cap Numeric # {}
                    THEN [k \in DOMAIN ts |-> AsNum(ts[k])] ELSE ts
             known == {all[k].type.kind : k \in DOMAIN all} \ {"unknown"}
             refused == known # {} /\ CommonKind(known) = "unknown"
  <1>1. Branches(ts) = IF refused THEN [k \in DOMAIN ts |-> Opaque] ELSE all
    BY DEF Branches
  <1>2. DOMAIN all = DOMAIN ts /\ \A k \in DOMAIN ts : Fine(all[k], exact, raised)
    <2>1. CASE "boolean" \in kinds /\ kinds \cap Numeric # {}
      <3>1. \A k \in DOMAIN ts : all[k] = AsNum(ts[k])  BY <2>1
      <3>2. QED  BY <2>1, <3>1, AsNumFine
    <2>2. CASE ~("boolean" \in kinds /\ kinds \cap Numeric # {})
      <3>1. all = ts  BY <2>2
      <3>2. QED  BY <3>1
    <2>3. QED  BY <2>1, <2>2
  <1> HIDE DEF all
  <1>3. CASE refused
    <2>1. Branches(ts) = [k \in DOMAIN ts |-> Opaque]  BY <1>1, <1>3
    <2>2. Fine(Opaque, exact, raised)  BY DEF Fine
    <2>3. QED  BY <2>1, <2>2
  <1>4. CASE ~refused
    <2>1. Branches(ts) = all  BY <1>1, <1>4
    <2>2. Agree({all[k].type.kind : k \in DOMAIN ts})
      <3> DEFINE S == {all[k].type.kind : k \in DOMAIN ts}
      <3>1. known = S \ {"unknown"}  BY <1>2
      <3> HIDE DEF S
      <3>2. CommonKind(S) = CommonKind(S \ {"unknown"})
        <4>1. (S \ {"unknown"}) \ {"unknown"} = S \ {"unknown"}  OBVIOUS
        <4>2. QED  BY <4>1 DEF CommonKind
      <3>3. S \subseteq {"unknown"} \/ CommonKind(S) # "unknown"  BY <1>4, <3>1, <3>2
      <3>4. QED  BY <3>3 DEF Agree, S
    <2>3. QED  BY <2>1, <2>2, <1>2
  <1>5. QED  BY <1>3, <1>4

-----------------------------------------------------------------------------
(* Arithmetic.                                                             *)

(* Where kinds differ no more than they may, so do the widest of them.     *)
LEMMA WidestFits ==
  ASSUME NEW i, NEW d, NEW j, NEW e, KindFits(i, d), KindFits(j, e)
  PROVE  /\ KindFits(Widest({i, j}), Widest({d, e}))
         /\ Widest({d, e}) = "unknown" => Widest({i, j}) = "unknown"
         /\ Widest({d, e}) \in Numeric \cup {"unknown"} /\ Widest({i, j}) \in Numeric \cup {"unknown"}
  BY DEF KindFits, Widest, Numeric, Integral, Fractional

(* The kind a quotient has of that of the widest operand.                  *)
Quotiented(k) == IF k \in {"double", "unknown"} THEN k ELSE IF k \in Integral THEN "double" ELSE "decimal"

LEMMA QuotientFits ==
  ASSUME NEW i, NEW d, KindFits(i, d), d = "unknown" => i = "unknown",
         i \in Numeric \cup {"unknown"}, d \in Numeric \cup {"unknown"}
  PROVE  KindFits(Quotiented(i), Quotiented(d)) /\ Quotiented(d) \in Numeric \cup {"unknown"}
  BY DEF KindFits, Quotiented, Numeric, Integral, Fractional

(* The type of a sum or a quotient, from the kinds of its operands.        *)
LEMMA ArithmeticResult ==
  ASSUME NEW f \in Arithmetic, NEW ts, DOMAIN ts = 1 .. 2
  PROVE  ResultType(f, ts).kind = IF f = "divide" THEN Quotiented(Widest({ts[1].kind, ts[2].kind}))
                                  ELSE Widest({ts[1].kind, ts[2].kind})
PROOF
  <1>1. KindsOf(ts) = {ts[1].kind, ts[2].kind}
    <2>1. \A k : k \in 1 .. 2 <=> k = 1 \/ k = 2  OBVIOUS
    <2>2. QED  BY <2>1 DEF KindsOf
  <1> DEFINE w == Widest({ts[1].kind, ts[2].kind})
  <1>2. NumericResult(ts) = Type(w) /\ NumericResult(ts).kind = w  BY <1>1 DEF NumericResult, Type
  <1> HIDE DEF w
  <1>3. CASE f \in {"add", "subtract", "multiply"}
    <2>1. ResultType(f, ts) = NumericResult(ts)  BY <1>3 DEF ResultType, Comparisons
    <2>2. QED  BY <1>2, <1>3, <2>1 DEF w
  <1>4. CASE f = "divide"
    <2>1. ResultType(f, ts) = Divided(ts)  BY <1>4 DEF ResultType, Comparisons
    <2>2. CASE w \in {"double", "unknown"}
      <3>1. Divided(ts) = NumericResult(ts)  BY <1>2, <2>2 DEF Divided, Integral
      <3>2. QED  BY <1>2, <1>4, <2>1, <2>2, <3>1 DEF Quotiented, w
    <2>3. CASE w \in Integral
      <3>0. w \notin {"double", "unknown"}  BY <2>3 DEF Integral
      <3>1. Divided(ts) = Type("double")  BY <1>2, <2>3, <3>0 DEF Divided
      <3>2. QED  BY <1>4, <2>1, <2>3, <3>1 DEF Quotiented, w, Type, Integral
    <2>4. CASE w \notin Integral /\ w \notin {"double", "unknown"}
      <3>1. Divided(ts) = Type("decimal")  BY <1>2, <2>4 DEF Divided
      <3>2. QED  BY <1>4, <2>1, <2>4, <3>1 DEF Quotiented, w, Type
    <2>5. QED  BY <2>2, <2>3, <2>4
  <1>5. QED  BY <1>3, <1>4 DEF Arithmetic

LEMMA ArithmeticCall ==
  ASSUME NEW f \in Arithmetic, NEW a, NEW b, NEW exact, NEW raised, Fine(a, exact, raised), Fine(b, exact, raised),
         a # Opaque => Taken(a, Numeric), b # Opaque => Taken(b, Numeric)
  PROVE  Fine(Call(f, <<a, b>>), exact, raised)
PROOF
  <1> DEFINE as == <<a, b>>
  <1>1. DOMAIN as = 1 .. 2 /\ as[1] = a /\ as[2] = b /\ 1 \in DOMAIN as /\ 2 \in DOMAIN as  OBVIOUS
  <1> HIDE DEF as
  <1>2. \A k \in DOMAIN as : k = 1 \/ k = 2  BY <1>1
  <1>3. CASE \E k \in DOMAIN as : as[k] = Opaque  BY <1>3, CallCases DEF Fine, as
  <1>4. CASE \A k \in DOMAIN as : as[k] # Opaque
    <2> DEFINE i == Infer(a.node).kind
               j == Infer(b.node).kind
               d == a.type.kind
               e == b.type.kind
               calls == CallsOf(f, as)
    <2>1. Call(f, as) = CallTyped(f, as)  BY <1>4, CallCases
    <2>2. Good(a, exact, raised) /\ Good(b, exact, raised) /\ \A k \in DOMAIN as : Good(as[k], exact, raised)
      BY <1>1, <1>2, <1>4 DEF Fine
    <2>3. Held(NewCall(f, as), exact, raised)
      <3>1. \A k : Takes(f, 2, k) = Numeric  BY DEF Takes, Arithmetic
      <3>2. f \notin Comparisons  BY DEF Comparisons, Arithmetic
      <3>3. \A k \in 1 .. 2 : Taken(as[k], Takes(f, 2, k))  BY <1>1, <1>2, <1>4, <3>1
      <3>4. QED  BY <1>1, <3>2, <3>3, TakenCall, 2 \in Nat DEF Held
    <2>4. KindFits(i, d) /\ KindFits(j, e)  BY <2>2 DEF Good, Related
    <2>6. /\ Declared(f, as).kind = IF f = "divide" THEN Quotiented(Widest({d, e})) ELSE Widest({d, e})
          /\ Inferred(f, as).kind = IF f = "divide" THEN Quotiented(Widest({i, j})) ELSE Widest({i, j})
      <3> DEFINE ts == [k \in DOMAIN as |-> as[k].type]
                 us == [k \in DOMAIN as |-> Infer(as[k].node)]
      <3>1. DOMAIN ts = 1 .. 2 /\ DOMAIN us = 1 .. 2 /\ ts[1] = a.type /\ ts[2] = b.type
            /\ us[1] = Infer(a.node) /\ us[2] = Infer(b.node)
        BY <1>1
      <3> HIDE DEF ts, us
      <3>2. /\ ResultType(f, ts).kind = IF f = "divide" THEN Quotiented(Widest({d, e})) ELSE Widest({d, e})
            /\ ResultType(f, us).kind = IF f = "divide" THEN Quotiented(Widest({i, j})) ELSE Widest({i, j})
        BY <3>1, ArithmeticResult
      <3>3. QED  BY <3>2 DEF Declared, Inferred, ts, us
    <2>7. /\ CallTyped(f, as).type = Declared(f, as) /\ Infer(CallTyped(f, as).node) = Inferred(f, as)
          /\ CallTyped(f, as).node.calls = calls
      BY CallFields
    <2> HIDE DEF i, j, d, e, calls
    <2>8. /\ KindFits(Widest({i, j}), Widest({d, e}))
          /\ Widest({d, e}) = "unknown" => Widest({i, j}) = "unknown"
          /\ Widest({d, e}) \in Numeric \cup {"unknown"} /\ Widest({i, j}) \in Numeric \cup {"unknown"}
      BY <2>4, WidestFits
    <2>9. /\ KindFits(Quotiented(Widest({i, j})), Quotiented(Widest({d, e})))
          /\ Quotiented(Widest({d, e})) \in Numeric \cup {"unknown"}
          /\ Quotiented(Widest({i, j})) \in Numeric \cup {"unknown"}
      <3>1. KindFits(Widest({i, j}), Widest({i, j}))  BY DEF KindFits
      <3>2. QED  BY <2>8, <3>1, QuotientFits
    <2>10. /\ KindFits(Inferred(f, as).kind, Declared(f, as).kind)
           /\ Inferred(f, as).kind \in AllKinds /\ Declared(f, as).kind \in AllKinds
      BY <2>6, <2>8, <2>9 DEF AllKinds, PortKinds
    <2>12. Related(CallTyped(f, as))  BY <2>7, <2>10 DEF Related
    <2>13. exact => Inferred(f, as).kind = Declared(f, as).kind
      BY <2>2, <2>6 DEF Good, i, j, d, e
    <2>14. Good(CallTyped(f, as), exact, raised)  BY <2>2, <2>3, <2>10, <2>12, <2>13, CallIsGood DEF calls
    <2>15. QED  BY <2>1, <2>14 DEF Fine, as
  <1>5. QED  BY <1>3, <1>4

(* A literal without its sign, or a call.                                  *)
LEMMA NegatedFine ==
  ASSUME NEW t, NEW exact, NEW raised, Fine(t, exact, raised)
  PROVE  Fine(Negated(t), exact, raised)
PROOF
  <1> DEFINE n == AsNum(t)
  <1>1. Fine(n, exact, raised) /\ (n # Opaque => Taken(n, Numeric) /\ (n.type.kind \in Numeric \/ IsNullLiteral(n)))
    BY AsNumFine
  <1> HIDE DEF n
  <1>2. CASE IsLiteral(n) /\ ~IsNullLiteral(n)
    <2> DEFINE v == Meaning("negate", <<n.node.value>>)
    <2>1. n # Opaque  BY <1>2, OpaqueStays
    <2>2. Good(n, exact, raised) /\ n.type.kind \in Numeric  BY <1>1, <1>2, <2>1 DEF Fine
    <2>3. n.node.value # Null /\ LiteralFits(n.node.value, n.node.type) /\ Taken(n, Numeric)
      BY <1>1, <1>2, <2>1, <2>2 DEF Good, IsLiteral, IsNullLiteral
    <2>4. Infer(n.node).kind \in Numeric \/ n.node.type.kind = "unknown"
      BY <1>2, <2>3 DEF Taken, Free, IsNull, Null, Infer
    <2>5. n.node.value.is = "number"
      BY <2>3, <2>4 DEF LiteralFits, Infer, Numeric, Integral, Fractional
    <2>6. v.is = "number"
      <3> DEFINE vs == <<n.node.value>>
      <3>1. DOMAIN vs = {1} /\ vs[1] = n.node.value /\ vs[1].is = "number"  BY <2>5
      <3> HIDE DEF vs
      <3>2. Meaning("negate", vs) = Strict(vs, CASE vs[1].is = "string" -> OfText("negate", vs)
                                                 [] vs[1].is = "number" -> OfNumber("negate", vs)
                                                 [] vs[1].is = "time"   -> OfTime("negate", vs))
        BY DEF Meaning, Comparisons
      <3>3. Meaning("negate", vs) = Strict(vs, OfNumber("negate", vs))  BY <3>1, <3>2
      <3>4. \A k \in DOMAIN vs : vs[k] # Failure /\ vs[k] # Null
        BY <3>1, <2>3 DEF Failure, vs
      <3>5. Meaning("negate", vs) = OfNumber("negate", vs)  BY <3>3, <3>4 DEF Strict
      <3>6. OfNumber("negate", vs) = Number(-vs[1].num, vs[1].den)  BY DEF OfNumber
      <3>7. \A p, q : Number(p, q).is = "number"  BY DEF Number
      <3>8. QED  BY <3>5, <3>6, <3>7 DEF vs
    <2>7. Negated(t) = Lit(v, n.type)  BY <1>2 DEF Negated, n
    <2> HIDE DEF v
    <2>8. LiteralFits(v, n.type)  BY <2>6, <2>2 DEF LiteralFits
    <2>9. n.type.kind \in AllKinds  BY <2>2 DEF Good
    <2>10. QED  BY <2>7, <2>8, <2>9, LiteralIsGood DEF Fine
  <1>3. CASE ~(IsLiteral(n) /\ ~IsNullLiteral(n))
    <2>1. Negated(t) = Call("negate", <<n>>)  BY <1>3 DEF Negated, n
    <2>2. "negate" \notin Comparisons /\ "negate" \in LikeFirst /\ Takes("negate", 1, 1) = Numeric
      BY DEF Comparisons, LikeFirst, Takes
    <2>3. QED  BY <1>1, <2>1, <2>2, TakenOne
  <1>4. QED  BY <1>2, <1>3

-----------------------------------------------------------------------------
(* IIF and DECODE.                                                         *)

(* Kinds without the unknown one decide what is common.                    *)
LEMMA SameKnown ==
  ASSUME NEW A, NEW B, A \ {"unknown"} = B \ {"unknown"}
  PROVE  CommonKind(A) = CommonKind(B)
  BY DEF CommonKind

(* The type of an IIF is the common one of its last two arguments.         *)
LEMMA IfResult ==
  ASSUME NEW S, NEW ts \in Seq(S), DOMAIN ts = 1 .. 3
  PROVE  ResultType("if", ts).kind = CommonKind({ts[k].kind : k \in {2, 3}})
PROOF
  <1>1. ResultType("if", ts) = CommonType(Tail(ts))  BY DEF ResultType, Comparisons
  <1>2. DOMAIN Tail(ts) = 1 .. 2 /\ Tail(ts)[1] = ts[2] /\ Tail(ts)[2] = ts[3]
    <2>1. Len(ts) = 3  OBVIOUS
    <2>2. ts # <<>>  BY <2>1
    <2>3. /\ Tail(ts) \in Seq(S) /\ Len(Tail(ts)) = Len(ts) - 1
          /\ \A i \in 1 .. Len(Tail(ts)) : Tail(ts)[i] = ts[i + 1]
      BY <2>2, HeadTailProperties
    <2> DEFINE us == Tail(ts)
    <2>4. us \in Seq(S) /\ Len(us) = 2 /\ \A i \in 1 .. Len(us) : us[i] = ts[i + 1]  BY <2>1, <2>3
    <2> HIDE DEF us
    <2>5. DOMAIN us = 1 .. 2  BY <2>4
    <2>6. us[1] = ts[1 + 1] /\ us[2] = ts[2 + 1]  BY <2>4
    <2>7. QED  BY <2>5, <2>6 DEF us
  <1>3. KindsOf(Tail(ts)) = {ts[k].kind : k \in {2, 3}}
    <2> DEFINE us == Tail(ts)
    <2>1. DOMAIN us = {1, 2} /\ us[1] = ts[2] /\ us[2] = ts[3]  BY <1>2
    <2> HIDE DEF us
    <2>2. KindsOf(us) = {ts[k].kind : k \in {2, 3}}  BY <2>1 DEF KindsOf
    <2>3. QED  BY <2>2 DEF us
  <1>4. QED
    <2> DEFINE ck == CommonKind(KindsOf(Tail(ts)))
    <2>1. CommonType(Tail(ts)) = Type(ck)  BY DEF CommonType
    <2>2. ck = CommonKind({ts[k].kind : k \in {2, 3}})  BY <1>3
    <2> HIDE DEF ck
    <2>3. Type(ck).kind = ck  BY DEF Type
    <2>4. QED  BY <1>1, <2>1, <2>2, <2>3

LEMMA IfCall ==
  ASSUME NEW c, NEW a, NEW b, NEW exact, NEW raised, Fine(c, exact, raised), Fine(a, exact, raised), Fine(b, exact, raised),
         c # Opaque => Taken(c, {"boolean"}),
         a # Opaque /\ b # Opaque => Agree({a.type.kind, b.type.kind})
  PROVE  Fine(Call("if", <<c, a, b>>), exact, raised)
PROOF
  <1> DEFINE as == <<c, a, b>>
             P == {2, 3}
  <1>1. /\ DOMAIN as = 1 .. 3 /\ as[1] = c /\ as[2] = a /\ as[3] = b
        /\ \A k : k \in 1 .. 3 <=> k = 1 \/ k = 2 \/ k = 3
    OBVIOUS
  <1> HIDE DEF as
  <1>2. \A k \in 1 .. 3 : Fine(as[k], exact, raised)  BY <1>1
  <1>3. \A k \in 1 .. 3 : Takes("if", 3, k) = IF k \in P THEN PortKinds \cup {"boolean"} ELSE {"boolean"}
    <2>1. Takes("if", 3, 1) = {"boolean"}  BY DEF Takes, Arithmetic
    <2>2. Takes("if", 3, 2) = PortKinds \cup {"boolean"}  BY DEF Takes, Arithmetic
    <2>3. Takes("if", 3, 3) = PortKinds \cup {"boolean"}  BY DEF Takes, Arithmetic
    <2>4. QED  BY <1>1, <2>1, <2>2, <2>3
  <1>4. {as[k].type.kind : k \in P} = {a.type.kind, b.type.kind}  BY <1>1
  <1>5. \A k \in (1 .. 3) \ P : as[k] # Opaque => Taken(as[k], {"boolean"})  BY <1>1
  <1>6. (\A k \in P : as[k] # Opaque) => Agree({as[k].type.kind : k \in P})  BY <1>1, <1>4
  <1>7. Declared("if", as).kind = CommonKind({as[k].type.kind : k \in P})
    <2> DEFINE ts == [k \in DOMAIN as |-> as[k].type]
    <2>1. DOMAIN ts = 1 .. 3 /\ ts \in Seq(ToSet(ts))  BY <1>1 DEF ToSet
    <2>2. ts[2] = as[2].type /\ ts[3] = as[3].type  BY <1>1
    <2> HIDE DEF ts
    <2>3. ResultType("if", ts).kind = CommonKind({ts[k].kind : k \in P})  BY <2>1, IfResult
    <2>4. {ts[k].kind : k \in P} = {as[k].type.kind : k \in P}  BY <2>2
    <2>5. QED  BY <2>3, <2>4 DEF Declared, ts
  <1>8. Inferred("if", as).kind = CommonKind({Infer(as[k].node).kind : k \in P})
    <2> DEFINE ts == [k \in DOMAIN as |-> Infer(as[k].node)]
    <2>1. DOMAIN ts = 1 .. 3 /\ ts \in Seq(ToSet(ts))  BY <1>1 DEF ToSet
    <2>2. ts[2] = Infer(as[2].node) /\ ts[3] = Infer(as[3].node)  BY <1>1
    <2> HIDE DEF ts
    <2>3. ResultType("if", ts).kind = CommonKind({ts[k].kind : k \in P})  BY <2>1, IfResult
    <2>4. {ts[k].kind : k \in P} = {Infer(as[k].node).kind : k \in P}  BY <2>2
    <2>5. QED  BY <2>3, <2>4 DEF Inferred, ts
  <1>9. P \in SUBSET (1 .. 3)  BY <1>1
  <1> HIDE DEF P
  <1>10. QED  BY <1>1, <1>2, <1>3, <1>5, <1>6, <1>7, <1>8, <1>9, BranchCall, 3 \in Nat DEF as

LEMMA DefaultIsGood ==
  ASSUME NEW t, NEW exact, NEW raised
  PROVE  Good(DefaultFor(t), exact, raised)
  BY MadeLiterals DEF DefaultFor, Numeric, Integral, Fractional

LEMMA IifFine ==
  ASSUME NEW as, NEW exact, NEW raised, Len(as) = 2 \/ Len(as) = 3, \A k \in 1 .. Len(as) : Fine(as[k], exact, raised)
  PROVE  Fine(Iif(as), exact, raised)
PROOF
  <1> DEFINE other == IF Len(as) = 3 THEN as[3] ELSE DefaultFor(as[2])
             ts == <<as[2], other>>
             rs == Branches(ts)
             c == AsBool(as[1])
  <1>0. 1 \in 1 .. Len(as) /\ 2 \in 1 .. Len(as) /\ (Len(as) = 3 => 3 \in 1 .. Len(as))
    <2>1. CASE Len(as) = 2  BY <2>1
    <2>2. CASE Len(as) = 3  BY <2>2
    <2>3. QED  BY <2>1, <2>2
  <1>1. Fine(as[1], exact, raised) /\ Fine(as[2], exact, raised)  BY <1>0
  <1>2. Fine(other, exact, raised)
    <2>1. CASE Len(as) = 3  BY <1>0, <2>1
    <2>2. CASE Len(as) # 3  BY <2>2, DefaultIsGood DEF Fine
    <2>3. QED  BY <2>1, <2>2
  <1>3. Fine(c, exact, raised) /\ (c # Opaque => Taken(c, {"boolean"}))  BY <1>1, AsBoolFine
  <1> HIDE DEF other, c
  <1>4. DOMAIN ts = {1, 2} /\ ts[1] = as[2] /\ ts[2] = other
    <2>1. DOMAIN ts = 1 .. 2 /\ ts[1] = as[2] /\ ts[2] = other  OBVIOUS
    <2> HIDE DEF ts
    <2>2. QED  BY <2>1
  <1> HIDE DEF ts
  <1>5. \A k \in DOMAIN ts : Fine(ts[k], exact, raised)
    <2>1. \A k \in DOMAIN ts : k = 1 \/ k = 2  BY <1>4
    <2>2. QED  BY <2>1, <1>1, <1>2, <1>4
  <1> HIDE DEF ts
  <1>6. /\ DOMAIN rs = {1, 2} /\ Fine(rs[1], exact, raised) /\ Fine(rs[2], exact, raised)
        /\ rs[1] # Opaque /\ rs[2] # Opaque => Agree({rs[1].type.kind, rs[2].type.kind})
    <2>1. {rs[k].type.kind : k \in {1, 2}} = {rs[1].type.kind, rs[2].type.kind}  OBVIOUS
    <2>2. DOMAIN ts # {}  BY <1>4
    <2>3. /\ DOMAIN rs = DOMAIN ts /\ \A k \in DOMAIN ts : Fine(rs[k], exact, raised)
          /\ (\A k \in DOMAIN ts : rs[k] # Opaque) => Agree({rs[k].type.kind : k \in DOMAIN ts})
      BY <1>5, <2>2, BranchesFine
    <2> HIDE DEF rs
    <2>4. QED  BY <1>4, <2>1, <2>3
  <1> HIDE DEF rs
  <1>7. Iif(as) = Call("if", <<c, rs[1], rs[2]>>)  BY DEF Iif, rs, ts, c, other
  <1>8. QED  BY <1>3, <1>6, <1>7, IfCall

LEMMA BooleanCall ==
  ASSUME NEW f \in Comparisons \cup {"or"}, NEW as, Call(f, as) # Opaque
  PROVE  Taken(Call(f, as), {"boolean"})
PROOF
  <1>1. Call(f, as) = CallTyped(f, as)  BY CallCases
  <1>2. Infer(CallTyped(f, as).node) = Inferred(f, as)  BY CallFields
  <1>3. Inferred(f, as) = Type("boolean")  BY DEF Inferred, ResultType, Comparisons
  <1>4. QED  BY <1>1, <1>2, <1>3 DEF Type, Taken

LEMMA DecodeConditionFine ==
  ASSUME NEW v, NEW s, NEW exact, NEW raised, Fine(v, exact, raised), Fine(s, exact, raised)
  PROVE  /\ Fine(DecodeCondition(v, s), exact, raised)
         /\ DecodeCondition(v, s) # Opaque => Taken(DecodeCondition(v, s), {"boolean"})
PROOF
  <1>1. "eq" \in Comparisons  BY DEF Comparisons
  <1>2. Fine(Call("eq", Comparable(v, s)), exact, raised)  BY <1>1, ComparableCall
  <1>3. Call("eq", Comparable(v, s)) # Opaque => Taken(Call("eq", Comparable(v, s)), {"boolean"})
    BY <1>1, BooleanCall
  <1>4. Fine(AsBool(s), exact, raised) /\ (AsBool(s) # Opaque => Taken(AsBool(s), {"boolean"}))  BY AsBoolFine
  <1>5. DecodeCondition(v, s) \in {AsBool(s), Call("eq", Comparable(v, s)), Opaque}
    BY DEF DecodeCondition, When
  <1>6. QED  BY <1>2, <1>3, <1>4, <1>5 DEF Fine

(* The type of a DECODE is the common one of its results.                  *)
LEMMA CaseResult ==
  ASSUME NEW m \in Nat, NEW ts, ts = [k \in 1 .. m |-> ts[k]]
  PROVE  ResultType("case", ts).kind = CommonKind({ts[k].kind : k \in {j \in 1 .. m : j % 2 = 0 \/ j = m}})
PROOF
  <1> DEFINE P == {j \in 1 .. m : j % 2 = 0 \/ j = m}
             us == Results(ts)
             ck == CommonKind(KindsOf(us))
  <1>1. ResultType("case", ts) = Type(ck)  BY DEF ResultType, Comparisons, CommonType
  <1>2. ck = CommonKind({ts[k].kind : k \in P})
    <2>1. DOMAIN ts = 1 .. m /\ Len(ts) = m
      <3>1. Len([k \in 1 .. m |-> ts[k]]) = m  OBVIOUS
      <3>2. QED  BY <3>1
    <2>2. us = [k \in 1 .. m |-> IF k % 2 = 0 \/ k = m THEN ts[k] ELSE Unknown]
      BY <2>1 DEF Results
    <2> HIDE DEF us
    <2>3. Unknown.kind = "unknown"  BY DEF Unknown, Type
    <2>4. KindsOf(us) \ {"unknown"} = {ts[k].kind : k \in P} \ {"unknown"}
      <3>1. DOMAIN us = 1 .. m /\ \A k \in 1 .. m : us[k].kind = IF k \in P THEN ts[k].kind ELSE "unknown"
        BY <2>2, <2>3
      <3>2. P \subseteq 1 .. m  OBVIOUS
      <3> HIDE DEF P
      <3>3. QED  BY <3>1, <3>2 DEF KindsOf
    <2>5. QED  BY <2>4, SameKnown
  <1> HIDE DEF ck
  <1>3. Type(ck).kind = ck  BY DEF Type
  <1>4. QED  BY <1>1, <1>2, <1>3

(* Conditions and results in turns, with a default at the end.             *)
LEMMA CaseCall ==
  ASSUME NEW m \in Nat, m % 2 = 1, NEW as, as = [k \in 1 .. m |-> as[k]], NEW exact, NEW raised,
         \A k \in 1 .. m : Fine(as[k], exact, raised),
         \A k \in 1 .. m : k % 2 = 1 /\ k # m /\ as[k] # Opaque => Taken(as[k], {"boolean"}),
         (\A k \in 1 .. m : k % 2 = 0 \/ k = m => as[k] # Opaque) =>
            Agree({as[k].type.kind : k \in {j \in 1 .. m : j % 2 = 0 \/ j = m}})
  PROVE  Fine(Call("case", as), exact, raised)
PROOF
  <1> DEFINE P == {j \in 1 .. m : j % 2 = 0 \/ j = m}
  <1>1. DOMAIN as = 1 .. m /\ P \in SUBSET (1 .. m)  OBVIOUS
  <1>2. \A k \in 1 .. m : k \in P <=> ~(k % 2 = 1 /\ k < m)  OBVIOUS
  <1>3. \A k \in 1 .. m : Takes("case", m, k) = IF k \in P THEN PortKinds \cup {"boolean"} ELSE {"boolean"}
    <2> HIDE DEF P
    <2> SUFFICES ASSUME NEW k \in 1 .. m
                 PROVE  Takes("case", m, k) = IF k \in P THEN PortKinds \cup {"boolean"} ELSE {"boolean"}
      OBVIOUS
    <2>1. CASE k % 2 = 1 /\ k < m  BY <1>2, <2>1 DEF Takes, Arithmetic
    <2>2. CASE ~(k % 2 = 1 /\ k < m)  BY <1>2, <2>2 DEF Takes, Arithmetic
    <2>3. QED  BY <2>1, <2>2
  <1>4. \A k \in (1 .. m) \ P : as[k] # Opaque => Taken(as[k], {"boolean"})
    <2> SUFFICES ASSUME NEW k \in (1 .. m) \ P, as[k] # Opaque  PROVE Taken(as[k], {"boolean"})  OBVIOUS
    <2>1. k \in 1 .. m /\ k % 2 = 1 /\ k # m  BY <1>2
    <2>2. QED  BY <2>1
  <1>5. (\A k \in P : as[k] # Opaque) => Agree({as[k].type.kind : k \in P})  OBVIOUS
  <1> HIDE DEF P
  <1>6. Declared("case", as).kind = CommonKind({as[k].type.kind : k \in P})
    <2> DEFINE ts == [k \in 1 .. m |-> as[k].type]
    <2>1. ts = [k \in 1 .. m |-> ts[k]]  OBVIOUS
    <2>2. \A k \in P : ts[k] = as[k].type  BY <1>1
    <2>3. ts = [k \in DOMAIN as |-> as[k].type]  BY <1>1
    <2> HIDE DEF ts
    <2>4. ResultType("case", ts).kind = CommonKind({ts[k].kind : k \in P})  BY <2>1, CaseResult DEF P
    <2>5. {ts[k].kind : k \in P} = {as[k].type.kind : k \in P}  BY <2>2
    <2>6. QED  BY <2>3, <2>4, <2>5 DEF Declared
  <1>7. Inferred("case", as).kind = CommonKind({Infer(as[k].node).kind : k \in P})
    <2> DEFINE ts == [k \in 1 .. m |-> Infer(as[k].node)]
    <2>1. ts = [k \in 1 .. m |-> ts[k]]  OBVIOUS
    <2>2. \A k \in P : ts[k] = Infer(as[k].node)  BY <1>1
    <2>3. ts = [k \in DOMAIN as |-> Infer(as[k].node)]  BY <1>1
    <2> HIDE DEF ts
    <2>4. ResultType("case", ts).kind = CommonKind({ts[k].kind : k \in P})  BY <2>1, CaseResult DEF P
    <2>5. {ts[k].kind : k \in P} = {Infer(as[k].node).kind : k \in P}  BY <2>2
    <2>6. QED  BY <2>3, <2>4, <2>5 DEF Inferred
  <1>8. QED  BY <1>1, <1>3, <1>4, <1>5, <1>6, <1>7, BranchCall

LEMMA DecodeFine ==
  ASSUME NEW as, NEW exact, NEW raised, Len(as) \in Nat, Len(as) > 2, \A k \in 1 .. Len(as) : Fine(as[k], exact, raised)
  PROVE  Fine(Decode(as), exact, raised)
PROOF
  <1> DEFINE L == Len(as)
             n == (L - 1) \div 2
             m == (2 * n) + 1
             default == IF L % 2 = 0 THEN as[L] ELSE NullLit
             ts == [k \in 1 .. n + 1 |-> IF k <= n THEN as[(2 * k) + 1] ELSE default]
             rs == Branches(ts)
             us == [k \in 1 .. m |-> IF k = m THEN rs[n + 1]
                                     ELSE IF k % 2 = 1 THEN DecodeCondition(as[1], as[k + 1]) ELSE rs[k \div 2]]
  <1>1. Decode(as) = Call("case", us)  BY DEF Decode
  <1>2. L \in Nat /\ L > 2 /\ \A k \in 1 .. L : Fine(as[k], exact, raised)  OBVIOUS
  <1> HIDE DEF L
  <1>3. n \in Nat /\ n >= 1 /\ m <= L  BY <1>2
  <1> HIDE DEF n
  <1>4. m \in Nat /\ m % 2 = 1 /\ m >= 3  BY <1>3
  <1>5. Fine(default, exact, raised)
    <2>1. CASE L % 2 = 0
      <3>1. L \in 1 .. L  BY <1>2
      <3>2. QED  BY <1>2, <2>1, <3>1
    <2>2. CASE L % 2 # 0  BY <2>2, MadeLiterals DEF Fine
    <2>3. QED  BY <2>1, <2>2
  <1> HIDE DEF default
  <1>6. DOMAIN ts = 1 .. n + 1 /\ \A k \in 1 .. n + 1 : Fine(ts[k], exact, raised)
    <2>1. \A k \in 1 .. n + 1 : k <= n => (2 * k) + 1 \in 1 .. L  BY <1>2, <1>3
    <2>2. QED  BY <1>2, <1>5, <2>1
  <1>7. DOMAIN ts # {}
    <2>1. 1 \in 1 .. n + 1  BY <1>3
    <2> HIDE DEF ts
    <2>2. QED  BY <1>6, <2>1
  <1> HIDE DEF ts
  <1>8. /\ DOMAIN rs = 1 .. n + 1
        /\ \A k \in 1 .. n + 1 : Fine(rs[k], exact, raised)
        /\ (\A k \in 1 .. n + 1 : rs[k] # Opaque) => Agree({rs[k].type.kind : k \in 1 .. n + 1})
    BY <1>6, <1>7, BranchesFine
  <1> HIDE DEF rs
  <1>9. \A k \in 1 .. m : us[k] = IF k = m THEN rs[n + 1]
                                  ELSE IF k % 2 = 1 THEN DecodeCondition(as[1], as[k + 1]) ELSE rs[k \div 2]
    OBVIOUS
  <1>10. us = [k \in 1 .. m |-> us[k]]  OBVIOUS
  <1> HIDE DEF us
  <1>11. \A k \in 1 .. m : k % 2 = 1 /\ k # m =>
           Fine(us[k], exact, raised) /\ (us[k] # Opaque => Taken(us[k], {"boolean"}))
    <2> SUFFICES ASSUME NEW k \in 1 .. m, k % 2 = 1, k # m
                 PROVE  Fine(us[k], exact, raised) /\ (us[k] # Opaque => Taken(us[k], {"boolean"}))
      OBVIOUS
    <2>1. us[k] = DecodeCondition(as[1], as[k + 1])  BY <1>9
    <2>2. 1 \in 1 .. L /\ k + 1 \in 1 .. L  BY <1>2, <1>3, <1>4
    <2>3. Fine(as[1], exact, raised) /\ Fine(as[k + 1], exact, raised)  BY <1>2, <2>2
    <2>4. QED  BY <2>1, <2>3, DecodeConditionFine
  <1>12. \A k \in 1 .. m : k % 2 = 0 => us[k] = rs[k \div 2] /\ k \div 2 \in 1 .. n + 1 /\ k # m
    <2> SUFFICES ASSUME NEW k \in 1 .. m, k % 2 = 0
                 PROVE  us[k] = rs[k \div 2] /\ k \div 2 \in 1 .. n + 1 /\ k # m
      OBVIOUS
    <2>1. k # m /\ k % 2 # 1  BY <1>4
    <2>2. us[k] = rs[k \div 2]  BY <1>9, <2>1
    <2>3. k \div 2 \in 1 .. n + 1  BY <1>3
    <2>4. QED  BY <2>1, <2>2, <2>3
  <1>13. us[m] = rs[n + 1] /\ n + 1 \in 1 .. n + 1 /\ m \in 1 .. m
    <2>1. n + 1 \in 1 .. n + 1 /\ m \in 1 .. m  BY <1>3
    <2>2. us[m] = rs[n + 1]  BY <1>9, <2>1
    <2>3. QED  BY <2>1, <2>2
  <1>14. \A j \in 1 .. n : us[2 * j] = rs[j] /\ 2 * j \in 1 .. m /\ (2 * j) % 2 = 0
    <2> SUFFICES ASSUME NEW j \in 1 .. n  PROVE us[2 * j] = rs[j] /\ 2 * j \in 1 .. m /\ (2 * j) % 2 = 0
      OBVIOUS
    <2>1. 2 * j \in 1 .. m /\ (2 * j) % 2 = 0 /\ (2 * j) \div 2 = j  BY <1>3
    <2>2. QED  BY <1>12, <2>1
  <1> DEFINE P == {j \in 1 .. m : j % 2 = 0 \/ j = m}
  <1>15. \A k \in 1 .. m : Fine(us[k], exact, raised)
    <2> SUFFICES ASSUME NEW k \in 1 .. m  PROVE Fine(us[k], exact, raised)  OBVIOUS
    <2>1. CASE k = m  BY <2>1, <1>8, <1>13
    <2>2. CASE k # m /\ k % 2 = 1  BY <2>2, <1>11
    <2>3. CASE k % 2 = 0  BY <2>3, <1>8, <1>12
    <2>4. QED  BY <2>1, <2>2, <2>3, <1>4
  <1>16. {us[k].type.kind : k \in P} = {rs[k].type.kind : k \in 1 .. n + 1}
    <2>1. \A k \in P : \E j \in 1 .. n + 1 : us[k] = rs[j]  BY <1>12, <1>13
    <2>2. \A j \in 1 .. n + 1 : \E k \in P : us[k] = rs[j]
      <3> SUFFICES ASSUME NEW j \in 1 .. n + 1  PROVE \E k \in P : us[k] = rs[j]  OBVIOUS
      <3>1. CASE j = n + 1
        <4>1. m \in P  BY <1>13
        <4>2. QED  BY <3>1, <4>1, <1>13
      <3>2. CASE j # n + 1
        <4>1. j \in 1 .. n  BY <3>2, <1>3
        <4>2. 2 * j \in P  BY <4>1, <1>14
        <4>3. QED  BY <4>1, <4>2, <1>14
      <3>3. QED  BY <3>1, <3>2
    <2> HIDE DEF P
    <2>3. QED  BY <2>1, <2>2
  <1>17. (\A k \in 1 .. m : k % 2 = 0 \/ k = m => us[k] # Opaque) => Agree({us[k].type.kind : k \in P})
    <2> SUFFICES ASSUME \A k \in 1 .. m : k % 2 = 0 \/ k = m => us[k] # Opaque
                 PROVE  Agree({us[k].type.kind : k \in P})
      OBVIOUS
    <2>1. \A j \in 1 .. n + 1 : rs[j] # Opaque
      <3> SUFFICES ASSUME NEW j \in 1 .. n + 1  PROVE rs[j] # Opaque  OBVIOUS
      <3>1. CASE j = n + 1  BY <3>1, <1>13
      <3>2. CASE j # n + 1
        <4>1. j \in 1 .. n  BY <3>2, <1>3
        <4>2. QED  BY <4>1, <1>14
      <3>3. QED  BY <3>1, <3>2
    <2>2. QED  BY <2>1, <1>8, <1>16
  <1>18. \A k \in 1 .. m : k % 2 = 1 /\ k # m /\ us[k] # Opaque => Taken(us[k], {"boolean"})
    BY <1>11
  <1> HIDE DEF m, P
  <1>19. Fine(Call("case", us), exact, raised)
    BY <1>4, <1>10, <1>15, <1>17, <1>18, CaseCall DEF P
  <1>20. QED  BY <1>1, <1>19

-----------------------------------------------------------------------------
(* IN: a disjunction of comparisons.                                       *)

(* Numbers have a least one.                                               *)
LEMMA LeastNumber ==
  ASSUME NEW S \in SUBSET Nat, S # {}
  PROVE  \E n \in S : \A m \in S : n <= m
PROOF
  <1> DEFINE Less == {ss \in Nat \X Nat : ss[1] < ss[2]}
  <1>1. IsWellFoundedOn(Less, Nat)  BY NatLessThanWellFounded DEF OpToRel
  <1>2. PICK n \in S : \A m \in S : ~(<<m, n>> \in Less)
    <2> HIDE DEF Less
    <2>1. QED  BY <1>1, WFMin, Zenon
  <1>3. \A m \in S : ~(m < n)  BY <1>2
  <1>4. QED  BY <1>3

(* The disjunctions of the first terms, for as many terms as there are.    *)
Chain(ts, g, n) ==
  g = [k \in 1 .. n |-> IF k = 1 THEN ts[1] ELSE Call("or", <<g[k - 1], ts[k]>>)]

(* The recursive function of AnyOf exists: it is well-founded.             *)
LEMMA ChainExists ==
  ASSUME NEW ts, NEW m \in Nat \ {0}
  PROVE  \E g : Chain(ts, g, m)
PROOF
  <1> DEFINE Without == {n \in 1 .. m : ~(\E g : Chain(ts, g, n))}
  <1> SUFFICES ASSUME Without # {}  PROVE FALSE
    <2>1. m \in 1 .. m  OBVIOUS
    <2>2. QED  BY <2>1
  <1>1. Without \in SUBSET Nat  OBVIOUS
  <1>2. PICK n \in Without : \A j \in Without : n <= j
    <2> HIDE DEF Without
    <2>1. QED  BY <1>1, LeastNumber
  <1>3. n \in 1 .. m /\ ~(\E g : Chain(ts, g, n))  OBVIOUS
  <1>4. n # 1
    <2> DEFINE g == [k \in 1 .. 1 |-> ts[1]]
    <2>1. g = [k \in 1 .. 1 |-> IF k = 1 THEN ts[1] ELSE Call("or", <<g[k - 1], ts[k]>>)]
      <3>1. \A k \in 1 .. 1 : k = 1  OBVIOUS
      <3>2. QED  BY <3>1
    <2>2. Chain(ts, g, 1)  BY <2>1 DEF Chain
    <2>3. QED  BY <1>3, <2>2
  <1>5. n - 1 \in 1 .. m /\ n - 1 \notin Without  BY <1>2, <1>3, <1>4
  <1>6. PICK h : Chain(ts, h, n - 1)  BY <1>5
  <1> DEFINE g == [k \in 1 .. n |-> IF k < n THEN h[k] ELSE Call("or", <<h[n - 1], ts[n]>>)]
  <1>7. \A k \in 1 .. n : g[k] = IF k = 1 THEN ts[1] ELSE Call("or", <<g[k - 1], ts[k]>>)
    <2> SUFFICES ASSUME NEW k \in 1 .. n
                 PROVE  g[k] = IF k = 1 THEN ts[1] ELSE Call("or", <<g[k - 1], ts[k]>>)
      OBVIOUS
    <2>1. h = [j \in 1 .. n - 1 |-> IF j = 1 THEN ts[1] ELSE Call("or", <<h[j - 1], ts[j]>>)]
      BY <1>6 DEF Chain
    <2>2. CASE k = n
      <3>1. g[n] = Call("or", <<h[n - 1], ts[n]>>)  BY <1>3
      <3>2. g[n - 1] = h[n - 1]  BY <1>3, <1>4
      <3> HIDE DEF g
      <3>3. QED  BY <2>2, <3>1, <3>2, <1>4
    <2>3. CASE k # n /\ k = 1
      <3>1. g[1] = h[1] /\ h[1] = ts[1]  BY <1>3, <1>4, <2>1
      <3> HIDE DEF g
      <3>2. QED  BY <2>3, <3>1
    <2>4. CASE k # n /\ k # 1
      <3>1. k \in 1 .. n - 1 /\ k - 1 \in 1 .. n - 1  BY <1>3, <2>4
      <3>2. g[k] = h[k] /\ g[k - 1] = h[k - 1]  BY <1>3, <3>1
      <3>3. h[k] = Call("or", <<h[k - 1], ts[k]>>)  BY <2>1, <2>4, <3>1
      <3> HIDE DEF g
      <3>4. QED  BY <2>4, <3>2, <3>3
    <2>5. QED  BY <2>2, <2>3, <2>4
  <1>8. Chain(ts, g, n)
    <2>1. g = [k \in 1 .. n |-> g[k]]  OBVIOUS
    <2> HIDE DEF g
    <2>2. QED  BY <1>7, <2>1 DEF Chain
  <1>9. QED  BY <1>3, <1>8

(* Of the terms that would make a disjunction fail none is the first.      *)
LEMMA AnyOfFine ==
  ASSUME NEW m \in Nat \ {0}, NEW ts, ts = [k \in 1 .. m |-> ts[k]], NEW exact, NEW raised,
         \A k \in 1 .. m : Fine(ts[k], exact, raised) /\ (ts[k] # Opaque => Taken(ts[k], {"boolean"}))
  PROVE  Fine(AnyOf(ts), exact, raised)
PROOF
  <1> DEFINE either == CHOOSE g : g = [k \in DOMAIN ts |->
                                        IF k = 1 THEN ts[1] ELSE Call("or", <<g[k - 1], ts[k]>>)]
  <1>1. AnyOf(ts) = either[Len(ts)]  BY DEF AnyOf
  <1>2. DOMAIN ts = 1 .. m  OBVIOUS
  <1>3. Len(ts) = m
    <2>1. Len([k \in 1 .. m |-> ts[k]]) = m  OBVIOUS
    <2>2. QED  BY <2>1
  <1>4. Chain(ts, either, m)
    <2>1. either = CHOOSE g : Chain(ts, g, m)  BY <1>2 DEF Chain
    <2> HIDE DEF either
    <2>2. QED  BY <2>1, ChainExists
  <1> HIDE DEF either
  <1>5. \A k \in 1 .. m : either[k] = IF k = 1 THEN ts[1] ELSE Call("or", <<either[k - 1], ts[k]>>)
    BY <1>4 DEF Chain
  <1> DEFINE ok(t) == Fine(t, exact, raised) /\ (t # Opaque => Taken(t, {"boolean"}))
             Odd == {k \in 1 .. m : ~ok(either[k])}
  <1>6. Odd = {}
    <2> SUFFICES ASSUME Odd # {}  PROVE FALSE  OBVIOUS
    <2>1. PICK n \in Odd : \A j \in Odd : n <= j
      <3>1. Odd \in SUBSET Nat  OBVIOUS
      <3> HIDE DEF Odd
      <3>2. QED  BY <3>1, LeastNumber
    <2>2. n \in 1 .. m /\ ~ok(either[n])  OBVIOUS
    <2>3. n # 1
      <3>1. 1 \in 1 .. m /\ ok(ts[1])  OBVIOUS
      <3>2. QED  BY <1>5, <2>2, <3>1
    <2>4. n - 1 \in 1 .. m /\ ok(either[n - 1])  BY <2>1, <2>2, <2>3
    <2>5. either[n] = Call("or", <<either[n - 1], ts[n]>>)  BY <1>5, <2>2, <2>3
    <2>6. "or" \in Fixed /\ "or" \notin Comparisons /\ \A k : Takes("or", 2, k) = {"boolean"}
      BY DEF Fixed, Comparisons, Takes, Arithmetic
    <2>7. ok(ts[n])  BY <2>2
    <2>8. Fine(either[n], exact, raised)
      <3> DEFINE x == either[n - 1]
                 y == ts[n]
      <3>1. /\ Fine(x, exact, raised) /\ (x # Opaque => Taken(x, Takes("or", 2, 1)))
            /\ Fine(y, exact, raised) /\ (y # Opaque => Taken(y, Takes("or", 2, 2)))
        BY <2>4, <2>6, <2>7
      <3> HIDE DEF x, y, Odd
      <3>2. Fine(Call("or", <<x, y>>), exact, raised)  BY <3>1, <2>6, TakenTwo
      <3>3. QED  BY <3>2, <2>5 DEF x, y
    <2>9. either[n] # Opaque => Taken(either[n], {"boolean"})  BY <2>5, BooleanCall
    <2>10. QED  BY <2>2, <2>8, <2>9
  <1>7. m \in 1 .. m  OBVIOUS
  <1>8. ok(either[m])  BY <1>6, <1>7
  <1>9. QED  BY <1>1, <1>3, <1>8

(* The two sides of a comparison are a pair.                               *)
LEMMA ComparableIsPair ==
  ASSUME NEW a, NEW b
  PROVE  Comparable(a, b) = <<Comparable(a, b)[1], Comparable(a, b)[2]>>
PROOF
  <1>1. \/ Comparable(a, b) = <<a, b>>
        \/ Comparable(a, b) = <<AsNum(a), AsNum(b)>>
        \/ Comparable(a, b) = <<Opaque, Opaque>>
    BY DEF Comparable
  <1>2. ASSUME NEW x, NEW y, Comparable(a, b) = <<x, y>>
        PROVE  Comparable(a, b) = <<Comparable(a, b)[1], Comparable(a, b)[2]>>
    <2> DEFINE c == Comparable(a, b)
    <2>1. <<x, y>>[1] = x /\ <<x, y>>[2] = y  OBVIOUS
    <2>2. c = <<x, y>>  BY <1>2
    <2> HIDE DEF c
    <2>3. c[1] = x /\ c[2] = y  BY <2>1, <2>2
    <2>4. c = <<c[1], c[2]>>  BY <2>2, <2>3
    <2>5. QED  BY <2>4 DEF c
  <1>3. QED  BY <1>1, <1>2

(* UPPER of any part is a text, and knows whether it got NULL.             *)
LEMMA UpperOf ==
  ASSUME NEW t, t # Opaque
  PROVE  /\ Call("upper", <<t>>) = CallTyped("upper", <<t>>)
         /\ Call("upper", <<t>>).type.kind = "string"
         /\ Infer(Call("upper", <<t>>).node).kind = "string"
         /\ ~IsNull(Call("upper", <<t>>).node)
         /\ Call("upper", <<t>>) # Opaque
         /\ NewCall("upper", <<t>>).function = "upper"
         /\ NewCall("upper", <<t>>).nulls = IF IsNull(t.node) THEN {1} ELSE {}
         /\ CallsOf("upper", <<t>>) = {NewCall("upper", <<t>>)} \cup t.node.calls
PROOF
  <1> DEFINE as == <<t>>
  <1>1. DOMAIN as = {1} /\ as[1] = t  OBVIOUS
  <1> HIDE DEF as
  <1>2. Call("upper", as) = CallTyped("upper", as)  BY <1>1, CallCases
  <1>3. /\ CallTyped("upper", as).type = Declared("upper", as)
        /\ Infer(CallTyped("upper", as).node) = Inferred("upper", as)
        /\ CallTyped("upper", as).node.node = "call"
    BY CallFields
  <1>4. Declared("upper", as) = Type("string") /\ Inferred("upper", as) = Type("string")
    BY DEF Declared, Inferred, ResultType, Comparisons
  <1>5. /\ NewCall("upper", as).function = "upper"
        /\ NewCall("upper", as).nulls = IF IsNull(t.node) THEN {1} ELSE {}
    <2>1. /\ NewCall("upper", as).function = "upper"
          /\ NewCall("upper", as).nulls = {k \in DOMAIN as : IsNull(as[k].node)}
      BY DEF NewCall
    <2>2. {k \in DOMAIN as : IsNull(as[k].node)} = IF IsNull(t.node) THEN {1} ELSE {}
      BY <1>1
    <2>3. QED  BY <2>1, <2>2
  <1>6. CallsOf("upper", as) = {NewCall("upper", as)} \cup t.node.calls
    <2>1. UNION {as[k].node.calls : k \in DOMAIN as} = t.node.calls  BY <1>1
    <2>2. QED  BY <2>1 DEF CallsOf
  <1>7. Type("string").kind = "string"  BY DEF Type
  <1>8. CallTyped("upper", as) # Opaque  BY <1>3, <1>4, <1>7, OpaqueStays
  <1>9. QED  BY <1>2, <1>3, <1>4, <1>5, <1>6, <1>7, <1>8 DEF IsNull, as

(* NULL in upper case against anything in upper case: the second           *)
(* exception.                                                              *)
LEMMA NullInUpperCase ==
  ASSUME NEW a, NEW b, NEW exact, NEW raised, Good(a, exact, raised), Good(b, exact, raised), a # Opaque, b # Opaque, raised
  PROVE  Fine(Call("eq", <<Call("upper", <<a>>), Call("upper", <<b>>)>>), exact, raised)
PROOF
  <1> DEFINE x == Call("upper", <<a>>)
             y == Call("upper", <<b>>)
             as == <<x, y>>
             calls == CallsOf("eq", as)
             ca == NewCall("upper", <<a>>)
             cb == NewCall("upper", <<b>>)
  <1>1. /\ x # Opaque /\ x.type.kind = "string" /\ Infer(x.node).kind = "string" /\ ~IsNull(x.node)
        /\ y # Opaque /\ y.type.kind = "string" /\ Infer(y.node).kind = "string" /\ ~IsNull(y.node)
    BY UpperOf
  <1>2. x.node.calls = {ca} \cup a.node.calls /\ y.node.calls = {cb} \cup b.node.calls
    <2>1. /\ x = CallTyped("upper", <<a>>) /\ CallsOf("upper", <<a>>) = {ca} \cup a.node.calls
          /\ y = CallTyped("upper", <<b>>) /\ CallsOf("upper", <<b>>) = {cb} \cup b.node.calls
      BY UpperOf
    <2>2. /\ CallTyped("upper", <<a>>).node.calls = CallsOf("upper", <<a>>)
          /\ CallTyped("upper", <<b>>).node.calls = CallsOf("upper", <<b>>)
      BY CallFields
    <2> HIDE DEF x, y, ca, cb
    <2>3. QED  BY <2>1, <2>2
  <1>3. ca.function = "upper" /\ cb.function = "upper"  BY UpperOf
  <1> HIDE DEF x, y, ca, cb
  <1>4. DOMAIN as = 1 .. 2 /\ as[1] = x /\ as[2] = y /\ \A k : k \in 1 .. 2 <=> k = 1 \/ k = 2  OBVIOUS
  <1> HIDE DEF as
  <1>5. calls = {NewCall("eq", as)} \cup {ca, cb} \cup a.node.calls \cup b.node.calls
    <2>1. DOMAIN as = {1, 2}  BY <1>4
    <2>2. UNION {as[k].node.calls : k \in DOMAIN as} = x.node.calls \cup y.node.calls  BY <1>4, <2>1
    <2>3. calls = {NewCall("eq", as)} \cup (x.node.calls \cup y.node.calls)  BY <2>2 DEF CallsOf
    <2>4. QED  BY <1>2, <2>3
  <1>6. WellTyped(NewCall("eq", as))
    <2> DEFINE c == NewCall("eq", as)
    <2>1. c.kinds = [k \in 1 .. 2 |-> Infer(as[k].node).kind]  BY <1>4 DEF NewCall
    <2>2. Len([k \in 1 .. 2 |-> Infer(as[k].node).kind]) = 2  OBVIOUS
    <2>3. c.function = "eq" /\ Len(c.kinds) = 2 /\ c.kinds[1] = "string" /\ c.kinds[2] = "string"
      BY <1>1, <1>4, <2>1, <2>2 DEF NewCall
    <2>4. \A k : Takes("eq", 2, k) = PortKinds \cup {"boolean"}  BY DEF Takes, Arithmetic
    <2> HIDE DEF c
    <2>5. \A k \in 1 .. 2 : c.kinds[k] \in Takes("eq", 2, k)
      BY <1>4, <2>3, <2>4 DEF PortKinds
    <2>6. QED  BY <2>3, <2>5 DEF WellTyped, c
  <1>8. AllHeld(CallTyped("eq", as).node, exact, raised)
    <2> SUFFICES ASSUME NEW c \in calls  PROVE Held(c, exact, raised)
      <3>1. CallTyped("eq", as).node.calls = calls  BY CallFields
      <3>2. QED  BY <3>1 DEF AllHeld
    <2>1. CASE c = NewCall("eq", as)  BY <1>6, <2>1 DEF Held
    <2>2. CASE c \in {ca, cb}  BY <1>3, <2>2 DEF Held
    <2>3. CASE c \in a.node.calls \cup b.node.calls  BY <2>3 DEF Good, AllHeld
    <2>4. QED  BY <1>5, <2>1, <2>2, <2>3
  <1>9. Call("eq", as) = CallTyped("eq", as)  BY <1>1, <1>4, CallCases
  <1>10. /\ CallTyped("eq", as).type = Declared("eq", as)
         /\ Infer(CallTyped("eq", as).node) = Inferred("eq", as)
         /\ CallTyped("eq", as).node.node = "call"
    BY CallFields
  <1>11. Declared("eq", as) = Type("boolean") /\ Inferred("eq", as) = Type("boolean")
    BY DEF Declared, Inferred, ResultType, Comparisons
  <1>12. Type("boolean").kind = "boolean"  BY DEF Type
  <1>13. Good(CallTyped("eq", as), exact, raised)
    BY <1>8, <1>10, <1>11, <1>12 DEF Good, Related, KindFits, IsLiteral, AllKinds
  <1>14. QED  BY <1>9, <1>13 DEF Fine, as, x, y

(* The side of a comparison of IN, in upper case if case does not count.   *)
LEMMA TermFine ==
  ASSUME NEW v, NEW t, NEW folds \in BOOLEAN, NEW exact, NEW raised, Fine(v, exact, raised), Fine(t, exact, raised),
         folds => v.type.kind = "string",
         folds /\ IsNullLiteral(v) => raised,
         NEW sides, sides = Comparable(v, t),
         NEW x, x = IF folds THEN Call("upper", <<sides[1]>>) ELSE sides[1],
         NEW y, y = IF folds THEN Call("upper", <<sides[2]>>) ELSE sides[2],
         NEW r, r = IF ~IsNullLiteral(t) THEN Call("eq", <<x, y>>) ELSE Opaque
  PROVE  Fine(r, exact, raised) /\ (r # Opaque => Taken(r, {"boolean"}))
PROOF
  <1>1. "eq" \in Comparisons  BY DEF Comparisons
  <1>2. r # Opaque => Taken(r, {"boolean"})  BY <1>1, BooleanCall
  <1>3. CASE IsNullLiteral(t)  BY <1>3 DEF Fine
  <1>4. CASE ~folds /\ ~IsNullLiteral(t)
    <2>1. r = Call("eq", <<sides[1], sides[2]>>)  BY <1>4
    <2>2. sides = <<sides[1], sides[2]>>  BY ComparableIsPair
    <2>3. r = Call("eq", Comparable(v, t))  BY <2>1, <2>2
    <2>4. QED  BY <1>1, <1>2, <2>3, ComparableCall
  <1>5. CASE folds /\ ~IsNullLiteral(t)
    <2>1. v.type.kind = "string"  BY <1>5
    <2>2. r = Call("eq", <<x, y>>)  BY <1>5
    <2>3. ASSUME \E k \in {x, y} : k = Opaque  PROVE r = Opaque
      <3> DEFINE as == <<x, y>>
      <3>1. DOMAIN as = {1, 2} /\ as[1] = x /\ as[2] = y  OBVIOUS
      <3> HIDE DEF as
      <3>2. Call("eq", as) = Opaque  BY <2>3, <3>1, CallCases
      <3>3. QED  BY <2>2, <3>2 DEF as
    <2>4. ASSUME NEW s, s = Opaque  PROVE Call("upper", <<s>>) = Opaque
      <3> DEFINE as == <<s>>
      <3>1. DOMAIN as = {1} /\ as[1] = s  OBVIOUS
      <3> HIDE DEF as
      <3>2. Call("upper", as) = Opaque  BY <2>4, <3>1, CallCases
      <3>3. QED  BY <3>2 DEF as
    <2>5. CASE sides = <<Opaque, Opaque>>
      <3>1. sides[1] = Opaque  BY <2>5
      <3>2. x = Opaque  BY <1>5, <2>4, <3>1
      <3>3. QED  BY <1>2, <2>3, <3>2 DEF Fine
    <2>6. CASE sides # <<Opaque, Opaque>>
      <3>1. sides = <<v, t>> /\ (IsNullLiteral(v) \/ t.type.kind = "string")
        BY <1>5, <2>1, <2>6 DEF Comparable, Numeric, Integral, Fractional
      <3>2. sides[1] = v /\ sides[2] = t  BY <3>1
      <3>3. x = Call("upper", <<v>>) /\ y = Call("upper", <<t>>)  BY <1>5, <3>2
      <3>4. CASE v = Opaque \/ t = Opaque
        <4>1. x = Opaque \/ y = Opaque  BY <2>4, <3>3, <3>4
        <4>2. QED  BY <1>2, <2>3, <4>1 DEF Fine
      <3>5. CASE v # Opaque /\ t # Opaque /\ IsNullLiteral(v)
        <4>1. raised  BY <1>5, <3>5
        <4>2. Good(v, exact, raised) /\ Good(t, exact, raised)  BY <3>5 DEF Fine
        <4>3. QED  BY <1>2, <2>2, <3>3, <3>5, <4>1, <4>2, NullInUpperCase
      <3>6. CASE v # Opaque /\ t # Opaque /\ ~IsNullLiteral(v)
        <4>1. v.type.kind = "string" /\ t.type.kind = "string"  BY <2>1, <3>1, <3>6
        <4>2. Taken(v, {"string"}) /\ Taken(t, {"string"})
          BY <3>6, <4>1 DEF Fine, Good, Related, KindFits, Taken, Free, Numeric, Integral, Fractional
        <4>3. "upper" \in Fixed /\ "upper" \notin Comparisons /\ Takes("upper", 1, 1) = {"string"}
          BY DEF Fixed, Comparisons, Takes, Arithmetic
        <4>4. Fine(x, exact, raised) /\ Fine(y, exact, raised)  BY <3>3, <4>2, <4>3, TakenOne
        <4>5. (x # Opaque => Infer(x.node).kind = "string") /\ (y # Opaque => Infer(y.node).kind = "string")
          BY <3>3, CallOfText
        <4>6. x # Opaque /\ y # Opaque => Compares(x, y)  BY <4>5 DEF Compares
        <4>7. QED  BY <1>1, <1>2, <2>2, <4>4, <4>6, ComparedCall
      <3>7. QED  BY <3>4, <3>5, <3>6
    <2>7. QED  BY <2>5, <2>6
  <1>6. QED  BY <1>3, <1>4, <1>5

(* All but the first of some arguments, up to one of the last.             *)
LEMMA RestOfSequence ==
  ASSUME NEW as, NEW last \in Nat, last >= 2
  PROVE  /\ DOMAIN SubSeq(as, 2, last) = 1 .. last - 1
         /\ \A k \in 1 .. last - 1 : SubSeq(as, 2, last)[k] = as[k + 1]
PROOF
  <1>1. SubSeq(as, 2, last) = [k \in 1 .. last - 1 |-> as[k + 1]]  OBVIOUS
  <1>2. QED  BY <1>1

LEMMA InFine ==
  ASSUME NEW as, NEW L \in Nat, Len(as) = L, L > 1, NEW exact, NEW raised, \A k \in 1 .. L : Fine(as[k], exact, raised),
         Folds(as) /\ IsNullLiteral(as[1]) => raised
  PROVE  Fine(In(as), exact, raised)
PROOF
  <1>0. L \in Nat /\ L > 1 /\ \A k \in 1 .. L : Fine(as[k], exact, raised)  OBVIOUS
  <1> DEFINE value == as[1]
             flagged == Flagged(as)
             last == IF flagged THEN L - 1 ELSE L
             items == SubSeq(as, 2, last)
             folds == Folds(as)
             cased(t) == IF folds THEN Call("upper", <<t>>) ELSE t
             term(t) == LET sides == Comparable(value, t)
                        IN  When(~IsNullLiteral(t), Call("eq", <<cased(sides[1]), cased(sides[2])>>))
             terms == [k \in DOMAIN items |-> term(items[k])]
  <1>1. In(as) = When(~(IsText(value) /\ ~flagged /\ \E k \in DOMAIN items : HasLetters(items[k])), AnyOf(terms))
    BY DEF In
  <1>2. last \in Nat /\ last >= 2 /\ last <= L
    <2>1. CASE flagged
      <3>1. L > 2 /\ last = L - 1  BY <2>1 DEF Flagged
      <3> HIDE DEF last, flagged
      <3>2. QED  BY <1>0, <3>1
    <2>2. CASE ~flagged
      <3>1. last = L  BY <2>2
      <3> HIDE DEF last, flagged
      <3>2. QED  BY <1>0, <3>1
    <2>3. QED  BY <2>1, <2>2
  <1>3. /\ folds \in BOOLEAN /\ (folds => value.type.kind = "string")
        /\ folds /\ IsNullLiteral(value) => raised
    BY DEF Folds, Flagged, IsText
  <1> HIDE DEF last, flagged, folds
  <1>4. DOMAIN items = 1 .. last - 1 /\ \A k \in 1 .. last - 1 : items[k] = as[k + 1]
    <2> HIDE DEF value, terms
    <2>1. QED  BY <1>0, <1>2, RestOfSequence
  <1> HIDE DEF items
  <1>6. Fine(value, exact, raised)
    <2>1. 1 \in 1 .. L  BY <1>0
    <2>2. QED  BY <1>0, <2>1
  <1>7. \A k \in 1 .. last - 1 : Fine(items[k], exact, raised)
    <2> SUFFICES ASSUME NEW k \in 1 .. last - 1  PROVE Fine(items[k], exact, raised)  OBVIOUS
    <2>1. k + 1 \in 1 .. L  BY <1>0, <1>2
    <2>2. QED  BY <1>0, <1>4, <2>1
  <1> HIDE DEF value
  <1>8. terms = [k \in 1 .. last - 1 |-> terms[k]] /\ \A k \in 1 .. last - 1 : terms[k] = term(items[k])
    BY <1>4
  <1>9. \A k \in 1 .. last - 1 :
          Fine(terms[k], exact, raised) /\ (terms[k] # Opaque => Taken(terms[k], {"boolean"}))
    <2> HIDE DEF terms
    <2> SUFFICES ASSUME NEW k \in 1 .. last - 1
                 PROVE  Fine(terms[k], exact, raised) /\ (terms[k] # Opaque => Taken(terms[k], {"boolean"}))
      OBVIOUS
    <2> DEFINE t == items[k]
               sides == Comparable(value, t)
               x == IF folds THEN Call("upper", <<sides[1]>>) ELSE sides[1]
               y == IF folds THEN Call("upper", <<sides[2]>>) ELSE sides[2]
               r == IF ~IsNullLiteral(t) THEN Call("eq", <<x, y>>) ELSE Opaque
    <2>1. terms[k] = r  BY <1>8 DEF When
    <2>2. Fine(t, exact, raised)  BY <1>7
    <2> HIDE DEF t
    <2>3. Fine(r, exact, raised) /\ (r # Opaque => Taken(r, {"boolean"}))
      <3> HIDE DEF sides, x, y, r
      <3>1. /\ sides = Comparable(value, t)
            /\ x = IF folds THEN Call("upper", <<sides[1]>>) ELSE sides[1]
            /\ y = IF folds THEN Call("upper", <<sides[2]>>) ELSE sides[2]
            /\ r = IF ~IsNullLiteral(t) THEN Call("eq", <<x, y>>) ELSE Opaque
        BY DEF sides, x, y, r
      <3>2. QED  BY <1>3, <1>6, <2>2, <3>1, TermFine
    <2>4. QED  BY <2>1, <2>3
  <1>10. last - 1 \in Nat \ {0}  BY <1>2
  <1> HIDE DEF terms
  <1>11. Fine(AnyOf(terms), exact, raised)  BY <1>8, <1>9, <1>10, AnyOfFine
  <1>12. QED  BY <1>1, <1>11 DEF When, Fine

-----------------------------------------------------------------------------
(* The other functions.                                                    *)

(* Arguments of which the converter has made sure.                         *)
LEMMA KnownArguments ==
  ASSUME NEW t, NEW exact, NEW raised, Fine(t, exact, raised)
  PROVE  /\ t.type.kind \in Numeric => Taken(t, Numeric)
         /\ t.type.kind = "string" => Taken(t, {"string"})
         /\ IsString(t) => Taken(t, {"string"})
         /\ IsInteger(t) => Taken(t, Integral) /\ Taken(t, Numeric)
PROOF
  <1>1. CASE t = Opaque
    <2>1. t.type.kind = "unknown" /\ ~IsLiteral(t)  BY <1>1, OpaqueStays
    <2>2. QED  BY <2>1 DEF IsString, IsInteger, Numeric, Integral, Fractional
  <1>2. CASE Good(t, exact, raised)
    <2>1. t.type.kind \in Numeric => Taken(t, Numeric)  BY <1>2 DEF Good, Related, KindFits, Taken, Free
    <2>2. t.type.kind = "string" => Taken(t, {"string"})
      BY <1>2 DEF Good, Related, KindFits, Taken, Free, Numeric, Integral, Fractional
    <2>3. IsString(t) => Taken(t, {"string"})
      <3> SUFFICES ASSUME IsString(t)  PROVE Taken(t, {"string"})  OBVIOUS
      <3>1. CASE t.node.value = Null
        <4>1. IsNull(t.node)  BY <3>1 DEF IsString, IsLiteral, IsNull, Null
        <4>2. QED  BY <4>1 DEF Taken, Free
      <3>2. CASE t.node.value # Null
        <4>1. t.node.value.is = "string" /\ LiteralFits(t.node.value, t.node.type)
          BY <1>2, <3>2 DEF IsString, Good
        <4>2. t.node.type.kind = "string"  BY <3>2, <4>1 DEF LiteralFits
        <4>3. QED  BY <4>2 DEF Taken, Infer
      <3>3. QED  BY <3>1, <3>2
    <2>4. IsInteger(t) => Taken(t, Integral)
      BY <1>2 DEF IsInteger, Good, Related, KindFits, Taken, Free, Numeric, Integral, Fractional
    <2>5. Taken(t, Integral) => Taken(t, Numeric)  BY DEF Taken, Numeric
    <2>6. QED  BY <2>1, <2>2, <2>3, <2>4, <2>5
  <1>3. QED  BY <1>1, <1>2 DEF Fine

LEMMA SubstrFine ==
  ASSUME NEW as, NEW L \in Nat, Len(as) = L, L >= 1, NEW exact, NEW raised, \A k \in 1 .. L : Fine(as[k], exact, raised)
  PROVE  Fine(Substr(as), exact, raised)
PROOF
  <1> DEFINE us == [k \in 1 .. L |-> IF k = 1 THEN AsStr(as[1]) ELSE AsNum(as[k])]
  <1>1. Substr(as) = When(\A k \in 2 .. L : IsCount(AsNum(as[k])), Call("substr", us))  BY DEF Substr
  <1>2. CASE ~(\A k \in 2 .. L : IsCount(AsNum(as[k])))  BY <1>1, <1>2 DEF When, Fine
  <1>3. CASE \A k \in 2 .. L : IsCount(AsNum(as[k]))
    <2>1. DOMAIN us = 1 .. L /\ 1 \in 1 .. L /\ us[1] = AsStr(as[1])
          /\ \A k \in 1 .. L : k # 1 => k \in 2 .. L /\ us[k] = AsNum(as[k])
      OBVIOUS
    <2> HIDE DEF us
    <2>2. \A k \in 1 .. L :
            /\ Fine(us[k], exact, raised)
            /\ us[k] # Opaque => Taken(us[k], IF k = 1 THEN {"string"} ELSE Integral)
      <3> SUFFICES ASSUME NEW k \in 1 .. L
                   PROVE  /\ Fine(us[k], exact, raised)
                          /\ us[k] # Opaque => Taken(us[k], IF k = 1 THEN {"string"} ELSE Integral)
        OBVIOUS
      <3>0. Fine(as[k], exact, raised)  OBVIOUS
      <3>1. CASE k = 1  BY <3>0, <3>1, <2>1, AsStrFine
      <3>2. CASE k # 1
        <4>1. us[k] = AsNum(as[k]) /\ IsCount(AsNum(as[k]))  BY <3>2, <2>1, <1>3
        <4>2. Fine(us[k], exact, raised) /\ (us[k] # Opaque => Taken(us[k], Integral))  BY <3>0, <4>1, AsNumFine
        <4>3. QED  BY <3>2, <4>2
      <3>3. QED  BY <3>1, <3>2
    <2>3. "substr" \in Fixed /\ "substr" \notin Comparisons
          /\ \A k : Takes("substr", L, k) = IF k = 1 THEN {"string"} ELSE Integral
      BY DEF Fixed, Comparisons, Takes, Arithmetic
    <2>4. (\A k \in DOMAIN us : us[k] # Opaque) => Held(NewCall("substr", us), exact, raised)
      BY <2>1, <2>2, <2>3, TakenCall DEF Held
    <2>5. Fine(Call("substr", us), exact, raised)  BY <2>1, <2>2, <2>3, <2>4, FixedCall
    <2>6. QED  BY <1>1, <1>3, <2>5 DEF When
  <1>4. QED  BY <1>2, <1>3

LEMMA PadFine ==
  ASSUME NEW as, Len(as) = 2 \/ Len(as) = 3, NEW exact, NEW raised, Fine(as[1], exact, raised), Fine(as[2], exact, raised),
         Len(as) = 3 => Fine(as[3], exact, raised)
  PROVE  Fine(Pad(as), exact, raised)
PROOF
  <1> DEFINE fill == IF Len(as) = 3 THEN as[3] ELSE StringLit(<<" ">>)
             x == AsStr(as[1])
             y == AsNum(as[2])
  <1>1. Fine(fill, exact, raised)  BY MadeLiterals DEF Fine
  <1>2. Fine(x, exact, raised) /\ (x # Opaque => Taken(x, {"string"}))  BY AsStrFine
  <1>3. Fine(y, exact, raised) /\ (y # Opaque /\ IsCount(y) => Taken(y, Integral))  BY AsNumFine
  <1>4. Pad(as) = When(IsCount(y) /\ IsString(fill) /\ TextOf(fill) # <<>>, Call("lpad", <<x, y, fill>>))
    BY DEF Pad
  <1> HIDE DEF fill, x, y
  <1>5. IsString(fill) => Taken(fill, {"string"})  BY <1>1, KnownArguments
  <1>6. /\ "lpad" \in Fixed /\ "lpad" \notin Comparisons /\ Takes("lpad", 3, 1) = {"string"}
        /\ Takes("lpad", 3, 2) = Integral /\ Takes("lpad", 3, 3) = {"string"}
    BY DEF Fixed, Comparisons, Takes, Arithmetic
  <1>7. IsCount(y) /\ IsString(fill) => Fine(Call("lpad", <<x, y, fill>>), exact, raised)
    BY <1>1, <1>2, <1>3, <1>5, <1>6, TakenThree
  <1>8. QED  BY <1>4, <1>7 DEF When, Fine

LEMMA InstrFine ==
  ASSUME NEW as, NEW exact, NEW raised, Fine(as[1], exact, raised), Fine(as[2], exact, raised)
  PROVE  Fine(Instr(as), exact, raised)
PROOF
  <1> DEFINE x == AsStr(as[1])
             y == AsStr(as[2])
             start == IF Len(as) > 2 THEN as[3] ELSE IntLit(1)
             z == IntLit(start.node.value.num)
  <1>1. Instr(as) = When(/\ IsInteger(start) /\ start.node.value.num >= 1
                         /\ Len(as) = 4 => as[4].node = IntLit(1).node,
                         Call("instr", <<x, y, z>>))
    BY DEF Instr
  <1>2. Fine(x, exact, raised) /\ (x # Opaque => Taken(x, {"string"}))  BY AsStrFine
  <1>3. Fine(y, exact, raised) /\ (y # Opaque => Taken(y, {"string"}))  BY AsStrFine
  <1>4. Fine(z, exact, raised) /\ Taken(z, Integral)  BY MadeLiterals DEF Fine
  <1> HIDE DEF x, y, start, z
  <1>5. /\ "instr" \in Fixed /\ "instr" \notin Comparisons /\ Takes("instr", 3, 1) = {"string"}
        /\ Takes("instr", 3, 2) = {"string"} /\ Takes("instr", 3, 3) = Integral
    BY DEF Fixed, Comparisons, Takes, Arithmetic
  <1>6. Fine(Call("instr", <<x, y, z>>), exact, raised)  BY <1>2, <1>3, <1>4, <1>5, TakenThree
  <1>7. QED  BY <1>1, <1>6 DEF When, Fine

LEMMA ReplaceChrFine ==
  ASSUME NEW as, NEW exact, NEW raised, Fine(as[2], exact, raised)
  PROVE  Fine(ReplaceChr(as), exact, raised)
PROOF
  <1> DEFINE x == AsStr(as[2])
             old == TextOf(as[3])
             chars == IF as[1].node.value # Count(0) THEN old
                      ELSE old \o SelectSeq([k \in DOMAIN old |-> Upper(old[k])], LAMBDA c : c \notin ToSet(old))
             new == TextOf(as[4])
             to == IF new = <<>> THEN <<>> ELSE [k \in DOMAIN chars |-> Head(new)]
             y == StringLit(chars)
             z == StringLit(to)
  <1>1. ReplaceChr(as) = IF ~(IsInteger(as[1]) /\ IsString(as[3]) /\ IsString(as[4])) THEN Opaque
                         ELSE IF old = <<>> THEN x ELSE Call("translate", <<x, y, z>>)
    BY DEF ReplaceChr
  <1>2. Fine(x, exact, raised) /\ (x # Opaque => Taken(x, {"string"}))  BY AsStrFine
  <1> HIDE DEF chars, to
  <1>3. Fine(y, exact, raised) /\ Taken(y, {"string"}) /\ Fine(z, exact, raised) /\ Taken(z, {"string"})
    BY MadeLiterals DEF Fine
  <1> HIDE DEF x, y, z, old
  <1>4. "translate" \in Fixed /\ "translate" \notin Comparisons /\ \A k : Takes("translate", 3, k) = {"string"}
    BY DEF Fixed, Comparisons, Takes, Arithmetic
  <1>5. Fine(Call("translate", <<x, y, z>>), exact, raised)  BY <1>2, <1>3, <1>4, TakenThree
  <1>6. Fine(Opaque, exact, raised)  BY DEF Fine
  <1>7. QED  BY <1>1, <1>2, <1>5, <1>6

LEMMA FormatFine ==
  ASSUME NEW as, NEW parsing, NEW exact, NEW raised, Len(as) = 2 => Fine(as[2], exact, raised)
  PROVE  /\ Fine(Format(as, parsing), exact, raised)
         /\ Format(as, parsing) # Opaque => Taken(Format(as, parsing), {"string"})
PROOF
  <1> DEFINE f == IF Len(as) = 2 THEN as[2] ELSE DefaultFormat
  <1>1. Format(as, parsing) = When(IsFormat(f, parsing), f)  BY DEF Format
  <1>2. Fine(f, exact, raised)
    <2>1. Fine(DefaultFormat, exact, raised)  BY MadeLiterals DEF Fine, DefaultFormat
    <2>2. QED  BY <2>1
  <1> HIDE DEF f
  <1>3. IsFormat(f, parsing) => Taken(f, {"string"})  BY <1>2, KnownArguments DEF IsFormat
  <1>4. QED  BY <1>1, <1>2, <1>3 DEF When, Fine

LEMMA ToDateFine ==
  ASSUME NEW as, NEW exact, NEW raised, Fine(as[1], exact, raised), Len(as) = 2 => Fine(as[2], exact, raised)
  PROVE  Fine(ToDate(as), exact, raised)
PROOF
  <1> DEFINE x == AsStr(as[1])
             y == Format(as, TRUE)
  <1>1. Fine(x, exact, raised) /\ (x # Opaque => Taken(x, {"string"}))  BY AsStrFine
  <1>2. Fine(y, exact, raised) /\ (y # Opaque => Taken(y, {"string"}))  BY FormatFine
  <1>3. ToDate(as) = IF IsTime(as[1]) THEN as[1] ELSE Call("parse_timestamp", <<x, y>>)  BY DEF ToDate
  <1> HIDE DEF x, y
  <1>4. /\ "parse_timestamp" \in Fixed /\ "parse_timestamp" \notin Comparisons
        /\ \A k : Takes("parse_timestamp", 2, k) = {"string"}
    BY DEF Fixed, Comparisons, Takes, Arithmetic
  <1>5. Fine(Call("parse_timestamp", <<x, y>>), exact, raised)  BY <1>1, <1>2, <1>4, TakenTwo
  <1>6. QED  BY <1>3, <1>5

LEMMA ToCharFine ==
  ASSUME NEW as, NEW exact, NEW raised, Fine(as[1], exact, raised), Len(as) = 2 => Fine(as[2], exact, raised)
  PROVE  Fine(ToChar(as), exact, raised)
PROOF
  <1> DEFINE x == as[1]
             y == Format(as, FALSE)
  <1>1. Fine(AsStr(x), exact, raised) /\ Fine(x, exact, raised) /\ (IsTime(x) => Taken(x, {"timestamp"}))
    BY AsStrFine, AsTimeFine
  <1>2. Fine(y, exact, raised) /\ (y # Opaque => Taken(y, {"string"}))  BY FormatFine
  <1>3. ToChar(as) = IF IsTime(x) THEN Call("format_timestamp", <<x, y>>) ELSE When(Len(as) = 1, AsStr(x))
    BY DEF ToChar
  <1> HIDE DEF x, y
  <1>4. /\ "format_timestamp" \in Fixed /\ "format_timestamp" \notin Comparisons
        /\ Takes("format_timestamp", 2, 1) = {"timestamp"} /\ Takes("format_timestamp", 2, 2) = {"string"}
    BY DEF Fixed, Comparisons, Takes, Arithmetic
  <1>5. IsTime(x) => Fine(Call("format_timestamp", <<x, y>>), exact, raised)  BY <1>1, <1>2, <1>4, TakenTwo
  <1>6. Fine(Opaque, exact, raised)  BY DEF Fine
  <1>7. Fine(When(Len(as) = 1, AsStr(x)), exact, raised)  BY <1>1, <1>6 DEF When
  <1>8. QED  BY <1>3, <1>5, <1>7

(* The type of a call is what the catalogue says.                          *)
LEMMA TypeOfCall ==
  ASSUME NEW f, NEW as, Call(f, as) # Opaque
  PROVE  Call(f, as).type = Declared(f, as)
  BY CallCases, CallFields

(* A cast of a number.                                                     *)
LEMMA NumberCast ==
  ASSUME NEW t, NEW exact, NEW raised, Fine(t, exact, raised), t.type.kind \in Numeric, NEW T, T.kind \in Numeric
  PROVE  Fine(Typed(Cast(T, t.node), T), exact, raised)
PROOF
  <1>1. t # Opaque  BY OpaqueStays DEF Numeric, Integral, Fractional
  <1>2. Good(t, exact, raised)  BY <1>1 DEF Fine
  <1>3. Taken(t, Numeric)  BY KnownArguments
  <1>4. Taken(t, Numeric \cup {"boolean"})  BY <1>3 DEF Taken
  <1>5. T.kind \in AllKinds  BY DEF AllKinds, PortKinds
  <1>6. Good(Typed(Cast(T, t.node), T), exact, raised)  BY <1>2, <1>4, <1>5, CastIsGood
  <1>7. QED  BY <1>6 DEF Fine

(* What a string begins with, and a number to some places.                 *)
LEMMA LeadingFine ==
  ASSUME NEW v, NEW s, NEW exact, NEW raised, Fine(v, exact, raised), Fine(s, exact, raised),
         v.type.kind = "string", s # Opaque => Taken(s, Integral)
  PROVE  /\ Fine(Call("leading_decimal", <<v, s>>), exact, raised)
         /\ Call("leading_decimal", <<v, s>>) # Opaque => Call("leading_decimal", <<v, s>>).type.kind = "decimal"
PROOF
  <1>1. /\ "leading_decimal" \in Fixed /\ "leading_decimal" \notin Comparisons
        /\ Takes("leading_decimal", 2, 1) = {"string"} /\ Takes("leading_decimal", 2, 2) = Integral
    BY DEF Fixed, Comparisons, Takes, Arithmetic
  <1>2. Taken(v, {"string"})  BY KnownArguments
  <1>3. Fine(Call("leading_decimal", <<v, s>>), exact, raised)  BY <1>1, <1>2, TakenTwo
  <1>4. Declared("leading_decimal", <<v, s>>) = Type("decimal")  BY DEF Declared, ResultType, Comparisons
  <1>5. QED  BY <1>3, <1>4, TypeOfCall DEF Type

LEMMA RoundedFine ==
  ASSUME NEW f \in {"round", "trunc"}, NEW v, NEW s, NEW exact, NEW raised, Fine(v, exact, raised), Fine(s, exact, raised),
         v # Opaque => Taken(v, Numeric), s # Opaque => Taken(s, Numeric)
  PROVE  /\ Fine(Call(f, <<v, s>>), exact, raised)
         /\ Call(f, <<v, s>>) # Opaque => Call(f, <<v, s>>).type = v.type
PROOF
  <1>1. f \in LikeFirst /\ f \notin Comparisons /\ \A k : Takes(f, 2, k) = Numeric
    BY DEF LikeFirst, Comparisons, Takes, Arithmetic
  <1>2. Fine(Call(f, <<v, s>>), exact, raised)  BY <1>1, TakenTwo
  <1>3. Declared(f, <<v, s>>) = v.type
    <2> DEFINE as == <<v, s>>
               ts == [k \in DOMAIN as |-> as[k].type]
    <2>1. ts[1] = v.type
      <3>1. 1 \in DOMAIN as /\ as[1] = v  OBVIOUS
      <3> HIDE DEF as
      <3>2. QED  BY <3>1
    <2>2. Declared(f, as) = ResultType(f, ts)  BY DEF Declared
    <2> HIDE DEF ts
    <2>3. ResultType(f, ts) = ts[1]  BY <1>1, FirstResult
    <2>4. QED  BY <2>1, <2>2, <2>3
  <1>4. QED  BY <1>2, <1>3, TypeOfCall

(* NULL of whatever type.                                                  *)
LEMMA TypedNull ==
  ASSUME NEW T, T.kind \in AllKinds, NEW exact, NEW raised
  PROVE  Good(Lit(Null, T), exact, raised)
  BY LiteralIsGood DEF LiteralFits

LEMMA ToDecimalFine ==
  ASSUME NEW as, NEW exact, NEW raised, Fine(as[1], exact, raised), Len(as) = 2 => Fine(as[2], exact, raised)
  PROVE  Fine(ToDecimal(as), exact, raised)
PROOF
  <1> DEFINE scale == IF Len(as) = 2 THEN as[2] ELSE IntLit(18)
             target == Decimal(38, scale.node.value.num)
             value == as[1]
             number == CASE value.type.kind = "string" -> Call("leading_decimal", <<value, scale>>)
                         [] value.type.kind \in Numeric -> Call("round", <<value, scale>>)
                         [] OTHER -> Opaque
  <1>1. ToDecimal(as) =
          IF ~IsInteger(scale) \/ scale.node.value.num \notin 0 .. 18 THEN Opaque
          ELSE IF number # Opaque THEN Typed(Cast(target, number.node), target)
          ELSE When(IsNullLiteral(value), Lit(Null, target))
    BY DEF ToDecimal
  <1>2. Fine(scale, exact, raised)  BY MadeLiterals DEF Fine
  <1>3. target.kind \in Numeric /\ target.kind \in AllKinds
    BY DEF Decimal, AllKinds, PortKinds, Numeric, Fractional
  <1>4. Fine(Opaque, exact, raised)  BY DEF Fine
  <1> HIDE DEF scale, target
  <1>5. CASE ~IsInteger(scale) \/ scale.node.value.num \notin 0 .. 18  BY <1>1, <1>4, <1>5
  <1>6. CASE IsInteger(scale) /\ scale.node.value.num \in 0 .. 18
    <2>1. Taken(scale, Integral) /\ Taken(scale, Numeric)  BY <1>2, <1>6, KnownArguments
    <2>2. value.type.kind \in Numeric => Taken(value, Numeric)  BY KnownArguments
    <2>3. Fine(number, exact, raised) /\ (number # Opaque => number.type.kind \in Numeric)
      <3>1. CASE value.type.kind = "string"
        <4>1. number = Call("leading_decimal", <<value, scale>>)
          BY <3>1 DEF Numeric, Integral, Fractional
        <4> HIDE DEF number
        <4>2. QED  BY <4>1, <1>2, <2>1, <3>1, LeadingFine DEF Numeric, Fractional
      <3>2. CASE value.type.kind \in Numeric
        <4>1. number = Call("round", <<value, scale>>)
          BY <3>2 DEF Numeric, Integral, Fractional
        <4> HIDE DEF number
        <4>2. QED  BY <4>1, <1>2, <2>1, <2>2, <3>2, RoundedFine
      <3>3. CASE value.type.kind # "string" /\ value.type.kind \notin Numeric
        <4>1. number = Opaque  BY <3>3
        <4> HIDE DEF number
        <4>2. QED  BY <4>1, <1>4
      <3>4. QED  BY <3>1, <3>2, <3>3
    <2> HIDE DEF number, value
    <2>4. number # Opaque => Fine(Typed(Cast(target, number.node), target), exact, raised)
      BY <1>3, <2>3, NumberCast
    <2>5. Fine(Lit(Null, target), exact, raised)  BY <1>3, TypedNull DEF Fine
    <2>6. QED  BY <1>1, <1>4, <1>6, <2>4, <2>5 DEF When
  <1>7. QED  BY <1>5, <1>6

LEMMA ToIntegerFine ==
  ASSUME NEW as, NEW exact, NEW raised, Fine(as[1], exact, raised)
  PROVE  Fine(ToInteger(as), exact, raised)
PROOF
  <1> DEFINE first == as[1]
             value == IF first.type.kind = "string" THEN Call("leading_decimal", <<first, IntLit(18)>>) ELSE first
             truncate == Len(as) = 2 /\ as[2].node.value # Count(0)
             number == IF truncate /\ value.type.kind \notin Integral
                       THEN Call("trunc", <<value, IntLit(0)>>) ELSE value
  <1>1. ToInteger(as) =
          IF Len(as) = 2 /\ ~IsInteger(as[2]) THEN Opaque
          ELSE IF first.type.kind # "string" /\ IsNullLiteral(first) THEN Lit(Null, Type("integer"))
          ELSE When(value.type.kind \in Numeric, Typed(Cast(Type("integer"), number.node), Type("integer")))
    BY DEF ToInteger
  <1>2. \A n : Fine(IntLit(n), exact, raised) /\ Taken(IntLit(n), Integral) /\ Taken(IntLit(n), Numeric)
    BY MadeLiterals DEF Fine
  <1>3. Type("integer").kind \in Numeric /\ Type("integer").kind \in AllKinds
    BY DEF Type, AllKinds, PortKinds, Numeric, Integral
  <1>4. Fine(value, exact, raised)  BY <1>2, LeadingFine
  <1> HIDE DEF first, value, truncate
  <1>5. ASSUME value.type.kind \in Numeric
        PROVE  Fine(Typed(Cast(Type("integer"), number.node), Type("integer")), exact, raised)
    <2>1. Taken(value, Numeric)  BY <1>4, <1>5, KnownArguments
    <2>2. CASE truncate /\ value.type.kind \notin Integral
      <3>1. number = Call("trunc", <<value, IntLit(0)>>)  BY <2>2
      <3> HIDE DEF number
      <3>2. Fine(number, exact, raised) /\ (number # Opaque => number.type = value.type)
        BY <3>1, <1>2, <1>4, <2>1, RoundedFine
      <3>3. number # Opaque
        <4>1. value # Opaque  BY <1>5, OpaqueStays DEF Numeric, Integral, Fractional
        <4>2. IntLit(0) # Opaque  BY <1>2, OpaqueStays DEF IntLit, Lit, Typed, Literal, IsLiteral
        <4> DEFINE us == <<value, IntLit(0)>>
        <4>3. DOMAIN us = {1, 2} /\ us[1] = value /\ us[2] = IntLit(0)  OBVIOUS
        <4> HIDE DEF us
        <4>4. Call("trunc", us) = CallTyped("trunc", us)  BY <4>1, <4>2, <4>3, CallCases
        <4>5. CallTyped("trunc", us).node.node = "call"  BY CallFields
        <4>6. QED  BY <3>1, <4>4, <4>5 DEF us, Opaque, Typed, OpaqueNode
      <3>4. QED  BY <3>2, <3>3, <1>3, <1>5, NumberCast
    <2>3. CASE ~(truncate /\ value.type.kind \notin Integral)
      <3>1. number = value  BY <2>3
      <3> HIDE DEF number
      <3>2. QED  BY <3>1, <1>3, <1>4, <1>5, NumberCast
    <2>4. QED  BY <2>2, <2>3
  <1> HIDE DEF number
  <1>6. Fine(Lit(Null, Type("integer")), exact, raised) /\ Fine(Opaque, exact, raised)  BY <1>3, TypedNull DEF Fine
  <1>7. QED  BY <1>1, <1>5, <1>6 DEF When

LEMMA TruncFine ==
  ASSUME NEW as, NEW exact, NEW raised, Fine(as[1], exact, raised), Len(as) = 2 => Fine(as[2], exact, raised)
  PROVE  Fine(Trunc(as), exact, raised)
PROOF
  <1> DEFINE places == IF Len(as) = 2 THEN as[2] ELSE IntLit(0)
             unit == IF Len(as) = 2 THEN as[2] ELSE StringLit(<<"U">>)
             x == as[1]
             y == AsNum(x)
  <1>1. Trunc(as) = IF IsTime(x) THEN When(IsUnit(unit), Call("trunc_timestamp", <<x, unit>>))
                    ELSE When(IsInteger(places) /\ places.node.value.num >= 0, Call("trunc", <<y, places>>))
    BY DEF Trunc
  <1>2. Fine(places, exact, raised) /\ Fine(unit, exact, raised) /\ Fine(Opaque, exact, raised)  BY MadeLiterals DEF Fine
  <1>3. Fine(y, exact, raised) /\ (y # Opaque => Taken(y, Numeric))  BY AsNumFine
  <1>4. Fine(x, exact, raised) /\ (IsTime(x) => Taken(x, {"timestamp"}))  BY AsTimeFine
  <1> HIDE DEF places, unit, x, y
  <1>5. (IsUnit(unit) => Taken(unit, {"string"})) /\ (IsInteger(places) => Taken(places, Numeric))
    BY <1>2, KnownArguments DEF IsUnit
  <1>6. /\ "trunc_timestamp" \in Fixed /\ "trunc_timestamp" \notin Comparisons
        /\ Takes("trunc_timestamp", 2, 1) = {"timestamp"} /\ Takes("trunc_timestamp", 2, 2) = {"string"}
    BY DEF Fixed, Comparisons, Takes, Arithmetic
  <1>7. IsTime(x) /\ IsUnit(unit) => Fine(Call("trunc_timestamp", <<x, unit>>), exact, raised)
    BY <1>2, <1>4, <1>5, <1>6, TakenTwo
  <1>8. IsInteger(places) => Fine(Call("trunc", <<y, places>>), exact, raised)
    BY <1>2, <1>3, <1>5, RoundedFine
  <1>9. QED  BY <1>1, <1>2, <1>7, <1>8 DEF When

LEMMA AddToDateFine ==
  ASSUME NEW as, NEW exact, NEW raised, Fine(as[1], exact, raised), Fine(as[2], exact, raised), Fine(as[3], exact, raised)
  PROVE  Fine(AddToDate(as), exact, raised)
PROOF
  <1> DEFINE x == AsTime(as[1])
             u == as[2]
             y == AsNum(as[3])
  <1>1. AddToDate(as) = When(IsUnit(u) /\ IsCount(y), Call("add_interval", <<x, u, y>>))
    BY DEF AddToDate
  <1>2. Fine(x, exact, raised) /\ (x # Opaque => Taken(x, {"timestamp"}))  BY AsTimeFine
  <1>3. Fine(y, exact, raised) /\ (y # Opaque /\ IsCount(y) => Taken(y, Integral))  BY AsNumFine
  <1>4. Fine(u, exact, raised) /\ (IsUnit(u) => Taken(u, {"string"})) /\ Fine(Opaque, exact, raised)
    BY KnownArguments DEF IsUnit, Fine
  <1> HIDE DEF x, u, y
  <1>5. /\ "add_interval" \in Fixed /\ "add_interval" \notin Comparisons
        /\ Takes("add_interval", 3, 1) = {"timestamp"} /\ Takes("add_interval", 3, 2) = {"string"}
        /\ Takes("add_interval", 3, 3) = Integral
    BY DEF Fixed, Comparisons, Takes, Arithmetic
  <1>6. IsUnit(u) /\ IsCount(y) => Fine(Call("add_interval", <<x, u, y>>), exact, raised)
    BY <1>2, <1>3, <1>4, <1>5, TakenThree
  <1>7. QED  BY <1>1, <1>4, <1>6 DEF When

(* A call of the arguments themselves, or of texts or numbers of them.     *)
LEMMA PlainCalls ==
  ASSUME NEW t, NEW exact, NEW raised, Fine(t, exact, raised)
  PROVE  /\ Fine(Call("is_null", <<t>>), exact, raised)
         /\ \A f \in {"upper", "length", "matches_number"} : Fine(Call(f, <<AsStr(t)>>), exact, raised)
         /\ \A f \in {"abs", "sign", "chr"} : Fine(Call(f, <<AsNum(t)>>), exact, raised)
         /\ Fine(Call("fail", <<StringLit(<<>>)>>), exact, raised)
PROOF
  <1>1. Fine(Call("is_null", <<t>>), exact, raised)
    <2>1. t # Opaque => Comparand(t)  BY GoodIsTaken DEF Fine
    <2>2. "is_null" \in Fixed /\ "is_null" \notin Comparisons /\ Takes("is_null", 1, 1) = PortKinds \cup {"boolean"}
      BY DEF Fixed, Comparisons, Takes, Arithmetic
    <2>3. QED  BY <2>1, <2>2, TakenOne DEF Comparand
  <1>2. ASSUME NEW f \in {"upper", "length", "matches_number"}  PROVE Fine(Call(f, <<AsStr(t)>>), exact, raised)
    <2> DEFINE x == AsStr(t)
    <2>1. Fine(x, exact, raised) /\ (x # Opaque => Taken(x, {"string"}))  BY AsStrFine
    <2> HIDE DEF x
    <2>2. f \in Fixed /\ f \notin Comparisons /\ Takes(f, 1, 1) = {"string"}
      BY DEF Fixed, Comparisons, Takes, Arithmetic
    <2>3. Fine(Call(f, <<x>>), exact, raised)  BY <2>1, <2>2, TakenOne
    <2>4. QED  BY <2>3 DEF x
  <1>3. ASSUME NEW f \in {"abs", "sign", "chr"}  PROVE Fine(Call(f, <<AsNum(t)>>), exact, raised)
    <2> DEFINE x == AsNum(t)
    <2>1. Fine(x, exact, raised) /\ (x # Opaque => Taken(x, Numeric))  BY AsNumFine
    <2> HIDE DEF x
    <2>2. f \in Fixed \cup LikeFirst /\ f \notin Comparisons /\ Takes(f, 1, 1) = Numeric
      BY DEF Fixed, LikeFirst, Comparisons, Takes, Arithmetic
    <2>3. Fine(Call(f, <<x>>), exact, raised)  BY <2>1, <2>2, TakenOne
    <2>4. QED  BY <2>3 DEF x
  <1>4. Fine(Call("fail", <<StringLit(<<>>)>>), exact, raised)
    <2> DEFINE x == StringLit(<<>>)
    <2>1. Fine(x, exact, raised) /\ Comparand(x)  BY MadeLiterals, GoodIsTaken DEF Fine
    <2> HIDE DEF x
    <2>2. "fail" \in Fixed /\ "fail" \notin Comparisons /\ Takes("fail", 1, 1) = PortKinds \cup {"boolean"}
      BY DEF Fixed, Comparisons, Takes, Arithmetic
    <2>3. Fine(Call("fail", <<x>>), exact, raised)  BY <2>1, <2>2, TakenOne DEF Comparand
    <2>4. QED  BY <2>3 DEF x
  <1>5. QED  BY <1>1, <1>2, <1>3, <1>4

(* Whether a text is a date, and a part of one.                            *)
LEMMA DateCalls ==
  ASSUME NEW as, NEW exact, NEW raised, Fine(as[1], exact, raised), Len(as) = 2 => Fine(as[2], exact, raised)
  PROVE  /\ Fine(Call("can_parse_timestamp", <<AsStr(as[1]), Format(as, TRUE)>>), exact, raised)
         /\ Len(as) = 2 => Fine(When(IsUnit(as[2]), Call("timestamp_part", <<AsTime(as[1]), as[2]>>)), exact, raised)
PROOF
  <1> DEFINE x == AsStr(as[1])
             y == Format(as, TRUE)
             z == AsTime(as[1])
             u == as[2]
  <1>1. Fine(x, exact, raised) /\ (x # Opaque => Taken(x, {"string"}))  BY AsStrFine
  <1>2. Fine(y, exact, raised) /\ (y # Opaque => Taken(y, {"string"}))  BY FormatFine
  <1>3. Fine(z, exact, raised) /\ (z # Opaque => Taken(z, {"timestamp"}))  BY AsTimeFine
  <1>4. Len(as) = 2 => Fine(u, exact, raised) /\ (IsUnit(u) => Taken(u, {"string"}))
    BY KnownArguments DEF IsUnit
  <1>5. Fine(Opaque, exact, raised)  BY DEF Fine
  <1> HIDE DEF x, y, z, u
  <1>6. /\ "can_parse_timestamp" \in Fixed /\ "can_parse_timestamp" \notin Comparisons
        /\ Takes("can_parse_timestamp", 2, 1) = {"string"} /\ Takes("can_parse_timestamp", 2, 2) = {"string"}
        /\ "timestamp_part" \in Fixed /\ "timestamp_part" \notin Comparisons
        /\ Takes("timestamp_part", 2, 1) = {"timestamp"} /\ Takes("timestamp_part", 2, 2) = {"string"}
    BY DEF Fixed, Comparisons, Takes, Arithmetic
  <1>7. Fine(Call("can_parse_timestamp", <<x, y>>), exact, raised)  BY <1>1, <1>2, <1>6, TakenTwo
  <1>8. Len(as) = 2 /\ IsUnit(u) => Fine(Call("timestamp_part", <<z, u>>), exact, raised)
    BY <1>3, <1>4, <1>6, TakenTwo
  <1>9. Len(as) = 2 => Fine(When(IsUnit(u), Call("timestamp_part", <<z, u>>)), exact, raised)
    BY <1>5, <1>8 DEF When
  <1>10. QED  BY <1>7, <1>9 DEF x, y, z, u

(* Whatever function of the subset it is.                                  *)
LEMMA FunctionFine ==
  ASSUME NEW f, NEW as, NEW L \in Nat, Len(as) = L, NEW exact, NEW raised,
         \A k \in 1 .. L : Fine(as[k], exact, raised),
         f = "IN" /\ Folds(as) /\ IsNullLiteral(as[1]) => raised
  PROVE  Fine(Function(f, as), exact, raised)
PROOF
  <1>1. /\ L \in Nat /\ Len(as) = L /\ \A k \in 1 .. L : Fine(as[k], exact, raised)
        /\ \A k \in 1 .. Len(as) : Fine(as[k], exact, raised)
    OBVIOUS
  <1>2. /\ L >= 1 => Fine(as[1], exact, raised)
        /\ L >= 2 => Fine(as[2], exact, raised)
        /\ L >= 3 => Fine(as[3], exact, raised)
    <2>1. (L >= 1 => 1 \in 1 .. L) /\ (L >= 2 => 2 \in 1 .. L) /\ (L >= 3 => 3 \in 1 .. L)  OBVIOUS
    <2>2. QED  BY <2>1
  <1>3. Fine(Opaque, exact, raised)  BY DEF Fine
  <1>4. CASE L \notin Arity(f)
    <2>1. Len(as) \notin Arity(f)  BY <1>4
    <2>2. Function(f, as) = Opaque  BY <2>1, Zenon DEF Function
    <2>3. QED  BY <1>3, <2>2
  <1>5. CASE L \in Arity(f) /\ f = "IIF"
    <2>1. Arity(f) = {2, 3}  BY <1>5 DEF Arity
    <2>2. Function(f, as) = Iif(as)  BY <1>5 DEF Function
    <2>3. Len(as) = 2 \/ Len(as) = 3  BY <1>1, <1>5, <2>1
    <2>4. Fine(Iif(as), exact, raised)  BY <1>1, <2>3, IifFine, Zenon
    <2>5. QED  BY <2>2, <2>4
  <1>6. CASE L \in Arity(f) /\ f = "DECODE"
    <2>1. Arity(f) = Nat \ 0 .. 2  BY <1>6 DEF Arity
    <2>2. Function(f, as) = Decode(as)  BY <1>6 DEF Function
    <2>3. L > 2  BY <1>1, <1>6, <2>1
    <2>4. Fine(Decode(as), exact, raised)  BY <1>1, <2>3, DecodeFine, Zenon
    <2>5. QED  BY <2>2, <2>4
  <1>7. CASE L \in Arity(f) /\ f = "IN"
    <2>1. Arity(f) = Nat \ 0 .. 1  BY <1>7 DEF Arity
    <2>2. Function(f, as) = In(as)  BY <1>7 DEF Function
    <2>3. L > 1  BY <1>1, <1>7, <2>1
    <2>4. Folds(as) /\ IsNullLiteral(as[1]) => raised  BY <1>7
    <2>5. Fine(In(as), exact, raised)  BY <1>1, <2>3, <2>4, InFine, Zenon
    <2>6. QED  BY <2>2, <2>5
  <1>8. CASE L \in Arity(f) /\ f = "ISNULL"
    <2>1. Arity(f) = {1}  BY <1>8 DEF Arity
    <2>2. Function(f, as) = Call("is_null", <<as[1]>>)  BY <1>8 DEF Function
    <2>3. L \in {1}  BY <1>8, <2>1
    <2>4. L >= 1 /\ Len(as) # 2  BY <1>1, <2>3
    <2>5. Fine(as[1], exact, raised)  BY <1>2, <2>4, Zenon
    <2>6. Fine(Call("is_null", <<as[1]>>), exact, raised)  BY <2>4, <2>5, PlainCalls, Zenon
    <2>7. QED  BY <2>2, <2>6
  <1>9. CASE L \in Arity(f) /\ f = "UPPER"
    <2>1. Arity(f) = {1}  BY <1>9 DEF Arity
    <2>2. Function(f, as) = Call("upper", <<AsStr(as[1])>>)  BY <1>9 DEF Function
    <2>3. L \in {1}  BY <1>9, <2>1
    <2>4. L >= 1 /\ Len(as) # 2  BY <1>1, <2>3
    <2>5. Fine(as[1], exact, raised)  BY <1>2, <2>4, Zenon
    <2>6. Fine(Call("upper", <<AsStr(as[1])>>), exact, raised)  BY <2>4, <2>5, PlainCalls, Zenon
    <2>7. QED  BY <2>2, <2>6
  <1>10. CASE L \in Arity(f) /\ f = "LENGTH"
    <2>1. Arity(f) = {1}  BY <1>10 DEF Arity
    <2>2. Function(f, as) = Call("length", <<AsStr(as[1])>>)  BY <1>10 DEF Function
    <2>3. L \in {1}  BY <1>10, <2>1
    <2>4. L >= 1 /\ Len(as) # 2  BY <1>1, <2>3
    <2>5. Fine(as[1], exact, raised)  BY <1>2, <2>4, Zenon
    <2>6. Fine(Call("length", <<AsStr(as[1])>>), exact, raised)  BY <2>4, <2>5, PlainCalls, Zenon
    <2>7. QED  BY <2>2, <2>6
  <1>11. CASE L \in Arity(f) /\ f = "SUBSTR"
    <2>1. Arity(f) = {2, 3}  BY <1>11 DEF Arity
    <2>2. Function(f, as) = Substr(as)  BY <1>11 DEF Function
    <2>3. L >= 1  BY <1>1, <1>11, <2>1
    <2>4. Fine(Substr(as), exact, raised)  BY <1>1, <2>3, SubstrFine, Zenon
    <2>5. QED  BY <2>2, <2>4
  <1>12. CASE L \in Arity(f) /\ f = "ABS"
    <2>1. Arity(f) = {1}  BY <1>12 DEF Arity
    <2>2. Function(f, as) = Call("abs", <<AsNum(as[1])>>)  BY <1>12 DEF Function
    <2>3. L \in {1}  BY <1>12, <2>1
    <2>4. L >= 1 /\ Len(as) # 2  BY <1>1, <2>3
    <2>5. Fine(as[1], exact, raised)  BY <1>2, <2>4, Zenon
    <2>6. Fine(Call("abs", <<AsNum(as[1])>>), exact, raised)  BY <2>4, <2>5, PlainCalls, Zenon
    <2>7. QED  BY <2>2, <2>6
  <1>13. CASE L \in Arity(f) /\ f = "SIGN"
    <2>1. Arity(f) = {1}  BY <1>13 DEF Arity
    <2>2. Function(f, as) = Call("sign", <<AsNum(as[1])>>)  BY <1>13 DEF Function
    <2>3. L \in {1}  BY <1>13, <2>1
    <2>4. L >= 1 /\ Len(as) # 2  BY <1>1, <2>3
    <2>5. Fine(as[1], exact, raised)  BY <1>2, <2>4, Zenon
    <2>6. Fine(Call("sign", <<AsNum(as[1])>>), exact, raised)  BY <2>4, <2>5, PlainCalls, Zenon
    <2>7. QED  BY <2>2, <2>6
  <1>14. CASE L \in Arity(f) /\ f = "LPAD"
    <2>1. Arity(f) = {2, 3}  BY <1>14 DEF Arity
    <2>2. Function(f, as) = Pad(as)  BY <1>14 DEF Function
    <2>3. L \in {2, 3}  BY <1>14, <2>1
    <2>4. L >= 1 /\ L >= 2 /\ (Len(as) = 3 => L >= 3) /\ (Len(as) = 2 \/ Len(as) = 3)  BY <1>1, <2>3
    <2>5. /\ Fine(as[1], exact, raised) /\ Fine(as[2], exact, raised)
          /\ Len(as) = 3 => Fine(as[3], exact, raised)
          /\ Len(as) \in {2, 3}
      BY <1>2, <2>4, Zenon
    <2>6. Fine(Pad(as), exact, raised)  BY <2>4, <2>5, PadFine, Zenon
    <2>7. QED  BY <2>2, <2>6
  <1>15. CASE L \in Arity(f) /\ f = "INSTR"
    <2>1. Arity(f) = 2 .. 4  BY <1>15 DEF Arity
    <2>2. Function(f, as) = Instr(as)  BY <1>15 DEF Function
    <2>3. L \in 2 .. 4  BY <1>15, <2>1
    <2>4. L >= 1 /\ L >= 2  BY <1>1, <2>3
    <2>5. Fine(as[1], exact, raised) /\ Fine(as[2], exact, raised)  BY <1>2, <2>4, Zenon
    <2>6. Fine(Instr(as), exact, raised)  BY <2>4, <2>5, InstrFine, Zenon
    <2>7. QED  BY <2>2, <2>6
  <1>16. CASE L \in Arity(f) /\ f = "REPLACECHR"
    <2>1. Arity(f) = {4}  BY <1>16 DEF Arity
    <2>2. Function(f, as) = ReplaceChr(as)  BY <1>16 DEF Function
    <2>3. L \in {4}  BY <1>16, <2>1
    <2>4. L >= 2  BY <1>1, <2>3
    <2>5. Fine(as[2], exact, raised)  BY <1>2, <2>4, Zenon
    <2>6. Fine(ReplaceChr(as), exact, raised)  BY <2>4, <2>5, ReplaceChrFine, Zenon
    <2>7. QED  BY <2>2, <2>6
  <1>17. CASE L \in Arity(f) /\ f = "CHR"
    <2>1. Arity(f) = {1}  BY <1>17 DEF Arity
    <2>2. Function(f, as) = Call("chr", <<AsNum(as[1])>>)  BY <1>17 DEF Function
    <2>3. L \in {1}  BY <1>17, <2>1
    <2>4. L >= 1 /\ Len(as) # 2  BY <1>1, <2>3
    <2>5. Fine(as[1], exact, raised)  BY <1>2, <2>4, Zenon
    <2>6. Fine(Call("chr", <<AsNum(as[1])>>), exact, raised)  BY <2>4, <2>5, PlainCalls, Zenon
    <2>7. QED  BY <2>2, <2>6
  <1>18. CASE L \in Arity(f) /\ f = "IS_NUMBER"
    <2>1. Arity(f) = {1}  BY <1>18 DEF Arity
    <2>2. Function(f, as) = Call("matches_number", <<AsStr(as[1])>>)  BY <1>18 DEF Function
    <2>3. L \in {1}  BY <1>18, <2>1
    <2>4. L >= 1 /\ Len(as) # 2  BY <1>1, <2>3
    <2>5. Fine(as[1], exact, raised)  BY <1>2, <2>4, Zenon
    <2>6. Fine(Call("matches_number", <<AsStr(as[1])>>), exact, raised)  BY <2>4, <2>5, PlainCalls, Zenon
    <2>7. QED  BY <2>2, <2>6
  <1>19. CASE L \in Arity(f) /\ f = "IS_DATE"
    <2>1. Arity(f) = {1, 2}  BY <1>19 DEF Arity
    <2>2. Function(f, as) = Call("can_parse_timestamp", <<AsStr(as[1]), Format(as, TRUE)>>)
      BY <1>19 DEF Function
    <2>3. L \in {1, 2}  BY <1>19, <2>1
    <2>4. L >= 1 /\ (Len(as) = 2 => L >= 2)  BY <1>1, <2>3
    <2>5. Fine(as[1], exact, raised) /\ (Len(as) = 2 => Fine(as[2], exact, raised))  BY <1>2, <2>4, Zenon
    <2>6. Fine(Call("can_parse_timestamp", <<AsStr(as[1]), Format(as, TRUE)>>), exact, raised)
      BY <2>4, <2>5, DateCalls, Zenon
    <2>7. QED  BY <2>2, <2>6
  <1>20. CASE L \in Arity(f) /\ f = "TO_DATE"
    <2>1. Arity(f) = {1, 2}  BY <1>20 DEF Arity
    <2>2. Function(f, as) = ToDate(as)  BY <1>20 DEF Function
    <2>3. L \in {1, 2}  BY <1>20, <2>1
    <2>4. L >= 1 /\ (Len(as) = 2 => L >= 2)  BY <1>1, <2>3
    <2>5. Fine(as[1], exact, raised) /\ (Len(as) = 2 => Fine(as[2], exact, raised))  BY <1>2, <2>4, Zenon
    <2>6. Fine(ToDate(as), exact, raised)  BY <2>4, <2>5, ToDateFine, Zenon
    <2>7. QED  BY <2>2, <2>6
  <1>21. CASE L \in Arity(f) /\ f = "TO_CHAR"
    <2>1. Arity(f) = {1, 2}  BY <1>21 DEF Arity
    <2>2. Function(f, as) = ToChar(as)  BY <1>21 DEF Function
    <2>3. L \in {1, 2}  BY <1>21, <2>1
    <2>4. L >= 1 /\ (Len(as) = 2 => L >= 2)  BY <1>1, <2>3
    <2>5. Fine(as[1], exact, raised) /\ (Len(as) = 2 => Fine(as[2], exact, raised))  BY <1>2, <2>4, Zenon
    <2>6. Fine(ToChar(as), exact, raised)  BY <2>4, <2>5, ToCharFine, Zenon
    <2>7. QED  BY <2>2, <2>6
  <1>22. CASE L \in Arity(f) /\ f = "TO_DECIMAL"
    <2>1. Arity(f) = {1, 2}  BY <1>22 DEF Arity
    <2>2. Function(f, as) = ToDecimal(as)  BY <1>22 DEF Function
    <2>3. L \in {1, 2}  BY <1>22, <2>1
    <2>4. L >= 1 /\ (Len(as) = 2 => L >= 2)  BY <1>1, <2>3
    <2>5. Fine(as[1], exact, raised) /\ (Len(as) = 2 => Fine(as[2], exact, raised))  BY <1>2, <2>4, Zenon
    <2>6. Fine(ToDecimal(as), exact, raised)  BY <2>4, <2>5, ToDecimalFine, Zenon
    <2>7. QED  BY <2>2, <2>6
  <1>23. CASE L \in Arity(f) /\ f = "TO_INTEGER"
    <2>1. Arity(f) = {1, 2}  BY <1>23 DEF Arity
    <2>2. Function(f, as) = ToInteger(as)  BY <1>23 DEF Function
    <2>3. L \in {1, 2}  BY <1>23, <2>1
    <2>4. L >= 1 /\ (Len(as) = 2 => L >= 2)  BY <1>1, <2>3
    <2>5. Fine(as[1], exact, raised) /\ (Len(as) = 2 => Fine(as[2], exact, raised))  BY <1>2, <2>4, Zenon
    <2>6. Fine(ToInteger(as), exact, raised)  BY <2>4, <2>5, ToIntegerFine, Zenon
    <2>7. QED  BY <2>2, <2>6
  <1>24. CASE L \in Arity(f) /\ f = "TRUNC"
    <2>1. Arity(f) = {1, 2}  BY <1>24 DEF Arity
    <2>2. Function(f, as) = Trunc(as)  BY <1>24 DEF Function
    <2>3. L \in {1, 2}  BY <1>24, <2>1
    <2>4. L >= 1 /\ (Len(as) = 2 => L >= 2)  BY <1>1, <2>3
    <2>5. Fine(as[1], exact, raised) /\ (Len(as) = 2 => Fine(as[2], exact, raised))  BY <1>2, <2>4, Zenon
    <2>6. Fine(Trunc(as), exact, raised)  BY <2>4, <2>5, TruncFine, Zenon
    <2>7. QED  BY <2>2, <2>6
  <1>25. CASE L \in Arity(f) /\ f = "ADD_TO_DATE"
    <2>1. Arity(f) = {3}  BY <1>25 DEF Arity
    <2>2. Function(f, as) = AddToDate(as)  BY <1>25 DEF Function
    <2>3. L \in {3}  BY <1>25, <2>1
    <2>4. L >= 1 /\ L >= 2 /\ L >= 3  BY <1>1, <2>3
    <2>5. Fine(as[1], exact, raised) /\ Fine(as[2], exact, raised) /\ Fine(as[3], exact, raised)  BY <1>2, <2>4, Zenon
    <2>6. Fine(AddToDate(as), exact, raised)  BY <2>4, <2>5, AddToDateFine, Zenon
    <2>7. QED  BY <2>2, <2>6
  <1>26. CASE L \in Arity(f) /\ f = "GET_DATE_PART"
    <2>1. Arity(f) = {2}  BY <1>26 DEF Arity
    <2>2. Function(f, as) = When(IsUnit(as[2]), Call("timestamp_part", <<AsTime(as[1]), as[2]>>))
      BY <1>26 DEF Function
    <2>3. L \in {2}  BY <1>26, <2>1
    <2>4. L >= 1 /\ L >= 2 /\ Len(as) = 2  BY <1>1, <2>3
    <2>5. Fine(as[1], exact, raised) /\ (Len(as) = 2 => Fine(as[2], exact, raised))  BY <1>2, <2>4, Zenon
    <2>6. Fine(When(IsUnit(as[2]), Call("timestamp_part", <<AsTime(as[1]), as[2]>>)), exact, raised)
      BY <2>4, <2>5, DateCalls, Zenon
    <2>7. QED  BY <2>2, <2>6
  <1>27. CASE L \in Arity(f) /\ f = "ABORT"
    <2>1. Arity(f) = {1}  BY <1>27 DEF Arity
    <2>2. Function(f, as) = Call("fail", <<StringLit(<<>>)>>)  BY <1>27 DEF Function
    <2>3. L \in {1}  BY <1>27, <2>1
    <2>4. L >= 1 /\ Len(as) # 2  BY <1>1, <2>3
    <2>5. Fine(as[1], exact, raised)  BY <1>2, <2>4, Zenon
    <2>6. Fine(Call("fail", <<StringLit(<<>>)>>), exact, raised)  BY <2>4, <2>5, PlainCalls, Zenon
    <2>7. QED  BY <2>2, <2>6
  <1>28. CASE L \in Arity(f) /\ f = "SETVARIABLE"
    <2>1. Arity(f) = {2}  BY <1>28 DEF Arity
    <2>2. Function(f, as) = SetVariable(as)  BY <1>28 DEF Function
    <2>3. L = 2  BY <1>28, <2>1
    <2>4. L >= 2  BY <2>3
    <2>5. Fine(as[2], exact, raised)  BY <1>2, <2>4, Zenon
    <2>6. Fine(SetVariable(as), exact, raised)  BY <1>3, <2>5 DEF SetVariable, When
    <2>7. QED  BY <2>2, <2>6
  <1>29. L \in Arity(f) =>
           f \in {"IIF", "DECODE", "IN", "ISNULL", "UPPER", "LENGTH", "SUBSTR", "ABS", "SIGN", "LPAD",
                  "INSTR", "REPLACECHR", "CHR", "IS_NUMBER", "IS_DATE", "TO_DATE", "TO_CHAR", "TO_DECIMAL",
                  "TO_INTEGER", "TRUNC", "ADD_TO_DATE", "GET_DATE_PART", "ABORT", "SETVARIABLE"}
    BY DEF Arity
  <1>30. QED
    BY <1>4, <1>5, <1>6, <1>7, <1>8, <1>9, <1>10, <1>11, <1>12, <1>13, <1>14, <1>15, <1>16, <1>17,
       <1>18, <1>19, <1>20, <1>21, <1>22, <1>23, <1>24, <1>25, <1>26, <1>27, <1>28, <1>29

-----------------------------------------------------------------------------
(* Leaves.                                                                 *)

(* A leaf has the same type for both.                                      *)
LEMMA LeafFine ==
  ASSUME NEW a, IsLeaf(a), NEW agg, NEW exact, NEW raised
  PROVE  Fine(Leaf(a, agg), exact, raised)
PROOF
  <1> DEFINE T == Types[a.name]
  <1>1. Fine(Opaque, exact, raised)  BY DEF Fine
  <1>2. ASSUME NEW n, n.type = T, n.node # "literal", n.calls = {}, T.kind \in PortKinds
        PROVE  Fine(Typed(n, T), exact, raised)
    <2>1. T.kind \in AllKinds  BY <1>2 DEF AllKinds
    <2> HIDE DEF T
    <2>2. QED  BY <1>2, <2>1 DEF Fine, Good, Typed, Infer, Related, KindFits, IsLiteral, AllHeld
  <1>3. CASE a.tag = "id"
    <2> DEFINE c == Column(a.name, T)
    <2>1. Leaf(a, agg) = Ident(a.name, agg)  BY <1>3 DEF Leaf
    <2>2. CASE a.name \in Ports
      <3>1. T.kind \in PortKinds  BY <2>2, TypesAssumption
      <3>2. c.type = T /\ c.node # "literal" /\ c.calls = {}  BY DEF Column
      <3> HIDE DEF c
      <3>3. Fine(Typed(c, T), exact, raised)  BY <1>2, <3>1, <3>2
      <3>4. QED  BY <2>1, <1>1, <3>3 DEF Ident, When, c
    <2>3. CASE a.name \notin Ports  BY <2>1, <2>3, <1>1 DEF Ident, When
    <2>4. QED  BY <2>2, <2>3
  <1>4. CASE a.tag = "param"
    <2> DEFINE c == Parameter(a.name, T)
    <2>1. Leaf(a, agg) = When(a.name \in DOMAIN Types \ Ports, Typed(c, T))  BY <1>4 DEF Leaf
    <2>2. c.type = T /\ c.node # "literal" /\ c.calls = {}  BY DEF Parameter
    <2> HIDE DEF c
    <2>3. CASE a.name \in DOMAIN Types
      <3>1. T.kind \in PortKinds  BY <2>3, TypesAssumption
      <3>2. Fine(Typed(c, T), exact, raised)  BY <1>2, <2>2, <3>1
      <3>3. QED  BY <2>1, <1>1, <3>2 DEF When
    <2>4. CASE a.name \notin DOMAIN Types  BY <2>1, <2>4, <1>1 DEF When
    <2>5. QED  BY <2>3, <2>4
  <1>5. CASE a.tag = "literal"
    <2>1. LiteralFits(a.value, a.type) /\ a.type.kind \in AllKinds  BY <1>5 DEF IsLeaf, AllKinds
    <2>2. Leaf(a, agg) = Lit(a.value, a.type)  BY <1>5 DEF Leaf
    <2>3. QED  BY <2>1, <2>2, LiteralIsGood DEF Fine
  <1>6. CASE a.tag = "unconnected"
    <2>1. a.name \in DOMAIN Types  BY <1>6 DEF IsLeaf
    <2>2. T.kind \in AllKinds  BY <2>1, TypesAssumption DEF AllKinds
    <2>3. Leaf(a, agg) = Lit(Null, T)  BY <1>6 DEF Leaf
    <2> HIDE DEF T
    <2>4. QED  BY <2>2, <2>3, TypedNull DEF Fine
  <1>7. CASE a.tag = "count"
    <2> DEFINE as == <<>>
    <2>1. DOMAIN as = 1 .. 0  OBVIOUS
    <2>2. \A k \in DOMAIN as : FALSE  BY <2>1
    <2> HIDE DEF as
    <2>3. "count_all" \in Fixed /\ "count_all" \notin Comparisons  BY DEF Fixed, Comparisons
    <2>4. \A k \in 1 .. 0 : Taken(as[k], Takes("count_all", 0, k))  OBVIOUS
    <2>5. WellTyped(NewCall("count_all", as))  BY <2>1, <2>3, <2>4, TakenCall, 0 \in Nat
    <2>6. Fine(Call("count_all", as), exact, raised)  BY <2>2, <2>3, <2>5, FixedCall DEF Held
    <2>7. Leaf(a, agg) = When(allow /\ ~agg, Call("count_all", as))  BY <1>7 DEF Leaf, as
    <2>8. QED  BY <1>1, <2>6, <2>7 DEF When
  <1>8. CASE a.tag = "lookup"
    <2> DEFINE c == Column(a.name, T)
    <2>1. T.kind \in PortKinds  BY <1>8, TypesAssumption DEF IsLeaf
    <2>2. c.type = T /\ c.node # "literal" /\ c.calls = {}  BY DEF Column
    <2>3. Leaf(a, agg) = When(~allow, Typed(c, T))  BY <1>8 DEF Leaf
    <2> HIDE DEF c
    <2>4. Fine(Typed(c, T), exact, raised)  BY <1>2, <2>1, <2>2
    <2>5. QED  BY <1>1, <2>3, <2>4 DEF When
  <1>9. QED  BY <1>3, <1>4, <1>5, <1>6, <1>7, <1>8 DEF IsLeaf

-----------------------------------------------------------------------------
(* Operators.                                                              *)

(* The arguments of a concatenation.                                       *)
Text(t, exact, raised)  == Fine(t, exact, raised) /\ (t # Opaque => Taken(t, {"string"}))
Texts(s, exact, raised) == s \in Seq({t \in ToSet(s) : Text(t, exact, raised)})

(* Two sequences of texts, one after the other.                            *)
LEMMA TextsJoined ==
  ASSUME NEW s, NEW t, NEW exact, NEW raised, Texts(s, exact, raised), Texts(t, exact, raised)
  PROVE  \E l \in Nat : /\ DOMAIN (s \o t) = 1 .. l
                        /\ s \o t = [k \in 1 .. l |-> (s \o t)[k]]
                        /\ \A k \in 1 .. l : Text((s \o t)[k], exact, raised)
PROOF
  <1> DEFINE A == {x \in ToSet(s) : Text(x, exact, raised)}
             B == {x \in ToSet(t) : Text(x, exact, raised)}
             us == s \o t
  <1>1. s \in Seq(A) /\ t \in Seq(B)  BY DEF Texts
  <1>2. \A x \in A \cup B : Text(x, exact, raised)  OBVIOUS
  <1> HIDE DEF A, B
  <1> DEFINE C == A \cup B
  <1>3. s \in Seq(C) /\ t \in Seq(C)
    <2>1. Seq(A) \subseteq Seq(C) /\ Seq(B) \subseteq Seq(C)  OBVIOUS
    <2> HIDE DEF C
    <2>2. QED  BY <1>1, <2>1
  <1> HIDE DEF C
  <1>4. us \in Seq(C)  BY <1>3
  <1> HIDE DEF us
  <1>5. Len(us) \in Nat /\ us \in [1 .. Len(us) -> C] /\ DOMAIN us = 1 .. Len(us)  BY <1>4, LenProperties
  <1> DEFINE l == Len(us)
  <1>6. l \in Nat /\ us \in [1 .. l -> C] /\ DOMAIN us = 1 .. l  BY <1>5
  <1> HIDE DEF l
  <1>7. us = [k \in 1 .. l |-> us[k]] /\ \A k \in 1 .. l : Text(us[k], exact, raised)  BY <1>2, <1>6 DEF C
  <1>8. \E m \in Nat :
          DOMAIN us = 1 .. m /\ us = [k \in 1 .. m |-> us[k]] /\ \A k \in 1 .. m : Text(us[k], exact, raised)
    BY <1>6, <1>7
  <1>9. QED  BY <1>8 DEF us

(* A concatenation of texts is a text.                                     *)
LEMMA ConcatFine ==
  ASSUME NEW us, NEW l \in Nat, DOMAIN us = 1 .. l, NEW exact, NEW raised, \A k \in 1 .. l : Text(us[k], exact, raised)
  PROVE  Fine(Call("concat", us), exact, raised)
PROOF
  <1>1. "concat" \in Fixed /\ "concat" \notin Comparisons /\ \A k : Takes("concat", l, k) = {"string"}
    BY DEF Fixed, Comparisons, Takes, Arithmetic
  <1>2. (\A k \in DOMAIN us : us[k] # Opaque) => Held(NewCall("concat", us), exact, raised)
    BY <1>1, TakenCall DEF Held, Text
  <1>3. \A k \in DOMAIN us : Fine(us[k], exact, raised)  BY DEF Text
  <1>4. QED  BY <1>1, <1>2, <1>3, FixedCall

(* Its node has arguments that are good by what infer finds of them.       *)
LEMMA ConcatArguments ==
  ASSUME NEW us, NEW l \in Nat, us = [k \in 1 .. l |-> us[k]], NEW exact, NEW raised,
         \A k \in 1 .. l : Text(us[k], exact, raised),
         Call("concat", us) # Opaque
  PROVE  /\ IsSeq(Call("concat", us).node.args)
         /\ \A k \in DOMAIN Call("concat", us).node.args :
              LET n == Call("concat", us).node.args[k]
              IN  GoodNode(n, exact, raised) /\ (Infer(n).kind \in {"string", "unknown"} \/ IsNull(n))
PROOF
  <1>1. DOMAIN us = 1 .. l  OBVIOUS
  <1>2. Call("concat", us) = CallTyped("concat", us) /\ \A k \in DOMAIN us : us[k] # Opaque  BY CallCases
  <1> DEFINE args == [k \in 1 .. l |-> us[k].node]
  <1>3. Call("concat", us).node.args = args  BY <1>1, <1>2, CallFields
  <1>4. IsSeq(args)
    <2>1. \A k \in 1 .. l : args[k] \in ToSet(args)  BY DEF ToSet
    <2>2. args = [k \in 1 .. l |-> args[k]]  OBVIOUS
    <2> HIDE DEF args
    <2>3. args \in Seq(ToSet(args))  BY <2>1, <2>2
    <2>4. QED  BY <2>3 DEF IsSeq
  <1>5. ASSUME NEW k \in 1 .. l
        PROVE  /\ GoodNode(us[k].node, exact, raised)
               /\ Infer(us[k].node).kind \in {"string", "unknown"} \/ IsNull(us[k].node)
    <2>1. Good(us[k], exact, raised) /\ Taken(us[k], {"string"})  BY <1>1, <1>2 DEF Text, Fine
    <2>2. GoodNode(us[k].node, exact, raised)  BY <2>1 DEF Good, GoodNode, Typed, Related, KindFits, IsLiteral
    <2>3. QED  BY <2>1, <2>2 DEF Taken, Free
  <1>6. DOMAIN args = 1 .. l /\ \A k \in 1 .. l : args[k] = us[k].node  OBVIOUS
  <1> HIDE DEF args
  <1>7. QED  BY <1>3, <1>4, <1>5, <1>6

(* The parts of a concatenation are texts, also those taken out of one.    *)
LEMMA FlattenedFine ==
  ASSUME IInv, part # Opaque, NEW t, Fine(t, Exact, folded)
  PROVE  Texts(Flattened(t), Exact, folded)
PROOF
  <1>1. CASE form = "||" /\ t.node = part.node
    <2> DEFINE args == part.node.args
               us == [k \in DOMAIN args |-> Typed(args[k], Infer(args[k]))]
               S == {u \in ToSet(us) : Text(u, Exact, folded)}
    <2>1. Flattened(t) = us  BY <1>1 DEF Flattened
    <2>2. /\ args \in Seq(ToSet(args))
          /\ \A k \in DOMAIN args : /\ Good(Typed(args[k], Infer(args[k])), Exact, folded)
                                    /\ Infer(args[k]).kind \in {"string", "unknown"} \/ IsNull(args[k])
      BY <1>1 DEF IInv, GoodNode
    <2> HIDE DEF args
    <2> DEFINE n == Len(args)
    <2>3. n \in Nat /\ DOMAIN args = 1 .. n  BY <2>2, LenProperties
    <2> HIDE DEF n
    <2>4. \A k \in 1 .. n : Text(us[k], Exact, folded)
      <3> SUFFICES ASSUME NEW k \in 1 .. n  PROVE Text(us[k], Exact, folded)  OBVIOUS
      <3> DEFINE u == Typed(args[k], Infer(args[k]))
      <3>1. us[k] = u  BY <2>3
      <3>2. u.node = args[k] /\ u.type = Infer(args[k])  BY DEF Typed
      <3>3. Good(u, Exact, folded) /\ (Infer(args[k]).kind \in {"string", "unknown"} \/ IsNull(args[k]))
        BY <2>2, <2>3
      <3> HIDE DEF u, us
      <3>4. Good(u, Exact, folded) /\ Taken(u, {"string"})  BY <3>2, <3>3 DEF Good, Taken, Free
      <3>5. QED  BY <3>1, <3>4 DEF Text, Fine
    <2>5. us = [k \in 1 .. n |-> us[k]] /\ DOMAIN us = 1 .. n  BY <2>3
    <2> HIDE DEF us
    <2>6. \A k \in 1 .. n : us[k] \in S  BY <2>4, <2>5 DEF ToSet
    <2> HIDE DEF S
    <2>7. us \in Seq(S)  BY <2>3, <2>5, <2>6
    <2>8. QED  BY <2>1, <2>7 DEF Texts, S
  <1>2. CASE ~(form = "||" /\ t.node = part.node)
    <2> DEFINE x == AsStr(t)
               S == {u \in ToSet(<<x>>) : Text(u, Exact, folded)}
    <2>1. Flattened(t) = <<x>>  BY <1>2 DEF Flattened
    <2>2. Text(x, Exact, folded)  BY AsStrFine DEF Text
    <2> HIDE DEF x
    <2>3. x \in ToSet(<<x>>)
      <3> DEFINE s == <<x>>
      <3>1. 1 \in DOMAIN s /\ s[1] = x  OBVIOUS
      <3> HIDE DEF s
      <3>2. x \in ToSet(s)  BY <3>1 DEF ToSet
      <3>3. QED  BY <3>2 DEF s
    <2>4. x \in S  BY <2>2, <2>3
    <2> HIDE DEF S
    <2>5. <<x>> \in Seq(S)  BY <2>4
    <2>6. QED  BY <2>1, <2>5 DEF Texts, S
  <1>3. QED  BY <1>1, <1>2

(* Every operator.                                                         *)
LEMMA BinaryFine ==
  ASSUME IInv, part # Opaque, NEW op, NEW a, NEW b, Fine(a, Exact, folded), Fine(b, Exact, folded)
  PROVE  /\ Fine(Binary(op, a, b), Exact, folded)
         /\ op = "||" /\ Binary(op, a, b) # Opaque =>
              LET n == Binary(op, a, b).node
              IN  /\ IsSeq(n.args)
                  /\ \A k \in DOMAIN n.args :
                       /\ GoodNode(n.args[k], Exact, folded)
                       /\ Infer(n.args[k]).kind \in {"string", "unknown"} \/ IsNull(n.args[k])
PROOF
  <1>0. Fine(Opaque, Exact, folded)  BY DEF Fine
  <1>1. CASE op \in {"and", "or"}
    <2> DEFINE x == AsBool(a)
               y == AsBool(b)
    <2>1. Fine(x, Exact, folded) /\ (x # Opaque => Taken(x, {"boolean"}))  BY AsBoolFine
    <2>2. Fine(y, Exact, folded) /\ (y # Opaque => Taken(y, {"boolean"}))  BY AsBoolFine
    <2>3. Binary(op, a, b) = Call(op, <<x, y>>)  BY <1>1 DEF Binary
    <2> HIDE DEF x, y
    <2>4. op \in Fixed /\ op \notin Comparisons /\ \A k : Takes(op, 2, k) = {"boolean"}
      BY <1>1 DEF Fixed, Comparisons, Takes, Arithmetic
    <2>5. Fine(Call(op, <<x, y>>), Exact, folded)  BY <2>1, <2>2, <2>4, TakenTwo
    <2>6. QED  BY <1>1, <2>3, <2>5
  <1>2. CASE op \in Arithmetic
    <2> DEFINE x == AsNum(a)
               y == AsNum(b)
    <2>1. Fine(x, Exact, folded) /\ (x # Opaque => Taken(x, Numeric))  BY AsNumFine
    <2>2. Fine(y, Exact, folded) /\ (y # Opaque => Taken(y, Numeric))  BY AsNumFine
    <2>3. Binary(op, a, b) \in {Call(op, <<x, y>>), Opaque} /\ op # "||"
      BY <1>2 DEF Binary, When, Arithmetic, Comparisons
    <2> HIDE DEF x, y
    <2>4. Fine(Call(op, <<x, y>>), Exact, folded)  BY <1>2, <2>1, <2>2, ArithmeticCall
    <2>5. QED  BY <1>0, <2>3, <2>4
  <1>3. CASE op = "||"
    <2> DEFINE us == Flattened(a) \o Flattened(b)
    <2>1. Texts(Flattened(a), Exact, folded) /\ Texts(Flattened(b), Exact, folded)  BY FlattenedFine
    <2>2. PICK l \in Nat : /\ DOMAIN us = 1 .. l
                           /\ us = [k \in 1 .. l |-> us[k]]
                           /\ \A k \in 1 .. l : Text(us[k], Exact, folded)
      BY <2>1, TextsJoined
    <2>3. Binary(op, a, b) \in {Call("concat", us), Opaque}
      BY <1>3 DEF Binary, When, Arithmetic, Comparisons
    <2> HIDE DEF us
    <2>4. Fine(Call("concat", us), Exact, folded)  BY <2>2, ConcatFine
    <2>5. CASE Binary(op, a, b) = Opaque  BY <1>0, <2>5
    <2>6. CASE Binary(op, a, b) # Opaque
      <3> DEFINE t == Call("concat", us)
      <3>1. Binary(op, a, b) = t /\ t # Opaque  BY <2>3, <2>6
      <3>2. /\ IsSeq(t.node.args)
            /\ \A k \in DOMAIN t.node.args :
                 LET n == t.node.args[k]
                 IN  GoodNode(n, Exact, folded) /\ (Infer(n).kind \in {"string", "unknown"} \/ IsNull(n))
        BY <2>2, <3>1, ConcatArguments
      <3>3. Fine(t, Exact, folded)  BY <2>4
      <3> HIDE DEF t
      <3>4. QED  BY <3>1, <3>2, <3>3
    <2>7. QED  BY <2>5, <2>6
  <1>4. CASE op \in Comparisons
    <2> DEFINE t == Call(op, Comparable(a, b))
    <2>1. Fine(t, Exact, folded)  BY <1>4, ComparableCall
    <2>2. Binary(op, a, b) \in {t, Opaque} /\ op # "||"
      BY <1>4 DEF Binary, When, Arithmetic, Comparisons
    <2>3. QED  BY <1>0, <2>1, <2>2
  <1>5. CASE op \notin {"and", "or", "||"} /\ op \notin Arithmetic /\ op \notin Comparisons
    <2>1. Binary(op, a, b) = Opaque  BY <1>5 DEF Binary, When
    <2>2. QED  BY <1>0, <1>5, <2>1
  <1>6. QED  BY <1>1, <1>2, <1>3, <1>4, <1>5

-----------------------------------------------------------------------------
(* Aggregates: in a group the two types of a part are the same, for no     *)
(* variable port is read back there.                                       *)

(* SUM and AVG of what has one type have one type.                         *)
LEMMA SameResult ==
  ASSUME NEW f \in {"sum", "avg"}, NEW a, NEW raised, Good(a, TRUE, raised)
  PROVE  /\ Declared(f, <<a>>).kind = Inferred(f, <<a>>).kind
         /\ Declared(f, <<a>>).kind \in AllKinds
PROOF
  <1> DEFINE as == <<a>>
             ts == [k \in DOMAIN as |-> as[k].type]
             us == [k \in DOMAIN as |-> Infer(as[k].node)]
  <1>1. ts[1] = a.type /\ us[1] = Infer(a.node)
    <2>1. 1 \in DOMAIN as /\ as[1] = a  OBVIOUS
    <2> HIDE DEF as
    <2>2. QED  BY <2>1
  <1>2. Declared(f, as) = ResultType(f, ts) /\ Inferred(f, as) = ResultType(f, us)
    BY DEF Declared, Inferred
  <1>3. a.type.kind = Infer(a.node).kind /\ a.type.kind \in AllKinds  BY DEF Good
  <1> HIDE DEF as, ts, us
  <1>4. ts[1].kind = us[1].kind /\ ts[1].kind \in AllKinds  BY <1>1, <1>3
  <1>5. CASE f = "sum"
    <2>1. /\ ResultType(f, ts) = IF ts[1].kind \in Integral THEN Type("bigint") ELSE ts[1]
          /\ ResultType(f, us) = IF us[1].kind \in Integral THEN Type("bigint") ELSE us[1]
      BY <1>5 DEF ResultType, Comparisons
    <2>2. Type("bigint").kind = "bigint" /\ "bigint" \in AllKinds
      BY DEF Type, AllKinds, PortKinds, Numeric, Integral
    <2>3. QED  BY <1>2, <1>4, <2>1, <2>2 DEF as
  <1>6. CASE f = "avg"
    <2> DEFINE k == IF ts[1].kind = "decimal" THEN "decimal" ELSE "double"
    <2>1. ResultType(f, ts) = Type(k) /\ ResultType(f, us) = Type(k)
      BY <1>4, <1>6 DEF ResultType, Comparisons
    <2>2. Type(k).kind = k /\ k \in AllKinds
      BY DEF Type, AllKinds, PortKinds, Numeric, Fractional
    <2>3. QED  BY <1>2, <2>1, <2>2 DEF as
  <1>7. QED  BY <1>5, <1>6

(* An aggregate of what has the same type for both has it too.             *)
LEMMA AggregateFine ==
  ASSUME NEW f \in Aggregates \ {"count_all"}, NEW t, NEW exact, NEW raised,
         allow => Fine(t, TRUE, raised)
  PROVE  Fine(AggregateOf(f, t), exact, raised)
PROOF
  <1> DEFINE x == IF f \in {"sum", "avg"} THEN AsNum(t) ELSE t
  <1>0. Fine(Opaque, exact, raised)  BY DEF Fine
  <1>1. AggregateOf(f, t) \in {Call(f, <<x>>), Opaque} /\ (~allow => AggregateOf(f, t) = Opaque)
    BY DEF AggregateOf, When
  <1>2. CASE ~allow  BY <1>0, <1>1, <1>2
  <1>3. CASE allow
    <2>1. Fine(t, TRUE, raised)  BY <1>3
    <2>2. Fine(x, TRUE, raised) /\ (f \in {"sum", "avg"} /\ x # Opaque => Taken(x, Numeric))
      BY <2>1, AsNumFine
    <2>3. f \notin {"sum", "avg"} => f \in {"min", "max", "count"}  BY DEF Aggregates
    <2> HIDE DEF x
    <2>4. Fine(Call(f, <<x>>), TRUE, raised)
      <3>1. CASE f \in {"min", "max", "count"}
        <4>1. f \in Fixed \cup LikeFirst /\ f \notin Comparisons /\ Takes(f, 1, 1) = PortKinds \cup {"boolean"}
          BY <3>1 DEF Fixed, LikeFirst, Comparisons, Takes, Arithmetic
        <4>2. x # Opaque => Comparand(x)  BY <2>2, GoodIsTaken DEF Fine
        <4>3. QED  BY <2>2, <4>1, <4>2, TakenOne DEF Comparand
      <3>2. CASE f \in {"sum", "avg"}
        <4> DEFINE as == <<x>>
        <4>1. DOMAIN as = 1 .. 1 /\ as[1] = x /\ 1 \in DOMAIN as  OBVIOUS
        <4>2. CASE x = Opaque
          <5>1. \E k \in DOMAIN as : as[k] = Opaque  BY <4>1, <4>2
          <5> HIDE DEF as
          <5>2. Call(f, as) = Opaque  BY <5>1, CallCases
          <5>3. QED  BY <5>2 DEF as, Fine
        <4>3. CASE x # Opaque
          <5>1. Good(x, TRUE, raised) /\ Taken(x, Numeric)  BY <2>2, <3>2, <4>3 DEF Fine
          <5>2. Declared(f, as).kind = Inferred(f, as).kind /\ Declared(f, as).kind \in AllKinds
            BY <3>2, <5>1, SameResult
          <5> HIDE DEF as
          <5>3. \A k \in DOMAIN as : k = 1  BY <4>1
          <5>4. \A k \in DOMAIN as : as[k] # Opaque /\ Good(as[k], TRUE, raised)  BY <4>1, <4>3, <5>1, <5>3
          <5>5. f \notin Comparisons /\ Takes(f, 1, 1) = Numeric  BY <3>2 DEF Comparisons, Takes
          <5>6. Held(NewCall(f, as), TRUE, raised)
            <6>1. \A k \in 1 .. 1 : Taken(as[k], Takes(f, 1, k))  BY <4>1, <5>1, <5>3, <5>5
            <6>2. QED  BY <4>1, <5>5, <6>1, TakenCall, 1 \in Nat DEF Held
          <5>7. Related(CallTyped(f, as))
            <6>1. CallTyped(f, as).type = Declared(f, as) /\ Infer(CallTyped(f, as).node) = Inferred(f, as)
              BY CallFields
            <6>2. QED  BY <5>2, <6>1 DEF Related, KindFits
          <5>8. Good(CallTyped(f, as), TRUE, raised)  BY <5>2, <5>4, <5>6, <5>7, CallIsGood
          <5>9. Call(f, as) = CallTyped(f, as)  BY <5>4, CallCases
          <5>10. QED  BY <5>8, <5>9 DEF Fine, as
        <4>4. QED  BY <4>2, <4>3
      <3>3. QED  BY <2>3, <3>1, <3>2
    <2>5. Fine(Call(f, <<x>>), exact, raised)  BY <2>4 DEF Fine, Good, AllHeld, Held
    <2>6. QED  BY <1>0, <1>1, <2>5
  <1>4. QED  BY <1>2, <1>3

-----------------------------------------------------------------------------
(* What becomes of a value.                                                *)

(* A node may get another type that differs no more than it may.           *)
LEMMA RetypedIsGood ==
  ASSUME NEW n, NEW T, NEW exact, NEW raised, T.kind \in AllKinds, Infer(n).kind \in AllKinds,
         KindFits(Infer(n).kind, T.kind),
         exact => Infer(n).kind = T.kind,
         n.node = "literal" => LiteralFits(n.value, n.type),
         AllHeld(n, exact, raised)
  PROVE  Good(Typed(n, T), exact, raised)
  BY DEF Good, Typed, Related, IsLiteral

LEMMA CallIsCall ==
  ASSUME NEW f, NEW as
  PROVE  CallTyped(f, as).node.node = "call"
  BY CallFields

(* The text of a number as the node of a port.                             *)
LEMMA TextPort ==
  ASSUME NEW t, NEW exact, NEW raised, Good(t, exact, raised), t # Opaque,
         t.type.kind \in Integral \cup {"decimal"}, NEW T, T.kind = "string"
  PROVE  Good(Typed(CallOf("to_string", <<t.node>>), T), exact, raised)
PROOF
  <1> DEFINE as == <<t>>
             n == CallTyped("to_string", as).node
  <1>1. DOMAIN as = {1} /\ as[1] = t  OBVIOUS
  <1>2. <<t.node>> = [k \in DOMAIN as |-> as[k].node]
    <2> DEFINE ns == <<t.node>>
    <2>1. ns = [k \in 1 .. 1 |-> ns[k]] /\ ns[1] = t.node /\ DOMAIN as = 1 .. 1  OBVIOUS
    <2> HIDE DEF ns, as
    <2>2. \A k \in 1 .. 1 : ns[k] = as[k].node
      <3>1. \A k \in 1 .. 1 : k = 1  OBVIOUS
      <3>2. QED  BY <1>1, <2>1, <3>1
    <2>3. QED  BY <2>1, <2>2 DEF ns
  <1> HIDE DEF as
  <1>3. n = CallOf("to_string", <<t.node>>)  BY <1>2 DEF CallTyped, Typed
  <1>4. Call("to_string", as) = CallTyped("to_string", as)  BY <1>1, CallCases
  <1>5. /\ Fine(Call("to_string", as), exact, raised)
        /\ CallTyped("to_string", as).node.node = "call"
    <2>1. Fine(Call("to_string", <<t>>), exact, raised)  BY TextIsFine, Zenon
    <2>2. CallTyped("to_string", as).node.node = "call"  BY CallIsCall, Zenon
    <2>3. QED  BY <2>1, <2>2 DEF as
  <1>6. CallTyped("to_string", as) # Opaque
    <2>1. Opaque.node.node = "opaque"  BY DEF Opaque, Typed, OpaqueNode
    <2>2. QED  BY <1>5, <2>1
  <1>7. Good(CallTyped("to_string", as), exact, raised)  BY <1>4, <1>5, <1>6 DEF Fine
  <1>8. Infer(n).kind = "string"  BY <1>4, <1>6, CallOfText
  <1>9. n.node # "literal" /\ AllHeld(n, exact, raised)  BY <1>5, <1>7 DEF Good
  <1> HIDE DEF n
  <1>10. Good(Typed(n, T), exact, raised)
    <2>1. "string" \in AllKinds  BY DEF AllKinds, PortKinds
    <2>2. KindFits(Infer(n).kind, T.kind) /\ Infer(n).kind = T.kind  BY <1>8 DEF KindFits
    <2>3. QED  BY <1>8, <1>9, <2>1, <2>2, RetypedIsGood
  <1>11. QED  BY <1>3, <1>10

(* The value of a port: convert leaves, casts or refuses.  The type of the *)
(* port is as exact as that of the value, if this has one.                 *)
LEMMA ConvertedIsGood ==
  ASSUME NEW t, NEW exact, NEW raised, Good(t, exact, raised), t # Opaque,
         NEW target, target.kind \in PortKinds,
         exact => t.type.kind # "unknown"
  PROVE  Fine(Converted(t, target), exact, raised)
PROOF
  <1> DEFINE src == t.type.kind
             n == Convert(t, target)
  <1>0. target.kind \in AllKinds /\ target.kind # "unknown"
    BY DEF AllKinds, PortKinds, Numeric, Integral, Fractional
  <1> SUFFICES ASSUME n # OpaqueNode  PROVE Good(Typed(n, target), exact, raised)
    BY DEF Converted, Fine
  <1>1. CASE src = "unknown" \/ (src = target.kind /\ src # "decimal") \/ t.type = target
    <2>1. n = t.node  BY <1>1 DEF Convert
    <2>2. /\ Infer(t.node).kind \in AllKinds /\ Related(t) /\ AllHeld(t.node, exact, raised)
          /\ t.node.node = "literal" => LiteralFits(t.node.value, t.node.type)
          /\ exact => Infer(t.node).kind = src /\ src = target.kind
      BY <1>1 DEF Good, IsLiteral
    <2>3. KindFits(Infer(t.node).kind, target.kind)
      BY <1>1, <2>2 DEF Related, KindFits, Numeric, Integral, Fractional
    <2> HIDE DEF n
    <2>4. Good(Typed(t.node, target), exact, raised)  BY <1>0, <2>2, <2>3, RetypedIsGood
    <2>5. QED  BY <2>1, <2>4
  <1>2. CASE /\ ~(src = "unknown" \/ (src = target.kind /\ src # "decimal") \/ t.type = target)
             /\ src \in Numeric \cup {"boolean"} /\ target.kind \in Numeric
    <2>1. n = Cast(target, t.node)  BY <1>2 DEF Convert
    <2>2. Taken(t, Numeric \cup {"boolean"})
      BY <1>2 DEF Good, Related, KindFits, Taken, Free, Numeric, Integral, Fractional
    <2> HIDE DEF n
    <2>3. Good(Typed(Cast(target, t.node), target), exact, raised)  BY <1>0, <2>2, CastIsGood
    <2>4. QED  BY <2>1, <2>3
  <1>3. CASE /\ ~(src = "unknown" \/ (src = target.kind /\ src # "decimal") \/ t.type = target)
             /\ ~(src \in Numeric \cup {"boolean"} /\ target.kind \in Numeric)
             /\ target.kind = "string" /\ (Whole(t.type) \/ src = "decimal")
    <2>1. n = CallOf("to_string", <<t.node>>)  BY <1>3 DEF Convert
    <2>2. t.type.kind \in Integral \cup {"decimal"}  BY <1>3 DEF Whole
    <2> HIDE DEF n
    <2>3. Good(Typed(CallOf("to_string", <<t.node>>), target), exact, raised)  BY <1>3, <2>2, TextPort
    <2>4. QED  BY <2>1, <2>3
  <1>4. CASE /\ ~(src = "unknown" \/ (src = target.kind /\ src # "decimal") \/ t.type = target)
             /\ ~(src \in Numeric \cup {"boolean"} /\ target.kind \in Numeric)
             /\ ~(target.kind = "string" /\ (Whole(t.type) \/ src = "decimal"))
    <2> DEFINE u == Typed(Cast(Type("integer"), t.node), Type("integer"))
    <2>1. /\ target.kind = "string" /\ src = "boolean"
          /\ n = CallOf("to_string", <<Cast(Type("integer"), t.node)>>)
      BY <1>4 DEF Convert
    <2>2. Taken(t, Numeric \cup {"boolean"})
      BY <2>1 DEF Good, Related, KindFits, Taken, Free, Numeric, Integral, Fractional
    <2>3. Type("integer").kind \in AllKinds /\ Type("integer").kind \in Integral
      BY DEF Type, AllKinds, PortKinds, Numeric, Integral
    <2>4. Good(u, exact, raised)  BY <2>2, <2>3, CastIsGood
    <2>5. u.node = Cast(Type("integer"), t.node) /\ u.type = Type("integer") /\ u.node.node = "cast"
      BY DEF Typed, Cast
    <2>6. u # Opaque  BY <2>5 DEF Opaque, Typed, OpaqueNode
    <2> HIDE DEF u, n
    <2>7. Good(Typed(CallOf("to_string", <<u.node>>), target), exact, raised)
      BY <2>1, <2>3, <2>4, <2>5, <2>6, TextPort
    <2>8. QED  BY <2>1, <2>5, <2>7
  <1>5. QED  BY <1>1, <1>2, <1>3, <1>4

-----------------------------------------------------------------------------
(* The invariant.                                                          *)

(* What is exact is good enough where exactness is not asked for, and what *)
(* is held without NULL in upper case is held with it.                     *)
LEMMA Weaken ==
  ASSUME NEW t, NEW e1, NEW r1, NEW e2, NEW r2, e2 => e1, r1 => r2, Fine(t, e1, r1)
  PROVE  Fine(t, e2, r2) /\ (t # Opaque => AllHeld(t.node, e2, r2))
  BY DEF Fine, Good, AllHeld, Held

(* A value without a type is the value of the port as it is.               *)
LEMMA ConvertedFine ==
  ASSUME NEW t, NEW exact, NEW raised, Good(t, exact, raised), t # Opaque,
         NEW target, target.kind \in PortKinds
  PROVE  /\ Fine(Converted(t, target), exact /\ t.type.kind # "unknown", raised)
         /\ Converted(t, target) # Opaque => AllHeld(Converted(t, target).node, exact, raised)
PROOF
  <1> DEFINE e == exact /\ t.type.kind # "unknown"
  <1>1. Good(t, e, raised)  BY DEF Good, AllHeld, Held
  <1>2. e => t.type.kind # "unknown"  OBVIOUS
  <1>3. t.type.kind # "unknown" => (e <=> exact)  OBVIOUS
  <1> HIDE DEF e
  <1>4. Fine(Converted(t, target), e, raised)  BY <1>1, <1>2, ConvertedIsGood
  <1>5. ASSUME Converted(t, target) # Opaque  PROVE AllHeld(Converted(t, target).node, exact, raised)
    <2>1. CASE t.type.kind = "unknown"
      <3>1. Converted(t, target).node = t.node  BY <1>5, <2>1 DEF Converted, Convert, Typed
      <3>2. QED  BY <3>1 DEF Good
    <2>2. CASE t.type.kind # "unknown"
      <3>1. Fine(Converted(t, target), exact, raised)  BY <1>3, <1>4, <2>2, Weaken
      <3>2. QED  BY <1>5, <3>1 DEF Fine, Good
    <2>3. QED  BY <2>1, <2>2
  <1>6. QED  BY <1>4, <1>5 DEF e

(* The part and the leaves around it.                                      *)
LEMMA ArgumentsFine ==
  ASSUME NEW exact, NEW raised, Fine(part, exact, raised), NEW w \in Wraps
  PROVE  /\ Len(w.args) \in Nat
         /\ Len(ArgumentsOf(w)) = Len(w.args)
         /\ w.form = "op" => Len(w.args) = 2
         /\ \A k \in 1 .. Len(w.args) : Fine(ArgumentsOf(w)[k], exact, raised)
PROOF
  <1> DEFINE args == w.args
             as   == [k \in DOMAIN args |-> IF args[k] = Hole THEN part ELSE Leaf(args[k], inAgg)]
  <1>1. /\ args \in Seq(ToSet(args))
        /\ w.form = "op" => Len(args) = 2
        /\ \A a \in ToSet(args) : a = Hole \/ IsLeaf(a)
    BY LeavesAssumption
  <1>2. ArgumentsOf(w) = as  BY DEF ArgumentsOf
  <1> HIDE DEF args
  <1>3. Len(args) \in Nat /\ DOMAIN args = 1 .. Len(args)  BY <1>1
  <1>4. Len(as) = Len(args)
    <2>1. PICK m \in Nat : m = Len(args)  BY <1>3
    <2>2. as = [k \in 1 .. m |-> as[k]]  BY <1>3, <2>1
    <2> HIDE DEF as
    <2>3. Len([k \in 1 .. m |-> as[k]]) = m  OBVIOUS
    <2>4. QED  BY <2>1, <2>2, <2>3
  <1>5. ASSUME NEW k \in 1 .. Len(args)  PROVE Fine(as[k], exact, raised)
    <2>1. as[k] = IF args[k] = Hole THEN part ELSE Leaf(args[k], inAgg)  BY <1>3
    <2>2. args[k] \in ToSet(args)  BY <1>3 DEF ToSet
    <2>3. CASE args[k] = Hole  BY <2>1, <2>3
    <2>4. CASE args[k] # Hole
      <3>1. IsLeaf(args[k])  BY <1>1, <2>2, <2>4
      <3>2. as[k] = Leaf(args[k], inAgg)  BY <2>1, <2>4
      <3> HIDE DEF as
      <3>3. QED  BY <3>1, <3>2, LeafFine
    <2>5. QED  BY <2>3, <2>4
  <1> HIDE DEF as
  <1>6. QED  BY <1>1, <1>2, <1>3, <1>4, <1>5 DEF args

(* A step that goes on and leaves no || behind keeps the invariant if what *)
(* it makes is fine.                                                       *)
LEMMA StepKeeps ==
  ASSUME NEW t, NEW f, f # "||", Step(t, f), (allow => Exact)', Fine(t, Exact', folded')
  PROVE  IInv'
PROOF
  <1>1. part' = t /\ form' = f  BY DEF Step
  <1>2. Fine(part, Exact, folded)'  BY <1>1 DEF Fine, Good, Related, KindFits, AllHeld, Held
  <1>3. (part # Opaque => AllHeld(part.node, Exact, folded))'
    BY <1>1 DEF Fine, Good, AllHeld, Held
  <1>4. QED  BY <1>1, <1>2, <1>3 DEF IInv

(* The last one only has to make calls that are held.                      *)
LEMMA LastStepKeeps ==
  ASSUME NEW t, NEW f, f # "||", Step(t, f), (allow => Exact)', stage' # "part",
         t # Opaque => AllHeld(t.node, Exact', folded')
  PROVE  IInv'
PROOF
  <1>1. part' = t /\ form' = f  BY DEF Step
  <1>2. (part # Opaque => AllHeld(part.node, Exact, folded))'  BY <1>1 DEF AllHeld, Held
  <1>3. QED  BY <1>1, <1>2 DEF IInv

(* The first part is a leaf.                                               *)
LEMMA StartsFine == Init => IInv
PROOF
  <1> SUFFICES ASSUME Init  PROVE IInv
    OBVIOUS
  <1>1. PICK a \in Leaves : part = Leaf(a, inAgg)  BY DEF Init
  <1>2. IsLeaf(a)  BY LeavesAssumption
  <1>3. Fine(part, Exact, folded)  BY <1>1, <1>2, LeafFine
  <1>4. form # "||" /\ Exact  BY DEF Init, Exact
  <1>5. QED  BY <1>3, <1>4 DEF IInv, Fine, Good

(* What is fine stays so while the flags do not change.                    *)
LEMMA Carried ==
  ASSUME NEW t, Fine(t, Exact, folded), UNCHANGED <<untyped, folded>>
  PROVE  /\ Fine(t, Exact', folded')
         /\ t # Opaque => AllHeld(t.node, Exact', folded')
PROOF
  <1>1. (Exact' => Exact) /\ (folded => folded')  BY DEF Exact
  <1>2. Fine(t, Exact', folded') /\ (t # Opaque => AllHeld(t.node, Exact', folded'))
    BY <1>1 DEF Fine, Good, AllHeld, Held
  <1>3. QED  BY <1>2

(* Each step keeps the invariant.                                          *)
LEMMA StaysFine == IInv /\ [Next]_vars => IInv'
PROOF
  <1> SUFFICES ASSUME IInv, [Next]_vars  PROVE IInv'
    OBVIOUS
  <1>0. ASSUME NEW t, NEW f, Step(t, f)
        PROVE  Fine(part, Exact, folded) /\ part # Opaque /\ stage = "part" /\ UNCHANGED allow
    BY <1>0 DEF Step, IInv
  <1>1. UNCHANGED <<allow, untyped, folded>> =>
          (Exact' <=> Exact) /\ (folded' <=> folded) /\ (allow => Exact)'
    BY DEF IInv, Exact
  <1>2. CASE NotOf
    <2> DEFINE t == Call("not", <<AsBool(part)>>)
    <2>1. Step(t, "not") /\ UNCHANGED <<untyped, folded>>  BY <1>2 DEF NotOf
    <2>2. Fine(t, Exact, folded)
      <3>1. "not" \notin Comparisons /\ "not" \in Fixed /\ Takes("not", 1, 1) = {"boolean"}
        BY DEF Comparisons, Fixed, Takes, Arithmetic
      <3>2. Fine(AsBool(part), Exact, folded) /\ (AsBool(part) # Opaque => Taken(AsBool(part), {"boolean"}))
        BY <1>0, <2>1, AsBoolFine
      <3>3. QED  BY <3>1, <3>2, TakenOne
    <2> HIDE DEF t
    <2>3. Fine(t, Exact', folded')  BY <2>1, <2>2, Carried
    <2>4. (allow => Exact)'  BY <1>0, <1>1, <2>1
    <2>5. QED  BY <2>1, <2>3, <2>4, StepKeeps
  <1>3. CASE Negate
    <2> DEFINE t == Negated(part)
    <2>1. Step(t, "") /\ UNCHANGED <<untyped, folded>>  BY <1>3 DEF Negate
    <2>2. Fine(t, Exact, folded)  BY <1>0, <2>1, NegatedFine
    <2> HIDE DEF t
    <2>3. Fine(t, Exact', folded')  BY <2>1, <2>2, Carried
    <2>4. (allow => Exact)'  BY <1>0, <1>1, <2>1
    <2>5. QED  BY <2>1, <2>3, <2>4, StepKeeps
  <1>4. CASE Parenthesise
    <2>1. Step(part, "") /\ UNCHANGED <<untyped, folded>>  BY <1>4 DEF Parenthesise
    <2>2. Fine(part, Exact, folded)  BY <1>0, <2>1
    <2>3. Fine(part, Exact', folded')  BY <2>1, <2>2, Carried
    <2>4. (allow => Exact)'  BY <1>0, <1>1, <2>1
    <2>5. QED  BY <2>1, <2>3, <2>4, StepKeeps
  <1>5. ASSUME NEW w \in Wraps, ApplyOperator(w)  PROVE IInv'
    <2> DEFINE as == ArgumentsOf(w)
               t  == Binary(w.name, as[1], as[2])
    <2>1. /\ w.form = "op" /\ part # Opaque
          /\ Step(t, IF w.name = "||" THEN "||" ELSE "")
          /\ UNCHANGED <<untyped, folded>>
      BY <1>5 DEF ApplyOperator, Step
    <2>2. Fine(as[1], Exact, folded) /\ Fine(as[2], Exact, folded)
      <3>1. Len(w.args) = 2 /\ \A k \in 1 .. Len(w.args) : Fine(as[k], Exact, folded)
        BY <1>0, <2>1, ArgumentsFine
      <3>2. 1 \in 1 .. 2 /\ 2 \in 1 .. 2  OBVIOUS
      <3> HIDE DEF as
      <3>3. QED  BY <3>1, <3>2
    <2>3. /\ Fine(t, Exact, folded)
          /\ w.name = "||" /\ t # Opaque =>
               /\ IsSeq(t.node.args)
               /\ \A k \in DOMAIN t.node.args :
                    /\ GoodNode(t.node.args[k], Exact, folded)
                    /\ Infer(t.node.args[k]).kind \in {"string", "unknown"} \/ IsNull(t.node.args[k])
      BY <2>1, <2>2, BinaryFine
    <2> HIDE DEF t
    <2>4. /\ (allow => Exact)' /\ (Exact' <=> Exact) /\ (folded' <=> folded)
          /\ Fine(t, Exact', folded') /\ (t # Opaque => AllHeld(t.node, Exact', folded'))
      <3>1. Fine(t, Exact', folded') /\ (t # Opaque => AllHeld(t.node, Exact', folded'))
        BY <2>1, <2>3, Carried
      <3>2. (allow => Exact)' /\ (Exact' <=> Exact) /\ (folded' <=> folded)  BY <1>0, <1>1, <2>1
      <3>3. QED  BY <3>1, <3>2
    <2>5. CASE w.name # "||"
      <3>1. Step(t, "")  BY <2>1, <2>5
      <3>2. QED  BY <2>4, <3>1, StepKeeps
    <2>6. CASE w.name = "||"
      <3>1. part' = t  BY <2>1 DEF Step
      <3>2. Fine(part, Exact, folded)'  BY <2>4, <3>1 DEF Fine, Good, Related, KindFits, AllHeld, Held
      <3>3. (part # Opaque => AllHeld(part.node, Exact, folded))'  BY <2>4, <3>1 DEF AllHeld, Held
      <3>4. (part # Opaque =>
               /\ part.node.args \in Seq(ToSet(part.node.args))
               /\ \A k \in DOMAIN part.node.args :
                    LET n == part.node.args[k]
                    IN  GoodNode(n, Exact, folded) /\ (Infer(n).kind \in {"string", "unknown"} \/ IsNull(n)))'
        BY <2>3, <2>4, <2>6, <3>1 DEF IsSeq, GoodNode, Good, Related, AllHeld, Held
      <3>5. QED  BY <2>4, <3>2, <3>3, <3>4 DEF IInv
    <2>7. QED  BY <2>5, <2>6
  <1>6. ASSUME NEW w \in Wraps, ApplyFunction(w)  PROVE IInv'
    <2> DEFINE as == ArgumentsOf(w)
               t  == Function(w.name, as)
    <2>1. /\ Step(t, "") /\ UNCHANGED untyped
          /\ folded' = (folded \/ (w.name = "IN" /\ Folds(as) /\ IsNullLiteral(as[1])))
      BY <1>6 DEF ApplyFunction
    <2>2. Fine(part, Exact, folded')
      <3>1. Fine(part, Exact, folded) /\ (folded => folded')  BY <1>0, <2>1
      <3>2. QED  BY <3>1 DEF Fine, Good, AllHeld, Held
    <2>3. PICK L \in Nat : L = Len(w.args)  BY <2>2, ArgumentsFine
    <2>4. Len(as) = L /\ \A k \in 1 .. L : Fine(as[k], Exact, folded')  BY <2>2, <2>3, ArgumentsFine
    <2>5. w.name = "IN" /\ Folds(as) /\ IsNullLiteral(as[1]) => folded'  BY <2>1
    <2>6. Fine(t, Exact, folded')
      <3> HIDE DEF as
      <3>1. Fine(Function(w.name, as), Exact, folded')  BY <2>4, <2>5, FunctionFine, Zenon
      <3>2. QED  BY <3>1
    <2> HIDE DEF t
    <2>7. (Exact' <=> Exact) /\ (allow => Exact)'  BY <1>0, <2>1 DEF IInv, Exact
    <2>8. Fine(t, Exact', folded')  BY <2>6, <2>7, Weaken
    <2>9. QED  BY <2>1, <2>7, <2>8, StepKeeps
  <1>7. ASSUME NEW f \in Aggregates \ {"count_all"}, ApplyAggregate(f)  PROVE IInv'
    <2> DEFINE t == AggregateOf(f, part)
    <2>1. Step(t, "") /\ UNCHANGED <<untyped, folded>>  BY <1>7 DEF ApplyAggregate
    <2>2. allow => Exact  BY DEF IInv
    <2>3. allow => Fine(part, TRUE, folded)  BY <1>0, <2>1, <2>2, Weaken
    <2>4. Fine(t, Exact, folded)  BY <2>3, AggregateFine
    <2> HIDE DEF t
    <2>5. Fine(t, Exact', folded')  BY <2>1, <2>4, Carried
    <2>6. (allow => Exact)'  BY <1>0, <1>1, <2>1
    <2>7. QED  BY <2>1, <2>5, <2>6, StepKeeps
  <1>8. ASSUME NEW target \in TargetTypes, NEW f, Step(Converted(part, target), f)
        PROVE  /\ Fine(Converted(part, target), Exact /\ part.type.kind # "unknown", folded)
               /\ Converted(part, target) # Opaque => AllHeld(Converted(part, target).node, Exact, folded)
    <2>1. Good(part, Exact, folded) /\ part # Opaque  BY <1>0, <1>8 DEF Fine
    <2>2. target.kind \in PortKinds  BY TypesAssumption
    <2>3. QED  BY <2>1, <2>2, ConvertedFine
  <1>9. ASSUME NEW target \in TargetTypes, AssignVariable(target)  PROVE IInv'
    <2> DEFINE t == Converted(part, target)
    <2>1. /\ Step(t, "") /\ UNCHANGED folded /\ ~allow
          /\ untyped' = (untyped \/ part.type.kind = "unknown")
      BY <1>9 DEF AssignVariable
    <2>2. Fine(t, Exact /\ part.type.kind # "unknown", folded)  BY <1>8, <2>1
    <2>3. (Exact' => Exact /\ part.type.kind # "unknown") /\ (folded => folded') /\ (allow => Exact)'
      BY <1>0, <2>1 DEF Exact
    <2> HIDE DEF t
    <2>4. Fine(t, Exact', folded')  BY <2>2, <2>3 DEF Fine, Good, AllHeld, Held
    <2>5. QED  BY <2>1, <2>3, <2>4, StepKeeps
  <1>10. ASSUME NEW target \in TargetTypes, AssignPort(target)  PROVE IInv'
    <2> DEFINE t == Converted(part, target)
    <2>1. Step(t, "") /\ UNCHANGED <<untyped, folded>> /\ stage' = "port"  BY <1>10 DEF AssignPort
    <2>2. t # Opaque => AllHeld(t.node, Exact, folded)  BY <1>8, <2>1
    <2> HIDE DEF t
    <2>3. (t # Opaque => AllHeld(t.node, Exact', folded')) /\ (allow => Exact)'
      BY <1>0, <1>1, <2>1, <2>2 DEF AllHeld, Held
    <2>4. QED  BY <2>1, <2>3, LastStepKeeps
  <1>11. CASE UseAsCondition
    <2> DEFINE t == AsBool(part)
    <2>1. Step(t, "") /\ UNCHANGED <<untyped, folded>>  BY <1>11 DEF UseAsCondition
    <2>2. Fine(t, Exact, folded)  BY <1>0, <2>1, AsBoolFine
    <2> HIDE DEF t
    <2>3. Fine(t, Exact', folded')  BY <2>1, <2>2, Carried
    <2>4. (allow => Exact)'  BY <1>0, <1>1, <2>1
    <2>5. QED  BY <2>1, <2>3, <2>4, StepKeeps
  <1>12. CASE UNCHANGED vars
    <2>1. part' = part /\ form' = form /\ stage' = stage /\ UNCHANGED <<allow, untyped, folded>>
      BY <1>12 DEF vars
    <2>2. (Exact' <=> Exact) /\ (folded' <=> folded) /\ (allow => Exact)'  BY <1>1, <2>1
    <2>3. (stage = "part" => Fine(part, Exact, folded))'
      BY <2>1, <2>2 DEF IInv, Fine, Good, Related, AllHeld, Held
    <2>4. (part # Opaque => AllHeld(part.node, Exact, folded))'
      BY <2>1, <2>2 DEF IInv, AllHeld, Held
    <2>5. QED  BY <2>1, <2>2, <2>3, <2>4 DEF IInv, GoodNode, Good, Related, AllHeld, Held
  <1>13. QED
    BY <1>2, <1>3, <1>4, <1>5, <1>6, <1>7, <1>9, <1>10, <1>11, <1>12 DEF Next

(* The invariant is stronger than the property.                            *)
LEMMA FineIsTyped == IInv => CallsAreTyped
  BY DEF IInv, AllHeld, Held, Exact, CallsAreTyped

(* Every function of a translated expression gets arguments of the types   *)
(* it is defined for, however deep the expression, for any ports, types,   *)
(* leaves and functions, but for the text of a double once a variable port *)
(* took a value without a type, and for upper case once an IN without      *)
(* regard to case compared NULL (_Converter of expression.py; infer of     *)
(* typing.py).                                                             *)
THEOREM CallsTyped == Spec => []CallsAreTyped
PROOF
  <1>1. QED  BY StartsFine, StaysFine, FineIsTyped, PTL DEF Spec

=============================================================================

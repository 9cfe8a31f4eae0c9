------------------------- MODULE ExpressionMeaning -------------------------
(***************************************************************************)
(* What translated expressions (ExpressionTranslation) come to over rows:  *)
(* their canonical meaning, and what the two engines compute of the        *)
(* statements the emitters make of them (ExpressionLowerings).             *)
(***************************************************************************)
EXTENDS ExpressionTranslation, ExpressionLowerings

CONSTANT Groups    \* sequences of rows, functions from the names of Types to values

Fits(v, t) ==
  \/ v \in {Null, Failure}
  \/ v.is = "number"  /\ (t.kind \in Fractional \/ (t.kind \in Integral /\ v.den = 1))
  \/ v.is = "string"  /\ t.kind = "string"
  \/ v.is = "boolean" /\ t.kind = "boolean"
  \/ v.is = "time"    /\ t.kind = "timestamp"

(* The groups of rows a value may be over.                                 *)
Scope == IF allow /\ ~inAgg THEN Groups ELSE {g \in Groups : Len(g) = 1}

(* An expression all of whose calls get what they are defined for.         *)
Typable == part # Opaque /\ \A c \in part.node.calls : WellTyped(c)

(* A value is NULL or of the type it is said to have: that of the port it  *)
(* is assigned to, a Boolean for a condition; and it is of the type the    *)
(* emitters infer, by which they round casts and write decimals.  What has *)
(* no type (NULL, ABORT) is accepted anywhere and so may be nothing but    *)
(* NULL or a failure.                                                      *)
ValuesFitTheirTypes ==
  Typable =>
    \A g \in Scope : \A t \in {part.type, Infer(part.node)} :
      Fits(Value("means", part.node, g), t)

(* chr of a fraction is NULL, and the emitters cut or round the fraction.  *)
CutsACode(n) == \E c \in n.calls : c.function = "chr" /\ c.kinds[1] \in Fractional

(* Both engines compute for every group of rows what the expression means, *)
(* in whatever order they read the group.                                  *)
EnginesAgree ==
  Typable /\ ~CutsACode(part.node) =>
    \A g \in Scope : \A e \in Engines \cup {"means"} :
      Value(e, part.node, Reverse(g)) = Value("means", part.node, g)

=============================================================================

--------------------------- MODULE MCRowAlignment ---------------------------
(***************************************************************************)
(* Instance of RowAlignment: two row-preserving operations A and B and a   *)
(* merge M that take columns from a source, a router with two groups and   *)
(* each other in many ways, cycles included, and a sink that is a write or *)
(* a join.  Operations are declared out of the order of the flow.          *)
(***************************************************************************)
EXTENDS RowAlignment

B == 1    M == 2    Source == 3    A == 4    Router == 5
Sink == 6 ReadOfA == 7 ReadOfB == 8

X == <<"x">>   Y == <<"y">>   V == <<"v">>   K == <<"k">>   W == <<"w">>

MCSlotNames == <<In, <<"left">>, <<"lookup">>, <<"right">>>>

Columns(cs, type) == [c \in cs |-> type]
Operation(kind, outputs) ==
  [kind |-> kind, match |-> "any", out |-> outputs, dataset |-> << >>,
   assigns |-> << >>, returns |-> << >>, cond |-> << >>]

\* Reads declare no output group: they have the columns of their dataset.
Read(cs) == [Operation("read", << >>) EXCEPT !.dataset = Columns(cs, "number")]
SourceOp == Read({X, Y})
RouterOp == Operation("route", [g \in {"g1", "g2"} |-> Columns({X, Y}, "number")])
LookupRead == Read({K, W})

\* A row-preserving operation with one input port or two: port x passes, and a derive or a
\* lookup makes column v of what it has; its columns are declared as text.
RowOp(o, kind, match, ports) ==
  LET refs   == IF Y \in ports THEN <<Y, X>> ELSE <<X>>
      passed == IF kind = "project" THEN ports ELSE {X}
  IN  [Operation(kind, [g \in {"out"} |->
         Columns(passed \cup (IF kind = "project" THEN {} ELSE {V}), "text")]) EXCEPT
         !.match   = match,
         !.assigns = IF kind = "derive" THEN [c \in {V} |-> [id |-> <<o, "out", V>>, refs |-> refs]]
                     ELSE << >>,
         !.returns = IF kind = "lookup" THEN [c \in {V} |-> W] ELSE << >>,
         !.cond    = IF kind = "lookup" THEN Append(refs, K) ELSE << >>]

\* Links: <<operation, slot, port, upstream, group, column>>; one edge per upstream and slot.
Edges(links) ==
  { Edge(l[4], l[5], l[1], l[2],
         {<<k[6], k[3]>> : k \in {j \in links : j[1] = l[1] /\ j[2] = l[2] /\ j[4] = l[4] /\ j[5] = l[5]}}) :
      l \in links }

None == {}
Port(o, slot, p, from) == {<<o, slot, p, f[1], f[2], f[3]>> : f \in from}

FromSource(c) == <<Source, "out", c>>
FromRouter(g) == <<Router, g, X>>
FromOp(o, c)  == <<o, "out", c>>

\* What an operation makes besides what it passes: a project makes nothing.
Made(kind) == IF kind[1] = "project" THEN X ELSE V

Dataflow(kA, kB, kM, links, sink, outputs) ==
  LET at(o)    == {l[3] : l \in {k \in links : k[1] = o}}
      lookups  == {p \in {<<A, ReadOfA, kA>>, <<B, ReadOfB, kB>>} : p[3][1] = "lookup"}
      read     == {FromSource(X), FromSource(Y)}
      all      == links \cup outputs
                    \cup UNION {Port(p[1], <<"lookup">>, c, {FromOp(p[2], c)}) : p \in lookups, c \in {K, W}}
                    \cup Port(Router, In, X, {FromSource(X)}) \cup Port(Router, In, Y, {FromSource(Y)})
  IN  [op    |-> [o \in {B, M, Source, A, Router, Sink} \cup {p[2] : p \in lookups} |->
                    CASE o = Source -> SourceOp
                      [] o = Router -> RouterOp
                      [] o = A -> RowOp(A, kA[1], kA[2], at(A))
                      [] o = B -> RowOp(B, kB[1], kB[2], at(B))
                      [] o = M -> IF kM = "filter"
                                    THEN Operation("filter", [g \in {"out"} |-> Columns(at(M), "text")])
                                    ELSE RowOp(M, kM, "any", at(M))
                      [] o = Sink -> Operation(sink, << >>)
                      [] OTHER -> LookupRead],
       edges |-> Edges(all)]

LinksOf(a, b1, b2, m1, m2) ==
  Port(A, In, X, {a}) \cup Port(B, In, X, {b1}) \cup Port(B, In, Y, b2)
    \cup Port(M, In, X, {m1}) \cup Port(M, In, Y, m2)

\* The write takes what M passes and makes; the left side of the join takes a column of M
\* and one of A, its right side takes columns of M and of B.
Outputs(kM, kA, kB, sink) ==
  IF sink = "write"
    THEN Port(Sink, In, X, {FromOp(M, X)})
           \cup Port(Sink, In, V, IF kM = "derive" THEN {FromOp(M, V)} ELSE {})
    ELSE Port(Sink, <<"left">>, X, {FromOp(M, X)}) \cup Port(Sink, <<"left">>, Y, {FromOp(A, Made(kA))})
           \cup Port(Sink, <<"right">>, V, {FromOp(M, X)}) \cup Port(Sink, <<"right">>, W, {FromOp(B, Made(kB))})

\* Kinds of A, B and M.
D == <<"derive", "any">>   P == <<"project", "any">>
L == <<"lookup", "any">>   All == <<"lookup", "all">>
Trios == { <<D, D, "derive">>, <<L, D, "filter">>, <<P, L, "derive">>,
           <<All, L, "filter">>, <<D, P, "filter">>, <<L, L, "derive">> }

MCDataflows ==
  UNION { { Dataflow(k[1], k[2], k[3], LinksOf(a, b1, b2, m1, m2), sink, Outputs(k[3], k[1], k[2], sink)) :
              a \in {FromSource(Y), FromRouter("g1"), FromOp(B, X)},
              b1 \in {FromSource(X), FromRouter("g1"), FromOp(A, Made(k[1]))},
              b2 \in {None, {FromSource(Y)}, {FromOp(A, X)}},
              m1 \in {FromOp(B, Made(k[2])), FromOp(A, Made(k[1]))},
              m2 \in {None, {FromSource(Y)}, {FromRouter("g2")}, {FromOp(A, X)}, {FromOp(B, X)}},
              sink \in {"write", "join"} } : k \in Trios }
=============================================================================

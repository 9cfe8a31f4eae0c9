--------------------------- MODULE MCTargetPackage ---------------------------
(***************************************************************************)
(* Instance of TargetPackage: three dataflows and two pipelines of three   *)
(* tasks.  Graphs holds every dependency graph over the tasks of one       *)
(* pipeline, Mixed every source of a block with dependencies of every kind *)
(* and between pipelines, Emitted the documents whose three dataflows may  *)
(* all be emitted, under names that collide.                               *)
(***************************************************************************)
EXTENDS TargetPackage, TLC

\* A manifest in the style of the targets': what it leaves out is blocked.
MCManifest ==
  <<"operation", "read">>       :> "constrained"
  @@ <<"task", "dataflow">>     :> "supported"
  @@ <<"task", "notify">>       :> "constrained"
  @@ <<"dependency", "success">>    :> "supported"
  @@ <<"dependency", "failure">>    :> "supported"
  @@ <<"dependency", "completion">> :> "approximated"

MCConstructs == {<<"operation", "read">>, <<"operation", "union">>}

\* One base name, and one that looks like a suffixed base name.
MCBaseNames == {<<>>, <<2>>}

\* Each dataflow has one member.
MCOwner == CHOOSE f \in [Members -> Dataflows] : \A d \in Dataflows : \E m \in Members : f[m] = d
MembersAmong(dataflows) == {m \in Members : MCOwner[m] \in dataflows}

\* Every graph over the tasks of the first pipeline (cycles included, and a self-loop),
\* with every choice of tasks that are blocked by themselves or by their dataflow.
First == {1} \X (1 .. NumTasks)
Graphs ==
  { [ owner     |-> MCOwner,
      uses      |-> [m \in Members |-> IF bad THEN MCConstructs ELSE {}],
      errors    |-> {},
      preflight |-> Dataflows \ {1},
      kind      |-> [t \in Tasks |-> IF t \in First THEN kind[t] ELSE "notify"],
      dataflow  |-> [t \in Tasks |-> IF t \in First /\ kind[t] = "dataflow" THEN 1 ELSE NoDataflow],
      deps      |-> [t \in Tasks |-> IF t \notin First THEN {}
                       ELSE {[on |-> u, condition |-> "success"] : u \in upstream[t]}],
      anyTrigger|-> {} ] :
    kind \in [First -> {"dataflow", "command"}],
    upstream \in {f \in [First -> SUBSET First] :
                   \A t \in First \ {<<1, 1>>} : t \notin f[t]},
    bad \in BOOLEAN }

\* At most one dependency of a task, on any task of any pipeline or on none.
SomeDeps ==
  {{}} \cup {{[on |-> u, condition |-> "completion"]} : u \in Tasks \cup {UnknownTask}}
       \cup {{[on |-> <<1, 1>>, condition |-> "expression"]}}

\* The last task of every pipeline has dependencies; the first task of the last
\* pipeline runs a dataflow, none, or one the document does not have.  The last
\* dataflow is left out by the emitter.
Mixed ==
  { [ owner     |-> MCOwner,
      uses      |-> [m \in Members |-> IF m \in unusual.bad THEN MCConstructs ELSE {}],
      errors    |-> errors,
      preflight |-> {NumDataflows},
      kind      |-> [t \in Tasks |-> IF t = <<NumPipelines, 1>> /\ ran = NoDataflow
                                       THEN "notify" ELSE "dataflow"],
      dataflow  |-> [t \in Tasks |-> IF t = <<NumPipelines, 1>> THEN ran ELSE t[1]],
      deps      |-> [t \in Tasks |-> IF t[2] = NumTasks THEN deps[t[1]] ELSE {}],
      anyTrigger|-> unusual.anyTrigger ] :
    unusual \in [bad : SUBSET MembersAmong({1, 2}), anyTrigger : {{}}]
                  \cup {[bad |-> {}, anyTrigger |-> {<<1, 1>>}]},
    errors \in {{}} \cup {{m} : m \in MembersAmong({1, 2})},
    ran \in {NoDataflow, 1, UnknownDataflow},
    deps \in {f \in [Pipelines -> SomeDeps] : \A d \in f[1] : d.on = <<1, 1>>} }

\* What the last task is: a dataflow task, a notification, a task the source
\* language has and the target does not, a dataflow the document lacks.
LastTasks ==
  { [kind |-> "dataflow",    dataflow |-> NumDataflows],
    [kind |-> "notify",      dataflow |-> NoDataflow],
    [kind |-> "unsupported", dataflow |-> NoDataflow],
    [kind |-> "dataflow",    dataflow |-> NoDataflow],
    [kind |-> "dataflow",    dataflow |-> UnknownDataflow] }

\* The i-th task of the first pipeline runs the i-th dataflow, but for the last task.
Emitted ==
  { [ owner     |-> MCOwner,
      uses      |-> [m \in Members |-> IF MCOwner[m] \in bad THEN MCConstructs ELSE {}],
      errors    |-> MembersAmong(wrong),
      preflight |-> preflight,
      kind      |-> [t \in Tasks |-> IF t \notin First THEN "notify"
                       ELSE IF t[2] = NumTasks THEN last.kind ELSE "dataflow"],
      dataflow  |-> [t \in Tasks |-> IF t \notin First THEN NoDataflow
                       ELSE IF t[2] = NumTasks THEN last.dataflow ELSE t[2]],
      deps      |-> [t \in Tasks |-> {[on |-> u, condition |-> condition] :
                       u \in {v \in First : t \in First /\ <<v[2], t[2]>> \in graph}}],
      anyTrigger|-> {} ] :
    bad \in {{}, {1}},
    wrong \in {{}, {2}},
    preflight \in {{}, {1}, {NumDataflows}},
    last \in LastTasks,
    graph \in SUBSET {<<1, 2>>, <<2, 3>>, <<3, 1>>},
    condition \in {"completion", "expression"} }

MCDocuments == Graphs \cup Mixed \cup Emitted
=============================================================================

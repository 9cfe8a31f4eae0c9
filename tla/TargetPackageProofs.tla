------------------------- MODULE TargetPackageProofs -------------------------
(***************************************************************************)
(* Proofs about CapabilityAnalysis and about TargetPackage, which runs it, *)
(* for every number of dataflows, pipelines and tasks, every manifest and  *)
(* every document.                                                         *)
(*                                                                         *)
(* Of the analysis: the types of its variables, that the tasks it reports  *)
(* blocked are the least downstream-closed set around the tasks the target *)
(* cannot run, and that its blocks are those its decisions explain.  The   *)
(* invariant that carries the second result says, loop by loop, what the   *)
(* set being built already holds.  Its one clever clause is the last of    *)
(* Propagated: a pass that has changed nothing so far has closed the tasks *)
(* it has visited.  A pass that did change something promises nothing,     *)
(* since the tasks before the cursor may have become wrong again; this is  *)
(* why the code repeats the pass.  The third result rests on the fact that *)
(* identifiers are unique (IR-V-001): the decision a loop writes for one   *)
(* member never stands for another.                                        *)
(*                                                                         *)
(* Of a workflow plan, for every set of names: a task that is launched     *)
(* runs the script of its own dataflow, which nothing blocks, and no block *)
(* lacks a reason.  The emitter runs the analysis to its end and then only *)
(* reads what it found, so the invariants of the analysis go on holding.   *)
(* EmitInv adds what the loop over the dataflows has made.  That two       *)
(* dataflows never share a script rests on the name a job gets being free: *)
(* one of n + 1 candidates is, when n names are taken.                     *)
(***************************************************************************)
EXTENDS TargetPackage, FiniteSetTheorems, WellFoundedInduction, TLAPS

-----------------------------------------------------------------------------
(* The analysis. *)


BadDataflows == {d \in Dataflows : BadDataflow(document, d)}

\* Every downstream-closed set around the seeds contains S.
Minimal(S) ==
  \A T \in SUBSET Tasks :
    Seeds(document) \subseteq T /\ DownstreamClosed(document, T) => S \subseteq T

\* S is closed at task t.
ClosedAt(S, t) == Upstream(document, t) \cap S # {} => t \in S

Position ==
  /\ phase \in {"invariants", "constructs"} =>
       /\ cursor \in 1 .. NumDataflows + 1
       /\ pipeline = 1
       /\ blocked = {}
       /\ blockedTasks = {}
  /\ phase \in {"tasks", "propagate"} =>
       /\ cursor \in 1 .. NumTasks + 1
       /\ pipeline \in Pipelines
  /\ phase = "analysed" => pipeline = NumPipelines + 1

DataflowsScanned ==
  /\ phase = "invariants" =>
       blockedDataflows = document.preflight
         \cup {d \in Dataflows : d < cursor /\ Erroneous(document, d)}
  /\ phase = "constructs" =>
       blockedDataflows = document.preflight
         \cup {d \in Dataflows : Erroneous(document, d)}
         \cup {d \in Dataflows : d < cursor /\ Unsupported(document, d)}
  /\ phase \in {"tasks", "propagate", "analysed"} => blockedDataflows = BadDataflows

TasksScanned ==
  phase = "tasks" =>
    blocked = {t \in Seeds(document) : t[1] = pipeline /\ t[2] < cursor}

Propagated ==
  phase = "propagate" =>
    /\ \A t \in blocked : t[1] = pipeline
    /\ \A t \in Seeds(document) : t[1] = pipeline => t \in blocked
    /\ Minimal(blocked)
    /\ ~changed => \A t \in Tasks : t[1] = pipeline /\ t[2] < cursor => ClosedAt(blocked, t)

Finished ==
  /\ \A t \in blockedTasks : t[1] < pipeline
  /\ \A t \in Seeds(document) : t[1] < pipeline => t \in blockedTasks
  /\ \A t \in Tasks : t[1] < pipeline => ClosedAt(blockedTasks, t)
  /\ Minimal(blockedTasks)

IInv == TypeOK /\ Position /\ DataflowsScanned /\ TasksScanned /\ Propagated /\ Finished

-----------------------------------------------------------------------------
\* A task is written with its two components.
LEMMA TaskIndices ==
  ASSUME NEW t \in Tasks
  PROVE  t[1] \in Pipelines /\ t[2] \in 1 .. NumTasks /\ t = <<t[1], t[2]>>
BY DEF Tasks

LEMMA ConstructsTyped ==
  ASSUME NEW doc \in DocumentType, NEW t \in Tasks
  PROVE  ConstructsOfTask(doc, t) \subseteq Constructs
<1>1. doc.kind[t] \in TaskKinds /\ doc.deps[t] \subseteq Dependencies
  BY DEF DocumentType
<1>2. \A d \in doc.deps[t] : d.condition \in Conditions
  BY <1>1 DEF Dependencies
<1>3. ConstructsOfTask(doc, t) \subseteq TaskConstructs
  BY <1>1, <1>2 DEF ConstructsOfTask, TaskConstructs
<1> QED
  BY <1>3 DEF Constructs

\* The code's variables keep their types: every variable of analyze.
LEMMA TypeInit == Init => TypeOK
<1> SUFFICES ASSUME Init PROVE TypeOK
  OBVIOUS
<1>1. document \in DocumentType
  BY DocumentsAssumption DEF Init
<1>2. document.preflight \subseteq Dataflows
  BY <1>1 DEF DocumentType
<1> QED
  BY <1>1, <1>2 DEF Init, TypeOK, Phases

LEMMA TypeStep ==
  TypeOK /\ Position /\ [Next]_vars => TypeOK' /\ Position'
<1> SUFFICES ASSUME TypeOK, Position, [Next]_vars
             PROVE  TypeOK' /\ Position'
  OBVIOUS
<1> DEFINE D == (Members \cup Tasks) \X Constructs
           OtherTypes == /\ phase \in Phases
                         /\ cursor \in Nat
                         /\ pipeline \in Nat
                         /\ changed \in BOOLEAN
                         /\ blockedDataflows \subseteq Dataflows
                         /\ blocked \subseteq Tasks
                         /\ blockedTasks \subseteq Tasks
<1>a. document \in DocumentType /\ decisions \subseteq D /\ OtherTypes
  BY DEF TypeOK
<1>b. SUFFICES document' \in DocumentType /\ (decisions \subseteq D)' /\ OtherTypes' /\ Position'
  BY DEF TypeOK
<1> USE SizesAssumption
<1>1. CASE ScanInvariants
  <2>1. \A m \in Members : <<m, InvariantConstruct>> \in D
    BY DEF Constructs
  <2>2. (MembersOf(document, cursor) \cap document.errors) \X {InvariantConstruct} \subseteq D
    BY <2>1 DEF MembersOf
  <2>3. (decisions \subseteq D)'
    <3> HIDE DEF D
    <3> QED BY <1>1, <1>a, <2>2 DEF ScanInvariants, D
  <2>4. OtherTypes' /\ Position' /\ document' = document
    <3>1. OtherTypes' /\ document' = document
      <4>1. (blockedDataflows \subseteq Dataflows)'
        BY <1>1, <1>a DEF ScanInvariants
      <4>2. cursor' \in Nat
        BY <1>1, <1>a DEF ScanInvariants
      <4> QED
        BY <1>1, <1>a, <4>1, <4>2 DEF ScanInvariants
    <3>2. Position'
      BY <1>1 DEF ScanInvariants, Position, Dataflows
    <3> QED BY <3>1, <3>2
  <2> QED
    BY <1>a, <2>3, <2>4
<1>2. CASE ScanConstructs
  <2>1. \A m \in Members : document.uses[m] \subseteq MemberConstructs
    BY <1>a DEF DocumentType
  <2>2. \A m \in Members, c \in MemberConstructs : <<m, c>> \in D
    BY DEF Constructs
  <2>3. UNION {{m} \X document.uses[m] : m \in MembersOf(document, cursor)} \subseteq D
    BY <2>1, <2>2 DEF MembersOf
  <2>4. (decisions \subseteq D)'
    <3> HIDE DEF D
    <3> QED BY <1>2, <1>a, <2>3 DEF ScanConstructs, D
  <2>5. OtherTypes' /\ Position' /\ document' = document
    <3>1. OtherTypes' /\ document' = document
      <4>1. (blockedDataflows \subseteq Dataflows)'
        BY <1>2, <1>a DEF ScanConstructs
      <4>2. cursor' \in Nat
        BY <1>2, <1>a DEF ScanConstructs
      <4> QED
        BY <1>2, <1>a, <4>1, <4>2 DEF ScanConstructs
    <3>2. Position'
      BY <1>2 DEF ScanConstructs, Position, Dataflows
    <3> QED BY <3>1, <3>2
  <2> QED
    BY <1>a, <2>4, <2>5
<1>3. CASE EndDataflows
  BY <1>3, <1>a DEF EndDataflows, Position, Pipelines, Phases
<1>4. CASE DecideTask
  <2> DEFINE task == <<pipeline, cursor>>
  <2>1. task \in Tasks
    BY <1>4 DEF DecideTask, Position, Tasks
  <2>2. ConstructsOfTask(document, task) \subseteq Constructs
    BY <1>a, <2>1, ConstructsTyped
  <2>3. {task} \X ConstructsOfTask(document, task) \subseteq D
    BY <2>1, <2>2
  <2>4. (decisions \subseteq D)'
    <3> HIDE DEF D
    <3> QED BY <1>4, <1>a, <2>3 DEF DecideTask, D
  <2>5. OtherTypes' /\ Position' /\ document' = document
    BY <1>4, <1>a, <2>1 DEF DecideTask, Position, Phases
  <2> QED
    BY <1>a, <2>4, <2>5
<1>5. CASE StartPropagation
  <2>1. document' \in DocumentType /\ (decisions \subseteq D)' /\ OtherTypes'
    BY <1>5, <1>a DEF StartPropagation, Phases
  <2>2. Position'
    BY <1>5 DEF StartPropagation, Position
  <2> QED BY <2>1, <2>2
<1>6. CASE PropagateTask
  <2>1. <<pipeline, cursor>> \in Tasks
    BY <1>6 DEF PropagateTask, Position, Tasks
  <2>2. QED
    <3>1. document' \in DocumentType /\ (decisions \subseteq D)' /\ OtherTypes'
      <4>1. (blocked \subseteq Tasks)'
        BY <1>6, <1>a, <2>1 DEF PropagateTask
      <4>2. changed' \in BOOLEAN
        BY <1>6, <1>a DEF PropagateTask
      <4>3. cursor' \in Nat
        BY <1>6, <1>a DEF PropagateTask
      <4> QED
        BY <1>6, <1>a, <4>1, <4>2, <4>3 DEF PropagateTask
    <3>2. Position'
      BY <1>6 DEF PropagateTask, Position
    <3> QED BY <3>1, <3>2
<1>7. CASE RepeatPass
  <2>1. document' \in DocumentType /\ (decisions \subseteq D)' /\ OtherTypes'
    BY <1>7, <1>a DEF RepeatPass
  <2>2. Position'
    BY <1>7 DEF RepeatPass, Position
  <2> QED BY <2>1, <2>2
<1>8. CASE EndPipeline
  BY <1>8, <1>a DEF EndPipeline, Position, Pipelines, Phases
<1>9. CASE UNCHANGED vars
  BY <1>9, <1>a DEF vars, Position
<1> QED
  BY <1>1, <1>2, <1>3, <1>4, <1>5, <1>6, <1>7, <1>8, <1>9 DEF Next

-----------------------------------------------------------------------------
\* Once the dataflows are decided, the test of the task loop finds the seeds.
LEMMA SeedTest ==
  ASSUME NEW t \in Tasks, blockedDataflows = BadDataflows
  PROVE  t \in Seeds(document) <=> IsSeed(document, blockedDataflows, t)
BY DEF Seeds, BadDataflows

LEMMA SeedsAreTasks == Seeds(document) \subseteq Tasks
BY DEF Seeds

\* A step that leaves the document and the finished tasks alone keeps Finished.
LEMMA FinishedStable ==
  ASSUME Finished, UNCHANGED <<document, pipeline, blockedTasks>>
  PROVE  Finished'
BY DEF Finished, ClosedAt, Minimal

LEMMA IInvInit == Init => IInv
<1> SUFFICES ASSUME Init PROVE IInv
  OBVIOUS
<1>1. TypeOK
  BY TypeInit
<1>2. Position
  BY SizesAssumption DEF Init, Position
<1>3. DataflowsScanned
  BY DEF Init, DataflowsScanned, Dataflows
<1>4. TasksScanned /\ Propagated
  BY DEF Init, TasksScanned, Propagated
<1>5. Finished
  <2>1. \A t \in Tasks : ~(t[1] < pipeline)
    BY TaskIndices, SizesAssumption DEF Init, Pipelines
  <2> QED
    BY <2>1, SeedsAreTasks DEF Init, Finished, Minimal
<1> QED
  BY <1>1, <1>2, <1>3, <1>4, <1>5 DEF IInv

LEMMA ScanInvariantsStep == IInv /\ ScanInvariants => IInv'
<1> SUFFICES ASSUME IInv, ScanInvariants PROVE IInv'
  OBVIOUS
<1>1. TypeOK' /\ Position'
  BY TypeStep DEF IInv, Next
<1>2. DataflowsScanned'
  <2>1. \A d \in Dataflows : d < cursor + 1 <=> d < cursor \/ d = cursor
    BY DEF Dataflows, ScanInvariants
  <2> QED
    BY <2>1 DEF IInv, ScanInvariants, DataflowsScanned
<1>3. TasksScanned' /\ Propagated'
  BY DEF ScanInvariants, TasksScanned, Propagated
<1>4. Finished'
  BY FinishedStable DEF IInv, ScanInvariants
<1> QED
  BY <1>1, <1>2, <1>3, <1>4 DEF IInv

LEMMA ScanConstructsStep == IInv /\ ScanConstructs => IInv'
<1> SUFFICES ASSUME IInv, ScanConstructs PROVE IInv'
  OBVIOUS
<1>1. TypeOK' /\ Position'
  BY TypeStep DEF IInv, Next
<1>2. DataflowsScanned'
  <2>1. \A d \in Dataflows : d < cursor + 1 <=> d < cursor \/ d = cursor
    BY DEF Dataflows, ScanConstructs
  <2> QED
    BY <2>1 DEF IInv, ScanConstructs, DataflowsScanned
<1>3. TasksScanned' /\ Propagated'
  BY DEF ScanConstructs, TasksScanned, Propagated
<1>4. Finished'
  BY FinishedStable DEF IInv, ScanConstructs
<1> QED
  BY <1>1, <1>2, <1>3, <1>4 DEF IInv

LEMMA EndDataflowsStep == IInv /\ EndDataflows => IInv'
<1> SUFFICES ASSUME IInv, EndDataflows PROVE IInv'
  OBVIOUS
<1>1. TypeOK' /\ Position'
  BY TypeStep DEF IInv, Next
<1>2. DataflowsScanned'
  <2>1. \A d \in Dataflows : d < cursor /\ ~(d < cursor')
    BY SizesAssumption DEF Dataflows, EndDataflows
  <2>2. document.preflight \subseteq Dataflows
    BY DEF IInv, TypeOK, DocumentType
  <2>3. CASE phase = "invariants"
    BY <2>1, <2>3 DEF IInv, EndDataflows, DataflowsScanned
  <2>4. CASE phase = "constructs"
    <3>1. blockedDataflows = BadDataflows
      BY <2>1, <2>2, <2>4 DEF IInv, DataflowsScanned, BadDataflows, BadDataflow
    <3> QED
      BY <3>1, <2>4 DEF EndDataflows, DataflowsScanned, BadDataflows
  <2> QED
    BY <2>3, <2>4 DEF EndDataflows
<1>3. TasksScanned'
  <2>1. \A t \in Tasks : ~(t[2] < 1)
    BY TaskIndices, SizesAssumption
  <2>2. Seeds(document') \subseteq Tasks
    BY DEF Seeds
  <2>3. cursor' = 1 /\ blocked' = {}
    BY DEF IInv, Position, EndDataflows
  <2> QED
    BY <2>1, <2>2, <2>3 DEF TasksScanned
<1>4. Propagated'
  BY DEF EndDataflows, Propagated
<1>5. Finished'
  BY FinishedStable DEF IInv, EndDataflows
<1> QED
  BY <1>1, <1>2, <1>3, <1>4, <1>5 DEF IInv

LEMMA DecideTaskStep == IInv /\ DecideTask => IInv'
<1> SUFFICES ASSUME IInv, DecideTask PROVE IInv'
  OBVIOUS
<1>1. TypeOK' /\ Position'
  BY TypeStep DEF IInv, Next
<1>2. DataflowsScanned' /\ Propagated'
  BY DEF IInv, DecideTask, DataflowsScanned, Propagated, BadDataflows
<1>3. TasksScanned'
  <2> DEFINE task == <<pipeline, cursor>>
  <2>1. task \in Tasks
    BY DEF IInv, DecideTask, Position, Tasks
  <2>2. task \in Seeds(document) <=> IsSeed(document, blockedDataflows, task)
    BY <2>1, SeedTest DEF IInv, DecideTask, DataflowsScanned
  <2>3. \A t \in Tasks : t[1] = pipeline /\ t[2] < cursor + 1
                           <=> (t[1] = pipeline /\ t[2] < cursor) \/ t = task
    BY TaskIndices, SizesAssumption DEF DecideTask
  <2>4. blocked' = {t \in Seeds(document) : t[1] = pipeline /\ t[2] < cursor + 1}
    BY <2>1, <2>2, <2>3, SeedsAreTasks DEF IInv, DecideTask, TasksScanned
  <2> QED
    BY <2>4 DEF DecideTask, TasksScanned
<1>4. Finished'
  BY FinishedStable DEF IInv, DecideTask
<1> QED
  BY <1>1, <1>2, <1>3, <1>4 DEF IInv

LEMMA StartPropagationStep == IInv /\ StartPropagation => IInv'
<1> SUFFICES ASSUME IInv, StartPropagation PROVE IInv'
  OBVIOUS
<1>1. TypeOK' /\ Position'
  BY TypeStep DEF IInv, Next
<1>2. DataflowsScanned' /\ TasksScanned'
  BY DEF IInv, StartPropagation, DataflowsScanned, TasksScanned, BadDataflows
<1>3. Propagated'
  <2>1. \A t \in Tasks : t[2] < cursor /\ ~(t[2] < 1)
    BY TaskIndices, SizesAssumption DEF StartPropagation
  <2>2. blocked = {t \in Seeds(document) : t[1] = pipeline}
    BY <2>1, SeedsAreTasks DEF IInv, StartPropagation, TasksScanned
  <2>3. Minimal(blocked)
    BY <2>2 DEF Minimal
  <2>4. Minimal(blocked)'
    BY <2>3 DEF Minimal, StartPropagation
  <2> QED
    BY <2>1, <2>2, <2>4 DEF StartPropagation, Propagated
<1>4. Finished'
  BY FinishedStable DEF IInv, StartPropagation
<1> QED
  BY <1>1, <1>2, <1>3, <1>4 DEF IInv

LEMMA PropagateTaskStep == IInv /\ PropagateTask => IInv'
<1> SUFFICES ASSUME IInv, PropagateTask PROVE IInv'
  OBVIOUS
<1> DEFINE task == <<pipeline, cursor>>
<1>1. TypeOK' /\ Position'
  BY TypeStep DEF IInv, Next
<1>2. DataflowsScanned' /\ TasksScanned'
  BY DEF IInv, PropagateTask, DataflowsScanned, TasksScanned, BadDataflows
<1>3. task \in Tasks /\ document' = document /\ pipeline' = pipeline
      /\ cursor' = cursor + 1 /\ phase' = "propagate"
  BY DEF IInv, PropagateTask, Position, Tasks
<1>4. /\ \A t \in blocked : t[1] = pipeline
      /\ \A t \in Seeds(document) : t[1] = pipeline => t \in blocked
      /\ Minimal(blocked)
      /\ ~changed => \A t \in Tasks : t[1] = pipeline /\ t[2] < cursor => ClosedAt(blocked, t)
  BY DEF IInv, PropagateTask, Propagated
<1>5. Propagated'
  <2>1. CASE task \notin blocked /\ Upstream(document, task) \cap blocked # {}
    <3>1. blocked' = blocked \cup {task} /\ changed'
      BY <2>1 DEF PropagateTask
    <3>2. Minimal(blocked \cup {task})
      <4> SUFFICES ASSUME NEW T \in SUBSET Tasks,
                          Seeds(document) \subseteq T, DownstreamClosed(document, T)
                   PROVE  blocked \cup {task} \subseteq T
        BY DEF Minimal
      <4>1. blocked \subseteq T
        BY <1>4 DEF Minimal
      <4>2. Upstream(document, task) \cap T # {}
        BY <2>1, <4>1
      <4>3. task \in T
        BY <4>2, <1>3 DEF DownstreamClosed
      <4> QED
        BY <4>1, <4>3
    <3>3. Minimal(blocked)'
      BY <3>1, <3>2, <1>3 DEF Minimal
    <3> QED
      BY <3>1, <3>3, <1>3, <1>4 DEF Propagated
  <2>2. CASE ~(task \notin blocked /\ Upstream(document, task) \cap blocked # {})
    <3>1. blocked' = blocked /\ changed' = changed
      BY <2>2 DEF PropagateTask
    <3>2. ClosedAt(blocked, task)
      BY <2>2 DEF ClosedAt
    <3>3. \A t \in Tasks : t[1] = pipeline /\ t[2] < cursor + 1
                             => (t[1] = pipeline /\ t[2] < cursor) \/ t = task
      BY TaskIndices, SizesAssumption DEF PropagateTask
    <3>4. ~changed => \A t \in Tasks :
                        t[1] = pipeline /\ t[2] < cursor + 1 => ClosedAt(blocked, t)
      BY <1>4, <3>2, <3>3
    <3>5. Minimal(blocked)'
      BY <3>1, <1>3, <1>4 DEF Minimal
    <3>6. ~changed' => \A t \in Tasks :
                        t[1] = pipeline' /\ t[2] < cursor' => ClosedAt(blocked, t)'
      BY <3>1, <3>4, <1>3 DEF ClosedAt
    <3> QED
      BY <3>1, <3>5, <3>6, <1>3, <1>4 DEF Propagated
  <2> QED
    BY <2>1, <2>2
<1>6. Finished'
  BY FinishedStable DEF IInv, PropagateTask
<1> QED
  BY <1>1, <1>2, <1>5, <1>6 DEF IInv

LEMMA RepeatPassStep == IInv /\ RepeatPass => IInv'
<1> SUFFICES ASSUME IInv, RepeatPass PROVE IInv'
  OBVIOUS
<1>1. TypeOK' /\ Position'
  BY TypeStep DEF IInv, Next
<1>2. DataflowsScanned' /\ TasksScanned'
  BY DEF IInv, RepeatPass, DataflowsScanned, TasksScanned, BadDataflows
<1>3. Propagated'
  <2>1. \A t \in Tasks : ~(t[2] < 1)
    BY TaskIndices, SizesAssumption
  <2>2. Minimal(blocked)'
    BY DEF IInv, RepeatPass, Propagated, Minimal
  <2> QED
    BY <2>1, <2>2 DEF IInv, RepeatPass, Propagated
<1>4. Finished'
  BY FinishedStable DEF IInv, RepeatPass
<1> QED
  BY <1>1, <1>2, <1>3, <1>4 DEF IInv

\* Upstream tasks are tasks of the same pipeline: this is what lets the code
\* propagate pipeline by pipeline.
LEMMA UpstreamLocal ==
  \A t \in Tasks : \A u \in Upstream(document, t) : u \in Tasks /\ u[1] = t[1]
BY DEF Upstream

LEMMA EndPipelineStep == IInv /\ EndPipeline => IInv'
<1> SUFFICES ASSUME IInv, EndPipeline PROVE IInv'
  OBVIOUS
<1>1. TypeOK' /\ Position'
  BY TypeStep DEF IInv, Next
<1>2. /\ blockedTasks' = blockedTasks \cup blocked /\ blocked' = {}
      /\ document' = document /\ pipeline' = pipeline + 1 /\ cursor' = 1
      /\ phase' \in {"tasks", "analysed"} /\ pipeline \in Nat
  BY DEF EndPipeline, IInv, TypeOK
<1>3. DataflowsScanned'
  BY DEF IInv, EndPipeline, DataflowsScanned, BadDataflows
<1>4. TasksScanned' /\ Propagated'
  <2>1. \A t \in Tasks : ~(t[2] < 1)
    BY TaskIndices, SizesAssumption
  <2> QED
    BY <1>2, <2>1, SeedsAreTasks DEF TasksScanned, Propagated
<1>5. \A t \in Tasks : t[1] < pipeline + 1 <=> t[1] < pipeline \/ t[1] = pipeline
  BY <1>2, TaskIndices, SizesAssumption DEF Pipelines
<1>6. blocked \subseteq Tasks /\ blockedTasks \subseteq Tasks
  BY DEF IInv, TypeOK
<1>7. /\ \A t \in blocked : t[1] = pipeline
      /\ \A t \in Seeds(document) : t[1] = pipeline => t \in blocked
      /\ Minimal(blocked)
      /\ \A t \in Tasks : t[1] = pipeline => ClosedAt(blocked, t)
  <2>1. \A t \in Tasks : t[2] < cursor
    BY TaskIndices, SizesAssumption DEF EndPipeline
  <2> QED
    BY <2>1 DEF IInv, EndPipeline, Propagated
<1>8. Finished
  BY DEF IInv
<1>9. Minimal(blockedTasks \cup blocked)
  BY <1>7, <1>8 DEF Finished, Minimal
<1>10. ASSUME NEW t \in Tasks, t[1] < pipeline + 1
       PROVE  ClosedAt(blockedTasks \cup blocked, t)
  <2>1. CASE t[1] < pipeline
    <3>1. Upstream(document, t) \cap blocked = {}
      BY <2>1, <1>2, <1>7, UpstreamLocal, TaskIndices, SizesAssumption DEF Pipelines
    <3> QED
      BY <3>1, <2>1, <1>8 DEF Finished, ClosedAt
  <2>2. CASE t[1] = pipeline
    <3>1. Upstream(document, t) \cap blockedTasks = {}
      BY <2>2, <1>2, <1>8, UpstreamLocal DEF Finished
    <3> QED
      BY <3>1, <2>2, <1>7 DEF ClosedAt
  <2> QED
    BY <2>1, <2>2, <1>10, <1>5
<1>11. Finished'
  <2>1. \A t \in blockedTasks' : t[1] < pipeline'
    BY <1>2, <1>5, <1>6, <1>7, <1>8 DEF Finished
  <2>2. \A t \in Seeds(document)' : t[1] < pipeline' => t \in blockedTasks'
    BY <1>2, <1>5, <1>7, <1>8, SeedsAreTasks DEF Finished
  <2>3. \A t \in Tasks : t[1] < pipeline' => ClosedAt(blockedTasks, t)'
    BY <1>2, <1>10 DEF ClosedAt
  <2>4. Minimal(blockedTasks)'
    BY <1>2, <1>9 DEF Minimal
  <2> QED
    BY <2>1, <2>2, <2>3, <2>4 DEF Finished
<1> QED
  BY <1>1, <1>3, <1>4, <1>11 DEF IInv

LEMMA IInvStep == IInv /\ [Next]_vars => IInv'
<1>1. IInv /\ UNCHANGED vars => IInv'
  <2> SUFFICES ASSUME IInv, UNCHANGED vars PROVE IInv'
    OBVIOUS
  <2>1. TypeOK' /\ Position'
    BY TypeStep DEF IInv
  <2>2. DataflowsScanned' /\ TasksScanned'
    BY DEF IInv, vars, DataflowsScanned, TasksScanned, BadDataflows
  <2>3. Propagated'
    BY DEF IInv, vars, Propagated, ClosedAt, Minimal
  <2>4. Finished'
    BY FinishedStable DEF IInv, vars
  <2> QED
    BY <2>1, <2>2, <2>3, <2>4 DEF IInv
<1> QED
  BY <1>1, ScanInvariantsStep, ScanConstructsStep, EndDataflowsStep, DecideTaskStep,
     StartPropagationStep, PropagateTaskStep, RepeatPassStep, EndPipelineStep DEF Next

\* When every pipeline is finished, Finished speaks of every task.
LEMMA FinishedIsLeast ==
  ASSUME IInv, phase = "analysed"
  PROVE  /\ Seeds(document) \subseteq blockedTasks
         /\ DownstreamClosed(document, blockedTasks)
         /\ Minimal(blockedTasks)
<1>1. \A t \in Tasks : t[1] < pipeline
  BY TaskIndices, SizesAssumption DEF IInv, Position, Pipelines
<1> QED
  BY <1>1, SeedsAreTasks DEF IInv, Finished, ClosedAt, DownstreamClosed

LEMMA IInvImplies == IInv => BlockedIsLeastClosure
<1> SUFFICES ASSUME IInv, phase = "analysed",
                    NEW S \in SUBSET blockedTasks,
                    Seeds(document) \subseteq S, DownstreamClosed(document, S)
             PROVE  S = blockedTasks
  BY FinishedIsLeast DEF BlockedIsLeastClosure
<1>1. S \in SUBSET Tasks
  BY DEF IInv, TypeOK
<1>2. blockedTasks \subseteq S
  BY <1>1, FinishedIsLeast DEF Minimal
<1> QED
  BY <1>2

-----------------------------------------------------------------------------
(* The decisions: what has been recorded about a subject, loop by loop. *)

\* The loops over the dataflows have passed the dataflow of m.
ErrorsRead(m) == phase = "invariants" => document.owner[m] < cursor
UsesRead(m) ==
  /\ phase # "invariants"
  /\ phase = "constructs" => document.owner[m] < cursor

\* The task loop of the pipeline of t has passed t.
TaskRead(t) ==
  /\ phase \notin {"invariants", "constructs"}
  /\ \/ t[1] < pipeline
     \/ t[1] = pipeline /\ (phase = "tasks" => t[2] < cursor)

MembersDecided ==
  \A m \in Members : \A c \in Constructs :
    <<m, c>> \in decisions <=>
      \/ c = InvariantConstruct /\ m \in document.errors /\ ErrorsRead(m)
      \/ c \in document.uses[m] /\ UsesRead(m)

TasksDecided ==
  \A t \in Tasks : \A c \in Constructs :
    <<t, c>> \in decisions <=> c \in ConstructsOfTask(document, t) /\ TaskRead(t)

Decided == MembersDecided /\ TasksDecided

LEMMA DecidedInit == Init => Decided
<1> SUFFICES ASSUME Init PROVE Decided
  OBVIOUS
<1>1. document \in DocumentType /\ decisions = {} /\ phase = "invariants" /\ cursor = 1
  BY DocumentsAssumption DEF Init
<1>2. \A m \in Members : ~(document.owner[m] < cursor)
  BY <1>1, SizesAssumption DEF DocumentType, Dataflows
<1> QED
  BY <1>1, <1>2 DEF Decided, MembersDecided, TasksDecided, ErrorsRead, UsesRead, TaskRead

\* A step that records nothing and leaves what has been read alone.
LEMMA DecidedStable ==
  ASSUME Decided, UNCHANGED <<document, decisions>>,
         \A m \in Members : (ErrorsRead(m)' <=> ErrorsRead(m)) /\ (UsesRead(m)' <=> UsesRead(m)),
         \A t \in Tasks : TaskRead(t)' <=> TaskRead(t)
  PROVE  Decided'
BY DEF Decided, MembersDecided, TasksDecided

\* Only a task loop reads a task, so a scan of dataflows records nothing about tasks.
LEMMA MemberScanStep == IInv /\ Decided /\ (ScanInvariants \/ ScanConstructs) => Decided'
<1> SUFFICES ASSUME IInv, Decided, ScanInvariants \/ ScanConstructs PROVE Decided'
  OBVIOUS
<1>1. /\ document \in DocumentType /\ document' = document /\ cursor \in Dataflows
      /\ cursor' = cursor + 1 /\ phase' = phase /\ pipeline' = pipeline
  BY DEF IInv, TypeOK, ScanInvariants, ScanConstructs
<1>2. \A m \in Members : document.owner[m] < cursor + 1
                           <=> document.owner[m] < cursor \/ document.owner[m] = cursor
  BY <1>1, SizesAssumption DEF DocumentType, Dataflows
<1>3. \A m \in Members : m \in MembersOf(document, cursor) <=> document.owner[m] = cursor
  BY DEF MembersOf
<1>4. CASE ScanInvariants
  <2>1. \A m \in Members : \A c :
          <<m, c>> \in decisions' <=>
            \/ <<m, c>> \in decisions
            \/ c = InvariantConstruct /\ m \in document.errors /\ document.owner[m] = cursor
    BY <1>3, <1>4 DEF ScanInvariants
  <2>2. \A m \in Members : ~UsesRead(m) /\ ~UsesRead(m)'
    BY <1>1, <1>4 DEF UsesRead, ScanInvariants
  <2>3. \A m \in Members : ErrorsRead(m)' <=> ErrorsRead(m) \/ document.owner[m] = cursor
    BY <1>1, <1>2, <1>4 DEF ErrorsRead, ScanInvariants
  <2>4. MembersDecided'
    <3> SUFFICES ASSUME NEW m \in Members, NEW c \in Constructs
                 PROVE  <<m, c>> \in decisions' <=>
                          \/ c = InvariantConstruct /\ m \in document'.errors /\ ErrorsRead(m)'
                          \/ c \in document'.uses[m] /\ UsesRead(m)'
      BY DEF MembersDecided
    <3>1. <<m, c>> \in decisions <=>
            c = InvariantConstruct /\ m \in document.errors /\ ErrorsRead(m)
      BY <2>2 DEF Decided, MembersDecided
    <3> QED
      BY <1>1, <2>1, <2>2, <2>3, <3>1
  <2>5. \A t \in Tasks : \A c : <<t, c>> \in decisions' <=> <<t, c>> \in decisions
    BY <1>4, IdentifiersUnique DEF ScanInvariants, MembersOf
  <2>6. TasksDecided'
    BY <1>1, <1>4, <2>5 DEF Decided, TasksDecided, TaskRead, ScanInvariants
  <2> QED
    BY <2>4, <2>6 DEF Decided
<1>5. CASE ScanConstructs
  <2>1. \A m \in Members : \A c :
          <<m, c>> \in decisions' <=>
            <<m, c>> \in decisions \/ (c \in document.uses[m] /\ document.owner[m] = cursor)
    <3>1. \A m \in Members : \A c :
            <<m, c>> \in UNION {{n} \X document.uses[n] : n \in MembersOf(document, cursor)}
              <=> m \in MembersOf(document, cursor) /\ c \in document.uses[m]
      OBVIOUS
    <3> QED
      BY <1>3, <1>5, <3>1 DEF ScanConstructs
  <2>2. \A m \in Members : ErrorsRead(m) /\ ErrorsRead(m)'
    BY <1>1, <1>5 DEF ErrorsRead, ScanConstructs
  <2>3. \A m \in Members : UsesRead(m)' <=> UsesRead(m) \/ document.owner[m] = cursor
    BY <1>1, <1>2, <1>5 DEF UsesRead, ScanConstructs
  <2>4. MembersDecided'
    <3> SUFFICES ASSUME NEW m \in Members, NEW c \in Constructs
                 PROVE  <<m, c>> \in decisions' <=>
                          \/ c = InvariantConstruct /\ m \in document'.errors /\ ErrorsRead(m)'
                          \/ c \in document'.uses[m] /\ UsesRead(m)'
      BY DEF MembersDecided
    <3>1. <<m, c>> \in decisions <=>
            \/ c = InvariantConstruct /\ m \in document.errors
            \/ c \in document.uses[m] /\ UsesRead(m)
      BY <2>2 DEF Decided, MembersDecided
    <3> QED
      BY <1>1, <2>1, <2>2, <2>3, <3>1
  <2>5. \A t \in Tasks : \A c : <<t, c>> \in decisions' <=> <<t, c>> \in decisions
    <3>1. \A t \in Tasks : \A c :
            <<t, c>> \notin UNION {{n} \X document.uses[n] : n \in MembersOf(document, cursor)}
      BY IdentifiersUnique DEF MembersOf
    <3> QED
      BY <1>5, <3>1 DEF ScanConstructs
  <2>6. TasksDecided'
    BY <1>1, <1>5, <2>5 DEF Decided, TasksDecided, TaskRead, ScanConstructs
  <2> QED
    BY <2>4, <2>6 DEF Decided
<1> QED
  BY <1>4, <1>5

LEMMA EndDataflowsDecided == IInv /\ Decided /\ EndDataflows => Decided'
<1> SUFFICES ASSUME IInv, Decided, EndDataflows PROVE Decided'
  OBVIOUS
<1>1. document \in DocumentType /\ cursor = NumDataflows + 1 /\ cursor' = 1 /\ pipeline = 1
      /\ pipeline' = pipeline /\ document' = document /\ decisions' = decisions
  BY DEF IInv, TypeOK, Position, EndDataflows
<1>2. \A m \in Members : document.owner[m] < cursor /\ ~(document.owner[m] < cursor')
  BY <1>1, SizesAssumption DEF DocumentType, Dataflows
<1>3. \A t \in Tasks : ~(t[1] < pipeline) /\ ~(t[2] < cursor')
  BY <1>1, TaskIndices, SizesAssumption DEF Pipelines
<1>4. \A t \in Tasks : pipeline' \in Pipelines \/ ~(t[1] = pipeline')
  BY <1>1, TaskIndices
<1>5. \A m \in Members : (ErrorsRead(m)' <=> ErrorsRead(m)) /\ (UsesRead(m)' <=> UsesRead(m))
  BY <1>1, <1>2 DEF EndDataflows, ErrorsRead, UsesRead
<1>6. \A t \in Tasks : TaskRead(t)' <=> TaskRead(t)
  BY <1>1, <1>3, <1>4 DEF EndDataflows, TaskRead
<1> QED
  BY <1>1, <1>5, <1>6, DecidedStable

LEMMA DecideTaskDecided == IInv /\ Decided /\ DecideTask => Decided'
<1> SUFFICES ASSUME IInv, Decided, DecideTask PROVE Decided'
  OBVIOUS
<1> DEFINE task == <<pipeline, cursor>>
<1>1. /\ task \in Tasks /\ document' = document /\ phase = "tasks" /\ phase' = "tasks"
      /\ pipeline' = pipeline /\ cursor' = cursor + 1
      /\ decisions' = decisions \cup ({task} \X ConstructsOfTask(document, task))
  BY DEF IInv, DecideTask, Position, Tasks
<1>2. \A t \in Tasks : t[1] = pipeline /\ t[2] < cursor + 1
                         <=> (t[1] = pipeline /\ t[2] < cursor) \/ t = task
  BY TaskIndices, SizesAssumption DEF DecideTask
<1>3. TasksDecided'
  <2>1. \A t \in Tasks : TaskRead(t)' <=> TaskRead(t) \/ t = task
    BY <1>1, <1>2 DEF TaskRead
  <2>2. \A t \in Tasks : \A c :
          <<t, c>> \in decisions' <=>
            <<t, c>> \in decisions \/ (t = task /\ c \in ConstructsOfTask(document, t))
    BY <1>1
  <2> HIDE DEF task
  <2> QED
    BY <1>1, <2>1, <2>2 DEF Decided, TasksDecided
<1>4. MembersDecided'
  <2>1. \A m \in Members : \A c : <<m, c>> \in decisions' <=> <<m, c>> \in decisions
    <3>1. task \notin Members
      BY <1>1, IdentifiersUnique
    <3> HIDE DEF task
    <3> QED
      BY <1>1, <3>1
  <2> QED
    BY <1>1, <2>1 DEF Decided, MembersDecided, ErrorsRead, UsesRead
<1> QED
  BY <1>3, <1>4 DEF Decided

LEMMA PropagationDecided ==
  IInv /\ Decided /\ (StartPropagation \/ PropagateTask \/ RepeatPass \/ EndPipeline) => Decided'
<1> SUFFICES ASSUME IInv, Decided,
                    StartPropagation \/ PropagateTask \/ RepeatPass \/ EndPipeline
             PROVE  Decided'
  OBVIOUS
<1>1. /\ UNCHANGED <<document, decisions>>
      /\ phase \in {"tasks", "propagate"}
      /\ phase' \in {"tasks", "propagate", "analysed"}
  BY DEF StartPropagation, PropagateTask, RepeatPass, EndPipeline
<1>2. \A m \in Members : (ErrorsRead(m)' <=> ErrorsRead(m)) /\ (UsesRead(m)' <=> UsesRead(m))
  BY <1>1 DEF ErrorsRead, UsesRead
<1>3. \A t \in Tasks : TaskRead(t)' <=> TaskRead(t)
  <2>1. CASE StartPropagation
    <3>1. \A t \in Tasks : t[2] < cursor
      BY <2>1, TaskIndices, SizesAssumption DEF StartPropagation
    <3> QED
      BY <2>1, <3>1 DEF StartPropagation, TaskRead
  <2>2. CASE PropagateTask \/ RepeatPass
    BY <2>2 DEF PropagateTask, RepeatPass, TaskRead
  <2>3. CASE EndPipeline
    <3>1. pipeline \in Pipelines /\ pipeline' = pipeline + 1 /\ cursor' = 1
          /\ phase = "propagate" /\ phase' \in {"tasks", "analysed"}
          /\ (phase' = "analysed" => pipeline' \notin Pipelines)
      BY <2>3 DEF IInv, Position, EndPipeline
    <3>2. \A t \in Tasks : /\ t[1] < pipeline + 1 <=> t[1] < pipeline \/ t[1] = pipeline
                           /\ ~(t[2] < 1)
      BY <3>1, TaskIndices, SizesAssumption DEF Pipelines
    <3>3. \A t \in Tasks : t[1] \in Pipelines
      BY TaskIndices
    <3> QED
      BY <3>1, <3>2, <3>3 DEF TaskRead
  <2> QED
    BY <2>1, <2>2, <2>3
<1> QED
  BY <1>1, <1>2, <1>3, DecidedStable

LEMMA DecidedStep == IInv /\ Decided /\ [Next]_vars => Decided'
<1>1. Decided /\ UNCHANGED vars => Decided'
  BY DEF vars, Decided, MembersDecided, TasksDecided, ErrorsRead, UsesRead, TaskRead
<1> QED
  BY <1>1, MemberScanStep, EndDataflowsDecided, DecideTaskDecided, PropagationDecided DEF Next

\* A least closed set holds no task without a reason: taking such a task away
\* would leave a smaller set, closed all the same.
LEMMA LeastIsJustified ==
  ASSUME NEW S \in SUBSET Tasks, Minimal(S), Seeds(document) \subseteq S,
         DownstreamClosed(document, S), NEW t \in S, t \notin Seeds(document)
  PROVE  Upstream(document, t) \cap S # {}
<1> SUFFICES ASSUME Upstream(document, t) \cap S = {} PROVE FALSE
  OBVIOUS
<1>1. DownstreamClosed(document, S \ {t})
  BY DEF DownstreamClosed
<1>2. Seeds(document) \subseteq S \ {t} /\ S \ {t} \in SUBSET Tasks
  OBVIOUS
<1> QED
  BY <1>1, <1>2 DEF Minimal

LEMMA DecidedImplies == IInv /\ Decided => BlocksMatchDecisions
<1> SUFFICES ASSUME IInv, Decided, phase = "analysed"
             PROVE  /\ \A d \in Dataflows : d \in blockedDataflows <=> DataflowExplained(d)
                    /\ \A t \in Tasks : t \in blockedTasks <=>
                         \/ BlockedDecision(t)
                         \/ document.dataflow[t] \in blockedDataflows
                         \/ Upstream(document, t) \cap blockedTasks # {}
  BY DEF BlocksMatchDecisions
<1>1. /\ document \in DocumentType /\ blockedTasks \in SUBSET Tasks
      /\ blockedDataflows = BadDataflows /\ pipeline = NumPipelines + 1
  BY DEF IInv, TypeOK, Position, DataflowsScanned
<1>2. IsBlocked(InvariantConstruct) /\ InvariantConstruct \in Constructs
  BY InvariantsUndeclared DEF IsBlocked, StateOf, Constructs
<1>3. ASSUME NEW d \in Dataflows
      PROVE  d \in blockedDataflows <=> DataflowExplained(d)
  <2>1. \A m \in Members : document.uses[m] \subseteq Constructs
    BY <1>1 DEF DocumentType, Constructs
  <2>2. \A m \in Members : BlockedDecision(m) <=>
          m \in document.errors \/ \E c \in document.uses[m] : IsBlocked(c)
    BY <1>2, <2>1 DEF Decided, MembersDecided, ErrorsRead, UsesRead, BlockedDecision
  <2>3. MembersOf(document, d) \subseteq Members
    BY DEF MembersOf
  <2> QED
    BY <1>1, <2>2, <2>3 DEF DataflowExplained, BadDataflows, BadDataflow, Erroneous, Unsupported
<1>4. ASSUME NEW t \in Tasks
      PROVE  t \in blockedTasks <=>
               \/ BlockedDecision(t)
               \/ document.dataflow[t] \in blockedDataflows
               \/ Upstream(document, t) \cap blockedTasks # {}
  <2>1. TaskRead(t)
    BY <1>1, TaskIndices, SizesAssumption DEF TaskRead, Pipelines
  <2>2. BlockedDecision(t) <=> \E c \in ConstructsOfTask(document, t) : IsBlocked(c)
    BY <1>1, <2>1, ConstructsTyped DEF Decided, TasksDecided, BlockedDecision
  <2>3. t \in Seeds(document) <=> BlockedDecision(t) \/ document.dataflow[t] \in blockedDataflows
    BY <1>1, <2>2, SeedTest DEF IsSeed
  <2>4. Seeds(document) \subseteq blockedTasks /\ DownstreamClosed(document, blockedTasks)
        /\ Minimal(blockedTasks)
    BY FinishedIsLeast
  <2>5. t \in blockedTasks /\ t \notin Seeds(document)
          => Upstream(document, t) \cap blockedTasks # {}
    BY <1>1, <2>4, LeastIsJustified
  <2> QED
    BY <2>3, <2>4, <2>5 DEF DownstreamClosed
<1> QED
  BY <1>3, <1>4

-----------------------------------------------------------------------------
\* The analysis keeps the types of its variables (analyze, every variable).
THEOREM TypeCorrect == Spec => []TypeOK
<1>1. Init => IInv
  BY IInvInit
<1>2. IInv /\ [Next]_vars => IInv'
  BY IInvStep
<1>3. IInv => TypeOK
  BY DEF IInv
<1> QED
  BY <1>1, <1>2, <1>3, PTL DEF Spec

\* The tasks reported blocked are exactly those that the target cannot run and
\* those downstream of one, for every document and manifest: no smaller downstream-closed
\* set holds the seeds (the fixed point of analyze's passes).
THEOREM LeastClosure == Spec => []BlockedIsLeastClosure
<1>1. Init => IInv
  BY IInvInit
<1>2. IInv /\ [Next]_vars => IInv'
  BY IInvStep
<1>3. IInv => BlockedIsLeastClosure
  BY IInvImplies
<1> QED
  BY <1>1, <1>2, <1>3, PTL DEF Spec

\* Nothing is blocked silently and no blocked decision is without effect: for every
\* document and manifest, the dataflows and tasks reported blocked are those with a
\* blocked decision, a preflight reason, a blocked dataflow or a blocked upstream
\* task (analyze, decide and blocked_dataflow_ids, blocked_task_ids of the report).
THEOREM BlocksExplained == Spec => []BlocksMatchDecisions
<1>1. Init => IInv /\ Decided
  BY IInvInit, DecidedInit
<1>2. IInv /\ Decided /\ [Next]_vars => IInv' /\ Decided'
  BY IInvStep, DecidedStep
<1>3. IInv /\ Decided => BlocksMatchDecisions
  BY DecidedImplies
<1> QED
  BY <1>1, <1>2, <1>3, PTL DEF Spec


-----------------------------------------------------------------------------
(* Job names. *)

LEMMA LeastNumber ==
  ASSUME NEW S \in SUBSET Nat, S # {}
  PROVE  \E n \in S : \A m \in S : n <= m
<1> DEFINE Less == {ss \in Nat \X Nat : ss[1] < ss[2]}
<1>1. IsWellFoundedOn(Less, Nat)
  BY NatLessThanWellFounded DEF OpToRel
<1>2. PICK n \in S : \A m \in S : ~ (<<m, n>> \in Less)
  <2> HIDE DEF Less
  <2> QED BY <1>1, WFMin, Zenon
<1>3. \A m \in S : ~ (m < n)
  BY <1>2
<1> QED
  BY <1>3

LEMMA CandidatesDiffer ==
  ASSUME NEW name \in Seq(Nat), NEW n \in Nat \ {0}, NEW m \in Nat \ {0},
         Candidate(name, n) = Candidate(name, m)
  PROVE  n = m
<1>1. \A k \in Nat : Len(Append(name, k)) = Len(name) + 1 /\ Append(name, k)[Len(name) + 1] = k
  OBVIOUS
<1>2. Len(name) \in Nat /\ Len(name) # Len(name) + 1
  OBVIOUS
<1>3. CASE n = 1 \/ m = 1
  BY <1>1, <1>2, <1>3 DEF Candidate
<1>4. CASE n # 1 /\ m # 1
  <2>1. Append(name, n) = Append(name, m)
    BY <1>4 DEF Candidate
  <2>2. Append(name, n)[Len(name) + 1] = n /\ Append(name, m)[Len(name) + 1] = m
    BY <1>1
  <2> QED
    BY <2>1, <2>2
<1> QED
  BY <1>3, <1>4

LEMMA FreeCandidate ==
  ASSUME NEW name \in Seq(Nat), NEW used, IsFiniteSet(used)
  PROVE  \E n \in 1 .. Cardinality(used) + 1 : Candidate(name, n) \notin used
<1> DEFINE N == Cardinality(used)
           S == 1 .. N + 1
<1>1. N \in Nat
  BY FS_CardinalityType
<1>2. IsFiniteSet(S) /\ Cardinality(S) = N + 1
  <2>1. 1 \in Int /\ N + 1 \in Int /\ ~(1 > N + 1) /\ (N + 1) - 1 + 1 = N + 1
    BY <1>1
  <2> HIDE DEF N
  <2> QED
    BY <2>1, FS_Interval
<1>3. SUFFICES ASSUME \A n \in S : Candidate(name, n) \in used PROVE FALSE
  OBVIOUS
<1> DEFINE f == [n \in S |-> Candidate(name, n)]
<1>4. f \in [S -> used]
  BY <1>3
<1>5. N < N + 1
  BY <1>1
<1>6. \E x, y \in S : x # y /\ f[x] = f[y]
  <2> HIDE DEF f, S
  <2> QED BY <1>2, <1>4, <1>5, FS_PigeonHole
<1>7. \A x \in S : x \in Nat \ {0} /\ f[x] = Candidate(name, x)
  BY <1>1
<1> QED
  BY <1>6, <1>7, CandidatesDiffer

\* The name a job gets is one no job has.
LEMMA JobNameIsFree ==
  ASSUME NEW name \in Seq(Nat), NEW used, IsFiniteSet(used)
  PROVE  JobName(name, used) \notin used /\ JobName(name, used) \in Seq(Nat)
<1> DEFINE free == {n \in 1 .. Cardinality(used) + 1 : Candidate(name, n) \notin used}
           least == CHOOSE n \in free : \A m \in free : n <= m
<1>1. free \in SUBSET Nat /\ free # {}
  BY FreeCandidate, FS_CardinalityType
<1>2. \E n \in free : \A m \in free : n <= m
  <2> HIDE DEF free
  <2> QED BY <1>1, LeastNumber
<1>3. least \in free
  <2> HIDE DEF free
  <2> QED BY <1>2
<1>4. JobName(name, used) = Candidate(name, least)
  BY DEF JobName
<1>5. least \in Nat /\ Candidate(name, least) \notin used
  BY <1>1, <1>3
<1> HIDE DEF least
<1> QED
  BY <1>4, <1>5 DEF Candidate

-----------------------------------------------------------------------------
(* Emission. *)

EmitInv ==
  /\ IsFiniteSet(taken)
  /\ emitting \in Nat
  /\ stage \in {"analyse", "emit", "planned"}
  /\ stage # "analyse" => phase = "analysed"
  /\ \A d \in DOMAIN commands : d \in Dataflows \ blockedDataflows /\ commands[d] \in taken
  /\ \A d, e \in DOMAIN commands : commands[d] = commands[e] => d = e
  /\ stage = "analyse" => DOMAIN commands = {}
  /\ \A d \in DOMAIN commands : d < emitting
  /\ stage = "planned" => plan = [t \in Tasks |-> PlanTask(t)]

LEMMA EmitInit == PackageInit => EmitInv
BY FS_EmptySet DEF PackageInit, EmitInv

LEMMA AnalyseKeeps ==
  ASSUME EmitInv, [Next]_vars, UNCHANGED emitVars, stage = "analyse"
  PROVE  EmitInv'
BY DEF EmitInv, emitVars

LEMMA EmitStep ==
  ASSUME EmitInv, NEW name \in BaseNames, EmitJob(name) PROVE EmitInv'
<1> DEFINE job == JobName(name, taken)
<1>1. job \notin taken
  BY BaseNamesAssumption, JobNameIsFree DEF EmitInv
<1>2. /\ stage = "emit" /\ stage' = "emit" /\ phase' = phase
      /\ emitting \in Dataflows \ blockedDataflows /\ emitting' = emitting + 1
      /\ taken' = taken \cup {job} /\ blockedDataflows' = blockedDataflows
      /\ commands' = [d \in DOMAIN commands \cup {emitting} |->
                        IF d = emitting THEN job ELSE commands[d]]
  BY DEF EmitJob, vars
<1> HIDE DEF job
<1>3. IsFiniteSet(taken')
  BY <1>2, FS_AddElement DEF EmitInv
<1>4. \A d \in DOMAIN commands : d \in Nat /\ d # emitting /\ d < emitting + 1
  BY SizesAssumption DEF EmitInv, Dataflows
<1>5. /\ DOMAIN commands' = DOMAIN commands \cup {emitting}
      /\ commands'[emitting] = job
      /\ \A d \in DOMAIN commands : commands'[d] = commands[d]
  BY <1>2, <1>4
<1>6. \A d \in DOMAIN commands' : d \in Dataflows \ blockedDataflows /\ commands'[d] \in taken'
  BY <1>2, <1>5 DEF EmitInv
<1>7. \A d, e \in DOMAIN commands' : commands'[d] = commands'[e] => d = e
  BY <1>1, <1>5 DEF EmitInv
<1>8. \A d \in DOMAIN commands' : d < emitting'
  BY <1>2, <1>4, <1>5 DEF EmitInv
<1>9. emitting' \in Nat
  BY <1>2 DEF EmitInv
<1> QED
  BY <1>2, <1>3, <1>6, <1>7, <1>8, <1>9 DEF EmitInv

LEMMA EmitInvStep == EmitInv /\ [PackageNext]_packageVars => EmitInv'
<1> SUFFICES ASSUME EmitInv, [PackageNext]_packageVars PROVE EmitInv'
  OBVIOUS
<1>1. CASE Analyse
  BY <1>1, AnalyseKeeps DEF Analyse
<1>2. CASE StartEmission
  BY <1>2 DEF StartEmission, EmitInv, vars
<1>3. \A d \in DOMAIN commands : d \in Nat /\ (emitting \in Nat => d < emitting + 1)
  BY SizesAssumption DEF EmitInv, Dataflows
<1>4. CASE SkipBlocked
  <2>1. /\ emitting' = emitting + 1 /\ stage' = "emit" /\ stage = "emit"
        /\ UNCHANGED <<phase, blockedDataflows, taken, commands>>
    BY <1>4 DEF SkipBlocked, vars
  <2> QED
    BY <1>3, <2>1 DEF EmitInv
<1>5. ASSUME NEW name \in BaseNames, EmitJob(name) PROVE EmitInv'
  BY <1>5, EmitStep
<1>6. ASSUME NEW name \in BaseNames, Unlowerable(name) PROVE EmitInv'
  <2>1. /\ emitting' = emitting + 1 /\ stage' = "emit" /\ stage = "emit"
        /\ taken' = taken \cup {JobName(name, taken)}
        /\ UNCHANGED <<phase, blockedDataflows, commands>>
    BY <1>6 DEF Unlowerable, vars
  <2>2. IsFiniteSet(taken')
    BY <2>1, FS_AddElement DEF EmitInv
  <2> QED
    BY <1>3, <2>1, <2>2 DEF EmitInv
<1>7. CASE BuildPlan
  <2>1. /\ UNCHANGED <<document, phase, blockedDataflows, blockedTasks, decisions>>
        /\ UNCHANGED <<emitting, taken, commands>>
        /\ stage = "emit" /\ stage' = "planned" /\ plan' = [t \in Tasks |-> PlanTask(t)]
    BY <1>7 DEF BuildPlan, vars
  <2>2. \A t : PlanTask(t)' = PlanTask(t)
    <3>1. UNCHANGED <<document, blockedTasks, decisions, commands>>
      BY <2>1
    <3> QED
      BY ONLY <3>1 DEF PlanTask, PlanCommand, IsBlockedInPlan, TaskReasons, BlockedConstructs
  <2>3. plan' = [t \in Tasks |-> PlanTask(t)]'
    BY <2>1, <2>2
  <2> QED
    BY <2>1, <2>3 DEF EmitInv
<1>8. CASE UNCHANGED packageVars
  <2>1. UNCHANGED <<document, phase, blockedDataflows, blockedTasks, decisions>> /\ UNCHANGED emitVars
    BY <1>8 DEF packageVars, vars
  <2>2. \A t : PlanTask(t)' = PlanTask(t)
    BY <2>1 DEF PlanTask, PlanCommand, IsBlockedInPlan, TaskReasons, BlockedConstructs, emitVars
  <2>3. [t \in Tasks |-> PlanTask(t)]' = [t \in Tasks |-> PlanTask(t)]
    BY <2>2
  <2> QED
    BY <2>1, <2>3 DEF EmitInv, emitVars
<1> QED
  BY <1>1, <1>2, <1>4, <1>5, <1>6, <1>7, <1>8 DEF PackageNext

\* The steps of the package are steps of the analysis, or leave it alone.
LEMMA AnalysisGoesOn ==
  /\ PackageInit => Init
  /\ [PackageNext]_packageVars => [Next]_vars
BY DEF PackageInit, PackageNext, packageVars, Analyse, StartEmission, SkipBlocked, EmitJob,
   Unlowerable, BuildPlan

PackageInv == IInv /\ Decided /\ EmitInv

\* What holds while a document is analysed, emitted and planned.
THEOREM PackageInvariant == PackageSpec => []PackageInv
<1>1. PackageInit => PackageInv
  BY AnalysisGoesOn, IInvInit, DecidedInit, EmitInit DEF PackageInv
<1>2. PackageInv /\ [PackageNext]_packageVars => PackageInv'
  BY AnalysisGoesOn, IInvStep, DecidedStep, EmitInvStep DEF PackageInv
<1> QED
  BY <1>1, <1>2, PTL DEF PackageSpec

\* The names of jobs are names, and emission stays within the dataflows.
EmitTyped == taken \subseteq Seq(Nat) /\ emitting \in 1 .. NumDataflows + 1

LEMMA EmitTypedInit == PackageInit => EmitTyped
BY SizesAssumption DEF PackageInit, EmitTyped

LEMMA EmitTypedStep == PackageInv /\ EmitTyped /\ [PackageNext]_packageVars => EmitTyped'
<1> SUFFICES ASSUME PackageInv, EmitTyped, [PackageNext]_packageVars PROVE EmitTyped'
  OBVIOUS
<1>1. blockedDataflows \subseteq Dataflows /\ IsFiniteSet(taken)
  BY DEF PackageInv, IInv, TypeOK, EmitInv
<1>2. ASSUME emitting \in Dataflows, emitting' = emitting + 1
      PROVE  emitting' \in 1 .. NumDataflows + 1
  BY <1>2, SizesAssumption DEF Dataflows
<1>3. \A name \in BaseNames : JobName(name, taken) \in Seq(Nat)
  BY <1>1, BaseNamesAssumption, JobNameIsFree
<1>4. CASE Analyse
  BY <1>4 DEF Analyse, emitVars, EmitTyped
<1>5. CASE StartEmission
  BY <1>5 DEF StartEmission, EmitTyped
<1>6. CASE SkipBlocked
  BY <1>1, <1>2, <1>6 DEF SkipBlocked, EmitTyped
<1>7. ASSUME NEW name \in BaseNames, EmitJob(name) PROVE EmitTyped'
  BY <1>2, <1>3, <1>7 DEF EmitJob, EmitTyped
<1>8. ASSUME NEW name \in BaseNames, Unlowerable(name) PROVE EmitTyped'
  BY <1>2, <1>3, <1>8 DEF Unlowerable, EmitTyped
<1>9. CASE BuildPlan
  BY <1>9 DEF BuildPlan, EmitTyped
<1>10. CASE UNCHANGED packageVars
  BY <1>10 DEF packageVars, emitVars, EmitTyped
<1> QED
  BY <1>4, <1>5, <1>6, <1>7, <1>8, <1>9, <1>10 DEF PackageNext

\* The variables of the analysis, of emission and of the plan keep their types while a
\* document is analysed, its jobs are rendered and its plan is built.
THEOREM PackageTypes == PackageSpec => []PackageTypeOK
<1>1. ASSUME PackageInv, EmitTyped PROVE PackageTypeOK
  <2>1. stage = "planned" => \A t \in Tasks : plan[t].status \in {"runnable", "blocked"}
    BY <1>1 DEF PackageInv, EmitInv, PlanTask
  <2> QED
    BY <1>1, <2>1 DEF PackageInv, IInv, EmitInv, EmitTyped, PackageTypeOK
<1> QED
  BY <1>1, PackageInvariant, EmitTypedInit, EmitTypedStep, PTL DEF PackageSpec

-----------------------------------------------------------------------------
(* What the plan promises. *)

LEMMA PlannedCommands ==
  ASSUME EmitInv, stage = "planned", NEW t \in Tasks,
         plan[t].command \notin {NoCommand, Notify}
  PROVE  /\ t \notin blockedTasks
         /\ document.dataflow[t] \in DOMAIN commands
         /\ plan[t].command = Job(commands[document.dataflow[t]])
<1>1. plan[t] = PlanTask(t)
  BY DEF EmitInv
<1>2. plan[t].command = PlanCommand(t)
  BY <1>1 DEF PlanTask
<1>3. /\ ~IsBlockedInPlan(t) /\ document.dataflow[t] # NoDataflow
      /\ plan[t].command = Job(commands[document.dataflow[t]])
  BY <1>2 DEF PlanCommand
<1> QED
  BY <1>3 DEF IsBlockedInPlan

\* A task with a job launches the script of its own dataflow, which the analysis has not
\* blocked, and neither has it blocked the task or one it depends on; what is blocked later,
\* because its job could not be rendered, is not covered (build_workflow_plan and job_name,
\* after analyze).
THEOREM LaunchesCorrect == PackageSpec => []LaunchesOnlySupported
<1>1. ASSUME PackageInv PROVE LaunchesOnlySupported
  <2>1. SUFFICES ASSUME stage = "planned", NEW t \in Tasks,
                        plan[t].command \notin {NoCommand, Notify}
                 PROVE  LET d == document.dataflow[t] IN
                          /\ d \in DOMAIN commands
                          /\ plan[t].command = Job(commands[d])
                          /\ \A e \in DOMAIN commands : commands[e] = commands[d] => e = d
                          /\ ~BadDataflow(document, d)
                          /\ t \notin Seeds(document)
                          /\ Upstream(document, t) \cap blockedTasks = {}
    BY DEF LaunchesOnlySupported
  <2> DEFINE d == document.dataflow[t]
  <2>2. IInv /\ EmitInv /\ phase = "analysed"
    BY <1>1, <2>1 DEF PackageInv, EmitInv
  <2>3. t \notin blockedTasks /\ d \in DOMAIN commands /\ plan[t].command = Job(commands[d])
    BY <2>1, <2>2, PlannedCommands
  <2>4. d \in Dataflows \ blockedDataflows
        /\ \A e \in DOMAIN commands : commands[e] = commands[d] => e = d
    BY <2>2, <2>3 DEF EmitInv
  <2>5. blockedDataflows = BadDataflows
    BY <2>2 DEF IInv, DataflowsScanned
  <2>6. ~BadDataflow(document, d)
    BY <2>4, <2>5 DEF BadDataflows
  <2>7. Seeds(document) \subseteq blockedTasks /\ DownstreamClosed(document, blockedTasks)
    BY <2>2, IInvImplies DEF BlockedIsLeastClosure
  <2>8. t \notin Seeds(document) /\ Upstream(document, t) \cap blockedTasks = {}
    BY <2>1, <2>3, <2>7 DEF DownstreamClosed
  <2> HIDE DEF d
  <2> QED
    BY <2>3, <2>4, <2>6, <2>8 DEF d
<1> QED
  BY <1>1, PackageInvariant, PTL

\* A blocked decision is among the constructs that task_reasons finds blocked.
LEMMA DecisionsGiveReasons ==
  ASSUME NEW subject, BlockedDecision(subject)
  PROVE  BlockedConstructs(subject) # {}
BY DEF BlockedDecision, BlockedConstructs

LEMMA BlockHasReason ==
  ASSUME IInv, Decided, phase = "analysed", NEW t \in blockedTasks
  PROVE  TaskReasons(t) # {}
<1> DEFINE d      == document.dataflow[t]
           own    == {<<"own", c>> : c \in BlockedConstructs(t)}
           member == UNION {{<<"dataflow", c>> : c \in BlockedConstructs(m)} :
                              m \in MembersOf(document, d)}
           extra  == {<<"preflight">> : x \in document.preflight \cap {d}}
           native == {<<"unsupported_reason">> : x \in {document.kind[t]} \cap {"unsupported"}}
           r      == own \cup member \cup extra \cup native
           upstream == {x.on : x \in document.deps[t]} \cap blockedTasks
<1>1. TaskReasons(t) = IF r = {} /\ upstream # {} THEN {<<"depends on blocked">>} ELSE r
  BY DEF TaskReasons
<1>2. SUFFICES r # {} \/ upstream # {}
  <2> HIDE DEF r, upstream
  <2> QED BY <1>1
<1>3. t \in Tasks /\ blockedDataflows \subseteq Dataflows
  BY DEF IInv, TypeOK
<1>4. \/ BlockedDecision(t)
      \/ d \in blockedDataflows
      \/ Upstream(document, t) \cap blockedTasks # {}
  BY <1>3, DecidedImplies DEF BlocksMatchDecisions
<1>5. CASE BlockedDecision(t)
  <2>1. PICK c : c \in BlockedConstructs(t)
    BY <1>5, DecisionsGiveReasons
  <2>2. <<"own", c>> \in own
    BY <2>1
  <2> QED
    BY <2>2
<1>6. CASE d \in blockedDataflows
  <2>1. d \in document.preflight \/ \E m \in MembersOf(document, d) : BlockedDecision(m)
    BY <1>3, <1>6, DecidedImplies DEF BlocksMatchDecisions, DataflowExplained
  <2>2. CASE d \in document.preflight
    BY <2>2
  <2>3. CASE \E m \in MembersOf(document, d) : BlockedDecision(m)
    <3>1. PICK m \in MembersOf(document, d) : BlockedDecision(m)
      BY <2>3
    <3>2. PICK c : c \in BlockedConstructs(m)
      BY <3>1, DecisionsGiveReasons
    <3>3. <<"dataflow", c>> \in member
      BY <3>1, <3>2
    <3> QED
      BY <3>3
  <2> QED
    BY <2>1, <2>2, <2>3
<1>7. CASE Upstream(document, t) \cap blockedTasks # {}
  BY <1>7 DEF Upstream
<1> QED
  BY <1>4, <1>5, <1>6, <1>7

\* Whatever the analysis blocked is blocked in the plan, with a recorded reason (task_reasons).
THEOREM ReasonsCorrect == PackageSpec => []AnalysisBlocksHaveReasons
<1>1. ASSUME PackageInv PROVE AnalysisBlocksHaveReasons
  <2>1. SUFFICES ASSUME stage = "planned", NEW t \in blockedTasks
                 PROVE  plan[t].status = "blocked" /\ plan[t].reasons # {}
    BY DEF AnalysisBlocksHaveReasons
  <2>2. t \in Tasks /\ phase = "analysed" /\ plan[t] = PlanTask(t)
    BY <1>1, <2>1 DEF PackageInv, EmitInv, IInv, TypeOK
  <2>3. IsBlockedInPlan(t)
    BY <2>1 DEF IsBlockedInPlan
  <2>4. TaskReasons(t) # {}
    BY <1>1, <2>1, <2>2, BlockHasReason DEF PackageInv
  <2> QED
    BY <2>2, <2>3, <2>4 DEF PlanTask
<1> QED
  BY <1>1, PackageInvariant, PTL
=============================================================================

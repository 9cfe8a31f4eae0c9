------------------------- MODULE CapabilityAnalysis -------------------------
(***************************************************************************)
(* Capability analysis of a canonical document against the manifest of a   *)
(* target (src/etlir/capabilities.py, analyze): which dataflows and which  *)
(* tasks the target may not run.                                           *)
(*                                                                         *)
(* The analysis is a sequence of loops.  Three of them scan the document   *)
(* (structural errors, constructs of the dataflows, constructs of the      *)
(* tasks); the last one repeats passes over the tasks of a pipeline, each  *)
(* pass updating in place the set of blocked tasks it tests, until a pass  *)
(* changes nothing.  One action is one iteration of a loop.                *)
(*                                                                         *)
(* Identifiers are positions in the document: dataflow d is the d-th one,  *)
(* task <<p, i>> the i-th task of pipeline p.  The members of a dataflow   *)
(* are the identifiers its diagnostics may be about: the dataflow's own,   *)
(* those of its operations and those of its expressions.                   *)
(***************************************************************************)
EXTENDS Naturals

CONSTANTS
  NumDataflows,     \* dataflows of a document
  NumPipelines,     \* pipelines of a document
  NumTasks,         \* tasks of each pipeline
  Members,          \* identifiers of dataflows, operations and expressions
  MemberConstructs, \* constructs that operations and expressions use
  Manifest,         \* declared construct -> its capability state
  Documents         \* the documents that are analysed

Dataflows == 1 .. NumDataflows
Pipelines == 1 .. NumPipelines
Tasks     == Pipelines \X (1 .. NumTasks)

UnknownTask     == <<0, 0>>          \* a dependency on an id no task has
NoDataflow      == 0                 \* dataflow_id is None
UnknownDataflow == NumDataflows + 1  \* a dataflow_id no dataflow has

CapabilityStates == {"supported", "constrained", "approximated", "blocked"}
TaskKinds        == {"dataflow", "notify", "command", "unsupported"}
Conditions       == {"success", "failure", "completion", "expression"}
Dependencies     == [on : Tasks \cup {UnknownTask}, condition : Conditions]

InvariantConstruct == <<"invariant", "IR-V">>
TaskConstructs ==
  ({"task"} \X TaskKinds) \cup ({"dependency"} \X Conditions) \cup {<<"trigger", "any">>}
Constructs == MemberConstructs \cup TaskConstructs \cup {InvariantConstruct}

DocumentType ==
  [ owner     : [Members -> Dataflows],            \* the dataflow of a member
    uses      : [Members -> SUBSET MemberConstructs],
    errors    : SUBSET Members,                    \* subjects of validation errors
    preflight : SUBSET Dataflows,                  \* extra_blocked of the emitter
    kind      : [Tasks -> TaskKinds],
    dataflow  : [Tasks -> 0 .. UnknownDataflow],
    deps      : [Tasks -> SUBSET Dependencies],
    anyTrigger: SUBSET Tasks ]

ASSUME SizesAssumption ==
  NumDataflows \in Nat /\ NumPipelines \in Nat /\ NumTasks \in Nat
\* Identifiers are unique in a document (IR-V-001): a decision is about a member or a task.
ASSUME IdentifiersUnique == Members \cap Tasks = {}
ASSUME DocumentsAssumption == Documents \subseteq DocumentType
ASSUME ManifestAssumption ==
  /\ DOMAIN Manifest \subseteq Constructs
  /\ \A c \in DOMAIN Manifest : Manifest[c] \in CapabilityStates
\* No manifest of the repository declares an invariant code as a construct.
ASSUME InvariantsUndeclared == InvariantConstruct \notin DOMAIN Manifest

-----------------------------------------------------------------------------
(* What the analysis reads off the document. *)

\* A construct the manifest does not mention is blocked.
StateOf(c) == IF c \in DOMAIN Manifest THEN Manifest[c] ELSE "blocked"
IsBlocked(c) == StateOf(c) = "blocked"

MembersOf(doc, d) == {m \in Members : doc.owner[m] = d}

ConstructsOfTask(doc, t) ==
  {<<"task", doc.kind[t]>>}
    \cup {<<"dependency", d.condition>> : d \in doc.deps[t]}
    \cup (IF t \in doc.anyTrigger THEN {<<"trigger", "any">>} ELSE {})

Erroneous(doc, d)   == \E m \in MembersOf(doc, d) : m \in doc.errors
Unsupported(doc, d) == \E m \in MembersOf(doc, d) : \E c \in doc.uses[m] : IsBlocked(c)

\* The upstream tasks of t that the loop over its own pipeline can see blocked.
Upstream(doc, t) == {u \in Tasks : u[1] = t[1] /\ \E d \in doc.deps[t] : d.on = u}

-----------------------------------------------------------------------------
VARIABLES
  document,         \* the document, and with it extra_blocked
  phase,            \* the loop being executed
  pipeline,         \* the pipeline of the task loops
  cursor,           \* position of the current loop
  changed,          \* the flag of the propagation passes
  blockedDataflows,
  blocked,          \* blocked tasks of the current pipeline
  blockedTasks,     \* blocked_task_ids, of the pipelines already finished
  decisions         \* <<subject, construct>>, each decided once (seen)

vars == <<document, phase, pipeline, cursor, changed, blockedDataflows,
          blocked, blockedTasks, decisions>>

Phases == {"invariants", "constructs", "tasks", "propagate", "analysed"}

TypeOK ==
  /\ document \in DocumentType
  /\ phase \in Phases
  /\ pipeline \in Nat
  /\ cursor \in Nat
  /\ changed \in BOOLEAN
  /\ blockedDataflows \subseteq Dataflows
  /\ blocked \subseteq Tasks
  /\ blockedTasks \subseteq Tasks
  /\ decisions \subseteq (Members \cup Tasks) \X Constructs

Init ==
  /\ document \in Documents
  /\ phase = "invariants"
  /\ pipeline = 1
  /\ cursor = 1
  /\ changed = FALSE
  /\ blockedDataflows = document.preflight
  /\ blocked = {}
  /\ blockedTasks = {}
  /\ decisions = {}

\* Mutant of ScanInvariants: the block is not recorded as a decision.
ScanInvariantsSilently ==
  /\ phase = "invariants"
  /\ cursor \in Dataflows
  /\ blockedDataflows' = blockedDataflows \cup {d \in {cursor} : Erroneous(document, d)}
  /\ cursor' = cursor + 1
  /\ UNCHANGED <<document, phase, pipeline, changed, blocked, blockedTasks, decisions>>

\* A dataflow with a structural error is blocked whatever the target supports.
ScanInvariants ==
  /\ phase = "invariants"
  /\ cursor \in Dataflows
  /\ blockedDataflows' = blockedDataflows \cup {d \in {cursor} : Erroneous(document, d)}
  /\ decisions' = decisions
       \cup ((MembersOf(document, cursor) \cap document.errors) \X {InvariantConstruct})
  /\ cursor' = cursor + 1
  /\ UNCHANGED <<document, phase, pipeline, changed, blocked, blockedTasks>>

ScanConstructs ==
  /\ phase = "constructs"
  /\ cursor \in Dataflows
  /\ blockedDataflows' = blockedDataflows \cup {d \in {cursor} : Unsupported(document, d)}
  /\ decisions' = decisions
       \cup UNION {{m} \X document.uses[m] : m \in MembersOf(document, cursor)}
  /\ cursor' = cursor + 1
  /\ UNCHANGED <<document, phase, pipeline, changed, blocked, blockedTasks>>

\* The end of a loop over the dataflows, and the start of the next loop.
EndDataflows ==
  /\ phase \in {"invariants", "constructs"}
  /\ cursor = NumDataflows + 1
  /\ IF phase = "invariants" THEN phase' = "constructs"
     ELSE IF pipeline \in Pipelines THEN phase' = "tasks"
     ELSE phase' = "analysed"
  /\ cursor' = 1
  /\ UNCHANGED <<document, pipeline, changed, blockedDataflows, blocked, blockedTasks, decisions>>

\* A task is blocked by its own constructs or by its dataflow.
IsSeed(doc, dataflows, t) ==
  \/ \E c \in ConstructsOfTask(doc, t) : IsBlocked(c)
  \/ doc.dataflow[t] \in dataflows

\* Mutant of DecideTask: a dependency is decided about the task it is on.
DecideTaskOnUpstream ==
  /\ phase = "tasks"
  /\ cursor \in 1 .. NumTasks
  /\ LET task == <<pipeline, cursor>> IN
       /\ blocked' = blocked \cup {t \in {task} : IsSeed(document, blockedDataflows, t)}
       /\ decisions' = decisions
            \cup {<<d.on, <<"dependency", d.condition>> >> : d \in document.deps[task]}
  /\ cursor' = cursor + 1
  /\ UNCHANGED <<document, phase, pipeline, changed, blockedDataflows, blockedTasks>>

DecideTask ==
  /\ phase = "tasks"
  /\ cursor \in 1 .. NumTasks
  /\ LET task == <<pipeline, cursor>> IN
       /\ blocked' = blocked \cup {t \in {task} : IsSeed(document, blockedDataflows, t)}
       /\ decisions' = decisions \cup ({task} \X ConstructsOfTask(document, task))
  /\ cursor' = cursor + 1
  /\ UNCHANGED <<document, phase, pipeline, changed, blockedDataflows, blockedTasks>>

\* The first pass: changed is set before the loop and cleared by the pass.
StartPropagation ==
  /\ phase = "tasks"
  /\ cursor = NumTasks + 1
  /\ phase' = "propagate"
  /\ cursor' = 1
  /\ changed' = FALSE
  /\ UNCHANGED <<document, pipeline, blockedDataflows, blocked, blockedTasks, decisions>>

\* Mutant of PropagateTask: the pass does not note that it blocked a task.
PropagateTaskUnnoted ==
  /\ phase = "propagate"
  /\ cursor \in 1 .. NumTasks
  /\ LET task == <<pipeline, cursor>> IN
       blocked' = blocked \cup {t \in {task} : Upstream(document, t) \cap blocked # {}}
  /\ cursor' = cursor + 1
  /\ UNCHANGED <<document, phase, pipeline, changed, blockedDataflows, blockedTasks, decisions>>

\* Mutant of PropagateTask: a task that is blocked already counts as a change.
PropagateTaskAgain ==
  /\ phase = "propagate"
  /\ cursor \in 1 .. NumTasks
  /\ LET task == <<pipeline, cursor>> IN
       IF Upstream(document, task) \cap blocked # {}
         THEN blocked' = blocked \cup {task} /\ changed' = TRUE
         ELSE UNCHANGED <<blocked, changed>>
  /\ cursor' = cursor + 1
  /\ UNCHANGED <<document, phase, pipeline, blockedDataflows, blockedTasks, decisions>>

\* One task of a pass; a task blocked here is seen blocked by the rest of the pass.
PropagateTask ==
  /\ phase = "propagate"
  /\ cursor \in 1 .. NumTasks
  /\ LET task == <<pipeline, cursor>> IN
       IF task \notin blocked /\ Upstream(document, task) \cap blocked # {}
         THEN blocked' = blocked \cup {task} /\ changed' = TRUE
         ELSE UNCHANGED <<blocked, changed>>
  /\ cursor' = cursor + 1
  /\ UNCHANGED <<document, phase, pipeline, blockedDataflows, blockedTasks, decisions>>

\* Another pass follows a pass that blocked a task.
RepeatPass ==
  /\ phase = "propagate"
  /\ cursor = NumTasks + 1
  /\ changed
  /\ cursor' = 1
  /\ changed' = FALSE
  /\ UNCHANGED <<document, phase, pipeline, blockedDataflows, blocked, blockedTasks, decisions>>

\* The fixed point of this pipeline; the next pipeline, or the report.
EndPipeline ==
  /\ phase = "propagate"
  /\ cursor = NumTasks + 1
  /\ ~changed
  /\ blockedTasks' = blockedTasks \cup blocked
  /\ blocked' = {}
  /\ cursor' = 1
  /\ pipeline' = pipeline + 1
  /\ phase' = IF pipeline + 1 \in Pipelines THEN "tasks" ELSE "analysed"
  /\ UNCHANGED <<document, changed, blockedDataflows, decisions>>

Next ==
  \/ ScanInvariants
  \/ ScanConstructs
  \/ EndDataflows
  \/ DecideTask
  \/ StartPropagation
  \/ PropagateTask
  \/ RepeatPass
  \/ EndPipeline

\* The analysis is a function call: it does not stop in the middle.
Spec == Init /\ [][Next]_vars /\ WF_vars(Next)

-----------------------------------------------------------------------------
(* What the report promises. *)

\* The dataflows the target cannot run, from the document alone.
BadDataflow(doc, d) == d \in doc.preflight \/ Erroneous(doc, d) \/ Unsupported(doc, d)
Seeds(doc) == {t \in Tasks : IsSeed(doc, {d \in Dataflows : BadDataflow(doc, d)}, t)}

\* S contains every task downstream of a member of S.
DownstreamClosed(doc, S) == \A t \in Tasks : Upstream(doc, t) \cap S # {} => t \in S

\* The blocked tasks hold every task the target cannot run by itself and every task
\* downstream of a blocked one, and no smaller set of tasks does: nothing downstream
\* of a block is left runnable (fail closed), and nothing else is blocked, whatever
\* the order of declaration and even when the dependencies form a cycle.
BlockedIsLeastClosure ==
  phase = "analysed" =>
    LET seeds == Seeds(document) IN
      /\ seeds \subseteq blockedTasks
      /\ DownstreamClosed(document, blockedTasks)
      /\ \A S \in SUBSET blockedTasks :
           seeds \subseteq S /\ DownstreamClosed(document, S) => S = blockedTasks

\* The evidence for a block: a blocked decision recorded about the subject.
BlockedDecision(subject) == \E c \in Constructs : <<subject, c>> \in decisions /\ IsBlocked(c)

DataflowExplained(d) ==
  d \in document.preflight \/ \E m \in MembersOf(document, d) : BlockedDecision(m)

\* Nothing is blocked silently: a blocked dataflow has a preflight reason or a
\* blocked decision about one of its members, and a blocked task has a blocked
\* decision of its own, a blocked dataflow, or a blocked upstream task; and every
\* blocked decision blocks what it is about.
BlocksMatchDecisions ==
  phase = "analysed" =>
    /\ \A d \in Dataflows : d \in blockedDataflows <=> DataflowExplained(d)
    /\ \A t \in Tasks : t \in blockedTasks <=>
         \/ BlockedDecision(t)
         \/ document.dataflow[t] \in blockedDataflows
         \/ Upstream(document, t) \cap blockedTasks # {}

\* The propagation passes reach their fixed point, on cyclic graphs too.
Terminates == <>(phase = "analysed")
=============================================================================

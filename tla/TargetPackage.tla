--------------------------- MODULE TargetPackage ---------------------------
(***************************************************************************)
(* A target emitter at work on one document (plan of the DuckDB and Spark  *)
(* emitters, src/etlir/targets/*/emitter.py, with build_workflow_plan and  *)
(* job_name of src/etlir/workflow.py): capability analysis, then one job   *)
(* per dataflow that is not blocked, then the workflow plan the runner     *)
(* executes.                                                               *)
(*                                                                         *)
(* Rendering a job may raise Unlowerable although the analysis let the     *)
(* dataflow through (a literal the target has no form for).  A job's name  *)
(* is a sequence of numbers: <<>> is one cleaned base name, each number a  *)
(* suffix _n, so that a base that already ends in _2 can collide with the  *)
(* suffix the emitter adds.  The name and the outcome of rendering are     *)
(* functions of the dataflow, read once each, and are chosen there.        *)
(***************************************************************************)
EXTENDS CapabilityAnalysis, FiniteSets, Sequences

CONSTANTS
  BaseNames  \* cleaned names a dataflow id may yield, as sequences of suffixes

ASSUME BaseNamesAssumption == BaseNames \subseteq Seq(Nat)

VARIABLES
  stage,       \* "analyse", "emit" or "planned"
  emitting,    \* the dataflow the emission loop is at
  taken,       \* job names used so far
  commands,    \* emitted dataflow -> its job's script
  plan         \* the workflow plan: task -> status, command, reasons

emitVars == <<stage, emitting, taken, commands, plan>>

NoCommand == <<"none">>
Notify    == <<"notify">>
Job(name) == <<"job", name>>

PackageTypeOK ==
  /\ TypeOK
  /\ stage \in {"analyse", "emit", "planned"}
  /\ emitting \in 1 .. NumDataflows + 1
  /\ taken \subseteq Seq(Nat)
  /\ DOMAIN commands \subseteq Dataflows
  /\ \A d \in DOMAIN commands : commands[d] \in taken
  /\ stage = "planned" =>
       \A t \in Tasks : plan[t].status \in {"runnable", "blocked"}

PackageInit ==
  /\ Init
  /\ stage = "analyse"
  /\ emitting = 1
  /\ taken = {}
  /\ commands = <<>>
  /\ plan = <<>>

-----------------------------------------------------------------------------
\* The first of base, base_2, base_3, ... that no job of this target has.
Candidate(name, n) == IF n = 1 THEN name ELSE Append(name, n)
\* Mutant of JobName: the suffixed name is not tested again.
JobNameOnce(name, used) == IF name \in used THEN Append(name, 2) ELSE name

JobName(name, used) ==
  LET free == {n \in 1 .. Cardinality(used) + 1 : Candidate(name, n) \notin used}
  IN  Candidate(name, CHOOSE n \in free : \A m \in free : n <= m)

Analyse ==
  /\ stage = "analyse"
  /\ Next
  /\ UNCHANGED emitVars

StartEmission ==
  /\ stage = "analyse"
  /\ phase = "analysed"
  /\ stage' = "emit"
  /\ UNCHANGED <<vars, emitting, taken, commands, plan>>

SkipBlocked ==
  /\ stage = "emit"
  /\ emitting \in blockedDataflows
  /\ emitting' = emitting + 1
  /\ UNCHANGED <<vars, stage, taken, commands, plan>>

EmitJob(name) ==
  /\ stage = "emit"
  /\ emitting \in Dataflows \ blockedDataflows
  /\ taken' = taken \cup {JobName(name, taken)}
  /\ commands' = [d \in DOMAIN commands \cup {emitting} |->
                    IF d = emitting THEN JobName(name, taken) ELSE commands[d]]
  /\ emitting' = emitting + 1
  /\ UNCHANGED <<vars, stage, plan>>

\* The name was taken before rendering, and stays taken when rendering fails.
Unlowerable(name) ==
  /\ stage = "emit"
  /\ emitting \in Dataflows \ blockedDataflows
  /\ taken' = taken \cup {JobName(name, taken)}
  /\ emitting' = emitting + 1
  /\ UNCHANGED <<vars, stage, commands, plan>>

-----------------------------------------------------------------------------
(* The workflow plan. *)

BlockedConstructs(subject) == {c \in Constructs : <<subject, c>> \in decisions /\ IsBlocked(c)}

\* Mutant of TaskReasons: a block that comes from upstream has no reason.
TaskReasonsLocal(t) ==
  {<<"own", c>> : c \in BlockedConstructs(t)}
    \cup UNION {{<<"dataflow", c>> : c \in BlockedConstructs(m)} :
                  m \in MembersOf(document, document.dataflow[t])}
    \cup {<<"preflight">> : x \in document.preflight \cap {document.dataflow[t]}}

\* The reasons task_reasons collects; an upstream block only when there is no other.
TaskReasons(t) ==
  LET d      == document.dataflow[t]
      own    == {<<"own", c>> : c \in BlockedConstructs(t)}
      member == UNION {{<<"dataflow", c>> : c \in BlockedConstructs(m)} :
                         m \in MembersOf(document, d)}
      extra  == {<<"preflight">> : x \in document.preflight \cap {d}}
      native == {<<"unsupported_reason">> : x \in {document.kind[t]} \cap {"unsupported"}}
      r      == own \cup member \cup extra \cup native
      upstream == {x.on : x \in document.deps[t]} \cap blockedTasks
  IN  IF r = {} /\ upstream # {} THEN {<<"depends on blocked">>} ELSE r

IsBlockedInPlan(t) ==
  \/ t \in blockedTasks
  \/ document.dataflow[t] # NoDataflow /\ document.dataflow[t] \notin DOMAIN commands

PlanCommand(t) ==
  IF IsBlockedInPlan(t) THEN NoCommand
  ELSE IF document.kind[t] = "notify" THEN Notify
  ELSE IF document.dataflow[t] = NoDataflow THEN NoCommand
  ELSE Job(commands[document.dataflow[t]])

PlanTask(t) ==
  [ status    |-> IF IsBlockedInPlan(t) THEN "blocked" ELSE "runnable",
    reasons   |-> IF IsBlockedInPlan(t) THEN TaskReasons(t) ELSE {},
    command   |-> PlanCommand(t),
    dependsOn |-> document.deps[t] ]

BuildPlan ==
  /\ stage = "emit"
  /\ emitting = NumDataflows + 1
  /\ plan' = [t \in Tasks |-> PlanTask(t)]
  /\ stage' = "planned"
  /\ UNCHANGED <<vars, emitting, taken, commands>>

PackageNext ==
  \/ Analyse
  \/ StartEmission
  \/ SkipBlocked
  \/ \E name \in BaseNames : EmitJob(name) \/ Unlowerable(name)
  \/ BuildPlan

packageVars == <<vars, emitVars>>

\* Planning is a sequence of function calls: it does not stop in the middle.
PackageSpec == PackageInit /\ [][PackageNext]_packageVars /\ WF_packageVars(PackageNext)

-----------------------------------------------------------------------------
(* What the plan promises. *)

\* The plan launches only what the analysis found the target to support: a task with a
\* job launches the script of its own dataflow, no other dataflow has that script,
\* nothing the manifest blocks is in the dataflow or on the task, and no task it
\* depends on in its pipeline is one the analysis has blocked, by itself or for a task
\* further up.  A task that is blocked only later, because its job could not be
\* rendered, is not among these: see PlanBlocksReachDownstream.
LaunchesOnlySupported ==
  stage = "planned" =>
    \A t \in Tasks : plan[t].command \notin {NoCommand, Notify} =>
      LET d == document.dataflow[t] IN
        /\ d \in DOMAIN commands
        /\ plan[t].command = Job(commands[d])
        /\ \A e \in DOMAIN commands : commands[e] = commands[d] => e = d
        /\ ~BadDataflow(document, d)
        /\ t \notin Seeds(document)
        /\ Upstream(document, t) \cap blockedTasks = {}

\* Whatever the analysis blocked is blocked in the plan, with a recorded reason.
AnalysisBlocksHaveReasons ==
  stage = "planned" =>
    \A t \in blockedTasks : plan[t].status = "blocked" /\ plan[t].reasons # {}

\* docs/architecture.md: blocking propagates to downstream tasks.  In the plan, a task
\* with a blocked upstream task in its pipeline is blocked.
PlanBlocksReachDownstream ==
  stage = "planned" =>
    \A t \in Tasks : (\E u \in Upstream(document, t) : plan[u].status = "blocked") =>
      plan[t].status = "blocked"
=============================================================================

--------------------------- MODULE WorkflowPlans ---------------------------
(***************************************************************************)
(* The workflow plan as the reference runner reads it (workflow_plan.json, *)
(* src/etlir/workflow.py and src/etlir/runner.py), shared by the meaning   *)
(* of a workflow (WorkflowSemantics) and by the runner (WorkflowRunner).   *)
(*                                                                         *)
(* A task is its position in its pipeline.  A dependency on a position no  *)
(* task has stands for a dependency on an unknown task id.                 *)
(***************************************************************************)
EXTENDS Naturals

CONSTANTS
  NumPipelines, \* pipelines of a plan
  NumTasks,     \* most tasks of a pipeline
  Plans         \* the plans that are run

Pipelines == 1 .. NumPipelines
Positions == 1 .. NumTasks

Commands == {"none", "notify", "job"}  \* no command, a notification, a launch

\* Conditions other than these are blocked by every target's manifest.
Conditions == {"success", "failure", "completion", "expression"}

PipelineType ==
  [ size    : 0 .. NumTasks,
    blocked : SUBSET Positions,                   \* tasks with status "blocked"
    command : [Positions -> Commands],
    deps    : [Positions -> SUBSET [on : 0 .. NumTasks, condition : Conditions]] ]

ASSUME SizesAssumption == NumPipelines \in Nat /\ NumTasks \in Nat
ASSUME PlansAssumption == Plans \subseteq [Pipelines -> PipelineType]

TasksOf(pl)        == 1 .. pl.size
BlockedTasksOf(pl) == TasksOf(pl) \cap pl.blocked

\* The status of a task while the runner has not decided it is "undecided".
Outcomes == {"succeeded", "failed"}
Decided  == Outcomes \cup {"blocked", "not_triggered", "not_run"}
Statuses == Decided \cup {"undecided"}

\* Mutant of Satisfied: whichever way the task ended.
SatisfiedByAnyEnd(pl, d, status) == d.on \in TasksOf(pl) /\ status[d.on] \in Outcomes

\* Whether dependency d holds, given the statuses of the tasks of the pipeline.
Satisfied(pl, d, status) ==
  /\ d.on \in TasksOf(pl)
  /\ \/ d.condition = "success"    /\ status[d.on] = "succeeded"
     \/ d.condition = "failure"    /\ status[d.on] = "failed"
     \/ d.condition = "completion" /\ status[d.on] \in Outcomes

Triggered(pl, t, status) == \A d \in pl.deps[t] : Satisfied(pl, d, status)

\* A pipeline that is refused as a whole.
IsRefused(pl, allowPartial) == BlockedTasksOf(pl) # {} /\ ~allowPartial

\* The status of task t that the statuses of the tasks it depends on call for.
Consistent(pl, t, status) ==
  \/ t \in pl.blocked /\ status[t] = "blocked"
  \/ t \notin pl.blocked /\ ~Triggered(pl, t, status) /\ status[t] = "not_triggered"
  \/ /\ t \notin pl.blocked
     /\ Triggered(pl, t, status)
     /\ \/ pl.command[t] = "none"   /\ status[t] = "blocked"
        \/ pl.command[t] = "notify" /\ status[t] = "succeeded"
        \/ pl.command[t] = "job"    /\ status[t] \in Outcomes
=============================================================================

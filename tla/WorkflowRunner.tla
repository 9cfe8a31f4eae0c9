--------------------------- MODULE WorkflowRunner ---------------------------
(***************************************************************************)
(* The reference workflow runner (src/etlir/runner.py, run_package).       *)
(*                                                                         *)
(* Pipelines are taken in the order of the plan.  The tasks of a pipeline  *)
(* that is not refused are first put in a dependency order, by passes over *)
(* the tasks still pending that append each task whose dependencies are    *)
(* done; a pass that appends nothing has found a cycle and the run aborts  *)
(* with an exception.  The tasks are then decided one by one.  A task that *)
(* is launched is a process of its own, whose return code is not known in  *)
(* advance; building its command line may raise (no spark-submit), which   *)
(* aborts the run as well.  Only a run that reaches its end writes         *)
(* execution.json: after an abort the file an earlier run left is there.   *)
(***************************************************************************)
EXTENDS WorkflowPlans, Sequences

VARIABLES
  plan,         \* the workflow plan
  selected,     \* pipelines the filter lets through
  allowPartial,
  phase,        \* what the runner is doing
  current,      \* the pipeline it is at
  pending,      \* _order: tasks not placed yet
  progressed,   \* _order: the current pass placed a task
  cursor,       \* _order: position of the current pass
  order,        \* _order: the tasks placed, in order
  next,         \* position in order of the task to decide
  status,       \* statuses recorded, per pipeline and task
  result,       \* the status of each finished pipeline
  execution     \* status in execution.json, or whose file is there

inputs    == <<plan, selected, allowPartial>>
orderVars == <<pending, progressed, cursor, order>>
vars      == <<inputs, phase, current, orderVars, next, status, result, execution>>

Phases  == {"select", "order", "execute", "running", "done", "cycle", "noLauncher"}
Results == {"none", "refused", "succeeded", "failed", "partial", "not_run"}

TypeOK ==
  /\ plan \in [Pipelines -> PipelineType]
  /\ selected \subseteq Pipelines
  /\ allowPartial \in BOOLEAN
  /\ phase \in Phases
  /\ current \in 1 .. NumPipelines + 1
  /\ pending \subseteq Positions
  /\ progressed \in BOOLEAN
  /\ cursor \in Nat
  /\ order \in Seq(Positions)
  /\ next \in Nat
  /\ status \in [Pipelines -> [Positions -> Statuses]]
  /\ result \in [Pipelines -> Results]
  /\ execution \in {"absent", "earlier", "succeeded", "partial", "failed"}

Init ==
  /\ plan \in Plans
  /\ selected \in SUBSET Pipelines
  /\ allowPartial \in BOOLEAN
  /\ phase = "select"
  /\ current = 1
  /\ pending = {}
  /\ progressed = FALSE
  /\ cursor = 1
  /\ order = <<>>
  /\ next = 1
  /\ status = [p \in Pipelines |-> [t \in Positions |-> "undecided"]]
  /\ result = [p \in Pipelines |-> "none"]
  /\ execution \in {"absent", "earlier"}

Pl    == plan[current]
State == status[current]

-----------------------------------------------------------------------------
(* The loop over the pipelines. *)

SkipPipeline ==
  /\ phase = "select"
  /\ current \in Pipelines \ selected
  /\ current' = current + 1
  /\ UNCHANGED <<inputs, phase, orderVars, next, status, result, execution>>

\* Fail closed: a pipeline with a blocked task is refused as a whole.
RefusePipeline ==
  /\ phase = "select"
  /\ current \in selected
  /\ IsRefused(Pl, allowPartial)
  /\ status' = [status EXCEPT ![current] =
       [t \in Positions |-> IF t \notin TasksOf(Pl) THEN "undecided"
                            ELSE IF t \in Pl.blocked THEN "blocked" ELSE "not_run"]]
  /\ result' = [result EXCEPT ![current] = "refused"]
  /\ current' = current + 1
  /\ UNCHANGED <<inputs, phase, orderVars, next, execution>>

StartPipeline ==
  /\ phase = "select"
  /\ current \in selected
  /\ ~IsRefused(Pl, allowPartial)
  /\ phase' = "order"
  /\ pending' = TasksOf(Pl)
  /\ progressed' = FALSE
  /\ cursor' = 1
  /\ order' = <<>>
  /\ UNCHANGED <<inputs, current, next, status, result, execution>>

-----------------------------------------------------------------------------
(* _order. *)

\* Mutant of Placeable: one dependency done is enough.
PlaceableOnAny(t) ==
  Pl.deps[t] = {} \/ \E d \in Pl.deps[t] : d.on \notin pending

\* Every dependency of t is done, or on an id no task has.
Placeable(t) == \A d \in Pl.deps[t] : d.on \in TasksOf(Pl) => d.on \notin pending

PlaceTask ==
  /\ phase = "order"
  /\ cursor \in pending
  /\ Placeable(cursor)
  /\ order' = Append(order, cursor)
  /\ pending' = pending \ {cursor}
  /\ progressed' = TRUE
  /\ cursor' = cursor + 1
  /\ UNCHANGED <<inputs, phase, current, next, status, result, execution>>

\* A task placed by an earlier pass, or one whose dependencies are not done yet.
PassOver ==
  /\ phase = "order"
  /\ cursor \in TasksOf(Pl)
  /\ cursor \notin pending \/ ~Placeable(cursor)
  /\ cursor' = cursor + 1
  /\ UNCHANGED <<inputs, phase, current, pending, progressed, order, next,
                 status, result, execution>>

EndOfPass == phase = "order" /\ cursor = Pl.size + 1

\* Mutant of NextPass: the flag keeps its value from the pass before.
NextPassUncleared ==
  /\ EndOfPass
  /\ pending # {}
  /\ progressed
  /\ cursor' = 1
  /\ UNCHANGED <<inputs, phase, current, pending, progressed, order, next,
                 status, result, execution>>

NextPass ==
  /\ EndOfPass
  /\ pending # {}
  /\ progressed
  /\ cursor' = 1
  /\ progressed' = FALSE
  /\ UNCHANGED <<inputs, phase, current, pending, order, next, status, result, execution>>

\* Mutant of CycleFound: any pass that leaves tasks pending is taken for a cycle.
CycleFoundEarly ==
  /\ EndOfPass
  /\ pending # {}
  /\ phase' = "cycle"
  /\ UNCHANGED <<inputs, current, orderVars, next, status, result, execution>>

\* ValueError("task dependency cycle in workflow plan")
CycleFound ==
  /\ EndOfPass
  /\ pending # {}
  /\ ~progressed
  /\ phase' = "cycle"
  /\ UNCHANGED <<inputs, current, orderVars, next, status, result, execution>>

Ordered ==
  /\ EndOfPass
  /\ pending = {}
  /\ phase' = "execute"
  /\ next' = 1
  /\ UNCHANGED <<inputs, current, orderVars, status, result, execution>>

-----------------------------------------------------------------------------
(* The loop over the ordered tasks. *)

\* Task t is the one to decide.
At(t) == phase = "execute" /\ next \in 1 .. Len(order) /\ order[next] = t

Decide(t, s) ==
  /\ status' = [status EXCEPT ![current][t] = s]
  /\ next' = next + 1
  /\ UNCHANGED <<inputs, phase, current, orderVars, result, execution>>

BlockTask(t) ==
  /\ At(t)
  /\ t \in Pl.blocked
  /\ Decide(t, "blocked")

\* Mutant of LeaveUntriggered: an untriggered task counts as blocked.
BlockUntriggered(t) ==
  /\ At(t)
  /\ t \notin Pl.blocked
  /\ ~Triggered(Pl, t, State)
  /\ Decide(t, "blocked")

LeaveUntriggered(t) ==
  /\ At(t)
  /\ t \notin Pl.blocked
  /\ ~Triggered(Pl, t, State)
  /\ Decide(t, "not_triggered")

\* No executable command.
RefuseTask(t) ==
  /\ At(t)
  /\ t \notin Pl.blocked
  /\ Triggered(Pl, t, State)
  /\ Pl.command[t] = "none"
  /\ Decide(t, "blocked")

\* A notification is recorded, never sent.
RecordNotification(t) ==
  /\ At(t)
  /\ t \notin Pl.blocked
  /\ Triggered(Pl, t, State)
  /\ Pl.command[t] = "notify"
  /\ Decide(t, "succeeded")

\* Mutant of Launchable: the conditions of the dependencies are not tested.
LaunchableAnyway(t) ==
  /\ At(t)
  /\ t \notin Pl.blocked
  /\ Pl.command[t] = "job"

Launchable(t) ==
  /\ At(t)
  /\ t \notin Pl.blocked
  /\ Triggered(Pl, t, State)
  /\ Pl.command[t] = "job"

Launch(t) ==
  /\ Launchable(t)
  /\ phase' = "running"
  /\ UNCHANGED <<inputs, current, orderVars, next, status, result, execution>>

\* RuntimeError("spark-submit not found ...") while the command line is built.
LaunchError(t) ==
  /\ Launchable(t)
  /\ phase' = "noLauncher"
  /\ UNCHANGED <<inputs, current, orderVars, next, status, result, execution>>

\* Mutant of Finish: a job that failed is tried again.
FinishRetried ==
  /\ phase = "running"
  /\ \E outcome \in Outcomes :
       /\ status' = [status EXCEPT ![current][order[next]] = outcome]
       /\ next' = IF outcome = "failed" THEN next ELSE next + 1
  /\ phase' = "execute"
  /\ UNCHANGED <<inputs, current, orderVars, result, execution>>

\* The process ends: return code 0 is a success, any other a failure.
Finish ==
  /\ phase = "running"
  /\ \E outcome \in Outcomes :
       status' = [status EXCEPT ![current][order[next]] = outcome]
  /\ phase' = "execute"
  /\ next' = next + 1
  /\ UNCHANGED <<inputs, current, orderVars, result, execution>>

\* Mutant of PipelineStatus: a pipeline with nothing but blocked tasks is "blocked".
PipelineStatusBlocked(states) ==
  IF "failed" \in states THEN "failed"
  ELSE IF states = {"succeeded"} THEN "succeeded"
  ELSE IF "succeeded" \in states THEN "partial"
  ELSE IF states = {"blocked"} THEN "blocked"
  ELSE "not_run"

\* The status of a pipeline whose tasks are all decided.
PipelineStatus(states) ==
  IF "failed" \in states THEN "failed"
  ELSE IF states = {"succeeded"} THEN "succeeded"
  ELSE IF "succeeded" \in states THEN "partial"
  ELSE "not_run"

EndPipeline ==
  /\ phase = "execute"
  /\ next = Len(order) + 1
  /\ result' = [result EXCEPT ![current] = PipelineStatus({State[t] : t \in TasksOf(Pl)})]
  /\ current' = current + 1
  /\ phase' = "select"
  /\ UNCHANGED <<inputs, orderVars, next, status, execution>>

\* Mutant of Overall: only a failure fails the run.
OverallUnlessFailed(states) ==
  IF states = {"succeeded"} THEN "succeeded"
  ELSE IF "failed" \notin states THEN "partial"
  ELSE "failed"

\* _overall, over the pipelines that were selected.
Overall(states) ==
  IF states = {"succeeded"} THEN "succeeded"
  ELSE IF states # {} /\ states \subseteq {"succeeded", "partial"} THEN "partial"
  ELSE "failed"

WriteExecution ==
  /\ phase = "select"
  /\ current = NumPipelines + 1
  /\ execution' = Overall({result[p] : p \in selected})
  /\ phase' = "done"
  /\ UNCHANGED <<inputs, current, orderVars, next, status, result>>

Next ==
  \/ SkipPipeline
  \/ RefusePipeline
  \/ StartPipeline
  \/ PlaceTask
  \/ PassOver
  \/ NextPass
  \/ CycleFound
  \/ Ordered
  \/ \E t \in Positions :
       \/ BlockTask(t)
       \/ LeaveUntriggered(t)
       \/ RefuseTask(t)
       \/ RecordNotification(t)
       \/ Launch(t)
       \/ LaunchError(t)
  \/ Finish
  \/ EndPipeline
  \/ WriteExecution

\* One run of the package.
Spec == Init /\ [][Next]_vars

-----------------------------------------------------------------------------
(* What the runner promises. *)

Finished == {p \in selected : result[p] \notin {"none", "refused"}}

\* The order the tasks are taken in respects every dependency between tasks of the
\* pipeline, takes no task twice, and leaves none out (_order).
OrderIsLinearExtension ==
  phase \in {"execute", "running"} =>
    /\ \A t \in TasksOf(Pl) : \E i \in 1 .. Len(order) : order[i] = t
    /\ \A i, j \in 1 .. Len(order) : order[i] = order[j] => i = j
    /\ \A i \in 1 .. Len(order) : \A d \in Pl.deps[order[i]] :
         d.on \in TasksOf(Pl) => \E j \in 1 .. i - 1 : order[j] = d.on

\* Once a pipeline is finished, every task of it stands decided as the final
\* statuses of the tasks it depends on call for: none was decided on a status that
\* was missing or changed later, whatever the order of declaration and whichever
\* jobs failed.
StatusesStandUp ==
  \A p \in Finished : \A t \in TasksOf(plan[p]) : Consistent(plan[p], t, status[p])

\* How a task that is waited for under a condition must have ended.
AskedFor(condition) ==
  CASE condition = "success"    -> {"succeeded"}
    [] condition = "failure"    -> {"failed"}
    [] condition = "completion" -> {"succeeded", "failed"}
    [] condition = "expression" -> {}

\* While a job runs: its task is not blocked, every task it depends on has ended in
\* this run with the outcome the condition asks for (success, failure, or either of
\* them for completion) and was taken before it, it has not run before, and nothing of
\* its pipeline is blocked unless the caller accepted a partial run.
LaunchesAreSound ==
  phase = "running" =>
    LET t == order[next] IN
      /\ current \in selected
      /\ t \in TasksOf(Pl) \ Pl.blocked
      /\ State[t] = "undecided"
      /\ \A d \in Pl.deps[t] : /\ d.on \in {order[i] : i \in 1 .. next - 1}
                              /\ State[d.on] \in AskedFor(d.condition)
      /\ BlockedTasksOf(Pl) # {} => allowPartial

\* The run aborts for a cycle only when there is one: a set of tasks each of which
\* depends on another of the set.
AbortsOnlyOnCycle ==
  phase = "cycle" =>
    /\ pending # {}
    /\ \A t \in pending : \E d \in Pl.deps[t] : d.on \in pending

\* What execution.json says of the run is what happened: success means that every
\* selected pipeline ran and every task of it succeeded; a failed task, a refused
\* pipeline or an empty run is never reported as anything but failed.
VerdictIsHonest ==
  phase = "done" =>
    /\ execution = "succeeded" <=>
         /\ selected # {}
         /\ \A p \in selected : plan[p].size > 0 /\ \A t \in TasksOf(plan[p]) :
                                                      status[p][t] = "succeeded"
    /\ \A p \in selected :
         (\E t \in TasksOf(plan[p]) : status[p][t] = "failed")
           \/ (\A t \in TasksOf(plan[p]) : status[p][t] # "succeeded")
             => execution = "failed"

-----------------------------------------------------------------------------
\* The runner implements the meaning of the workflow: seen through the statuses,
\* with the task whose process is alive shown as running.
Meaning == INSTANCE WorkflowSemantics WITH
  Plans <- [Pipelines -> PipelineType],
  status <- [p \in Pipelines |-> [t \in Positions |->
              IF phase = "running" /\ p = current /\ t = order[next]
                THEN "running" ELSE status[p][t]]]

ImplementsMeaning == Meaning!Spec
=============================================================================

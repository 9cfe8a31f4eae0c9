------------------------- MODULE WorkflowSemantics -------------------------
(***************************************************************************)
(* What running a workflow means (docs/semantics.md, Workflow, as the code *)
(* of src/etlir/runner.py realises it), without saying in which order the  *)
(* runner takes pipelines and tasks: a task is decided once, after every   *)
(* task of its pipeline it depends on, by the conditions of its            *)
(* dependencies; jobs run one at a time.                                   *)
(***************************************************************************)
EXTENDS WorkflowPlans

VARIABLES
  plan,         \* the workflow plan
  selected,     \* the pipelines to run
  allowPartial, \* run the unaffected tasks of a pipeline with blocked ones
  status        \* the status of each task of each pipeline, or "running"

vars == <<plan, selected, allowPartial, status>>

TypeOK ==
  /\ plan \in [Pipelines -> PipelineType]
  /\ selected \subseteq Pipelines
  /\ allowPartial \in BOOLEAN
  /\ status \in [Pipelines -> [Positions -> Statuses \cup {"running"}]]

Init ==
  /\ plan \in Plans
  /\ selected \in SUBSET Pipelines
  /\ allowPartial \in BOOLEAN
  /\ status = [p \in Pipelines |-> [t \in Positions |-> "undecided"]]

Running(p, t) == status[p][t] = "running"

\* The tasks of pipeline p that t depends on.
UpstreamOf(p, t) == TasksOf(plan[p]) \cap {d.on : d \in plan[p].deps[t]}

\* Task t of pipeline p is next in some order that respects the dependencies.
Ready(p, t) ==
  /\ p \in selected
  /\ ~IsRefused(plan[p], allowPartial)
  /\ t \in TasksOf(plan[p])
  /\ status[p][t] = "undecided"
  /\ \A u \in UpstreamOf(p, t) : status[p][u] \in Decided
  /\ \A q \in Pipelines, u \in Positions : ~Running(q, u)

Set(p, t, s) ==
  /\ status' = [status EXCEPT ![p][t] = s]
  /\ UNCHANGED <<plan, selected, allowPartial>>

\* A pipeline with a blocked task is refused as a whole: none of its tasks runs.
Refuse(p) ==
  /\ p \in selected
  /\ IsRefused(plan[p], allowPartial)
  /\ \A t \in Positions : status[p][t] = "undecided"
  /\ status' = [status EXCEPT ![p] =
       [t \in Positions |-> IF t \notin TasksOf(plan[p]) THEN "undecided"
                            ELSE IF t \in plan[p].blocked THEN "blocked" ELSE "not_run"]]
  /\ UNCHANGED <<plan, selected, allowPartial>>

\* A task that does not run; without a command it counts as blocked.
NotRun(p, t) ==
  /\ Ready(p, t)
  /\ \/ t \in plan[p].blocked /\ Set(p, t, "blocked")
     \/ /\ t \notin plan[p].blocked
        /\ ~Triggered(plan[p], t, status[p])
        /\ Set(p, t, "not_triggered")
     \/ /\ t \notin plan[p].blocked
        /\ Triggered(plan[p], t, status[p])
        /\ plan[p].command[t] = "none"
        /\ Set(p, t, "blocked")

\* A task runs when all its dependency conditions hold.
Run(p, t) ==
  /\ Ready(p, t)
  /\ t \notin plan[p].blocked
  /\ Triggered(plan[p], t, status[p])
  /\ \/ plan[p].command[t] = "notify" /\ Set(p, t, "succeeded")
     \/ plan[p].command[t] = "job" /\ Set(p, t, "running")

Finish(p, t) ==
  /\ Running(p, t)
  /\ \E outcome \in Outcomes : Set(p, t, outcome)

Next ==
  \E p \in Pipelines :
    \/ Refuse(p)
    \/ \E t \in Positions : NotRun(p, t) \/ Run(p, t) \/ Finish(p, t)

Spec == Init /\ [][Next]_vars

\* The workflow is run again, with another selection: nothing is decided yet.
Again ==
  /\ \A p \in Pipelines, t \in Positions : ~Running(p, t)
  /\ selected' \in SUBSET Pipelines
  /\ allowPartial' \in BOOLEAN
  /\ status' = [p \in Pipelines |-> [t \in Positions |-> "undecided"]]
  /\ UNCHANGED plan

\* Any number of runs, one after the other.
RunsSpec == Init /\ [][Next \/ Again]_vars

-----------------------------------------------------------------------------
\* What is decided stays so.
DecisionsStand ==
  \A p \in Pipelines, t \in Positions :
    status[p][t] \in Decided => status'[p][t] = status[p][t]
=============================================================================

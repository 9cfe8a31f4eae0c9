----------------------------- MODULE RunRecords -----------------------------
(***************************************************************************)
(* What a run leaves in its run directory (src/etlir/runner.py, _execute,  *)
(* with the end of main in etlir_spark_runtime.py): the log of each task   *)
(* and the engine's runtime settings, one file each per task, named after  *)
(* the task, and the entries of execution.json that point at them.         *)
(*                                                                         *)
(* Runs share the directory: nothing is removed when a run starts.  A name *)
(* is a sequence of characters; the file of a task bears its name with     *)
(* every "/" replaced, whichever pipeline the task is in.  Every task of a *)
(* package runs on the package's engine.                                   *)
(***************************************************************************)
EXTENDS WorkflowRunner

CONSTANTS
  Names,    \* names of tasks, as sequences of characters
  Packages, \* the packages that are run: a plan, the engine, the names of the tasks
  Reruns,   \* bound: those of them that are run more than once
  MaxRuns   \* bound: runs of such a package in one run directory

Engines == {"spark", "duckdb"}

ASSUME NamesAssumption ==
  Names \subseteq Seq({"a", "b", "/", "_"}) /\ MaxRuns \in Nat \ {0}
ASSUME PackagesAssumption ==
  Packages \subseteq [plan : Plans, engine : Engines, name : [Pipelines -> [Positions -> Names]]]

VARIABLES
  engine,   \* the engine of the package
  name,     \* the name of each task
  run,      \* the run, counted from 1
  logs,     \* safe name -> the execution its log is of
  infos,    \* safe name -> the execution that wrote its runtime settings
  records   \* entry of each task in the run's report

recordVars == <<engine, name, run, logs, infos, records>>
allVars    == <<vars, recordVars>>

SafeName(n) == [i \in DOMAIN n |-> IF n[i] = "/" THEN "_" ELSE n[i]]
SafeNames   == {SafeName(n) : n \in Names}

\* An execution is one launch: a run, a pipeline and a task.
NoOne     == <<0, 0, 0>>
Executions == (1 .. MaxRuns) \X Pipelines \X Positions
Writers    == Executions \cup {NoOne}

\* No entry points at a log or at settings before its task was launched.
NoRecord == [log |-> <<>>, runtime |-> NoOne]

RecordsTypeOK ==
  /\ TypeOK
  /\ engine \in Engines
  /\ name \in [Pipelines -> [Positions -> Names]]
  /\ run \in 1 .. MaxRuns
  /\ logs \in [SafeNames -> Writers]
  /\ infos \in [SafeNames -> Writers]
  /\ records \in [Pipelines -> [Positions ->
                  [log : SafeNames \cup {<<>>}, runtime : Writers]]]

Empty == [p \in Pipelines |-> [t \in Positions |-> NoRecord]]

RecordsInit ==
  /\ \E pk \in Packages : plan = pk.plan /\ engine = pk.engine /\ name = pk.name
  /\ Init
  /\ execution = "absent"
  /\ run = 1
  /\ logs = [n \in SafeNames |-> NoOne]
  /\ infos = [n \in SafeNames |-> NoOne]
  /\ records = Empty

-----------------------------------------------------------------------------
\* The steps of the runner that touch none of these files.
Compute ==
  /\ \/ SkipPipeline \/ RefusePipeline \/ StartPipeline
     \/ PlaceTask \/ PassOver \/ NextPass \/ CycleFound \/ Ordered
     \/ \E t \in Positions : \/ BlockTask(t) \/ LeaveUntriggered(t) \/ RefuseTask(t)
                             \/ RecordNotification(t) \/ LaunchError(t)
     \/ EndPipeline \/ WriteExecution
  /\ UNCHANGED recordVars

\* Mutant of LaunchLogged: a log that is there is kept.
LaunchLoggedOnce(t) ==
  /\ Launch(t)
  /\ logs' = [logs EXCEPT ![SafeName(name[current][t])] =
                IF @ = NoOne THEN <<run, current, t>> ELSE @]
  /\ UNCHANGED <<engine, name, run, infos, records>>

\* The log is opened for writing, which empties it, and the process starts.
LaunchLogged(t) ==
  /\ Launch(t)
  /\ logs' = [logs EXCEPT ![SafeName(name[current][t])] = <<run, current, t>>]
  /\ UNCHANGED <<engine, name, run, infos, records>>

\* Mutant of FinishRecorded: the settings are read before the process writes them.
FinishRecordedEarly(wrote) ==
  LET t    == order[next]
      file == SafeName(name[current][t]) IN
    /\ Finish
    /\ wrote => engine = "spark"
    /\ engine = "spark" /\ ~wrote => status'[current][t] = "failed"
    /\ infos' = IF wrote THEN [infos EXCEPT ![file] = <<run, current, t>>] ELSE infos
    /\ records' = [records EXCEPT ![current][t] = [log |-> file, runtime |-> infos[file]]]
    /\ UNCHANGED <<engine, name, run, logs>>

\* The process is over.  A Spark job whose session started writes its settings
\* whatever its outcome, a DuckDB job never does; the runner then reads the file if
\* there is one.
FinishRecorded(wrote) ==
  LET t    == order[next]
      file == SafeName(name[current][t]) IN
    /\ Finish
    /\ wrote => engine = "spark"
    /\ engine = "spark" /\ ~wrote => status'[current][t] = "failed"
    /\ infos' = IF wrote THEN [infos EXCEPT ![file] = <<run, current, t>>] ELSE infos
    /\ records' = [records EXCEPT ![current][t] = [log |-> file, runtime |-> infos'[file]]]
    /\ UNCHANGED <<engine, name, run, logs>>

RunEnded == phase \in {"done", "cycle", "noLauncher"}

\* The package is run again in the same directory.  The report is a new one; it
\* replaces the earlier one only when the run reaches its end.
Rerun ==
  /\ RunEnded
  /\ run < MaxRuns
  /\ [plan |-> plan, engine |-> engine, name |-> name] \in Reruns
  /\ run' = run + 1
  /\ phase' = "select"
  /\ current' = 1
  /\ selected' \in SUBSET Pipelines
  /\ allowPartial' \in BOOLEAN
  /\ status' = [p \in Pipelines |-> [t \in Positions |-> "undecided"]]
  /\ result' = [p \in Pipelines |-> "none"]
  /\ execution' = IF execution = "absent" THEN "absent" ELSE "earlier"
  /\ records' = Empty
  /\ UNCHANGED <<plan, orderVars, next, engine, name, logs, infos>>

RunStep ==
  \/ Compute
  \/ \E t \in Positions : LaunchLogged(t)
  \/ \E wrote \in BOOLEAN : FinishRecorded(wrote)

RecordsNext == RunStep \/ Rerun

\* One thread takes a run to its end: subprocess.run returns when the job ends, and
\* the jobs, which read files that do not grow, do end.  Nobody has to run it again.
RecordsSpec == RecordsInit /\ [][RecordsNext]_allVars /\ WF_allVars(RunStep)

-----------------------------------------------------------------------------
(* What every run in the directory promises. *)

\* Whatever earlier runs did, a run implements the meaning of the workflow, from
\* statuses that are all undecided again.
RunsImplementMeaning == Meaning!RunsSpec

\* A status once recorded never changes in a run: no task is launched twice, and no
\* branch is taken back when a later task fails or the run aborts.
DecisionsAreFinal == [][run' = run => Meaning!DecisionsStand]_allVars

\* Every run comes to an end, the first one and each one after it.
EveryRunEnds == []<>RunEnded

-----------------------------------------------------------------------------
(* What the report promises. *)

Launched(p, t) == records[p][t].log # <<>>

\* The settings recorded for a Spark task that succeeded are those of its own
\* process in this run, although files are shared between runs and between tasks
\* of one name: the process wrote them and they were read before the next launch.
SuccessHasItsSettings ==
  \A p \in Pipelines, t \in Positions :
    engine = "spark" /\ Launched(p, t) /\ status[p][t] = "succeeded" =>
      records[p][t].runtime = <<run, p, t>>

\* Another task of the package has the same file name.
SharesFile(p, t) ==
  \E q \in Pipelines : \E u \in TasksOf(plan[q]) :
    <<q, u>> # <<p, t>> /\ SafeName(name[q][u]) = SafeName(name[p][t])

\* A file name of its own is enough: the log such a task's entry points at is that
\* of its own process in this run, whatever ran in the directory before, and the
\* settings its entry shows were written by this task, in this run or an earlier one.
OwnFileOwnLog ==
  \A p \in Pipelines, t \in Positions : Launched(p, t) /\ ~SharesFile(p, t) =>
    /\ logs[records[p][t].log] = <<run, p, t>>
    /\ records[p][t].runtime \in {NoOne} \cup {<<r, p, t>> : r \in 1 .. run}
=============================================================================

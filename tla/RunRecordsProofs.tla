-------------------------- MODULE RunRecordsProofs --------------------------
(***************************************************************************)
(* Proofs about RunRecords for every plan, every choice of names and any   *)
(* number of runs in one directory.                                        *)
(*                                                                         *)
(* The runner's own invariant, Inv of WorkflowRunnerProofs, also holds     *)
(* here: a step of a run is a step of the runner, and a rerun starts from  *)
(* a state that satisfies it whatever the order and the positions of the   *)
(* earlier run are.  FilesInv adds who wrote the files: a task that was    *)
(* launched is decided for good, so nothing but a task of the same file    *)
(* name can touch its log or its settings until the next run.              *)
(***************************************************************************)
EXTENDS RunRecords, WorkflowRunnerProofs

\* The task whose process is alive.
Alive(p, t) == phase = "running" /\ p = current /\ t = order[next]

FileOf(p, t) == SafeName(name[p][t])

\* What may have written the settings of a task that shares its file with no other.
OwnRuns(p, t) == {NoOne} \cup {<<r, p, t>> : r \in 1 .. run}

EntryInv ==
  \A p \in Pipelines, t \in Positions : Launched(p, t) =>
    status[p][t] \in Outcomes /\ records[p][t].log = FileOf(p, t)

LogInv ==
  \A p \in Pipelines, t \in Positions :
    (Launched(p, t) \/ Alive(p, t)) /\ ~SharesFile(p, t) => logs[FileOf(p, t)] = <<run, p, t>>

InfoInv ==
  \A p \in Pipelines, t \in Positions : ~SharesFile(p, t) =>
    /\ infos[FileOf(p, t)] \in OwnRuns(p, t)
    /\ Launched(p, t) => records[p][t].runtime \in OwnRuns(p, t)

FilesInv == EntryInv /\ SuccessHasItsSettings /\ LogInv /\ InfoInv

RecordsInv == Inv /\ RecordsTypeOK /\ FilesInv

-----------------------------------------------------------------------------
(* The runner's invariant. *)

\* A step of a run in the directory is a step of the runner.
LEMMA RunStepIsNext == RunStep => Next
BY DEF RunStep, Compute, LaunchLogged, FinishRecorded, Next

LEMMA RerunInv == Inv /\ Rerun => Inv'
<1> SUFFICES ASSUME Inv, Rerun PROVE Inv'
  OBVIOUS
<1>1. /\ phase' = "select" /\ current' = 1 /\ plan' = plan /\ UNCHANGED <<orderVars, next>>
      /\ selected' \subseteq Pipelines /\ allowPartial' \in BOOLEAN
      /\ status' = [p \in Pipelines |-> [t \in Positions |-> "undecided"]]
      /\ result' = [p \in Pipelines |-> "none"]
      /\ execution' \in {"absent", "earlier"}
  BY DEF Rerun
<1>2. TypeOK'
  <2>1. status' \in [Pipelines -> [Positions -> Statuses]]
    BY <1>1 DEF Statuses
  <2>2. result' \in [Pipelines -> Results]
    BY <1>1 DEF Results
  <2>3. current' \in 1 .. NumPipelines + 1
    BY <1>1, SizesAssumption
  <2> QED
    BY <1>1, <2>1, <2>2, <2>3 DEF Inv, IInv, TypeOK, orderVars, Phases
<1>3. PositionInv' /\ OrderInv' /\ CycleInv' /\ RunningInv'
  BY <1>1 DEF PositionInv, OrderInv, CycleInv, RunningInv, InPipeline
<1>4. StatusInv'
  BY <1>1 DEF StatusInv, Untouched
<1> QED
  BY <1>2, <1>3, <1>4 DEF Inv, IInv

LEMMA RunnerInv == Inv /\ [RecordsNext]_allVars => Inv'
<1>1. UNCHANGED allVars => UNCHANGED vars
  BY DEF allVars
<1> QED
  BY <1>1, RunStepIsNext, RerunInv, InvStep DEF RecordsNext

\* A decided status is there to stay until the next run.
LEMMA StatusStays ==
  ASSUME Inv, RunStep, NEW p \in Pipelines, NEW t \in Positions, status[p][t] \in Decided
  PROVE  status'[p][t] = status[p][t]
<1>1. Next /\ Inv'
  BY RunStepIsNext, InvStep
<1>2. TypeOK /\ IInv
  BY DEF Inv, IInv
<1>3. ~Alive(p, t)
  <2>1. phase = "running" => next \in 1 .. Len(order)
    BY <1>2 DEF IInv, PositionInv
  <2>2. phase = "running" => status[current][order[next]] = "undecided"
    BY <1>2, <2>1, TaskToDecide DEF State
  <2> QED
    BY <2>2 DEF Alive, Decided, Outcomes
<1>4. Shown[p][t] = status[p][t]
  BY <1>3 DEF Shown, Alive
<1>5. Shown'[p][t] = status[p][t]
  BY <1>1, <1>2, <1>4, RefineStep, FinalStep
<1>6. Shown'[p][t] = IF phase' = "running" /\ p = current' /\ t = order'[next']
                       THEN "running" ELSE status'[p][t]
  BY DEF Shown
<1> QED
  BY <1>5, <1>6 DEF Decided, Outcomes

\* The task whose process is alive, or is about to be, is a task of the plan no job of
\* this run has been launched for.
LEMMA AliveTask ==
  ASSUME RecordsInv, phase \in {"execute", "running"}, next \in 1 .. Len(order)
  PROVE  /\ current \in Pipelines /\ order[next] \in TasksOf(plan[current])
         /\ order[next] \in Positions
         /\ ~Launched(current, order[next])
<1>1. /\ current \in Pipelines /\ order[next] \in TasksOf(plan[current])
      /\ order[next] \in Positions /\ status[current][order[next]] = "undecided"
  BY TaskToDecide DEF RecordsInv, Inv, Pl, State
<1>2. ~Launched(current, order[next])
  BY <1>1 DEF RecordsInv, FilesInv, EntryInv, Outcomes
<1> QED
  BY <1>1, <1>2

-----------------------------------------------------------------------------
(* Files. *)

LEMMA FilesTyped ==
  ASSUME RecordsTypeOK, NEW p \in Pipelines, NEW t \in Positions
  PROVE  FileOf(p, t) \in SafeNames /\ records[p][t].log \in SafeNames \cup {<<>>}
BY DEF RecordsTypeOK, FileOf, SafeNames

\* The files of the tasks and which tasks share one do not change.
LEMMA SameFiles ==
  ASSUME UNCHANGED <<plan, name>>
  PROVE  \A p, t : FileOf(p, t)' = FileOf(p, t) /\ SharesFile(p, t)' = SharesFile(p, t)
BY DEF FileOf, SharesFile

\* What task u of pipeline c writes is in no file that a task owns alone but its own.
LEMMA OwnFileUntouched ==
  ASSUME NEW c \in Pipelines, NEW u \in TasksOf(plan[c]),
         NEW p \in Pipelines, NEW t \in Positions, ~SharesFile(p, t), <<c, u>> # <<p, t>>
  PROVE  FileOf(c, u) # FileOf(p, t)
BY DEF SharesFile, FileOf

LEMMA OwnRunsGrow ==
  ASSUME run \in Nat, run' \in {run, run + 1}, NEW p, NEW t
  PROVE  OwnRuns(p, t) \subseteq OwnRuns(p, t)'
<1>1. 1 .. run \subseteq 1 .. run'
  OBVIOUS
<1> QED
  BY <1>1 DEF OwnRuns

LEMMA RecordsTyped ==
  ASSUME RecordsTypeOK
  PROVE  /\ run \in Nat /\ run \in 1 .. MaxRuns
         /\ \A p \in Pipelines, t \in Positions : <<run, p, t>> \in Writers
<1>1. run \in 1 .. MaxRuns /\ MaxRuns \in Nat
  BY NamesAssumption DEF RecordsTypeOK
<1>2. run \in Nat
  BY <1>1
<1> QED
  BY <1>1, <1>2 DEF Writers, Executions

-----------------------------------------------------------------------------
(* Every step keeps the invariant of the files. *)

LEMMA FilesInit == RecordsInit => RecordsTypeOK /\ FilesInv
<1> SUFFICES ASSUME RecordsInit PROVE RecordsTypeOK /\ FilesInv
  OBVIOUS
<1>1. Init /\ engine \in Engines /\ name \in [Pipelines -> [Positions -> Names]]
      /\ run = 1 /\ logs = [n \in SafeNames |-> NoOne] /\ infos = [n \in SafeNames |-> NoOne]
      /\ records = Empty
  BY PackagesAssumption DEF RecordsInit
<1>2. NoOne \in Writers /\ 1 \in 1 .. MaxRuns
  <2>1. NoOne \in Writers
    BY DEF Writers
  <2>2. MaxRuns \in Nat /\ MaxRuns # 0
    BY NamesAssumption
  <2> QED
    BY <2>1, <2>2
<1>3. NoRecord \in [log : SafeNames \cup {<<>>}, runtime : Writers]
  BY <1>2 DEF NoRecord
<1>4. RecordsTypeOK
  BY <1>1, <1>2, <1>3, InitIInv DEF RecordsTypeOK, IInv, Empty
<1>5. \A p \in Pipelines, t \in Positions : ~Launched(p, t)
  BY <1>1 DEF Launched, Empty, NoRecord
<1>6. \A p, t : ~Alive(p, t)
  BY <1>1 DEF Alive, Init
<1>7. \A p \in Pipelines, t \in Positions : infos[FileOf(p, t)] = NoOne
  BY <1>1, <1>4, FilesTyped
<1> QED
  BY <1>4, <1>5, <1>6, <1>7
  DEF FilesInv, EntryInv, SuccessHasItsSettings, LogInv, InfoInv, OwnRuns

\* A step that touches none of the files and launches nothing.
LEMMA ComputeFiles ==
  ASSUME RecordsInv, RecordsTypeOK', Compute
  PROVE  FilesInv'
<1>1. UNCHANGED recordVars /\ UNCHANGED plan /\ phase' # "running"
  BY DEF Compute, SkipPipeline, RefusePipeline, StartPipeline, PlaceTask, PassOver, NextPass,
     EndOfPass, CycleFound, Ordered, BlockTask, LeaveUntriggered, RefuseTask,
     RecordNotification, LaunchError, Decide, At, EndPipeline, WriteExecution, inputs
<1>2. \A p, t : /\ FileOf(p, t)' = FileOf(p, t) /\ SharesFile(p, t)' = SharesFile(p, t)
                /\ OwnRuns(p, t)' = OwnRuns(p, t) /\ Launched(p, t)' = Launched(p, t)
                /\ ~Alive(p, t)'
  BY <1>1, SameFiles DEF recordVars, OwnRuns, Launched, Alive
<1>3. \A p \in Pipelines, t \in Positions :
        Launched(p, t) => status[p][t] \in Outcomes /\ status'[p][t] = status[p][t]
  BY StatusStays DEF RecordsInv, FilesInv, EntryInv, RunStep, Decided
<1>4. EntryInv'
  BY <1>1, <1>2, <1>3 DEF RecordsInv, FilesInv, EntryInv, recordVars
<1>5. SuccessHasItsSettings'
  BY <1>1, <1>2, <1>3 DEF RecordsInv, FilesInv, SuccessHasItsSettings, recordVars
<1>6. LogInv'
  BY <1>1, <1>2 DEF RecordsInv, FilesInv, LogInv, recordVars
<1>7. InfoInv'
  BY <1>1, <1>2 DEF RecordsInv, FilesInv, InfoInv, recordVars
<1> QED
  BY <1>4, <1>5, <1>6, <1>7 DEF FilesInv

LEMMA LaunchFiles ==
  ASSUME RecordsInv, NEW u \in Positions, LaunchLogged(u)
  PROVE  RecordsTypeOK' /\ FilesInv'
<1>1. /\ phase = "execute" /\ phase' = "running" /\ next \in 1 .. Len(order) /\ u = order[next]
      /\ UNCHANGED <<plan, current, order, next, status, engine, name, run, infos, records>>
      /\ logs' = [logs EXCEPT ![FileOf(current, u)] = <<run, current, u>>]
  BY DEF LaunchLogged, Launch, Launchable, At, orderVars, inputs, FileOf
<1>2. PICK c \in Pipelines : c = current /\ u \in TasksOf(plan[c]) /\ ~Launched(c, u)
  BY <1>1, AliveTask
<1>3. RecordsTypeOK /\ EntryInv /\ SuccessHasItsSettings /\ LogInv /\ InfoInv
  BY DEF RecordsInv, FilesInv
<1>4. /\ \A p, t : /\ FileOf(p, t)' = FileOf(p, t) /\ SharesFile(p, t)' = SharesFile(p, t)
                   /\ OwnRuns(p, t)' = OwnRuns(p, t) /\ Launched(p, t)' = Launched(p, t)
  BY <1>1, SameFiles DEF OwnRuns, Launched
<1>5. logs' = [logs EXCEPT ![FileOf(c, u)] = <<run, c, u>>]
  BY <1>1, <1>2
<1>6. FileOf(c, u) \in SafeNames /\ <<run, c, u>> \in Writers /\ logs \in [SafeNames -> Writers]
  BY <1>3, FilesTyped, RecordsTyped DEF RecordsTypeOK
<1>7. RecordsTypeOK'
  <2>1. logs' \in [SafeNames -> Writers]
    BY <1>5, <1>6
  <2>2. TypeOK'
    BY RunnerInv DEF RecordsInv, RecordsNext, RunStep, Inv, IInv
  <2> QED
    BY <1>1, <1>3, <2>1, <2>2 DEF RecordsTypeOK
<1>8. EntryInv' /\ SuccessHasItsSettings' /\ InfoInv'
  BY <1>1, <1>3, <1>4 DEF EntryInv, SuccessHasItsSettings, InfoInv
<1>9. LogInv'
  <2> SUFFICES ASSUME NEW p \in Pipelines, NEW t \in Positions,
                      (Launched(p, t) \/ Alive(p, t))', ~SharesFile(p, t)
               PROVE  logs'[FileOf(p, t)] = <<run, p, t>>
    BY <1>1, <1>4 DEF LogInv
  <2>1. CASE <<c, u>> = <<p, t>>
    BY <2>1, <1>5, <1>6
  <2>2. CASE <<c, u>> # <<p, t>>
    <3>1. FileOf(c, u) # FileOf(p, t)
      BY <1>2, <2>2, OwnFileUntouched
    <3>2. Launched(p, t)
      BY <1>1, <1>2, <1>4, <2>2 DEF Alive
    <3>3. FileOf(p, t) \in SafeNames
      BY <1>3, FilesTyped
    <3> QED
      BY <1>3, <1>5, <1>6, <3>1, <3>2, <3>3 DEF LogInv
  <2> QED
    BY <2>1, <2>2
<1> QED
  BY <1>7, <1>8, <1>9 DEF FilesInv

LEMMA FinishFiles ==
  ASSUME RecordsInv, NEW wrote \in BOOLEAN, FinishRecorded(wrote)
  PROVE  RecordsTypeOK' /\ FilesInv'
<1> DEFINE u == order[next]
<1>1. /\ phase = "running" /\ phase' = "execute"
      /\ UNCHANGED <<plan, current, engine, name, run, logs>>
      /\ \E outcome \in Outcomes : status' = [status EXCEPT ![current][u] = outcome]
      /\ wrote => engine = "spark"
      /\ engine = "spark" /\ ~wrote => status'[current][u] = "failed"
      /\ infos' = IF wrote THEN [infos EXCEPT ![FileOf(current, u)] = <<run, current, u>>]
                           ELSE infos
      /\ records' = [records EXCEPT ![current][u] =
                       [log |-> FileOf(current, u), runtime |-> infos'[FileOf(current, u)]]]
  BY DEF FinishRecorded, Finish, FileOf, inputs
<1>2. PICK c \in Pipelines :
        c = current /\ u \in TasksOf(plan[c]) /\ u \in Positions /\ Alive(c, u)
  BY <1>1, AliveTask DEF RecordsInv, Inv, IInv, PositionInv, Alive
<1>3. /\ RecordsTypeOK /\ TypeOK /\ EntryInv /\ SuccessHasItsSettings /\ LogInv /\ InfoInv
      /\ run \in Nat
  BY RecordsTyped DEF RecordsInv, FilesInv, RecordsTypeOK
<1> HIDE DEF u
<1> DEFINE f == FileOf(c, u)
<1>4. PICK outcome \in Outcomes : status' = [status EXCEPT ![c][u] = outcome]
  BY <1>1, <1>2
<1>5. f \in SafeNames /\ <<run, c, u>> \in Writers
  BY <1>2, <1>3, FilesTyped, RecordsTyped
<1>6. /\ infos' = IF wrote THEN [infos EXCEPT ![f] = <<run, c, u>>] ELSE infos
      /\ records' = [records EXCEPT ![c][u] = [log |-> f, runtime |-> infos'[f]]]
      /\ engine = "spark" /\ ~wrote => status'[c][u] = "failed"
  BY <1>1, <1>2
<1>7. /\ \A p, t : /\ FileOf(p, t)' = FileOf(p, t) /\ SharesFile(p, t)' = SharesFile(p, t)
                   /\ OwnRuns(p, t)' = OwnRuns(p, t) /\ ~Alive(p, t)'
  BY <1>1, SameFiles DEF OwnRuns, Alive
<1>8. infos \in [SafeNames -> Writers] /\ infos' \in [SafeNames -> Writers]
  BY <1>3, <1>5, <1>6 DEF RecordsTypeOK
<1> HIDE DEF f
<1> DEFINE entry == [log |-> f, runtime |-> infos'[f]]
<1>9. entry \in [log : SafeNames \cup {<<>>}, runtime : Writers]
  BY <1>5, <1>8
<1>10. records' = [records EXCEPT ![c][u] = entry]
  BY <1>6
<1> HIDE DEF entry
<1>11. /\ records' \in [Pipelines -> [Positions ->
                         [log : SafeNames \cup {<<>>}, runtime : Writers]]]
       /\ records'[c][u] = entry
       /\ \A p \in Pipelines, t \in Positions :
            <<p, t>> # <<c, u>> => records'[p][t] = records[p][t]
  BY <1>2, <1>3, <1>9, <1>10 DEF RecordsTypeOK
<1>12. /\ status'[c][u] = outcome
       /\ \A p \in Pipelines, t \in Positions :
            <<p, t>> # <<c, u>> => status'[p][t] = status[p][t]
  BY <1>2, <1>3, <1>4 DEF TypeOK
<1>13. entry.log = f /\ entry.runtime = infos'[f]
  BY DEF entry
<1>14. \A p \in Pipelines, t \in Positions :
         <<p, t>> # <<c, u>> => Launched(p, t)' = Launched(p, t)
  BY <1>11 DEF Launched
<1>15. RecordsTypeOK'
  <2>1. TypeOK'
    BY RunnerInv DEF RecordsInv, RecordsNext, RunStep, Inv, IInv
  <2> QED
    BY <1>1, <1>3, <1>8, <1>11, <2>1 DEF RecordsTypeOK
<1>16. EntryInv'
  <2> SUFFICES ASSUME NEW p \in Pipelines, NEW t \in Positions, Launched(p, t)'
               PROVE  status'[p][t] \in Outcomes /\ records'[p][t].log = FileOf(p, t)
    BY <1>7 DEF EntryInv
  <2>1. CASE <<p, t>> = <<c, u>>
    BY <2>1, <1>11, <1>12, <1>13 DEF f
  <2>2. CASE <<p, t>> # <<c, u>>
    BY <2>2, <1>3, <1>11, <1>12, <1>14 DEF EntryInv
  <2> QED
    BY <2>1, <2>2
<1>17. SuccessHasItsSettings'
  <2> SUFFICES ASSUME NEW p \in Pipelines, NEW t \in Positions, engine = "spark",
                      Launched(p, t)', status'[p][t] = "succeeded"
               PROVE  records'[p][t].runtime = <<run, p, t>>
    BY <1>1 DEF SuccessHasItsSettings
  <2>1. CASE <<p, t>> = <<c, u>>
    <3>1. infos'[f] = <<run, c, u>>
      BY <2>1, <1>5, <1>6, <1>8
    <3> QED
      BY <2>1, <3>1, <1>11, <1>13
  <2>2. CASE <<p, t>> # <<c, u>>
    BY <2>2, <1>3, <1>11, <1>12, <1>14 DEF SuccessHasItsSettings
  <2> QED
    BY <2>1, <2>2
<1>18. LogInv'
  <2> SUFFICES ASSUME NEW p \in Pipelines, NEW t \in Positions, Launched(p, t)',
                      ~SharesFile(p, t)
               PROVE  logs[FileOf(p, t)] = <<run, p, t>>
    BY <1>1, <1>7 DEF LogInv
  <2> QED
    BY <1>2, <1>3, <1>14 DEF LogInv
<1>19. ASSUME NEW p \in Pipelines, NEW t \in Positions, ~SharesFile(p, t)
       PROVE  infos'[FileOf(p, t)] \in OwnRuns(p, t)
  <2>1. infos[FileOf(p, t)] \in OwnRuns(p, t)
    BY <1>3, <1>19 DEF InfoInv
  <2>2. CASE <<p, t>> = <<c, u>> /\ wrote
    <3>1. infos'[f] = <<run, c, u>>
      BY <2>2, <1>5, <1>6, <1>8
    <3>2. run \in 1 .. run
      BY <1>3 DEF RecordsTypeOK
    <3> QED
      BY <2>2, <3>1, <3>2 DEF f, OwnRuns
  <2>3. CASE <<p, t>> # <<c, u>>
    <3>1. FileOf(p, t) # f /\ FileOf(p, t) \in SafeNames
      BY <1>2, <1>3, <1>19, <2>3, OwnFileUntouched, FilesTyped DEF f
    <3> QED
      BY <2>1, <3>1, <1>6, <1>8
  <2> QED
    BY <2>1, <2>2, <2>3, <1>6
<1>20. InfoInv'
  <2> SUFFICES ASSUME NEW p \in Pipelines, NEW t \in Positions, ~SharesFile(p, t),
                      Launched(p, t)'
               PROVE  records'[p][t].runtime \in OwnRuns(p, t)
    BY <1>7, <1>19 DEF InfoInv
  <2>1. CASE <<p, t>> = <<c, u>>
    BY <2>1, <1>11, <1>13, <1>19 DEF f
  <2>2. CASE <<p, t>> # <<c, u>>
    BY <2>2, <1>3, <1>11, <1>14 DEF InfoInv
  <2> QED
    BY <2>1, <2>2
<1> QED
  BY <1>15, <1>16, <1>17, <1>18, <1>20 DEF FilesInv

\* A new run: every entry is gone, the files are as the runs before left them.
LEMMA RerunFiles ==
  ASSUME RecordsInv, Rerun
  PROVE  RecordsTypeOK' /\ FilesInv'
<1>1. /\ phase' = "select" /\ records' = Empty /\ run' = run + 1 /\ run < MaxRuns
      /\ UNCHANGED <<plan, engine, name, logs, infos>>
  BY DEF Rerun
<1>2. RecordsTypeOK /\ InfoInv /\ run \in Nat
  BY RecordsTyped DEF RecordsInv, FilesInv
<1>3. \A p, t : /\ FileOf(p, t)' = FileOf(p, t) /\ SharesFile(p, t)' = SharesFile(p, t)
                /\ OwnRuns(p, t) \subseteq OwnRuns(p, t)' /\ ~Alive(p, t)'
  BY <1>1, <1>2, SameFiles, OwnRunsGrow DEF Alive
<1>4. \A p \in Pipelines, t \in Positions : ~Launched(p, t)'
  BY <1>1 DEF Launched, Empty, NoRecord
<1>5. RecordsTypeOK'
  <2>1. run' \in 1 .. MaxRuns
    <3>1. MaxRuns \in Nat
      BY NamesAssumption
    <3> QED
      BY <1>1, <1>2, <3>1
  <2>2. NoRecord \in [log : SafeNames \cup {<<>>}, runtime : Writers]
    BY DEF NoRecord, Writers
  <2>3. TypeOK'
    BY RunnerInv DEF RecordsInv, RecordsNext, RunStep, Inv, IInv
  <2> QED
    BY <1>1, <1>2, <2>1, <2>2, <2>3 DEF RecordsTypeOK, Empty
<1>6. InfoInv'
  BY <1>1, <1>2, <1>3, <1>4 DEF InfoInv
<1> QED
  BY <1>3, <1>4, <1>5, <1>6 DEF FilesInv, EntryInv, SuccessHasItsSettings, LogInv

LEMMA RecordsStep == RecordsInv /\ [RecordsNext]_allVars => RecordsInv'
<1> SUFFICES ASSUME RecordsInv, [RecordsNext]_allVars PROVE RecordsInv'
  OBVIOUS
<1>1. Inv'
  BY RunnerInv DEF RecordsInv
<1>2. CASE Compute
  <2>1. RecordsTypeOK'
    BY <1>1, <1>2 DEF RecordsInv, RecordsTypeOK, Compute, recordVars, Inv, IInv
  <2> QED
    BY <1>1, <1>2, <2>1, ComputeFiles DEF RecordsInv
<1>3. CASE \E t \in Positions : LaunchLogged(t)
  BY <1>1, <1>3, LaunchFiles DEF RecordsInv
<1>4. CASE \E wrote \in BOOLEAN : FinishRecorded(wrote)
  BY <1>1, <1>4, FinishFiles DEF RecordsInv
<1>5. CASE Rerun
  BY <1>1, <1>5, RerunFiles DEF RecordsInv
<1>6. CASE UNCHANGED allVars
  <2>1. /\ UNCHANGED <<plan, phase, current, order, next, status>>
        /\ UNCHANGED <<engine, name, run, logs, infos, records>>
    BY <1>6 DEF allVars, vars, inputs, orderVars, recordVars
  <2>2. \A p, t : /\ FileOf(p, t)' = FileOf(p, t) /\ SharesFile(p, t)' = SharesFile(p, t)
                  /\ OwnRuns(p, t)' = OwnRuns(p, t) /\ Launched(p, t)' = Launched(p, t)
                  /\ Alive(p, t)' = Alive(p, t)
    BY <2>1, SameFiles DEF OwnRuns, Launched, Alive
  <2>3. EntryInv' /\ SuccessHasItsSettings' /\ LogInv' /\ InfoInv'
    BY <2>1, <2>2 DEF RecordsInv, FilesInv, EntryInv, SuccessHasItsSettings, LogInv, InfoInv
  <2>4. RecordsTypeOK'
    BY <1>1, <2>1 DEF RecordsInv, RecordsTypeOK, Inv, IInv
  <2> QED
    BY <1>1, <2>3, <2>4 DEF RecordsInv, FilesInv
<1> QED
  BY <1>2, <1>3, <1>4, <1>5, <1>6 DEF RecordsNext, RunStep

\* The runner's invariant and the authorship of the files hold in every run in the directory
\* (_execute, and the end of main of the Spark runtime).
THEOREM RecordsInvariant == RecordsSpec => []RecordsInv
<1>1. RecordsInit => RecordsInv
  BY FilesInit, InvInit DEF RecordsInit, RecordsInv
<1> QED
  BY <1>1, RecordsStep, PTL DEF RecordsSpec

\* What an entry shows of a successful Spark task was written by its own process in this run
\* (the settings read back by _execute).
THEOREM SettingsCorrect == RecordsSpec => []SuccessHasItsSettings
<1>1. RecordsInv => SuccessHasItsSettings
  BY DEF RecordsInv, FilesInv
<1> QED
  BY <1>1, RecordsInvariant, PTL

LEMMA FilesMeanOwnLog == RecordsInv => OwnFileOwnLog
<1> SUFFICES ASSUME RecordsInv, NEW p \in Pipelines, NEW t \in Positions,
                    Launched(p, t), ~SharesFile(p, t)
             PROVE  /\ logs[records[p][t].log] = <<run, p, t>>
                    /\ records[p][t].runtime \in {NoOne} \cup {<<r, p, t>> : r \in 1 .. run}
  BY DEF OwnFileOwnLog
<1> QED
  BY DEF RecordsInv, FilesInv, EntryInv, LogInv, InfoInv, OwnRuns

\* A task whose file no other task of the package has keeps its own log and its own settings,
\* whatever ran in the directory before (_execute, the file named after the task).
THEOREM OwnFilesCorrect == RecordsSpec => []OwnFileOwnLog
BY RecordsInvariant, FilesMeanOwnLog, PTL

\* In any run in the directory no job is launched before every task it depends on has ended
\* in that run as the condition asks (the loop of run_package).
THEOREM RerunsAreSound == RecordsSpec => []LaunchesAreSound
<1>1. RecordsInv => LaunchesAreSound
  BY InvLaunches DEF RecordsInv
<1> QED
  BY <1>1, RecordsInvariant, PTL

-----------------------------------------------------------------------------
(* The meaning of the runs. *)

LEMMA RefineRerun ==
  ASSUME Inv, Inv', Rerun
  PROVE  Meaning!Again
<1>1. /\ phase # "running" /\ phase' # "running" /\ plan' = plan
      /\ selected' \in SUBSET Pipelines /\ allowPartial' \in BOOLEAN
      /\ status' = [p \in Pipelines |-> [t \in Positions |-> "undecided"]]
  BY DEF Rerun, RunEnded
<1>2. TypeOK /\ TypeOK'
  BY DEF Inv, IInv
<1>3. Shown = status /\ Shown' = status'
  BY <1>1, <1>2, ShownIdle, ShownIdleNext
<1>4. \A p \in Pipelines, t \in Positions : status[p][t] # "running"
  BY <1>2 DEF TypeOK, Statuses, Decided, Outcomes
<1>5. \A p \in Meaning!Pipelines, t \in Meaning!Positions : ~Meaning!Running(p, t)
  BY <1>3, <1>4, SameSets DEF Meaning!Running, Shown
<1>6. Shown' = [p \in Meaning!Pipelines |-> [t \in Meaning!Positions |-> "undecided"]]
  BY <1>1, <1>3, SameSets
<1> QED
  BY <1>1, <1>5, <1>6, SameSets DEF Meaning!Again, Shown

LEMMA RefineRecords ==
  Inv /\ Inv' /\ [RecordsNext]_allVars => [Meaning!Next \/ Meaning!Again]_(Meaning!vars)
<1>1. UNCHANGED allVars => UNCHANGED vars
  BY DEF allVars
<1> QED
  BY <1>1, RunStepIsNext, RefineStep, RefineRerun DEF RecordsNext

\* Every run in the directory implements the meaning of the workflow, from statuses that are
\* all undecided again (run_package, called again with the same directory).
THEOREM RunsAreMeant == RecordsSpec => RunsImplementMeaning
<1>1. RecordsInit => Meaning!Init
  BY RefineInit DEF RecordsInit
<1>2. RecordsSpec => []Inv
  <2>1. RecordsInv => Inv
    BY DEF RecordsInv
  <2> QED
    BY <2>1, RecordsInvariant, PTL
<1> QED
  BY <1>1, <1>2, RefineRecords, PTL DEF RecordsSpec, RunsImplementMeaning, Meaning!RunsSpec

\* A status once recorded never changes in a run: no task is launched twice, and no branch is
\* taken back (the loop of run_package writes each entry of statuses once).
THEOREM DecisionsCorrect == RecordsSpec => DecisionsAreFinal
<1>1. RecordsSpec => []RecordsInv
  BY RecordsInvariant
<1>2. RecordsInv /\ RecordsInv' /\ [RecordsNext]_allVars =>
        [run' = run => Meaning!DecisionsStand]_allVars
  <2> SUFFICES ASSUME RecordsInv, RecordsInv', [RecordsNext]_allVars, run' = run
               PROVE  Meaning!DecisionsStand
    OBVIOUS
  <2>1. ~Rerun
    BY RecordsTyped DEF RecordsInv, Rerun
  <2>2. [Next]_vars
    BY <2>1, RunStepIsNext DEF RecordsNext, allVars
  <2> QED
    BY <2>2, DecisionsKept DEF RecordsInv
<1> QED
  BY <1>1, <1>2, PTL DEF RecordsSpec, DecisionsAreFinal
=============================================================================

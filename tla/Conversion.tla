----------------------------- MODULE Conversion -----------------------------
(***************************************************************************)
(* etlir convert (src/etlir/pipeline.py, with src/etlir/package.py and the *)
(* adapters and emitters of the registry) over one output directory, which *)
(* may hold the result of earlier conversions.  Nothing is ever removed    *)
(* from it.  A conversion may stop between two files, or inside one.       *)
(*                                                                         *)
(* A file on disk is known by the conversion that wrote it last and by     *)
(* whether it is whole: what a conversion writes is a function of its      *)
(* input and its targets, and the contents of files are left out.          *)
(***************************************************************************)
EXTENDS PluginRegistry

CONSTANTS
  Requests,    \* the arguments of a conversion: an input (the dataflows each target emits, the
               \* adapters that accept it), its path, a source or "", targets
  TargetIds,   \* the identifiers that targets may have
  SortedLists, \* the sorted lists of such identifiers
  MaxJobs      \* bound: conversions over the directory

ASSUME SortedAssumption ==
  /\ \A list \in SortedLists : list \in Seq(TargetIds)
  /\ \A ids \in SUBSET TargetIds : \E list \in SortedLists : ToSet(list) = ids
\* The directory itself is named "out" below: its reports are not in the package of a target.
ASSUME OutIsNoTarget == "out" \notin TargetIds
ASSUME PluginsAssumption ==
  /\ \A environment \in Installed : \A i \in DOMAIN environment["targets"] :
       LET cls == environment["targets"][i].cls
       IN  Conforms("targets", cls) => cls.id \in TargetIds
  /\ \A plugin \in ByHand : plugin.group = "targets" => plugin.cls.id \in TargetIds
ASSUME RequestsAssumption ==
  \A request \in Requests :
    /\ request.targets \in Seq(ToSet(request.targets))
    /\ \A target \in TargetIds :
         request.input.emitted[target] \in Seq(ToSet(request.input.emitted[target]))

VARIABLES
  jobs,    \* the requests accepted so far, the last one current
  queue,   \* files the current conversion has still to write
  disk,    \* file -> which conversion wrote it, and whether it is whole
  outcome  \* of the last request

vars == <<registryVars, jobs, queue, disk, outcome>>

(***************************************************************************)
(* What a conversion writes, in order                                      *)
(***************************************************************************)

\* A file is a directory (of a target, or "out") and a path in it: a folder and a name.
At(dir, paths) == [i \in DOMAIN paths |-> <<dir, paths[i]>>]

\* An emitted dataflow has a launcher and a statement file; blocked dataflows have none.  The
\* dataflows are in the order of their paths.
Emitted(input, target) == input.emitted[target]
Launcher(df)  == <<"jobs", df>>
Statement(df) == <<"sql", df>>
Runtime       == <<"", "runtime">>
WorkflowPlan  == <<"", "workflow_plan">>

Texts(input, target) ==
  LET flows == Emitted(input, target)
  IN  <<Runtime>> \o [i \in DOMAIN flows |-> Launcher(flows[i])]
                  \o [i \in DOMAIN flows |-> Statement(flows[i])]
PlanFiles ==
  << <<"", "target_plan">>, WorkflowPlan, <<"", "bindings.example">>, <<"", "parameters.example">> >>

\* Mutant of PackageFiles: the plan is written before the jobs it launches.
PackageFilesPlanFirst(input, target) == At(target, PlanFiles \o Texts(input, target))

\* write_package: the sorted files of the plan, then the plan itself.
PackageFiles(input, target) == At(target, Texts(input, target) \o PlanFiles)

Packages(job) == FlattenSeq([k \in DOMAIN job.targets |-> PackageFiles(job.input, job.targets[k])])
Report(name)  == <<"out", <<"", name>> >>
Reports(names) == [i \in DOMAIN names |-> Report(names[i])]
Stages == Reports(<<"run_manifest", "inventory", "raw_ir", "canonical_ir", "validation">>)

\* Mutant of WriteOrder: the summary is written before the packages.
WriteOrderSummaryFirst(job) ==
  Stages \o Reports(<<"summary">>) \o Packages(job) \o Reports(<<"evidence", "report">>)

WriteOrder(job) == Stages \o Packages(job) \o Reports(<<"evidence", "summary", "report">>)

(***************************************************************************)
(* The conversion                                                          *)
(***************************************************************************)

Init ==
  /\ RegistryInit
  /\ jobs = <<>>
  /\ queue = <<>>
  /\ disk = <<>>
  /\ outcome = "none"

Job == jobs[Len(jobs)]
Idle == pending = <<>> /\ outcome # "writing" /\ Len(jobs) < MaxJobs

\* pick_source and discover: the adapter named, or one that accepts a file of the input.  A file
\* named by the user is not asked about, files of a directory are.
Adapters(request) ==
  IF request.source # ""
  THEN {id \in DOMAIN registered["sources"] :
          id = request.source /\ (request.path = "file" \/ id \in request.input.acceptedBy)}
  ELSE DOMAIN registered["sources"] \cap request.input.acceptedBy

\* The targets asked for, named twice or not, or all there are, sorted.
TargetsOf(request) ==
  IF request.targets # <<"all">> THEN request.targets
  ELSE CHOOSE list \in SortedLists : ToSet(list) = DOMAIN registered["targets"]

\* Arguments are checked before anything is written.
IsRefused(request) ==
  \/ Adapters(request) = {}
  \/ request.path = "missing"
  \/ ~ ToSet(TargetsOf(request)) \subseteq DOMAIN registered["targets"]

Refuse ==
  /\ Idle
  /\ \E request \in Requests : IsRefused(request)
  /\ outcome' = "refused"
  /\ UNCHANGED <<registryVars, jobs, queue, disk>>

\* An exception while the input is read, normalised or validated: all of it comes before the
\* first file.
FailBeforeWriting ==
  /\ Idle
  /\ \E request \in Requests : ~ IsRefused(request)
  /\ outcome' = "failed"
  /\ UNCHANGED <<registryVars, jobs, queue, disk>>

Accept ==
  /\ Idle
  /\ \E request \in Requests :
       /\ ~ IsRefused(request)
       /\ LET job == [input |-> request.input, targets |-> TargetsOf(request)]
          IN  /\ jobs' = Append(jobs, job)
              /\ queue' = WriteOrder(job)
  /\ outcome' = "writing"
  /\ UNCHANGED <<registryVars, disk>>

Written(file, whole) ==
  [f \in DOMAIN disk \cup {file} |->
     IF f = file THEN [of |-> Len(jobs), whole |-> whole] ELSE disk[f]]

Put ==
  /\ outcome = "writing"
  /\ queue # <<>>
  /\ disk' = Written(Head(queue), TRUE)
  /\ queue' = Tail(queue)
  /\ outcome' = IF queue' = <<>> THEN "done" ELSE "writing"
  /\ UNCHANGED <<registryVars, jobs>>

\* The process ends, or an emitter raises: between two files, or inside one.
Stop ==
  /\ outcome = "writing"
  /\ disk' \in {disk, Written(Head(queue), FALSE)}
  /\ queue' = <<>>
  /\ outcome' = "stopped"
  /\ UNCHANGED <<registryVars, jobs>>

Next ==
  \/ LoadEntryPoint /\ UNCHANGED <<jobs, queue, disk, outcome>>
  \/ AddByHand /\ outcome = "none" /\ UNCHANGED <<jobs, queue, disk, outcome>>
  \/ Refuse
  \/ FailBeforeWriting
  \/ Accept
  \/ Put
  \/ Stop

Spec == Init /\ [][Next]_vars

(***************************************************************************)
(* Properties                                                              *)
(***************************************************************************)

\* A workflow plan that is whole on disk launches jobs that are there: those written with it,
\* or by a later conversion; and whole, unless a later one was writing, or the same one for the
\* second time (a target that is named twice is written twice).  So whatever stops a conversion,
\* the plan of a package is never ahead of its jobs (src/etlir/package.py:59-62).
PlansStandOnTheirJobs ==
  \A k \in DOMAIN jobs : \A i \in DOMAIN jobs[k].targets :
    LET target == jobs[k].targets[i]
        plan   == <<target, WorkflowPlan>>
        flows  == Emitted(jobs[k].input, target)
        once   == \A j \in DOMAIN jobs[k].targets : jobs[k].targets[j] = target => j = i
    IN  plan \in DOMAIN disk /\ disk[plan] = [of |-> k, whole |-> TRUE] =>
          \A n \in DOMAIN flows :
            \A text \in {Launcher(flows[n]), Statement(flows[n]), Runtime} :
              LET file == <<target, text>>
              IN  /\ file \in DOMAIN disk
                  /\ disk[file].of >= k
                  /\ k = Len(jobs) /\ once => disk[file].whole

\* While the summary of the last conversion is on disk, all that conversion wrote is, whole and
\* as it wrote it: a reader of summary.json, the report or the benchmark, need look no further
\* (src/etlir/pipeline.py:2, "with every stage written as an artifact").
SummaryVouches ==
  LET summary == Report("summary")
      k == Len(jobs)
  IN  summary \in DOMAIN disk /\ disk[summary] = [of |-> k, whole |-> TRUE] =>
        \A file \in ToSet(WriteOrder(jobs[k])) \ {Report("report")} :
          file \in DOMAIN disk /\ disk[file] = [of |-> k, whole |-> TRUE]
=============================================================================

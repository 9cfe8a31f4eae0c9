# A TLA+ model of ETLIR

ETLIR converts PowerCenter exports to a canonical intermediate representation, decides what
a target (DuckDB, Spark) can run of it, emits a package of jobs with a workflow plan, and
has a reference runner that executes the plan. This directory specifies the whole of that path:
which plug-ins a conversion uses and what it leaves on disk; which definitions of an export
resolve; what dataflow a mapping becomes and what its expressions become; what is blocked and
why; what is launched and when; what a job leaves on disk, and what the run report says. Each
specification is translated from the code of `src/src/etlir/`; `PROJECT.json` names the lines
every definition stands for.

## The system and its components

| Component | State it keeps | Operations | What makes it correct |
|---|---|---|---|
| Capability analysis (`capabilities.py`) | blocked dataflows, blocked tasks, decisions seen | three scans and a propagation loop | fail closed: exactly the downstream closure is blocked, every block has evidence |
| Emitters and workflow plan (`targets/*/emitter.py`, `workflow.py`) | job names taken, commands, the plan | skip, emit, `Unlowerable`, `build_workflow_plan` | nothing unsupported is launched, scripts are not confused, blocks carry reasons |
| Reference runner (`runner.py`) | pending and ordered tasks, statuses, pipeline results, `execution.json` | order, decide, launch, finish, summarise | dependency conditions hold at each launch; statuses and verdict agree with what ran |
| Run records (`runner.py:_execute`) | logs and settings files of a run directory | open log, launch, write and read settings, run again | an entry of the report is about its own process |
| Dataset writes (`etlir_duckdb_runtime.py`) | part files of each dataset, the keyed merge | duplicate check, merge, remove, create, copy | a succeeded job has written what its modes say; failures lose no more than they must |
| Canonical model and invariants (`canonical/model.py`, `invariants.py`, `typing.py`) | none (checks on one document) | `validate` | references, cycles, types |
| Graph helpers, row alignment (`canonical/graph.py`, `rowalign.py`) | a worklist; the dataflow being rewritten | `topological_order`, `fuse_row_aligned` | a linear extension; the meaning of the merge is kept |
| Function catalogue (`canonical/functions.py`) and the lowerings of expressions | none | 3-valued logic, NULL rules | both targets compute what the catalogue says |
| Lowering plan, package writer (`canonical/plan.py`, `package.py`) | files of a package directory | `write_package` | the package matches the plan |
| Symbol table (`sources/powercenter/symbols.py`) | definitions and conflicts per folder | `add_file` | the order of files does not matter |
| Normaliser (`normalize.py`, `types.py`, `adapter.py`) | the connectors it rewrites, the instances left, the document under construction | splicing of generators, one operation per instance, sessions, links | the canonical document means what the export means, and is sound |
| Expression and SQL translation (`expression.py`, `sql.py`) | variables set so far | convert a part with its type, or make all of it opaque | a translated expression is typed, and both engines compute what it means |
| Raw import, inventory (`raw.py`, `xmlio.py`, `inventory.py`) | none | read XML, count | counts agree |
| Registry and contracts (`registry.py`, `contracts.py`, `evidence.py`) | plug-ins by id, errors | `add_source`, `add_target`, `discover` | one class per id, the first that conforms |
| Conversion pipeline (`pipeline.py`, `serialization.py`, `report.py`) | files of the output directory | stages of `convert` | determinism, artifacts of one document |
| Comparator (`compare.py`) | none | multiset comparison | equality of results |
| Benchmark, corpus, CLI, conformance kit | results | drive the above | exit codes follow verdicts |

How they interact. `convert` finds adapter and emitters in the registry, calls the adapter
(load, which fills the symbol table, then normalise, which reads it), validates the document and
calls each emitter. An emitter calls `analyze` with what its own preflight blocks, renders one
job per dataflow that is left, and passes the commands of the rendered jobs, with the report,
to `build_workflow_plan`. The only link from there to the runner is the file
`workflow_plan.json`; the only links from the runner to a job are its command line, its
environment (which names the settings file) and its return code; jobs of one run meet only on
disk, in the datasets they read and write.

Where it is hard. Nothing in the package runs concurrently: tasks are serial, and the
difficulties are of order, partial failure and leftovers. The propagation loop updates the set
it tests; a job fails to render after blocks were propagated; the runner tests conditions
against a dictionary that grows as it goes; any launch may raise and lose the report; a run
directory is used again by default (`cli.py:144`) and nothing in it is removed, and so is the
output directory of a conversion; files are named after tasks and may coincide; a job computes
its relations late, from files it may have removed, and may fail or be killed between any two
steps. The normaliser computes the columns of an operation from connectors it has rewritten,
drops ports nobody reads, and puts helper operations between others, each of which must get the
columns of what comes later; the expression converter chooses a cast by inferred types that the
engines do not share. `PROJECT.json` lists each hazard at its line with the properties that
would catch it.

## The modules

**`CapabilityAnalysis`** is `analyze()`. `ScanInvariants`, `ScanConstructs` and `DecideTask`
are one iteration each of its loops over dataflows, over their constructs, and over the tasks
of a pipeline; `PropagateTask` is one task of a propagation pass, which sees what the same
pass has blocked before; `StartPropagation`, `RepeatPass` and `EndPipeline` are the `while`
loop with its flag. A document is abstracted to what the loops read: which members (operations,
expressions) belong to which dataflow, which constructs they use, which of them a validation
error is about, what preflight blocks, and tasks with kinds, dataflows and dependencies.
`decisions` is the list of decisions as the set `seen` makes it. That identifiers are unique
(`IdentifiersUnique`, IR-V-001) is an assumption: a decision names its subject by identifier only.

**`TargetPackage`** extends it with `plan()` of the two emitters, which have the same
structure: `SkipBlocked`, `EmitJob` and `Unlowerable` are the three ways an iteration of the
emission loop ends, `JobName` is `job_name` with its suffixes, `BuildPlan` is
`build_workflow_plan` with `TaskReasons` its nested function. Text of jobs is left out: a
dataflow either renders or raises.

**`WorkflowPlans`** holds what the runner reads of a plan and `Satisfied`, the dependency
conditions. **`WorkflowSemantics`** is the abstract specification of a workflow run: tasks are
decided in any order their dependencies allow, one job at a time. It does not say in which
order pipelines and tasks are taken, and knows nothing of passes, results or reports.
**`WorkflowRunner`** is `run_package`: `PlaceTask`, `PassOver`, `NextPass`, `CycleFound` and
`Ordered` are `_order`; `BlockTask`, `LeaveUntriggered`, `RefuseTask`, `RecordNotification` and
`Launch` are the branches of the loop over tasks; `LaunchError` is the exception raised when the
command line cannot be built, `Finish` the end of the process with either outcome;
`WriteExecution` is `_overall` with the report. An exception ends the run in phase `cycle` or
`noLauncher`, with the `execution.json` an earlier run left (`"earlier"`) or none. It
implements `WorkflowSemantics` under the mapping that shows the task whose process is alive as
running (`ImplementsMeaning`).

**`RunRecords`** extends the runner with the files `_execute` shares between tasks and runs:
`LaunchLogged` truncates the log named after the task, `FinishRecorded` ends the process, which
wrote its settings if it is a Spark job whose session started, and reads the settings file if
there is one; `Rerun` runs the package again in the same directory, and a counter of runs keeps
them apart. The properties of the runner are checked over these runs: each run implements the
meaning of the workflow anew (`RunsImplementMeaning`, whose abstract specification has a step
`Again` back to undecided statuses), keeps the statuses it has recorded (`DecisionsAreFinal`), and
ends (`EveryRunEnds`). Names are sequences of
characters because `SafeName` maps distinct names to one file. A settings file cut in the middle
(a job killed while writing it) is not modelled.

**`DatasetWrites`** is the write loop of the DuckDB runtime. A write goes through `Merge`
(`_merge_keyed`, its result materialised) or `SkipMerge`, `Replace` (what the mode does to the
files there), `RemovePart` and `RemoveDirectory` (`rmtree`, file by file), `Create` (the
directory and the number of the new part, a count) and `Copy`. Relations are views over files,
computed when used. Exceptions are `FailBefore`, `RejectDuplicates`, `RefuseExisting` and
`FailCopy`; `Kill` may come between any two steps and inside a copy. A row has a key, a column
the input gives and one it does not; the merge is modelled on sequences of such rows with SQL's
treatment of NULL keys. Rows of a file cut in the middle are kept whole or not at all. An
input/output error while a materialised table is copied is not modelled, only errors in data.
The driver writer of the Spark runtime takes the same steps and has no module of its own. What
columns hold (`Values`), the jobs and the contents of the inputs are constants; a job that writes
nothing is left out (`JobsAssumption`).

**`DataflowGraph`** is `canonical/graph.py`. A dataflow maps operations to records and has a set
of edges; an operation is its position in the document, which is its rank among ready
operations. `slot_inputs`, `output_columns` and `slot_columns` are operators; the order is a
state machine, since its worklist is where it could be wrong: `NextReady` is an iteration of the
loop and `EndOrder` the test after it. **`RowAlignment`** extends it with `fuse_row_aligned`: a
round orders the dataflow, then `FuseOne` or `FailOne` treats the first merge that waits, until
`NothingPending`; `MarkUnsupported` is what the normaliser does with the failures. `Met` is
`_walk_up` (its fixed point, by depth); `WideName` and `WideRow` are the names and the columns of
the widened row, `Rewritten`, `Chain`, `Leaving`, `Rerouted` and `Kept` the parts of `_fuse_one`
in its order. An expression is the sequence of columns it reads, which is what renaming acts
on; the suffixes that keep aliases apart are abstracted to names that are distinct. A column
reference to an edge that names no declared column (a `KeyError` in the code) is left out.
`ColumnsAssumption` says so of the dataflows, and what the normaliser builds otherwise: one edge
for each upstream, group and slot (`normalize.py:757-776`), input ports that are connected
(`normalize.py:1031-1033`), returned columns that are columns of the lookup
(`canonical/model.py:246-252`). It also says that a port of an operation that keeps rows has one
source. PowerCenter connects a port once; the code does not check it, and of two sources the later
one would win in `_fuse_one`.
`SlotNames` is the sequence of slot names that `sorted()` makes. `FusionAssumption` says what the
normaliser builds: edges join operations of the dataflow, and what feeds the lookup slot of an
operation that keeps rows is made for this slot alone (`normalize.py:1680-1692`). That subgraph is
one operation without inputs here, so a merge inside the source of a lookup is not seen.
Below the specification, `Values` says what each column of a dataflow *means*: for a column that
is computed, its expression over meanings; for one that passes, the meaning it has upstream.
`Values` and `WideName` are recursive functions over the columns, not operators, so that they can
be reasoned about.

**`SymbolTable`** is `load` of the adapter with `add_file` and `_add`: `OpenFile` and `PassOver`
are the loop over files, of which some cannot be read, `Define`, `Merge` and `Clash` the ways one
definition ends in the table. A definition is a slot (folder, kind, name) and a body; two bodies
are equal or not. **`FolderFlows`** extends it with the normaliser above the level of a mapping,
in its order: `FillTable`, then `TranslateFlows` (which sessions there are, which mappings become
dataflows, and with which ids) and `TranslatePipelines` (tasks, dependencies, links that dangle).
The counts of the inventory are operators on the same table. `SlotsAssumption` says only that a
slot is made of a folder, a kind and a name of the instance.

**`CanonicalDataflow`** is what the canonical model and `validate` say of one dataflow: what an
operation requires, puts out and passes through, the `Errors` with their codes (ids, references,
groups, slots, cycles, columns), and the mapping of columns by `lower_dataflow`.
**`MappingNormaliser`** extends it with `Normalizer.dataflow`. Its state is the mapping, its
connectors as splicing rewrites them, the generators to splice, the instances still to be built
and the dataflow so far. `Splice` is one generator: its column is put before the first consumer
and its other outputs follow, as copies where a second consumer needs its own; `SkipFunction`,
`Build` and `BuildUnsupported` are the ways an iteration over the instances ends, and `Build`
has an operator per transformation type (`BuildWrite`, `BuildSequence`, `BuildLookup`,
`BuildExpression`, `BuildRouter`, `BuildJoiner`, `BuildAggregator`) that also makes the helper
operations: the read of a lookup table, the arguments and lookups of lookup calls, the filter
behind a global aggregate. **`MappingMeaning`** reads off the connectors *as exported* what a
load gets: its rows (which source, through which filters, groups, joins and aggregates), the
meaning of each column, the mode and the keys. It never looks at rewritten connectors, so that a
mistake in the rewriting shows.

**`CanonicalExpressions`** has the nodes and types of expressions and what each function means, as
`docs/semantics.md` and `functions.py` define it. A node carries the type that `infer`
(`typing.py`) gives it, computed where the node is made, and the calls inside it with the kinds of
their arguments. **`ExpressionTranslation`** is `_Converter`. A state is a
part of an expression, translated, and its type; each step is the call of the converter one
level up: `NotOf`, `Negate`, `Parenthesise`, `ApplyOperator`, `ApplyFunction`, `ApplyAggregate`,
and at the top `AssignVariable`, `AssignPort` and `UseAsCondition`. Numbers are fractions, texts
and times members of small sets with the relations between them (which text is which number).
**`ExpressionLowerings`** has the value of a node over a group of rows, and what the two emitters
make of each node, by what the engine computes of it: integer and fractional division, casts that
round, cut or fail, empty strings, positions, dates that do not parse. **`ExpressionMeaning`** puts
translation and values together and states what both must agree on.

**`PluginRegistry`** is `registry.py`: entry points in the order of discovery (`LoadEntryPoint`) and
registration by hand (`AddByHand`), with classes that do not conform and entry points that
raise. **`Conversion`** extends it with `convert` and `write_package`: `Refuse` and
`FailBeforeWriting` write nothing, `Accept` fixes the order of all files of the conversion,
`Put` writes one and `Stop` ends between two files or inside one. A file is a directory (of a
target, or `out`) with a path in it, a folder and a name; its content is the conversion that wrote
it last and whether it is whole. What a conversion emits is an operator from targets to the sequence
of its dataflows, and the sorted list of the targets there are is a member of `SortedLists`. A target
named twice on the command line is written twice (`pipeline.py:89-93`, `139-146`).

The `MC*` modules give the constants their values for TLC. The eight `*Proofs` modules hold the
theorems, and `RowAlignmentProofs` also those about `DataflowGraph`. An operator whose comment
begins with "Mutant of" is not part of the model: it is a plausible mistake in the operator it
follows, and at least one property of a run fails with it.

## What each run checks

| Run | Module | Shows |
|---|---|---|
| `target_package` | `MCTargetPackage` | the blocked tasks are the least downstream-closed set that holds what the target cannot run (`BlockedIsLeastClosure`); blocks and blocked decisions match (`BlocksMatchDecisions`); a launched script is that of the task's own dataflow, and nothing the analysis blocked is launched, nor anything downstream of it, whichever jobs fail to render and however names collide (`LaunchesOnlySupported`); what the analysis blocked carries a reason (`AnalysisBlocksHaveReasons`); the passes end (`Terminates`) |
| `plan_blocks` | `MCTargetPackage` | **fails**: what is downstream of a task blocked in the plan is blocked (`PlanBlocksReachDownstream`) |
| `runner` | `MCRunRecords` | the order (`OrderIsLinearExtension`), launches on the outcomes the conditions ask for (`LaunchesAreSound`), final statuses (`StatusesStandUp`), cycles (`AbortsOnlyOnCycle`), the verdict (`VerdictIsHonest`), finality of statuses, the end of every run, and the refinement of `WorkflowSemantics`, in which a pipeline with blocked tasks runs nothing unless `--allow-partial` says so; a succeeded Spark task is recorded with the settings of its own process (`SuccessHasItsSettings`); a file name no other task has is enough for the log (`OwnFileOwnLog`) |
| `dataset_writes` | `MCDatasetWrites` | a succeeded job wrote what its modes say of the datasets as they were (`SuccessIsExact`); a keyed write of a failed job is done wholly or not at all (`KeyedWritesAreWhole`); append keeps existing parts and error_if_exists what exists (`ExistingPartsAreKept`) |
| `row_alignment` | `MCRowAlignment` | fusing keeps where rows come from and what columns are computed of, casts aside (`MergesKeepMeaning`); a merge fails exactly when its branches start at different outputs of the graph as it was (`FailsIffNotAligned`); one upstream per slot at the end; no cycle is made; each round leaves strictly fewer merges (`RoundsShrink`); the order is the least extension |
| `casts_of_fused` | `MCRowAlignment` | **fails**: a column that passes through a fused operation keeps the cast to the type declared there (`MergesKeepCasts`) |
| `conversion` | `MCConversion` | the first conforming class keeps an id (`FirstPluginWins`); a plan on disk never launches a job that is not there (`PlansStandOnTheirJobs`); a summary on disk means that all files of its conversion are (`SummaryVouches`), wherever conversions stop |
| `import` | `MCFolderFlows` | a name resolves exactly if all its definitions agree, in any order (`ResolvesIffUnanimous`); a task runs the session and mapping it names or is unsupported (`TasksRunWhatTheyName`); the inventory counts what resolved (`InventoryAgrees`); each link between tasks becomes the dependency it asks for, there are no others, and each link not followed is reported (`LinksBecomeDependencies`) |
| `sessions_shadowed` | `MCFolderFlows` | **fails**: every session that has a dataflow has its own (`SessionsHaveTheirDataflow`) |
| `mapping` | `MCMappingNormaliser` | a dataflow that may be emitted loads what the mapping means (`MeaningKept`); the errors of a document made of a sound mapping are exactly those of four causes (`OnlyKnownErrors`); no statement selects a column that does not arrive, whatever the connectors say (`ColumnsArrive`) |
| `mapping_documented` | `MCMappingNormaliser` | **fails**: a sound mapping makes a document without errors, and what the documentation calls unsupported is unsupported in it (`ConvertedAsDocumented`) |
| `expressions` | `MCExpressions` | what is not opaque is typed throughout, but for two calls where what leads to them was met (`CallsAreTyped`), its values have its type (`ValuesFitTheirTypes`), and DuckDB and Spark compute what it means (`EnginesAgree`) |

The runs marked **fails** check a sentence of the documentation, of a docstring or of a test that
the code does not satisfy. The trace is the example; `PROJECT.json`, findings, quotes the sentence.

* `plan_blocks`: the dataflow of task 2 cannot be rendered, so that the plan blocks the task
  (`workflow.py:62`); task 3, which depends on it, is runnable, for blocks were propagated before
  (`docs/architecture.md:69-70`). The runner refuses the pipeline unless a partial run is asked for,
  and then leaves task 3 untriggered, since task 2 is blocked.
* `sessions_shadowed`: a workflow called `mapping` has a session `m` of the mapping `n`, and no
  session uses the mapping `m` (`normalize.py:509`). Its dataflow has the identifier of the one of
  the session and replaces it, and the task of the session runs the mapping as it is, without what
  the session sets (`normalize.py:6-8`).
* `mapping_documented`: its one mapping holds a global aggregator with a port `rows`
  (`normalize.py:2037`, IR-V-001), a generator with two consumers of which the first is fed by a
  router (`normalize.py:1216-1219`, IR-V-008), a Source Qualifier without a source
  (`normalize.py:895`, IR-V-018), and a lookup called in an argument of another
  (`normalize.py:1877`, IR-V-015): the last state shows all four errors, each against the test that
  no document has any (`testing/conformance.py:64-65`). Its writers update as inserts into
  truncated tables, which should be unsupported (`docs/sources/powercenter.md:72-74`) and are
  appends, for `keyed_write` returns before it looks (`normalize.py:1228-1231`).
* `casts_of_fused`: a branch passes a column and declares it as text; after fusion it arrives as
  the number it was at the anchor (`rowalign.py:206`, against `canonical/model.py:207-208`).

The properties of the passing runs say of these cases what the code does, as narrowly as its cause:
`TasksRunWhatTheyName` that a session so shadowed runs that mapping, `OnlyKnownErrors` that the
errors of a document are exactly those the four causes make, at the operations where they are,
`MeaningKept` leaves out the targets of `UpdatedAsInsert` alone, and `LaunchesOnlySupported` speaks
of blocks of the analysis. One exception has no text against it and hence no run of its own: after
a kill inside `rmtree` an append replaces the part numbered by the count of those left
(`etlir_duckdb_runtime.py:148-150`), and keeps all others.

Bounds. Three tasks in a pipeline are enough for a forward reference that needs a second pass,
a cycle of two with a task outside, a chain in the wrong order of declaration, and a task with
two dependencies of different conditions; two pipelines for the filter, the verdict over several
results, and file names shared across pipelines. The packages with every graph are run once, those
of two or three jobs twice, under every choice of names (`Packages`, `Reruns`): what one run leaves
to the next is files, which depend on names and engines and not on the graph. Three dataflows with names `x` and `x_2` let a
suffix collide with a base name and with a name whose job failed. Two runs suffice for leftovers,
since a file only remembers its last writer. Three writes (`MaxWrites`) let a dataset get a
second part, be cut by a kill in its removal, and be written again; two datasets let a write
read what the next removes. The graphs are complete over their size except that a task
has at most one dependency, and the third at most two; conditions of the kind `expression` are
blocked by both targets' manifests and appear in the analysis only.

Row alignment is checked on 3,240 dataflows: two row-preserving operations (derive, project,
lookup that keeps rows, lookup that multiplies them) and a merge take columns from a source, a
router with two groups, and each other, into a write or both sides of a join. That gives merges
inside the region of a later merge, an anchor that feeds the merge directly, branches from two
groups of one router, two merges of which one fails, cycles, and a flow against the order of
declaration; two branches are enough for names of one column to coincide.

Conversions: two conversions (`MaxJobs`) of two inputs, one of which has a dataflow less, are
enough for leftovers of an earlier one, also when one of them names a target twice;
environments have two plug-ins of one id, a
class of the wrong kind, an incomplete one and an entry point that raises. Imports: up to four
definitions spread over two files, the second perhaps unreadable, so that of three of one slot
the last may agree again with the first after a conflict, and a file with one of five
workflows, one of which is called `mapping`. Mappings:
2,219 of them, with chains of two transformations of every type in every order (helper
operations next to each other), generators with one and two consumers and in the middle of a
mapping, joiners of every type and choice of master side, every combination of session and writer
attributes that a write mode depends on, the mapping of `mapping_documented`, and connectors that name ports and instances that are
not there. Expressions: two
operators, functions or assignments (`MaxDepth`) around every kind of leaf, with leaves
as the other arguments; six rows with NULL, zero, negatives, fractions, an empty string and
texts that are or only look like dates, and groups of two rows. Depth two is where a rule about
a type meets the result of another rule; deeper parts mostly repeat it, since the
converter passes on nothing but node and type. The one rule known to need more is the text of a
double after a variable took NULL, one of the two exceptions of `CallsAreTyped`: it takes four
steps. `CallsAreTyped` is proved for every depth.

Deadlock is not checked (`CHECK_DEADLOCK FALSE`): each of these programs ends, and so does every
behaviour of its model.

Fairness. The analysis, the planning and the runner are one thread each that runs until it
returns: weak fairness of the whole next-state relation (of `RunStep`, the steps inside a run, for
the runner) says only that the program does not stop by itself. It is not fair that somebody
runs a package again. For the runner it includes that a launched process ends, which
`subprocess.run` waits for without a timeout: a run ends if its jobs do. `RowAlignment` assumes
no fairness: that its loop ends is stated as a measure that every round lowers (`RoundsShrink`), and
each order takes as many steps as there are operations. `DatasetWrites`, `Conversion`,
`FolderFlows`, `MappingNormaliser` and `ExpressionTranslation` state safety only and assume none; the
loops of the last four run over a finite list each.

## What is proved

TLAPS proves the following for every value of the constants (any number of dataflows, pipelines,
tasks, files, jobs and rows, any set of documents, plans or requests), from the named assumptions
of the modules: sizes are natural numbers, documents, plans, jobs and environments have their
type, the manifest maps constructs to states and declares no invariant code, identifiers are
unique, dataflows are finite, the columns of a dataflow arrive where they are read, ports have
one of the types that `types.py` gives, and literals the type of their text (`TypesAssumption`,
`LeavesAssumption`: a port whose type is unknown blocks the operation that reads it). TLC evaluates all of these assumptions in the runs. Every invariant and action property that a run
checks is proved, except those listed at the end. The theorems are in `PROJECT.json`; this is how
they go.

* **`TargetPackageProofs`**, about the analysis: `TypeCorrect`, `LeastClosure`, `BlocksExplained`. The inductive
  invariant says, in each phase, what the loops have computed so far: the blocked dataflows are the
  bad ones among those scanned; the blocked tasks of the current pipeline lie between the seeds met
  so far and every closed set that contains the seeds, which gives minimality at once; and in
  a pass that has changed nothing, the tasks before the cursor are closed under the set as it is.
  The last part is what makes the end of an unchanged pass a fixed point. That blocks are those the
  decisions explain needs identifiers to be unique: otherwise a decision about an operation
  would explain the block of a task.
* **`TargetPackageProofs`**, about the plan: `PackageTypes`, `PackageInvariant`, `LaunchesCorrect`, `ReasonsCorrect`. The emitter
  runs the analysis to its end and only reads what it found, so its invariants go on holding.
  `EmitInv` adds what the emission loop has made of the dataflows before its cursor. That two tasks
  never share a script rests on a counting lemma: of the base name and the names with suffixes up
  to one more than the names taken, one is free.
* **`WorkflowRunnerProofs`**: `TypeCorrect`, `OrderCorrect`, `LaunchSafety`, `StatusCorrect`,
  `CycleCorrect`, `VerdictCorrect`. The inductive invariant relates
  `pending` to `order` (together they are the tasks, without repetition, and each placed task comes
  after what it depends on), the statuses to the position in the order (decided exactly before
  `next`), and each decided task to the statuses of its dependencies, which lie earlier in the order
  and so are final. `LaunchSafety` follows from the order and from the condition under which
  `Launch` is taken: what a task depends on is placed before it, hence decided, and `Satisfied` holds
  of its status. `CycleCorrect` needs one more part: in a pass without progress every
  pending task before the cursor waits for a pending one. `ResultInv` adds what the results of
  the pipelines passed say of the statuses in them, from which the verdict follows.
* `WorkflowRunnerProofs!Refinement`: `Spec => ImplementsMeaning`. Initial states map to
  initial states, and under the invariant each action maps to `Refuse`, `NotRun`, `Run` or
  `Finish` of the abstract specification, or leaves its variables alone.
* **`RunRecordsProofs`**: `RecordsInvariant`, `SettingsCorrect`, `OwnFilesCorrect`, `RunsAreMeant`,
  `DecisionsCorrect`. A step inside a run is a step of the runner, so its invariant holds again, and
  the step maps to the abstract specification as it does in `Refinement`; a rerun, which is `Again`
  there, starts from leftovers of any kind. The new part is about files: a launched task is decided for good in this run, so
  its log and its settings change only by a task of the same file name. A task that shares its name
  with no other can meet its own earlier settings, and no one else's.
* **`DatasetWritesProofs`**: `WritesInvariant`, `SuccessCorrect`, `KeyedFailureCorrect`,
  `ExistingPartsCorrect`. Parts of a dataset that is not being removed are numbered without a gap,
  so that their count is a free number; a dataset no write of the job has reached is as it was
  when the job started, so that relations computed late are those of the start. A keyed write has
  its result in `staged` before it removes anything, and what a finished write left in its dataset
  is kept to the end of the job, since no other write of the job has that dataset. A dataset a kill
  left partly removed is remembered as `cut`: only there may the count be the number of a part. The
  lemmas are about sequences: the rows of the
  parts in order when one is added last (`ContentAppend`), and the join of `_merge_keyed` against
  the rows one by one (`MergeIsWritten`).
* **`RowAlignmentProofs`**, about the order: `OrderTypeCorrect`, `LeastExtension`, `CycleCorrect`.
  The inductive invariant ties the counter of an operation to the number of its edges from
  operations that are not out, and the worklist to the operations at zero that are not out; taking
  one lowers each counter by exactly the edges closed (`UnmetAfter`). Each place of the order is
  recorded with what was free at that moment, so minimality needs no induction over the list.
* **`RowAlignmentProofs`**, about fusion, which starts the order anew on another graph each round:
  `FusionTypes`, `RoundsAreOrdered`, `FailuresCorrect`, `OneUpstreamCorrect`, `NoCycleCorrect` and
  the action property `RoundsShrinkCorrect`. The heart of `FusionInv` is `OriginsKept`: a merge that
  is left has the origins it had at the start, and one that is gone had a single one. The argument
  for a round goes thus. What `_walk_up` meets is the least set that holds the upstreams and
  is closed under walking through operations that keep rows (`MetIsLeast`, and `MetIsClosed` by
  counting); so a region with one boundary has nothing else above it (`RegionFusable`). Then the
  upstreams of every slot after the fusion are given: in the chain (`ChainUpstreams`,
  `RegionUpstreams`) and outside, where the region is replaced by its end (`OutsideUpstreams`). From
  these follow that merges outside keep their origins (`FusedOrigins`), that none is made
  (`FusedMerges`), and that a new cycle would have been one before (`FusedAcyclic`: the anchor comes
  before the region, and what the region feeds comes after it, in the order just computed).
  `FlowFused` keeps the assumption about lookups.
* **`RowAlignmentProofs`**, about columns: `MeaningCorrect`, that an operation which is not rewritten
  gets in each slot rows of the same origin and columns of the same value, whatever was fused.
  `MeaningInv` adds to `FusionInv` that meanings are kept and that the columns still arrive
  (`ColumnsFused`), since the next round builds on it. Two facts carry the argument. In a dataflow
  without a cycle the equations of `Values` have exactly one solution (`ValuesExist`,
  `ValuesSolveOnce`), for the operations can be numbered along the edges; those of `WideName` have one
  for the same reason. And the solution for the fused dataflow can be written down from the
  old one: a column of the wide row has the value of the column it was made for (`FusedValues`,
  with `FormerOf` from new names to old), all others keep theirs. That these solve the equations
  after the fusion is shown for the columns of the anchor, those a region operation makes, those the
  row carries along, and those outside (`WideSolves`, `OutsideSolves`); it rests on wide names being
  distinct and on `rename_columns` reading the same columns as before. So by uniqueness they are
  the meaning (`ValuesFused`), and what leaves the region takes them under the rerouted names
  (`MeaningFused`). Casts are not counted here: that a cast is lost is the finding of
  `casts_of_fused`.
* **`SymbolTableProofs`**, about the table: `TableTypeCorrect`, `UnanimityCorrect`,
  `ImportFillsTable`. The inductive invariant says what the table holds of the definitions taken so
  far, which a history variable keeps as a set: a slot is defined exactly if there is one body
  for it and it is no conflict, and a conflict exactly if there are two. The conflict must be
  remembered, since a third definition that equals the first would define the slot anew.
* **`SymbolTableProofs`**, about the import: `ImportInvariant`, `TasksCorrect`, `InventoryCorrect`,
  `LinksCorrect`. The table is filled once and left alone, so that the invariant can describe
  dataflows and tasks as functions of the final table.
* **`ConversionProofs`**: `FirstPluginCorrect`, `PlansCorrect`, `SummaryCorrect`. The registry: among
  the classes of one identifier, the table has the first and the errors all others. The disk: the
  files of the current conversion that are written are exactly the first ones of `WriteOrder`, whole,
  and in that order every text of a package comes before its plan, at places that lemmas about
  `FlattenSeq` compute (`FlattenOffsets`, `PackagesOrder`, `WriteOrderFacts`).

* **`ExpressionTranslationProofs`**: `CallsTyped`. The converter decides by a type of its own that
  travels with each node, while what a call gets is the type that `infer` finds, and the two are not
  always the same. The inductive invariant (`IInv`) is how far they may differ (`Related`): `infer`
  may know nothing, of a NULL; and, once a variable port took what has no type (`untyped`), it may
  find another kind of number. Until then the kinds are the same or unknown (`Exact`), on which the
  aggregate functions rest, for Aggregators have no variables here. That upper gets texts alone holds
  until IN folds the case of a NULL (`folded`). There is a lemma for each function of the converter: from
  arguments of which this holds it makes a part of which it holds again, with calls that get what
  they are defined for. For IIF and DECODE it is that results which agree for the converter agree
  for `infer` (`BranchesFine`), for IN that its disjunction is made term by term (`AnyOfFine`, by the
  least term that would fail), and for `||` that what `flatten_concat` takes out of a concatenation is
  what was put into it, which is the second half of the invariant. The attempt to prove the
  property without exceptions failed on two expressions the converter does let through; they are told
  below.

The library's induction theorems take an operator as a parameter, which the provers cannot
instantiate. Where an argument goes along a sequence or a depth it is put as a statement about a set of
numbers (`UpTo`: a set that holds 0, and n with n - 1, holds all numbers up to N), which is proved
from well-foundedness; that is how recursive functions and folds are reasoned about here. It does
not reach RECURSIVE operators.

Only model-checked:

* termination of the analysis, the planning and the runs: liveness is outside the prover;
* `MeaningKept`, `OnlyKnownErrors`, `ColumnsArrive`, `ValuesFitTheirTypes` and `EnginesAgree`.
  `CanonicalDataflow`, `MappingNormaliser`, `MappingMeaning` and `ExpressionLowerings` walk graphs
  and trees with RECURSIVE operators, about which the prover can say nothing: there TLC's
  instances are all there is. The last two are about expressions all of whose calls are
  typed: what a stray call computes is not defined.

## What was met on the way

The code differs from its texts, or surprises, in these places too; no run is about them.

* A task blocked because its job could not be rendered carries no reason in the plan
  (`workflow.py:72`, against its own lines 3-4).
* `partial` is also the verdict of a run in which nothing was blocked (`runner.py:164`).
* Two tasks whose safe names coincide share a log (`runner.py:203`), and a job that ends before
  it writes its settings is recorded with those of an earlier run (`runner.py:233`,
  `docs/targets.md:46-47`). `OwnFileOwnLog` and `SuccessHasItsSettings` say what is left.
* Building a command line may raise in the middle of a run (`runner.py:60`): the report of what has
  run by then is lost. No text says what should be left of it.
* `validate` does not check that the declared columns of filters, routers, joins and aggregates
  arrive (`docs/architecture.md:58` says every column resolves); `ColumnsArrive` shows that the
  normaliser never needs it.
* `fuse_row_aligned` raises `ValueError` on a mapping with a cycle.
* `branches()` says a failure takes the type of the others, but a boolean, a number and an ABORT
  in one IIF become opaque.
* A NULL that has the type of its port for the converter has none for `infer`. Once a decimal
  variable port `D` is set to NULL, `IIF(c, D, i) / i` is decimal for the converter
  (`expression.py:414-424`, with what `convert` leaves of a NULL, `normalize.py:2266-2293`) and
  double for `infer` (`typing.py:24-39`), so that TO_CHAR makes text of a double, which
  `docs/sources/powercenter.md:154` says is opaque. And where a string port is unconnected, so that
  it is a NULL, `IN(s, 5, 0)` compares it with the number (`expression.py:567-568`) in upper case
  (`expression.py:652-653`), where `docs/sources/powercenter.md:180-182` says comparisons across
  types are opaque. `CallsAreTyped` admits to_string of a double only in an expression whose variable
  took a part without type (`untyped`), and upper of what is no text only in one where IN folded
  the case of NULL (`folded`). The run meets the second; the first takes four steps, which is beyond
  its depth and covered by the proof.
* CHR of a fraction is rounded by DuckDB, cut by Spark, and NULL by the semantics:
  `EnginesAgree` leaves it out by name (`CutsACode`).

## What is not modelled yet, and the plan

Modules that are left:

1. **Output comparator** (`compare.py`): normalisation of values and the multiset difference, as
   operators against equality of bags.
2. **SQL overrides** (`sql.py`): the parts of a statement that are recognised, against what it
   reads.

Left out of the modules there are: overflow and the precision of decimal division; order of
files and columns in reports; SQL overrides and qualifiers with queries of their own; the
dataset that stays in a document when its lookup is refused; functions that pass their arguments
on like another one (listed in `ExpressionTranslation`); ports and parameters of unknown type,
which block the operation that reads them; TRUE and FALSE as integers. A division by zero in an
argument that DuckDB would not evaluate is beyond the depth of the instance.

Not planned: the grammars of the expression and SQL parsers, XML reading, the text of generated
jobs and of reports, the checks of `validate` on datasets, tasks and provenance (membership
tests on one document), and the drivers (benchmark, corpus, command line), which keep no state
of their own beyond the files they write once.

----------------------------- MODULE FolderFlows -----------------------------
(***************************************************************************)
(* From the symbol table to the dataflows and pipelines of the canonical   *)
(* document (src/etlir/sources/powercenter/normalize.py: folder_flows,     *)
(* pipeline and task_kind; and the reference counts of inventory.py).      *)
(* What is inside a dataflow is left out here: it is known by its mapping  *)
(* and its session.                                                        *)
(***************************************************************************)
EXTENDS SymbolTable, FiniteSets, SequencesExt

\* The body of a SESSION names its mapping.  The body of a WORKFLOW has sessions of its own
\* (name -> mapping), names of other tasks of its own, task instances and links.  A name that
\* both a session and another task have is looked up as the later of the two: it is among the
\* names of other tasks if that is the other task.  Start is the instance every workflow has.  A link has no condition, tests the status of a task, or
\* something else.
CONSTANTS Folders, Names

ASSUME SlotsAssumption ==
  \A slot \in Slots : \E f \in Folders, n \in Names : slot = <<f, slot[2], n>>

VARIABLES
  phase,       \* "table", "flows", "pipelines", "done"
  sessionDf,   \* session -> its dataflow, or None
  dataflows,   \* identifier -> mapping and session
  tasks,       \* <<folder, workflow, instance>> -> task
  diagnostics  \* codes reported, each with its subject

vars == <<tableVars, phase, sessionDf, dataflows, tasks, diagnostics>>

None == <<>>

Defined(f, kind, name) == <<f, kind, name>> \in DOMAIN defs
Body(f, kind, name) == defs[<<f, kind, name>>]
NamesOf(f, kind) == {n \in Names : Defined(f, kind, n)}

Init ==
  /\ TableInit
  /\ phase = "table"
  /\ sessionDf = <<>>
  /\ dataflows = <<>>
  /\ tasks = <<>>
  /\ diagnostics = {}

FillTable ==
  /\ phase = "table"
  /\ TableNext
  /\ phase' = IF files' = <<>> /\ queue' = <<>> THEN "flows" ELSE "table"
  /\ UNCHANGED <<sessionDf, dataflows, tasks, diagnostics>>

(***************************************************************************)
(* Dataflows                                                               *)
(***************************************************************************)

\* Sessions of a folder and those of its workflows, <<folder, name>> and
\* <<folder, workflow, name>>, each with the mapping it names.
FolderSessions(f) ==
  { [key |-> <<f, s>>, folder |-> f, mapping |-> Body(f, "SESSION", s).mapping] :
      s \in NamesOf(f, "SESSION") }

WorkflowSessions(f, w) ==
  LET own == Body(f, "WORKFLOW", w).sessions
  IN  {[key |-> <<f, w, s>>, folder |-> f, mapping |-> own[s]] : s \in DOMAIN own}

SessionsIn(f) == FolderSessions(f) \cup UNION {WorkflowSessions(f, w) : w \in NamesOf(f, "WORKFLOW")}

Sessions == UNION {SessionsIn(f) : f \in Folders}

\* Mutant of Found: a conflicting mapping counts as found.
FoundAny(session) ==
  \E b \in Bodies : <<<<session.folder, "MAPPING", session.mapping>>, b>> \in seen

Found(session) == Defined(session.folder, "MAPPING", session.mapping)

\* A session becomes a dataflow named after it.  Mappings no session uses become dataflows too,
\* and such a one takes the place of a session of a workflow that is called "mapping".
Used == {<<s.folder, s.mapping>> : s \in Sessions}

Unused == {fm \in Folders \X Names : Defined(fm[1], "MAPPING", fm[2])} \ Used

UnusedId(fm) == <<fm[1], "mapping", fm[2]>>

TranslateFlows ==
  /\ phase = "flows"
  /\ LET all == Sessions
         keys == {s.key : s \in all}
         Of(key) == CHOOSE s \in all : s.key = key
         found == {s.key : s \in {t \in all : Found(t)}}
         unused == {UnusedId(fm) : fm \in Unused}
     IN  /\ sessionDf' = [key \in keys |-> IF key \in found THEN key ELSE None]
         /\ dataflows' =
              [id \in found \cup unused |->
                 IF id \in unused THEN [mapping |-> <<id[1], id[3]>>, session |-> None]
                 ELSE [mapping |-> <<Of(id).folder, Of(id).mapping>>, session |-> id]]
         /\ diagnostics' =
              {<<IF <<s.folder, "MAPPING", s.mapping>> \in conflicts THEN "PC-R-002"
                 ELSE "PC-R-001", s.key>> : s \in {t \in all : ~ Found(t)}}
  /\ phase' = "pipelines"
  /\ UNCHANGED <<tableVars, tasks>>

(***************************************************************************)
(* Pipelines                                                               *)
(***************************************************************************)

\* Kinds of the task types that are preserved; sessions and worklets are treated apart.
KindOfType == [Command |-> "command", Email |-> "notify", Timer |-> "wait"]

\* Mutant of SessionKey: the session of the folder hides the workflow's own.
SessionKeyOfFolder(f, w, instance) ==
  IF Defined(f, "SESSION", instance.task) THEN <<f, instance.task>>
  ELSE IF instance.task \in DOMAIN Body(f, "WORKFLOW", w).sessions THEN <<f, w, instance.task>>
  ELSE None

\* The session an instance names: the workflow's own, or the folder's.
SessionKey(f, w, instance) ==
  LET workflow == Body(f, "WORKFLOW", w)
  IN  IF instance.task \in DOMAIN workflow.sessions /\ instance.task \notin workflow.others
      THEN <<f, w, instance.task>>
      ELSE IF Defined(f, "SESSION", instance.task) THEN <<f, instance.task>>
      ELSE None

Task(kind, dataflow) == [kind |-> kind, dataflow |-> dataflow]

TaskKind(f, w, instance) ==
  LET key == SessionKey(f, w, instance)
  IN  CASE ~ instance.enabled -> Task("unsupported", None)
        [] instance.enabled /\ instance.type = "Session" ->
             IF key = None \/ sessionDf[key] = None THEN Task("unsupported", None)
             ELSE Task("dataflow", sessionDf[key])
        [] instance.enabled /\ instance.type # "Session" ->
             IF instance.type \in DOMAIN KindOfType THEN Task(KindOfType[instance.type], None)
             ELSE Task("unsupported", None)

Starts(workflow) == {i.name : i \in {j \in ToSet(workflow.instances) : j.type = "Start"}}
InstanceNames(workflow) == {i.name : i \in ToSet(workflow.instances)}

\* Mutant of ConditionOf: the task a condition tests is not looked at.
ConditionOfAny(link) ==
  CASE link.cond = "" -> "completion"
    [] link.cond = "SUCCEEDED" -> "success"
    [] link.cond = "FAILED" -> "failure"
    [] link.cond \notin {"", "SUCCEEDED", "FAILED"} -> "expression"

\* A condition that tests the status of the link's own source task is a condition on that
\* task; any other is kept as an opaque expression.
ConditionOf(link) ==
  CASE link.cond = "" -> "completion"
    [] link.cond # "" /\ link.of = link.from ->
         IF link.cond = "SUCCEEDED" THEN "success"
         ELSE IF link.cond = "FAILED" THEN "failure" ELSE "expression"
    [] link.cond # "" /\ link.of # link.from -> "expression"

\* A link with an unknown end is dropped and reported; a link from Start is no dependency.
Dangling(workflow) ==
  {l \in workflow.links : ~ {l.from, l.to} \subseteq InstanceNames(workflow)}

DependenciesOf(workflow, instance) ==
  {[task |-> l.from, condition |-> ConditionOf(l)] :
     l \in {k \in workflow.links \ Dangling(workflow) :
              k.to = instance.name /\ k.from \notin Starts(workflow)}}

\* Instances become tasks; their names are unique in a workflow.
InstancesOf(f, w) ==
  LET workflow == Body(f, "WORKFLOW", w)
  IN  {i \in ToSet(workflow.instances) : i.name \notin Starts(workflow)}

InstanceOf(f, w, name) == CHOOSE i \in InstancesOf(f, w) : i.name = name

\* The task of an instance.
Translated(f, w, instance) ==
  LET workflow == Body(f, "WORKFLOW", w)
      task == TaskKind(f, w, instance)
  IN  [kind |-> task.kind, dataflow |-> task.dataflow,
       depends_on |-> DependenciesOf(workflow, instance),
       trigger |-> IF instance.joinsOr THEN "any" ELSE "all"]

Workflows == {fw \in Folders \X Names : Defined(fw[1], "WORKFLOW", fw[2])}
TaskIds ==
  UNION {{<<fw[1], fw[2], i.name>> : i \in InstancesOf(fw[1], fw[2])} : fw \in Workflows}

TranslatePipelines ==
  /\ phase = "pipelines"
  /\ LET Instance(id) == InstanceOf(id[1], id[2], id[3])
         sessionless ==
           {id \in TaskIds : /\ Instance(id).enabled
                             /\ Instance(id).type = "Session"
                             /\ SessionKey(id[1], id[2], Instance(id)) = None}
     IN  /\ tasks' = [id \in TaskIds |-> Translated(id[1], id[2], Instance(id))]
         /\ diagnostics' = diagnostics
              \cup {<<"PC-R-001", id>> : id \in sessionless}
              \cup UNION {{<<"PC-R-003", <<fw[1], fw[2], l.from, l.to>>>> :
                              l \in Dangling(Body(fw[1], "WORKFLOW", fw[2]))} : fw \in Workflows}
  /\ phase' = "done"
  /\ UNCHANGED <<tableVars, sessionDf, dataflows>>

Next == FillTable \/ TranslateFlows \/ TranslatePipelines

Spec == Init /\ [][Next]_vars

(***************************************************************************)
(* The reference counts of the inventory                                   *)
(***************************************************************************)

SessionsResolved ==
  {s.key : s \in {t \in Sessions : Defined(t.folder, "MAPPING", t.mapping)}}

\* A task instance counts as resolved if any task, session or worklet has the name it gives.
InstanceResolved(f, w, instance) ==
  LET workflow == Body(f, "WORKFLOW", w)
  IN  \/ instance.task \in DOMAIN workflow.sessions \cup workflow.others
      \/ \E kind \in {"SESSION", "TASK", "WORKLET"} : Defined(f, kind, instance.task)

(***************************************************************************)
(* Properties                                                              *)
(***************************************************************************)

\* All definitions of a slot that the readable files of the group hold agree on a body.
Unanimous(slot) == \E b \in Bodies : {c \in Bodies : <<slot, c>> \in seen} = {b}

\* The dataflow of an unused mapping has the identifier of this session.
Overwritten(key) == \E fm \in Unused : UnusedId(fm) = key

\* A task runs a dataflow exactly if the group leaves no doubt which: its workflow, the session
\* it names, in the workflow or else in the folder, and the mapping of that session are each
\* defined one way in all files; the dataflow is then the one of that session and that mapping.
\* The one exception is a session of a workflow called "mapping" that has the name of a mapping
\* no session uses: its task runs that mapping.  Otherwise the task is unsupported, which blocks
\* what comes after it (the module comment of src/etlir/sources/powercenter/symbols.py:
\* "conflicts and resolve to nothing").
TasksRunWhatTheyName ==
  phase = "done" =>
    \A id \in DOMAIN tasks :
      LET workflow == Body(id[1], "WORKFLOW", id[2])
          instance == InstanceOf(id[1], id[2], id[3])
          own      == instance.task \in DOMAIN workflow.sessions \ workflow.others
          slot     == <<id[1], "SESSION", instance.task>>
          session  == IF own THEN <<id[1], id[2], instance.task>> ELSE <<id[1], instance.task>>
          mapping  == IF own THEN workflow.sessions[instance.task]
                      ELSE (CHOOSE b \in Bodies : <<slot, b>> \in seen).mapping
          clear    == /\ own \/ Unanimous(slot)
                      /\ Unanimous(<<id[1], "MAPPING", mapping>>)
      IN  instance.type = "Session" =>
            IF instance.enabled /\ clear
            THEN /\ tasks[id].kind = "dataflow"
                 /\ dataflows[tasks[id].dataflow] =
                      IF own /\ Overwritten(session)
                      THEN [mapping |-> <<id[1], instance.task>>, session |-> None]
                      ELSE [mapping |-> <<id[1], mapping>>, session |-> session]
            ELSE tasks[id].kind = "unsupported" /\ tasks[id].dataflow = None

\* A session together with its mapping is one dataflow: every session that has one has one of
\* its own, which a mapping no session uses does not take
\* (src/etlir/sources/powercenter/normalize.py:6-8, docs/sources/powercenter.md:42).
SessionsHaveTheirDataflow ==
  phase \in {"pipelines", "done"} =>
    \A s \in Sessions : sessionDf[s.key] # None =>
      dataflows[sessionDf[s.key]] = [mapping |-> <<s.folder, s.mapping>>, session |-> s.key]

\* What the inventory counts as resolved and what the normaliser makes of it agree: a session
\* has a dataflow exactly if the inventory resolved its mapping, and an enabled session task
\* the inventory could not resolve is unsupported.  (The converse does not hold: a task named
\* like a session's instance resolves it for the inventory.)
InventoryAgrees ==
  phase = "done" =>
    /\ SessionsResolved = {key \in DOMAIN sessionDf : sessionDf[key] # None}
    /\ \A id \in DOMAIN tasks :
         LET instance == InstanceOf(id[1], id[2], id[3])
         IN  tasks[id].kind = "dataflow" => InstanceResolved(id[1], id[2], instance)

\* A dependency that asks for what a link does: a test of another task than the link's own
\* source is not mistaken for one of that source.
AsksFor(d, l) ==
  /\ d.task = l.from
  /\ d.condition \in {"completion", "success", "failure", "expression"}
  /\ d.condition = "completion" <=> l.cond = ""
  /\ d.condition = "success" <=> l.cond = "SUCCEEDED" /\ l.of = l.from
  /\ d.condition = "failure" <=> l.cond = "FAILED" /\ l.of = l.from

\* A task waits for exactly the tasks linked to it, as the links ask: each link between known
\* instances that does not come from Start is a dependency of its own target, each dependency
\* is on a task and comes from such a link, and each link with an unknown end is reported.
LinksBecomeDependencies ==
  phase = "done" =>
    /\ \A fw \in Workflows :
         LET workflow == Body(fw[1], "WORKFLOW", fw[2])
             known    == {i.name : i \in ToSet(workflow.instances)}
             started  == {i.name : i \in {j \in ToSet(workflow.instances) : j.type = "Start"}}
         IN  \A l \in workflow.links :
               IF {l.from, l.to} \subseteq known
               THEN {l.from, l.to} \cap started = {} =>
                      \E d \in tasks[<<fw[1], fw[2], l.to>>].depends_on : AsksFor(d, l)
               ELSE <<"PC-R-003", <<fw[1], fw[2], l.from, l.to>>>> \in diagnostics
    /\ \A id \in DOMAIN tasks : \A d \in tasks[id].depends_on :
         /\ <<id[1], id[2], d.task>> \in DOMAIN tasks
         /\ \E l \in Body(id[1], "WORKFLOW", id[2]).links : l.to = id[3] /\ AsksFor(d, l)
=============================================================================


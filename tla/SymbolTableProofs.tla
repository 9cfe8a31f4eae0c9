-------------------------- MODULE SymbolTableProofs --------------------------
(***************************************************************************)
(* What resolves in the symbol table, for any group of files, and what the *)
(* import makes of it: sessions become dataflows, task instances tasks.    *)
(*                                                                         *)
(* The table is filled once and left alone after that, so each phase can   *)
(* be described by what it has made of the final table: FlowsMade and      *)
(* TasksMade.  The properties of the import follow from these two and from *)
(* what the table resolves.                                                *)
(***************************************************************************)
EXTENDS FolderFlows, TLAPS

\* The table holds slots and bodies only, and counts in natural numbers
\* (symbols.py: Folder and _add).
THEOREM TableTypeCorrect == TableSpec => []TableTypeOK
<1>1. TableInit => TableTypeOK
  BY ExportsAssumption DEF TableInit, TableTypeOK
<1>2. TableTypeOK /\ [TableNext]_tableVars => TableTypeOK'
  <2> SUFFICES ASSUME TableTypeOK, [TableNext]_tableVars PROVE TableTypeOK'
    OBVIOUS
  <2> USE DEF TableTypeOK
  <2>1. CASE OpenFile
    <3>1. Head(files) \in File /\ files' \in Seq(File)
      BY <2>1 DEF OpenFile
    <3>2. Head(files).definitions \in Seq(Definition)
      BY <3>1 DEF File
    <3>3. queue' \in Seq(Definition) /\ rejected' \in Nat
      <4>1. CASE Head(files).readable
        BY <2>1, <3>2, <4>1 DEF OpenFile
      <4>2. CASE ~ Head(files).readable
        BY <2>1, <4>2 DEF OpenFile
      <4>3. QED BY <4>1, <4>2
    <3>4. QED BY <2>1, <3>1, <3>3 DEF OpenFile
  <2>2. CASE PassOver
    BY <2>2 DEF PassOver
  <2>3. ASSUME Take PROVE /\ files' \in Seq(File)
                          /\ queue' \in Seq(Definition)
                          /\ rejected' \in Nat
                          /\ seen' \subseteq Slots \X Bodies
                          /\ D.slot \in Slots
                          /\ D.body \in Bodies
    <3>1. D \in Definition
      BY <2>3 DEF Take, D
    <3>2. D.slot \in Slots /\ D.body \in Bodies
      BY <3>1 DEF Definition
    <3>3. QED BY <2>3, <3>2 DEF Take
  <2>4. CASE Define
    <3>1. Take BY <2>4 DEF Define
    <3>2. DOMAIN defs' \subseteq Slots /\ \A s \in DOMAIN defs' : defs'[s] \in Bodies
      BY <2>3, <2>4, <3>1 DEF Define
    <3>3. QED BY <2>3, <2>4, <3>1, <3>2 DEF Define
  <2>5. CASE Merge
    BY <2>3, <2>5 DEF Merge
  <2>6. CASE Clash
    <3>1. Take BY <2>6 DEF Clash
    <3>2. DOMAIN defs' \subseteq Slots /\ \A s \in DOMAIN defs' : defs'[s] \in Bodies
      BY <2>6 DEF Clash
    <3>3. QED BY <2>3, <2>6, <3>1, <3>2 DEF Clash
  <2>7. CASE UNCHANGED tableVars
    BY <2>7 DEF tableVars
  <2>8. QED BY <2>1, <2>2, <2>4, <2>5, <2>6, <2>7 DEF TableNext
<1>3. QED BY <1>1, <1>2, PTL DEF TableSpec

\* What defs and conflicts say of one slot, given the bodies seen for it.
Resolution(s) ==
  /\ \A b \in Bodies : (s \in DOMAIN defs /\ defs[s] = b)
                         <=> (<<s, b>> \in seen /\ \A c \in Bodies : <<s, c>> \in seen => c = b)
  /\ s \in conflicts <=> \E b, c \in Bodies : b # c /\ <<s, b>> \in seen /\ <<s, c>> \in seen

\* A step that takes a definition touches its own slot only.
LEMMA OthersKept ==
  ASSUME NEW s \in Slots, Take, s # D.slot, Define \/ Merge \/ Clash, Resolution(s)
  PROVE  Resolution(s)'
<1>1. (s \in DOMAIN defs') = (s \in DOMAIN defs)
  BY DEF Define, Merge, Clash
<1>2. s \in DOMAIN defs => defs'[s] = defs[s]
  BY DEF Define, Merge, Clash
<1>3. (s \in conflicts') = (s \in conflicts)
  BY DEF Define, Merge, Clash
<1>4. \A b \in Bodies : (<<s, b>> \in seen') = (<<s, b>> \in seen)
  BY DEF Take
<1>5. QED BY <1>1, <1>2, <1>3, <1>4 DEF Resolution

\* A slot resolves to a body exactly if all its definitions so far have that body, in whatever
\* order and file they came; and is a conflict exactly if two differ.
THEOREM UnanimityCorrect == TableSpec => []ResolvesIffUnanimous
<1>1. TableInit => ResolvesIffUnanimous
  BY DEF TableInit, ResolvesIffUnanimous
<1>2. TableTypeOK /\ ResolvesIffUnanimous /\ [TableNext]_tableVars => ResolvesIffUnanimous'
  <2> SUFFICES ASSUME TableTypeOK, ResolvesIffUnanimous, [TableNext]_tableVars
               PROVE  ResolvesIffUnanimous'
    OBVIOUS
  <2>1. \A s \in Slots : Resolution(s)
    BY DEF ResolvesIffUnanimous, Resolution
  <2>2. ASSUME Take PROVE D.slot \in Slots /\ D.body \in Bodies
    <3>1. D \in Definition
      BY <2>2 DEF Take, D, TableTypeOK
    <3>2. QED BY <3>1 DEF Definition
  <2>3. CASE OpenFile \/ PassOver \/ UNCHANGED tableVars
    BY <2>3 DEF OpenFile, PassOver, tableVars, ResolvesIffUnanimous
  <2>4. ASSUME NEW s \in Slots, Define, s = D.slot PROVE Resolution(s)'
    <3>1. Resolution(s) /\ D.body \in Bodies /\ Take
      BY <2>1, <2>2, <2>4 DEF Define
    <3>2. \A b \in Bodies : <<s, b>> \in seen' <=> (<<s, b>> \in seen \/ b = D.body)
      BY <2>4, <3>1 DEF Take
    <3>3. CASE s \in conflicts
      BY <2>4, <3>1, <3>2, <3>3 DEF Define, Resolution
    <3>4. CASE s \notin conflicts
      <4>1. s \in DOMAIN defs' /\ defs'[s] = D.body /\ s \notin conflicts'
        BY <2>4, <3>4 DEF Define
      <4>2. \A b \in Bodies : <<s, b>> \notin seen
        BY <2>4, <3>1, <3>4 DEF Define, Resolution
      <4>3. QED BY <3>1, <3>2, <4>1, <4>2 DEF Resolution
    <3>5. QED BY <3>3, <3>4
  <2>5. ASSUME NEW s \in Slots, Merge, s = D.slot PROVE Resolution(s)'
    <3>1. Resolution(s) /\ D.body \in Bodies /\ Take /\ <<s, D.body>> \in seen
      BY <2>1, <2>2, <2>5 DEF Merge, Resolution
    <3>2. seen' = seen /\ defs' = defs /\ conflicts' = conflicts
      BY <2>5, <3>1 DEF Take, Merge
    <3>3. QED BY <3>1, <3>2 DEF Resolution
  <2>6. ASSUME NEW s \in Slots, Clash, s = D.slot PROVE Resolution(s)'
    <3>1. Resolution(s) /\ D.body \in Bodies /\ Take
      BY <2>1, <2>2, <2>6 DEF Clash
    <3>2. \A b \in Bodies : <<s, b>> \in seen' <=> (<<s, b>> \in seen \/ b = D.body)
      BY <2>6, <3>1 DEF Take
    <3>3. defs[s] \in Bodies /\ <<s, defs[s]>> \in seen /\ defs[s] # D.body
      BY <2>6, <3>1 DEF Clash, Resolution, TableTypeOK
    <3>4. s \notin DOMAIN defs' /\ s \in conflicts'
      BY <2>6 DEF Clash
    <3>5. QED BY <3>1, <3>2, <3>3, <3>4 DEF Resolution
  <2>7. CASE Define \/ Merge \/ Clash
    <3>1. Take BY <2>7 DEF Define, Merge, Clash
    <3>2. ASSUME NEW s \in Slots PROVE Resolution(s)'
      <4>1. CASE s = D.slot
        BY <2>4, <2>5, <2>6, <2>7, <4>1
      <4>2. CASE s # D.slot
        BY <2>1, <2>7, <3>1, <4>2, OthersKept
      <4>3. QED BY <4>1, <4>2
    <3>3. QED BY <3>2 DEF ResolvesIffUnanimous, Resolution
  <2>8. QED BY <2>3, <2>7 DEF TableNext
<1>3. QED BY <1>1, <1>2, TableTypeCorrect, PTL DEF TableSpec

\* The import fills the table by the table's own steps and leaves it alone afterwards, so what
\* holds of the table holds of it when dataflows and pipelines are made.
THEOREM ImportFillsTable == Spec => TableSpec
<1>1. Init => TableInit
  BY DEF Init
<1>2. [Next]_vars => [TableNext]_tableVars
  BY DEF Next, vars, FillTable, TranslateFlows, TranslatePipelines
<1>3. QED BY <1>1, <1>2, PTL DEF Spec, TableSpec

(***************************************************************************)
(* What a name resolves to                                                 *)
(***************************************************************************)

Sound == TableTypeOK /\ ResolvesIffUnanimous

LEMMA DefinedIffUnanimous ==
  ASSUME Sound, NEW slot
  PROVE  /\ slot \in DOMAIN defs <=> Unanimous(slot)
         /\ slot \in DOMAIN defs => defs[slot] = CHOOSE b \in Bodies : <<slot, b>> \in seen
<1>1. CASE slot \in DOMAIN defs
  <2>1. slot \in Slots /\ defs[slot] \in Bodies
    BY <1>1 DEF Sound, TableTypeOK
  <2>2. \A b \in Bodies : <<slot, b>> \in seen <=> b = defs[slot]
    BY <1>1, <2>1 DEF Sound, ResolvesIffUnanimous
  <2>3. {c \in Bodies : <<slot, c>> \in seen} = {defs[slot]}
    BY <2>1, <2>2
  <2>4. (CHOOSE b \in Bodies : <<slot, b>> \in seen) = defs[slot]
    BY <2>1, <2>2
  <2>5. QED BY <1>1, <2>1, <2>3, <2>4 DEF Unanimous
<1>2. CASE slot \notin DOMAIN defs
  <2>1. SUFFICES ASSUME NEW b \in Bodies, {c \in Bodies : <<slot, c>> \in seen} = {b}
                 PROVE  FALSE
    BY <1>2 DEF Unanimous
  <2>2. <<slot, b>> \in seen /\ \A c \in Bodies : <<slot, c>> \in seen => c = b
    BY <2>1
  <2>3. slot \in Slots
    BY <2>2 DEF Sound, TableTypeOK
  <2>4. QED BY <1>2, <2>2, <2>3 DEF Sound, ResolvesIffUnanimous
<1>3. QED BY <1>1, <1>2

LEMMA DefinedNames ==
  ASSUME Sound, NEW f, NEW kind, NEW name, Defined(f, kind, name)
  PROVE  f \in Folders /\ name \in Names
<1>1. <<f, kind, name>> \in Slots
  BY DEF Sound, TableTypeOK, Defined
<1>2. PICK g \in Folders, n \in Names : <<f, kind, name>> = <<g, <<f, kind, name>>[2], n>>
  BY <1>1, SlotsAssumption
<1>3. QED BY <1>2

(***************************************************************************)
(* Sessions                                                                *)
(***************************************************************************)

LEMMA FolderSession ==
  ASSUME Sound, NEW f, NEW name, Defined(f, "SESSION", name)
  PROVE  [key |-> <<f, name>>, folder |-> f, mapping |-> Body(f, "SESSION", name).mapping]
           \in Sessions
<1>1. f \in Folders /\ name \in Names
  BY DefinedNames
<1>2. name \in NamesOf(f, "SESSION")
  BY <1>1 DEF NamesOf
<1>3. QED BY <1>1, <1>2 DEF Sessions, SessionsIn, FolderSessions

LEMMA WorkflowSession ==
  ASSUME NEW f \in Folders, NEW w \in Names, Defined(f, "WORKFLOW", w),
         NEW name \in DOMAIN Body(f, "WORKFLOW", w).sessions
  PROVE  [key |-> <<f, w, name>>, folder |-> f,
          mapping |-> Body(f, "WORKFLOW", w).sessions[name]] \in Sessions
<1>1. w \in NamesOf(f, "WORKFLOW")
  BY DEF NamesOf
<1>2. [key |-> <<f, w, name>>, folder |-> f,
       mapping |-> Body(f, "WORKFLOW", w).sessions[name]] \in WorkflowSessions(f, w)
  BY DEF WorkflowSessions
<1>3. QED BY <1>1, <1>2 DEF Sessions, SessionsIn

\* A session is one of a folder or one of a workflow of a folder.
LEMMA SessionForms ==
  ASSUME NEW s \in Sessions
  PROVE  \/ \E f \in Folders, n \in Names :
              s = [key |-> <<f, n>>, folder |-> f, mapping |-> Body(f, "SESSION", n).mapping]
         \/ \E f \in Folders, w \in Names : \E n \in DOMAIN Body(f, "WORKFLOW", w).sessions :
              s = [key |-> <<f, w, n>>, folder |-> f,
                   mapping |-> Body(f, "WORKFLOW", w).sessions[n]]
<1>1. PICK f \in Folders : s \in SessionsIn(f)
  BY DEF Sessions
<1>2. CASE s \in FolderSessions(f)
  BY <1>2 DEF FolderSessions, NamesOf
<1>3. CASE \E w \in NamesOf(f, "WORKFLOW") : s \in WorkflowSessions(f, w)
  BY <1>3 DEF WorkflowSessions, NamesOf
<1>4. QED BY <1>1, <1>2, <1>3 DEF SessionsIn

LEMMA KeysAreUnique ==
  ASSUME NEW s \in Sessions, NEW t \in Sessions, s.key = t.key
  PROVE  s = t
BY SessionForms

(***************************************************************************)
(* What the phases have made of the table                                  *)
(***************************************************************************)

\* The dataflow of a session that has one.
DataflowOf(s) ==
  IF Overwritten(s.key) THEN [mapping |-> <<s.key[1], s.key[3]>>, session |-> None]
  ELSE [mapping |-> <<s.folder, s.mapping>>, session |-> s.key]

\* After the second phase every session whose mapping is found has its dataflow, the others
\* none.
FlowsMade ==
  phase \in {"pipelines", "done"} =>
    /\ DOMAIN sessionDf = {s.key : s \in Sessions}
    /\ \A s \in Sessions :
         /\ sessionDf[s.key] = IF Found(s) THEN s.key ELSE None
         /\ Found(s) => dataflows[s.key] = DataflowOf(s)

\* After the third every instance has been translated and every dangling link reported.
TasksMade ==
  phase = "done" =>
    /\ tasks = [id \in TaskIds |-> Translated(id[1], id[2], InstanceOf(id[1], id[2], id[3]))]
    /\ \A fw \in Workflows : \A l \in Dangling(Body(fw[1], "WORKFLOW", fw[2])) :
         <<"PC-R-003", <<fw[1], fw[2], l.from, l.to>>>> \in diagnostics

\* What a step finds in the table it does not change, it leaves.
LEMMA SameTable ==
  ASSUME defs' = defs
  PROVE  /\ Sessions' = Sessions
         /\ \A s : Found(s)' = Found(s)
         /\ \A s : DataflowOf(s)' = DataflowOf(s)
<1>1. Sessions' = Sessions
  BY DEF Sessions, SessionsIn, FolderSessions, WorkflowSessions, NamesOf, Defined, Body
<1>2. Unused' = Unused
  BY <1>1 DEF Unused, Used, Defined
<1>3. QED BY <1>1, <1>2 DEF Found, Defined, DataflowOf, Overwritten, UnusedId

LEMMA SameTasks ==
  ASSUME defs' = defs, sessionDf' = sessionDf
  PROVE  /\ TaskIds' = TaskIds
         /\ \A f, w, i : Translated(f, w, i)' = Translated(f, w, i)
         /\ \A f, w, n : InstanceOf(f, w, n)' = InstanceOf(f, w, n)
         /\ Workflows' = Workflows
         /\ \A f, kind, n : Body(f, kind, n)' = Body(f, kind, n)
<1>1. \A f, kind, n : Body(f, kind, n)' = Body(f, kind, n) /\ Defined(f, kind, n)' = Defined(f, kind, n)
  BY DEF Body, Defined
<1>2. Workflows' = Workflows
  BY <1>1 DEF Workflows
<1>3. \A f, w : InstancesOf(f, w)' = InstancesOf(f, w)
  BY DEF InstancesOf, Body
<1>4. TaskIds' = TaskIds
  BY <1>2, <1>3 DEF TaskIds
<1>5. \A f, w, n : InstanceOf(f, w, n)' = InstanceOf(f, w, n)
  BY <1>3 DEF InstanceOf
<1>6. \A f, w, i : TaskKind(f, w, i)' = TaskKind(f, w, i)
  BY DEF TaskKind, SessionKey, Body, Defined
<1>7. \A f, w, i : Translated(f, w, i)' = Translated(f, w, i)
  BY <1>1, <1>6 DEF Translated
<1>8. QED BY <1>1, <1>2, <1>4, <1>5, <1>7

LEMMA FlowsStep ==
  ASSUME FlowsMade, [Next]_vars
  PROVE  FlowsMade'
<1>1. CASE FillTable
  BY <1>1 DEF FillTable, FlowsMade
<1>2. CASE TranslateFlows
  <2> DEFINE keys == {s.key : s \in Sessions}
             Of(key) == CHOOSE s \in Sessions : s.key = key
             found == {s.key : s \in {t \in Sessions : Found(t)}}
             unused == {UnusedId(fm) : fm \in Unused}
  <2>1. /\ sessionDf' = [key \in keys |-> IF key \in found THEN key ELSE None]
        /\ dataflows' =
              [id \in found \cup unused |->
                 IF id \in unused THEN [mapping |-> <<id[1], id[3]>>, session |-> None]
                 ELSE [mapping |-> <<Of(id).folder, Of(id).mapping>>, session |-> id]]
        /\ defs' = defs
    BY <1>2 DEF TranslateFlows, tableVars
  <2>2. ASSUME NEW s \in Sessions
        PROVE  /\ s.key \in found <=> Found(s)
               /\ Of(s.key) = s
               /\ s.key \in unused <=> Overwritten(s.key)
    <3>1. \A t \in Sessions : t.key = s.key => t = s
      BY KeysAreUnique
    <3>2. QED BY <3>1 DEF Overwritten
  <2>3. /\ DOMAIN sessionDf' = {s.key : s \in Sessions}
        /\ \A s \in Sessions :
             /\ sessionDf'[s.key] = IF Found(s) THEN s.key ELSE None
             /\ Found(s) => dataflows'[s.key] = DataflowOf(s)
    <3>1. DOMAIN sessionDf' = {s.key : s \in Sessions}
      BY <2>1
    <3>2. ASSUME NEW s \in Sessions
          PROVE  /\ sessionDf'[s.key] = IF Found(s) THEN s.key ELSE None
                 /\ Found(s) => dataflows'[s.key] = DataflowOf(s)
      <4>1. s.key \in keys
        OBVIOUS
      <4> HIDE DEF keys, Of, found, unused
      <4>2. QED BY <2>1, <2>2, <4>1 DEF DataflowOf
    <3>3. QED BY <3>1, <3>2
  <2>4. QED BY <2>1, <2>3, SameTable DEF FlowsMade
<1>3. CASE TranslatePipelines \/ UNCHANGED vars
  <2>1. /\ defs' = defs /\ sessionDf' = sessionDf /\ dataflows' = dataflows
        /\ phase' \in {"pipelines", "done"} => phase \in {"pipelines", "done"}
    BY <1>3 DEF TranslatePipelines, vars, tableVars
  <2>2. QED BY <2>1, SameTable DEF FlowsMade
<1>4. QED BY <1>1, <1>2, <1>3 DEF Next

LEMMA TasksStep ==
  ASSUME TasksMade, [Next]_vars
  PROVE  TasksMade'
<1>1. CASE FillTable \/ TranslateFlows
  BY <1>1 DEF FillTable, TranslateFlows, TasksMade
<1>2. CASE TranslatePipelines
  <2>1. /\ tasks' = [id \in TaskIds |-> Translated(id[1], id[2], InstanceOf(id[1], id[2], id[3]))]
        /\ UNION {{<<"PC-R-003", <<fw[1], fw[2], l.from, l.to>>>> :
                      l \in Dangling(Body(fw[1], "WORKFLOW", fw[2]))} : fw \in Workflows}
             \subseteq diagnostics'
        /\ defs' = defs /\ sessionDf' = sessionDf
    BY <1>2 DEF TranslatePipelines, tableVars
  <2>2. [id \in TaskIds |-> Translated(id[1], id[2], InstanceOf(id[1], id[2], id[3]))]'
          = [id \in TaskIds |-> Translated(id[1], id[2], InstanceOf(id[1], id[2], id[3]))]
    BY <2>1, SameTasks
  <2>3. \A fw \in Workflows : \A l \in Dangling(Body(fw[1], "WORKFLOW", fw[2])) :
          <<"PC-R-003", <<fw[1], fw[2], l.from, l.to>>>> \in diagnostics'
    BY <2>1
  <2>4. QED BY <2>1, <2>2, <2>3, SameTasks DEF TasksMade, Dangling, InstanceNames
<1>3. CASE UNCHANGED vars
  BY <1>3, SameTasks DEF vars, tableVars, TasksMade, Dangling, InstanceNames
<1>4. QED BY <1>1, <1>2, <1>3 DEF Next

\* What holds in every state of an import.
THEOREM ImportInvariant == Spec => [](Sound /\ FlowsMade /\ TasksMade)
<1>1. Init => FlowsMade /\ TasksMade
  BY DEF Init, FlowsMade, TasksMade
<1>2. FlowsMade /\ TasksMade /\ [Next]_vars => FlowsMade' /\ TasksMade'
  BY FlowsStep, TasksStep
<1>3. Spec => [](FlowsMade /\ TasksMade)
  BY <1>1, <1>2, PTL DEF Spec
<1>4. TableTypeOK /\ ResolvesIffUnanimous => Sound
  BY DEF Sound
<1>5. QED BY <1>3, <1>4, ImportFillsTable, TableTypeCorrect, UnanimityCorrect, PTL

(***************************************************************************)
(* The properties of the import                                            *)
(***************************************************************************)

LEMMA TaskOf ==
  ASSUME NEW id \in TaskIds
  PROVE  /\ id[1] \in Folders /\ id[2] \in Names
         /\ Defined(id[1], "WORKFLOW", id[2])
         /\ <<id[1], id[2]>> \in Workflows
         /\ InstanceOf(id[1], id[2], id[3]) \in InstancesOf(id[1], id[2])
         /\ InstanceOf(id[1], id[2], id[3]).name = id[3]
         /\ id = <<id[1], id[2], id[3]>>
<1>1. PICK fw \in Workflows : \E i \in InstancesOf(fw[1], fw[2]) : id = <<fw[1], fw[2], i.name>>
  BY DEF TaskIds
<1>2. PICK i \in InstancesOf(fw[1], fw[2]) : id = <<fw[1], fw[2], i.name>>
  BY <1>1
<1>3. id[1] = fw[1] /\ id[2] = fw[2] /\ id[3] = i.name
  BY <1>2
<1>4. fw \in Folders \X Names /\ Defined(fw[1], "WORKFLOW", fw[2])
  BY DEF Workflows
<1>5. fw = <<fw[1], fw[2]>>
  BY <1>4
<1>6. \E j \in InstancesOf(id[1], id[2]) : j.name = id[3]
  BY <1>2, <1>3
<1>7. QED BY <1>2, <1>3, <1>4, <1>5, <1>6 DEF InstanceOf

\* The key of a session, with what its dataflow then is.
LEMMA SessionRuns ==
  ASSUME Sound, FlowsMade, phase = "done", NEW s \in Sessions
  PROVE  /\ s.key # None
         /\ sessionDf[s.key] = IF Unanimous(<<s.folder, "MAPPING", s.mapping>>) THEN s.key ELSE None
         /\ Unanimous(<<s.folder, "MAPPING", s.mapping>>) => dataflows[s.key] = DataflowOf(s)
<1>1. s.key # None
  BY SessionForms DEF None
<1>2. Found(s) <=> Unanimous(<<s.folder, "MAPPING", s.mapping>>)
  BY DefinedIffUnanimous DEF Found, Defined
<1>3. QED BY <1>1, <1>2 DEF FlowsMade

\* A task runs the dataflow of the session it names exactly if the group leaves no doubt which
\* session and which mapping that is (normalize.py: task_kind and folder_flows).
THEOREM TasksCorrect == Spec => []TasksRunWhatTheyName
<1>1. ASSUME Sound, FlowsMade, TasksMade PROVE TasksRunWhatTheyName
  <2>1. SUFFICES ASSUME phase = "done" PROVE TasksRunWhatTheyName
    BY DEF TasksRunWhatTheyName
  <2> DEFINE workflow(id) == Body(id[1], "WORKFLOW", id[2])
             instance(id) == InstanceOf(id[1], id[2], id[3])
             own(id) == instance(id).task \in DOMAIN workflow(id).sessions \ workflow(id).others
             slot(id) == <<id[1], "SESSION", instance(id).task>>
             session(id) == IF own(id) THEN <<id[1], id[2], instance(id).task>>
                            ELSE <<id[1], instance(id).task>>
             mapping(id) == IF own(id) THEN workflow(id).sessions[instance(id).task]
                            ELSE (CHOOSE b \in Bodies : <<slot(id), b>> \in seen).mapping
             clear(id) == /\ own(id) \/ Unanimous(slot(id))
                          /\ Unanimous(<<id[1], "MAPPING", mapping(id)>>)
             runs(id) ==
               IF instance(id).enabled /\ clear(id)
               THEN /\ tasks[id].kind = "dataflow"
                    /\ dataflows[tasks[id].dataflow] =
                         IF own(id) /\ Overwritten(session(id))
                         THEN [mapping |-> <<id[1], instance(id).task>>, session |-> None]
                         ELSE [mapping |-> <<id[1], mapping(id)>>, session |-> session(id)]
               ELSE tasks[id].kind = "unsupported" /\ tasks[id].dataflow = None
  <2> HIDE DEF workflow, instance, own, slot, session, mapping, clear, runs
  <2>2. ASSUME NEW id \in TaskIds, instance(id).type = "Session" PROVE runs(id)
    <3>0. /\ id[1] \in Folders /\ id[2] \in Names /\ Defined(id[1], "WORKFLOW", id[2])
      BY TaskOf
    <3> DEFINE kind == TaskKind(id[1], id[2], instance(id))
               key == SessionKey(id[1], id[2], instance(id))
    <3>1. tasks[id].kind = kind.kind /\ tasks[id].dataflow = kind.dataflow
      <4>1. tasks[id] = Translated(id[1], id[2], instance(id))
        BY <1>1, <2>1 DEF TasksMade, instance
      <4>2. QED BY <4>1 DEF Translated
    <3>2. kind = IF ~ instance(id).enabled \/ key = None \/ sessionDf[key] = None
                 THEN Task("unsupported", None) ELSE Task("dataflow", sessionDf[key])
      BY <2>2 DEF TaskKind
    <3> HIDE DEF kind, key
    \* What remains, once the session the task names is known.
    <3>3. ASSUME NEW s \in Sessions, s.key = session(id), s.folder = id[1], s.mapping = mapping(id),
                 key = session(id), clear(id) <=> Unanimous(<<id[1], "MAPPING", mapping(id)>>),
                 own(id) \/ ~ Overwritten(session(id)),
                 own(id) => session(id) = <<id[1], id[2], instance(id).task>>
          PROVE  runs(id)
      <4>1. /\ key # None
            /\ sessionDf[key] = IF clear(id) THEN key ELSE None
            /\ clear(id) => dataflows[key] = DataflowOf(s)
        BY <1>1, <2>1, <3>3, SessionRuns
      <4>a. DataflowOf(s) = IF own(id) /\ Overwritten(session(id))
                            THEN [mapping |-> <<id[1], instance(id).task>>, session |-> None]
                            ELSE [mapping |-> <<id[1], mapping(id)>>, session |-> session(id)]
        <5>1. own(id) => s.key[1] = id[1] /\ s.key[3] = instance(id).task
          BY <3>3
        <5>2. QED BY <3>3, <5>1 DEF DataflowOf
      <4>2. CASE instance(id).enabled /\ clear(id)
        <5>1. kind = Task("dataflow", key)
          BY <3>2, <4>1, <4>2
        <5>2. tasks[id].kind = "dataflow" /\ tasks[id].dataflow = key
          BY <3>1, <5>1 DEF Task
        <5>3. QED BY <3>3, <4>1, <4>a, <4>2, <5>2 DEF runs
      <4>3. CASE ~ (instance(id).enabled /\ clear(id))
        <5>1. kind = Task("unsupported", None)
          BY <3>2, <4>1, <4>3
        <5>2. tasks[id].kind = "unsupported" /\ tasks[id].dataflow = None
          BY <3>1, <5>1 DEF Task
        <5>3. QED BY <4>3, <5>2 DEF runs
      <4>4. QED BY <4>2, <4>3
    <3>4. CASE own(id)
      <4> DEFINE s == [key |-> session(id), folder |-> id[1], mapping |-> mapping(id)]
      <4>1. s \in Sessions
        BY <3>0, <3>4, WorkflowSession DEF own, session, mapping, workflow
      <4>2. key = session(id)
        BY <3>4 DEF SessionKey, key, own, session, workflow
      <4>3. s.key = session(id) /\ s.folder = id[1] /\ s.mapping = mapping(id)
        OBVIOUS
      <4>4. clear(id) <=> Unanimous(<<id[1], "MAPPING", mapping(id)>>)
        BY <3>4 DEF clear
      <4> HIDE DEF s
      <4>5. session(id) = <<id[1], id[2], instance(id).task>>
        BY <3>4 DEF session
      <4>6. QED BY <3>3, <3>4, <4>1, <4>2, <4>3, <4>4, <4>5
    <3>5. CASE ~ own(id) /\ Defined(id[1], "SESSION", instance(id).task)
      <4> DEFINE s == [key |-> session(id), folder |-> id[1], mapping |-> mapping(id)]
      <4>0. slot(id) \in DOMAIN defs
        BY <3>5 DEF Defined, slot
      <4>1. Unanimous(slot(id)) /\ defs[slot(id)] = CHOOSE b \in Bodies : <<slot(id), b>> \in seen
        BY <1>1, <4>0, DefinedIffUnanimous
      <4>2. Body(id[1], "SESSION", instance(id).task).mapping = mapping(id)
        BY <3>5, <4>1 DEF Body, mapping, slot
      <4>3. session(id) = <<id[1], instance(id).task>>
        BY <3>5 DEF session
      <4>4. s \in Sessions
        BY <1>1, <3>5, <4>2, <4>3, FolderSession
      <4>5. key = session(id)
        BY <3>5 DEF SessionKey, key, own, session, workflow
      <4>6. s.key = session(id) /\ s.folder = id[1] /\ s.mapping = mapping(id)
        OBVIOUS
      <4>7. clear(id) <=> Unanimous(<<id[1], "MAPPING", mapping(id)>>)
        BY <4>1 DEF clear
      <4>8. ~ Overwritten(session(id))
        BY <4>3 DEF Overwritten, UnusedId
      <4> HIDE DEF s
      <4>9. QED BY <3>3, <3>5, <4>4, <4>5, <4>6, <4>7, <4>8
    <3>6. CASE ~ own(id) /\ ~ Defined(id[1], "SESSION", instance(id).task)
      <4>0. slot(id) \notin DOMAIN defs
        BY <3>6 DEF Defined, slot
      <4>1. ~ Unanimous(slot(id))
        BY <1>1, <4>0, DefinedIffUnanimous
      <4>2. key = None
        BY <3>6 DEF SessionKey, key, own, workflow
      <4>3. ~ clear(id)
        BY <3>6, <4>1 DEF clear
      <4>4. kind = Task("unsupported", None)
        BY <3>2, <4>2
      <4>5. tasks[id].kind = "unsupported" /\ tasks[id].dataflow = None
        BY <3>1, <4>4 DEF Task
      <4>6. QED BY <4>3, <4>5 DEF runs
    <3>7. QED BY <3>4, <3>5, <3>6
  <2>3. DOMAIN tasks = TaskIds
    BY <1>1, <2>1 DEF TasksMade
  <2>4. \A id \in DOMAIN tasks : instance(id).type = "Session" => runs(id)
    BY <2>2, <2>3
  <2>5. QED BY <2>4 DEF TasksRunWhatTheyName, workflow, instance, own, slot, session, mapping, clear, runs
<1>2. QED BY <1>1, ImportInvariant, PTL

\* A task of kind dataflow is an enabled one that names a session there is.
LEMMA DataflowTaskNamesSession ==
  ASSUME NEW f, NEW w, NEW i, TaskKind(f, w, i).kind = "dataflow"
  PROVE  InstanceResolved(f, w, i)
<1>1. i.enabled /\ i.type = "Session" /\ SessionKey(f, w, i) # None
  <2>1. CASE ~ i.enabled
    BY <2>1 DEF TaskKind, Task
  <2>2. CASE i.enabled /\ i.type # "Session"
    <3>1. CASE i.type \in {"Command", "Email", "Timer"}
      BY <2>2, <3>1 DEF TaskKind, Task, KindOfType
    <3>2. CASE i.type \notin {"Command", "Email", "Timer"}
      BY <2>2, <3>2 DEF TaskKind, Task, KindOfType
    <3>3. QED BY <3>1, <3>2
  <2>3. CASE i.enabled /\ i.type = "Session"
    BY <2>3 DEF TaskKind, Task
  <2>4. QED BY <2>1, <2>2, <2>3
<1>2. QED BY <1>1 DEF SessionKey, InstanceResolved

\* The inventory and the normaliser, each by rules of its own, agree on what resolves
\* (inventory.py: reference counts; normalize.py: folder_flows and task_kind).
THEOREM InventoryCorrect == Spec => []InventoryAgrees
<1>1. ASSUME Sound, FlowsMade, TasksMade PROVE InventoryAgrees
  <2>1. SUFFICES ASSUME phase = "done" PROVE InventoryAgrees
    BY DEF InventoryAgrees
  <2>2. SessionsResolved = {key \in DOMAIN sessionDf : sessionDf[key] # None}
    <3>1. ASSUME NEW s \in Sessions
          PROVE  /\ s.key \in DOMAIN sessionDf
                 /\ sessionDf[s.key] # None <=> Defined(s.folder, "MAPPING", s.mapping)
      <4>1. s.key # None
        BY SessionForms DEF None
      <4>2. QED BY <1>1, <2>1, <4>1 DEF FlowsMade, Found
    <3>2. \A key \in DOMAIN sessionDf : \E s \in Sessions : key = s.key
      BY <1>1, <2>1 DEF FlowsMade
    <3>3. QED BY <3>1, <3>2 DEF SessionsResolved
  <2>3. ASSUME NEW id \in DOMAIN tasks, tasks[id].kind = "dataflow"
        PROVE  InstanceResolved(id[1], id[2], InstanceOf(id[1], id[2], id[3]))
    <3>1. tasks[id] = Translated(id[1], id[2], InstanceOf(id[1], id[2], id[3]))
      BY <1>1, <2>1 DEF TasksMade
    <3>2. TaskKind(id[1], id[2], InstanceOf(id[1], id[2], id[3])).kind = "dataflow"
      BY <2>3, <3>1 DEF Translated
    <3>3. QED BY <3>2, DataflowTaskNamesSession
  <2>4. QED BY <2>2, <2>3 DEF InventoryAgrees
<1>2. QED BY <1>1, ImportInvariant, PTL

\* The dependency that a link becomes asks for what the link does.
LEMMA ConditionsOf ==
  ASSUME NEW l
  PROVE  AsksFor([task |-> l.from, condition |-> ConditionOf(l)], l)
<1>1. CASE l.cond = ""
  BY <1>1 DEF ConditionOf, AsksFor
<1>2. CASE l.cond # "" /\ l.of = l.from
  BY <1>2 DEF ConditionOf, AsksFor
<1>3. CASE l.cond # "" /\ l.of # l.from
  BY <1>3 DEF ConditionOf, AsksFor
<1>4. QED BY <1>1, <1>2, <1>3

\* A known instance that is not a Start instance is a task, and its dependencies are the links
\* to it that are followed.
LEMMA TaskDependencies ==
  ASSUME TasksMade, phase = "done", NEW id \in TaskIds
  PROVE  /\ <<id[1], id[2]>> \in Workflows
         /\ tasks[id].depends_on =
              {[task |-> l.from, condition |-> ConditionOf(l)] :
                 l \in {k \in Body(id[1], "WORKFLOW", id[2]).links
                               \ Dangling(Body(id[1], "WORKFLOW", id[2])) :
                          /\ k.to = id[3]
                          /\ k.from \notin Starts(Body(id[1], "WORKFLOW", id[2]))}}
<1> DEFINE instance == InstanceOf(id[1], id[2], id[3])
<1>1. <<id[1], id[2]>> \in Workflows /\ instance.name = id[3]
  BY TaskOf
<1>2. tasks[id] = Translated(id[1], id[2], instance)
  BY DEF TasksMade
<1>3. tasks[id].depends_on = DependenciesOf(Body(id[1], "WORKFLOW", id[2]), instance)
  BY <1>2 DEF Translated
<1>4. QED BY <1>1, <1>3 DEF DependenciesOf

LEMMA KnownInstances ==
  ASSUME NEW fw \in Workflows,
         NEW name \in InstanceNames(Body(fw[1], "WORKFLOW", fw[2]))
                        \ Starts(Body(fw[1], "WORKFLOW", fw[2]))
  PROVE  <<fw[1], fw[2], name>> \in TaskIds
<1>1. PICK i \in ToSet(Body(fw[1], "WORKFLOW", fw[2]).instances) : i.name = name
  BY DEF InstanceNames
<1>2. i \in InstancesOf(fw[1], fw[2])
  BY <1>1 DEF InstancesOf
<1>3. QED BY <1>1, <1>2 DEF TaskIds

\* Each link between known instances that does not come from Start is a dependency that asks
\* for what the link does, each dependency comes from such a link, and each link with an
\* unknown end is reported (normalize.py: pipeline).
THEOREM LinksCorrect == Spec => []LinksBecomeDependencies
<1>1. ASSUME TasksMade, phase = "done", NEW fw \in Workflows,
             NEW l \in Body(fw[1], "WORKFLOW", fw[2]).links
      PROVE  LET workflow == Body(fw[1], "WORKFLOW", fw[2]) IN
               IF {l.from, l.to} \subseteq InstanceNames(workflow)
               THEN {l.from, l.to} \cap Starts(workflow) = {} =>
                      \E d \in tasks[<<fw[1], fw[2], l.to>>].depends_on : AsksFor(d, l)
               ELSE <<"PC-R-003", <<fw[1], fw[2], l.from, l.to>>>> \in diagnostics
  <2> DEFINE workflow == Body(fw[1], "WORKFLOW", fw[2])
             id == <<fw[1], fw[2], l.to>>
  <2>1. CASE l \in Dangling(workflow)
    <3>1. <<"PC-R-003", <<fw[1], fw[2], l.from, l.to>>>> \in diagnostics
      BY <1>1, <2>1 DEF TasksMade
    <3>2. ~({l.from, l.to} \subseteq InstanceNames(workflow))
      BY <2>1 DEF Dangling
    <3>3. QED BY <3>1, <3>2
  <2>2. CASE l \notin Dangling(workflow)
    <3>1. {l.from, l.to} \subseteq InstanceNames(workflow)
      BY <2>2 DEF Dangling
    <3>2. ASSUME {l.from, l.to} \cap Starts(workflow) = {}
          PROVE  \E d \in tasks[id].depends_on : AsksFor(d, l)
      <4>1. id \in TaskIds
        BY <3>1, <3>2, KnownInstances
      <4>2. id[1] = fw[1] /\ id[2] = fw[2] /\ id[3] = l.to
        OBVIOUS
      <4> HIDE DEF id
      <4>3. [task |-> l.from, condition |-> ConditionOf(l)] \in tasks[id].depends_on
        BY <1>1, <2>2, <3>2, <4>1, <4>2, TaskDependencies
      <4>4. QED BY <4>3, ConditionsOf
    <3>3. QED BY <3>1, <3>2
  <2>3. QED BY <2>1, <2>2
<1>2. ASSUME TasksMade, phase = "done", NEW id \in DOMAIN tasks, NEW d \in tasks[id].depends_on
      PROVE  /\ <<id[1], id[2], d.task>> \in DOMAIN tasks
             /\ \E l \in Body(id[1], "WORKFLOW", id[2]).links : l.to = id[3] /\ AsksFor(d, l)
  <2> DEFINE workflow == Body(id[1], "WORKFLOW", id[2])
  <2>1. id \in TaskIds /\ DOMAIN tasks = TaskIds
    BY <1>2 DEF TasksMade
  <2>2. PICK l \in workflow.links \ Dangling(workflow) :
               /\ l.to = id[3] /\ l.from \notin Starts(workflow)
               /\ d = [task |-> l.from, condition |-> ConditionOf(l)]
    <3>1. tasks[id].depends_on =
            {[task |-> l.from, condition |-> ConditionOf(l)] :
               l \in {k \in workflow.links \ Dangling(workflow) :
                        k.to = id[3] /\ k.from \notin Starts(workflow)}}
      BY <1>2, <2>1, TaskDependencies
    <3> HIDE DEF workflow
    <3>2. QED BY <1>2, <3>1
  <2>3. AsksFor(d, l)
    BY <2>2, ConditionsOf
  <2>4. l.from \in InstanceNames(workflow) \ Starts(workflow)
    BY <2>2 DEF Dangling
  <2>5. <<id[1], id[2]>> \in Workflows
    BY <2>1, TaskOf
  <2>6. <<id[1], id[2], l.from>> \in TaskIds
    BY <2>4, <2>5, KnownInstances
  <2>7. QED BY <2>1, <2>2, <2>3, <2>6
<1>3. TasksMade => LinksBecomeDependencies
  BY <1>1, <1>2 DEF LinksBecomeDependencies, InstanceNames, Starts
<1>4. QED BY <1>3, ImportInvariant, PTL
=============================================================================

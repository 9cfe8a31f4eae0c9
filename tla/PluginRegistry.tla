--------------------------- MODULE PluginRegistry ---------------------------
(***************************************************************************)
(* The registry of source adapters and target emitters                     *)
(* (src/etlir/registry.py).  Entry points are loaded group after group, by *)
(* name; one that is broken, or whose identifier another class has, is     *)
(* recorded and passed over.  Classes may also be added by hand, which     *)
(* raises instead.                                                         *)
(***************************************************************************)
EXTENDS Naturals, FiniteSets, SequencesExt

CONSTANTS
  Installed,  \* the possible environments: per group, the entry points sorted by name
  ByHand      \* classes a program adds itself, each with its group

Groups == {"sources", "targets"}

ASSUME InstalledAssumption ==
  \A environment \in Installed : \A group \in Groups :
    environment[group] \in Seq(ToSet(environment[group]))
ASSUME ByHandAssumption == \A plugin \in ByHand : plugin.group \in Groups

\* What an entry point loads.  A class is of one kind, has an identifier, and is sound or not:
\* the identifier in kebab case, a version, and an IR version the running one is compatible
\* with.  An import error is a class of kind "none".
Kinds == Groups \cup {"none"}

\* check_source and check_target.
Conforms(group, cls) == cls.kind = group /\ cls.sound

VARIABLES
  installed,   \* the environment
  registered,  \* group -> identifier -> class
  errors,      \* <<group, entry point>> of the plug-ins that could not be added
  pending      \* <<group, entry point>> still to be loaded, in order

registryVars == <<installed, registered, errors, pending>>

\* Mutant of MayAdd: the class found last is kept.
MayAddLast(table, group, cls) == Conforms(group, cls)

\* add_source and add_target raise, or set the identifier of the class.
MayAdd(table, group, cls) ==
  /\ Conforms(group, cls)
  /\ cls.id \in DOMAIN table[group] => table[group][cls.id] = cls

Added(table, group, cls) ==
  [table EXCEPT ![group] = [id \in DOMAIN @ \cup {cls.id} |->
                              IF id = cls.id THEN cls ELSE @[id]]]

EntriesOf(environment) ==
  LET In(group) == [i \in DOMAIN environment[group] |-> <<group, environment[group][i]>>]
  IN  In("sources") \o In("targets")

RegistryInit ==
  /\ installed \in Installed
  /\ registered = [group \in Groups |-> <<>>]
  /\ errors = {}
  /\ pending = EntriesOf(installed)

\* One iteration of discover.
LoadEntryPoint ==
  /\ pending # <<>>
  /\ LET group == Head(pending)[1]
         entry == Head(pending)[2]
     IN  IF MayAdd(registered, group, entry.cls)
         THEN /\ registered' = Added(registered, group, entry.cls)
              /\ UNCHANGED errors
         ELSE /\ errors' = errors \cup {<<group, entry.name>>}
              /\ UNCHANGED registered
  /\ pending' = Tail(pending)
  /\ UNCHANGED installed

\* add_source or add_target called by a program; a call that raises changes nothing.
AddByHand ==
  /\ pending = <<>>
  /\ \E plugin \in ByHand :
       /\ MayAdd(registered, plugin.group, plugin.cls)
       /\ registered' = Added(registered, plugin.group, plugin.cls)
  /\ UNCHANGED <<installed, errors, pending>>

(***************************************************************************)
(* Properties                                                              *)
(***************************************************************************)

\* An identifier means one class: of the entry points that conform, the first by name in its
\* group, whatever is loaded or added after it; and each other one is named among the errors
\* (src/etlir/registry.py:78, "duplicate source id", and :90, "recorded, not fatal").
FirstPluginWins ==
  pending = <<>> =>
    \A group \in Groups : \A i \in DOMAIN installed[group] :
      LET entries == installed[group]
          id      == entries[i].cls.id
          sound   == {k \in DOMAIN entries :
                        entries[k].cls.id = id /\ Conforms(group, entries[k].cls)}
          first   == entries[CHOOSE k \in sound : \A n \in sound : k <= n].cls
      IN  IF i \in sound /\ entries[i].cls = first
          THEN id \in DOMAIN registered[group] /\ registered[group][id] = first
          ELSE <<group, entries[i].name>> \in errors
=============================================================================


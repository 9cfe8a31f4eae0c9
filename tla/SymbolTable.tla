----------------------------- MODULE SymbolTable -----------------------------
(***************************************************************************)
(* The symbol table of a corpus group                                      *)
(* (src/etlir/sources/powercenter/symbols.py, filled by adapter.py).  The  *)
(* definitions of all files of a group go into one table of slots.  Equal  *)
(* definitions of a slot are merged; a slot that gets two different ones   *)
(* resolves to nothing.                                                    *)
(*                                                                         *)
(* A definition is abstracted to its slot and its body, which stands for   *)
(* the digest of the whole element.                                        *)
(***************************************************************************)
EXTENDS Naturals, Sequences

CONSTANTS
  Slots,   \* <<folder, kind, key>>, a source's key holding its database name as well
  Bodies,  \* what a definition may say
  Exports  \* the groups: sequences of files

KindsOfTable == {"SOURCE", "TARGET", "TRANSFORMATION", "MAPPLET", "MAPPING", "SESSION",
                 "TASK", "WORKFLOW", "WORKLET", "CONFIG"}

Definition == [slot : Slots, body : Bodies, reusable : BOOLEAN]

\* A definition goes into the table if its element is of one of the kinds; a transformation if
\* it is reusable, for the others belong to a mapping.
Shared(d) == d.slot[2] \in KindsOfTable /\ (d.slot[2] = "TRANSFORMATION" => d.reusable)

\* A file that cannot be read is reported, and the group goes on without it.
File == [readable : BOOLEAN, definitions : Seq(Definition)]

ASSUME ExportsAssumption == Exports \subseteq Seq(File)

VARIABLES
  files,      \* files still to be added, sorted by path
  queue,      \* definitions of the current file still to be added
  rejected,   \* number of files that could not be read
  defs,       \* slot -> body
  conflicts,  \* slots with different definitions
  duplicates, \* number of equal definitions merged
  seen        \* the definitions met so far (history)

tableVars == <<files, queue, rejected, defs, conflicts, duplicates, seen>>

TableInit ==
  /\ files \in Exports
  /\ queue = <<>>
  /\ rejected = 0
  /\ defs = <<>>
  /\ conflicts = {}
  /\ duplicates = 0
  /\ seen = {}

\* adapter.load and add_file: the elements of the next file.
OpenFile ==
  /\ queue = <<>>
  /\ files # <<>>
  /\ files' = Tail(files)
  /\ IF Head(files).readable
     THEN /\ queue' = Head(files).definitions
          /\ UNCHANGED rejected
     ELSE /\ rejected' = rejected + 1
          /\ UNCHANGED queue
  /\ UNCHANGED <<defs, conflicts, duplicates, seen>>

D == Head(queue)

\* An element that is not the table's.
PassOver ==
  /\ queue # <<>>
  /\ ~ Shared(D)
  /\ queue' = Tail(queue)
  /\ UNCHANGED <<files, rejected, defs, conflicts, duplicates, seen>>

Take ==
  /\ queue # <<>>
  /\ Shared(D)
  /\ queue' = Tail(queue)
  /\ seen' = seen \cup {<<D.slot, D.body>>}
  /\ UNCHANGED <<files, rejected>>

\* Mutant of Define: a slot a conflict has emptied is filled again.
DefineAgain ==
  /\ Take
  /\ D.slot \notin DOMAIN defs
  /\ defs' = [s \in DOMAIN defs \cup {D.slot} |-> IF s = D.slot THEN D.body ELSE defs[s]]
  /\ UNCHANGED <<conflicts, duplicates>>

\* _add, its three ways: a slot that is empty, unless a conflict has emptied it ...
Define ==
  /\ Take
  /\ D.slot \notin DOMAIN defs
  /\ defs' = IF D.slot \in conflicts THEN defs
             ELSE [s \in DOMAIN defs \cup {D.slot} |-> IF s = D.slot THEN D.body ELSE defs[s]]
  /\ UNCHANGED <<conflicts, duplicates>>

\* ... one with the same definition ...
Merge ==
  /\ Take
  /\ D.slot \in DOMAIN defs
  /\ defs[D.slot] = D.body
  /\ duplicates' = duplicates + 1
  /\ UNCHANGED <<defs, conflicts>>

\* ... and one with another.
Clash ==
  /\ Take
  /\ D.slot \in DOMAIN defs
  /\ defs[D.slot] # D.body
  /\ defs' = [s \in DOMAIN defs \ {D.slot} |-> defs[s]]
  /\ conflicts' = conflicts \cup {D.slot}
  /\ UNCHANGED duplicates

TableNext == OpenFile \/ PassOver \/ Define \/ Merge \/ Clash

TableSpec == TableInit /\ [][TableNext]_tableVars

(***************************************************************************)
(* Properties                                                              *)
(***************************************************************************)

TableTypeOK ==
  /\ files \in Seq(File)
  /\ queue \in Seq(Definition)
  /\ rejected \in Nat
  /\ DOMAIN defs \subseteq Slots
  /\ \A s \in DOMAIN defs : defs[s] \in Bodies
  /\ conflicts \subseteq Slots
  /\ duplicates \in Nat
  /\ seen \subseteq Slots \X Bodies

\* Whatever the order of files and of definitions in them, a slot resolves exactly if all its
\* definitions met so far agree, and to what they say; it is a conflict exactly if two differ,
\* also when the conflict was followed by more definitions
\* (src/etlir/sources/powercenter/symbols.py:4-5).
ResolvesIffUnanimous ==
  \A s \in Slots :
    /\ \A b \in Bodies : (s \in DOMAIN defs /\ defs[s] = b)
                           <=> (<<s, b>> \in seen /\ \A c \in Bodies : <<s, c>> \in seen => c = b)
    /\ s \in conflicts <=> \E b, c \in Bodies : b # c /\ <<s, b>> \in seen /\ <<s, c>> \in seen
=============================================================================


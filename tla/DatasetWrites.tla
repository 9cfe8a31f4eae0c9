---------------------------- MODULE DatasetWrites ----------------------------
(***************************************************************************)
(* How a generated DuckDB job writes its datasets                          *)
(* (src/etlir/targets/duckdb/etlir_duckdb_runtime.py, run and              *)
(* _merge_keyed).  A dataset is a directory of part files.  The relations  *)
(* of a job are views: each is computed when a statement uses it, from the *)
(* files there are then, and may raise a data error at every use.  Only a  *)
(* keyed write computes its new content before it removes the old one.     *)
(*                                                                         *)
(* Jobs run one after the other over the same datasets.  A job may be      *)
(* killed between any two steps, and leaves what it had written.           *)
(***************************************************************************)
EXTENDS Naturals, FiniteSets, SequencesExt

CONSTANTS
  Values,    \* what a column of a row may hold
  Datasets,  \* dataset directories
  Jobs,      \* the jobs that may run: sequences of writes
  Contents,  \* what a dataset may hold before the first job: sequences of rows
  MaxWrites  \* bound: writes of the jobs run one after the other

Null  == "null"
Modes == {"append", "overwrite", "error_if_exists", "update", "upsert"}
Keyed(w) == w.mode \in {"update", "upsert"}

\* A row: its key, a column the input provides, and one it does not provide.
Row(key, given, kept) == [key |-> key, given |-> given, kept |-> kept]
Rows == [key : Values, given : Values, kept : Values]

\* A write: its dataset, its mode, and the relation it writes: the rows of another
\* input, or the rows of a dataset as it is when the relation is computed.
NoDataset == "input"

Writes == [ dataset : Datasets, mode : Modes, source : Datasets \cup {NoDataset},
            rows : Seq(Rows) ]

\* A job that writes nothing changes nothing and is left out.
ASSUME JobsAssumption == /\ Jobs \subseteq Seq(Writes) \ {<<>>}
                         /\ Contents \subseteq Seq(Rows)
                         /\ MaxWrites \in Nat

VARIABLES
  disk,     \* dataset -> whether its directory exists, and its parts by index
  writes,   \* writes of the jobs started so far
  job,      \* the writes of the current job
  at,       \* the write it is at
  step,     \* the step of that write, or how the job ended
  staged,   \* the table a keyed write has computed
  part,     \* index of the part to write
  before,   \* disk when the job started
  cut       \* datasets a killed job left partly removed

vars == <<disk, writes, job, at, step, staged, part, before, cut>>

Steps == {"begin", "replace", "remove", "create", "copy", "succeeded", "failed", "killed"}
Ended == step \in {"succeeded", "failed", "killed"}

W == job[at]

\* The indices of a set in ascending order, and the values f has there in that order.
Ascending(I) ==
  CHOOSE s \in [1 .. Cardinality(I) -> I] : \A i, j \in 1 .. Cardinality(I) : i < j => s[i] < s[j]
InOrder(f, I) == [i \in 1 .. Cardinality(I) |-> f[Ascending(I)[i]]]

\* The rows of a dataset, part after part.
Content(d) == FlattenSeq(InOrder(d.parts, DOMAIN d.parts))

Absent     == [exists |-> FALSE, parts |-> <<>>]
Fresh(rows) == [exists |-> TRUE, parts |-> [k \in {0} |-> rows]]

IsDisk(dk) ==
  /\ dk = [d \in Datasets |-> [exists |-> dk[d].exists, parts |-> dk[d].parts]]
  /\ \A d \in Datasets : /\ dk[d].exists \in BOOLEAN
                         /\ DOMAIN dk[d].parts \subseteq 0 .. MaxWrites
                         /\ \A k \in DOMAIN dk[d].parts : dk[d].parts[k] \in Seq(Rows)

TypeOK ==
  /\ IsDisk(disk) /\ IsDisk(before)
  /\ \A d \in Datasets : DOMAIN disk[d].parts # {} => disk[d].exists
  /\ writes \in 0 .. MaxWrites
  /\ job \in Jobs \cup {<<>>}
  /\ at \in Nat
  /\ step \in Steps
  /\ staged \in Seq(Rows)
  /\ part \in Nat
  /\ cut \subseteq Datasets

Init ==
  /\ disk \in [Datasets -> {Absent} \cup {Fresh(rows) : rows \in Contents}]
  /\ writes = 0
  /\ job = <<>>
  /\ at = 1
  /\ step = "succeeded"
  /\ staged = <<>>
  /\ part = 0
  /\ before = disk
  /\ cut = {}

-----------------------------------------------------------------------------
(* The relation of a write, computed now.  A dataset without files to read is *)
(* an error.                                                                  *)
Readable(w) == w.source # NoDataset => DOMAIN disk[w.source].parts # {}
Relation(w) == IF w.source = NoDataset THEN w.rows ELSE Content(disk[w.source])

\* GROUP BY puts NULL keys in one group.
HasDuplicates(rows) == \E i, j \in DOMAIN rows : i # j /\ rows[i].key = rows[j].key

\* Plain equality: a NULL key never matches.
Matches(o, n) == o.key = n.key /\ o.key # Null

\* __old LEFT JOIN the input: an old row once for each match, or as it is.
Joined(o, new) ==
  LET matching == InOrder(new, {k \in DOMAIN new : Matches(o, new[k])}) IN
    IF matching = <<>> THEN <<o>>
    ELSE [i \in DOMAIN matching |-> Row(o.key, matching[i].given, o.kept)]

Unmatched(old, new) ==
  InOrder(new, {k \in DOMAIN new : \A i \in DOMAIN old : ~Matches(old[i], new[k])})

MergeKeyed(old, new, mode) ==
  FlattenSeq([i \in DOMAIN old |-> Joined(old[i], new)])
    \o (IF mode = "upsert" THEN Unmatched(old, new) ELSE <<>>)

-----------------------------------------------------------------------------
(* One action per step of a job. *)

Start ==
  /\ Ended
  /\ job' \in Jobs
  /\ writes' = writes + Len(job')
  /\ writes' <= MaxWrites
  /\ at' = 1
  /\ step' = "begin"
  /\ before' = disk
  /\ UNCHANGED <<disk, staged, part, cut>>

\* An exception: the job reports it and ends, with return code 1.
Fail == step' = "failed" /\ UNCHANGED <<disk, writes, job, at, staged, part, before, cut>>

\* A bad binding, a data error in a view a keyed write needs, no file to read.
FailBefore == step = "begin" /\ Fail

\* Duplicate keys in the rows of a keyed write.
RejectDuplicates ==
  /\ step = "begin"
  /\ Keyed(W) /\ Readable(W)
  /\ HasDuplicates(Relation(W))
  /\ Fail

\* The new content of a keyed write, in a table; the write goes on as an overwrite.
Merge ==
  /\ step = "begin"
  /\ Keyed(W) /\ Readable(W)
  /\ ~HasDuplicates(Relation(W))
  /\ staged' = MergeKeyed(Content(disk[W.dataset]), Relation(W), W.mode)
  /\ step' = "replace"
  /\ UNCHANGED <<disk, writes, job, at, part, before, cut>>

SkipMerge ==
  /\ step = "begin"
  /\ ~Keyed(W)
  /\ step' = "replace"
  /\ UNCHANGED <<disk, writes, job, at, staged, part, before, cut>>

RefuseExisting ==
  /\ step = "replace"
  /\ W.mode = "error_if_exists" /\ disk[W.dataset].exists
  /\ Fail

\* Mutant of Replace: a keyed write does not go on as an overwrite.
ReplaceUnkeyed ==
  /\ step = "replace"
  /\ ~(W.mode = "error_if_exists" /\ disk[W.dataset].exists)
  /\ step' = IF disk[W.dataset].exists /\ W.mode = "overwrite" THEN "remove" ELSE "create"
  /\ UNCHANGED <<disk, writes, job, at, staged, part, before, cut>>

\* What becomes of the files there are.
Replace ==
  /\ step = "replace"
  /\ ~(W.mode = "error_if_exists" /\ disk[W.dataset].exists)
  /\ step' = IF disk[W.dataset].exists /\ (Keyed(W) \/ W.mode = "overwrite")
               THEN "remove" ELSE "create"
  /\ UNCHANGED <<disk, writes, job, at, staged, part, before, cut>>

\* rmtree: one file at a time, in the order of the directory, then the directory.
RemovePart ==
  /\ step = "remove"
  /\ \E k \in DOMAIN disk[W.dataset].parts :
       disk' = [disk EXCEPT ![W.dataset].parts =
                  [i \in DOMAIN disk[W.dataset].parts \ {k} |-> disk[W.dataset].parts[i]]]
  /\ UNCHANGED <<writes, job, at, step, staged, part, before, cut>>

RemoveDirectory ==
  /\ step = "remove"
  /\ DOMAIN disk[W.dataset].parts = {}
  /\ disk' = [disk EXCEPT ![W.dataset] = Absent]
  /\ cut' = cut \ {W.dataset}
  /\ step' = "create"
  /\ UNCHANGED <<writes, job, at, staged, part, before>>

\* Mutant of Create: the part is always the first.
CreateFirst ==
  /\ step = "create"
  /\ disk' = [disk EXCEPT ![W.dataset].exists = TRUE]
  /\ part' = 0
  /\ step' = "copy"
  /\ UNCHANGED <<writes, job, at, staged, before, cut>>

\* The next part is numbered by the count of the parts there are.
Create ==
  /\ step = "create"
  /\ disk' = [disk EXCEPT ![W.dataset].exists = TRUE]
  /\ part' = Cardinality(DOMAIN disk[W.dataset].parts)
  /\ step' = "copy"
  /\ UNCHANGED <<writes, job, at, staged, before, cut>>

PutPart(rows) ==
  disk' = [disk EXCEPT ![W.dataset].parts =
             [i \in DOMAIN disk[W.dataset].parts \cup {part} |->
                IF i = part THEN rows ELSE disk[W.dataset].parts[i]]]

Copy ==
  /\ step = "copy"
  /\ Keyed(W) \/ Readable(W)
  /\ PutPart(IF Keyed(W) THEN staged ELSE Relation(W))
  /\ step' = IF at = Len(job) THEN "succeeded" ELSE "begin"
  /\ at' = at + 1
  /\ UNCHANGED <<writes, job, staged, part, before, cut>>

\* Mutant of FailCopy: the new content of a keyed write is a view as well.
FailCopyAny ==
  /\ step = "copy"
  /\ step' = "failed"
  /\ UNCHANGED <<disk, writes, job, at, staged, part, before, cut>>

\* A data error in the view, or no file to read: there is no part, or one that
\* holds the rows written before.
FailCopy ==
  /\ step = "copy"
  /\ ~Keyed(W)
  /\ step' = "failed"
  /\ \/ UNCHANGED disk
     \/ Readable(W) /\ \E n \in 0 .. Len(Relation(W)) - 1 : PutPart(SubSeq(Relation(W), 1, n))
  /\ UNCHANGED <<writes, job, at, staged, part, before, cut>>

\* The process is killed; files are left as they are, the one being written cut.
Kill ==
  /\ ~Ended
  /\ step' = "killed"
  /\ \/ UNCHANGED disk
     \/ /\ step = "copy" /\ (Keyed(W) \/ Readable(W))
        /\ LET rows == IF Keyed(W) THEN staged ELSE Relation(W) IN
             \E n \in 0 .. Len(rows) - 1 : PutPart(SubSeq(rows, 1, n))
  /\ cut' = IF step = "remove" THEN cut \cup {W.dataset} ELSE cut
  /\ UNCHANGED <<writes, job, at, staged, part, before>>

Next ==
  \/ Start
  \/ FailBefore \/ RejectDuplicates \/ Merge \/ SkipMerge
  \/ RefuseExisting \/ Replace \/ RemovePart \/ RemoveDirectory
  \/ Create \/ Copy \/ FailCopy \/ Kill

Spec == Init /\ [][Next]_vars

-----------------------------------------------------------------------------
(* What a job promises about its datasets. *)

SameRows(s, t) ==
  /\ Len(s) = Len(t)
  /\ \A i \in DOMAIN s : Cardinality({j \in DOMAIN s : s[j] = s[i]})
                       = Cardinality({j \in DOMAIN t : t[j] = s[i]})

\* docs/semantics.md, Keyed writes, row by row: a matched row takes the input's values
\* for the columns the input provides and keeps the others; upsert adds the input rows
\* that match nothing.
Updated(o, new) ==
  IF \E i \in DOMAIN new : Matches(o, new[i])
    THEN [o EXCEPT !.given = new[CHOOSE i \in DOMAIN new : Matches(o, new[i])].given]
    ELSE o
Inserted(old, new) ==
  InOrder(new, {k \in DOMAIN new : \/ new[k].key = Null
                                   \/ new[k].key \notin {old[i].key : i \in DOMAIN old}})

Written(mode, old, new) ==
  CASE mode = "append"                      -> old \o new
    [] mode \in {"overwrite", "error_if_exists"} -> new
    [] mode = "update"                      -> [i \in DOMAIN old |-> Updated(old[i], new)]
    [] mode = "upsert" -> [i \in DOMAIN old |-> Updated(old[i], new)] \o Inserted(old, new)

\* A job that writes each dataset once, and reads none after having written it.
WritesOnce(j) ==
  /\ \A i, k \in DOMAIN j : j[i].dataset = j[k].dataset => i = k
  /\ \A i, k \in DOMAIN j : i < k => j[k].source # j[i].dataset

\* The rows a write writes, of what the datasets held when the job started.
Given(w) == IF w.source = NoDataset THEN w.rows ELSE Content(before[w.source])

\* An append puts its rows in the part numbered by the count of the parts: a new one, unless
\* parts before it are missing.
Appended(d, rows) ==
  LET n == Cardinality(DOMAIN d.parts) IN
    [k \in DOMAIN d.parts \cup {n} |-> IF k = n THEN rows ELSE d.parts[k]]

\* What a write that was carried out leaves.  An append to a dataset that a kill left partly
\* removed replaces the part of that number, if it is one of those left, and keeps the others.
CarriedOut(w) ==
  IF w.mode = "append" /\ w.dataset \in cut
    THEN disk[w.dataset].parts = Appended(before[w.dataset], Given(w))
    ELSE SameRows(Content(disk[w.dataset]),
                  Written(w.mode, Content(before[w.dataset]), Given(w)))

\* When such a job succeeds, every dataset it wrote holds what the mode of its write says, of
\* what the datasets held when the job started: whatever earlier jobs left after a failure or
\* a kill, and although relations are computed late and old files removed first.  The one
\* exception is an append to a dataset that a kill left partly removed: it may lose the one
\* part that its own takes the number of.
SuccessIsExact ==
  step = "succeeded" /\ WritesOnce(job) => \A i \in DOMAIN job : CarriedOut(job[i])

\* No keyed write is half done when its job fails (duplicate keys, a data error, a bad
\* binding) without being killed: the dataset of one the job had come past holds what the
\* write says, also where a later write failed, and that of any other is as it was.
KeyedWritesAreWhole ==
  step = "failed" /\ WritesOnce(job) =>
    \A i \in DOMAIN job : Keyed(job[i]) =>
      \/ i < at /\ SameRows(Content(disk[job[i].dataset]),
                            Written(job[i].mode, Content(before[job[i].dataset]), Given(job[i])))
      \/ i >= at /\ disk[job[i].dataset] = before[job[i].dataset]

\* Append never removes a part, and never changes one, but for the part numbered by the
\* count of the parts in a dataset that a kill left partly removed; error_if_exists writes
\* nothing where there is something.
Kept ==
  ~Ended /\ W.mode \in {"append", "error_if_exists"} =>
    LET old == disk[W.dataset]
        new == disk'[W.dataset] IN
      /\ \A k \in DOMAIN old.parts :
           /\ k \in DOMAIN new.parts
           /\ \/ new.parts[k] = old.parts[k]
              \/ W.mode = "append" /\ W.dataset \in cut /\ k = Cardinality(DOMAIN old.parts)
      /\ W.mode = "error_if_exists" /\ before[W.dataset].exists /\ WritesOnce(job) => new = old
ExistingPartsAreKept == [][Kept]_vars
=============================================================================

---------------------------- MODULE MCRunRecords ----------------------------
(***************************************************************************)
(* Instance of RunRecords.  Packages with every dependency graph over one  *)
(* pipeline of three tasks, and with plans of two small pipelines, are run *)
(* once; packages of two or three jobs, on either engine and with tasks of *)
(* the same name or of the same file, are run twice in one directory.      *)
(***************************************************************************)
EXTENDS RunRecords

\* Names "a/b", "a_b" and "b".
MCNames == {<<"a", "/", "b">>, <<"a", "_", "b">>, <<"b">>}

Dependency(u, c) == {[on |-> u, condition |-> c]}

\* No dependency of task t, or one: on itself, on an id no task has (0), or on
\* another task under any condition the targets support.
OneDependency(t) ==
  {{}, Dependency(t, "success"), Dependency(0, "completion")}
    \cup {Dependency(u, c) : u \in Positions \ {t}, c \in {"success", "failure", "completion"}}

\* Up to two dependencies of task 3, on different tasks.
TwoDependencies ==
  OneDependency(3) \cup
    {Dependency(1, c) \cup Dependency(2, d) :
       c \in {"success", "failure"}, d \in {"failure", "completion"}}

NoTasks == [ size    |-> 0,
           blocked |-> {},
           command |-> [t \in Positions |-> "none"],
           deps    |-> [t \in Positions |-> {}] ]

\* One pipeline of three tasks with every graph of these dependencies, cycles and
\* forward references included, and a pipeline without tasks.
Graphs ==
  { << [ size    |-> 3,
         blocked |-> blocked,
         command |-> [t \in Positions |-> IF t = 2 THEN command ELSE "job"],
         deps    |-> <<first, second, third>> ], NoTasks >> :
    first \in OneDependency(1),
    second \in OneDependency(2) \ {Dependency(0, "completion")},
    third \in TwoDependencies,
    blocked \in {{}, {1}},
    command \in {"job", "none", "notify"} }

\* Pipelines of at most two tasks: the second may depend on the first, or on itself.
SmallPipelines ==
  { [ size    |-> size,
      blocked |-> blocked,
      command |-> [t \in Positions |-> IF t = 1 THEN command ELSE "job"],
      deps    |-> [t \in Positions |-> IF t = 2 THEN deps ELSE {}] ] :
    size \in 1 .. 2,
    blocked \in {{}, {1}},
    command \in {"job", "notify"},
    deps \in {{}, Dependency(1, "success"), Dependency(1, "failure"), Dependency(2, "completion")} }

\* One or two jobs; the second on success or on failure of the first, or on none.
JobPipelines ==
  { [ size    |-> size,
      blocked |-> {},
      command |-> [t \in Positions |-> "job"],
      deps    |-> [t \in Positions |-> IF t = 2 THEN deps ELSE {}] ] :
    size \in {1, 2},
    deps \in {{}, Dependency(1, "success"), Dependency(1, "failure")} }

JobPlans == { jobs \in [Pipelines -> JobPipelines] :
                \A p \in Pipelines \ {1} : jobs[p].size = 1 /\ jobs[p].deps[2] = {} }

OncePlans == Graphs \cup (SmallPipelines \X SmallPipelines)
MCPlans   == OncePlans \cup JobPlans

\* Two tasks of a pipeline share a file, and both pipelines have the same names.
FewNames == [p \in Pipelines |-> [t \in Positions |->
               IF t = 1 THEN <<"a", "/", "b">> ELSE IF t = 2 THEN <<"b">> ELSE <<"a", "_", "b">>]]

\* Any names, at the positions the plan has tasks at.
MCReruns ==
  { pk \in [plan : JobPlans, engine : Engines, name : [Pipelines -> [Positions -> MCNames]]] :
      \A p \in Pipelines : \A t \in Positions \ TasksOf(pk.plan[p]) : pk.name[p][t] = <<"b">> }

MCPackages ==
  {[plan |-> once, engine |-> "duckdb", name |-> FewNames] : once \in OncePlans} \cup MCReruns
=============================================================================

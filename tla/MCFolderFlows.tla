---------------------------- MODULE MCFolderFlows ----------------------------
(***************************************************************************)
(* Instance of FolderFlows: a folder whose definitions come in any order   *)
(* from three files, one of which may be unreadable, with every workflow   *)
(* of a list of shapes.                                                    *)
(***************************************************************************)
EXTENDS FolderFlows

MCFolders == {"f"}
MCNames   == {"m", "n", "s", "t", "w", "mapping"}

Mapping(text)    == [text |-> text]
SessionOf(name)  == [mapping |-> name]

Instance(name, type, task, enabled, joinsOr) ==
  [name |-> name, type |-> type, task |-> task, enabled |-> enabled, joinsOr |-> joinsOr]
Begin == Instance("Start", "Start", "Start", TRUE, FALSE)
Link(from, to, cond, of) == [from |-> from, to |-> to, cond |-> cond, of |-> of]

Workflow(sessions, others, instances, links) ==
  [sessions |-> sessions, others |-> others, instances |-> <<Begin>> \o instances, links |-> links]

Two(enabled, joinsOr, links) ==
  Workflow(<<>>, {}, <<Instance("a", "Session", "s", TRUE, FALSE),
                       Instance("b", "Session", "t", enabled, joinsOr)>>, links)

Shapes ==
  { Two(TRUE, FALSE, {Link("Start", "a", "", ""), Link("a", "b", "SUCCEEDED", "a")}),
    Two(FALSE, TRUE, {Link("Start", "a", "", ""), Link("a", "b", "FAILED", "b"),
                      Link("Start", "b", "", "")}),
    Two(TRUE, FALSE, {Link("a", "b", "", ""), Link("c", "b", "SUCCEEDED", "c"),
                      Link("b", "a", "OTHER", "b")}),
    \* Sessions of its own, one with the name of a session of the folder, one of a task.
    Workflow([s |-> "n", t |-> "m"], {"t"},
             <<Instance("a", "Session", "s", TRUE, FALSE), Instance("b", "Session", "t", TRUE, FALSE),
               Instance("c", "Command", "t", TRUE, FALSE), Instance("d", "Worklet", "x", TRUE, FALSE)>>,
             {Link("Start", "a", "", ""), Link("a", "c", "FAILED", "a"), Link("b", "d", "", "")}) }

\* The workflow is called "mapping" and has a session with the name of a mapping.
Shadowed == Workflow([m |-> "n"], {}, <<Instance("a", "Session", "m", TRUE, FALSE)>>,
                     {Link("Start", "a", "", "")})

Def(kind, name, body) == [slot |-> <<"f", kind, name>>, body |-> body, reusable |-> kind # "TRANSFORMATION"]

Parts ==
  { Def("MAPPING", "m", Mapping("one")), Def("MAPPING", "m", Mapping("two")),
    Def("MAPPING", "n", Mapping("one")),
    Def("SESSION", "s", SessionOf("m")), Def("SESSION", "s", SessionOf("n")),
    Def("SESSION", "t", SessionOf("n")),
    Def("TRANSFORMATION", "m", Mapping("one")) }

MCSlots  == {<<"f", kind, name>> : kind \in {"MAPPING", "SESSION", "WORKFLOW", "TRANSFORMATION"},
                                   name \in MCNames}
MCBodies == {p.body : p \in Parts} \cup Shapes \cup {Shadowed}

ReadFile(definitions, readable) == [readable |-> readable, definitions |-> definitions]

UpTo(n) == UNION {[1..k -> Parts] : k \in 0..n}

MCExports ==
  {<<ReadFile(a, TRUE), ReadFile(b, readable), ReadFile(<<w>>, TRUE)>> :
     a \in UpTo(2), b \in UpTo(2), readable \in BOOLEAN,
     w \in {Def("WORKFLOW", "w", x) : x \in Shapes} \cup {Def("WORKFLOW", "mapping", Shadowed)}}
=============================================================================

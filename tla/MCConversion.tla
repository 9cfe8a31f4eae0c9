---------------------------- MODULE MCConversion ----------------------------
(***************************************************************************)
(* Instance of Conversion: environments with duplicate and broken          *)
(* plug-ins, and conversions of two documents to one, two and repeated     *)
(* targets.                                                                *)
(***************************************************************************)
EXTENDS Conversion

Class(kind, id, sound, by) == [kind |-> kind, id |-> id, sound |-> sound, by |-> by]
Entry(name, cls) == [name |-> name, cls |-> cls]

PowerCenter == Class("sources", "powercenter", TRUE, "etlir")
DuckDB      == Class("targets", "duckdb", TRUE, "etlir")
Spark       == Class("targets", "spark", TRUE, "etlir")
OtherDuckDB == Class("targets", "duckdb", TRUE, "other")
FutureDuckDB == Class("targets", "duckdb", FALSE, "other")
Broken      == Class("none", "", FALSE, "other")

Sources == <<Entry("powercenter", PowerCenter)>>

MCInstalled ==
  { [sources |-> Sources, targets |-> targets] : targets \in
      { <<Entry("duckdb", DuckDB), Entry("spark", Spark)>>,
        <<Entry("a-duckdb", OtherDuckDB), Entry("duckdb", DuckDB), Entry("duckdb2", OtherDuckDB)>>,
        <<Entry("a-duckdb", FutureDuckDB), Entry("duckdb", DuckDB), Entry("z", Broken)>>,
        <<Entry("duckdb", DuckDB), Entry("duckdb-alias", DuckDB)>> } }
  \cup { [sources |-> <<Entry("bad", DuckDB)>>, targets |-> <<Entry("duckdb", DuckDB)>>] }

MCByHand == { [group |-> "targets", cls |-> Spark], [group |-> "targets", cls |-> OtherDuckDB],
              [group |-> "sources", cls |-> PowerCenter] }

MCTargetIds == {"duckdb", "spark"}
MCSortedLists == { <<>>, <<"duckdb">>, <<"spark">>, <<"duckdb", "spark">> }

\* A target may block a dataflow.
Document(duckdb, spark, acceptedBy) ==
  [acceptedBy |-> acceptedBy,
   emitted |-> [t \in MCTargetIds |-> IF t = "duckdb" THEN duckdb ELSE spark]]

Both   == Document(<<"fact", "load">>, <<"fact">>, {"powercenter"})
Single == Document(<<"fact">>, <<"fact", "load">>, {"powercenter"})
Alien  == Document(<<>>, <<>>, {})

Request(input, path, source, targets) ==
  [input |-> input, path |-> path, source |-> source, targets |-> targets]

MCRequests ==
  { Request(d, "file", "", targets) : d \in {Both, Single}, targets \in {<<"all">>, <<"duckdb">>} }
  \cup { Request(Single, "directory", "powercenter", <<"spark", "duckdb">>),
         Request(Alien, "directory", "powercenter", <<"all">>),
         Request(Both, "file", "", <<"duckdb", "duckdb">>),
         Request(Both, "missing", "powercenter", <<"all">>),
         Request(Both, "file", "other", <<"all">>),
         Request(Both, "file", "", <<"oracle">>) }
=============================================================================

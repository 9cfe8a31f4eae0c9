--------------------------- MODULE MCDatasetWrites ---------------------------
(***************************************************************************)
(* Instance of DatasetWrites: jobs of one write and of two, run one after  *)
(* the other over two datasets that may read each other.                   *)
(***************************************************************************)
EXTENDS DatasetWrites

Old(key)   == Row(key, "old", "kept")
Input(key) == Row(key, "new", Null)

\* Rows with keys that are there twice, or NULL, and rows with keys of their own.
MCContents == { <<Old("k1"), Old("k2")>>, <<Old("k1"), Old(Null), Old("k1")>> }

\* No row, a known and an unknown key, duplicate keys, a NULL key.
Inputs == { <<>>, <<Input("k1"), Input("k3")>>, <<Input("k1"), Input("k1")>>,
            <<Input(Null), Input("k2")>> }

Write(d, mode, source, rows) == [dataset |-> d, mode |-> mode, source |-> source, rows |-> rows]

OneWrite == {<<Write("t1", mode, NoDataset, rows)>> : mode \in Modes, rows \in Inputs}
      \cup {<<Write("t1", mode, "t1", <<>>)>> : mode \in Modes}

\* A write of either dataset, of rows of the input or of either dataset.
FewWrites ==
  { Write(d, mode, NoDataset, <<Input("k1"), Input("k3")>>) : d \in Datasets, mode \in Modes }
    \cup { Write(d, mode, e, <<>>) : d \in Datasets, e \in Datasets,
                                     mode \in {"append", "overwrite", "upsert"} }
TwoWrites == {Write("t1", mode, e, <<>>) : mode \in {"append", "overwrite"}, e \in Datasets}
               \X FewWrites

MCJobs == OneWrite \cup TwoWrites
=============================================================================

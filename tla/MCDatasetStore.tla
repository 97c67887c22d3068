--------------------------- MODULE MCDatasetStore ---------------------------
(* Small instances of DatasetStore for TLC.                                 *)
EXTENDS DatasetStore, TLC

(* Nothing orders or compares jobs, requests or datasets.                   *)
Symmetry == Permutations(Workers) \cup Permutations(Requests)
                \cup Permutations(Datasets)
=============================================================================

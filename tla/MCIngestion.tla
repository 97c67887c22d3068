---------------------------- MODULE MCIngestion ----------------------------
(* Small instances of Ingestion for TLC.                                    *)
EXTENDS Ingestion, TLC

(* Jobs and clean requests are interchangeable: nothing orders or           *)
(* compares them.  Used in the safety runs only.                            *)
Symmetry == Permutations(Jobs) \cup Permutations(Cleaners)
=============================================================================

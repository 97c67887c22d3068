--------------------------- MODULE ReadersWriters ---------------------------
(***************************************************************************)
(* What data/warehouse.py promises of a workspace's DuckDB file: any       *)
(* number of readers or one writer has it open, never both.                *)
(***************************************************************************)
CONSTANTS Accesses

VARIABLE inside  \* what each access does with the open file: "reads", "writes" or "no"

RWInit == inside = [a \in Accesses |-> "no"]

Free(a, use) ==
    \A b \in Accesses \ {a} : inside[b] = "no" \/ (inside[b] = "reads" /\ use = "reads")

Enter(a, use) ==
    /\ inside[a] = "no"
    /\ Free(a, use)
    /\ inside' = [inside EXCEPT ![a] = use]

(* One access is done, or a process dies with all of its own.               *)
Leave(S) == inside' = [a \in Accesses |-> IF a \in S THEN "no" ELSE inside[a]]

RWNext ==
    \/ \E a \in Accesses, use \in {"reads", "writes"} : Enter(a, use)
    \/ \E S \in SUBSET Accesses : Leave(S)

RWSpec == RWInit /\ [][RWNext]_inside
=============================================================================

-------------------------- MODULE DatasetLifecycle --------------------------
(***************************************************************************)
(* What the ingestion pipeline promises about a dataset, without jobs,     *)
(* sessions, timeouts or recovery passes: the status a user is shown and   *)
(* the ledger of ingestion runs behind it.                                 *)
(*                                                                         *)
(*   - a run is opened once, closed once, and never reopened;              *)
(*   - success shows READY and failure shows FAILED in the step that       *)
(*     closes the run;                                                     *)
(*   - runs nobody will close are swept as FAILED, and a sweep leaves no    *)
(*     dataset ANALYZING without an open run;                              *)
(*   - nothing but an ingestion that succeeded makes a dataset READY;      *)
(*   - a removed dataset takes its ledger with it and never comes back.    *)
(***************************************************************************)
CONSTANTS Datasets, Runs, NoDataset

VARIABLES
    shown,      \* the status a user sees
    ledger,     \* the state of each run
    owner       \* the dataset each opened run belongs to

ledgerVars == <<shown, ledger, owner>>

Present(d)  == shown[d] \notin {"none", "deleted"}
OpenRuns(d) == {r \in Runs : owner[r] = d /\ ledger[r] = "running"}
Succeeded(d) == \E r \in Runs : owner[r] = d /\ ledger[r] = "succeeded"

Init ==
    /\ shown  = [d \in Datasets |-> "none"]
    /\ ledger = [r \in Runs |-> "none"]
    /\ owner  = [r \in Runs |-> NoDataset]

Create(d) ==
    /\ shown[d] = "none"
    /\ shown' = [shown EXCEPT ![d] = "uploaded"]
    /\ UNCHANGED <<ledger, owner>>

(* A second run may open without being seen: it read ANALYZING before the    *)
(* first one closed.                                                        *)
Open(d, r) ==
    /\ Present(d)
    /\ ledger[r] = "none"
    /\ ledger' = [ledger EXCEPT ![r] = "running"]
    /\ owner'  = [owner EXCEPT ![r] = d]
    /\ shown' = [shown EXCEPT ![d] = "analyzing"] \/ UNCHANGED shown

Close(d, r) ==
    /\ r \in OpenRuns(d)
    /\ \/ /\ ledger' = [ledger EXCEPT ![r] = "succeeded"]
          /\ shown'  = [shown EXCEPT ![d] = "ready"]
       \/ /\ ledger' = [ledger EXCEPT ![r] = "failed"]
          /\ shown'  = [shown EXCEPT ![d] = "failed"]
    /\ UNCHANGED owner

(* Cleaning publishes the data of an earlier success.                       *)
Publish(d) ==
    /\ Present(d)
    /\ Succeeded(d)
    /\ shown' = [shown EXCEPT ![d] = "ready"]
    /\ UNCHANGED <<ledger, owner>>

Sweep(R, D) ==
    /\ \A r \in R : ledger[r] = "running"
    /\ \A d \in D : Present(d) /\ \E r \in R : owner[r] = d
    /\ \A d \in Datasets :
          shown[d] = "analyzing" /\ OpenRuns(d) \subseteq R => d \in D
    /\ ledger' = [r \in Runs |-> IF r \in R THEN "failed" ELSE ledger[r]]
    /\ shown'  = [d \in Datasets |-> IF d \in D THEN "failed" ELSE shown[d]]
    /\ UNCHANGED owner

Remove(d) ==
    /\ Present(d)
    /\ shown'  = [shown EXCEPT ![d] = "deleted"]
    /\ ledger' = [r \in Runs |-> IF owner[r] = d THEN "none" ELSE ledger[r]]
    /\ owner'  = [r \in Runs |-> IF owner[r] = d THEN NoDataset ELSE owner[r]]

Next ==
    \/ \E d \in Datasets : Create(d) \/ Publish(d) \/ Remove(d)
    \/ \E d \in Datasets, r \in Runs : Open(d, r) \/ Close(d, r)
    \/ \E R \in SUBSET Runs, D \in SUBSET Datasets : Sweep(R, D)

Spec == Init /\ [][Next]_ledgerVars
=============================================================================

------------------------------ MODULE Ingestion ------------------------------
(***************************************************************************)
(* The ingestion lifecycle of a dataset: the API's upload, re-ingest,      *)
(* clean and delete handlers, the ARQ worker's ingest job, and the cron    *)
(* job that recovers stalled runs.  All of them meet in three Postgres     *)
(* tables: `datasets` (status, status_message), `dataset_columns` and      *)
(* `ingestion_runs`.                                                       *)
(*                                                                         *)
(* One action per database transaction or per wait: whatever the code does *)
(* between two awaits on Postgres is one step, and any other handler may   *)
(* run in between.  Postgres is READ COMMITTED, so a read sees what was    *)
(* committed and nothing protects it afterwards.                           *)
(*                                                                         *)
(* Two habits of SQLAlchemy matter and are modelled where they bite:       *)
(*   - a flush writes only the attributes whose value differs from the one *)
(*     LOADED, so `dataset.status = ANALYZING` on a row read as ANALYZING  *)
(*     writes nothing (see seen);                                          *)
(*   - rolling back a transaction expires every loaded object, so the      *)
(*     error handler's `run.id` then needs a query it cannot make and      *)
(*     raises: a failure inside the final transaction is recorded nowhere  *)
(*     (see JobFailsLate).                                                 *)
(*                                                                         *)
(* What the files, tables and columns contain is left out; the lineage of  *)
(* the data is another component.                                          *)
(***************************************************************************)
EXTENDS Naturals, FiniteSets

CONSTANTS
    Datasets,     \* dataset ids (UUIDs, never reused)
    Jobs,         \* ARQ job ids: one per successful enqueue
    Cleaners,     \* POST /datasets/{id}/clean requests
    NoDataset,    \* the target of an actor that has not been given one
    MaxJobs,      \* WorkerSettings.max_jobs (4)
    MaxTries,     \* ARQ's max_tries: how often a killed job is handed out
    JobTimeout,   \* WorkerSettings.job_timeout (900 s), in ticks
    StaleAfter    \* recover_stalled_runs' stale_after_seconds (1800 s), in ticks

Actors == Jobs \cup Cleaners

(* job_timeout = 900 and stale_after_seconds = 1800: "anything older than  *)
(* the job timeout is dead by definition".                                 *)
ASSUME TimingAssumption ==
    /\ JobTimeout \in Nat
    /\ StaleAfter \in Nat
    /\ JobTimeout <= StaleAfter

ASSUME IdAssumption ==
    /\ NoDataset \notin Datasets
    /\ Jobs \cap Cleaners = {}
    /\ MaxTries \in Nat \ {0}
    /\ MaxJobs \in Nat \ {0}

(* One row of ingestion_runs per attempt of a job.                         *)
RunIds == Jobs \X (1..MaxTries)

VARIABLES
    status,       \* datasets.status; "none" before and "deleted" after the row exists
    message,      \* datasets.status_message
    columns,      \* has the dataset any dataset_columns rows?
    run,          \* ingestion_runs.status; "none" when there is no such row
    runAge,       \* now() - ingestion_runs.started_at, while running
    pc,           \* where each job or clean request stands
    target,       \* the dataset it works on
    try,          \* ARQ's job_try
    age,          \* time since the attempt was picked up
    seen,         \* what the actor's ORM object was loaded with
    behind,       \* has another job replaced the columns since this one's DELETE of them?
    scanned,      \* recovery pass: the RUNNING, stale runs it selected
    todo,         \* recovery pass: their datasets, not yet read
    hits          \* recovery pass: datasets it found ANALYZING and staged as FAILED

datasetVars  == <<status, message, columns>>
runVars      == <<run, runAge>>
actorVars    == <<pc, target, try, age, seen, behind>>
recoveryVars == <<scanned, todo, hits>>
vars == <<status, message, columns, run, runAge,
          pc, target, try, age, seen, behind, scanned, todo, hits>>

-----------------------------------------------------------------------------
DatasetStatus == {"uploaded", "analyzing", "ready", "failed"}
RunStatus     == {"running", "succeeded", "failed"}

(* Between the first read of an attempt and its last commit.               *)
IngestPhases == {"begin", "loading", "finalising"}
CleanPhases  == {"clean", "cleaning", "analysing"}
LivePhases   == IngestPhases \cup CleanPhases

(* How an actor ends: it returned, an exception escaped it, or it was cut   *)
(* short by a kill or by ARQ's timeout.                                     *)
Ended == {"done", "raised", "cut"}

NothingSeen == [analysing |-> FALSE, message |-> FALSE]

TypeOK ==
    /\ status  \in [Datasets -> DatasetStatus \cup {"none", "deleted"}]
    /\ message \in [Datasets -> {"none", "error", "interrupted"}]
    /\ columns \in [Datasets -> BOOLEAN]
    /\ run     \in [RunIds -> RunStatus \cup {"none"}]
    /\ runAge  \in [RunIds -> 0..(StaleAfter + 1)]
    /\ pc      \in [Actors -> {"idle", "queued"} \cup LivePhases \cup Ended]
    /\ target  \in [Actors -> Datasets \cup {NoDataset}]
    /\ try     \in [Actors -> 0..MaxTries]
    /\ age     \in [Actors -> 0..JobTimeout]
    /\ seen    \in [Actors -> [analysing : BOOLEAN, message : BOOLEAN]]
    /\ behind  \in [Actors -> BOOLEAN]
    /\ scanned \in SUBSET RunIds
    /\ todo    \in SUBSET Datasets
    /\ hits    \in SUBSET Datasets

Exists(d) == status[d] \in DatasetStatus
Live(a)   == pc[a] \in LivePhases
RunOf(j)  == <<j, try[j]>>
RunDataset(r) == target[r[1]]
RunsOf(d) == {r \in RunIds : RunDataset(r) = d}
Running   == {r \in RunIds : run[r] = "running"}

Init ==
    /\ status  = [d \in Datasets |-> "none"]
    /\ message = [d \in Datasets |-> "none"]
    /\ columns = [d \in Datasets |-> FALSE]
    /\ run     = [r \in RunIds |-> "none"]
    /\ runAge  = [r \in RunIds |-> 0]
    /\ pc      = [a \in Actors |-> "idle"]
    /\ target  = [a \in Actors |-> NoDataset]
    /\ try     = [a \in Actors |-> 0]
    /\ age     = [a \in Actors |-> 0]
    /\ seen    = [a \in Actors |-> NothingSeen]
    /\ behind  = [a \in Actors |-> FALSE]
    /\ scanned = {}
    /\ todo    = {}
    /\ hits    = {}

-----------------------------------------------------------------------------
(* Requests.  An enqueue that fails is logged and swallowed, so each of    *)
(* them may leave no job behind.                                           *)

(* queue.enqueue_ingestion: a new ARQ job, or nothing.                     *)
Enqueued(j, d) ==
    /\ pc[j] = "idle"
    /\ pc' = [pc EXCEPT ![j] = "queued"]
    /\ target' = [target EXCEPT ![j] = d]

EnqueueIngestion(d) ==
    \/ \E j \in Jobs : Enqueued(j, d)
    \/ UNCHANGED <<pc, target>>

(* POST /datasets/upload: register_upload commits the row as UPLOADED, and  *)
(* the endpoint then queues it.                                            *)
Upload(d) ==
    /\ status[d] = "none"
    /\ status' = [status EXCEPT ![d] = "uploaded"]
    /\ EnqueueIngestion(d)
    /\ UNCHANGED <<message, columns, run, runAge, try, age, seen, behind,
                   scanned, todo, hits>>

(* POST /datasets/{id}/reingest: whatever the status, even while another   *)
(* job is ingesting the same dataset.                                      *)
Reingest(d) ==
    /\ Exists(d)
    /\ EnqueueIngestion(d)
    /\ UNCHANGED <<status, message, columns, run, runAge, try, age, seen,
                   behind, scanned, todo, hits>>

(* POST /datasets/{id}/clean: cleaning inside the API process, with no job  *)
(* and no run.                                                             *)
RequestClean(c, d) ==
    /\ pc[c] = "idle"
    /\ Exists(d)
    /\ pc' = [pc EXCEPT ![c] = "clean"]
    /\ target' = [target EXCEPT ![c] = d]
    /\ UNCHANGED <<status, message, columns, run, runAge, try, age, seen,
                   behind, scanned, todo, hits>>

(* DELETE /datasets/{id}: the row, its columns and its runs go in one       *)
(* commit, whoever is still working on them.                               *)
Delete(d) ==
    /\ Exists(d)
    /\ status'  = [status EXCEPT ![d] = "deleted"]
    /\ message' = [message EXCEPT ![d] = "none"]
    /\ columns' = [columns EXCEPT ![d] = FALSE]
    /\ run'     = [r \in RunIds |-> IF r \in RunsOf(d) THEN "none" ELSE run[r]]
    /\ runAge'  = [r \in RunIds |-> IF r \in RunsOf(d) THEN 0 ELSE runAge[r]]
    /\ UNCHANGED <<pc, target, try, age, seen, behind, scanned, todo, hits>>

-----------------------------------------------------------------------------
(* The worker's job.                                                       *)

(* Actor a leaves the stage, or ends; what it had loaded is forgotten.      *)
Goto(a, phase) ==
    /\ pc'     = [pc EXCEPT ![a] = phase]
    /\ seen'   = [seen EXCEPT ![a] = NothingSeen]
    /\ behind' = [behind EXCEPT ![a] = FALSE]
    /\ age'    = IF phase \in LivePhases THEN age ELSE [age EXCEPT ![a] = 0]
    /\ UNCHANGED <<target, try>>

(* Loading the row into the actor's session.                               *)
Load(a) == [seen EXCEPT ![a] = [analysing |-> status[target[a]] = "analyzing",
                                message   |-> message[target[a]] # "none"]]

(* Mutant: a slot is not released when its job ends.                        *)
JobStartsInFreshSlot(j) ==
    /\ pc[j] = "queued"
    /\ Cardinality({k \in Jobs : pc[k] \notin {"idle", "queued"}}) < MaxJobs
    /\ Exists(target[j])
    /\ pc'   = [pc EXCEPT ![j] = "begin"]
    /\ try'  = [try EXCEPT ![j] = @ + 1]
    /\ seen' = Load(j)
    /\ UNCHANGED <<status, message, columns, run, runAge, target, age, behind,
                   scanned, todo, hits>>

(* The worker takes the job when it has a free slot and reads the dataset.  *)
JobStarts(j) ==
    /\ pc[j] = "queued"
    /\ Cardinality({k \in Jobs : Live(k)}) < MaxJobs
    /\ Exists(target[j])
    /\ pc'   = [pc EXCEPT ![j] = "begin"]
    /\ try'  = [try EXCEPT ![j] = @ + 1]
    /\ seen' = Load(j)
    /\ UNCHANGED <<status, message, columns, run, runAge, target, age, behind,
                   scanned, todo, hits>>

(* "Dataset not found." escapes before there is any run to record it on.    *)
JobFindsNoDataset(j) ==
    /\ \/ pc[j] = "queued"
       \/ pc[j] = "begin"   \* deleted after the read: the commit matches no row
    /\ ~Exists(target[j])
    /\ Goto(j, "raised")
    /\ UNCHANGED <<datasetVars, runVars, recoveryVars>>

(* The first commit: a RUNNING run, the dataset ANALYZING and its message   *)
(* cleared -- the last two only as far as they differ from what was read.   *)
(* started_at is the start of that transaction, so the run is exactly as    *)
(* old as the attempt.                                                     *)
JobBegins(j) ==
    LET d == target[j] IN
    /\ pc[j] = "begin"
    /\ Exists(d)
    /\ run'     = [run EXCEPT ![RunOf(j)] = "running"]
    /\ runAge'  = [runAge EXCEPT ![RunOf(j)] = age[j]]
    /\ status'  = IF seen[j].analysing THEN status
                  ELSE [status EXCEPT ![d] = "analyzing"]
    /\ message' = IF seen[j].message THEN [message EXCEPT ![d] = "none"]
                  ELSE message
    /\ Goto(j, "loading")
    /\ UNCHANGED <<columns, recoveryVars>>

(* Download, parse, detect, load the raw table, and start replacing the     *)
(* columns: the DELETE is the first statement of the final transaction.     *)
JobLoads(j) ==
    /\ pc[j] = "loading"
    /\ Goto(j, "finalising")
    /\ UNCHANGED <<datasetVars, runVars, recoveryVars>>

(* Mutant: the failure is recorded on the run only.                         *)
JobFailsOnRunOnly(j) ==
    /\ pc[j] = "loading"
    /\ run' = IF Exists(target[j]) THEN [run EXCEPT ![RunOf(j)] = "failed"] ELSE run
    /\ Goto(j, "raised")
    /\ UNCHANGED <<datasetVars, runAge, recoveryVars>>

(* An exception before that DELETE: there is no transaction to roll back,   *)
(* the objects are intact, and one commit marks both rows FAILED.           *)
JobFailsEarly(j) ==
    LET d == target[j] IN
    /\ pc[j] = "loading"
    /\ IF Exists(d)
       THEN /\ status'  = [status EXCEPT ![d] = "failed"]
            /\ message' = [message EXCEPT ![d] = "error"]
            /\ run'     = [run EXCEPT ![RunOf(j)] = "failed"]
       ELSE UNCHANGED <<status, message, run>>
    /\ Goto(j, "raised")
    /\ UNCHANGED <<columns, runAge, recoveryVars>>

(* The final commit.  The new columns collide on (dataset_id, position)     *)
(* with those of another job that committed after this one's DELETE.        *)
JobCommits(j) ==
    LET d == target[j] IN
    /\ pc[j] = "finalising"
    /\ Exists(d)
    /\ ~behind[j]
    /\ status'  = [status EXCEPT ![d] = "ready"]
    /\ columns' = [columns EXCEPT ![d] = TRUE]
    /\ run'     = [run EXCEPT ![RunOf(j)] = "succeeded"]
    /\ pc'      = [pc EXCEPT ![j] = "clean"]
    /\ behind'  = [a \in Actors |->
                      \/ behind[a]
                      \/ a # j /\ target[a] = d /\ pc[a] = "finalising"]
    /\ UNCHANGED <<message, runAge, target, try, age, seen, recoveryVars>>

(* An exception in the final transaction (a collision, a row deleted under  *)
(* it, a value Postgres refuses, a lost connection).  The rollback expires  *)
(* `run`, reading `run.id` raises in the handler itself, and neither row is *)
(* touched.                                                                *)
JobFailsLate(j) ==
    /\ pc[j] = "finalising"
    /\ Goto(j, "raised")
    /\ UNCHANGED <<datasetVars, runVars, recoveryVars>>

-----------------------------------------------------------------------------
(* Cleaning and analysis: the tail of the job, and the clean endpoint.      *)

(* Mutant: the check for columns is forgotten.                              *)
CleanableByStatus(d) == status[d] \in {"ready", "analyzing"}

Cleanable(d) == status[d] \in {"ready", "analyzing"} /\ columns[d]

CleanReads(a) ==
    /\ pc[a] = "clean"
    /\ Cleanable(target[a])
    /\ pc'   = [pc EXCEPT ![a] = "cleaning"]
    /\ seen' = Load(a)
    /\ UNCHANGED <<status, message, columns, run, runAge, target, try, age,
                   behind, scanned, todo, hits>>

(* Not found, not ingested yet, or no columns.                             *)
CleanRefuses(a) ==
    /\ pc[a] = "clean"
    /\ ~Cleanable(target[a])
    /\ Goto(a, "raised")
    /\ UNCHANGED <<datasetVars, runVars, recoveryVars>>

(* status = READY is written only if the row was read as ANALYZING.  That    *)
(* columns read earlier have been replaced stops the step only if SQLAlchemy *)
(* can count the rows its UPDATE matched (CleanFails).                       *)
CleanCommits(a) ==
    LET d == target[a] IN
    /\ pc[a] = "cleaning"
    /\ Exists(d)
    /\ status' = IF seen[a].analysing THEN [status EXCEPT ![d] = "ready"]
                 ELSE status
    /\ pc'     = [pc EXCEPT ![a] = "analysing"]
    /\ UNCHANGED <<message, columns, run, runAge, target, try, age, seen, behind,
                   scanned, todo, hits>>

(* analyse_dataset replaces the KPIs; it touches no status.                 *)
Analyses(a) ==
    /\ pc[a] = "analysing"
    /\ Exists(target[a])
    /\ Goto(a, "done")
    /\ UNCHANGED <<datasetVars, runVars, recoveryVars>>

(* Either step may fail: the raw table changed shape, the dataset or its    *)
(* columns were replaced under it.  Nothing records it.                     *)
CleanFails(a) ==
    /\ pc[a] \in {"cleaning", "analysing"}
    /\ Goto(a, "raised")
    /\ UNCHANGED <<datasetVars, runVars, recoveryVars>>

-----------------------------------------------------------------------------
(* ARQ: kills, redelivery, timeouts, and time.                              *)

(* The process dies, or shuts down, under the actor.  Its open transaction  *)
(* is rolled back; ARQ hands a job out again until its tries are used up.   *)
Kill(a) ==
    /\ Live(a)
    /\ IF a \in Jobs /\ try[a] < MaxTries THEN Goto(a, "queued") ELSE Goto(a, "cut")
    /\ UNCHANGED <<datasetVars, runVars, recoveryVars>>

(* The job is cancelled.  CancelledError is not an Exception: the handler    *)
(* in ingest_dataset does not run.  ARQ does not retry a timed-out job.      *)
TimesOut(j) ==
    /\ Live(j)
    /\ age[j] = JobTimeout
    /\ Goto(j, "cut")
    /\ UNCHANGED <<datasetVars, runVars, recoveryVars>>

(* Time passes, but never past the moment ARQ must cancel an attempt.  A    *)
(* run's age stops counting once it is stale.                              *)
Tick ==
    /\ \A j \in Jobs : Live(j) => age[j] < JobTimeout
    /\ age'    = [a \in Actors |-> IF a \in Jobs /\ Live(a) THEN age[a] + 1 ELSE age[a]]
    /\ runAge' = [r \in RunIds |-> IF run[r] = "running" /\ runAge[r] <= StaleAfter
                                   THEN runAge[r] + 1 ELSE runAge[r]]
    /\ UNCHANGED <<datasetVars, run, pc, target, try, seen, behind, recoveryVars>>

-----------------------------------------------------------------------------
(* The cron job recover_stalled_ingestions.  A pass that is itself killed    *)
(* has written nothing and is no step of this model.                        *)

(* Mutants: an age of exactly StaleAfter is stale; and the approach that the *)
(* docstring rejects, "fail everything on startup".                         *)
StaleFromLimit(r)    == run[r] = "running" /\ runAge[r] >= StaleAfter
StaleWhateverAge(r)  == run[r] = "running"

Stale(r) == run[r] = "running" /\ runAge[r] > StaleAfter

RecoveryScans ==
    /\ scanned = {}
    /\ \E r \in RunIds : Stale(r)
    /\ scanned' = {r \in RunIds : Stale(r)}
    /\ todo'    = {RunDataset(r) : r \in scanned'}
    /\ UNCHANGED <<datasetVars, runVars, actorVars, hits>>

(* Mutant: only the runs are failed.                                        *)
RecoveryIgnores(d) ==
    /\ d \in todo
    /\ todo' = todo \ {d}
    /\ UNCHANGED <<datasetVars, runVars, actorVars, scanned, hits>>

(* session.get(Dataset, run.dataset_id), once per dataset of the scan.      *)
RecoveryReads(d) ==
    /\ d \in todo
    /\ todo' = todo \ {d}
    /\ hits' = IF status[d] = "analyzing" THEN hits \cup {d} ELSE hits
    /\ UNCHANGED <<datasetVars, runVars, actorVars, scanned>>

PassEnds == scanned' = {} /\ todo' = {} /\ hits' = {}

(* Mutants: the commit forgets the datasets; and it closes the runs of        *)
(* ANALYZING datasets only.                                                 *)
RecoveryClosesRuns ==
    /\ scanned # {}
    /\ todo = {}
    /\ run' = [r \in RunIds |-> IF r \in scanned /\ run[r] # "none" THEN "failed"
                                ELSE run[r]]
    /\ PassEnds
    /\ UNCHANGED <<datasetVars, runAge, actorVars>>

RecoveryClosesHits ==
    /\ scanned # {}
    /\ todo = {}
    /\ run'    = [r \in RunIds |-> IF r \in scanned /\ RunDataset(r) \in hits
                                      /\ run[r] # "none"
                                   THEN "failed" ELSE run[r]]
    /\ status' = [d \in Datasets |-> IF d \in hits /\ Exists(d) THEN "failed"
                                     ELSE status[d]]
    /\ PassEnds
    /\ UNCHANGED <<message, columns, runAge, actorVars>>

(* The one commit of the pass, with the statuses it read a while ago.       *)
RecoveryCommits ==
    /\ scanned # {}
    /\ todo = {}
    /\ run'     = [r \in RunIds |-> IF r \in scanned /\ run[r] # "none" THEN "failed"
                                    ELSE run[r]]
    /\ status'  = [d \in Datasets |-> IF d \in hits /\ Exists(d) THEN "failed"
                                      ELSE status[d]]
    /\ message' = [d \in Datasets |-> IF d \in hits /\ Exists(d) THEN "interrupted"
                                      ELSE message[d]]
    /\ PassEnds
    /\ UNCHANGED <<columns, runAge, actorVars>>

(* A scanned row was deleted meanwhile: its UPDATE matches nothing, the      *)
(* flush raises, and the whole pass is rolled back.                         *)
RecoveryAborts ==
    /\ \E r \in scanned : run[r] = "none"
    /\ PassEnds
    /\ UNCHANGED <<datasetVars, runVars, actorVars>>

-----------------------------------------------------------------------------
JobStep(j) ==
    \/ JobStarts(j)
    \/ JobFindsNoDataset(j)
    \/ JobBegins(j)
    \/ JobLoads(j)
    \/ JobFailsEarly(j)
    \/ JobCommits(j)
    \/ JobFailsLate(j)

CleanStep(a) ==
    \/ CleanReads(a)
    \/ CleanRefuses(a)
    \/ CleanCommits(a)
    \/ Analyses(a)
    \/ CleanFails(a)

RecoveryStep ==
    \/ RecoveryScans
    \/ \E d \in Datasets : RecoveryReads(d)
    \/ RecoveryCommits
    \/ RecoveryAborts

Next ==
    \/ \E d \in Datasets : Upload(d) \/ Reingest(d) \/ Delete(d)
    \/ \E c \in Cleaners, d \in Datasets : RequestClean(c, d)
    \/ \E j \in Jobs : JobStep(j) \/ TimesOut(j)
    \/ \E a \in Actors : CleanStep(a) \/ Kill(a)
    \/ Tick
    \/ RecoveryStep

Spec == Init /\ [][Next]_vars

(* Fairness: time passes, ARQ enforces its timeout, the cron job runs and    *)
(* its passes finish.  Nothing is assumed about the jobs themselves: each    *)
(* may hang until it is cancelled.                                          *)
RecoveryFairness ==
    /\ WF_vars(Tick)
    /\ \A j \in Jobs : WF_vars(TimesOut(j))
    /\ WF_vars(RecoveryStep)

FairSpec == Spec /\ RecoveryFairness

(* A worker is up, besides: a queued job is eventually taken.               *)
WorkerSpec ==
    FairSpec /\ \A j \in Jobs : WF_vars(JobStarts(j) \/ JobFindsNoDataset(j))
-----------------------------------------------------------------------------
(* Safety.                                                                  *)

(* A dataset shown as ANALYZING has a run that is still RUNNING.  This is    *)
(* what recovery relies on: it looks for runs, never for datasets, so an     *)
(* ANALYZING dataset without such a run would show its spinner forever.      *)
AnalysingHasRunningRun ==
    \A d \in Datasets :
        status[d] = "analyzing" => \E r \in RunsOf(d) : run[r] = "running"

(* Recovery never fails, nor has selected for failing, the run of an attempt *)
(* that is still at work: "a second worker starting must not kill the jobs   *)
(* a healthy first worker is still running".                                *)
RecoverySparesLiveRuns ==
    \A j \in Jobs :
        pc[j] \in {"loading", "finalising"} /\ Exists(target[j]) =>
            run[RunOf(j)] = "running" /\ RunOf(j) \notin scanned

(* A dataset is READY only if some ingestion of it succeeded and left        *)
(* columns, whoever set the status: cleaning promotes ANALYZING to READY too.*)
ReadyWasIngested ==
    \A d \in Datasets :
        status[d] = "ready" =>
            columns[d] /\ \E r \in RunsOf(d) : run[r] = "succeeded"

(* Run history is "kept as history rather than overwritten": a finished run  *)
(* keeps its outcome for as long as its dataset exists.                     *)
KeepsOutcomes ==
    \A r \in RunIds :
        run[r] \in {"succeeded", "failed"} => run'[r] \in {run[r], "none"}

FinishedRunIsFinal == [][KeepsOutcomes]_vars

(* Liveness, under FairSpec: no dataset is stranded on ANALYZING and no run  *)
(* on RUNNING, although nothing says a job ever finishes by itself.          *)
AnalysingSettles ==
    \A d \in Datasets : status[d] = "analyzing" ~> status[d] # "analyzing"

RunsClose == \A r \in RunIds : run[r] = "running" ~> run[r] # "running"

(* Under WorkerSpec: a queued job does not wait forever, whatever the jobs   *)
(* that hold the worker's slots do.                                         *)
QueuedJobsRun == \A j \in Jobs : pc[j] = "queued" ~> pc[j] # "queued"

(* The inductive invariant behind the safety properties and the refinement.  *)

(* An actor that has started has a dataset, and that dataset was created.    *)
TargetsExist ==
    \A a \in Actors :
        /\ pc[a] # "idle" => target[a] \in Datasets
        /\ target[a] \in Datasets => status[target[a]] # "none"

(* Attempts are numbered in order and a run is written only once: there is   *)
(* no row, and nothing for recovery to select, beyond the current attempt.   *)
AttemptsInOrder ==
    \A j \in Jobs :
        /\ pc[j] = "idle" => try[j] = 0
        /\ pc[j] = "queued" => try[j] < MaxTries
        /\ pc[j] \in IngestPhases => try[j] > 0
        /\ \A t \in 1..MaxTries :
              t > try[j] \/ (t = try[j] /\ pc[j] = "begin") =>
                  run[<<j, t>>] = "none" /\ <<j, t>> \notin scanned

(* A run exactly as old as its attempt cannot outlive ARQ's timeout unseen.  *)
LiveRunsAreYoung ==
    \A j \in Jobs :
        pc[j] \in {"loading", "finalising"} /\ Exists(target[j]) =>
            /\ run[RunOf(j)] = "running"
            /\ RunOf(j) \notin scanned
            /\ runAge[RunOf(j)] = age[j]

(* Runs belong to datasets that exist.                                      *)
RunsHaveDatasets ==
    \A r \in RunIds : run[r] # "none" => Exists(RunDataset(r))

(* Columns come with a success, and cleaning goes on only with columns.      *)
ColumnsCameFromARun ==
    /\ \A d \in Datasets :
          /\ columns[d] => \E r \in RunsOf(d) : run[r] = "succeeded"
          /\ status[d] = "ready" => columns[d]
    /\ \A a \in Actors :
          pc[a] = "cleaning" /\ Exists(target[a]) => columns[target[a]]

(* What a recovery pass holds while it is under way.  A dataset it has read  *)
(* and that is ANALYZING now is either staged, or has a run newer than the   *)
(* scan.                                                                    *)
PassIsSound ==
    /\ scanned = {} => todo = {} /\ hits = {}
    /\ \A r \in scanned :
          /\ run[r] \in {"running", "none"}
          /\ Exists(RunDataset(r)) => run[r] = "running"
          /\ RunDataset(r) \notin todo /\ status[RunDataset(r)] = "analyzing" =>
                \/ RunDataset(r) \in hits
                \/ \E n \in RunsOf(RunDataset(r)) \ scanned : run[n] = "running"
    /\ \A d \in todo \cup hits : \E r \in scanned : RunDataset(r) = d

IInv ==
    /\ TypeOK
    /\ TargetsExist
    /\ AttemptsInOrder
    /\ LiveRunsAreYoung
    /\ RunsHaveDatasets
    /\ ColumnsCameFromARun
    /\ PassIsSound
    /\ AnalysingHasRunningRun

(* Refinement: seen through statuses and run rows alone, everything above    *)
(* is the ledger that DatasetLifecycle describes.                           *)
RunOwner == [r \in RunIds |-> IF run[r] = "none" THEN NoDataset ELSE RunDataset(r)]

Lifecycle == INSTANCE DatasetLifecycle
                WITH Runs <- RunIds, shown <- status, ledger <- run, owner <- RunOwner

(* Every behaviour of the handlers, the worker and recovery is one of the    *)
(* abstract lifecycle: each run closes once, a dataset is never left         *)
(* ANALYZING by a sweep, and READY only ever follows a success.              *)
ImplementsLifecycle == Lifecycle!Spec

=============================================================================

--------------------------- MODULE IngestionProofs ---------------------------
(***************************************************************************)
(* Proofs about Ingestion, for any set of datasets, jobs and clean         *)
(* requests and any timeouts with JobTimeout <= StaleAfter.                *)
(*                                                                         *)
(* Every theorem rests on the inductive invariant IInv.  Its heart is in   *)
(* two conjuncts.  LiveRunsAreYoung ties a run's age to its attempt's age, *)
(* so that ARQ's timeout keeps the runs of live attempts out of every scan.*)
(* PassIsSound says what a recovery pass may still rely on between reading *)
(* a dataset and committing: a dataset that turned ANALYZING behind its    *)
(* back did so together with a run the pass does not hold.                 *)
(***************************************************************************)
EXTENDS Ingestion, TLAPS

USE TimingAssumption, IdAssumption
    DEF Actors, RunIds, RunOf, RunDataset, RunsOf, Exists, Live,
        DatasetStatus, RunStatus, IngestPhases, CleanPhases, LivePhases, Ended,
        NothingSeen, Goto, Load, Cleanable, Stale, PassEnds,
        datasetVars, runVars, actorVars, recoveryVars

(* The initial state satisfies the invariant.                              *)
LEMMA InitIInv == Init => IInv
  BY DEF Init, IInv, TypeOK, TargetsExist, AttemptsInOrder, LiveRunsAreYoung,
         RunsHaveDatasets, ColumnsCameFromARun, PassIsSound, AnalysingHasRunningRun

-----------------------------------------------------------------------------
(* One lemma per action, one step per conjunct of the invariant.           *)

(* Upload: a new row, and perhaps a queued job for it.                    *)
LEMMA UploadStep ==
    ASSUME IInv, NEW d \in Datasets, Upload(d)
    PROVE  IInv'
<1> USE DEF Upload
<1>1. CASE UNCHANGED <<pc, target>>
  <2> USE <1>1
  <2>1. TypeOK'
    BY DEF IInv, TypeOK
  <2>2. TargetsExist'
    BY DEF IInv, TypeOK, TargetsExist
  <2>3. AttemptsInOrder'
    BY DEF IInv, TypeOK, AttemptsInOrder
  <2>4. LiveRunsAreYoung'
    BY DEF IInv, TypeOK, TargetsExist, LiveRunsAreYoung
  <2>5. RunsHaveDatasets'
    BY DEF IInv, TypeOK, RunsHaveDatasets
  <2>6. ColumnsCameFromARun'
    BY DEF IInv, TypeOK, TargetsExist, AttemptsInOrder, RunsHaveDatasets,
           ColumnsCameFromARun
  <2>7. PassIsSound'
    BY DEF IInv, TypeOK, TargetsExist, AttemptsInOrder, PassIsSound
  <2>8. AnalysingHasRunningRun'
    BY DEF IInv, TypeOK, AttemptsInOrder, AnalysingHasRunningRun
  <2> QED BY <2>1, <2>2, <2>3, <2>4, <2>5, <2>6, <2>7, <2>8 DEF IInv
<1>2. ASSUME NEW j \in Jobs, Enqueued(j, d)
      PROVE  IInv'
  <2> USE <1>2 DEF Enqueued
  <2>0. \A r \in RunIds : run[r] # "none" => RunDataset(r)' = RunDataset(r)
    BY DEF IInv, TypeOK, AttemptsInOrder
  <2>1. TypeOK'
    BY DEF IInv, TypeOK
  <2>2. TargetsExist'
    BY DEF IInv, TypeOK, TargetsExist
  <2>3. AttemptsInOrder'
    BY DEF IInv, TypeOK, AttemptsInOrder
  <2>4. LiveRunsAreYoung'
    BY DEF IInv, TypeOK, TargetsExist, LiveRunsAreYoung
  <2>5. RunsHaveDatasets'
    BY DEF IInv, TypeOK, RunsHaveDatasets
  <2>6. ColumnsCameFromARun'
    <3>1. \A x \in Datasets :
             /\ columns[x] => \E r \in RunsOf(x)' : run[r] = "succeeded"
             /\ status'[x] = "ready" => columns[x]
      <4> TAKE x \in Datasets
      <4>1. ASSUME columns[x]
            PROVE  \E r \in RunsOf(x)' : run[r] = "succeeded"
        <5>1. PICK r \in RunsOf(x) : run[r] = "succeeded"
          BY <4>1 DEF IInv, ColumnsCameFromARun
        <5>2. r \in RunsOf(x)'
          BY <5>1, <2>0
        <5> QED BY <5>1, <5>2
      <4>2. status'[x] = "ready" => columns[x]
        BY DEF IInv, TypeOK, ColumnsCameFromARun
      <4> QED BY <4>1, <4>2
    <3>2. \A a \in Actors :
             pc'[a] = "cleaning" /\ Exists(target[a])' => columns[target'[a]]
      BY DEF IInv, TypeOK, TargetsExist, ColumnsCameFromARun
    <3> QED BY <3>1, <3>2 DEF ColumnsCameFromARun
  <2>7. PassIsSound'
    <3>1. \A r \in scanned : RunDataset(r)' = RunDataset(r) /\ RunDataset(r) # d
      BY DEF IInv, TypeOK, TargetsExist, AttemptsInOrder
    <3>2. \A x \in Datasets : x # d => status'[x] = status[x]
      BY DEF IInv, TypeOK
    <3> QED BY <3>1, <3>2, <2>0 DEF IInv, TypeOK, PassIsSound
  <2>8. AnalysingHasRunningRun'
    BY DEF IInv, TypeOK, AttemptsInOrder, AnalysingHasRunningRun
  <2> QED BY <2>1, <2>2, <2>3, <2>4, <2>5, <2>6, <2>7, <2>8 DEF IInv
<1> QED BY <1>1, <1>2 DEF EnqueueIngestion, Enqueued


(* Re-ingest: perhaps a queued job.                                       *)
LEMMA ReingestStep ==
    ASSUME IInv, NEW d \in Datasets, Reingest(d)
    PROVE  IInv'
<1> USE DEF Reingest
<1>1. CASE UNCHANGED <<pc, target>>
  BY <1>1 DEF IInv, TypeOK, TargetsExist, AttemptsInOrder, LiveRunsAreYoung,
              RunsHaveDatasets, ColumnsCameFromARun, PassIsSound,
              AnalysingHasRunningRun
<1>2. ASSUME NEW j \in Jobs, Enqueued(j, d)
      PROVE  IInv'
  <2> USE <1>2 DEF Enqueued
  <2>0. \A r \in RunIds : run[r] # "none" => RunDataset(r)' = RunDataset(r)
    BY DEF IInv, TypeOK, AttemptsInOrder
  <2>1. TypeOK'
    BY DEF IInv, TypeOK
  <2>2. TargetsExist'
    BY DEF IInv, TypeOK, TargetsExist
  <2>3. AttemptsInOrder'
    BY DEF IInv, TypeOK, AttemptsInOrder
  <2>4. LiveRunsAreYoung'
    BY DEF IInv, TypeOK, LiveRunsAreYoung
  <2>5. RunsHaveDatasets'
    BY DEF IInv, TypeOK, RunsHaveDatasets
  <2>6. ColumnsCameFromARun'
    <3>1. \A x \in Datasets :
             /\ columns[x] => \E r \in RunsOf(x)' : run[r] = "succeeded"
             /\ status'[x] = "ready" => columns[x]
      <4> TAKE x \in Datasets
      <4>1. ASSUME columns[x]
            PROVE  \E r \in RunsOf(x)' : run[r] = "succeeded"
        <5>1. PICK r \in RunsOf(x) : run[r] = "succeeded"
          BY <4>1 DEF IInv, ColumnsCameFromARun
        <5>2. r \in RunsOf(x)'
          BY <5>1, <2>0
        <5> QED BY <5>1, <5>2
      <4>2. status'[x] = "ready" => columns[x]
        BY DEF IInv, TypeOK, ColumnsCameFromARun
      <4> QED BY <4>1, <4>2
    <3>2. \A a \in Actors :
             pc'[a] = "cleaning" /\ Exists(target[a])' => columns[target'[a]]
      BY DEF IInv, TypeOK, TargetsExist, ColumnsCameFromARun
    <3> QED BY <3>1, <3>2 DEF ColumnsCameFromARun
  <2>7. PassIsSound'
    BY DEF IInv, TypeOK, AttemptsInOrder, PassIsSound
  <2>8. AnalysingHasRunningRun'
    BY DEF IInv, TypeOK, AttemptsInOrder, AnalysingHasRunningRun
  <2> QED BY <2>1, <2>2, <2>3, <2>4, <2>5, <2>6, <2>7, <2>8 DEF IInv
<1> QED BY <1>1, <1>2 DEF EnqueueIngestion, Enqueued


(* Delete: the dataset's rows go together.                                *)
LEMMA DeleteStep ==
    ASSUME IInv, NEW d \in Datasets, Delete(d)
    PROVE  IInv'
<1> USE DEF Delete
<1>1. TypeOK'
  BY DEF IInv, TypeOK
<1>2. TargetsExist'
  BY DEF IInv, TypeOK, TargetsExist
<1>3. AttemptsInOrder'
  BY DEF IInv, TypeOK, AttemptsInOrder
<1>4. LiveRunsAreYoung'
  BY DEF IInv, TypeOK, LiveRunsAreYoung, AttemptsInOrder
<1>5. RunsHaveDatasets'
  BY DEF IInv, TypeOK, RunsHaveDatasets
<1>6. ColumnsCameFromARun'
  BY DEF IInv, TypeOK, ColumnsCameFromARun
<1>7. PassIsSound'
  BY DEF IInv, TypeOK, PassIsSound
<1>8. AnalysingHasRunningRun'
  BY DEF IInv, TypeOK, AnalysingHasRunningRun
<1> QED BY <1>1, <1>2, <1>3, <1>4, <1>5, <1>6, <1>7, <1>8 DEF IInv

(* A clean request starts.                                                *)
LEMMA RequestCleanStep ==
    ASSUME IInv, NEW c \in Cleaners, NEW d \in Datasets, RequestClean(c, d)
    PROVE  IInv'
<1> USE DEF RequestClean
<1>1. TypeOK'
  BY DEF IInv, TypeOK
<1>2. TargetsExist'
  BY DEF IInv, TypeOK, TargetsExist
<1>3. AttemptsInOrder'
  BY DEF IInv, TypeOK, AttemptsInOrder
<1>4. LiveRunsAreYoung'
  BY DEF IInv, TypeOK, LiveRunsAreYoung
<1>5. RunsHaveDatasets'
  BY DEF IInv, TypeOK, RunsHaveDatasets
<1>6. ColumnsCameFromARun'
  BY DEF IInv, TypeOK, ColumnsCameFromARun
<1>7. PassIsSound'
  BY DEF IInv, TypeOK, PassIsSound
<1>8. AnalysingHasRunningRun'
  BY DEF IInv, TypeOK, AnalysingHasRunningRun
<1> QED BY <1>1, <1>2, <1>3, <1>4, <1>5, <1>6, <1>7, <1>8 DEF IInv

(* A job is taken and reads its dataset.                                  *)
LEMMA JobStartsStep ==
    ASSUME IInv, NEW j \in Jobs, JobStarts(j)
    PROVE  IInv'
<1> USE DEF JobStarts
<1>1. TypeOK'
  BY DEF IInv, TypeOK, AttemptsInOrder
<1>2. TargetsExist'
  BY DEF IInv, TypeOK, TargetsExist
<1>3. AttemptsInOrder'
  BY DEF IInv, TypeOK, AttemptsInOrder
<1>4. LiveRunsAreYoung'
  BY DEF IInv, TypeOK, LiveRunsAreYoung
<1>5. RunsHaveDatasets'
  BY DEF IInv, TypeOK, RunsHaveDatasets
<1>6. ColumnsCameFromARun'
  BY DEF IInv, TypeOK, ColumnsCameFromARun
<1>7. PassIsSound'
  BY DEF IInv, TypeOK, PassIsSound
<1>8. AnalysingHasRunningRun'
  BY DEF IInv, TypeOK, AnalysingHasRunningRun
<1> QED BY <1>1, <1>2, <1>3, <1>4, <1>5, <1>6, <1>7, <1>8 DEF IInv

(* A job's dataset is gone.                                               *)
LEMMA JobFindsNoDatasetStep ==
    ASSUME IInv, NEW j \in Jobs, JobFindsNoDataset(j)
    PROVE  IInv'
<1> USE DEF JobFindsNoDataset
<1>1. TypeOK'
  BY DEF IInv, TypeOK
<1>2. TargetsExist'
  BY DEF IInv, TypeOK, TargetsExist
<1>3. AttemptsInOrder'
  BY DEF IInv, TypeOK, AttemptsInOrder
<1>4. LiveRunsAreYoung'
  BY DEF IInv, TypeOK, LiveRunsAreYoung
<1>5. RunsHaveDatasets'
  BY DEF IInv, TypeOK, RunsHaveDatasets
<1>6. ColumnsCameFromARun'
  BY DEF IInv, TypeOK, ColumnsCameFromARun
<1>7. PassIsSound'
  BY DEF IInv, TypeOK, PassIsSound
<1>8. AnalysingHasRunningRun'
  BY DEF IInv, TypeOK, AnalysingHasRunningRun
<1> QED BY <1>1, <1>2, <1>3, <1>4, <1>5, <1>6, <1>7, <1>8 DEF IInv

(* The first commit opens a run that no scan can hold.                    *)
LEMMA JobBeginsStep ==
    ASSUME IInv, NEW j \in Jobs, JobBegins(j)
    PROVE  IInv'
<1> USE DEF JobBegins
<1>1. TypeOK'
  BY DEF IInv, TypeOK, AttemptsInOrder, TargetsExist
<1>2. TargetsExist'
  BY DEF IInv, TypeOK, TargetsExist
<1>3. AttemptsInOrder'
  BY DEF IInv, TypeOK, AttemptsInOrder
<1>4. LiveRunsAreYoung'
  BY DEF IInv, TypeOK, LiveRunsAreYoung, AttemptsInOrder
<1>5. RunsHaveDatasets'
  BY DEF IInv, TypeOK, RunsHaveDatasets
<1>6. ColumnsCameFromARun'
  BY DEF IInv, TypeOK, ColumnsCameFromARun, AttemptsInOrder
<1>7. PassIsSound'
  BY DEF IInv, TypeOK, PassIsSound, AttemptsInOrder
<1>8. AnalysingHasRunningRun'
  BY DEF IInv, TypeOK, AnalysingHasRunningRun, AttemptsInOrder
<1> QED BY <1>1, <1>2, <1>3, <1>4, <1>5, <1>6, <1>7, <1>8 DEF IInv

(* Loading changes nothing that is recorded.                              *)
LEMMA JobLoadsStep ==
    ASSUME IInv, NEW j \in Jobs, JobLoads(j)
    PROVE  IInv'
<1> USE DEF JobLoads
<1>1. TypeOK'
  BY DEF IInv, TypeOK
<1>2. TargetsExist'
  BY DEF IInv, TypeOK, TargetsExist
<1>3. AttemptsInOrder'
  BY DEF IInv, TypeOK, AttemptsInOrder
<1>4. LiveRunsAreYoung'
  BY DEF IInv, TypeOK, LiveRunsAreYoung
<1>5. RunsHaveDatasets'
  BY DEF IInv, TypeOK, RunsHaveDatasets
<1>6. ColumnsCameFromARun'
  BY DEF IInv, TypeOK, ColumnsCameFromARun
<1>7. PassIsSound'
  BY DEF IInv, TypeOK, PassIsSound
<1>8. AnalysingHasRunningRun'
  BY DEF IInv, TypeOK, AnalysingHasRunningRun
<1> QED BY <1>1, <1>2, <1>3, <1>4, <1>5, <1>6, <1>7, <1>8 DEF IInv

(* A recorded failure closes the run and moves the dataset off ANALYZING. *)
LEMMA JobFailsEarlyStep ==
    ASSUME IInv, NEW j \in Jobs, JobFailsEarly(j)
    PROVE  IInv'
<1> USE DEF JobFailsEarly
<1>1. TypeOK'
  <2>1. status' \in [Datasets -> DatasetStatus \cup {"none", "deleted"}]
    <3>1. status \in [Datasets -> DatasetStatus \cup {"none", "deleted"}] /\ "failed" \in DatasetStatus
      BY DEF IInv, TypeOK, DatasetStatus
    <3>2. status' = [status EXCEPT ![target[j]] = "failed"] \/ status' = status
      OBVIOUS
    <3> HIDE DEF JobFailsEarly
    <3> QED BY <3>1, <3>2
  <2>2. message' \in [Datasets -> {"none", "error", "interrupted"}]
    BY DEF IInv, TypeOK
  <2>3. run' \in [RunIds -> RunStatus \cup {"none"}]
    BY DEF IInv, TypeOK
  <2> QED BY <2>1, <2>2, <2>3 DEF IInv, TypeOK
<1>2. TargetsExist'
  BY DEF IInv, TypeOK, TargetsExist
<1>3. AttemptsInOrder'
  BY DEF IInv, TypeOK, AttemptsInOrder
<1>4. LiveRunsAreYoung'
  BY DEF IInv, TypeOK, LiveRunsAreYoung, AttemptsInOrder, TargetsExist
<1>5. RunsHaveDatasets'
  <2>1. CASE Exists(target[j])
    BY <2>1 DEF IInv, TypeOK, TargetsExist, RunsHaveDatasets, AttemptsInOrder
  <2>2. CASE ~Exists(target[j])
    BY <2>2 DEF IInv, TypeOK, RunsHaveDatasets
  <2> QED BY <2>1, <2>2
<1>6. ColumnsCameFromARun'
  BY DEF IInv, TypeOK, ColumnsCameFromARun, TargetsExist, LiveRunsAreYoung
<1>7. PassIsSound'
  BY DEF IInv, TypeOK, PassIsSound, TargetsExist, LiveRunsAreYoung,
         AttemptsInOrder
<1>8. AnalysingHasRunningRun'
  BY DEF IInv, TypeOK, AnalysingHasRunningRun
<1> QED BY <1>1, <1>2, <1>3, <1>4, <1>5, <1>6, <1>7, <1>8 DEF IInv

(* A success closes the run and moves the dataset off ANALYZING.          *)
LEMMA JobCommitsStep ==
    ASSUME IInv, NEW j \in Jobs, JobCommits(j)
    PROVE  IInv'
<1> USE DEF JobCommits
<1>1. TypeOK'
  BY DEF IInv, TypeOK
<1>2. TargetsExist'
  BY DEF IInv, TypeOK, TargetsExist
<1>3. AttemptsInOrder'
  BY DEF IInv, TypeOK, AttemptsInOrder
<1>4. LiveRunsAreYoung'
  BY DEF IInv, TypeOK, LiveRunsAreYoung
<1>5. RunsHaveDatasets'
  BY DEF IInv, TypeOK, RunsHaveDatasets
<1>6. ColumnsCameFromARun'
  BY DEF IInv, TypeOK, ColumnsCameFromARun, AttemptsInOrder
<1>7. PassIsSound'
  BY DEF IInv, TypeOK, PassIsSound, LiveRunsAreYoung, TargetsExist
<1>8. AnalysingHasRunningRun'
  BY DEF IInv, TypeOK, AnalysingHasRunningRun
<1> QED BY <1>1, <1>2, <1>3, <1>4, <1>5, <1>6, <1>7, <1>8 DEF IInv

(* An unrecorded failure leaves the run RUNNING.                          *)
LEMMA JobFailsLateStep ==
    ASSUME IInv, NEW j \in Jobs, JobFailsLate(j)
    PROVE  IInv'
<1> USE DEF JobFailsLate
<1>1. TypeOK'
  BY DEF IInv, TypeOK
<1>2. TargetsExist'
  BY DEF IInv, TypeOK, TargetsExist
<1>3. AttemptsInOrder'
  BY DEF IInv, TypeOK, AttemptsInOrder
<1>4. LiveRunsAreYoung'
  BY DEF IInv, TypeOK, LiveRunsAreYoung
<1>5. RunsHaveDatasets'
  BY DEF IInv, TypeOK, RunsHaveDatasets
<1>6. ColumnsCameFromARun'
  BY DEF IInv, TypeOK, ColumnsCameFromARun
<1>7. PassIsSound'
  BY DEF IInv, TypeOK, PassIsSound
<1>8. AnalysingHasRunningRun'
  BY DEF IInv, TypeOK, AnalysingHasRunningRun
<1> QED BY <1>1, <1>2, <1>3, <1>4, <1>5, <1>6, <1>7, <1>8 DEF IInv

(* A timeout leaves the run RUNNING.                                      *)
LEMMA TimesOutStep ==
    ASSUME IInv, NEW j \in Jobs, TimesOut(j)
    PROVE  IInv'
<1> USE DEF TimesOut
<1>1. TypeOK'
  BY DEF IInv, TypeOK
<1>2. TargetsExist'
  BY DEF IInv, TypeOK, TargetsExist
<1>3. AttemptsInOrder'
  BY DEF IInv, TypeOK, AttemptsInOrder
<1>4. LiveRunsAreYoung'
  BY DEF IInv, TypeOK, LiveRunsAreYoung
<1>5. RunsHaveDatasets'
  BY DEF IInv, TypeOK, RunsHaveDatasets
<1>6. ColumnsCameFromARun'
  BY DEF IInv, TypeOK, ColumnsCameFromARun
<1>7. PassIsSound'
  BY DEF IInv, TypeOK, PassIsSound
<1>8. AnalysingHasRunningRun'
  BY DEF IInv, TypeOK, AnalysingHasRunningRun
<1> QED BY <1>1, <1>2, <1>3, <1>4, <1>5, <1>6, <1>7, <1>8 DEF IInv

(* Cleaning reads the dataset.                                            *)
LEMMA CleanReadsStep ==
    ASSUME IInv, NEW a \in Actors, CleanReads(a)
    PROVE  IInv'
<1> USE DEF CleanReads
<1>1. TypeOK'
  BY DEF IInv, TypeOK
<1>2. TargetsExist'
  BY DEF IInv, TypeOK, TargetsExist
<1>3. AttemptsInOrder'
  BY DEF IInv, TypeOK, AttemptsInOrder
<1>4. LiveRunsAreYoung'
  BY DEF IInv, TypeOK, LiveRunsAreYoung
<1>5. RunsHaveDatasets'
  BY DEF IInv, TypeOK, RunsHaveDatasets
<1>6. ColumnsCameFromARun'
  BY DEF IInv, TypeOK, ColumnsCameFromARun
<1>7. PassIsSound'
  BY DEF IInv, TypeOK, PassIsSound
<1>8. AnalysingHasRunningRun'
  BY DEF IInv, TypeOK, AnalysingHasRunningRun
<1> QED BY <1>1, <1>2, <1>3, <1>4, <1>5, <1>6, <1>7, <1>8 DEF IInv

(* Cleaning refuses.                                                      *)
LEMMA CleanRefusesStep ==
    ASSUME IInv, NEW a \in Actors, CleanRefuses(a)
    PROVE  IInv'
<1> USE DEF CleanRefuses
<1>1. TypeOK'
  BY DEF IInv, TypeOK
<1>2. TargetsExist'
  BY DEF IInv, TypeOK, TargetsExist
<1>3. AttemptsInOrder'
  BY DEF IInv, TypeOK, AttemptsInOrder
<1>4. LiveRunsAreYoung'
  BY DEF IInv, TypeOK, LiveRunsAreYoung
<1>5. RunsHaveDatasets'
  BY DEF IInv, TypeOK, RunsHaveDatasets
<1>6. ColumnsCameFromARun'
  BY DEF IInv, TypeOK, ColumnsCameFromARun
<1>7. PassIsSound'
  BY DEF IInv, TypeOK, PassIsSound
<1>8. AnalysingHasRunningRun'
  BY DEF IInv, TypeOK, AnalysingHasRunningRun
<1> QED BY <1>1, <1>2, <1>3, <1>4, <1>5, <1>6, <1>7, <1>8 DEF IInv

(* Cleaning publishes only datasets that have columns.                    *)
LEMMA CleanCommitsStep ==
    ASSUME IInv, NEW a \in Actors, CleanCommits(a)
    PROVE  IInv'
<1> USE DEF CleanCommits
<1>1. TypeOK'
  BY DEF IInv, TypeOK
<1>2. TargetsExist'
  BY DEF IInv, TypeOK, TargetsExist
<1>3. AttemptsInOrder'
  BY DEF IInv, TypeOK, AttemptsInOrder
<1>4. LiveRunsAreYoung'
  BY DEF IInv, TypeOK, LiveRunsAreYoung
<1>5. RunsHaveDatasets'
  BY DEF IInv, TypeOK, RunsHaveDatasets
<1>6. ColumnsCameFromARun'
  BY DEF IInv, TypeOK, ColumnsCameFromARun
<1>7. PassIsSound'
  BY DEF IInv, TypeOK, PassIsSound
<1>8. AnalysingHasRunningRun'
  BY DEF IInv, TypeOK, AnalysingHasRunningRun
<1> QED BY <1>1, <1>2, <1>3, <1>4, <1>5, <1>6, <1>7, <1>8 DEF IInv

(* Analysis changes no status.                                            *)
LEMMA AnalysesStep ==
    ASSUME IInv, NEW a \in Actors, Analyses(a)
    PROVE  IInv'
<1> USE DEF Analyses
<1>1. TypeOK'
  BY DEF IInv, TypeOK
<1>2. TargetsExist'
  BY DEF IInv, TypeOK, TargetsExist
<1>3. AttemptsInOrder'
  BY DEF IInv, TypeOK, AttemptsInOrder
<1>4. LiveRunsAreYoung'
  BY DEF IInv, TypeOK, LiveRunsAreYoung
<1>5. RunsHaveDatasets'
  BY DEF IInv, TypeOK, RunsHaveDatasets
<1>6. ColumnsCameFromARun'
  BY DEF IInv, TypeOK, ColumnsCameFromARun
<1>7. PassIsSound'
  BY DEF IInv, TypeOK, PassIsSound
<1>8. AnalysingHasRunningRun'
  BY DEF IInv, TypeOK, AnalysingHasRunningRun
<1> QED BY <1>1, <1>2, <1>3, <1>4, <1>5, <1>6, <1>7, <1>8 DEF IInv

(* A failed clean records nothing.                                        *)
LEMMA CleanFailsStep ==
    ASSUME IInv, NEW a \in Actors, CleanFails(a)
    PROVE  IInv'
<1> USE DEF CleanFails
<1>1. TypeOK'
  BY DEF IInv, TypeOK
<1>2. TargetsExist'
  BY DEF IInv, TypeOK, TargetsExist
<1>3. AttemptsInOrder'
  BY DEF IInv, TypeOK, AttemptsInOrder
<1>4. LiveRunsAreYoung'
  BY DEF IInv, TypeOK, LiveRunsAreYoung
<1>5. RunsHaveDatasets'
  BY DEF IInv, TypeOK, RunsHaveDatasets
<1>6. ColumnsCameFromARun'
  BY DEF IInv, TypeOK, ColumnsCameFromARun
<1>7. PassIsSound'
  BY DEF IInv, TypeOK, PassIsSound
<1>8. AnalysingHasRunningRun'
  BY DEF IInv, TypeOK, AnalysingHasRunningRun
<1> QED BY <1>1, <1>2, <1>3, <1>4, <1>5, <1>6, <1>7, <1>8 DEF IInv

(* A kill leaves the run RUNNING.                                         *)
LEMMA KillStep ==
    ASSUME IInv, NEW a \in Actors, Kill(a)
    PROVE  IInv'
<1> USE DEF Kill
<1>1. TypeOK'
  <2>1. ASSUME NEW phase \in {"queued", "cut"}, Goto(a, phase)
        PROVE  TypeOK'
    BY <2>1 DEF IInv, TypeOK
  <2> QED BY <2>1
<1>2. TargetsExist'
  BY DEF IInv, TypeOK, TargetsExist
<1>3. AttemptsInOrder'
  BY DEF IInv, TypeOK, AttemptsInOrder
<1>4. LiveRunsAreYoung'
  BY DEF IInv, TypeOK, LiveRunsAreYoung
<1>5. RunsHaveDatasets'
  BY DEF IInv, TypeOK, RunsHaveDatasets
<1>6. ColumnsCameFromARun'
  BY DEF IInv, TypeOK, ColumnsCameFromARun
<1>7. PassIsSound'
  BY DEF IInv, TypeOK, PassIsSound
<1>8. AnalysingHasRunningRun'
  BY DEF IInv, TypeOK, AnalysingHasRunningRun
<1> QED BY <1>1, <1>2, <1>3, <1>4, <1>5, <1>6, <1>7, <1>8 DEF IInv

(* Runs and their attempts age together.                                  *)
LEMMA TickStep ==
    ASSUME IInv, Tick
    PROVE  IInv'
<1> USE DEF Tick
<1>1. TypeOK'
  BY DEF IInv, TypeOK
<1>2. TargetsExist'
  BY DEF IInv, TypeOK, TargetsExist
<1>3. AttemptsInOrder'
  BY DEF IInv, TypeOK, AttemptsInOrder
<1>4. LiveRunsAreYoung'
  BY DEF IInv, TypeOK, LiveRunsAreYoung, AttemptsInOrder
<1>5. RunsHaveDatasets'
  BY DEF IInv, TypeOK, RunsHaveDatasets
<1>6. ColumnsCameFromARun'
  BY DEF IInv, TypeOK, ColumnsCameFromARun
<1>7. PassIsSound'
  BY DEF IInv, TypeOK, PassIsSound
<1>8. AnalysingHasRunningRun'
  BY DEF IInv, TypeOK, AnalysingHasRunningRun
<1> QED BY <1>1, <1>2, <1>3, <1>4, <1>5, <1>6, <1>7, <1>8 DEF IInv

(* Every attempt at work is younger than what a scan selects.             *)
LEMMA RecoveryScansStep ==
    ASSUME IInv, RecoveryScans
    PROVE  IInv'
<1> USE DEF RecoveryScans
<1>1. TypeOK'
  BY DEF IInv, TypeOK, AttemptsInOrder, TargetsExist
<1>2. TargetsExist'
  BY DEF IInv, TypeOK, TargetsExist
<1>3. AttemptsInOrder'
  BY DEF IInv, TypeOK, AttemptsInOrder
<1>4. LiveRunsAreYoung'
  BY DEF IInv, TypeOK, LiveRunsAreYoung
<1>5. RunsHaveDatasets'
  BY DEF IInv, TypeOK, RunsHaveDatasets
<1>6. ColumnsCameFromARun'
  BY DEF IInv, TypeOK, ColumnsCameFromARun
<1>7. PassIsSound'
  BY DEF IInv, TypeOK, PassIsSound
<1>8. AnalysingHasRunningRun'
  BY DEF IInv, TypeOK, AnalysingHasRunningRun
<1> QED BY <1>1, <1>2, <1>3, <1>4, <1>5, <1>6, <1>7, <1>8 DEF IInv

(* A dataset read as ANALYZING is staged.                                 *)
LEMMA RecoveryReadsStep ==
    ASSUME IInv, NEW d \in Datasets, RecoveryReads(d)
    PROVE  IInv'
<1> USE DEF RecoveryReads
<1>1. TypeOK'
  BY DEF IInv, TypeOK
<1>2. TargetsExist'
  BY DEF IInv, TypeOK, TargetsExist
<1>3. AttemptsInOrder'
  BY DEF IInv, TypeOK, AttemptsInOrder
<1>4. LiveRunsAreYoung'
  BY DEF IInv, TypeOK, LiveRunsAreYoung
<1>5. RunsHaveDatasets'
  BY DEF IInv, TypeOK, RunsHaveDatasets
<1>6. ColumnsCameFromARun'
  BY DEF IInv, TypeOK, ColumnsCameFromARun
<1>7. PassIsSound'
  BY DEF IInv, TypeOK, PassIsSound
<1>8. AnalysingHasRunningRun'
  BY DEF IInv, TypeOK, AnalysingHasRunningRun
<1> QED BY <1>1, <1>2, <1>3, <1>4, <1>5, <1>6, <1>7, <1>8 DEF IInv

(* The pass fails its runs and the datasets it staged.                    *)
LEMMA RecoveryCommitsStep ==
    ASSUME IInv, RecoveryCommits
    PROVE  IInv'
<1> USE DEF RecoveryCommits
<1>1. TypeOK'
  BY DEF IInv, TypeOK
<1>2. TargetsExist'
  BY DEF IInv, TypeOK, TargetsExist
<1>3. AttemptsInOrder'
  BY DEF IInv, TypeOK, AttemptsInOrder
<1>4. LiveRunsAreYoung'
  BY DEF IInv, TypeOK, LiveRunsAreYoung, TargetsExist, AttemptsInOrder
<1>5. RunsHaveDatasets'
  BY DEF IInv, TypeOK, RunsHaveDatasets, TargetsExist, AttemptsInOrder
<1>6. ColumnsCameFromARun'
  BY DEF IInv, TypeOK, ColumnsCameFromARun, PassIsSound, TargetsExist
<1>7. PassIsSound'
  BY DEF IInv, TypeOK, PassIsSound
<1>8. AnalysingHasRunningRun'
  BY DEF IInv, TypeOK, AnalysingHasRunningRun, PassIsSound
<1> QED BY <1>1, <1>2, <1>3, <1>4, <1>5, <1>6, <1>7, <1>8 DEF IInv

(* A pass that is rolled back changes no row.                             *)
LEMMA RecoveryAbortsStep ==
    ASSUME IInv, RecoveryAborts
    PROVE  IInv'
<1> USE DEF RecoveryAborts
<1>1. TypeOK'
  BY DEF IInv, TypeOK
<1>2. TargetsExist'
  BY DEF IInv, TypeOK, TargetsExist
<1>3. AttemptsInOrder'
  BY DEF IInv, TypeOK, AttemptsInOrder
<1>4. LiveRunsAreYoung'
  BY DEF IInv, TypeOK, LiveRunsAreYoung
<1>5. RunsHaveDatasets'
  BY DEF IInv, TypeOK, RunsHaveDatasets
<1>6. ColumnsCameFromARun'
  BY DEF IInv, TypeOK, ColumnsCameFromARun
<1>7. PassIsSound'
  BY DEF IInv, TypeOK, PassIsSound
<1>8. AnalysingHasRunningRun'
  BY DEF IInv, TypeOK, AnalysingHasRunningRun
<1> QED BY <1>1, <1>2, <1>3, <1>4, <1>5, <1>6, <1>7, <1>8 DEF IInv

-----------------------------------------------------------------------------
(* The invariant holds in every reachable state.                           *)

LEMMA NextIInv == IInv /\ [Next]_vars => IInv'
<1> SUFFICES ASSUME IInv, [Next]_vars PROVE IInv'
  OBVIOUS
<1>1. ASSUME NEW d \in Datasets, Upload(d) \/ Reingest(d) \/ Delete(d)
      PROVE  IInv'
  BY <1>1, UploadStep, ReingestStep, DeleteStep
<1>2. ASSUME NEW c \in Cleaners, NEW d \in Datasets, RequestClean(c, d)
      PROVE  IInv'
  BY <1>2, RequestCleanStep
<1>3. ASSUME NEW j \in Jobs, JobStep(j) \/ TimesOut(j)
      PROVE  IInv'
  BY <1>3, JobStartsStep, JobFindsNoDatasetStep, JobBeginsStep, JobLoadsStep,
     JobFailsEarlyStep, JobCommitsStep, JobFailsLateStep, TimesOutStep
     DEF JobStep
<1>4. ASSUME NEW a \in Actors, CleanStep(a) \/ Kill(a)
      PROVE  IInv'
  BY <1>4, CleanReadsStep, CleanRefusesStep, CleanCommitsStep, AnalysesStep,
     CleanFailsStep, KillStep
     DEF CleanStep
<1>5. CASE Tick
  BY <1>5, TickStep
<1>6. CASE RecoveryStep
  BY <1>6, RecoveryScansStep, RecoveryReadsStep, RecoveryCommitsStep,
     RecoveryAbortsStep
     DEF RecoveryStep
<1>7. CASE UNCHANGED vars
  BY <1>7 DEF vars, IInv, TypeOK, TargetsExist, AttemptsInOrder, LiveRunsAreYoung,
              RunsHaveDatasets, ColumnsCameFromARun, PassIsSound,
              AnalysingHasRunningRun
<1> QED BY <1>1, <1>2, <1>3, <1>4, <1>5, <1>6, <1>7 DEF Next

(* IInv is an invariant of the specification.                              *)
THEOREM Invariance == Spec => []IInv
  BY InitIInv, NextIInv, PTL DEF Spec

(* Every variable keeps its type: in particular a job is never handed out   *)
(* more than MaxTries times, so every attempt has a run row of its own.     *)
THEOREM TypeCorrect == Spec => []TypeOK
<1>1. IInv => TypeOK
  BY DEF IInv
<1> QED BY <1>1, Invariance, PTL

(* An ANALYZING dataset always has a RUNNING run for recovery to find: no    *)
(* interleaving of jobs, kills, deletions and recovery passes strands it.   *)
THEOREM NothingIsStranded == Spec => []AnalysingHasRunningRun
<1>1. IInv => AnalysingHasRunningRun
  BY DEF IInv
<1> QED BY <1>1, Invariance, PTL

(* Recovery never selects or fails the run of an attempt still at work, as   *)
(* long as the job timeout is at most the age at which runs are stale.      *)
THEOREM LiveRunsAreSpared == Spec => []RecoverySparesLiveRuns
<1>1. IInv => RecoverySparesLiveRuns
  BY DEF IInv, LiveRunsAreYoung, RecoverySparesLiveRuns
<1> QED BY <1>1, Invariance, PTL

(* READY is only ever shown after an ingestion that succeeded.              *)
THEOREM ReadyFollowsSuccess == Spec => []ReadyWasIngested
<1>1. IInv => ReadyWasIngested
  BY DEF IInv, ColumnsCameFromARun, ReadyWasIngested
<1> QED BY <1>1, Invariance, PTL

(* A finished run keeps its outcome until its dataset is deleted.           *)
THEOREM OutcomesAreFinal == Spec => FinishedRunIsFinal
<1>1. IInv /\ [Next]_vars => [KeepsOutcomes]_vars
  <2> SUFFICES ASSUME IInv, Next
               PROVE  KeepsOutcomes
    OBVIOUS
  <2> USE DEF KeepsOutcomes
  <2>1. ASSUME NEW d \in Datasets, Upload(d) \/ Reingest(d) \/ Delete(d)
        PROVE  KeepsOutcomes
    BY <2>1 DEF Upload, Reingest, Delete, IInv, TypeOK
  <2>2. ASSUME NEW c \in Cleaners, NEW d \in Datasets, RequestClean(c, d)
        PROVE  KeepsOutcomes
    BY <2>2 DEF RequestClean
  <2>3. ASSUME NEW j \in Jobs, JobStep(j) \/ TimesOut(j)
        PROVE  KeepsOutcomes
    <3>1. CASE JobBegins(j)
      BY <3>1 DEF JobBegins, IInv, TypeOK, AttemptsInOrder
    <3>2. CASE JobCommits(j)
      BY <3>2 DEF JobCommits, IInv, TypeOK, LiveRunsAreYoung
    <3>3. CASE JobFailsEarly(j)
      BY <3>3 DEF JobFailsEarly, IInv, TypeOK, LiveRunsAreYoung
    <3> QED BY <2>3, <3>1, <3>2, <3>3
        DEF JobStep, JobStarts, JobFindsNoDataset, JobLoads, JobFailsLate, TimesOut
  <2>4. ASSUME NEW a \in Actors, CleanStep(a) \/ Kill(a)
        PROVE  KeepsOutcomes
    BY <2>4 DEF CleanStep, CleanReads, CleanRefuses, CleanCommits, Analyses,
                CleanFails, Kill
  <2>5. CASE Tick
    BY <2>5 DEF Tick
  <2>6. CASE RecoveryStep
    BY <2>6 DEF RecoveryStep, RecoveryScans, RecoveryReads, RecoveryCommits,
                RecoveryAborts, IInv, TypeOK, PassIsSound
  <2> QED BY <2>1, <2>2, <2>3, <2>4, <2>5, <2>6 DEF Next
<1> QED BY <1>1, Invariance, PTL DEF Spec, FinishedRunIsFinal

-----------------------------------------------------------------------------
(* The refinement of DatasetLifecycle.                                      *)

Stutters == UNCHANGED <<status, run, RunOwner>>

(* A step that changes no run row, and retargets only actors without one,    *)
(* leaves the owners of the runs as they are.                               *)
LEMMA OwnersKept ==
    ASSUME IInv, run' = run,
           \A r \in RunIds : run[r] # "none" => target'[r[1]] = target[r[1]]
    PROVE  RunOwner' = RunOwner
  BY DEF RunOwner

(* Queueing a job retargets an actor that has no run yet.                   *)
LEMMA EnqueueKeepsOwners ==
    ASSUME IInv, NEW d \in Datasets, EnqueueIngestion(d), run' = run
    PROVE  RunOwner' = RunOwner
<1>1. \A r \in RunIds : run[r] # "none" => target'[r[1]] = target[r[1]]
  <2>1. CASE UNCHANGED <<pc, target>>
    BY <2>1
  <2>2. ASSUME NEW j \in Jobs, Enqueued(j, d)
        PROVE  \A r \in RunIds : run[r] # "none" => target'[r[1]] = target[r[1]]
    BY <2>2 DEF Enqueued, IInv, TypeOK, AttemptsInOrder
  <2> QED BY <2>1, <2>2 DEF EnqueueIngestion
<1> QED BY <1>1, OwnersKept

(* Opening a run: RunOf(j) had no row, and now belongs to j's dataset.       *)
LEMMA BeginOpens ==
    ASSUME IInv, NEW j \in Jobs, JobBegins(j)
    PROVE  Lifecycle!Next
<1> DEFINE d == target[j]
           r == RunOf(j)
<1>1. d \in Datasets /\ r \in RunIds /\ run[r] = "none" /\ Exists(d)
  BY DEF JobBegins, IInv, TypeOK, TargetsExist, AttemptsInOrder
<1>2. run' = [run EXCEPT ![r] = "running"] /\ target' = target
  BY DEF JobBegins
<1>3. RunOwner' = [RunOwner EXCEPT ![r] = d]
  <2>1. RunDataset(r) = d
    BY DEF RunDataset, RunOf
  <2>2. \A q \in RunIds : run'[q] = IF q = r THEN "running" ELSE run[q]
    BY <1>1, <1>2 DEF IInv, TypeOK
  <2>3. \A q \in RunIds : RunDataset(q)' = RunDataset(q)
    BY <1>2 DEF RunDataset
  <2> HIDE DEF d, r
  <2>4. \A q \in RunIds :
           (IF run'[q] = "none" THEN NoDataset ELSE RunDataset(q)')
             = IF q = r THEN d
               ELSE IF run[q] = "none" THEN NoDataset ELSE RunDataset(q)
    BY <1>1, <2>1, <2>2, <2>3
  <2> QED BY <1>1, <2>4 DEF RunOwner
<1>4. status' = [status EXCEPT ![d] = "analyzing"] \/ UNCHANGED status
  BY DEF JobBegins
<1>5. Lifecycle!Open(d, r)
  BY <1>1, <1>2, <1>3, <1>4 DEF Lifecycle!Open, Lifecycle!Present
<1> QED BY <1>1, <1>5 DEF Lifecycle!Next

(* Closing a run, with either outcome.                                      *)
LEMMA EndCloses ==
    ASSUME IInv, NEW j \in Jobs, JobCommits(j) \/ JobFailsEarly(j)
    PROVE  Lifecycle!Next \/ Stutters
<1> DEFINE d == target[j]
           r == RunOf(j)
<1>1. CASE ~Exists(d)
  BY <1>1 DEF JobCommits, JobFailsEarly, Stutters, RunOwner
<1>2. CASE Exists(d)
  <2>1. /\ d \in Datasets /\ r \in RunIds
        /\ run[r] = "running" /\ RunOwner[r] = d
    BY <1>2 DEF JobCommits, JobFailsEarly, RunOwner, IInv, TypeOK, TargetsExist,
                AttemptsInOrder, LiveRunsAreYoung
  <2>2. target' = target
    BY DEF JobCommits, JobFailsEarly
  <2>3. \/ /\ run' = [run EXCEPT ![r] = "succeeded"]
           /\ status' = [status EXCEPT ![d] = "ready"]
        \/ /\ run' = [run EXCEPT ![r] = "failed"]
           /\ status' = [status EXCEPT ![d] = "failed"]
    BY <1>2 DEF JobCommits, JobFailsEarly
  <2>4. RunOwner' = RunOwner
    BY <2>1, <2>2, <2>3 DEF RunOwner, IInv, TypeOK
  <2>5. Lifecycle!Close(d, r)
    BY <2>1, <2>3, <2>4 DEF Lifecycle!Close, Lifecycle!OpenRuns
  <2> QED BY <2>1, <2>5 DEF Lifecycle!Next
<1> QED BY <1>1, <1>2

(* Publishing: a dataset being cleaned has columns, hence a success.        *)
LEMMA CleanPublishes ==
    ASSUME IInv, NEW a \in Actors, CleanCommits(a)
    PROVE  Lifecycle!Next \/ Stutters
<1> DEFINE d == target[a]
<1>1. RunOwner' = RunOwner
  BY DEF CleanCommits, RunOwner
<1>2. CASE ~seen[a].analysing
  BY <1>1, <1>2 DEF CleanCommits, Stutters
<1>3. CASE seen[a].analysing
  <2>1. d \in Datasets /\ Exists(d)
    BY DEF CleanCommits, IInv, TypeOK, TargetsExist
  <2>2. PICK r \in RunsOf(d) : run[r] = "succeeded"
    BY <2>1 DEF CleanCommits, IInv, ColumnsCameFromARun
  <2>3. RunOwner[r] = d
    BY <2>2 DEF RunOwner
  <2>4. Lifecycle!Publish(d)
    BY <1>1, <1>3, <2>1, <2>2, <2>3
       DEF CleanCommits, Lifecycle!Publish, Lifecycle!Present, Lifecycle!Succeeded
  <2> QED BY <2>1, <2>4 DEF Lifecycle!Next
<1> QED BY <1>2, <1>3

(* A recovery pass is a sweep of the scanned runs that still have a row.    *)
LEMMA RecoverySweeps ==
    ASSUME IInv, RecoveryCommits
    PROVE  Lifecycle!Next
<1> DEFINE R == {r \in scanned : run[r] = "running"}
           D == {d \in hits : Exists(d)}
<1>1. R \in SUBSET RunIds /\ D \in SUBSET Datasets
  BY DEF IInv, TypeOK
<1>2. \A d \in D : Lifecycle!Present(d) /\ \E r \in R : RunOwner[r] = d
  <2> TAKE d \in D
  <2>1. PICK r \in scanned : RunDataset(r) = d
    BY DEF IInv, PassIsSound
  <2>2. r \in RunIds /\ run[r] = "running"
    BY <2>1 DEF IInv, TypeOK, PassIsSound
  <2> QED BY <2>1, <2>2 DEF RunOwner, Lifecycle!Present
<1>3. ASSUME NEW d \in Datasets, status[d] = "analyzing",
             Lifecycle!OpenRuns(d) \subseteq R
      PROVE  d \in D
  <2>1. PICK r \in RunsOf(d) : run[r] = "running"
    BY <1>3 DEF IInv, AnalysingHasRunningRun
  <2>2. \A n \in RunsOf(d) : run[n] = "running" => n \in scanned
    BY <1>3 DEF Lifecycle!OpenRuns, RunOwner
  <2>3. r \in scanned /\ RunDataset(r) = d /\ d \notin todo
    BY <2>1, <2>2 DEF RecoveryCommits
  <2>4. d \in hits
    BY <1>3, <2>2, <2>3 DEF IInv, PassIsSound
  <2> QED BY <1>3, <2>4
<1>4. run' = [r \in RunIds |-> IF r \in R THEN "failed" ELSE run[r]]
  BY DEF RecoveryCommits, IInv, TypeOK, PassIsSound
<1>5. status' = [d \in Datasets |-> IF d \in D THEN "failed" ELSE status[d]]
  BY DEF RecoveryCommits
<1>6. RunOwner' = RunOwner
  BY <1>4 DEF RecoveryCommits, RunOwner, IInv, TypeOK
<1>7. Lifecycle!Sweep(R, D)
  BY <1>2, <1>3, <1>4, <1>5, <1>6 DEF Lifecycle!Sweep
<1> QED BY <1>1, <1>7 DEF Lifecycle!Next

(* Deleting a dataset removes it and its ledger.                            *)
LEMMA DeleteRemoves ==
    ASSUME IInv, NEW d \in Datasets, Delete(d)
    PROVE  Lifecycle!Next
<1>1. \A r \in RunIds : RunOwner[r] = d <=> run[r] # "none" /\ RunDataset(r) = d
  BY DEF RunOwner
<1>2. run' = [r \in RunIds |-> IF RunOwner[r] = d THEN "none" ELSE run[r]]
  BY <1>1 DEF Delete, IInv, TypeOK
<1>3. RunOwner' = [r \in RunIds |-> IF RunOwner[r] = d THEN NoDataset ELSE RunOwner[r]]
  BY <1>1, <1>2 DEF Delete, RunOwner
<1>4. Lifecycle!Remove(d)
  BY <1>2, <1>3 DEF Delete, Lifecycle!Remove, Lifecycle!Present
<1> QED BY <1>4 DEF Lifecycle!Next

LEMMA StepRefines ==
    ASSUME IInv, Next
    PROVE  Lifecycle!Next \/ Stutters
<1>1. ASSUME NEW d \in Datasets, Upload(d)
      PROVE  Lifecycle!Next
  <2>1. RunOwner' = RunOwner
    BY <1>1, EnqueueKeepsOwners DEF Upload
  <2> QED BY <1>1, <2>1 DEF Upload, Lifecycle!Next, Lifecycle!Create
<1>2. ASSUME NEW d \in Datasets, Reingest(d)
      PROVE  Stutters
  BY <1>2, EnqueueKeepsOwners DEF Reingest, Stutters
<1>3. ASSUME NEW c \in Cleaners, NEW d \in Datasets, RequestClean(c, d)
      PROVE  Stutters
  <2>1. \A r \in RunIds : target'[r[1]] = target[r[1]]
    BY <1>3 DEF RequestClean, IInv, TypeOK
  <2> QED BY <1>3, <2>1, OwnersKept DEF RequestClean, Stutters
<1>4. ASSUME NEW j \in Jobs, JobStep(j) \/ TimesOut(j)
      PROVE  Lifecycle!Next \/ Stutters
  <2>1. CASE JobBegins(j) \/ JobCommits(j) \/ JobFailsEarly(j)
    BY <2>1, BeginOpens, EndCloses
  <2>2. CASE ~(JobBegins(j) \/ JobCommits(j) \/ JobFailsEarly(j))
    BY <1>4, <2>2 DEF JobStep, JobStarts, JobFindsNoDataset, JobLoads, JobFailsLate,
                      TimesOut, Stutters, RunOwner
  <2> QED BY <2>1, <2>2
<1>5. ASSUME NEW a \in Actors, CleanStep(a) \/ Kill(a)
      PROVE  Lifecycle!Next \/ Stutters
  <2>1. CASE CleanCommits(a)
    BY <2>1, CleanPublishes
  <2>2. CASE ~CleanCommits(a)
    BY <1>5, <2>2 DEF CleanStep, CleanReads, CleanRefuses, Analyses, CleanFails, Kill,
                      Stutters, RunOwner
  <2> QED BY <2>1, <2>2
<1>6. CASE Tick
  BY <1>6 DEF Tick, Stutters, RunOwner
<1>7. CASE RecoveryStep
  <2>1. CASE RecoveryCommits
    BY <2>1, RecoverySweeps
  <2>2. CASE ~RecoveryCommits
    BY <1>7, <2>2 DEF RecoveryStep, RecoveryScans, RecoveryReads, RecoveryAborts,
                      Stutters, RunOwner
  <2> QED BY <2>1, <2>2
<1> QED BY <1>1, <1>2, <1>3, <1>4, <1>5, <1>6, <1>7, DeleteRemoves DEF Next

(* The handlers, the worker and recovery, with every interleaving, kill,     *)
(* retry and timeout, do nothing the abstract lifecycle does not.           *)
THEOREM IngestionImplementsLifecycle == Spec => ImplementsLifecycle
<1>1. Init => Lifecycle!Init
  BY DEF Init, Lifecycle!Init, RunOwner
<1>2. IInv /\ [Next]_vars => [Lifecycle!Next]_(Lifecycle!ledgerVars)
  <2> SUFFICES ASSUME IInv, [Next]_vars
               PROVE  Lifecycle!Next \/ Stutters
    BY DEF Lifecycle!ledgerVars, Stutters
  <2>1. CASE UNCHANGED vars
    BY <2>1 DEF vars, Stutters, RunOwner
  <2> QED BY <2>1, StepRefines
<1> QED BY <1>1, <1>2, Invariance, PTL DEF Spec, ImplementsLifecycle, Lifecycle!Spec
=============================================================================

---------------------------- MODULE DatasetStore ----------------------------
(***************************************************************************)
(* The two stores a dataset lives in, and the work that keeps them          *)
(* together: its rows in Postgres (status, columns, the record of the last  *)
(* cleaning, KPIs), and the tables raw.<slug> and clean.<slug> of the       *)
(* workspace's DuckDB file.                                                 *)
(*                                                                         *)
(* Every piece of work reads Postgres, works on DuckDB under the workspace  *)
(* lock, and commits to Postgres afterwards.  No transaction spans the two: *)
(* an action is one step in one store.                                      *)
(*                                                                         *)
(* Tables are known by their slug, not by the dataset's id, and a slug is    *)
(* free again as soon as the row of its dataset is deleted.  Data is        *)
(* abstracted to where it comes from: a stored file never changes, so a raw *)
(* table is the dataset it was loaded from, and a clean one adds whether    *)
(* duplicates were removed.                                                *)
(*                                                                         *)
(* Attempts, time and the ledger of runs are in Ingestion.  Here a job may  *)
(* be delivered at any time, and any work may stop anywhere.                *)
(***************************************************************************)
EXTENDS Naturals

CONSTANTS
    Datasets,     \* dataset ids, never reused
    Slugs,        \* table names
    Workers,      \* slots of the worker: each runs one ingest job at a time
    Requests,     \* API requests that clean or analyse
    NoSlug, NoData, NoTable

Actors == Workers \cup Requests

(* The clean table built from a file, with or without its duplicates.       *)
Tables == [of : Datasets, dedup : BOOLEAN]

ASSUME NamesAssumption ==
    /\ NoSlug \notin Slugs
    /\ NoData \notin Datasets
    /\ NoTable \notin Tables
    /\ Workers \cap Requests = {}

VARIABLES
    row,          \* the dataset's row with what hangs from it
    raw, clean,   \* the tables in DuckDB
    drops,        \* how far the tables of a deleted dataset have been dropped
    work,         \* the ingest jobs and API requests under way
    haunted,      \* history: work for a deleted dataset touched tables of this one
    settled       \* history: the last cleaning had the dataset to itself, to its end

tableVars == <<raw, clean>>
vars == <<row, raw, clean, drops, work, haunted, settled>>

-----------------------------------------------------------------------------
RowStatus == {"none", "uploaded", "analyzing", "ready", "failed", "deleted"}

(* cleaning: cleaned_at and cleaning_actions, "none" while they are null.    *)
Row == [status   : RowStatus,
        slug     : Slugs \cup {NoSlug},
        columns  : {"none", "detected", "profiled", "classified"},
        cleaning : {"none", "dedup", "keep"},
        kpis     : Tables \cup {NoTable}]

JobPhases     == {"begin", "loading", "loaded"}
CleanPhases   == {"clean", "building", "built"}
AnalysePhases == {"analyse", "computing", "computed"}

(* seen: it loaded the row as ANALYZING; stale: the columns it loaded have   *)
(* been replaced; held: the table its KPIs come from; alone: a history bit,  *)
(* set for jobs and cleanings that nothing else has overlapped.             *)
Work == [pc : {"idle"} \cup JobPhases \cup CleanPhases \cup AnalysePhases,
         on : Datasets \cup {NoData},
         dedup : BOOLEAN, seen : BOOLEAN, stale : BOOLEAN,
         held : Tables \cup {NoTable},
         alone : BOOLEAN]

Idle == [pc |-> "idle", on |-> NoData, dedup |-> TRUE, seen |-> FALSE,
         stale |-> FALSE, held |-> NoTable, alone |-> FALSE]

Blank == [status |-> "none", slug |-> NoSlug, columns |-> "none",
          cleaning |-> "none", kpis |-> NoTable]

TypeOK ==
    /\ row     \in [Datasets -> Row]
    /\ raw     \in [Slugs -> Datasets \cup {NoData}]
    /\ clean   \in [Slugs -> Tables \cup {NoTable}]
    /\ drops   \in [Datasets -> {"none", "raw", "clean", "done", "stopped"}]
    /\ work    \in [Actors -> Work]
    /\ haunted \in [Datasets -> BOOLEAN]
    /\ settled \in [Datasets -> BOOLEAN]

Init ==
    /\ row     = [d \in Datasets |-> Blank]
    /\ raw     = [s \in Slugs |-> NoData]
    /\ clean   = [s \in Slugs |-> NoTable]
    /\ drops   = [d \in Datasets |-> "none"]
    /\ work    = [a \in Actors |-> Idle]
    /\ haunted = [d \in Datasets |-> FALSE]
    /\ settled = [d \in Datasets |-> FALSE]

Exists(d) == row[d].status \notin {"none", "deleted"}
At(a, phase) == work[a].pc = phase
On(a)   == work[a].on
Slug(a) == row[On(a)].slug

(* The datasets whose tables a step for d writes to, besides its own.       *)
Heirs(d) == {e \in Datasets \ {d} : Exists(e) /\ row[e].slug = row[d].slug}

-----------------------------------------------------------------------------
(* Requests that need no work of their own.                                 *)

(* register_upload: a slug that no existing dataset has.  Which of the free  *)
(* ones depends on the file name and on what was taken when it was chosen.   *)
Upload(d, s) ==
    /\ row[d].status = "none"
    /\ \A e \in Datasets : Exists(e) => row[e].slug # s
    /\ row' = [row EXCEPT ![d] = [Blank EXCEPT !.status = "uploaded", !.slug = s]]
    /\ UNCHANGED <<raw, clean, drops, work, haunted, settled>>

(* delete_dataset: first the row and all that hangs from it ...             *)
Delete(d) ==
    /\ Exists(d)
    /\ row' = [row EXCEPT ![d] = [Blank EXCEPT !.status = "deleted", !.slug = row[d].slug]]
    /\ drops' = [drops EXCEPT ![d] = "raw"]
    /\ settled' = [settled EXCEPT ![d] = FALSE]
    /\ UNCHANGED <<raw, clean, work, haunted>>

(* Mutant: the clean table is forgotten.                                    *)
DropTableRawOnly(d) ==
    LET s == row[d].slug IN
    /\ drops[d] = "raw"
    /\ raw' = [raw EXCEPT ![s] = NoData]
    /\ drops' = [drops EXCEPT ![d] = "done"]
    /\ haunted' = [e \in Datasets |-> haunted[e] \/ e \in Heirs(d)]
    /\ UNCHANGED <<row, clean, work, settled>>

(* ... then its tables, raw and clean, each under the lock ...              *)
DropTable(d) ==
    LET s == row[d].slug IN
    /\ \/ /\ drops[d] = "raw"
          /\ raw' = [raw EXCEPT ![s] = NoData]
          /\ drops' = [drops EXCEPT ![d] = "clean"]
          /\ UNCHANGED clean
       \/ /\ drops[d] = "clean"
          /\ clean' = [clean EXCEPT ![s] = NoTable]
          /\ drops' = [drops EXCEPT ![d] = "done"]
          /\ UNCHANGED raw
    /\ haunted' = [e \in Datasets |-> haunted[e] \/ e \in Heirs(d)]
    /\ UNCHANGED <<row, work, settled>>

(* ... unless the process stops before.                                     *)
DropStops(d) ==
    /\ drops[d] \in {"raw", "clean"}
    /\ drops' = [drops EXCEPT ![d] = "stopped"]
    /\ UNCHANGED <<row, raw, clean, work, haunted, settled>>

(* recover_stalled_runs, of which only this matters here.                   *)
Recover(d) ==
    /\ row[d].status = "analyzing"
    /\ row' = [row EXCEPT ![d].status = "failed"]
    /\ UNCHANGED <<raw, clean, drops, work, haunted, settled>>
-----------------------------------------------------------------------------
(* Work: ingest jobs, clean requests and analyse requests.                  *)

Starts(a, d, w) ==
    /\ At(a, "idle")
    /\ Exists(d)
    /\ work' = [b \in Actors |->
                   IF b = a THEN w
                   ELSE [work[b] EXCEPT !.alone = @ /\ On(b) # d]]
    /\ UNCHANGED <<row, raw, clean, drops, haunted, settled>>

Unshared(d) == \A b \in Actors : On(b) # d

(* An ingest job reads the dataset: after an upload, a re-ingest or a kill.  *)
JobStarts(a, d) ==
    Starts(a, d, [Idle EXCEPT !.pc = "begin", !.on = d,
                              !.seen = row[d].status = "analyzing",
                              !.alone = Unshared(d)])

RequestClean(a, d, b) ==
    Starts(a, d, [Idle EXCEPT !.pc = "clean", !.on = d, !.dedup = b,
                              !.alone = Unshared(d)])

RequestAnalyse(a, d) == Starts(a, d, [Idle EXCEPT !.pc = "analyse", !.on = d])

Goto(a, phase) == work' = [work EXCEPT ![a].pc = phase]

(* An exception, a kill or a timeout: an open transaction is rolled back.    *)
WorkStops(a) ==
    /\ ~At(a, "idle")
    /\ work' = [work EXCEPT ![a] = Idle]
    /\ UNCHANGED <<row, raw, clean, drops, haunted, settled>>

(* A step that writes the tables of a's dataset.                            *)
WritesTables(a) ==
    haunted' = [e \in Datasets |->
                   \/ haunted[e]
                   \/ e \in Heirs(On(a))
                   \/ e = On(a) /\ ~Exists(e)]

(* The first commit of ingest_dataset.                                      *)
JobBegins(a) ==
    /\ At(a, "begin")
    /\ Exists(On(a))
    /\ row' = [row EXCEPT ![On(a)].status = IF work[a].seen THEN @ ELSE "analyzing"]
    /\ Goto(a, "loading")
    /\ UNCHANGED <<raw, clean, drops, haunted, settled>>

(* _load_raw_table, whether or not the row is still there: DROP and CREATE    *)
(* are two statements, and an error or a kill between them leaves no table.  *)
JobLoadsRaw(a) ==
    /\ At(a, "loading")
    /\ \/ /\ raw' = [raw EXCEPT ![Slug(a)] = NoData]
          /\ UNCHANGED work
       \/ /\ raw' = [raw EXCEPT ![Slug(a)] = On(a)]
          /\ Goto(a, "loaded")
    /\ WritesTables(a)
    /\ UNCHANGED <<row, clean, drops, settled>>

(* A download, parse or load error is recorded.                             *)
JobFails(a) ==
    /\ At(a, "loading")
    /\ Exists(On(a))
    /\ row' = [row EXCEPT ![On(a)].status = "failed"]
    /\ work' = [work EXCEPT ![a] = Idle]
    /\ UNCHANGED <<raw, clean, drops, haunted, settled>>

(* The last commit of ingest_dataset: new columns, without profiles or       *)
(* roles, and READY.  cleaned_at, cleaning_actions and KPIs are kept.        *)
JobCommits(a) ==
    /\ At(a, "loaded")
    /\ Exists(On(a))
    /\ row' = [row EXCEPT ![On(a)].status = "ready", ![On(a)].columns = "detected"]
    /\ work' = [b \in Actors |->
                   IF b = a THEN [work[b] EXCEPT !.pc = "clean"]
                   ELSE [work[b] EXCEPT !.stale = @ \/ On(b) = On(a)]]
    /\ settled' = [settled EXCEPT ![On(a)] = FALSE]
    /\ UNCHANGED <<raw, clean, drops, haunted>>

-----------------------------------------------------------------------------
(* clean_dataset                                                            *)

(* Mutant: the check for columns is forgotten.                              *)
CleanReadsByStatus(a) ==
    LET r == row[On(a)] IN
    /\ At(a, "clean")
    /\ r.status \in {"ready", "analyzing"}
    /\ work' = [work EXCEPT ![a].pc = "building", ![a].stale = FALSE,
                            ![a].seen = r.status = "analyzing"]
    /\ UNCHANGED <<row, raw, clean, drops, haunted, settled>>

CleanReads(a) ==
    LET r == row[On(a)] IN
    /\ At(a, "clean")
    /\ r.status \in {"ready", "analyzing"}
    /\ r.columns # "none"
    /\ work' = [work EXCEPT ![a].pc = "building", ![a].stale = FALSE,
                            ![a].seen = r.status = "analyzing"]
    /\ UNCHANGED <<row, raw, clean, drops, haunted, settled>>

(* _run_pipeline_sql: CREATE OR REPLACE, one statement.                     *)
CleanBuilds(a) ==
    /\ At(a, "building")
    /\ raw[Slug(a)] # NoData
    /\ clean' = [clean EXCEPT ![Slug(a)] =
                    [of |-> raw[Slug(a)], dedup |-> work[a].dedup]]
    /\ Goto(a, "built")
    /\ settled' = [settled EXCEPT ![On(a)] = FALSE]
    /\ WritesTables(a)
    /\ UNCHANGED <<row, raw, drops>>

(* Mutant: cleaning_actions always says that duplicates were removed.       *)
CleanCommitsSameRecord(a) ==
    LET d == On(a) IN
    /\ At(a, "built")
    /\ Exists(d)
    /\ row' = [row EXCEPT
          ![d].status   = IF work[a].seen THEN "ready" ELSE @,
          ![d].cleaning = "dedup",
          ![d].columns  = IF work[a].stale \/ @ # "detected" THEN @ ELSE "profiled"]
    /\ Goto(a, "analyse")
    /\ UNCHANGED <<raw, clean, drops, haunted, settled>>

(* Columns replaced meanwhile: the UPDATEs of the old ones match nothing.    *)
(* SQLAlchemy may notice, and raise (WorkStops), or not.                    *)
CleanCommits(a) ==
    LET d == On(a) IN
    /\ At(a, "built")
    /\ Exists(d)
    /\ row' = [row EXCEPT
          ![d].status   = IF work[a].seen THEN "ready" ELSE @,
          ![d].cleaning = IF work[a].dedup THEN "dedup" ELSE "keep",
          ![d].columns  = IF work[a].stale \/ @ # "detected" THEN @ ELSE "profiled"]
    /\ Goto(a, "analyse")
    /\ UNCHANGED <<raw, clean, drops, haunted, settled>>

(* Mutant: a dataset need not be cleaned to be analysed.                    *)
AnalyseReadsUncleaned(a) ==
    /\ At(a, "analyse")
    /\ Exists(On(a))
    /\ work' = [work EXCEPT ![a].pc = "computing",
                            ![a].stale = @ /\ a \in Workers]
    /\ UNCHANGED <<row, raw, clean, drops, haunted, settled>>

(* analyse_dataset.  A job's session still holds the dataset and the columns *)
(* that clean_dataset loaded; a request loads them again.                   *)
AnalyseReads(a) ==
    /\ At(a, "analyse")
    /\ Exists(On(a))
    /\ a \in Requests => row[On(a)].cleaning # "none"
    /\ work' = [work EXCEPT ![a].pc = "computing",
                            ![a].stale = @ /\ a \in Workers]
    /\ UNCHANGED <<row, raw, clean, drops, haunted, settled>>

(* Every KPI query, under the shared lock.  A query that fails gives null.   *)
AnalyseComputes(a) ==
    /\ At(a, "computing")
    /\ work' = [work EXCEPT ![a].pc = "computed", ![a].held = clean[Slug(a)]]
    /\ UNCHANGED <<row, raw, clean, drops, haunted, settled>>

AnalyseCommits(a) ==
    LET d == On(a) IN
    /\ At(a, "computed")
    /\ Exists(d)
    /\ row' = [row EXCEPT
          ![d].kpis    = work[a].held,
          ![d].columns = IF work[a].stale \/ @ = "none" THEN @ ELSE "classified"]
    /\ settled' = [settled EXCEPT ![d] = @ \/ work[a].alone]
    /\ work' = [work EXCEPT ![a] = Idle]
    /\ UNCHANGED <<raw, clean, drops, haunted>>

-----------------------------------------------------------------------------
JobStep(a) ==
    \/ \E d \in Datasets : JobStarts(a, d)
    \/ JobBegins(a)
    \/ JobLoadsRaw(a)
    \/ JobFails(a)
    \/ JobCommits(a)

RequestStep(a) ==
    \E d \in Datasets :
        \/ \E b \in BOOLEAN : RequestClean(a, d, b)
        \/ RequestAnalyse(a, d)

WorkStep(a) ==
    \/ CleanReads(a)
    \/ CleanBuilds(a)
    \/ CleanCommits(a)
    \/ AnalyseReads(a)
    \/ AnalyseComputes(a)
    \/ AnalyseCommits(a)
    \/ WorkStops(a)

Next ==
    \/ \E d \in Datasets, s \in Slugs : Upload(d, s)
    \/ \E d \in Datasets : Delete(d) \/ DropTable(d) \/ DropStops(d) \/ Recover(d)
    \/ \E a \in Workers : JobStep(a)
    \/ \E a \in Requests : RequestStep(a)
    \/ \E a \in Actors : WorkStep(a)

Spec == Init /\ [][Next]_vars

-----------------------------------------------------------------------------
(* Properties.                                                              *)

(* What says "cleaned" has the clean table of its own file, though the row   *)
(* and the table are written in different stores, and others may delete or   *)
(* re-ingest meanwhile: preview, KPIs and the assistant read that table by   *)
(* name.  The one exception is work for a deleted dataset of the same slug.  *)
CleanedHasTable ==
    \A d \in Datasets :
        Exists(d) /\ row[d].cleaning # "none" /\ ~haunted[d] =>
            clean[row[d].slug] # NoTable /\ clean[row[d].slug].of = d

(* The same for the numbers: KPIs are computed from the dataset's own file,  *)
(* even though a table left over by another dataset may bear its slug.       *)
KpisAreOwn ==
    \A d \in Datasets :
        row[d].kpis # NoTable /\ ~haunted[d] => row[d].kpis.of = d

(* "Leaving the old numbers in place would show figures that no longer match *)
(* the data": after a cleaning that had the dataset to itself, the table,    *)
(* the record of it, the KPIs and the columns tell the same story, and go on *)
(* doing so until the next cleaning or ingestion.                           *)
SettledIsConsistent ==
    \A d \in Datasets :
        settled[d] /\ ~haunted[d] =>
            /\ row[d].kpis = clean[row[d].slug]
            /\ row[d].kpis # NoTable
            /\ row[d].cleaning = IF row[d].kpis.dedup THEN "dedup" ELSE "keep"
            /\ row[d].columns = "classified"

(* A finished delete leaves no table with the dataset's data, raw or clean,  *)
(* unless work for it was still under way and wrote one.                    *)
DeleteLeavesNothing ==
    \A d \in Datasets :
        drops[d] = "done" /\ ~haunted[d] =>
            \A s \in Slugs : raw[s] # d /\ (clean[s] # NoTable => clean[s].of # d)

-----------------------------------------------------------------------------
(* Why these hold: an inductive invariant.  The tables of a dataset are      *)
(* spoken for while its row is there and nothing else has touched them.      *)

Trusted(d) == Exists(d) /\ ~haunted[d]

(* raw.<slug> is missing while a re-ingest replaces it.                      *)
RawIsOwn(d)   == raw[row[d].slug] \in {d, NoData}
CleanIsOwn(d) == clean[row[d].slug] # NoTable /\ clean[row[d].slug].of = d

(* Every row has a slug, and existing rows have different ones.              *)
NamesAreTaken ==
    /\ \A d \in Datasets : row[d].status = "none" <=> row[d].slug = NoSlug
    /\ \A d, e \in Datasets :
          d # e /\ Exists(d) /\ Exists(e) => row[d].slug # row[e].slug

(* What a row says of its tables.                                           *)
RowsAreBacked ==
    \A d \in Datasets :
        /\ ~Exists(d) => row[d].kpis = NoTable
        /\ Trusted(d) =>
              /\ row[d].columns # "none" => RawIsOwn(d)
              /\ row[d].cleaning # "none" => CleanIsOwn(d)
              /\ row[d].kpis # NoTable => row[d].kpis.of = d

(* What work relies on: that it loaded the raw table or has seen its columns, *)
(* and that it built the clean one or has seen cleaned_at.                   *)
Backed(a, w) ==
    /\ w.on \in Datasets
    /\ row[w.on].status # "none"
    /\ Trusted(w.on) =>
          /\ w.pc \in {"loaded", "building"} => RawIsOwn(w.on)
          /\ \/ w.pc \in {"built", "computing", "computed"}
             \/ w.pc = "analyse" /\ a \in Workers
             => CleanIsOwn(w.on)
          /\ w.pc = "computed" /\ w.held # NoTable => w.held.of = w.on

WorkIsBacked == \A a \in Actors : ~At(a, "idle") => Backed(a, work[a])

(* Data stays under the slug of the dataset it came from, and what a delete  *)
(* has dropped does not come back by itself.                                *)
DroppedIsGone ==
    /\ \A s \in Slugs :
          /\ raw[s] # NoData => row[raw[s]].slug = s
          /\ clean[s] # NoTable => row[clean[s].of].slug = s
    /\ \A d \in Datasets :
          /\ drops[d] # "none" => row[d].status = "deleted"
          /\ drops[d] \in {"clean", "done"} /\ ~haunted[d] => raw[row[d].slug] # d
          /\ drops[d] = "done" /\ ~haunted[d] /\ clean[row[d].slug] # NoTable =>
                clean[row[d].slug].of # d

IInv == /\ TypeOK
        /\ NamesAreTaken
        /\ RowsAreBacked
        /\ WorkIsBacked
        /\ DroppedIsGone

-----------------------------------------------------------------------------
(* What the comments say and the code does not do.                          *)

(* preview_dataset: the rows of a READY dataset come from its clean table,   *)
(* if it has been cleaned, else from its raw one.                           *)
Usable(d) ==
    /\ row[d].status = "ready"
    /\ IF row[d].cleaning # "none" THEN CleanIsOwn(d) ELSE raw[row[d].slug] = d

(* delete_dataset: "the row is gone first, so a failure here leaves          *)
(* recoverable orphans rather than a dataset the user can see but no longer  *)
(* use".  So dropping tables never takes a dataset's data from under it.     *)
DeleteSparesSuccessors ==
    [][\A d, e \in Datasets : DropTable(d) /\ Usable(e) => Usable(e)']_vars
=============================================================================

------------------------- MODULE DatasetStoreProofs -------------------------
(***************************************************************************)
(* Proofs about DatasetStore, for any set of datasets, slugs, jobs and     *)
(* requests.                                                               *)
(*                                                                         *)
(* The invariant IInv follows the data: a job's raw table is the source of *)
(* the clean table of the cleaning behind it, and that of the numbers.     *)
(* Slugs of existing datasets differ, so only work for a deleted dataset   *)
(* can reach another's tables, and haunted says where it has.              *)
(***************************************************************************)
EXTENDS DatasetStore, TLAPS

USE NamesAssumption
    DEF Exists, At, On, Slug, Heirs, Goto, Trusted, RawIsOwn, CleanIsOwn

(* The initial state satisfies the invariant.                              *)
LEMMA InitIInv == Init => IInv
  BY DEF Init, IInv, TypeOK, NamesAreTaken, RowsAreBacked, WorkIsBacked,
         DroppedIsGone, Row, RowStatus, Blank, Work, Idle, Tables

-----------------------------------------------------------------------------
(* Two frames: most steps change neither table, and one row at most.       *)

(* b says no more than it said before.                                     *)
ClaimsTheSame(b) ==
    /\ work'[b].pc   = work[b].pc
    /\ work'[b].on   = work[b].on
    /\ work'[b].held = work[b].held

(* A step that leaves rows and tables alone: each actor claims what it did *)
(* before, or nothing, or what is true.                                    *)
LEMMA WorkMoves ==
    ASSUME IInv,
           work' \in [Actors -> Work],
           \A b \in Actors :
              ClaimsTheSame(b) \/ work'[b].pc = "idle" \/ Backed(b, work'[b]),
           UNCHANGED <<row, raw, clean, drops, haunted, settled>>
    PROVE  IInv'
<1>1. TypeOK'
  BY DEF IInv, TypeOK
<1>2. NamesAreTaken'
  BY DEF IInv, NamesAreTaken
<1>3. RowsAreBacked'
  BY DEF IInv, RowsAreBacked
<1>4. WorkIsBacked'
  <2> SUFFICES ASSUME NEW b \in Actors, work'[b].pc # "idle"
               PROVE  Backed(b, work[b])'
    BY DEF WorkIsBacked
  <2>1. CASE ClaimsTheSame(b)
    BY <2>1 DEF IInv, WorkIsBacked, Backed, ClaimsTheSame
  <2>2. CASE Backed(b, work'[b])
    BY <2>2 DEF Backed
  <2> QED BY <2>1, <2>2
<1>5. DroppedIsGone'
  BY DEF IInv, DroppedIsGone
<1> QED BY <1>1, <1>2, <1>3, <1>4, <1>5 DEF IInv

(* A commit: the row of one dataset changes, to one that is backed.        *)
LEMMA RowChanges ==
    ASSUME IInv,
           NEW d \in Datasets, NEW r \in Row,
           Exists(d),
           row' = [row EXCEPT ![d] = r],
           r.slug = row[d].slug,
           r.status \notin {"none", "deleted"},
           ~haunted[d] => /\ r.columns # "none" => RawIsOwn(d)
                          /\ r.cleaning # "none" => CleanIsOwn(d)
                          /\ r.kpis # NoTable => r.kpis.of = d,
           work' \in [Actors -> Work],
           \A b \in Actors :
              ClaimsTheSame(b) \/ work'[b].pc = "idle" \/ Backed(b, work'[b]),
           settled' \in [Datasets -> BOOLEAN],
           UNCHANGED <<raw, clean, drops, haunted>>
    PROVE  IInv'
<1>0. \A e \in Datasets :
         /\ row'[e].slug = row[e].slug
         /\ row'[e].status = "none" <=> row[e].status = "none"
         /\ row'[e].status = "deleted" <=> row[e].status = "deleted"
  BY DEF IInv, TypeOK
<1>1. TypeOK'
  BY DEF IInv, TypeOK
<1>2. NamesAreTaken'
  BY <1>0 DEF IInv, NamesAreTaken
<1>3. RowsAreBacked'
  BY <1>0 DEF IInv, TypeOK, RowsAreBacked
<1>4. WorkIsBacked'
  <2> SUFFICES ASSUME NEW b \in Actors, work'[b].pc # "idle"
               PROVE  Backed(b, work[b])'
    BY DEF WorkIsBacked
  <2>1. CASE ClaimsTheSame(b)
    BY <1>0, <2>1 DEF IInv, WorkIsBacked, Backed, ClaimsTheSame
  <2>2. CASE Backed(b, work'[b])
    BY <1>0, <2>2 DEF Backed
  <2> QED BY <2>1, <2>2
<1>5. DroppedIsGone'
  BY <1>0 DEF IInv, TypeOK, DroppedIsGone, Tables
<1> QED BY <1>1, <1>2, <1>3, <1>4, <1>5 DEF IInv

-----------------------------------------------------------------------------
(* Steps that only move work.                                              *)

(* A job or request starts; the others merely lose their solitude.         *)
LEMMA StartsStep ==
    ASSUME IInv, NEW a \in Actors, NEW d \in Datasets, NEW w \in Work,
           w.pc \in {"begin", "clean", "analyse"}, w.on = d,
           w.pc = "analyse" => a \notin Workers,
           Starts(a, d, w)
    PROVE  IInv'
<1>1. work' \in [Actors -> Work]
  <2>1. \A b \in Actors : [work[b] EXCEPT !.alone = @ /\ work[b].on # d] \in Work
    BY DEF IInv, TypeOK, Work
  <2> QED BY <2>1 DEF Starts
<1>2. \A b \in Actors : b # a => ClaimsTheSame(b)
  BY DEF Starts, ClaimsTheSame, IInv, TypeOK, Work
<1>3. Backed(a, work'[a])
  BY DEF Starts, Backed
<1> QED BY <1>1, <1>2, <1>3, WorkMoves DEF Starts

LEMMA JobStartsStep ==
    ASSUME IInv, NEW a \in Workers, NEW d \in Datasets, JobStarts(a, d)
    PROVE  IInv'
<1> DEFINE w == [Idle EXCEPT !.pc = "begin", !.on = d,
                             !.seen = row[d].status = "analyzing",
                             !.alone = Unshared(d)]
<1>1. w \in Work /\ w.pc = "begin" /\ w.on = d
  BY DEF Work, Idle, JobPhases, Unshared
<1> QED BY <1>1, StartsStep DEF JobStarts, Actors

LEMMA RequestStarts ==
    ASSUME IInv, NEW a \in Requests, RequestStep(a)
    PROVE  IInv'
<1>1. ASSUME NEW d \in Datasets, NEW b \in BOOLEAN, RequestClean(a, d, b)
      PROVE  IInv'
  <2> DEFINE w == [Idle EXCEPT !.pc = "clean", !.on = d, !.dedup = b,
                               !.alone = Unshared(d)]
  <2>1. w \in Work /\ w.pc = "clean" /\ w.on = d
    BY DEF Work, Idle, CleanPhases, Unshared
  <2> QED BY <1>1, <2>1, StartsStep DEF RequestClean, Actors
<1>2. ASSUME NEW d \in Datasets, RequestAnalyse(a, d)
      PROVE  IInv'
  <2> DEFINE w == [Idle EXCEPT !.pc = "analyse", !.on = d]
  <2>1. w \in Work /\ w.pc = "analyse" /\ w.on = d
    BY DEF Work, Idle, AnalysePhases
  <2>2. a \notin Workers
    OBVIOUS
  <2> QED BY <1>2, <2>1, <2>2, StartsStep DEF RequestAnalyse, Actors
<1> QED BY <1>1, <1>2 DEF RequestStep

LEMMA WorkStopsStep ==
    ASSUME IInv, NEW a \in Actors, WorkStops(a)
    PROVE  IInv'
<1>1. Idle \in Work /\ Idle.pc = "idle"
  BY DEF Idle, Work
<1>2. work' \in [Actors -> Work] /\ work'[a].pc = "idle"
  BY <1>1 DEF WorkStops, IInv, TypeOK
<1>3. \A b \in Actors : b # a => ClaimsTheSame(b)
  BY DEF WorkStops, ClaimsTheSame, IInv, TypeOK
<1> QED BY <1>2, <1>3, WorkMoves DEF WorkStops

(* Having seen columns, a cleaning may rely on the raw table.              *)
LEMMA CleanReadsStep ==
    ASSUME IInv, NEW a \in Actors, CleanReads(a)
    PROVE  IInv'
<1> DEFINE w == [work[a] EXCEPT !.pc = "building", !.stale = FALSE,
                                !.seen = row[On(a)].status = "analyzing"]
<1>1. w \in Work /\ w.pc = "building" /\ w.on = On(a)
  <2>1. work[a] \in Work
    BY DEF IInv, TypeOK
  <2>2. w \in Work
    BY <2>1 DEF Work, CleanPhases, Actors
  <2>3. w.pc = "building" /\ w.on = On(a)
    BY <2>1 DEF Work
  <2> QED BY <2>2, <2>3
<1>2. work' = [work EXCEPT ![a] = w]
  BY DEF CleanReads, IInv, TypeOK
<1> HIDE DEF w
<1>3. work' \in [Actors -> Work] /\ \A b \in Actors : b # a => ClaimsTheSame(b)
  BY <1>1, <1>2 DEF IInv, TypeOK, ClaimsTheSame
<1>4. Backed(a, w)
  BY <1>1 DEF CleanReads, IInv, WorkIsBacked, RowsAreBacked, Backed
<1> QED BY <1>2, <1>3, <1>4, WorkMoves DEF CleanReads, IInv, TypeOK

(* Having seen cleaned_at, an analysis may rely on the clean table; a job   *)
(* has just cleaned.                                                       *)
LEMMA AnalyseReadsStep ==
    ASSUME IInv, NEW a \in Actors, AnalyseReads(a)
    PROVE  IInv'
<1> DEFINE w == [work[a] EXCEPT !.pc = "computing", !.stale = @ /\ a \in Workers]
<1>1. w \in Work /\ w.pc = "computing" /\ w.on = On(a)
  <2>1. work[a] \in Work
    BY DEF IInv, TypeOK
  <2>2. w \in Work
    BY <2>1 DEF Work, AnalysePhases, Actors
  <2>3. w.pc = "computing" /\ w.on = On(a)
    BY <2>1 DEF Work
  <2> QED BY <2>2, <2>3
<1>2. work' = [work EXCEPT ![a] = w]
  BY DEF AnalyseReads, IInv, TypeOK
<1> HIDE DEF w
<1>3. work' \in [Actors -> Work] /\ \A b \in Actors : b # a => ClaimsTheSame(b)
  BY <1>1, <1>2 DEF IInv, TypeOK, ClaimsTheSame
<1>4. Backed(a, w)
  BY <1>1 DEF AnalyseReads, IInv, WorkIsBacked, RowsAreBacked, Backed, Actors
<1> QED BY <1>2, <1>3, <1>4, WorkMoves DEF AnalyseReads, IInv, TypeOK

LEMMA AnalyseComputesStep ==
    ASSUME IInv, NEW a \in Actors, AnalyseComputes(a)
    PROVE  IInv'
<1> DEFINE w == [work[a] EXCEPT !.pc = "computed", !.held = clean[Slug(a)]]
<1>0. /\ On(a) \in Datasets
      /\ row[On(a)].slug \in Slugs
      /\ clean[Slug(a)] \in Tables \cup {NoTable}
  BY DEF AnalyseComputes, IInv, TypeOK, WorkIsBacked, Backed, NamesAreTaken, Row
<1>1. w \in Work /\ w.pc = "computed" /\ w.on = On(a) /\ w.held = clean[Slug(a)]
  <2>1. work[a] \in Work
    BY DEF IInv, TypeOK
  <2>2. w \in Work
    BY <1>0, <2>1 DEF Work, AnalysePhases, Actors
  <2>3. w.pc = "computed" /\ w.on = On(a) /\ w.held = clean[Slug(a)]
    BY <2>1 DEF Work
  <2> QED BY <2>2, <2>3
<1>2. work' = [work EXCEPT ![a] = w]
  BY DEF AnalyseComputes, IInv, TypeOK
<1> HIDE DEF w
<1>3. work' \in [Actors -> Work] /\ \A b \in Actors : b # a => ClaimsTheSame(b)
  BY <1>1, <1>2 DEF IInv, TypeOK, ClaimsTheSame
<1>4. Backed(a, w)
  BY <1>1 DEF AnalyseComputes, IInv, WorkIsBacked, Backed
<1> QED BY <1>2, <1>3, <1>4, WorkMoves DEF AnalyseComputes, IInv, TypeOK

-----------------------------------------------------------------------------
(* Commits.                                                                *)

(* The first commit of a job.                                              *)
LEMMA JobBeginsStep ==
    ASSUME IInv, NEW a \in Workers, JobBegins(a)
    PROVE  IInv'
<1> DEFINE d == On(a)
           r == [row[d] EXCEPT !.status = IF work[a].seen THEN @ ELSE "analyzing"]
           w == [work[a] EXCEPT !.pc = "loading"]
<1>1. /\ a \in Actors /\ d \in Datasets /\ Exists(d)
      /\ row[d] \in Row /\ work[a] \in Work
      /\ work[a].pc = "begin" /\ Backed(a, work[a])
  BY DEF JobBegins, IInv, TypeOK, WorkIsBacked, Backed, Actors
<1>2. r \in Row
  BY <1>1 DEF Row, RowStatus
<1>3. /\ r.slug = row[d].slug /\ r.columns = row[d].columns
      /\ r.cleaning = row[d].cleaning /\ r.kpis = row[d].kpis
      /\ r.status \notin {"none", "deleted"}
  BY <1>1 DEF Row, RowStatus
<1>4. row' = [row EXCEPT ![d] = r]
  BY <1>1 DEF JobBegins, IInv, TypeOK
<1>5. w \in Work /\ w.pc = "loading" /\ w.on = d
  BY <1>1 DEF Work, Idle, JobPhases, Actors
<1>6. work' = [work EXCEPT ![a] = w]
  BY <1>1 DEF JobBegins, IInv, TypeOK
<1> HIDE DEF r, w
<1>7. work' \in [Actors -> Work] /\ \A b \in Actors : b # a => ClaimsTheSame(b)
  BY <1>1, <1>5, <1>6 DEF IInv, TypeOK, ClaimsTheSame
<1>8. work'[a].pc = "idle" \/ Backed(a, work'[a])
  BY <1>1, <1>5, <1>6 DEF IInv, TypeOK, Backed
<1>9. ~haunted[d] => /\ r.columns # "none" => RawIsOwn(d)
                     /\ r.cleaning # "none" => CleanIsOwn(d)
                     /\ r.kpis # NoTable => r.kpis.of = d
  BY <1>1, <1>3 DEF IInv, RowsAreBacked, Backed
<1>10. UNCHANGED <<raw, clean, drops, haunted>> /\ settled' \in [Datasets -> BOOLEAN]
  BY <1>1 DEF JobBegins, IInv, TypeOK, Work
<1> HIDE DEF d
<1> QED BY <1>1, <1>2, <1>3, <1>4, <1>7, <1>8, <1>9, <1>10, RowChanges

(* The commit of a failure.                                                *)
LEMMA JobFailsStep ==
    ASSUME IInv, NEW a \in Workers, JobFails(a)
    PROVE  IInv'
<1> DEFINE d == On(a)
           r == [row[d] EXCEPT !.status = "failed"]
           w == Idle
<1>1. /\ a \in Actors /\ d \in Datasets /\ Exists(d)
      /\ row[d] \in Row /\ work[a] \in Work
      /\ work[a].pc = "loading" /\ Backed(a, work[a])
  BY DEF JobFails, IInv, TypeOK, WorkIsBacked, Backed, Actors
<1>2. r \in Row
  BY <1>1 DEF Row, RowStatus
<1>3. /\ r.slug = row[d].slug /\ r.columns = row[d].columns
      /\ r.cleaning = row[d].cleaning /\ r.kpis = row[d].kpis
      /\ r.status \notin {"none", "deleted"}
  BY <1>1 DEF Row, RowStatus
<1>4. row' = [row EXCEPT ![d] = r]
  BY <1>1 DEF JobFails, IInv, TypeOK
<1>5. w \in Work /\ w.pc = "idle"
  BY <1>1 DEF Work, Idle, JobPhases, Actors
<1>6. work' = [work EXCEPT ![a] = w]
  BY <1>1 DEF JobFails, IInv, TypeOK
<1> HIDE DEF r, w
<1>7. work' \in [Actors -> Work] /\ \A b \in Actors : b # a => ClaimsTheSame(b)
  BY <1>1, <1>5, <1>6 DEF IInv, TypeOK, ClaimsTheSame
<1>8. work'[a].pc = "idle" \/ Backed(a, work'[a])
  BY <1>1, <1>5, <1>6 DEF IInv, TypeOK, Backed
<1>9. ~haunted[d] => /\ r.columns # "none" => RawIsOwn(d)
                     /\ r.cleaning # "none" => CleanIsOwn(d)
                     /\ r.kpis # NoTable => r.kpis.of = d
  BY <1>1, <1>3 DEF IInv, RowsAreBacked, Backed
<1>10. UNCHANGED <<raw, clean, drops, haunted>> /\ settled' \in [Datasets -> BOOLEAN]
  BY <1>1 DEF JobFails, IInv, TypeOK, Work
<1> HIDE DEF d
<1> QED BY <1>1, <1>2, <1>3, <1>4, <1>7, <1>8, <1>9, <1>10, RowChanges

(* The record of a cleaning: the table it built is there.                  *)
LEMMA CleanCommitsStep ==
    ASSUME IInv, NEW a \in Actors, CleanCommits(a)
    PROVE  IInv'
<1> DEFINE d == On(a)
           r == [row[d] EXCEPT
              !.status   = IF work[a].seen THEN "ready" ELSE @,
              !.cleaning = IF work[a].dedup THEN "dedup" ELSE "keep",
              !.columns  = IF work[a].stale \/ @ # "detected" THEN @ ELSE "profiled"]
           w == [work[a] EXCEPT !.pc = "analyse"]
<1>1. /\ a \in Actors /\ d \in Datasets /\ Exists(d)
      /\ row[d] \in Row /\ work[a] \in Work
      /\ work[a].pc = "built" /\ Backed(a, work[a])
  BY DEF CleanCommits, IInv, TypeOK, WorkIsBacked, Backed, Actors
<1>2. r \in Row
  BY <1>1 DEF Row, RowStatus
<1>3. /\ r.slug = row[d].slug /\ r.kpis = row[d].kpis
      /\ r.columns = "none" <=> row[d].columns = "none"
      /\ r.status \notin {"none", "deleted"}
  BY <1>1 DEF Row, RowStatus
<1>4. row' = [row EXCEPT ![d] = r]
  BY <1>1 DEF CleanCommits, IInv, TypeOK
<1>5. w \in Work /\ w.pc = "analyse" /\ w.on = d
  BY <1>1 DEF Work, Idle, AnalysePhases, Actors
<1>6. work' = [work EXCEPT ![a] = w]
  BY <1>1 DEF CleanCommits, IInv, TypeOK
<1> HIDE DEF r, w
<1>7. work' \in [Actors -> Work] /\ \A b \in Actors : b # a => ClaimsTheSame(b)
  BY <1>1, <1>5, <1>6 DEF IInv, TypeOK, ClaimsTheSame
<1>8. work'[a].pc = "idle" \/ Backed(a, work'[a])
  BY <1>1, <1>5, <1>6 DEF IInv, TypeOK, Backed
<1>9. ~haunted[d] => /\ r.columns # "none" => RawIsOwn(d)
                     /\ r.cleaning # "none" => CleanIsOwn(d)
                     /\ r.kpis # NoTable => r.kpis.of = d
  BY <1>1, <1>3 DEF IInv, RowsAreBacked, Backed
<1>10. UNCHANGED <<raw, clean, drops, haunted>> /\ settled' \in [Datasets -> BOOLEAN]
  BY <1>1 DEF CleanCommits, IInv, TypeOK, Work
<1> HIDE DEF d
<1> QED BY <1>1, <1>2, <1>3, <1>4, <1>7, <1>8, <1>9, <1>10, RowChanges

(* The numbers, from a clean table that was its own.                       *)
LEMMA AnalyseCommitsStep ==
    ASSUME IInv, NEW a \in Actors, AnalyseCommits(a)
    PROVE  IInv'
<1> DEFINE d == On(a)
           r == [row[d] EXCEPT
              !.kpis    = work[a].held,
              !.columns = IF work[a].stale \/ @ = "none" THEN @ ELSE "classified"]
           w == Idle
<1>1. /\ a \in Actors /\ d \in Datasets /\ Exists(d)
      /\ row[d] \in Row /\ work[a] \in Work
      /\ work[a].pc = "computed" /\ Backed(a, work[a])
  BY DEF AnalyseCommits, IInv, TypeOK, WorkIsBacked, Backed, Actors
<1>2. r \in Row
  BY <1>1 DEF Row, RowStatus, Work
<1>3. /\ r.slug = row[d].slug /\ r.kpis = work[a].held
      /\ r.cleaning = row[d].cleaning
      /\ r.columns = "none" <=> row[d].columns = "none"
      /\ r.status \notin {"none", "deleted"}
  BY <1>1 DEF Row, RowStatus
<1>4. row' = [row EXCEPT ![d] = r]
  BY <1>1 DEF AnalyseCommits, IInv, TypeOK
<1>5. w \in Work /\ w.pc = "idle"
  BY <1>1 DEF Work, Idle, AnalysePhases, Actors
<1>6. work' = [work EXCEPT ![a] = w]
  BY <1>1 DEF AnalyseCommits, IInv, TypeOK
<1> HIDE DEF r, w
<1>7. work' \in [Actors -> Work] /\ \A b \in Actors : b # a => ClaimsTheSame(b)
  BY <1>1, <1>5, <1>6 DEF IInv, TypeOK, ClaimsTheSame
<1>8. work'[a].pc = "idle" \/ Backed(a, work'[a])
  BY <1>1, <1>5, <1>6 DEF IInv, TypeOK, Backed
<1>9. ~haunted[d] => /\ r.columns # "none" => RawIsOwn(d)
                     /\ r.cleaning # "none" => CleanIsOwn(d)
                     /\ r.kpis # NoTable => r.kpis.of = d
  BY <1>1, <1>3 DEF IInv, RowsAreBacked, Backed
<1>10. UNCHANGED <<raw, clean, drops, haunted>> /\ settled' \in [Datasets -> BOOLEAN]
  BY <1>1 DEF AnalyseCommits, IInv, TypeOK, Work
<1> HIDE DEF d
<1> QED BY <1>1, <1>2, <1>3, <1>4, <1>7, <1>8, <1>9, <1>10, RowChanges

(* The last commit of ingest_dataset: the columns are those of the table     *)
(* that the job loaded.  Others learn that theirs are replaced.             *)
LEMMA JobCommitsStep ==
    ASSUME IInv, NEW a \in Workers, JobCommits(a)
    PROVE  IInv'
<1> DEFINE d == On(a)
           r == [row[d] EXCEPT !.status = "ready", !.columns = "detected"]
<1>1. /\ a \in Actors /\ d \in Datasets /\ Exists(d) /\ row[d] \in Row
      /\ work[a].pc = "loaded" /\ Backed(a, work[a])
  BY DEF JobCommits, IInv, TypeOK, WorkIsBacked, Backed, Actors
<1>2. r \in Row
  BY <1>1 DEF Row, RowStatus
<1>3. /\ r.slug = row[d].slug /\ r.cleaning = row[d].cleaning
      /\ r.kpis = row[d].kpis /\ r.status \notin {"none", "deleted"}
  BY <1>1 DEF Row
<1>4. row' = [row EXCEPT ![d] = r]
  BY <1>1 DEF JobCommits, IInv, TypeOK
<1> HIDE DEF r
<1>5. work' \in [Actors -> Work]
  <2>1. \A b \in Actors : [work[b] EXCEPT !.pc = "clean"] \in Work
    BY DEF IInv, TypeOK, Work, CleanPhases
  <2>2. \A b \in Actors : [work[b] EXCEPT !.stale = @ \/ work[b].on = work[a].on] \in Work
    <3>1. \A b \in Actors, x \in BOOLEAN : [work[b] EXCEPT !.stale = x] \in Work
      BY DEF IInv, TypeOK, Work
    <3>2. \A b \in Actors : (work[b].stale \/ work[b].on = work[a].on) \in BOOLEAN
      OBVIOUS
    <3> QED BY <3>1, <3>2
  <2> QED BY <2>1, <2>2 DEF JobCommits
<1>6. \A b \in Actors : b # a => ClaimsTheSame(b)
  BY DEF JobCommits, ClaimsTheSame, IInv, TypeOK, Work
<1>7. work'[a].pc = "clean" /\ work'[a].on = d
  BY <1>1 DEF JobCommits, IInv, TypeOK, Work
<1>8. Backed(a, work'[a])
  BY <1>1, <1>7 DEF Backed
<1>9. ~haunted[d] => /\ r.columns # "none" => RawIsOwn(d)
                     /\ r.cleaning # "none" => CleanIsOwn(d)
                     /\ r.kpis # NoTable => r.kpis.of = d
  BY <1>1, <1>3 DEF IInv, RowsAreBacked, Backed
<1>10. UNCHANGED <<raw, clean, drops, haunted>> /\ settled' \in [Datasets -> BOOLEAN]
  BY <1>1 DEF JobCommits, IInv, TypeOK
<1> HIDE DEF d
<1> QED BY <1>1, <1>2, <1>3, <1>4, <1>5, <1>6, <1>8, <1>9, <1>10, RowChanges

(* Recovery touches the status only.                                       *)
LEMMA RecoverStep ==
    ASSUME IInv, NEW d \in Datasets, Recover(d)
    PROVE  IInv'
<1> DEFINE r == [row[d] EXCEPT !.status = "failed"]
<1>1. row[d] \in Row /\ row[d].status = "analyzing"
  BY DEF Recover, IInv, TypeOK
<1>2. r \in Row
  BY <1>1 DEF Row, RowStatus
<1>3. /\ r.slug = row[d].slug /\ r.columns = row[d].columns
      /\ r.cleaning = row[d].cleaning /\ r.kpis = row[d].kpis
      /\ r.status \notin {"none", "deleted"}
  BY <1>1 DEF Row
<1>4. row' = [row EXCEPT ![d] = r]
  BY <1>1 DEF Recover, IInv, TypeOK
<1> HIDE DEF r
<1>5. ~haunted[d] => /\ r.columns # "none" => RawIsOwn(d)
                     /\ r.cleaning # "none" => CleanIsOwn(d)
                     /\ r.kpis # NoTable => r.kpis.of = d
  BY <1>1, <1>3 DEF IInv, RowsAreBacked
<1>6. work' \in [Actors -> Work] /\ \A b \in Actors : ClaimsTheSame(b)
  BY DEF Recover, ClaimsTheSame, IInv, TypeOK
<1>7. UNCHANGED <<raw, clean, drops, haunted>> /\ settled' \in [Datasets -> BOOLEAN]
  BY DEF Recover, IInv, TypeOK
<1> QED BY <1>1, <1>2, <1>3, <1>4, <1>5, <1>6, <1>7, RowChanges

-----------------------------------------------------------------------------
(* Rows come and go.                                                       *)

(* An upload takes a slug that no existing dataset has.                    *)
LEMMA UploadStep ==
    ASSUME IInv, NEW d \in Datasets, NEW s \in Slugs, Upload(d, s)
    PROVE  IInv'
<1> DEFINE r == [Blank EXCEPT !.status = "uploaded", !.slug = s]
<1>1. /\ r \in Row /\ r.status = "uploaded" /\ r.slug = s
      /\ r.columns = "none" /\ r.cleaning = "none" /\ r.kpis = NoTable
  BY DEF Row, RowStatus, Blank
<1>2. row' = [row EXCEPT ![d] = r]
  BY DEF Upload
<1> HIDE DEF r
<1>3. TypeOK'
  BY <1>1, <1>2 DEF Upload, IInv, TypeOK
<1>4. NamesAreTaken'
  BY <1>1, <1>2 DEF Upload, IInv, TypeOK, NamesAreTaken
<1>5. RowsAreBacked'
  <2>1. \A e \in Datasets : row'[e] = IF e = d THEN r ELSE row[e]
    BY <1>2 DEF IInv, TypeOK
  <2>2. UNCHANGED <<raw, clean, haunted>>
    BY DEF Upload
  <2> QED BY <1>1, <2>1, <2>2 DEF IInv, RowsAreBacked
<1>6. WorkIsBacked'
  BY <1>1, <1>2 DEF Upload, IInv, TypeOK, WorkIsBacked, Backed
<1>7. DroppedIsGone'
  BY <1>1, <1>2 DEF Upload, IInv, TypeOK, NamesAreTaken, DroppedIsGone, Tables
<1> QED BY <1>3, <1>4, <1>5, <1>6, <1>7 DEF IInv

(* A deleted row keeps its slug, and nothing else.                         *)
LEMMA DeleteStep ==
    ASSUME IInv, NEW d \in Datasets, Delete(d)
    PROVE  IInv'
<1> DEFINE r == [Blank EXCEPT !.status = "deleted", !.slug = row[d].slug]
<1>1. /\ r \in Row /\ r.status = "deleted" /\ r.slug = row[d].slug /\ r.kpis = NoTable
  BY DEF Delete, IInv, TypeOK, Row, RowStatus, Blank
<1>2. row' = [row EXCEPT ![d] = r]
  BY DEF Delete
<1> HIDE DEF r
<1>3. TypeOK'
  BY <1>1, <1>2 DEF Delete, IInv, TypeOK
<1>4. NamesAreTaken'
  BY <1>1, <1>2 DEF Delete, IInv, TypeOK, NamesAreTaken
<1>5. RowsAreBacked'
  <2>1. \A e \in Datasets : row'[e] = IF e = d THEN r ELSE row[e]
    BY <1>2 DEF IInv, TypeOK
  <2>2. UNCHANGED <<raw, clean, haunted>>
    BY DEF Delete
  <2> QED BY <1>1, <2>1, <2>2 DEF IInv, RowsAreBacked
<1>6. WorkIsBacked'
  BY <1>1, <1>2 DEF Delete, IInv, TypeOK, WorkIsBacked, Backed
<1>7. DroppedIsGone'
  BY <1>1, <1>2 DEF Delete, IInv, TypeOK, DroppedIsGone, Tables
<1> QED BY <1>3, <1>4, <1>5, <1>6, <1>7 DEF IInv

-----------------------------------------------------------------------------
(* Steps that touch tables.  Those of a trusted dataset are out of reach    *)
(* for work on any other.                                                  *)

(* Dropping the tables of a deleted dataset.                               *)
LEMMA DropTableStep ==
    ASSUME IInv, NEW d \in Datasets, DropTable(d)
    PROVE  IInv'
<1> DEFINE s == row[d].slug
<1>1. /\ row[d].status = "deleted" /\ s \in Slugs
      /\ UNCHANGED <<row, work, settled>>
  BY DEF DropTable, IInv, TypeOK, NamesAreTaken, DroppedIsGone, Row
<1>2. \A e \in Datasets : Exists(e) /\ row[e].slug = s => haunted'[e]
  BY <1>1 DEF DropTable, IInv, TypeOK
<1>10. \A e \in Datasets : ~haunted'[e] => ~haunted[e]
  BY DEF DropTable, IInv, TypeOK
<1>3. haunted' \in [Datasets -> BOOLEAN]
  BY DEF DropTable
<1>4. \A e \in Datasets : Trusted(e)' =>
         /\ Trusted(e)
         /\ raw'[row[e].slug] = raw[row[e].slug]
         /\ clean'[row[e].slug] = clean[row[e].slug]
  BY <1>1, <1>2, <1>10 DEF DropTable, IInv, TypeOK, NamesAreTaken, Row
<1>5. TypeOK'
  BY <1>1, <1>3 DEF DropTable, IInv, TypeOK
<1>6. NamesAreTaken'
  BY <1>1 DEF IInv, NamesAreTaken
<1>7. RowsAreBacked'
  BY <1>1, <1>4 DEF IInv, RowsAreBacked
<1>8. WorkIsBacked'
  BY <1>1, <1>4 DEF IInv, WorkIsBacked, Backed
<1>9. DroppedIsGone'
  <2>1. \A t \in Slugs :
           /\ raw'[t] # NoData => row'[raw'[t]].slug = t
           /\ clean'[t] # NoTable => row'[clean'[t].of].slug = t
    BY <1>1 DEF DropTable, IInv, TypeOK, DroppedIsGone
  <2>2. ASSUME NEW e \in Datasets
        PROVE  /\ drops'[e] # "none" => row'[e].status = "deleted"
               /\ drops'[e] \in {"clean", "done"} /\ ~haunted'[e]
                     => raw'[row'[e].slug] # e
               /\ drops'[e] = "done" /\ ~haunted'[e] /\ clean'[row'[e].slug] # NoTable
                     => clean'[row'[e].slug].of # e
    <3>1. ~haunted'[e] => ~haunted[e]
      BY <1>10
    <3>2. row[e].slug = NoSlug \/ row[e].slug \in Slugs
      BY DEF IInv, TypeOK, Row
    <3>3. drops[e] # "none" => row[e].slug \in Slugs
      BY <3>2 DEF IInv, NamesAreTaken, DroppedIsGone
    <3> QED BY <1>1, <3>1, <3>3 DEF DropTable, IInv, TypeOK, DroppedIsGone
  <2> QED BY <2>1, <2>2 DEF DroppedIsGone
<1> QED BY <1>5, <1>6, <1>7, <1>8, <1>9 DEF IInv

(* Drops that never happen.                                                *)
LEMMA DropStopsStep ==
    ASSUME IInv, NEW d \in Datasets, DropStops(d)
    PROVE  IInv'
<1>1. TypeOK'
  BY DEF DropStops, IInv, TypeOK
<1>2. NamesAreTaken' /\ RowsAreBacked' /\ WorkIsBacked'
  BY DEF DropStops, IInv, NamesAreTaken, RowsAreBacked, WorkIsBacked, Backed
<1>3. DroppedIsGone'
  BY DEF DropStops, IInv, TypeOK, DroppedIsGone
<1> QED BY <1>1, <1>2, <1>3 DEF IInv

(* Work on tables leaves those of every other trusted dataset alone.        *)
LEMMA OthersKeepTheirs ==
    ASSUME IInv, NEW a \in Actors, ~At(a, "idle"), WritesTables(a)
    PROVE  /\ On(a) \in Datasets
           /\ Slug(a) \in Slugs
           /\ haunted' \in [Datasets -> BOOLEAN]
           /\ \A e \in Datasets : haunted[e] => haunted'[e]
           /\ ~Exists(On(a)) => haunted'[On(a)]
           /\ \A e \in Datasets :
                 Exists(e) /\ ~haunted'[e] /\ e # On(a) => row[e].slug # Slug(a)
<1>1. On(a) \in Datasets /\ row[On(a)].status # "none"
  BY DEF IInv, WorkIsBacked, Backed
<1>2. Slug(a) \in Slugs
  BY <1>1 DEF IInv, TypeOK, NamesAreTaken, Row
<1> QED BY <1>1, <1>2 DEF WritesTables, IInv, TypeOK

(* raw.<slug> becomes the job's own, or missing.                           *)
LEMMA JobLoadsRawStep ==
    ASSUME IInv, NEW a \in Workers, JobLoadsRaw(a)
    PROVE  IInv'
<1> DEFINE d == On(a)
           s == Slug(a)
<1>1. /\ a \in Actors /\ work[a].pc = "loading" /\ WritesTables(a)
      /\ UNCHANGED <<row, clean, drops, settled>>
  BY DEF JobLoadsRaw, Actors
<1>2. /\ d \in Datasets /\ s \in Slugs /\ row[d].slug = s
      /\ haunted' \in [Datasets -> BOOLEAN]
      /\ \A e \in Datasets : ~haunted'[e] => ~haunted[e]
      /\ ~Exists(d) => haunted'[d]
      /\ \A e \in Datasets : Exists(e) /\ ~haunted'[e] /\ e # d => row[e].slug # s
  BY <1>1, OthersKeepTheirs
<1>3. PICK x \in {d, NoData} : raw' = [raw EXCEPT ![s] = x]
  BY DEF JobLoadsRaw
<1>4. work' \in [Actors -> Work]
  <2>1. [work[a] EXCEPT !.pc = "loaded"] \in Work
    BY <1>1 DEF IInv, TypeOK, Work, JobPhases
  <2> QED BY <2>1 DEF JobLoadsRaw, IInv, TypeOK
<1>5. /\ \A b \in Actors : b # a => ClaimsTheSame(b)
      /\ work'[a].on = d /\ work'[a].pc \in {"loading", "loaded"}
  BY <1>1 DEF JobLoadsRaw, ClaimsTheSame, IInv, TypeOK, Work
<1> HIDE DEF d, s
<1>6. TypeOK'
  BY <1>1, <1>2, <1>3, <1>4 DEF IInv, TypeOK
<1>7. NamesAreTaken'
  BY <1>1 DEF IInv, NamesAreTaken
<1>8. \A e \in Datasets : Trusted(e)' => Trusted(e) /\ (RawIsOwn(e) => RawIsOwn(e)')
  BY <1>1, <1>2, <1>3 DEF IInv, TypeOK
<1>9. raw'[s] \in {d, NoData}
  BY <1>1, <1>2, <1>3 DEF IInv, TypeOK
<1>10. RowsAreBacked'
  BY <1>1, <1>8 DEF IInv, RowsAreBacked
<1>11. WorkIsBacked'
  <2> SUFFICES ASSUME NEW b \in Actors, work'[b].pc # "idle"
               PROVE  Backed(b, work[b])'
    BY DEF WorkIsBacked
  <2>1. CASE b = a
    <3>1. row[d].status # "none"
      BY <1>1 DEF d, IInv, WorkIsBacked, Backed
    <3> QED BY <1>1, <1>2, <1>5, <1>9, <2>1, <3>1 DEF Backed
  <2>2. CASE b # a
    BY <1>1, <1>5, <1>8, <2>2 DEF ClaimsTheSame, IInv, WorkIsBacked, Backed
  <2> QED BY <2>1, <2>2
<1>12. DroppedIsGone'
  <2>1. \A t \in Slugs :
           /\ raw'[t] # NoData => row'[raw'[t]].slug = t
           /\ clean'[t] # NoTable => row'[clean'[t].of].slug = t
    BY <1>1, <1>2, <1>3 DEF IInv, TypeOK, DroppedIsGone
  <2>2. ASSUME NEW e \in Datasets
        PROVE  /\ drops'[e] # "none" => row'[e].status = "deleted"
               /\ drops'[e] \in {"clean", "done"} /\ ~haunted'[e]
                     => raw'[row'[e].slug] # e
               /\ drops'[e] = "done" /\ ~haunted'[e] /\ clean'[row'[e].slug] # NoTable
                     => clean'[row'[e].slug].of # e
    <3>1. drops[e] # "none" => ~Exists(e) /\ row[e].slug \in Slugs
      BY DEF IInv, TypeOK, Row, NamesAreTaken, DroppedIsGone
    <3>2. ~haunted'[e] => ~haunted[e]
      BY <1>2
    <3> QED BY <1>1, <1>2, <1>3, <3>1, <3>2 DEF IInv, TypeOK, DroppedIsGone
  <2> QED BY <2>1, <2>2 DEF DroppedIsGone
<1> QED BY <1>6, <1>7, <1>10, <1>11, <1>12 DEF IInv

(* clean.<slug> gets the source of raw.<slug>, which is the dataset's own.   *)
LEMMA CleanBuildsStep ==
    ASSUME IInv, NEW a \in Actors, CleanBuilds(a)
    PROVE  IInv'
<1> DEFINE d == On(a)
           s == Slug(a)
           t == [of |-> raw[s], dedup |-> work[a].dedup]
<1>1. /\ work[a].pc = "building" /\ WritesTables(a) /\ raw[s] # NoData
      /\ clean' = [clean EXCEPT ![s] = t]
      /\ UNCHANGED <<row, raw, drops>>
  BY DEF CleanBuilds
<1>2. /\ d \in Datasets /\ s \in Slugs /\ row[d].slug = s
      /\ haunted' \in [Datasets -> BOOLEAN]
      /\ \A e \in Datasets : ~haunted'[e] => ~haunted[e]
      /\ \A e \in Datasets : Exists(e) /\ ~haunted'[e] /\ e # d => row[e].slug # s
  BY <1>1, OthersKeepTheirs
<1>3. t \in Tables /\ t # NoTable /\ t.of = raw[s] /\ raw[s] \in Datasets
  BY <1>1, <1>2 DEF IInv, TypeOK, Work, Tables
<1>4. work' \in [Actors -> Work]
  <2>1. [work[a] EXCEPT !.pc = "built"] \in Work
    BY <1>1 DEF IInv, TypeOK, Work, CleanPhases
  <2> QED BY <2>1 DEF CleanBuilds, IInv, TypeOK
<1>5. /\ \A b \in Actors : b # a => ClaimsTheSame(b)
      /\ work'[a].on = d /\ work'[a].pc = "built"
  BY <1>1 DEF CleanBuilds, ClaimsTheSame, IInv, TypeOK, Work
<1>6. Backed(a, work[a])
  BY <1>1 DEF IInv, WorkIsBacked
<1>7. settled' \in [Datasets -> BOOLEAN]
  BY DEF CleanBuilds, IInv, TypeOK
<1>8. Trusted(d) => raw[s] = d
  BY <1>1, <1>2, <1>6 DEF Backed
<1> HIDE DEF d, s, t
<1>9. TypeOK'
  BY <1>1, <1>2, <1>3, <1>4, <1>7 DEF IInv, TypeOK
<1>10. NamesAreTaken'
  BY <1>1 DEF IInv, NamesAreTaken
<1>11. Exists(d) /\ ~haunted'[d] => clean'[s] # NoTable /\ clean'[s].of = d
  BY <1>1, <1>2, <1>3, <1>8 DEF IInv, TypeOK
<1>12. \A e \in Datasets :
         Trusted(e)' => Trusted(e) /\ RawIsOwn(e)' = RawIsOwn(e)
                                  /\ (CleanIsOwn(e) => CleanIsOwn(e)')
  BY <1>1, <1>2, <1>11 DEF IInv, TypeOK
<1>13. RowsAreBacked'
  BY <1>1, <1>12 DEF IInv, RowsAreBacked
<1>14. WorkIsBacked'
  <2> SUFFICES ASSUME NEW b \in Actors, work'[b].pc # "idle"
               PROVE  Backed(b, work[b])'
    BY DEF WorkIsBacked
  <2>1. CASE b = a
    BY <1>1, <1>2, <1>5, <1>6, <1>11, <2>1 DEF d, Backed
  <2>2. CASE b # a
    BY <1>1, <1>5, <1>12, <2>2 DEF ClaimsTheSame, IInv, WorkIsBacked, Backed
  <2> QED BY <2>1, <2>2
<1>15. DroppedIsGone'
  <2>1. \A u \in Slugs :
           /\ raw'[u] # NoData => row'[raw'[u]].slug = u
           /\ clean'[u] # NoTable => row'[clean'[u].of].slug = u
    BY <1>1, <1>2, <1>3 DEF IInv, TypeOK, DroppedIsGone
  <2>2. ASSUME NEW e \in Datasets
        PROVE  /\ drops'[e] # "none" => row'[e].status = "deleted"
               /\ drops'[e] \in {"clean", "done"} /\ ~haunted'[e]
                     => raw'[row'[e].slug] # e
               /\ drops'[e] = "done" /\ ~haunted'[e] /\ clean'[row'[e].slug] # NoTable
                     => clean'[row'[e].slug].of # e
    <3>1. drops[e] # "none" => row[e].slug \in Slugs
      BY DEF IInv, TypeOK, Row, NamesAreTaken, DroppedIsGone
    <3>2. ~haunted'[e] => ~haunted[e]
      BY <1>2
    <3> QED BY <1>1, <1>2, <1>3, <3>1, <3>2 DEF IInv, TypeOK, DroppedIsGone
  <2> QED BY <2>1, <2>2 DEF DroppedIsGone
<1> QED BY <1>9, <1>10, <1>13, <1>14, <1>15 DEF IInv

-----------------------------------------------------------------------------
(* Every step preserves the invariant.                                     *)
LEMMA NextIInv == IInv /\ [Next]_vars => IInv'
<1> SUFFICES ASSUME IInv, [Next]_vars
             PROVE  IInv'
  OBVIOUS
<1>1. ASSUME NEW d \in Datasets, NEW s \in Slugs, Upload(d, s)
      PROVE  IInv'
  BY <1>1, UploadStep
<1>2. ASSUME NEW d \in Datasets, Delete(d) \/ DropTable(d) \/ DropStops(d) \/ Recover(d)
      PROVE  IInv'
  BY <1>2, DeleteStep, DropTableStep, DropStopsStep, RecoverStep
<1>3. ASSUME NEW a \in Workers, JobStep(a)
      PROVE  IInv'
  BY <1>3, JobStartsStep, JobBeginsStep, JobLoadsRawStep, JobFailsStep,
     JobCommitsStep DEF JobStep
<1>4. ASSUME NEW a \in Requests, RequestStep(a)
      PROVE  IInv'
  BY <1>4, RequestStarts
<1>5. ASSUME NEW a \in Actors, WorkStep(a)
      PROVE  IInv'
  BY <1>5, CleanReadsStep, CleanBuildsStep, CleanCommitsStep, AnalyseReadsStep,
     AnalyseComputesStep, AnalyseCommitsStep, WorkStopsStep DEF WorkStep
<1>6. CASE UNCHANGED vars
  <2>1. /\ UNCHANGED <<row, raw, clean, drops, haunted, settled>>
        /\ work' \in [Actors -> Work]
        /\ \A b \in Actors : ClaimsTheSame(b)
    BY <1>6 DEF vars, ClaimsTheSame, IInv, TypeOK
  <2> QED BY <2>1, WorkMoves
<1> QED BY <1>1, <1>2, <1>3, <1>4, <1>5, <1>6 DEF Next

(* The invariant holds of every behaviour of the two stores.               *)
THEOREM Invariance == Spec => []IInv
  BY InitIInv, NextIInv, PTL DEF Spec

(* The types of the rows, tables and work, whatever the handlers and the    *)
(* worker do.                                                              *)
THEOREM StoreTypeCorrect == Spec => []TypeOK
<1>1. IInv => TypeOK
  BY DEF IInv
<1> QED BY <1>1, Invariance, PTL

(* A dataset that clean_dataset has recorded as cleaned has a clean table,  *)
(* built from its own file, unless a late drop or job of a deleted dataset  *)
(* has reached it.                                                         *)
THEOREM CleanedKeepsItsTable == Spec => []CleanedHasTable
<1>1. IInv => CleanedHasTable
  BY DEF IInv, RowsAreBacked, CleanedHasTable
<1> QED BY <1>1, Invariance, PTL

(* KPIs that analyse_dataset has recorded were computed from the dataset's  *)
(* own file, with the same exception.                                      *)
THEOREM KpisStayOwn == Spec => []KpisAreOwn
<1>1. IInv => KpisAreOwn
  BY DEF IInv, RowsAreBacked, KpisAreOwn
<1> QED BY <1>1, Invariance, PTL

(* When delete_dataset has dropped both tables, none holds the dataset's    *)
(* data, unless work for it was still under way.                           *)
THEOREM DeletedDataIsGone == Spec => []DeleteLeavesNothing
<1>1. IInv => DeleteLeavesNothing
  <2> SUFFICES ASSUME IInv, NEW d \in Datasets, drops[d] = "done", ~haunted[d],
                      NEW s \in Slugs
               PROVE  raw[s] # d /\ (clean[s] # NoTable => clean[s].of # d)
    BY DEF DeleteLeavesNothing
  <2>1. raw[s] = d => row[d].slug = s
    BY DEF IInv, DroppedIsGone
  <2>2. clean[s] # NoTable /\ clean[s].of = d => row[d].slug = s
    BY DEF IInv, DroppedIsGone
  <2> QED BY <2>1, <2>2 DEF IInv, DroppedIsGone
<1> QED BY <1>1, Invariance, PTL

-----------------------------------------------------------------------------
(***************************************************************************)
(* DatasetStore's promise about numbers, for any datasets, slugs, jobs and *)
(* requests: a cleaning that had its dataset to itself leaves table,       *)
(* record, KPIs and columns that agree, and they go on agreeing.           *)
(*                                                                         *)
(* On top of IInv, Story says what work that is alone has written so far,  *)
(* and that no other work can undo a settled dataset unnoticed.            *)
(***************************************************************************)

Record(w) == IF w.dedup THEN "dedup" ELSE "keep"

(* Alone is alone, and the columns it loaded are still there.               *)
AloneIsAlone ==
    \A a \in Actors :
        /\ work[a].pc = "idle" => work[a].on = NoData /\ ~work[a].alone
        /\ work[a].alone =>
              /\ ~work[a].stale
              /\ \A b \in Actors \ {a} : work[b].on # work[a].on

(* What the work of a has done to its dataset, if it is alone.              *)
Told(a) ==
    LET w == work[a]
    IN  Trusted(w.on) =>
            /\ w.pc \in {"building", "built", "analyse", "computing", "computed"} => row[w.on].columns # "none"
            /\ w.pc \in {"built", "analyse", "computing", "computed"} =>
                  clean[row[w.on].slug] = [of |-> w.on, dedup |-> w.dedup]
            /\ w.pc \in {"analyse", "computing", "computed"} => row[w.on].cleaning = Record(w)
            /\ w.pc = "computed" => w.held = clean[row[w.on].slug]

AloneIsTold == \A a \in Actors : work[a].alone => Told(a)

Agrees(d) ==
    /\ row[d].kpis = clean[row[d].slug]
    /\ row[d].kpis # NoTable
    /\ row[d].cleaning = Record(row[d].kpis)
    /\ row[d].columns = "classified"

(* No work for a settled dataset has a record to write, or other numbers.   *)
Harmless(d, a) ==
    work[a].on = d => /\ work[a].pc # "built"
                      /\ work[a].pc = "computed" => work[a].held = clean[row[d].slug]

SettledStays ==
    \A d \in Datasets :
        settled[d] =>
            /\ Exists(d)
            /\ ~haunted[d] => Agrees(d) /\ \A a \in Actors : Harmless(d, a)

Story == AloneIsAlone /\ AloneIsTold /\ SettledStays

-----------------------------------------------------------------------------
(* Frames: what a step leaves alone.                                        *)

(* The dataset d looks as before to whoever may still trust its tables.     *)
Undisturbed(d) ==
    /\ Exists(d)' <=> Exists(d)
    /\ Trusted(d)' =>
          /\ ~haunted[d]
          /\ row'[d].slug = row[d].slug /\ row'[d].columns = row[d].columns
          /\ row'[d].cleaning = row[d].cleaning /\ row'[d].kpis = row[d].kpis
          /\ clean'[row[d].slug] = clean[row[d].slug]

(* The work b goes on as before, but may have lost its solitude.            *)
Continues(b) ==
    /\ work'[b].pc = work[b].pc /\ work'[b].on = work[b].on
    /\ work'[b].dedup = work[b].dedup /\ work'[b].held = work[b].held
    /\ work'[b].alone => work[b].alone /\ ~work'[b].stale

LEMMA ContinuesIsTold ==
    ASSUME Story, NEW b \in Actors, Continues(b), work'[b].alone,
           NEW d \in Datasets, work[b].on = d, Undisturbed(d)
    PROVE  Told(b)'
BY DEF Story, AloneIsTold, Told, Continues, Undisturbed, Record

LEMMA UndisturbedAgrees ==
    ASSUME NEW d \in Datasets, Undisturbed(d), Trusted(d)', Agrees(d)
    PROVE  Agrees(d)'
BY DEF Undisturbed, Agrees, Record

LEMMA UndisturbedHarmless ==
    ASSUME NEW d \in Datasets, Undisturbed(d), Trusted(d)',
           NEW b \in Actors, Continues(b), Harmless(d, b)
    PROVE  Harmless(d, b)'
BY DEF Undisturbed, Continues, Harmless

(* The step of one actor, for the dataset it works on.                      *)
LEMMA ActorFrame ==
    ASSUME Story, NEW a \in Actors, NEW e \in Datasets, work[a].on = e,
           \A b \in Actors \ {a} : Continues(b),
           \A d \in Datasets \ {e} : Undisturbed(d) /\ settled'[d] = settled[d],
           \/ work'[a] = Idle
           \/ /\ work'[a].pc # "idle" /\ work'[a].on = e
              /\ work'[a].alone => work[a].alone /\ ~work'[a].stale /\ Told(a)',
           \A b \in Actors \ {a} : work[b].pc # "idle" => work[b].on \in Datasets,
           settled'[e] =>
               /\ Exists(e)'
               /\ ~haunted'[e] => Agrees(e)' /\ \A b \in Actors : Harmless(e, b)'
    PROVE  Story'
<1>1. Idle.pc = "idle" /\ Idle.on = NoData /\ ~Idle.alone
  BY DEF Idle
<1>2. AloneIsAlone'
  <2>1. ASSUME NEW b \in Actors
        PROVE  work'[b].pc = "idle" => work'[b].on = NoData /\ ~work'[b].alone
    BY <1>1 DEF Story, AloneIsAlone, Continues
  <2>2. ASSUME NEW b \in Actors, work'[b].alone
        PROVE  ~work'[b].stale /\ \A c \in Actors \ {b} : work'[c].on # work'[b].on
    <3>1. work[b].alone /\ ~work'[b].stale /\ work'[b].on = work[b].on /\ work[b].on # NoData
      BY <1>1, <2>2 DEF Story, AloneIsAlone, Continues
    <3>2. \A c \in Actors \ {b} : work[c].on # work[b].on /\ work'[c].on \in {work[c].on, NoData}
      BY <1>1, <3>1 DEF Story, AloneIsAlone, Continues
    <3>. QED  BY <3>1, <3>2
  <2>. QED  BY <2>1, <2>2 DEF AloneIsAlone
<1>3. AloneIsTold'
  <2>. SUFFICES ASSUME NEW b \in Actors, work'[b].alone PROVE Told(b)'
    BY DEF AloneIsTold
  <2>1. CASE b = a
    BY <1>1, <2>1
  <2>2. CASE b # a
    <3>1. work[b].alone /\ work[b].on \in Datasets /\ work[b].on # e
      BY <2>2 DEF Story, AloneIsAlone, Continues
    <3>2. PICK d \in Datasets \ {e} : work[b].on = d
      BY <3>1
    <3>. QED  BY <2>2, <3>2, ContinuesIsTold
  <2>. QED  BY <2>1, <2>2
<1>4. SettledStays'
  <2>. SUFFICES ASSUME NEW d \in Datasets, settled'[d]
                PROVE  /\ Exists(d)'
                       /\ ~haunted'[d] => Agrees(d)' /\ \A b \in Actors : Harmless(d, b)'
    BY DEF SettledStays
  <2>1. CASE d = e
    BY <2>1
  <2>2. CASE d # e
    <3>1. Undisturbed(d) /\ Exists(d) /\ Exists(d)'
      BY <2>2 DEF Story, SettledStays, Undisturbed
    <3>2. ASSUME ~haunted'[d] PROVE Agrees(d)' /\ \A b \in Actors : Harmless(d, b)'
      <4>1. Trusted(d)' /\ Agrees(d) /\ \A b \in Actors : Harmless(d, b)
        BY <2>2, <3>1, <3>2 DEF Undisturbed, Story, SettledStays
      <4>2. Harmless(d, a)'
        BY <1>1, <2>2 DEF Harmless
      <4>. QED  BY <3>1, <4>1, <4>2, UndisturbedAgrees, UndisturbedHarmless
    <3>. QED  BY <3>1, <3>2
  <2>. QED  BY <2>1, <2>2
<1>. QED  BY <1>2, <1>3, <1>4 DEF Story

(* A step of no work: what it disturbs, nobody relies on.                   *)
LEMMA DatasetFrame ==
    ASSUME Story, work' = work,
           \A a \in Actors : work[a].pc # "idle" => work[a].on \in Datasets,
           \A d \in Datasets :
               \/ Undisturbed(d) /\ (settled'[d] => settled[d])
               \/ ~settled'[d] /\ (~Exists(d)' \/ \A a \in Actors : work[a].on # d)
    PROVE  Story'
<1>1. AloneIsAlone'
  BY DEF Story, AloneIsAlone
<1>2. \A b \in Actors : Continues(b)
  BY DEF Continues, Story, AloneIsAlone
<1>3. AloneIsTold'
  <2>. SUFFICES ASSUME NEW b \in Actors, work[b].alone PROVE Told(b)'
    BY DEF AloneIsTold
  <2>1. PICK d \in Datasets : work[b].on = d
    BY DEF Story, AloneIsAlone
  <2>2. CASE Undisturbed(d)
    BY <1>2, <2>1, <2>2, ContinuesIsTold
  <2>3. CASE ~Exists(d)'
    BY <2>1, <2>3 DEF Told
  <2>. QED  BY <2>1, <2>2, <2>3
<1>4. SettledStays'
  <2>. SUFFICES ASSUME NEW d \in Datasets, settled'[d]
                PROVE  /\ Exists(d)'
                       /\ ~haunted'[d] => Agrees(d)' /\ \A b \in Actors : Harmless(d, b)'
    BY DEF SettledStays
  <2>1. Undisturbed(d) /\ Exists(d) /\ Exists(d)'
    BY DEF Story, SettledStays, Undisturbed
  <2>2. ASSUME ~haunted'[d] PROVE Agrees(d) /\ \A b \in Actors : Harmless(d, b)
    BY <2>1, <2>2 DEF Undisturbed, Story, SettledStays
  <2>. QED  BY <1>2, <2>1, <2>2, UndisturbedAgrees, UndisturbedHarmless
<1>. QED  BY <1>1, <1>3, <1>4 DEF Story

-----------------------------------------------------------------------------
(* Facts that every step starts from.                                       *)
LEMMA Basics ==
    ASSUME IInv
    PROVE  /\ \A a \in Actors : /\ work[a].pc # "idle" => work[a].on \in Datasets /\ row[work[a].on].status # "none"
                                /\ work[a] \in Work
           /\ \A d \in Datasets : row[d] \in Row
           /\ \A d \in Datasets : Exists(d) => row[d].slug \in Slugs
BY DEF IInv, TypeOK, WorkIsBacked, Backed, NamesAreTaken, Row

(* Work that only moves: rows, tables and their histories stay.             *)
LEMMA MoveFrame ==
    ASSUME IInv, Story, NEW a \in Actors, NEW e \in Datasets, work[a].on = e, NEW w \in Work,
           work' = [work EXCEPT ![a] = w],
           UNCHANGED <<row, clean, haunted, settled>>,
           \/ w = Idle
           \/ /\ w.pc # "idle" /\ w.on = e
              /\ w.alone => work[a].alone /\ ~w.stale /\ Told(a)',
           Trusted(e) /\ settled[e] => Harmless(e, a)'
    PROVE  Story'
<1>1. work'[a] = w /\ \A b \in Actors \ {a} : work'[b] = work[b]
  BY DEF IInv, TypeOK
<1>2. \A b \in Actors \ {a} : Continues(b)
  BY <1>1 DEF Continues, Story, AloneIsAlone
<1>3. \A d \in Datasets : Undisturbed(d) /\ settled'[d] = settled[d]
  BY DEF Undisturbed
<1>4. ASSUME settled'[e]
      PROVE  /\ Exists(e)'
             /\ ~haunted'[e] => Agrees(e)' /\ \A b \in Actors : Harmless(e, b)'
  <2>1. Exists(e) /\ Exists(e)'
    BY <1>4 DEF Story, SettledStays
  <2>2. ASSUME ~haunted[e] PROVE Agrees(e)' /\ \A b \in Actors : Harmless(e, b)'
    <3>1. Agrees(e) /\ \A b \in Actors : Harmless(e, b)
      BY <1>4, <2>2 DEF Story, SettledStays
    <3>2. Agrees(e)' /\ \A b \in Actors \ {a} : Harmless(e, b)'
      BY <1>1, <3>1 DEF Agrees, Harmless, Record
    <3>3. Harmless(e, a)'
      BY <1>4, <2>1, <2>2
    <3>. QED  BY <3>2, <3>3
  <2>. QED  BY <2>1, <2>2
<1>5. \A b \in Actors \ {a} : work[b].pc # "idle" => work[b].on \in Datasets
  BY Basics
<1>6. work'[a] = Idle \/ /\ work'[a].pc # "idle" /\ work'[a].on = e
                         /\ work'[a].alone => work[a].alone /\ ~work'[a].stale /\ Told(a)'
  BY <1>1
<1>. QED  BY <1>2, <1>3, <1>4, <1>5, <1>6, ActorFrame

LEMMA IdleIsWork == Idle \in Work /\ Idle.pc = "idle" /\ Idle.on = NoData /\ ~Idle.alone
BY DEF Idle, Work

LEMMA WorkStopsTells ==
    ASSUME IInv, Story, NEW a \in Actors, WorkStops(a)
    PROVE  Story'
<1>1. PICK e \in Datasets : work[a].on = e
  BY Basics DEF WorkStops
<1>2. work' = [work EXCEPT ![a] = Idle]
  BY DEF WorkStops
<1>3. Harmless(e, a)'
  BY <1>2, IdleIsWork DEF Harmless, IInv, TypeOK
<1>. QED  BY <1>1, <1>2, <1>3, IdleIsWork, MoveFrame DEF WorkStops

LEMMA CleanReadsTells ==
    ASSUME IInv, Story, NEW a \in Actors, CleanReads(a)
    PROVE  Story'
<1>1. PICK e \in Datasets : work[a].on = e
  BY Basics DEF CleanReads
<1>. DEFINE w == [work[a] EXCEPT !.pc = "building", !.stale = FALSE, !.seen = row[On(a)].status = "analyzing"]
<1>2. w \in Work /\ w.pc = "building" /\ w.on = e /\ w.stale = FALSE /\ w.alone = work[a].alone
  <2>1. work[a] \in Work
    BY Basics
  <2>2. w \in Work
    BY <2>1 DEF Work, CleanPhases, Actors
  <2>. QED  BY <1>1, <2>1, <2>2 DEF Work
<1>3. work' = [work EXCEPT ![a] = w] /\ row[e].columns # "none"
  BY <1>1 DEF CleanReads, IInv, TypeOK
<1>. HIDE DEF w
<1>4. work'[a] = w
  BY <1>3 DEF IInv, TypeOK
<1>5. UNCHANGED <<row, raw, clean, drops, haunted, settled>>
  BY DEF CleanReads
<1>6. Told(a)'
  BY <1>2, <1>3, <1>4, <1>5 DEF Told
<1>7. Harmless(e, a)'
  BY <1>2, <1>4 DEF Harmless
<1>. QED  BY <1>1, <1>2, <1>3, <1>5, <1>6, <1>7, MoveFrame

LEMMA AnalyseReadsTells ==
    ASSUME IInv, Story, NEW a \in Actors, AnalyseReads(a)
    PROVE  Story'
<1>1. PICK e \in Datasets : work[a].on = e
  BY Basics DEF AnalyseReads
<1>. DEFINE w == [work[a] EXCEPT !.pc = "computing", !.stale = @ /\ a \in Workers]
<1>2. /\ w \in Work /\ w.pc = "computing" /\ w.on = e /\ w.alone = work[a].alone
      /\ w.stale => work[a].stale
      /\ w.dedup = work[a].dedup
  <2>1. work[a] \in Work
    BY Basics
  <2>2. w \in Work
    BY <2>1 DEF Work, AnalysePhases, Actors
  <2>. QED  BY <1>1, <2>1, <2>2 DEF Work
<1>3. work' = [work EXCEPT ![a] = w] /\ UNCHANGED <<row, clean, haunted, settled>>
  BY DEF AnalyseReads, IInv, TypeOK
<1>. HIDE DEF w
<1>4. work'[a] = w
  BY <1>3 DEF IInv, TypeOK
<1>5. Harmless(e, a)'
  BY <1>2, <1>4 DEF Harmless
<1>6. ASSUME work[a].alone PROVE ~w.stale /\ Told(a)'
  <2>1. ~work[a].stale /\ Told(a)
    BY <1>6 DEF Story, AloneIsAlone, AloneIsTold
  <2>2. Trusted(e) => /\ row[e].columns # "none" /\ row[e].cleaning = Record(w)
                      /\ clean[row[e].slug] = [of |-> e, dedup |-> w.dedup]
    BY <1>1, <1>2, <2>1 DEF Told, AnalyseReads, Record
  <2>3. Told(a)'
    BY <1>2, <1>3, <1>4, <2>2 DEF Told
  <2>. QED  BY <1>2, <2>1, <2>3
<1>. QED  BY <1>1, <1>2, <1>3, <1>5, <1>6, MoveFrame

LEMMA AnalyseComputesTells ==
    ASSUME IInv, Story, NEW a \in Actors, AnalyseComputes(a)
    PROVE  Story'
<1>1. PICK e \in Datasets : work[a].on = e
  BY Basics DEF AnalyseComputes
<1>. DEFINE w == [work[a] EXCEPT !.pc = "computed", !.held = clean[Slug(a)]]
<1>2. /\ w \in Work /\ w.pc = "computed" /\ w.on = e /\ w.alone = work[a].alone
      /\ w.stale = work[a].stale /\ w.dedup = work[a].dedup /\ w.held = clean[row[e].slug]
  <2>1. work[a] \in Work /\ row[e].slug \in Slugs /\ clean[Slug(a)] \in Tables \cup {NoTable}
    BY <1>1, Basics DEF AnalyseComputes, IInv, TypeOK, NamesAreTaken, Row
  <2>2. w \in Work
    BY <2>1 DEF Work, AnalysePhases, Actors
  <2>. QED  BY <1>1, <2>1, <2>2 DEF Work
<1>3. work' = [work EXCEPT ![a] = w] /\ UNCHANGED <<row, clean, haunted, settled>>
  BY DEF AnalyseComputes, IInv, TypeOK
<1>. HIDE DEF w
<1>4. work'[a] = w
  BY <1>3 DEF IInv, TypeOK
<1>5. Harmless(e, a)'
  BY <1>2, <1>3, <1>4 DEF Harmless
<1>6. ASSUME work[a].alone PROVE ~w.stale /\ Told(a)'
  <2>1. ~work[a].stale /\ Told(a)
    BY <1>6 DEF Story, AloneIsAlone, AloneIsTold
  <2>2. Trusted(e) => /\ row[e].columns # "none" /\ row[e].cleaning = Record(w)
                      /\ clean[row[e].slug] = [of |-> e, dedup |-> w.dedup]
    BY <1>1, <1>2, <2>1 DEF Told, AnalyseComputes, Record
  <2>3. Told(a)'
    BY <1>2, <1>3, <1>4, <2>2 DEF Told
  <2>. QED  BY <1>2, <2>1, <2>3
<1>. QED  BY <1>1, <1>2, <1>3, <1>5, <1>6, MoveFrame

-----------------------------------------------------------------------------
(* Work that writes to one store or the other.                              *)

(* A commit to the row of e, and what becomes of the work that made it.     *)
LEMMA CommitFrame ==
    ASSUME IInv, Story, NEW a \in Actors, NEW e \in Datasets, work[a].on = e, NEW w \in Work,
           \A d \in Datasets \ {e} : row'[d] = row[d] /\ settled'[d] = settled[d],
           Exists(e)',
           UNCHANGED <<clean, haunted>>,
           work'[a] = w,
           \A b \in Actors \ {a} : Continues(b),
           \/ w = Idle
           \/ /\ w.pc # "idle" /\ w.on = e
              /\ w.alone => work[a].alone /\ ~w.stale /\ Told(a)',
           settled'[e] /\ ~haunted[e] => Agrees(e)' /\ \A b \in Actors : Harmless(e, b)'
    PROVE  Story'
<1>1. \A d \in Datasets \ {e} : Undisturbed(d) /\ settled'[d] = settled[d]
  BY DEF Undisturbed
<1>2. \A b \in Actors \ {a} : work[b].pc # "idle" => work[b].on \in Datasets
  BY Basics
<1>3. work'[a] = Idle \/ /\ work'[a].pc # "idle" /\ work'[a].on = e
                         /\ work'[a].alone => work[a].alone /\ ~work'[a].stale /\ Told(a)'
  OBVIOUS
<1>. QED  BY <1>1, <1>2, <1>3, ActorFrame

(* A commit of the status alone: nothing about a settled dataset changes.   *)
LEMMA StatusFrame ==
    ASSUME IInv, Story, NEW a \in Actors, NEW e \in Datasets, work[a].on = e, NEW w \in Work,
           Exists(e), NEW st \in RowStatus \ {"none", "deleted"},
           row' = [row EXCEPT ![e].status = st],
           work' = [work EXCEPT ![a] = w],
           \/ w = Idle
           \/ w.pc = "loading" /\ w.on = e /\ w.alone = work[a].alone /\ w.stale = work[a].stale,
           UNCHANGED <<clean, haunted, settled>>
    PROVE  Story'
<1>1. /\ row'[e].status = st /\ row'[e].slug = row[e].slug /\ row'[e].columns = row[e].columns
      /\ row'[e].cleaning = row[e].cleaning /\ row'[e].kpis = row[e].kpis
      /\ \A d \in Datasets \ {e} : row'[d] = row[d]
  BY Basics DEF Row, IInv, TypeOK
<1>2. work'[a] = w /\ \A b \in Actors \ {a} : work'[b] = work[b]
  BY DEF IInv, TypeOK
<1>3. \A b \in Actors \ {a} : Continues(b)
  BY <1>2 DEF Continues, Story, AloneIsAlone
<1>4. Told(a)' \/ w = Idle
  BY <1>2 DEF Told
<1>5. ASSUME settled[e], ~haunted[e] PROVE Agrees(e)' /\ \A b \in Actors : Harmless(e, b)'
  <2>1. Agrees(e) /\ \A b \in Actors : Harmless(e, b)
    BY <1>5 DEF Story, SettledStays
  <2>2. Agrees(e)' /\ \A b \in Actors \ {a} : Harmless(e, b)'
    BY <1>1, <1>2, <2>1 DEF Agrees, Harmless, Record
  <2>3. Harmless(e, a)'
    BY <1>2, IdleIsWork DEF Harmless
  <2>. QED  BY <2>2, <2>3
<1>6. w = Idle \/ /\ w.pc # "idle" /\ w.on = e
                  /\ w.alone => work[a].alone /\ ~w.stale /\ Told(a)'
  BY <1>4 DEF Story, AloneIsAlone
<1>7. Exists(e)'
  BY <1>1
<1>. QED  BY <1>1, <1>2, <1>3, <1>5, <1>6, <1>7, CommitFrame

LEMMA JobBeginsTells ==
    ASSUME IInv, Story, NEW a \in Actors, JobBegins(a)
    PROVE  Story'
<1>1. PICK e \in Datasets : work[a].on = e
  BY Basics DEF JobBegins
<1>. DEFINE w == [work[a] EXCEPT !.pc = "loading"]
<1>2. w \in Work /\ w.pc = "loading" /\ w.on = e /\ w.alone = work[a].alone /\ w.stale = work[a].stale
  <2>1. work[a] \in Work
    BY Basics
  <2>2. w \in Work
    BY <2>1 DEF Work, JobPhases
  <2>. QED  BY <1>1, <2>1, <2>2 DEF Work
<1>3. work' = [work EXCEPT ![a] = w]
  BY DEF JobBegins, IInv, TypeOK
<1>4. PICK st \in RowStatus \ {"none", "deleted"} : row' = [row EXCEPT ![e].status = st]
  <2>1. row[e].status \in RowStatus \ {"none", "deleted"}
    BY <1>1, Basics DEF JobBegins, Row
  <2>. QED  BY <1>1, <2>1 DEF JobBegins, RowStatus
<1>. HIDE DEF w
<1>5. Exists(e) /\ UNCHANGED <<clean, haunted, settled>>
  BY <1>1 DEF JobBegins
<1>. QED  BY <1>1, <1>2, <1>3, <1>4, <1>5, StatusFrame

LEMMA JobFailsTells ==
    ASSUME IInv, Story, NEW a \in Actors, JobFails(a)
    PROVE  Story'
<1>1. PICK e \in Datasets : work[a].on = e
  BY Basics DEF JobFails
<1>2. PICK st \in RowStatus \ {"none", "deleted"} : row' = [row EXCEPT ![e].status = st]
  BY <1>1 DEF JobFails, RowStatus
<1>3. PICK w \in Work : w = Idle /\ work' = [work EXCEPT ![a] = w]
  BY IdleIsWork DEF JobFails
<1>4. Exists(e) /\ UNCHANGED <<clean, haunted, settled>>
  BY <1>1 DEF JobFails
<1>. QED  BY <1>1, <1>2, <1>3, <1>4, StatusFrame

LEMMA JobCommitsTells ==
    ASSUME IInv, Story, NEW a \in Actors, JobCommits(a)
    PROVE  Story'
<1>1. PICK e \in Datasets : work[a].on = e
  BY Basics DEF JobCommits
<1>. DEFINE w == [work[a] EXCEPT !.pc = "clean"]
<1>2. w \in Work /\ w.pc = "clean" /\ w.on = e /\ w.alone = work[a].alone /\ w.stale = work[a].stale
  <2>1. work[a] \in Work
    BY Basics
  <2>2. w \in Work
    BY <2>1 DEF Work, CleanPhases
  <2>. QED  BY <1>1, <2>1, <2>2 DEF Work
<1>3. work'[a] = w
  BY DEF JobCommits
<1>. HIDE DEF w
<1>4. \A b \in Actors \ {a} : Continues(b)
  <2>. SUFFICES ASSUME NEW b \in Actors \ {a} PROVE Continues(b)
    OBVIOUS
  <2>1. work'[b] = [work[b] EXCEPT !.stale = @ \/ work[b].on = e] /\ work[b] \in Work
    BY <1>1, Basics DEF JobCommits
  <2>2. /\ work'[b].pc = work[b].pc /\ work'[b].on = work[b].on
        /\ work'[b].dedup = work[b].dedup /\ work'[b].held = work[b].held
        /\ work'[b].alone = work[b].alone /\ (work'[b].stale => work[b].stale \/ work[b].on = e)
    BY <2>1 DEF Work
  <2>3. work[b].alone => ~work[b].stale /\ work[b].on # e
    BY <1>1 DEF Story, AloneIsAlone
  <2>. QED  BY <2>2, <2>3 DEF Continues
<1>5. /\ \A d \in Datasets \ {e} : row'[d] = row[d] /\ settled'[d] = settled[d]
      /\ row'[e].status = "ready" /\ settled'[e] = FALSE
  BY <1>1, Basics DEF JobCommits, Row, IInv, TypeOK
<1>6. Told(a)' /\ (w.alone => ~w.stale)
  <2>1. Told(a)'
    BY <1>2, <1>3 DEF Told
  <2>2. w.alone => ~w.stale
    BY <1>2 DEF Story, AloneIsAlone
  <2>. QED  BY <2>1, <2>2
<1>. QED  BY <1>1, <1>2, <1>3, <1>4, <1>5, <1>6, CommitFrame DEF JobCommits

LEMMA CleanCommitsTells ==
    ASSUME IInv, Story, NEW a \in Actors, CleanCommits(a)
    PROVE  Story'
<1>1. PICK e \in Datasets : work[a].on = e
  BY Basics DEF CleanCommits
<1>. DEFINE w == [work[a] EXCEPT !.pc = "analyse"]
<1>2. /\ w \in Work /\ w.pc = "analyse" /\ w.on = e /\ w.alone = work[a].alone /\ w.stale = work[a].stale
      /\ w.dedup = work[a].dedup
  <2>1. work[a] \in Work
    BY Basics
  <2>2. w \in Work
    BY <2>1 DEF Work, AnalysePhases
  <2>. QED  BY <1>1, <2>1, <2>2 DEF Work
<1>3. work'[a] = w /\ \A b \in Actors \ {a} : work'[b] = work[b]
  BY DEF CleanCommits, IInv, TypeOK
<1>. HIDE DEF w
<1>4. \A b \in Actors \ {a} : Continues(b)
  BY <1>3 DEF Continues, Story, AloneIsAlone
<1>5. /\ \A d \in Datasets \ {e} : row'[d] = row[d]
      /\ row'[e].status \notin {"none", "deleted"} /\ row'[e].slug = row[e].slug
      /\ row'[e].cleaning = Record(w)
      /\ row[e].columns # "none" => row'[e].columns # "none"
  <2>1. row[e] \in Row /\ Exists(e)
    BY <1>1, Basics DEF CleanCommits
  <2>. QED  BY <1>1, <1>2, <2>1 DEF CleanCommits, Row, IInv, TypeOK, Record
<1>6. UNCHANGED <<clean, haunted, settled>>
  BY DEF CleanCommits
<1>7. ASSUME work[a].alone PROVE ~w.stale /\ Told(a)'
  <2>1. ~work[a].stale /\ Told(a)
    BY <1>7 DEF Story, AloneIsAlone, AloneIsTold
  <2>2. Trusted(e) => row[e].columns # "none" /\ clean[row[e].slug] = [of |-> e, dedup |-> w.dedup]
    BY <1>1, <1>2, <2>1 DEF Told, CleanCommits
  <2>3. Trusted(e)
        => row'[e].columns # "none" /\ clean'[row'[e].slug] = [of |-> e, dedup |-> w.dedup]
    BY <1>5, <1>6, <2>2
  <2>4. Exists(e)
    BY <1>1 DEF CleanCommits
  <2>5. Told(a)'
    BY <1>2, <1>3, <1>5, <1>6, <2>3, <2>4 DEF Told
  <2>. QED  BY <1>2, <2>1, <2>5
<1>8. ~(settled'[e] /\ ~haunted[e])
  BY <1>1, <1>6 DEF Story, SettledStays, Harmless, CleanCommits
<1>9. Exists(e)'
  BY <1>5
<1>. QED  BY <1>1, <1>2, <1>3, <1>4, <1>5, <1>6, <1>7, <1>8, <1>9, CommitFrame

LEMMA AnalyseCommitsTells ==
    ASSUME IInv, Story, NEW a \in Actors, AnalyseCommits(a)
    PROVE  Story'
<1>1. PICK e \in Datasets : work[a].on = e
  BY Basics DEF AnalyseCommits
<1>2. work'[a] = Idle /\ \A b \in Actors \ {a} : work'[b] = work[b]
  BY DEF AnalyseCommits, IInv, TypeOK
<1>3. \A b \in Actors \ {a} : Continues(b)
  BY <1>2 DEF Continues, Story, AloneIsAlone
<1>4. /\ \A d \in Datasets \ {e} : row'[d] = row[d] /\ settled'[d] = settled[d]
      /\ settled'[e] => settled[e] \/ work[a].alone
      /\ row'[e].kpis = work[a].held /\ row'[e].slug = row[e].slug
      /\ row'[e].status = row[e].status /\ row'[e].cleaning = row[e].cleaning
      /\ row'[e].columns = IF work[a].stale \/ row[e].columns = "none" THEN row[e].columns ELSE "classified"
  <2>1. row[e] \in Row
    BY Basics
  <2>. QED  BY <1>1, <2>1 DEF AnalyseCommits, Row, IInv, TypeOK
<1>5. UNCHANGED <<clean, haunted>> /\ Exists(e) /\ Exists(e)'
  BY <1>1, <1>4 DEF AnalyseCommits
<1>6. ASSUME settled'[e], ~haunted[e] PROVE Agrees(e)' /\ \A b \in Actors : Harmless(e, b)'
  <2>1. Harmless(e, a)'
    BY <1>2, IdleIsWork DEF Harmless
  <2>2. CASE work[a].alone
    <3>1. ~work[a].stale /\ Told(a) /\ \A b \in Actors \ {a} : work[b].on # e
      BY <1>1, <2>2 DEF Story, AloneIsAlone, AloneIsTold
    <3>2. /\ row[e].columns # "none" /\ row[e].cleaning = Record(work[a])
          /\ clean[row[e].slug] = [of |-> e, dedup |-> work[a].dedup]
          /\ work[a].held = clean[row[e].slug]
      BY <1>1, <1>5, <1>6, <3>1 DEF Told, AnalyseCommits
    <3>3. clean[row[e].slug] \in Tables /\ clean[row[e].slug].dedup = work[a].dedup
      BY <3>2, Basics DEF Tables, Work
    <3>4. clean[row[e].slug] # NoTable
      BY <3>3
    <3>5. Agrees(e)'
      BY <1>4, <1>5, <3>1, <3>2, <3>3, <3>4 DEF Agrees, Record
    <3>6. \A b \in Actors \ {a} : Harmless(e, b)'
      BY <1>2, <3>1 DEF Harmless
    <3>. QED  BY <2>1, <3>5, <3>6
  <2>3. CASE settled[e]
    <3>1. Agrees(e) /\ \A b \in Actors : Harmless(e, b)
      BY <1>6, <2>3 DEF Story, SettledStays
    <3>2. work[a].held = clean[row[e].slug]
      BY <1>1, <3>1 DEF Harmless, AnalyseCommits
    <3>3. Agrees(e)'
      BY <1>4, <1>5, <3>1, <3>2 DEF Agrees, Record
    <3>4. \A b \in Actors \ {a} : Harmless(e, b)'
      BY <1>2, <1>4, <1>5, <3>1 DEF Harmless
    <3>. QED  BY <2>1, <3>3, <3>4
  <2>. QED  BY <1>4, <1>6, <2>2, <2>3
<1>. QED  BY <1>1, <1>2, <1>3, <1>4, <1>5, <1>6, IdleIsWork, CommitFrame

-----------------------------------------------------------------------------
(* Tables.                                                                  *)

(* The tables of another existing dataset are written only by work that the *)
(* history then holds against it.                                           *)
LEMMA WritingLeaves ==
    ASSUME IInv, NEW a \in Actors, NEW e \in Datasets, work[a].on = e, WritesTables(a), row' = row,
           \A s \in Slugs : clean'[s] = clean[s] \/ s = row[e].slug
    PROVE  /\ \A d \in Datasets \ {e} : Undisturbed(d)
           /\ haunted[e] => haunted'[e]
           /\ Exists(e) => haunted'[e] = haunted[e]
           /\ ~Exists(e) => haunted'[e]
<1>1. \A d \in Datasets : haunted'[d] <=> (haunted[d] \/ d \in Heirs(e) \/ (d = e /\ ~Exists(e)))
  BY DEF WritesTables
<1>2. ASSUME NEW d \in Datasets \ {e} PROVE Undisturbed(d)
  <2>1. Trusted(d)' => Exists(d) /\ ~haunted[d] /\ row[d].slug # row[e].slug
    BY <1>1
  <2>2. Exists(d) => row[d].slug \in Slugs
    BY Basics
  <2>. QED  BY <2>1, <2>2 DEF Undisturbed
<1>3. haunted[e] \in BOOLEAN /\ haunted'[e] \in BOOLEAN
  BY DEF IInv, TypeOK, WritesTables
<1>. QED  BY <1>1, <1>2, <1>3

LEMMA JobLoadsRawTells ==
    ASSUME IInv, Story, NEW a \in Actors, JobLoadsRaw(a)
    PROVE  Story'
<1>1. PICK e \in Datasets : work[a].on = e
  BY Basics DEF JobLoadsRaw
<1>2. work[a].pc = "loading" /\ work[a] \in Work
  BY Basics DEF JobLoadsRaw
<1>3. PICK w \in Work : /\ work' = [work EXCEPT ![a] = w]
                        /\ w.pc \in {"loading", "loaded"} /\ w.on = e /\ w.alone = work[a].alone
                        /\ w.stale = work[a].stale
  <2>1. CASE work' = work
    BY <1>1, <1>2, <2>1 DEF IInv, TypeOK
  <2>2. CASE work' = [work EXCEPT ![a].pc = "loaded"]
    <3>. DEFINE w == [work[a] EXCEPT !.pc = "loaded"]
    <3>1. w \in Work
      BY <1>2 DEF Work, JobPhases
    <3>2. w.pc = "loaded" /\ w.on = e /\ w.alone = work[a].alone /\ w.stale = work[a].stale
      BY <1>1, <1>2 DEF Work
    <3>3. work' = [work EXCEPT ![a] = w]
      BY <2>2 DEF IInv, TypeOK
    <3>. QED  BY <3>1, <3>2, <3>3
  <2>. QED  BY <2>1, <2>2 DEF JobLoadsRaw
<1>4. work'[a] = w /\ \A b \in Actors \ {a} : work'[b] = work[b]
  BY <1>3 DEF IInv, TypeOK
<1>5. \A b \in Actors \ {a} : Continues(b)
  BY <1>4 DEF Continues, Story, AloneIsAlone
<1>6. UNCHANGED <<row, clean, settled>> /\ WritesTables(a)
  BY DEF JobLoadsRaw
<1>7. (\A d \in Datasets \ {e} : Undisturbed(d)) /\ (haunted[e] => haunted'[e])
  BY <1>1, <1>6, WritingLeaves
<1>8. ASSUME settled'[e]
      PROVE  /\ Exists(e)'
             /\ ~haunted'[e] => Agrees(e)' /\ \A b \in Actors : Harmless(e, b)'
  <2>1. Exists(e)'
    BY <1>6, <1>8 DEF Story, SettledStays
  <2>2. ASSUME ~haunted'[e] PROVE Agrees(e)' /\ \A b \in Actors : Harmless(e, b)'
    <3>1. Agrees(e) /\ \A b \in Actors : Harmless(e, b)
      BY <1>6, <1>7, <1>8, <2>2 DEF Story, SettledStays
    <3>2. Agrees(e)' /\ \A b \in Actors \ {a} : Harmless(e, b)'
      BY <1>4, <1>6, <3>1 DEF Agrees, Harmless, Record
    <3>3. Harmless(e, a)'
      BY <1>3, <1>4 DEF Harmless
    <3>. QED  BY <3>2, <3>3
  <2>. QED  BY <2>1, <2>2
<1>9. Told(a)'
  BY <1>3, <1>4 DEF Told
<1>10. \A b \in Actors \ {a} : work[b].pc # "idle" => work[b].on \in Datasets
  BY Basics
<1>11. work'[a].pc # "idle" /\ work'[a].on = e /\ (work'[a].alone => work[a].alone /\ ~work'[a].stale)
  BY <1>3, <1>4 DEF Story, AloneIsAlone
<1>. QED  BY <1>1, <1>5, <1>6, <1>7, <1>8, <1>9, <1>10, <1>11, ActorFrame

LEMMA CleanBuildsTells ==
    ASSUME IInv, Story, NEW a \in Actors, CleanBuilds(a)
    PROVE  Story'
<1>1. PICK e \in Datasets : work[a].on = e
  BY Basics DEF CleanBuilds
<1>. DEFINE w == [work[a] EXCEPT !.pc = "built"]
<1>2. /\ w \in Work /\ w.pc = "built" /\ w.on = e /\ w.alone = work[a].alone /\ w.stale = work[a].stale
      /\ w.dedup = work[a].dedup
  <2>1. work[a] \in Work
    BY Basics
  <2>2. w \in Work
    BY <2>1 DEF Work, CleanPhases
  <2>. QED  BY <1>1, <2>1, <2>2 DEF Work
<1>3. work'[a] = w /\ \A b \in Actors \ {a} : work'[b] = work[b]
  BY DEF CleanBuilds, IInv, TypeOK
<1>. HIDE DEF w
<1>4. \A b \in Actors \ {a} : Continues(b)
  BY <1>3 DEF Continues, Story, AloneIsAlone
<1>5. /\ row' = row /\ WritesTables(a)
      /\ clean' = [clean EXCEPT ![row[e].slug] = [of |-> raw[row[e].slug], dedup |-> w.dedup]]
      /\ settled'[e] = FALSE /\ \A d \in Datasets \ {e} : settled'[d] = settled[d]
  BY <1>1, <1>2 DEF CleanBuilds, IInv, TypeOK
<1>6. /\ \A d \in Datasets \ {e} : Undisturbed(d)
      /\ haunted[e] => haunted'[e] /\ (~Exists(e) => haunted'[e])
  <2>1. \A s \in Slugs : clean'[s] = clean[s] \/ s = row[e].slug
    BY <1>5 DEF IInv, TypeOK
  <2>. QED  BY <1>1, <1>5, <2>1, WritingLeaves
<1>7. ASSUME work[a].alone PROVE ~w.stale /\ Told(a)'
  <2>1. ~work[a].stale /\ Told(a)
    BY <1>7 DEF Story, AloneIsAlone, AloneIsTold
  <2>2. ASSUME Trusted(e)' PROVE row[e].columns # "none" /\ clean'[row[e].slug] = [of |-> e, dedup |-> w.dedup]
    <3>1. Trusted(e) /\ row[e].slug \in Slugs
      BY <1>5, <1>6, <2>2, Basics
    <3>2. row[e].columns # "none"
      BY <1>1, <2>1, <3>1 DEF Told, CleanBuilds
    <3>3. raw[row[e].slug] = e
      BY <1>1, <3>1 DEF CleanBuilds, IInv, WorkIsBacked, Backed
    <3>. QED  BY <1>5, <3>1, <3>2, <3>3 DEF IInv, TypeOK
  <2>3. Told(a)'
    BY <1>2, <1>3, <1>5, <2>2 DEF Told
  <2>. QED  BY <1>2, <2>1, <2>3
<1>8. \A b \in Actors \ {a} : work[b].pc # "idle" => work[b].on \in Datasets
  BY Basics
<1>9. work'[a].pc # "idle" /\ work'[a].on = e /\ (work'[a].alone => work[a].alone /\ ~work'[a].stale /\ Told(a)')
  BY <1>2, <1>3, <1>7
<1>. QED  BY <1>1, <1>4, <1>5, <1>6, <1>8, <1>9, ActorFrame

-----------------------------------------------------------------------------
(* Work starts: it is alone if nothing else is under way for its dataset,   *)
(* and what is under way is alone no more.                                  *)
LEMMA StartsTells ==
    ASSUME IInv, Story, NEW a \in Actors, NEW e \in Datasets, NEW w \in Work,
           w.pc \in {"begin", "clean", "analyse"}, w.on = e, w.stale = FALSE,
           w.alone => Unshared(e) /\ w.pc # "analyse",
           Starts(a, e, w)
    PROVE  Story'
<1>1. work[a].pc = "idle" /\ work'[a] = w /\ UNCHANGED <<row, clean, haunted, settled>>
  BY DEF Starts
<1>2. \A b \in Actors \ {a} :
         /\ work'[b].pc = work[b].pc /\ work'[b].on = work[b].on
         /\ work'[b].dedup = work[b].dedup /\ work'[b].held = work[b].held
         /\ work'[b].stale = work[b].stale
         /\ work'[b].alone => work[b].alone /\ work[b].on # e
  <2>. SUFFICES ASSUME NEW b \in Actors \ {a}
                PROVE  /\ work'[b].pc = work[b].pc /\ work'[b].on = work[b].on
                       /\ work'[b].dedup = work[b].dedup /\ work'[b].held = work[b].held
                       /\ work'[b].stale = work[b].stale
                       /\ work'[b].alone => work[b].alone /\ work[b].on # e
    OBVIOUS
  <2>1. work'[b] = [work[b] EXCEPT !.alone = @ /\ work[b].on # e] /\ work[b] \in Work
    BY Basics DEF Starts
  <2>. QED  BY <2>1 DEF Work
<1>3. \A b \in Actors \ {a} : Continues(b)
  BY <1>2 DEF Continues, Story, AloneIsAlone
<1>4. AloneIsAlone'
  <2>1. ASSUME NEW b \in Actors
        PROVE  work'[b].pc = "idle" => work'[b].on = NoData /\ ~work'[b].alone
    BY <1>1, <1>2 DEF Story, AloneIsAlone
  <2>2. ASSUME NEW b \in Actors, work'[b].alone
        PROVE  ~work'[b].stale /\ \A c \in Actors \ {b} : work'[c].on # work'[b].on
    <3>1. CASE b = a
      BY <1>1, <1>2, <2>2, <3>1 DEF Unshared
    <3>2. CASE b # a
      BY <1>1, <1>2, <2>2, <3>2 DEF Story, AloneIsAlone
    <3>. QED  BY <3>1, <3>2
  <2>. QED  BY <2>1, <2>2 DEF AloneIsAlone
<1>5. \A d \in Datasets : Undisturbed(d)
  BY <1>1 DEF Undisturbed
<1>6. AloneIsTold'
  <2>. SUFFICES ASSUME NEW b \in Actors, work'[b].alone PROVE Told(b)'
    BY DEF AloneIsTold
  <2>1. CASE b = a
    BY <1>1, <2>1 DEF Told
  <2>2. CASE b # a
    <3>1. PICK d \in Datasets : work[b].on = d
      BY <1>2, <2>2, Basics DEF Story, AloneIsAlone
    <3>. QED  BY <1>3, <1>5, <2>2, <3>1, ContinuesIsTold
  <2>. QED  BY <2>1, <2>2
<1>7. SettledStays'
  <2>. SUFFICES ASSUME NEW d \in Datasets, settled'[d]
                PROVE  /\ Exists(d)'
                       /\ ~haunted'[d] => Agrees(d)' /\ \A b \in Actors : Harmless(d, b)'
    BY DEF SettledStays
  <2>1. Exists(d) /\ Exists(d)'
    BY <1>1 DEF Story, SettledStays
  <2>2. ASSUME ~haunted'[d] PROVE Agrees(d)' /\ \A b \in Actors : Harmless(d, b)'
    <3>1. Trusted(d)' /\ Agrees(d) /\ \A b \in Actors : Harmless(d, b)
      BY <1>1, <2>1, <2>2 DEF Story, SettledStays
    <3>2. Harmless(d, a)'
      BY <1>1 DEF Harmless
    <3>. QED  BY <1>3, <1>5, <3>1, <3>2, UndisturbedAgrees, UndisturbedHarmless
  <2>. QED  BY <2>1, <2>2
<1>. QED  BY <1>4, <1>6, <1>7 DEF Story

LEMMA RequestsTell ==
    ASSUME IInv, Story, NEW a \in Actors, NEW d \in Datasets,
           JobStarts(a, d) \/ RequestAnalyse(a, d) \/ \E b \in BOOLEAN : RequestClean(a, d, b)
    PROVE  Story'
<1>1. ASSUME JobStarts(a, d) PROVE Story'
  <2>. DEFINE w == [Idle EXCEPT !.pc = "begin", !.on = d, !.seen = row[d].status = "analyzing",
                                !.alone = Unshared(d)]
  <2>1. w \in Work /\ w.pc = "begin" /\ w.on = d /\ w.stale = FALSE /\ (w.alone => Unshared(d))
    BY DEF Work, Idle, JobPhases, Unshared
  <2>. QED  BY <1>1, <2>1, StartsTells DEF JobStarts
<1>2. ASSUME RequestAnalyse(a, d) PROVE Story'
  <2>. DEFINE w == [Idle EXCEPT !.pc = "analyse", !.on = d]
  <2>1. w \in Work /\ w.pc = "analyse" /\ w.on = d /\ w.stale = FALSE /\ ~w.alone
    BY DEF Work, Idle, AnalysePhases
  <2>. QED  BY <1>2, <2>1, StartsTells DEF RequestAnalyse
<1>3. ASSUME NEW b \in BOOLEAN, RequestClean(a, d, b) PROVE Story'
  <2>. DEFINE w == [Idle EXCEPT !.pc = "clean", !.on = d, !.dedup = b, !.alone = Unshared(d)]
  <2>1. w \in Work /\ w.pc = "clean" /\ w.on = d /\ w.stale = FALSE /\ (w.alone => Unshared(d))
    BY DEF Work, Idle, CleanPhases, Unshared
  <2>. QED  BY <1>3, <2>1, StartsTells DEF RequestClean
<1>. QED  BY <1>1, <1>2, <1>3

-----------------------------------------------------------------------------
(* Steps of no work.                                                        *)
LEMMA DatasetStepsTell ==
    ASSUME IInv, Story, NEW e \in Datasets,
           Delete(e) \/ DropTable(e) \/ DropStops(e) \/ Recover(e) \/ \E s \in Slugs : Upload(e, s)
    PROVE  Story'
<1>. DEFINE Calm(d) == \/ Undisturbed(d) /\ (settled'[d] => settled[d])
                       \/ ~settled'[d] /\ (~Exists(d)' \/ \A a \in Actors : work[a].on # d)
<1>1. \A a \in Actors : work[a].pc # "idle" => work[a].on \in Datasets
  BY Basics
<1>2. ASSUME Delete(e) PROVE \A d \in Datasets : Calm(d)
  <2>1. ~settled'[e] /\ ~Exists(e)' /\ UNCHANGED <<clean, haunted>>
    BY <1>2, Basics DEF Delete, IInv, TypeOK, Row, Blank
  <2>2. \A d \in Datasets \ {e} : row'[d] = row[d] /\ settled'[d] = settled[d]
    BY <1>2 DEF Delete, IInv, TypeOK
  <2>. QED  BY <2>1, <2>2 DEF Undisturbed
<1>3. ASSUME DropTable(e) PROVE \A d \in Datasets : Calm(d)
  <2>1. row' = row /\ settled' = settled /\ ~Exists(e)
    BY <1>3 DEF DropTable, IInv, DroppedIsGone
  <2>2. \A d \in Datasets : haunted'[d] <=> (haunted[d] \/ d \in Heirs(e))
    BY <1>3 DEF DropTable
  <2>3. \A s \in Slugs : clean'[s] = clean[s] \/ s = row[e].slug
    BY <1>3 DEF DropTable, IInv, TypeOK
  <2>4. ASSUME NEW d \in Datasets PROVE Undisturbed(d)
    <3>1. Trusted(d)' => ~haunted[d] /\ row[d].slug # row[e].slug /\ row[d].slug \in Slugs
      BY <2>1, <2>2, Basics
    <3>. QED  BY <2>1, <2>3, <3>1 DEF Undisturbed
  <2>. QED  BY <2>1, <2>4
<1>4. ASSUME DropStops(e) PROVE \A d \in Datasets : Calm(d)
  BY <1>4 DEF DropStops, Undisturbed
<1>5. ASSUME Recover(e) PROVE \A d \in Datasets : Calm(d)
  <2>1. /\ row'[e].status = "failed" /\ row'[e].slug = row[e].slug /\ row'[e].columns = row[e].columns
        /\ row'[e].cleaning = row[e].cleaning /\ row'[e].kpis = row[e].kpis
        /\ \A d \in Datasets \ {e} : row'[d] = row[d]
        /\ row[e].status = "analyzing"
    BY <1>5, Basics DEF Recover, Row, IInv, TypeOK
  <2>2. UNCHANGED <<clean, haunted, settled>>
    BY <1>5 DEF Recover
  <2>. QED  BY <2>1, <2>2 DEF Undisturbed
<1>6. ASSUME NEW s \in Slugs, Upload(e, s) PROVE \A d \in Datasets : Calm(d)
  <2>1. row[e].status = "none" /\ UNCHANGED <<clean, haunted, settled>>
    BY <1>6 DEF Upload
  <2>2. ~settled[e] /\ \A a \in Actors : work[a].on # e
    BY <2>1, Basics DEF Story, SettledStays, AloneIsAlone
  <2>3. \A d \in Datasets \ {e} : row'[d] = row[d]
    BY <1>6 DEF Upload, IInv, TypeOK
  <2>. QED  BY <2>1, <2>2, <2>3 DEF Undisturbed
<1>7. work' = work
  BY DEF Delete, DropTable, DropStops, Recover, Upload
<1>8. \A d \in Datasets : Calm(d)
  BY <1>2, <1>3, <1>4, <1>5, <1>6
<1>. QED  BY <1>1, <1>7, <1>8, DatasetFrame

LEMMA InitTells == Init => Story
BY DEF Init, Story, AloneIsAlone, AloneIsTold, SettledStays, Idle

LEMMA NextTells == IInv /\ Story /\ [Next]_vars => Story'
<1>. SUFFICES ASSUME IInv, Story, [Next]_vars PROVE Story'
  OBVIOUS
<1>1. CASE UNCHANGED vars
  BY <1>1 DEF vars, Story, AloneIsAlone, AloneIsTold, SettledStays, Told, Agrees, Harmless, Record
<1>2. ASSUME NEW d \in Datasets, NEW s \in Slugs, Upload(d, s) PROVE Story'
  BY <1>2, DatasetStepsTell
<1>3. ASSUME NEW d \in Datasets, Delete(d) \/ DropTable(d) \/ DropStops(d) \/ Recover(d) PROVE Story'
  BY <1>3, DatasetStepsTell
<1>4. ASSUME NEW a \in Workers, JobStep(a) PROVE Story'
  <2>1. a \in Actors
    BY DEF Actors
  <2>. QED  BY <1>4, <2>1, RequestsTell, JobBeginsTells, JobLoadsRawTells, JobFailsTells, JobCommitsTells
            DEF JobStep
<1>5. ASSUME NEW a \in Requests, RequestStep(a) PROVE Story'
  <2>1. a \in Actors
    BY DEF Actors
  <2>. QED  BY <1>5, <2>1, RequestsTell DEF RequestStep
<1>6. ASSUME NEW a \in Actors, WorkStep(a) PROVE Story'
  BY <1>6, CleanReadsTells, CleanBuildsTells, CleanCommitsTells, AnalyseReadsTells, AnalyseComputesTells,
     AnalyseCommitsTells, WorkStopsTells DEF WorkStep
<1>. QED  BY <1>1, <1>2, <1>3, <1>4, <1>5, <1>6 DEF Next

-----------------------------------------------------------------------------
(* After a cleaning that had the dataset to itself, the clean table, the    *)
(* record of the cleaning, the KPIs and the columns agree, and go on doing  *)
(* so until the next cleaning or ingestion (clean_dataset, analyse_dataset).*)
THEOREM SettledStaysConsistent == Spec => []SettledIsConsistent
<1>1. Spec => []Story
  BY Invariance, InitTells, NextTells, PTL DEF Spec
<1>2. Story => SettledIsConsistent
  BY DEF Story, SettledStays, Agrees, SettledIsConsistent, Record
<1>. QED  BY <1>1, <1>2, PTL
=============================================================================

------------------------- MODULE WarehouseLockProofs -------------------------
(***************************************************************************)
(* WarehouseLock for any accesses, processes and pool: why DuckDB may      *)
(* refuse the file to a holder of the lock, and that the open file has one *)
(* writer or many readers.                                                 *)
(*                                                                         *)
(* Both follow from one invariant: those who hold the lock, the file open  *)
(* or not yet, do not conflict.  Who waits does not matter to it, so the   *)
(* queue is left out of the induction.                                     *)
(***************************************************************************)
EXTENDS WarehouseLock, TLAPS

HoldersAgree == \A a, b \in Holders : a # b => ~Waits(a, b)

IInv == /\ at \in [Accesses -> Places]
        /\ mode \in [Accesses -> Modes]
        /\ HoldersAgree

(* A step that gives nobody the lock, nor a holder another mode.            *)
NoNewHolder ==
    \A a \in Accesses : at'[a] \in {"locked", "open"} => at[a] \in {"locked", "open"} /\ mode'[a] = mode[a]

LEMMA NoNewHolderKeeps ==
    ASSUME HoldersAgree, NoNewHolder
    PROVE  HoldersAgree'
BY DEF HoldersAgree, NoNewHolder, Holders, Waits, Writes

(***************************************************************************)
(* The steps that end an access, and those that move it elsewhere than to  *)
(* the lock.                                                               *)
(***************************************************************************)
LEMMA GoesKeeps ==
    ASSUME IInv, NEW a \in Accesses, NEW place \in Places \ {"locked", "open"},
           Goes(a, place), mode' = mode
    PROVE  IInv'
<1>1. at' \in [Accesses -> Places] /\ mode' \in [Accesses -> Modes]
  BY DEF IInv, Goes
<1>2. NoNewHolder
  BY DEF IInv, Goes, NoNewHolder
<1>. QED  BY <1>1, <1>2, NoNewHolderKeeps DEF IInv

LEMMA StartKeeps ==
    ASSUME IInv, NEW a \in Accesses, NEW m \in Modes, NEW held \in BOOLEAN, Start(a, m, held)
    PROVE  IInv'
<1>1. at' \in [Accesses -> Places] /\ mode' \in [Accesses -> Modes]
  BY DEF IInv, Start, Goes, Places
<1>2. NoNewHolder
  BY DEF IInv, Start, Goes, NoNewHolder
<1>. QED  BY <1>1, <1>2, NoNewHolderKeeps DEF IInv

LEMMA CancelledKeeps ==
    ASSUME IInv, NEW a \in Accesses, Cancelled(a)
    PROVE  IInv'
<1>1. PICK place \in {"idle", "zombie"} : Goes(a, place)
  BY DEF Cancelled
<1>2. mode' = [mode EXCEPT ![a] = OpensFor(a)]
  BY DEF Cancelled
<1>3. OpensFor(a) \in Modes
  BY DEF IInv, OpensFor, Modes
<1>4. at' \in [Accesses -> Places] /\ mode' \in [Accesses -> Modes]
  BY <1>1, <1>2, <1>3 DEF IInv, Goes, Places
<1>5. NoNewHolder
  BY <1>1, <1>2 DEF IInv, Goes, NoNewHolder
<1>. QED  BY <1>4, <1>5, NoNewHolderKeeps DEF IInv

LEMMA CrashKeeps ==
    ASSUME IInv, NEW p \in Processes, Crash(p)
    PROVE  IInv'
<1>1. at' \in [Accesses -> Places] /\ mode' \in [Accesses -> Modes]
  BY DEF IInv, Crash, Places
<1>2. NoNewHolder
  BY DEF IInv, Crash, NoNewHolder
<1>. QED  BY <1>1, <1>2, NoNewHolderKeeps DEF IInv

(* The lock is granted to who conflicts with no holder.                     *)
LEMMA GrantedKeeps ==
    ASSUME IInv, NEW a \in Accesses, Granted(a)
    PROVE  IInv'
<1>1. at' = [at EXCEPT ![a] = "locked"] /\ mode' = mode
  BY DEF Granted, Goes
<1>2. at' \in [Accesses -> Places] /\ mode' \in [Accesses -> Modes]
  BY <1>1 DEF IInv, Places
<1>3. Holders' = Holders \cup {a}
  BY <1>1 DEF IInv, Holders
<1>4. \A b \in Holders : ~Waits(a, b) /\ ~Waits(b, a)
  BY DEF Granted, Waits
<1>5. HoldersAgree'
  BY <1>1, <1>3, <1>4 DEF IInv, HoldersAgree, Waits, Writes
<1>. QED  BY <1>2, <1>5 DEF IInv

LEMMA OpensKeeps ==
    ASSUME IInv, NEW a \in Accesses, Opens(a)
    PROVE  IInv'
<1>1. at' \in [Accesses -> Places] /\ mode' \in [Accesses -> Modes]
  BY DEF IInv, Opens, Goes, Places
<1>2. NoNewHolder
  BY DEF IInv, Opens, Goes, NoNewHolder
<1>. QED  BY <1>1, <1>2, NoNewHolderKeeps DEF IInv

LEMMA ProceedsKeeps ==
    ASSUME IInv, NEW a \in Accesses, Proceeds(a)
    PROVE  IInv'
<1>1. CASE Ensure(a)
  <2>1. PICK place \in {"wanting", "missing"} : Goes(a, place)
    BY <1>1 DEF Ensure
  <2>. QED  BY <1>1, <2>1, GoesKeeps DEF Ensure, Places
<1>2. CASE Creates(a)
  BY <1>2, GoesKeeps DEF Creates, Places
<1>3. CASE Created(a)
  BY <1>3, GoesKeeps DEF Created, Places
<1>4. CASE CheckOut(a)
  BY <1>4, GoesKeeps DEF CheckOut, Places
<1>5. CASE PoolTimesOut(a)
  BY <1>5, GoesKeeps DEF PoolTimesOut, Ends, Places
<1>6. CASE Granted(a)
  BY <1>6, GrantedKeeps
<1>7. CASE Opens(a)
  BY <1>7, OpensKeeps
<1>8. CASE OpenRefused(a)
  BY <1>8, GoesKeeps DEF OpenRefused, Ends, Places
<1>9. CASE Finishes(a)
  BY <1>9, GoesKeeps DEF Finishes, Ends, Places
<1>. QED  BY <1>1, <1>2, <1>3, <1>4, <1>5, <1>6, <1>7, <1>8, <1>9 DEF Proceeds

LEMMA InitHolds == Init => IInv
BY DEF Init, IInv, Places, Modes, HoldersAgree, Holders

LEMMA NextKeeps == IInv /\ [Next]_vars => IInv'
<1>. SUFFICES ASSUME IInv, [Next]_vars PROVE IInv'
  OBVIOUS
<1>1. CASE UNCHANGED vars
  BY <1>1 DEF vars, IInv, HoldersAgree, Holders, Waits, Writes
<1>2. ASSUME NEW a \in Accesses, NEW m \in Modes, NEW held \in BOOLEAN, Start(a, m, held) PROVE IInv'
  BY <1>2, StartKeeps
<1>3. ASSUME NEW a \in Accesses, Proceeds(a) PROVE IInv'
  BY <1>3, ProceedsKeeps
<1>4. ASSUME NEW a \in Accesses, Cancelled(a) PROVE IInv'
  BY <1>4, CancelledKeeps
<1>5. ASSUME NEW a \in Accesses, ThreadEnds(a) PROVE IInv'
  BY <1>5, GoesKeeps DEF ThreadEnds, Places
<1>6. ASSUME NEW p \in Processes, Crash(p) PROVE IInv'
  BY <1>6, CrashKeeps
<1>. QED  BY <1>1, <1>2, <1>3, <1>4, <1>5, <1>6 DEF Next

LEMMA HoldersNeverConflict == Spec => []IInv
BY InitHolds, NextKeeps, PTL DEF Spec

-----------------------------------------------------------------------------
(* DuckDB refuses the file to a holder of the lock only for what the lock   *)
(* does not cover: first opens, threads of cancelled accesses, a plain and  *)
(* a sandboxed reader in one process (warehouse, _ensure_exists,            *)
(* run_sandboxed).                                                          *)
THEOREM RefusalsHaveCauses == Spec => []RefusalHasCause
<1>1. IInv => RefusalHasCause
  <2>. SUFFICES ASSUME IInv, NEW a \in Accesses, NEW b \in Accesses,
                       at[a] = "locked", b \in Refusals(a), at[b] \notin {"creating", "zombie"}
                PROVE  b \in Peers(a) /\ {mode[a], mode[b]} = {"read", "sandboxed"}
    BY DEF RefusalHasCause
  <2>1. at[b] = "open" /\ b # a /\ Clash(a, b)
    BY DEF Refusals, HasFile
  <2>2. ~Waits(a, b)
    BY <2>1 DEF IInv, HoldersAgree, Holders
  <2>3. mode[a] \in {"read", "sandboxed"} /\ mode[b] \in {"read", "sandboxed"}
    BY <2>2 DEF IInv, Waits, Writes, Modes
  <2>4. OpensFor(a) = mode[a] /\ OpensFor(b) = mode[b]
    BY <2>1 DEF OpensFor
  <2>5. b \in Peers(a) /\ mode[a] # mode[b]
    BY <2>1, <2>3, <2>4 DEF Clash
  <2>. QED  BY <2>3, <2>5
<1>. QED  BY <1>1, HoldersNeverConflict, PTL

-----------------------------------------------------------------------------
(***************************************************************************)
(* The refinement.                                                         *)
(***************************************************************************)
Inside == [a \in Accesses |-> Use(a)]

(* What a step that lets nobody in does to who is inside.                   *)
LEMMA OutgoingLeave ==
    ASSUME IInv, NoNewHolder, \A a \in Accesses : at'[a] = "open" => at[a] = "open"
    PROVE  RW!RWNext
<1>. DEFINE S == {a \in Accesses : at'[a] # "open"}
<1>1. \A a \in Accesses : Use(a)' = IF a \in S THEN "no" ELSE Use(a)
  BY DEF Use, NoNewHolder, Writes
<1>2. RW!Leave(S)
  BY <1>1 DEF RW!Leave
<1>. QED  BY <1>2 DEF RW!RWNext

LEMMA OpensEnters ==
    ASSUME IInv, NEW a \in Accesses, Opens(a)
    PROVE  RW!RWNext
<1>. DEFINE use == IF Writes(a) THEN "writes" ELSE "reads"
<1>1. at' = [at EXCEPT ![a] = "open"] /\ mode' = mode /\ at[a] = "locked"
  BY DEF Opens, Goes
<1>2. Inside' = [Inside EXCEPT ![a] = use]
  BY <1>1 DEF Inside, Use, Writes, IInv
<1>3. ASSUME NEW b \in Accesses \ {a} PROVE Use(b) = "no" \/ (Use(b) = "reads" /\ use = "reads")
  <2>1. at[b] = "open" => ~Writes(a) /\ ~Writes(b)
    BY <1>1 DEF IInv, HoldersAgree, Holders, Waits
  <2>. QED  BY <2>1 DEF Use
<1>4. RW!Enter(a, use)
  BY <1>1, <1>2, <1>3 DEF RW!Enter, RW!Free, Inside, Use
<1>. QED  BY <1>4 DEF RW!RWNext

(* All steps but Opens, and Granted, which lets nobody in.                  *)
LEMMA StepsMap ==
    ASSUME IInv, Next
    PROVE  RW!RWNext
<1>. USE DEF IInv
<1>1. ASSUME NEW a \in Accesses, NEW m \in Modes, NEW held \in BOOLEAN, Start(a, m, held) PROVE RW!RWNext
  <2>1. NoNewHolder /\ \A b \in Accesses : at'[b] = "open" => at[b] = "open"
    BY <1>1 DEF Start, Goes, NoNewHolder
  <2>. QED  BY <2>1, OutgoingLeave
<1>2. ASSUME NEW a \in Accesses, Granted(a) PROVE RW!RWNext
  <2>1. at' = [at EXCEPT ![a] = "locked"] /\ mode' = mode /\ at[a] = "queued"
    BY <1>2 DEF Granted, Goes
  <2>2. Inside' = Inside
    BY <2>1 DEF Inside, Use, Writes
  <2>3. RW!Leave({})
    BY <2>2 DEF RW!Leave, Inside
  <2>. QED  BY <2>3 DEF RW!RWNext
<1>3. ASSUME NEW a \in Accesses, NEW place \in Places \ {"locked", "open"}, Goes(a, place), mode' = mode
      PROVE  RW!RWNext
  <2>1. NoNewHolder /\ \A b \in Accesses : at'[b] = "open" => at[b] = "open"
    BY <1>3 DEF Goes, NoNewHolder
  <2>. QED  BY <2>1, OutgoingLeave
<1>4. ASSUME NEW a \in Accesses, Cancelled(a) PROVE RW!RWNext
  <2>1. PICK place \in {"idle", "zombie"} : Goes(a, place)
    BY <1>4 DEF Cancelled
  <2>2. mode' = [mode EXCEPT ![a] = OpensFor(a)]
    BY <1>4 DEF Cancelled
  <2>3. NoNewHolder /\ \A b \in Accesses : at'[b] = "open" => at[b] = "open"
    BY <2>1, <2>2 DEF Goes, NoNewHolder
  <2>. QED  BY <2>3, OutgoingLeave
<1>5. ASSUME NEW p \in Processes, Crash(p) PROVE RW!RWNext
  <2>1. NoNewHolder /\ \A b \in Accesses : at'[b] = "open" => at[b] = "open"
    BY <1>5 DEF Crash, NoNewHolder
  <2>. QED  BY <2>1, OutgoingLeave
<1>6. ASSUME NEW a \in Accesses, Proceeds(a) PROVE RW!RWNext
  <2>1. CASE Ensure(a)
    <3>1. PICK place \in {"wanting", "missing"} : Goes(a, place)
      BY <2>1 DEF Ensure
    <3>. QED  BY <2>1, <3>1, <1>3 DEF Ensure, Places
  <2>2. CASE Creates(a)
    BY <2>2, <1>3 DEF Creates, Places
  <2>3. CASE Created(a) \/ CheckOut(a)
    BY <2>3, <1>3 DEF Created, CheckOut, Places
  <2>4. CASE PoolTimesOut(a) \/ OpenRefused(a) \/ Finishes(a)
    BY <2>4, <1>3 DEF PoolTimesOut, OpenRefused, Finishes, Ends, Places
  <2>. QED  BY <1>2, <1>6, <2>1, <2>2, <2>3, <2>4, OpensEnters DEF Proceeds
<1>7. ASSUME NEW a \in Accesses, ThreadEnds(a) PROVE RW!RWNext
  BY <1>7, <1>3 DEF ThreadEnds, Places
<1>. QED  BY <1>1, <1>4, <1>5, <1>6, <1>7 DEF Next

(* The file that the accesses of a workspace have open through warehouse()  *)
(* has one writer or any number of readers, whatever is cancelled, refused  *)
(* or killed.                                                               *)
THEOREM WarehouseIsReadersWriters == Spec => ImplementsReadersWriters
<1>1. Init => RW!RWInit
  BY DEF Init, RW!RWInit, Use
<1>2. IInv /\ [Next]_vars => [RW!RWNext]_Inside
  <2>1. IInv /\ Next => RW!RWNext
    BY StepsMap
  <2>2. UNCHANGED vars => UNCHANGED Inside
    BY DEF vars, Inside, Use, Writes
  <2>. QED  BY <2>1, <2>2
<1>. QED  BY <1>1, <1>2, HoldersNeverConflict, PTL DEF Spec, ImplementsReadersWriters, RW!RWSpec, Inside
=============================================================================

--------------------------- MODULE WarehouseLock ----------------------------
(***************************************************************************)
(* Access to the DuckDB file of a workspace: data/warehouse.py, with the   *)
(* connection pool of db/session.py.                                       *)
(*                                                                         *)
(* The API and the worker are processes with a pool each.  An access makes *)
(* sure that the file exists, takes a second connection from the pool      *)
(* besides the one its caller's session may hold, asks Postgres on it for  *)
(* the advisory lock, and opens the file; DuckDB work runs in threads,     *)
(* which a cancellation does not stop.                                     *)
(***************************************************************************)
EXTENDS Naturals, Sequences, FiniteSets

CONSTANTS
    Accesses,   \* accesses that can be under way at once
    Processes,
    ProcessOf,  \* the process of each access
    PoolSize    \* pool_size + max_overflow

ASSUME LockAssumption ==
    /\ IsFiniteSet(Accesses)
    /\ ProcessOf \in [Accesses -> Processes]
    /\ PoolSize \in Nat \ {0}

VARIABLES
    at,       \* where each access stands
    mode,     \* how it opens the file
    session,  \* whether its caller's session holds a pooled connection
    queue,    \* accesses that wait for the advisory lock, first come first
    file      \* the DuckDB file exists

vars == <<at, mode, session, queue, file>>

Modes == {"read", "sandboxed", "write"}
Places == {"idle", "ensure", "missing", "creating", "wanting", "queued", "locked", "open", "zombie"}

TypeOK ==
    /\ at \in [Accesses -> Places]
    /\ mode \in [Accesses -> Modes]
    /\ session \in [Accesses -> BOOLEAN]
    /\ queue \in Seq(Accesses)
    /\ \A a \in Accesses : at[a] = "queued" <=> \E i \in 1..Len(queue) : queue[i] = a
    /\ file \in BOOLEAN

Init ==
    /\ at = [a \in Accesses |-> "idle"]
    /\ mode = [a \in Accesses |-> "read"]
    /\ session = [a \in Accesses |-> FALSE]
    /\ queue = <<>>
    /\ file = FALSE

(* Mutants: the lock is taken shared by everybody; it covers the work but   *)
(* not the opening of the file.                                             *)
WaitsShared(a, b) == FALSE
HoldersOnceOpen == {a \in Accesses : at[a] = "open"}

Holders == {a \in Accesses : at[a] \in {"locked", "open"}}
Peers(a) == {b \in Accesses : ProcessOf[b] = ProcessOf[a]}

(* Pooled connections in use in the process of a: sessions in a             *)
(* transaction, and accesses at their lock.                                 *)
InUse(a) ==
    Cardinality({b \in Peers(a) : session[b]})
        + Cardinality({b \in Peers(a) : at[b] \in {"queued", "locked", "open"}})

Writes(a) == mode[a] = "write"
Waits(a, b) == Writes(a) \/ Writes(b)

(* Who has a DuckDB instance of the file: an access under its lock, a first *)
(* open, a thread whose access was cancelled.                               *)
HasFile(a) == at[a] \in {"creating", "open", "zombie"}

(* The first open of the file is for writing, whatever the access wants.    *)
OpensFor(a) == IF at[a] \in {"missing", "creating"} THEN "write" ELSE mode[a]

(* DuckDB's own rules: within a process all connections of a file have one  *)
(* configuration; between processes a writer is alone.                      *)
Clash(a, b) ==
    IF b \in Peers(a)
    THEN OpensFor(a) # OpensFor(b)
    ELSE "write" \in {OpensFor(a), OpensFor(b)}

Refusals(a) == {b \in Accesses \ {a} : HasFile(b) /\ Clash(a, b)}

Goes(a, place) == at' = [at EXCEPT ![a] = place]

(* The access is over, and with it the request or job that made it.         *)
Ends(a) ==
    /\ Goes(a, "idle")
    /\ session' = [session EXCEPT ![a] = FALSE]
    /\ queue' = SelectSeq(queue, LAMBDA b : b # a)

(***************************************************************************)
(* warehouse(): the steps up to the open file.                             *)
(***************************************************************************)
Start(a, m, held) ==
    /\ at[a] = "idle"
    /\ held => InUse(a) < PoolSize
    /\ Goes(a, "ensure")
    /\ mode' = [mode EXCEPT ![a] = m]
    /\ session' = [session EXCEPT ![a] = held]
    /\ UNCHANGED <<queue, file>>

(* _ensure_exists, outside the lock: look for the file, then create it.     *)
Ensure(a) ==
    /\ at[a] = "ensure"
    /\ Goes(a, IF file THEN "wanting" ELSE "missing")
    /\ UNCHANGED <<mode, session, queue, file>>

Creates(a) ==
    /\ at[a] = "missing"
    /\ Refusals(a) = {}
    /\ Goes(a, "creating")
    /\ file' = TRUE
    /\ UNCHANGED <<mode, session, queue>>

Created(a) ==
    /\ at[a] = "creating"
    /\ Goes(a, "wanting")
    /\ UNCHANGED <<mode, session, queue, file>>

(* engine.connect() and the statement that asks for the lock.               *)
CheckOut(a) ==
    /\ at[a] = "wanting"
    /\ InUse(a) < PoolSize
    /\ Goes(a, "queued")
    /\ queue' = Append(queue, a)
    /\ UNCHANGED <<mode, session, file>>

(* Mutant: pool_timeout is None.                                            *)
PoolNeverTimesOut(a) == FALSE /\ UNCHANGED vars

PoolTimesOut(a) ==
    /\ at[a] = "wanting"
    /\ InUse(a) >= PoolSize
    /\ Ends(a)
    /\ UNCHANGED <<mode, file>>

(* Postgres grants the lock when no holder and nobody who has waited longer *)
(* is in the way.                                                           *)
NobodyAhead(a) ==
    \A i \in 1..Len(queue) :
        queue[i] = a => \A j \in 1..(i - 1) : ~Waits(a, queue[j])

Granted(a) ==
    /\ at[a] = "queued"
    /\ \A b \in Holders : ~Waits(a, b)
    /\ NobodyAhead(a)
    /\ Goes(a, "locked")
    /\ queue' = SelectSeq(queue, LAMBDA b : b # a)
    /\ UNCHANGED <<mode, session, file>>

Opens(a) ==
    /\ at[a] = "locked"
    /\ Refusals(a) = {}
    /\ Goes(a, "open")
    /\ UNCHANGED <<mode, session, queue, file>>

(* DuckDB refuses the file, to the creation as to the open under the lock.  *)
OpenRefused(a) ==
    /\ at[a] \in {"missing", "locked"}
    /\ Refusals(a) # {}
    /\ Ends(a)
    /\ UNCHANGED <<mode, file>>

(* The work is done, or failed, or, in run_sandboxed, its deadline passed:  *)
(* the query is then interrupted and its thread awaited before the          *)
(* connection is closed and the transaction with the lock ended.            *)
Finishes(a) ==
    /\ at[a] = "open"
    /\ Ends(a)
    /\ UNCHANGED <<mode, file>>

(***************************************************************************)
(* A cancellation (ARQ's timeout of a job, shutdown) ends the access and   *)
(* gives the lock back; a thread that is in DuckDB goes on.                *)
(***************************************************************************)

Cancelled(a) ==
    /\ at[a] \notin {"idle", "zombie"}
    /\ \E place \in IF HasFile(a) THEN {"idle", "zombie"} ELSE {"idle"} : Goes(a, place)
    /\ mode' = [mode EXCEPT ![a] = OpensFor(a)]
    /\ session' = [session EXCEPT ![a] = FALSE]
    /\ queue' = SelectSeq(queue, LAMBDA b : b # a)
    /\ UNCHANGED file

ThreadEnds(a) ==
    /\ at[a] = "zombie"
    /\ Goes(a, "idle")
    /\ UNCHANGED <<mode, session, queue, file>>

(* The lock is scoped to a transaction, so a process takes its locks along. *)
Crash(p) ==
    LET died == {a \in Accesses : ProcessOf[a] = p}
    IN  /\ at' = [a \in Accesses |-> IF a \in died THEN "idle" ELSE at[a]]
        /\ session' = [a \in Accesses |-> session[a] /\ a \notin died]
        /\ queue' = SelectSeq(queue, LAMBDA b : b \notin died)
        /\ UNCHANGED <<mode, file>>

Proceeds(a) ==
    \/ Ensure(a) \/ Creates(a) \/ Created(a) \/ CheckOut(a) \/ PoolTimesOut(a)
    \/ Granted(a) \/ Opens(a) \/ OpenRefused(a) \/ Finishes(a)

Next ==
    \/ \E a \in Accesses :
          \/ \E m \in Modes, held \in BOOLEAN : Start(a, m, held)
          \/ Proceeds(a) \/ Cancelled(a) \/ ThreadEnds(a)
    \/ \E p \in Processes : Crash(p)

Spec == Init /\ [][Next]_vars

(* Every access goes on: the pool answers or times out, Postgres grants     *)
(* what it can, DuckDB statements end.                                      *)
FairSpec == Spec /\ \A a \in Accesses : WF_vars(Proceeds(a))

-----------------------------------------------------------------------------
(***************************************************************************)
(* Properties.                                                             *)
(***************************************************************************)

(* One writer or many readers of the open file: the lock and its order of   *)
(* release keep what ReadersWriters says, whatever is cancelled or killed.  *)
Use(a) == IF at[a] # "open" THEN "no" ELSE IF Writes(a) THEN "writes" ELSE "reads"

RW == INSTANCE ReadersWriters WITH inside <- [a \in Accesses |-> Use(a)]
ImplementsReadersWriters == RW!RWSpec

(* When DuckDB refuses a file to an access that holds the lock: another     *)
(* process's or mode's first open outside the lock, the thread of a         *)
(* cancelled access, or a sandboxed reader beside a plain one in the same   *)
(* process.  Every other clash is kept away by the lock.                    *)
RefusalHasCause ==
    \A a, b \in Accesses :
        at[a] = "locked" /\ b \in Refusals(a) =>
            \/ at[b] \in {"creating", "zombie"}
            \/ b \in Peers(a) /\ {mode[a], mode[b]} = {"read", "sandboxed"}

(* Nobody waits for ever: requests that each hold a session's connection    *)
(* and want one more time out, and a writer is not kept waiting by readers  *)
(* that come after it.                                                      *)
AccessesEnd == \A a \in Accesses : at[a] \notin {"idle", "zombie"} ~> at[a] \in {"idle", "zombie"}
=============================================================================

------------------------------ MODULE StarModel -----------------------------
(***************************************************************************)
(* The dimensional model of a workspace: services/modelling.py, the views  *)
(* of data/star.py and the questions that are pointed at them.             *)
(*                                                                         *)
(* Detection proposes relationships between datasets, a person confirms or *)
(* rejects each, and every decision rebuilds the model: roles in Postgres, *)
(* then a view per fact in DuckDB.  A view names tables, not datasets, and *)
(* nothing else writes it: not ingestion, not the deletion of a dataset.   *)
(***************************************************************************)
EXTENDS Naturals, FiniteSets

CONSTANTS
    Datasets, Slugs, SlugOf,  \* uploads over time, and the table name each gets
    Edges, From, To,          \* what the data supports: a column of From that resolves in To
    Requests

ASSUME StarAssumption ==
    /\ SlugOf \in [Datasets -> Slugs]
    /\ From \in [Edges -> Datasets] /\ To \in [Edges -> Datasets]
    /\ \A e \in Edges : From[e] # To[e]

VARIABLES
    ds,       \* each dataset: not uploaded yet, busy, ready and cleaned, deleted
    tables,   \* slugs with a table in the clean schema
    role,     \* datasets.table_role
    rel,      \* dataset_relationships.confirmed, "none" without a row
    view,     \* what each view of the star schema joins, NoView without one
    req,      \* the requests under way
    settled,  \* history: the last rebuild ran alone, and nothing has changed since
    agreed,   \* history: relationships that someone once confirmed
    broken    \* history: a rebuild stopped half-way

data == <<ds, tables>>
vars == <<ds, tables, role, rel, view, req, settled, agreed, broken>>

NoView == [made |-> FALSE, joins |-> {}]
Decisions == {"proposed", "confirmed", "rejected"}

Idle == [at |-> "idle"]
Detection == [at : {"detecting"}, found : SUBSET Edges, known : SUBSET Edges]
Decision == [at : {"deciding", "decided"}, edge : Edges, seen : Decisions, decision : {"confirmed", "rejected"}]
Rebuild == [at : {"rebuilding"}]
Building == [at : {"read", "committed"}, ready : SUBSET Datasets, joins : SUBSET Edges,
             written : SUBSET Datasets, alone : BOOLEAN]
Question == [at : {"asked"}, dataset : Datasets, fact : BOOLEAN, alone : BOOLEAN]
Targeted == [at : {"targeted"}, dataset : Datasets, star : BOOLEAN, offered : SUBSET Edges, alone : BOOLEAN]

TypeOK ==
    /\ ds \in [Datasets -> {"new", "busy", "ready", "deleted"}]
    /\ tables \subseteq Slugs
    /\ role \in [Datasets -> {"unknown", "fact", "dimension"}]
    /\ rel \in [Edges -> {"none"} \cup Decisions]
    /\ view \in [Slugs -> [made : BOOLEAN, joins : SUBSET Edges]]
    /\ req \in [Requests ->
          {Idle} \cup Detection \cup Decision \cup Rebuild \cup Building \cup Question \cup Targeted]
    /\ settled \in BOOLEAN /\ broken \in BOOLEAN
    /\ agreed \subseteq Edges

Init ==
    /\ ds = [d \in Datasets |-> "new"]
    /\ tables = {}
    /\ role = [d \in Datasets |-> "unknown"]
    /\ rel = [e \in Edges |-> "none"]
    /\ view = [s \in Slugs |-> NoView]
    /\ req = [r \in Requests |-> Idle]
    /\ settled = FALSE /\ broken = FALSE
    /\ agreed = {}

Live == {d \in Datasets : ds[d] \in {"busy", "ready"}}
Ready == {d \in Datasets : ds[d] = "ready"}  \* _ready_datasets
Within(S) == {e \in Edges : From[e] \in S /\ To[e] \in S}

(* History: what was read before a step of another is out of date.          *)
Overtaken(q) == IF "alone" \in DOMAIN q THEN [q EXCEPT !.alone = FALSE] ELSE q
Disturbs(r, q) == req' = [p \in Requests |-> IF p = r THEN q ELSE Overtaken(req[p])]

Goes(r, q) == req' = [req EXCEPT ![r] = q]

(***************************************************************************)
(* Datasets come, are ingested again and go.  A slug is free for a new     *)
(* upload once the row that had it is deleted, which also deletes its      *)
(* relationships and drops its table; DatasetStore has the steps between.  *)
(***************************************************************************)
DataChange(ds1, tables1, rel1) ==
    /\ ds' = ds1 /\ tables' = tables1 /\ rel' = rel1
    /\ req' = [p \in Requests |-> Overtaken(req[p])]
    /\ settled' = FALSE
    /\ UNCHANGED <<role, view, agreed, broken>>

Upload(d) ==
    /\ ds[d] = "new"
    /\ \A c \in Live : SlugOf[c] # SlugOf[d]
    /\ DataChange([ds EXCEPT ![d] = "busy"], tables, rel)

Finish(d) ==
    /\ ds[d] = "busy"
    /\ DataChange([ds EXCEPT ![d] = "ready"], tables \cup {SlugOf[d]}, rel)

Reingest(d) ==
    /\ ds[d] = "ready"
    /\ DataChange([ds EXCEPT ![d] = "busy"], tables, rel)

Cascade(d) == [e \in Edges |-> IF d \in {From[e], To[e]} THEN "none" ELSE rel[e]]

Delete(d) ==
    /\ d \in Live
    /\ DataChange([ds EXCEPT ![d] = "deleted"], tables \ {SlugOf[d]}, Cascade(d))

(***************************************************************************)
(* detect_relationships: the scan and the rows that exist, then the new    *)
(* rows.  The foreign keys and the unique constraint refuse what has       *)
(* changed since; what was inserted between the scan and the look at the   *)
(* rows is as good as inserted after both, where the insert then fails.    *)
(***************************************************************************)
DetectReads(r) ==
    /\ req[r] = Idle
    /\ Cardinality(Ready) >= 2
    /\ Goes(r, [at |-> "detecting", found |-> Within(Ready), known |-> {e \in Edges : rel[e] # "none"}])
    /\ UNCHANGED <<data, role, rel, view, settled, agreed, broken>>

(* Mutant: what is found again is proposed again.                           *)
ProposedAgain(q) == q.found

Proposed(q) == q.found \ q.known

DetectCommits(r) ==
    LET new == Proposed(req[r])
    IN  /\ req[r].at = "detecting"
        /\ new \subseteq Within(Live)
        /\ \A e \in new \ req[r].known : rel[e] = "none"
        /\ rel' = [e \in Edges |-> IF e \in new THEN "proposed" ELSE rel[e]]
        /\ Goes(r, Idle)
        /\ UNCHANGED <<data, role, view, settled, agreed, broken>>

(***************************************************************************)
(* decide: the row is loaded, then written and committed if the decision   *)
(* is another than the one loaded, and the model rebuilt.                  *)
(***************************************************************************)

DecideReads(r, e, decision) ==
    /\ req[r] = Idle
    /\ rel[e] # "none"
    /\ Goes(r, [at |-> "deciding", edge |-> e, seen |-> rel[e], decision |-> decision])
    /\ UNCHANGED <<data, role, rel, view, settled, agreed, broken>>

DecideCommits(r) ==
    LET q == req[r]
    IN  /\ q.at = "deciding"
        /\ q.decision # q.seen => rel[q.edge] # "none"
        /\ rel' = IF q.decision = q.seen THEN rel ELSE [rel EXCEPT ![q.edge] = q.decision]
        /\ agreed' = IF q.decision = "confirmed" THEN agreed \cup {q.edge} ELSE agreed
        /\ Disturbs(r, [q EXCEPT !.at = "decided"])
        /\ settled' = FALSE
        /\ UNCHANGED <<data, role, view, broken>>

RebuildStarts(r) ==
    /\ req[r] = Idle
    /\ Goes(r, [at |-> "rebuilding"])
    /\ UNCHANGED <<data, role, rel, view, settled, agreed, broken>>

(***************************************************************************)
(* rebuild_model.  The row that decide has loaded is in the session: it is *)
(* taken to say what this request decided, whoever decided otherwise since.*)
(***************************************************************************)
(* Mutant: what nobody has rejected is usable.                              *)
UsableUnlessRejected(e) == rel[e] \in {"proposed", "confirmed"}

IsUsable(e) == rel[e] = "confirmed"

Taken(q) ==
    IF q.at = "decided"
    THEN {e \in Edges \ {q.edge} : IsUsable(e)}
            \cup (IF q.decision = "confirmed" /\ rel[q.edge] # "none" THEN {q.edge} ELSE {})
    ELSE {e \in Edges : IsUsable(e)}

JoinsOf(d, edges) == {e \in edges : From[e] = d}

(* Mutant: a table that is pointed at is a dimension, wherever it points.   *)
RoleInDimensionsFirst(d, edges) ==
    IF \E e \in edges : To[e] = d THEN "dimension"
    ELSE IF JoinsOf(d, edges) # {} THEN "fact"
    ELSE "unknown"

RoleIn(d, edges) ==
    IF JoinsOf(d, edges) # {} THEN "fact"
    ELSE IF \E e \in edges : To[e] = d THEN "dimension"
    ELSE "unknown"

(* Only a role that differs from the loaded one will be written.            *)
RebuildReads(r) ==
    LET q == req[r]
        joins == Taken(q) \cap Within(Ready)
    IN  /\ q.at \in {"decided", "rebuilding"}
        /\ Disturbs(r, [at |-> "read", ready |-> Ready, joins |-> joins,
                        written |-> {d \in Ready : RoleIn(d, joins) # role[d]},
                        alone |-> /\ \A p \in Requests \ {r} : req[p].at \notin {"read", "committed"}
                                  /\ Taken(q) = {e \in Edges : IsUsable(e)}])
        /\ UNCHANGED <<data, role, rel, view, settled, agreed, broken>>

(* The row of a dataset that was deleted since cannot be written.           *)
RebuildCommits(r) ==
    LET q == req[r]
    IN  /\ q.at = "read"
        /\ q.written \subseteq Live
        /\ role' = [d \in Datasets |-> IF d \in q.written THEN RoleIn(d, q.joins) ELSE role[d]]
        /\ Disturbs(r, [q EXCEPT !.at = "committed", !.written = {}])
        /\ settled' = FALSE
        /\ UNCHANGED <<data, rel, view, agreed, broken>>

Facts(q) == {d \in q.ready : RoleIn(d, q.joins) = "fact"}
Definition(d, edges) == [made |-> TRUE, joins |-> JoinsOf(d, edges)]
Bound(d, edges) == {SlugOf[c] : c \in {d} \cup {To[e] : e \in JoinsOf(d, edges)}}

(* All views under one exclusive lock.  The statements come one after the   *)
(* other, and one that names a table that is gone fails and ends the rest.  *)
Applied(q, S) ==
    [s \in Slugs |-> IF \E d \in S : SlugOf[d] = s
                     THEN Definition(CHOOSE d \in S : SlugOf[d] = s, q.joins)
                     ELSE view[s]]

RebuildApplies(r) ==
    LET q == req[r]
    IN  /\ q.at = "committed"
        /\ \A d \in Facts(q) : Bound(d, q.joins) \subseteq tables
        /\ view' = Applied(q, Facts(q))
        /\ settled' = q.alone
        /\ Disturbs(r, Idle)
        /\ UNCHANGED <<data, role, rel, agreed, broken>>

(* Any failure of a request: a refused commit, a lock that is not granted,  *)
(* a view that does not bind, a process that dies.  Views made before stay. *)
Stops(r) ==
    /\ req[r] # Idle
    /\ \/ UNCHANGED view
       \/ /\ req[r].at = "committed"
          /\ \E S \in SUBSET Facts(req[r]) : view' = Applied(req[r], S)
    /\ broken' = (broken \/ req[r].at \in {"decided", "read", "committed"})
    /\ settled' = (settled /\ req[r].at # "committed")
    /\ Disturbs(r, Idle)
    /\ UNCHANGED <<data, role, rel, agreed>>

(***************************************************************************)
(* A question about a dataset, to the assistant or the fleet: its row and  *)
(* role, star_table_for, star_columns.                                     *)
(***************************************************************************)
Ask(r, d) ==
    /\ req[r] = Idle
    /\ d \in Ready
    /\ Goes(r, [at |-> "asked", dataset |-> d, fact |-> role[d] = "fact", alone |-> settled])
    /\ UNCHANGED <<data, role, rel, view, settled, agreed, broken>>

Offered(d) == {e \in JoinsOf(d, Edges) : To[e] \in Ready /\ IsUsable(e)}

(* Mutant: star_table_for looks for a view and not at the role.             *)
AskTargetsAnyView(r) ==
    LET q == req[r]
    IN  /\ q.at = "asked"
        /\ Goes(r, [at |-> "targeted", dataset |-> q.dataset, alone |-> q.alone,
                    star |-> view[SlugOf[q.dataset]].made,
                    offered |-> IF q.fact THEN Offered(q.dataset) ELSE {}])
        /\ UNCHANGED <<data, role, rel, view, settled, agreed, broken>>

AskTargets(r) ==
    LET q == req[r]
    IN  /\ q.at = "asked"
        /\ Goes(r, [at |-> "targeted", dataset |-> q.dataset, alone |-> q.alone,
                    star |-> q.fact /\ view[SlugOf[q.dataset]].made,
                    offered |-> IF q.fact THEN Offered(q.dataset) ELSE {}])
        /\ UNCHANGED <<data, role, rel, view, settled, agreed, broken>>

Answers(r) ==
    /\ req[r].at = "targeted"
    /\ Goes(r, Idle)
    /\ UNCHANGED <<data, role, rel, view, settled, agreed, broken>>

Next ==
    \/ \E d \in Datasets : Upload(d) \/ Finish(d) \/ Reingest(d) \/ Delete(d)
    \/ \E r \in Requests :
          \/ DetectReads(r) \/ DetectCommits(r)
          \/ \E e \in Edges, decision \in {"confirmed", "rejected"} : DecideReads(r, e, decision)
          \/ DecideCommits(r) \/ RebuildStarts(r)
          \/ RebuildReads(r) \/ RebuildCommits(r) \/ RebuildApplies(r) \/ Stops(r)
          \/ (\E d \in Datasets : Ask(r, d)) \/ AskTargets(r) \/ Answers(r)

Spec == Init /\ [][Next]_vars

-----------------------------------------------------------------------------
(***************************************************************************)
(* Properties.                                                             *)
(***************************************************************************)

(* Nothing joins itself automatically: no view ever joins what nobody has   *)
(* confirmed, whichever detections and rebuilds overlap.                    *)
NothingJoinsItself == \A s \in Slugs : view[s].joins \subseteq agreed

(* A rebuild that nothing interfered with leaves the model that was         *)
(* decided: each dataset's role, and each fact's view joins its confirmed   *)
(* relationships, all of them and no other.                                 *)
RebuildSettles ==
    settled => \A d \in Ready :
        LET usable == {e \in Within(Ready) : rel[e] = "confirmed"}
        IN  /\ role[d] = RoleIn(d, usable)
            /\ role[d] = "fact" => view[SlugOf[d]] = Definition(d, usable)
            /\ (\E e \in usable : From[e] = d) => role[d] = "fact"

(* The prompt describes the columns that the queried view has: a question   *)
(* asked of a settled model, and overtaken by nothing, is offered exactly   *)
(* the joins of the view it is pointed at, and none on the plain table.     *)
PromptMatchesTable ==
    \A r \in Requests :
        req[r].at = "targeted" /\ req[r].alone =>
            req[r].offered = IF req[r].star THEN view[SlugOf[req[r].dataset]].joins ELSE {}

(* Detection refreshes the evidence but never overturns a human decision.   *)
DecisionsStand ==
    [][\A e \in Edges :
          rel[e] \in {"confirmed", "rejected"} /\ rel'[e] # rel[e] =>
              \/ rel'[e] = "none" /\ ~({From[e], To[e]} \subseteq {d \in Datasets : ds'[d] \in {"busy", "ready"}})
              \/ \E r \in Requests : req[r].at = "deciding" /\ req[r].edge = e /\ req[r].decision = rel'[e]]_vars

(* DatasetRelationship.is_usable: only a confirmed relationship may shape a *)
(* query.  Yet with nothing under way and no rebuild ever cut short, a fact *)
(* can be queried through a relationship that was rejected, or with the     *)
(* table of a later dataset that took the name of a deleted one.            *)
OnlyConfirmedShapesQueries ==
    ~broken /\ (\A r \in Requests : req[r] = Idle) =>
        \A d \in Ready, e \in Edges :
            role[d] = "fact" /\ e \in view[SlugOf[d]].joins /\ SlugOf[To[e]] \in tables
                => rel[e] = "confirmed"
=============================================================================

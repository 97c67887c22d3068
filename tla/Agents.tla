------------------------------- MODULE Agents -------------------------------
(***************************************************************************)
(* Questions and briefings about one dataset: services/assistant.py,       *)
(* services/fleet.py and the agents of llm/.                               *)
(*                                                                         *)
(* Either kind of request holds one Postgres transaction from its first    *)
(* read to its commit, over every call of the language model.  The analyst *)
(* (llm/agent.py) answers a question alone or as one of the specialists    *)
(* that a briefing runs side by side.  Meanwhile the dataset is ingested   *)
(* again, or deleted.  What a model answers is a choice here: how often    *)
(* each request called it is counted, what it said is not kept.            *)
(***************************************************************************)
EXTENDS Naturals, FiniteSets

CONSTANTS
    Asks, Briefings,        \* requests
    Threads, OldThreads,    \* conversations, and those opened earlier
    MaxSqlAttempts,         \* MAX_SQL_ATTEMPTS
    MaxSpecialists,         \* MAX_SPECIALISTS
    Shapes,                 \* what the columns may support: a date, a dimension, a customer key
    TwoModels,              \* gemini_reasoning_model differs from gemini_model
    MaxBegun                \* bound: requests that get to begin

ASSUME AgentsAssumption ==
    /\ Asks \cap Briefings = {} /\ OldThreads \subseteq Threads
    /\ MaxSqlAttempts \in Nat \ {0} /\ MaxSpecialists \in Nat \ {0}
    /\ MaxBegun \in Nat /\ TwoModels \in BOOLEAN
    /\ Shapes \subseteq [time : BOOLEAN, dimension : BOOLEAN, customer : BOOLEAN]

Requests == Asks \cup Briefings
Specialist == {"analyst", "investigator", "sentinel", "forecaster", "retention"}

VARIABLES
    shape,     \* what the columns of the dataset support
    dataset,   \* its row: ready, busy, gone
    table,     \* whether its clean table is there
    req,       \* the requests, each with its progress
    agent,     \* the analyst at work for a request
    log,       \* history: what became of the queries the analyst wrote
    calls,     \* history: model calls that were answered, per request
    started,   \* requests that have begun their transaction: now() of the last one
    message,   \* rows of messages
    brief      \* rows of briefing_runs, with their briefing_findings

store == <<message, brief>>
vars == <<shape, dataset, table, req, agent, log, calls, started, message, brief>>

Off == [at |-> "off", attempt |-> 0, usage |-> 0]
Outcome == {"answered", "declined", "exhausted", "error"}
Finding == {"waiting", "ok", "refused", "failed"}

Waiting == [at |-> "idle"]
Asking == [at : {"asking"}, thread : Threads, stamp : Nat]
Planning == [at : {"planning"}]
Looking == [at : {"looking", "degraded", "writing"}, question : BOOLEAN, usage : Nat,
            chosen : SUBSET Specialist, finding : [Specialist -> Finding]]
Over == [at : {"done", "refused", "failed"}]

Message == [of : Asks, thread : Threads, role : {"user", "assistant"}, stamp : Nat,
            sql : 0..MaxSqlAttempts, attempts : Nat, usage : Nat]
Brief == [of : Briefings, question : BOOLEAN, chosen : SUBSET Specialist,
          finding : [Specialist -> Finding], usage : Nat]

TypeOK ==
    /\ shape \in Shapes
    /\ dataset \in {"ready", "busy", "gone"}
    /\ table \in BOOLEAN
    /\ req \in [Requests -> {Waiting} \cup Asking \cup Planning \cup Looking \cup Over]
    /\ agent \in [Requests -> [at : {"off", "writing", "querying", "narrating"} \cup Outcome,
                               attempt : 0..MaxSqlAttempts, usage : Nat]]
    /\ \A r \in Requests : DOMAIN log[r] = 1..agent[r].attempt
    /\ calls \in [Requests -> Nat] /\ started \in Nat
    /\ message \subseteq Message /\ brief \subseteq Brief

Init ==
    /\ shape \in Shapes
    /\ dataset = "ready" /\ table = TRUE
    /\ req = [r \in Requests |-> Waiting]
    /\ agent = [r \in Requests |-> Off]
    /\ log = [r \in Requests |-> <<>>]
    /\ calls = [r \in Requests |-> 0]
    /\ started = 0
    /\ message = {} /\ brief = {}

Becomes(r, q) == req' = [req EXCEPT ![r] = q]
Ends(r, how) == Becomes(r, [at |-> how])

(* One model call: it answers, answers with something that is not the JSON   *)
(* asked for, the key is throttled, or it fails, by its timeout at the      *)
(* latest.  What answers is charged.                                        *)
Reply == {"answers", "garbles", "throttled", "fails"}
Charge(reply) == IF reply \in {"answers", "garbles"} THEN 1 ELSE 0
Called(r, reply) == calls' = [calls EXCEPT ![r] = @ + Charge(reply)]

(***************************************************************************)
(* The analyst, agent.ask: write a query, run it, say what it returned; a  *)
(* query that is rejected is written again, with the reason.               *)
(***************************************************************************)
StartAnalyst(r) ==
    /\ agent' = [agent EXCEPT ![r] = [at |-> "writing", attempt |-> 1, usage |-> 0]]
    /\ log' = [log EXCEPT ![r] = <<"unknown">>]

AgentGoes(r, to, reply) ==
    agent' = [agent EXCEPT ![r].at = to, ![r].usage = @ + Charge(reply)]

WriteSql(r) ==
    /\ agent[r].at = "writing"
    /\ \E reply \in Reply :
          /\ IF reply = "answers" THEN \E to \in {"querying", "declined"} : AgentGoes(r, to, reply)
                                  ELSE AgentGoes(r, "error", reply)
          /\ Called(r, reply)
    /\ UNCHANGED <<log, store>>

MayRetryForever(a) == TRUE
MayRetry(a) == a.attempt < MaxSqlAttempts

RetryAfresh(a) ==
    IF MayRetry(a) THEN [a EXCEPT !.at = "writing", !.attempt = @ + 1, !.usage = 0]
                   ELSE [a EXCEPT !.at = "exhausted"]

Retry(a) ==
    IF MayRetry(a) THEN [a EXCEPT !.at = "writing", !.attempt = @ + 1] ELSE [a EXCEPT !.at = "exhausted"]

(* The guard refuses the query, DuckDB does, or it takes too long; without  *)
(* the table it cannot but fail.                                            *)
RunQuery(r) ==
    LET a == agent[r] IN
    /\ a.at = "querying"
    /\ \/ /\ table
          /\ agent' = [agent EXCEPT ![r].at = "narrating"]
          /\ log' = [log EXCEPT ![r][a.attempt] = "ran"]
       \/ /\ agent' = [agent EXCEPT ![r] = Retry(a)]
          /\ log' = [log EXCEPT ![r] =
                [i \in 1..Retry(a).attempt |->
                    IF i = a.attempt THEN "rejected" ELSE IF i < a.attempt THEN @[i] ELSE "unknown"]]
    /\ UNCHANGED <<calls, store>>

(* The second call is given the rows, and is not parsed.                    *)
Narrate(r) ==
    /\ agent[r].at = "narrating"
    /\ \E reply \in Reply :
          /\ AgentGoes(r, IF Charge(reply) = 1 THEN "answered" ELSE "error", reply)
          /\ Called(r, reply)
    /\ UNCHANGED <<log, store>>

Analyse(r) == (WriteSql(r) \/ RunQuery(r) \/ Narrate(r)) /\ UNCHANGED <<shape, dataset, table, req, started>>

(* AgentAnswer.sql: only an answer has one.                                 *)
SqlTried(a) == a.attempt
SqlOf(a) == IF a.at = "answered" THEN a.attempt ELSE 0

(***************************************************************************)
(* A question, services/assistant.py.                                      *)
(***************************************************************************)
Known(t) == t \in OldThreads \/ \E m \in message : m.thread = t
Opened(t) == \E r \in Asks : req[r].at = "asking" /\ req[r].thread = t

Refuse(r) ==
    /\ req[r].at = "idle" /\ dataset # "ready" /\ started < MaxBegun
    /\ Ends(r, "refused")
    /\ started' = started + 1
    /\ UNCHANGED <<shape, dataset, table, agent, log, calls, store>>

(* In an existing conversation, or in a new one that nobody else sees yet.  *)
(* The row inserted here holds its conversation, and thereby the dataset,   *)
(* against deletion until the commit.                                       *)
BeginAsk(r) ==
    /\ r \in Asks /\ req[r].at = "idle" /\ dataset = "ready" /\ started < MaxBegun
    /\ \E t \in Threads :
          /\ Known(t) \/ ~Opened(t)
          /\ Becomes(r, [at |-> "asking", thread |-> t, stamp |-> started + 1])
    /\ started' = started + 1
    /\ StartAnalyst(r)
    /\ UNCHANGED <<shape, dataset, table, calls, store>>

(* created_at defaults to now(), the start of the transaction.              *)
StampAtInsert(r, role) == IF role = "user" THEN req[r].stamp ELSE started
StampOf(r, role) == req[r].stamp

Exchange(r) ==
    {[of |-> r, thread |-> req[r].thread, role |-> role, stamp |-> StampOf(r, role),
      sql |-> IF role = "user" THEN 0 ELSE SqlOf(agent[r]),
      attempts |-> IF role = "user" THEN 0 ELSE agent[r].attempt,
      usage |-> IF role = "user" THEN 0 ELSE agent[r].usage] : role \in {"user", "assistant"}}

(* One commit for both messages; a model failure rolls the question back.   *)
EndAsk(r) ==
    /\ req[r].at = "asking" /\ agent[r].at \in Outcome
    /\ IF agent[r].at = "error"
       THEN Ends(r, "failed") /\ UNCHANGED message
       ELSE Ends(r, "done") /\ message' = message \cup Exchange(r)
    /\ UNCHANGED <<shape, dataset, table, agent, log, calls, started, brief>>

(***************************************************************************)
(* A briefing, services/fleet.py: plan, look, synthesise, save.            *)
(***************************************************************************)
Rank == [analyst |-> 1, investigator |-> 2, sentinel |-> 3, forecaster |-> 4, retention |-> 5]
FirstOf(S, n) == {s \in S : Cardinality({t \in S : Rank[t] < Rank[s]}) < n}

AvailableAnyway(question) ==
    {s \in Specialist :
        CASE s = "analyst" -> TRUE
          [] s = "investigator" -> shape.time /\ shape.dimension
          [] s \in {"sentinel", "forecaster"} -> shape.time
          [] s = "retention" -> shape.customer /\ shape.time}

(* available_specialists: what the shape supports; nothing asked, nothing   *)
(* for the analyst to answer.                                               *)
Supports(has, question, s) ==
    CASE s = "analyst" -> question
      [] s = "investigator" -> has.time /\ has.dimension
      [] s \in {"sentinel", "forecaster"} -> has.time
      [] s = "retention" -> has.customer /\ has.time

Available(question) == {s \in Specialist : Supports(shape, question, s)}

(* As in the code, the cap leaves room for every specialist but the analyst. *)
ASSUME CapAssumption ==
    \A has \in Shapes : Cardinality({s \in Specialist : Supports(has, FALSE, s)}) <= MaxSpecialists

(* fleet.plan: the names of the reply that were on offer, all of the offer  *)
(* when none was, and no more than the cap.  Names come in any order, the   *)
(* offer in the order of the roster.                                        *)
Planned(named, offer) ==
    LET good == named \cap offer
    IN  IF good = {} THEN {FirstOf(offer, MaxSpecialists)}
        ELSE IF Cardinality(good) <= MaxSpecialists THEN {good}
        ELSE {T \in SUBSET good : Cardinality(T) = MaxSpecialists}

(* The specialists go to work side by side.                                 *)
Dispatch(r, question, chosen, usage) ==
    /\ Becomes(r, [at |-> "looking", question |-> question, chosen |-> chosen, usage |-> usage,
                   finding |-> [s \in Specialist |-> "waiting"]])
    /\ IF "analyst" \in chosen THEN StartAnalyst(r) ELSE UNCHANGED <<agent, log>>

BeginBrief(r) ==
    /\ r \in Briefings /\ req[r].at = "idle" /\ dataset = "ready" /\ started < MaxBegun
    /\ \E question \in BOOLEAN :
          \/ Available(question) = {} /\ Ends(r, "refused") /\ UNCHANGED <<agent, log>>
          \/ /\ question /\ Available(question) # {}
             /\ Becomes(r, [at |-> "planning"]) /\ UNCHANGED <<agent, log>>
          \/ /\ ~question /\ Available(question) # {}
             /\ Dispatch(r, FALSE, FirstOf(Available(FALSE), MaxSpecialists), 0)
    /\ started' = started + 1
    /\ UNCHANGED <<shape, dataset, table, calls, store>>

Plan(r) ==
    /\ req[r].at = "planning"
    /\ \E reply \in Reply :
          /\ IF reply = "answers"
             THEN \E named \in SUBSET Specialist : \E chosen \in Planned(named, Available(TRUE)) :
                    Dispatch(r, TRUE, chosen, 1)
             ELSE Ends(r, "failed") /\ UNCHANGED <<agent, log>>
          /\ Called(r, reply)
    /\ UNCHANGED <<shape, dataset, table, started, store>>

(* _dispatch: a specialist that declines, or breaks, is a finding too.      *)
LosesTheRest(r, s, finding, usage) ==
    req' = [req EXCEPT ![r].finding = [t \in Specialist |-> IF t = s THEN finding ELSE "waiting"]]
Reports(r, s, finding, usage) ==
    req' = [req EXCEPT ![r].finding[s] = finding, ![r].usage = @ + usage]

At(r, s) == req[r].at = "looking" /\ s \in req[r].chosen /\ req[r].finding[s] = "waiting"

UseTool(r, s) ==
    /\ s # "analyst" /\ At(r, s)
    /\ \E finding \in {"ok", "refused", "failed"} :
          /\ finding = "ok" => table
          /\ Reports(r, s, finding, 0)
    /\ UNCHANGED <<shape, dataset, table, agent, log, calls, started, store>>

AnalystReports(r) ==
    LET at == agent[r].at IN
    /\ At(r, "analyst") /\ at \in Outcome
    /\ Reports(r, "analyst",
               IF at = "answered" THEN "ok" ELSE IF at = "error" THEN "failed" ELSE "refused",
               IF at = "error" THEN 0 ELSE agent[r].usage)
    /\ UNCHANGED <<shape, dataset, table, agent, log, calls, started, store>>

(* complete_with_fallback: the second model when the first is throttled.    *)
Synthesise(r) ==
    /\ req[r].at \in {"looking", "degraded"}
    /\ \A s \in req[r].chosen : req[r].finding[s] # "waiting"
    /\ \E reply \in Reply :
          /\ CASE reply = "answers" -> Becomes(r, [req[r] EXCEPT !.at = "writing", !.usage = @ + 1])
               [] reply = "throttled" /\ TwoModels /\ req[r].at = "looking" ->
                    Becomes(r, [req[r] EXCEPT !.at = "degraded"])
               [] OTHER -> Ends(r, "failed")
          /\ Called(r, reply)
    /\ UNCHANGED <<shape, dataset, table, agent, log, started, store>>

(* The run and its findings in one commit, unless the dataset they refer to *)
(* is no more.                                                              *)
SaveBrief(r) ==
    /\ req[r].at = "writing"
    /\ IF dataset = "gone"
       THEN Ends(r, "failed") /\ UNCHANGED brief
       ELSE /\ Ends(r, "done")
            /\ brief' = brief \cup {[of |-> r, question |-> req[r].question, chosen |-> req[r].chosen,
                                     finding |-> req[r].finding, usage |-> req[r].usage]}
    /\ UNCHANGED <<shape, dataset, table, agent, log, calls, started, message>>

(***************************************************************************)
(* The dataset, as it looks from here: DatasetStore has the detail.        *)
(***************************************************************************)
Reingest == dataset = "ready" /\ dataset' = "busy" /\ UNCHANGED table
Settle == dataset = "busy" /\ dataset' = "ready" /\ UNCHANGED table
DropTable == dataset = "gone" /\ table /\ table' = FALSE /\ UNCHANGED dataset

(* The row goes once nobody holds it, and conversations and briefings go    *)
(* with it.                                                                 *)
Delete ==
    /\ dataset # "gone" /\ \A r \in Asks : req[r].at # "asking"
    /\ dataset' = "gone"
    /\ message' = {} /\ brief' = {}
    /\ UNCHANGED <<shape, table, req, agent, log, calls, started>>

DatasetStep ==
    \/ /\ Reingest \/ Settle \/ DropTable
       /\ UNCHANGED <<shape, req, agent, log, calls, started, store>>
    \/ Delete

Step(r) ==
    \/ Analyse(r) \/ EndAsk(r)
    \/ Plan(r) \/ (\E s \in Specialist : UseTool(r, s)) \/ AnalystReports(r) \/ Synthesise(r) \/ SaveBrief(r)

Arrive(r) == Refuse(r) \/ BeginAsk(r) \/ BeginBrief(r)

Next == (\E r \in Requests : Arrive(r) \/ Step(r)) \/ DatasetStep

(* While some request can go on, one does; that one comes is not promised.  *)
Spec == Init /\ [][Next]_vars /\ WF_vars(\E r \in Requests : Step(r))

(***************************************************************************)
(* Properties                                                              *)
(***************************************************************************)
(* However questions of one conversation overlap, and whatever fails, what  *)
(* is stored are whole exchanges, and no message of another exchange sorts  *)
(* between the two (list_messages orders by created_at).                    *)
WholeExchanges ==
    \A m \in message :
        LET own == {n \in message : n.of = m.of} IN
        /\ {n.role : n \in own} = {"user", "assistant"} /\ Cardinality(own) = 2
        /\ \A n \in own, o \in message :
              o.thread = m.thread /\ o.of # m.of => (o.stamp < m.stamp <=> o.stamp < n.stamp) /\ o.stamp # m.stamp

(* An answer carries the query whose rows it was told from, and all before  *)
(* that one were rejected; one without a query was told from nothing.  A    *)
(* briefing's analyst is held to the same.                                  *)
Ran(r) == {i \in DOMAIN log[r] : log[r][i] = "ran"}
GroundedAnswers ==
    /\ \A m \in message : m.role = "assistant" =>
          /\ Ran(m.of) = {m.sql} \ {0}
          /\ \A i \in 1..(m.attempts - 1) : log[m.of][i] = "rejected"
    /\ \A b \in brief : "analyst" \in b.chosen =>
          (b.finding["analyst"] = "ok" => Ran(b.of) # {}) /\ (b.finding["analyst"] = "refused" => Ran(b.of) = {})

(* What a stored answer or briefing says it cost are the model calls made   *)
(* for it, over retries and fallback, except those of an analyst that broke. *)
UsageRecorded ==
    /\ \A m \in message : m.role = "assistant" => m.usage = calls[m.of]
    /\ \A b \in brief :
          b.usage + (IF b.finding["analyst"] = "failed" THEN agent[b.of].usage ELSE 0) = calls[b.of]

(* A stored briefing has a finding of every specialist it names, within the *)
(* cap, and a standing one names all that the dataset supports.             *)
BriefCoversFleet ==
    \A b \in brief :
        /\ b.chosen # {} /\ Cardinality(b.chosen) <= MaxSpecialists
        /\ \A s \in b.chosen : b.finding[s] # "waiting"
        /\ ~b.question => b.chosen = Available(TRUE) \ {"analyst"}

(* Every request that begins is answered: no retry loop, no wait for a      *)
(* specialist and no failure of one leaves it hanging.  As MaxBegun of them *)
(* begin, all end when time and again none is under way.                    *)
RequestsEnd == []<>(\A r \in Requests : req[r] \in {Waiting} \cup Over)
=============================================================================

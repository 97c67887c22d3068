---------------------------- MODULE AgentsProofs ----------------------------
(***************************************************************************)
(* Agents: for any requests, conversations, limits and shapes of a dataset *)
(* what is stored of an answer or a briefing is whole, grounded in a query *)
(* that ran, and accounted for.                                            *)
(***************************************************************************)
EXTENDS Agents, FiniteSetTheorems, TLAPS

Fate == {"unknown", "rejected", "ran"}
Stage == {Waiting} \cup Asking \cup Planning \cup Looking \cup Over
Analyst == [at : {"off", "writing", "querying", "narrating"} \cup Outcome,
            attempt : 0..MaxSqlAttempts, usage : Nat]
Fleet == {"looking", "degraded", "writing"}

(***************************************************************************)
(* The inductive invariant.  The properties speak of what is stored; a row *)
(* is stored by a commit that copies what its request has become, so the   *)
(* invariant says of every request under way what will be true of its rows *)
(* and, of one that is over, that its analyst is at rest and cannot        *)
(* invalidate them.                                                        *)
(***************************************************************************)
(* The log has one entry per attempt: rejected before the last one, whose   *)
(* fate the analyst's state tells.                                          *)
Grounded(a, l) ==
    /\ a.at = "off" => a.attempt = 0 /\ a.usage = 0
    /\ a.at # "off" => a.attempt # 0
    /\ \A i \in 1..(a.attempt - 1) : l[i] = "rejected"
    /\ a.at \in {"writing", "querying", "declined"} => l[a.attempt] = "unknown"
    /\ a.at \in {"narrating", "answered"} => l[a.attempt] = "ran"
    /\ a.at = "exhausted" => l[a.attempt] = "rejected"

Verdict(a) == IF a.at = "answered" THEN "ok" ELSE IF a.at = "error" THEN "failed" ELSE "refused"

(* The calls made for a briefing and not in its usage: those of an analyst  *)
(* that has not reported, or that broke.                                    *)
Unreported(q, a) == IF q.finding["analyst"] \in {"waiting", "failed"} THEN a.usage ELSE 0

Briefed(q, a, c) ==
    /\ q.chosen # {} /\ Cardinality(q.chosen) <= MaxSpecialists
    /\ ~q.question => q.chosen = Available(TRUE) \ {"analyst"}
    /\ IF "analyst" \in q.chosen
       THEN /\ a.at # "off"
            /\ q.finding["analyst"] # "waiting" => a.at \in Outcome /\ q.finding["analyst"] = Verdict(a)
       ELSE a.at = "off" /\ q.finding["analyst"] = "waiting"
    /\ c = q.usage + Unreported(q, a)

(* Request r with progress q, analyst a, log l and c calls.                 *)
Consistent(r, q, a, l, c) ==
    /\ Grounded(a, l)
    /\ q.at = "idle" => a.at = "off" /\ c = 0
    /\ q.at = "asking" => r \in Asks /\ a.at # "off" /\ c = a.usage
    /\ q.at = "planning" => r \in Briefings /\ a.at = "off" /\ c = 0
    /\ q.at \in Fleet => r \in Briefings /\ Briefed(q, a, c)
    /\ q.at = "writing" => \A s \in q.chosen : q.finding[s] # "waiting"
    /\ q.at \in {"done", "refused", "failed"} => a.at \in Outcome \cup {"off"}

LogsOK == log \in [Requests -> UNION {[1..n -> Fate] : n \in Nat}]

RequestsConsistent == \A r \in Requests : Consistent(r, req[r], agent[r], log[r], calls[r])

(* What is stored agrees with the analyst that told it, which is at rest.   *)
AnswersAgree ==
    \A m \in message :
        /\ req[m.of].at = "done" /\ agent[m.of].at \in {"answered", "declined", "exhausted"}
        /\ m.role = "assistant" => /\ m.sql = SqlOf(agent[m.of])
                                   /\ m.attempts = agent[m.of].attempt
                                   /\ m.usage = calls[m.of]

BriefsAgree ==
    \A b \in brief :
        /\ req[b.of].at = "done" /\ agent[b.of].at \in Outcome \cup {"off"}
        /\ Briefed(b, agent[b.of], calls[b.of])
        /\ \A s \in b.chosen : b.finding[s] # "waiting"

(* Two rows for a question, of one conversation and one time.               *)
Pairs ==
    /\ \A m \in message : \A role \in {"user", "assistant"} : \E n \in message : n.of = m.of /\ n.role = role
    /\ \A m, n \in message :
          m.of = n.of => m.thread = n.thread /\ m.stamp = n.stamp /\ (m.role = n.role => m = n)

(* No two questions have the same time.                                     *)
Stamped ==
    /\ \A m \in message : m.stamp <= started
    /\ \A m, n \in message : m.of # n.of => m.stamp # n.stamp
    /\ \A r \in Requests : req[r].at = "asking" =>
          /\ req[r].stamp <= started
          /\ \A m \in message : m.stamp # req[r].stamp
          /\ \A s \in Requests : req[s].at = "asking" /\ s # r => req[s].stamp # req[r].stamp

IInv == TypeOK /\ LogsOK /\ RequestsConsistent /\ AnswersAgree /\ BriefsAgree /\ Pairs /\ Stamped

-----------------------------------------------------------------------------
(***************************************************************************)
(* Shapes.                                                                 *)
(***************************************************************************)
LEMMA LogShape ==
    ASSUME TypeOK, LogsOK, NEW r \in Requests
    PROVE  /\ log[r] \in [1..agent[r].attempt -> Fate]
           /\ agent[r] \in Analyst /\ req[r] \in Stage /\ calls[r] \in Nat
<1>1. PICK n \in Nat : log[r] \in [1..n -> Fate]
  BY DEF LogsOK
<1>2. DOMAIN log[r] = 1..agent[r].attempt
  BY DEF TypeOK
<1>3. 1..n = 1..agent[r].attempt
  BY <1>1, <1>2
<1>4. agent[r] \in Analyst /\ req[r] \in Stage /\ calls[r] \in Nat
  BY DEF TypeOK, Analyst, Stage
<1>. QED  BY <1>1, <1>3, <1>4

LEMMA StageShape ==
    ASSUME NEW q \in Stage
    PROVE  /\ q.at = "idle" => q = Waiting
           /\ q.at = "asking" => q \in Asking
           /\ q.at = "planning" => q \in Planning
           /\ q.at \in Fleet => q \in Looking
           /\ q.at \in {"idle", "asking", "planning", "done", "refused", "failed"} \cup Fleet
BY DEF Stage, Waiting, Asking, Planning, Looking, Over, Fleet

LEMMA OverIsStage ==
    ASSUME NEW how \in {"done", "refused", "failed"}
    PROVE  [at |-> how] \in Stage /\ [at |-> how].at = how
BY DEF Stage, Over

LEMMA AnalystShape ==
    ASSUME NEW at \in {"off", "writing", "querying", "narrating"} \cup Outcome,
           NEW n \in 0..MaxSqlAttempts, NEW u \in Nat
    PROVE  [at |-> at, attempt |-> n, usage |-> u] \in Analyst
BY DEF Analyst

LEMMA AnalystParts ==
    ASSUME NEW a \in Analyst
    PROVE  /\ a.at \in {"off", "writing", "querying", "narrating"} \cup Outcome
           /\ a.attempt \in Nat /\ a.attempt <= MaxSqlAttempts /\ a.usage \in Nat
           /\ a = [at |-> a.at, attempt |-> a.attempt, usage |-> a.usage]
BY AgentsAssumption DEF Analyst

LEMMA LookingParts ==
    ASSUME NEW q \in Looking
    PROVE  /\ q.at \in Fleet /\ q.question \in BOOLEAN /\ q.usage \in Nat
           /\ q.chosen \subseteq Specialist /\ q.finding \in [Specialist -> Finding]
           /\ q = [at |-> q.at, question |-> q.question, usage |-> q.usage, chosen |-> q.chosen,
                   finding |-> q.finding]
BY DEF Looking, Fleet

LEMMA LookingShape ==
    ASSUME NEW at \in Fleet, NEW question \in BOOLEAN, NEW usage \in Nat,
           NEW chosen \in SUBSET Specialist, NEW finding \in [Specialist -> Finding]
    PROVE  /\ [at |-> at, question |-> question, usage |-> usage, chosen |-> chosen, finding |-> finding] \in Looking
           /\ [at |-> at, question |-> question, usage |-> usage, chosen |-> chosen, finding |-> finding] \in Stage
BY DEF Looking, Fleet, Stage

-----------------------------------------------------------------------------
(***************************************************************************)
(* The frame: a step of one request, which stores nothing, keeps the       *)
(* invariant when it leaves that request consistent.                       *)
(***************************************************************************)
(* Nobody else has the time of a request that asks.                         *)
OwnTime(r, q) ==
    \/ q.at # "asking"
    \/ req[r].at = "asking" /\ q.stamp = req[r].stamp
    \/ q.stamp = started' /\ started' = started + 1

LEMMA RequestMoves ==
    ASSUME IInv, NEW r \in Requests, req[r].at # "done",
           NEW q \in Stage, NEW a \in Analyst, NEW l \in [1..a.attempt -> Fate], NEW c \in Nat,
           req' = [req EXCEPT ![r] = q], agent' = [agent EXCEPT ![r] = a],
           log' = [log EXCEPT ![r] = l], calls' = [calls EXCEPT ![r] = c],
           started' \in Nat, started' >= started,
           UNCHANGED <<shape, dataset, table, message, brief>>,
           Consistent(r, q, a, l, c), OwnTime(r, q)
    PROVE  IInv'
<1>1. /\ req' \in [Requests -> Stage] /\ agent' \in [Requests -> Analyst] /\ calls' \in [Requests -> Nat]
      /\ req'[r] = q /\ agent'[r] = a /\ log'[r] = l /\ calls'[r] = c
  BY DEF IInv, TypeOK, LogsOK, Stage, Analyst
<1>2. \A s \in Requests \ {r} :
          /\ req'[s] = req[s] /\ agent'[s] = agent[s] /\ log'[s] = log[s] /\ calls'[s] = calls[s]
  BY DEF IInv, TypeOK, LogsOK
<1>3. LogsOK'
  <2>1. l \in UNION {[1..n -> Fate] : n \in Nat}
    BY AnalystParts
  <2>. QED  BY <2>1 DEF IInv, LogsOK
<1>4. TypeOK'
  <2>1. \A s \in Requests : DOMAIN log'[s] = 1..agent'[s].attempt
    BY <1>1, <1>2 DEF IInv, TypeOK
  <2>. QED  BY <1>1, <2>1 DEF IInv, TypeOK, Stage, Analyst
<1>5. \A question \in BOOLEAN : Available(question)' = Available(question)
  BY DEF Available
<1>6. ASSUME NEW x, NEW b, NEW n, Briefed(x, b, n)
      PROVE  Briefed(x, b, n)'
  BY <1>5, <1>6 DEF Briefed
<1>7. RequestsConsistent'
  <2>. SUFFICES ASSUME NEW s \in Requests
                PROVE  Consistent(s, req[s], agent[s], log[s], calls[s])'
    BY DEF RequestsConsistent
  <2>1. CASE s = r
    BY <1>1, <1>6, <2>1 DEF Consistent
  <2>2. CASE s # r
    <3>1. Consistent(s, req[s], agent[s], log[s], calls[s])
      BY DEF IInv, RequestsConsistent
    <3>2. /\ req'[s] = req[s] /\ agent'[s] = agent[s] /\ log'[s] = log[s] /\ calls'[s] = calls[s]
      BY <1>2, <2>2
    <3>. QED  BY <3>1, <3>2, <1>6 DEF Consistent
  <2>. QED  BY <2>1, <2>2
<1>8. AnswersAgree'
  <2>1. \A m \in message : m.of \in Requests /\ m.of # r
    BY DEF IInv, TypeOK, Message, AnswersAgree, Requests
  <2>. QED  BY <1>2, <2>1 DEF IInv, AnswersAgree
<1>9. BriefsAgree'
  <2>. SUFFICES ASSUME NEW b \in brief
                PROVE  /\ req'[b.of].at = "done" /\ agent'[b.of].at \in Outcome \cup {"off"}
                       /\ Briefed(b, agent[b.of], calls[b.of])'
                       /\ \A s \in b.chosen : b.finding[s] # "waiting"
    BY DEF BriefsAgree
  <2>1. b.of \in Requests /\ b.of # r
    BY DEF IInv, TypeOK, Brief, BriefsAgree, Requests
  <2>2. /\ req'[b.of] = req[b.of] /\ agent'[b.of] = agent[b.of] /\ calls'[b.of] = calls[b.of]
    BY <1>2, <2>1
  <2>3. /\ req[b.of].at = "done" /\ agent[b.of].at \in Outcome \cup {"off"}
        /\ Briefed(b, agent[b.of], calls[b.of])
        /\ \A s \in b.chosen : b.finding[s] # "waiting"
    BY DEF IInv, BriefsAgree
  <2>4. Briefed(b, agent[b.of], calls[b.of])'
    BY <1>6, <2>2, <2>3
  <2>. QED  BY <2>2, <2>3, <2>4
<1>10. Pairs'
  BY DEF IInv, Pairs
<1>11. Stamped'
  <2>1. /\ \A m \in message : m.stamp \in Nat /\ m.stamp <= started
        /\ \A s \in Requests : req[s].at = "asking" => req[s].stamp \in Nat /\ req[s].stamp <= started
        /\ started \in Nat
    <3>1. \A s \in Requests : req[s].at = "asking" => req[s].stamp \in Nat
      BY LogShape, StageShape DEF IInv, Asking
    <3>. QED  BY <3>1 DEF IInv, TypeOK, Message, Stamped
  <2>2. \A m \in message : m.stamp <= started'
    BY <2>1
  <2>3. q.at = "asking" => /\ q.stamp <= started'
                           /\ \A m \in message : m.stamp # q.stamp
                           /\ \A s \in Requests \ {r} : req[s].at = "asking" => req[s].stamp # q.stamp
    BY <2>1 DEF OwnTime, IInv, Stamped
  <2>4. ASSUME NEW s \in Requests, req'[s].at = "asking"
        PROVE  /\ req'[s].stamp <= started'
               /\ \A m \in message : m.stamp # req'[s].stamp
               /\ \A t \in Requests : req'[t].at = "asking" /\ t # s => req'[t].stamp # req'[s].stamp
    <3>1. CASE s = r
      BY <1>1, <1>2, <2>3, <2>4, <3>1
    <3>2. CASE s # r
      <4>1. req'[s] = req[s] /\ req[s].at = "asking"
        BY <1>2, <2>4, <3>2
      <4>2. /\ req'[s].stamp <= started'
            /\ \A m \in message : m.stamp # req'[s].stamp
        BY <2>1, <4>1 DEF IInv, Stamped
      <4>3. ASSUME NEW t \in Requests, req'[t].at = "asking", t # s
            PROVE  req'[t].stamp # req'[s].stamp
        <5>1. CASE t = r
          BY <1>1, <2>3, <3>2, <4>1, <4>3, <5>1
        <5>2. CASE t # r
          BY <1>2, <4>1, <4>3, <5>2 DEF IInv, Stamped
        <5>. QED  BY <5>1, <5>2
      <4>. QED  BY <4>2, <4>3
    <3>. QED  BY <3>1, <3>2
  <2>5. \A m, n \in message : m.of # n.of => m.stamp # n.stamp
    BY DEF IInv, Stamped
  <2>. QED  BY <2>2, <2>4, <2>5 DEF Stamped
<1>. QED  BY <1>3, <1>4, <1>7, <1>8, <1>9, <1>10, <1>11 DEF IInv

-----------------------------------------------------------------------------
(***************************************************************************)
(* The analyst.                                                            *)
(***************************************************************************)
LEMMA AnalystAtWork ==
    ASSUME IInv, NEW r \in Requests, agent[r].at \in {"writing", "querying", "narrating"}
    PROVE  \/ req[r].at = "asking"
           \/ /\ req[r].at \in Fleet \ {"writing"}
              /\ "analyst" \in req[r].chosen /\ req[r].finding["analyst"] = "waiting"
<1>1. Consistent(r, req[r], agent[r], log[r], calls[r])
  BY DEF IInv, RequestsConsistent
<1>2. req[r].at \in {"idle", "asking", "planning", "done", "refused", "failed"} \cup Fleet
  BY LogShape, StageShape DEF IInv
<1>3. CASE req[r].at \in Fleet
  <2>1. Briefed(req[r], agent[r], calls[r])
    BY <1>1, <1>3 DEF Consistent
  <2>2. "analyst" \in req[r].chosen /\ req[r].finding["analyst"] = "waiting"
    BY <2>1 DEF Briefed, Outcome
  <2>. QED  BY <1>1, <1>3, <2>2 DEF Consistent
<1>. QED  BY <1>1, <1>2, <1>3 DEF Consistent, Outcome

LEMMA AnalystMoves ==
    ASSUME IInv, NEW r \in Requests, agent[r].at \in {"writing", "querying", "narrating"},
           NEW a \in Analyst, NEW l \in [1..a.attempt -> Fate], NEW n \in Nat,
           a.at # "off", a.usage = agent[r].usage + n, Grounded(a, l),
           agent' = [agent EXCEPT ![r] = a], log' = [log EXCEPT ![r] = l],
           calls' = [calls EXCEPT ![r] = calls[r] + n],
           UNCHANGED <<shape, dataset, table, req, started, message, brief>>
    PROVE  IInv'
<1>. DEFINE q == req[r]
            c == calls[r] + n
<1>1. /\ q \in Stage /\ calls[r] \in Nat /\ c \in Nat /\ agent[r] \in Analyst
      /\ req' = [req EXCEPT ![r] = q] /\ started \in Nat
  BY LogShape DEF IInv, TypeOK
<1>2. Consistent(r, q, agent[r], log[r], calls[r])
  BY DEF IInv, RequestsConsistent
<1>3. \/ q.at = "asking"
      \/ /\ q.at \in Fleet \ {"writing"}
         /\ "analyst" \in q.chosen /\ q.finding["analyst"] = "waiting"
  BY AnalystAtWork
<1>4. OwnTime(r, q) /\ q.at # "done"
  BY <1>3 DEF OwnTime, Fleet
<1>. HIDE DEF q
<1>5. Consistent(r, q, a, l, c)
  <2>1. CASE q.at = "asking"
    <3>1. r \in Asks /\ c = a.usage
      BY <1>1, <1>2, <2>1, AnalystParts DEF Consistent
    <3>. QED  BY <2>1, <3>1 DEF Consistent, Fleet
  <2>2. CASE q.at # "asking"
    <3>1. /\ q.at \in Fleet \ {"writing"} /\ r \in Briefings
          /\ "analyst" \in q.chosen /\ q.finding["analyst"] = "waiting"
          /\ Briefed(q, agent[r], calls[r]) /\ q.usage \in Nat
      BY <1>1, <1>2, <1>3, <2>2, StageShape, LookingParts DEF Consistent
    <3>2. c = q.usage + a.usage
      BY <1>1, <3>1, AnalystParts DEF Briefed, Unreported
    <3>3. Briefed(q, a, c)
      BY <3>1, <3>2 DEF Briefed, Unreported
    <3>. QED  BY <3>1, <3>3 DEF Consistent, Fleet
  <2>. QED  BY <2>1, <2>2
<1>6. /\ req[r].at # "done" /\ calls' = [calls EXCEPT ![r] = c]
      /\ started' \in Nat /\ started' >= started
  BY <1>1, <1>4 DEF q
<1>. HIDE DEF c
<1>. QED  BY <1>1, <1>4, <1>5, <1>6, RequestMoves

LEMMA AnalystUpdate ==
    ASSUME NEW a \in Analyst, NEW to, NEW n \in Nat
    PROVE  [a EXCEPT !.at = to, !.usage = @ + n] = [at |-> to, attempt |-> a.attempt, usage |-> a.usage + n]
<1>. DEFINE e == [a EXCEPT !.at = to, !.usage = @ + n]
<1>1. DOMAIN a = {"at", "attempt", "usage"}
  BY DEF Analyst
<1>2. e = [f \in {"at", "attempt", "usage"} |-> IF f = "usage" THEN a.usage + n ELSE IF f = "at" THEN to ELSE a[f]]
  BY <1>1
<1>. QED  BY <1>2

LEMMA AgentGoesTo ==
    ASSUME IInv, NEW r \in Requests, NEW reply \in Reply, NEW to, AgentGoes(r, to, reply)
    PROVE  /\ Charge(reply) \in Nat
           /\ agent' = [agent EXCEPT ![r] = [at |-> to, attempt |-> agent[r].attempt,
                                             usage |-> agent[r].usage + Charge(reply)]]
<1>. DEFINE a == agent[r]
            n == Charge(reply)
<1>1. a \in Analyst /\ n \in Nat
  BY LogShape DEF IInv, Charge
<1>2. agent' = [agent EXCEPT ![r] = [a EXCEPT !.at = to, !.usage = @ + n]]
  BY DEF AgentGoes
<1>. HIDE DEF a, n
<1>3. agent' = [agent EXCEPT ![r] = [at |-> to, attempt |-> a.attempt, usage |-> a.usage + n]]
  BY <1>1, <1>2, AnalystUpdate
<1>. QED  BY <1>1, <1>3 DEF a, n

LEMMA AnswerStep ==
    ASSUME IInv, NEW r \in Requests, NEW reply \in Reply, NEW to \in {"querying", "declined", "answered", "error"},
           agent[r].at \in {"writing", "narrating"}, AgentGoes(r, to, reply), Called(r, reply),
           to # "error" => to \in IF agent[r].at = "writing" THEN {"querying", "declined"} ELSE {"answered"},
           UNCHANGED <<shape, dataset, table, req, log, started, message, brief>>
    PROVE  IInv'
<1>. DEFINE n == Charge(reply)
            b == [at |-> to, attempt |-> agent[r].attempt, usage |-> agent[r].usage + n]
<1>1. n \in Nat /\ agent' = [agent EXCEPT ![r] = b]
  BY AgentGoesTo
<1>2. calls' = [calls EXCEPT ![r] = calls[r] + n]
  BY DEF Called
<1>3. agent[r] \in Analyst /\ log[r] \in [1..agent[r].attempt -> Fate] /\ log' = [log EXCEPT ![r] = log[r]]
  BY LogShape DEF IInv, LogsOK
<1>. HIDE DEF n
<1>4. b \in Analyst /\ b.at # "off" /\ b.attempt = agent[r].attempt /\ b.usage = agent[r].usage + n /\ b.at = to
  BY <1>1, <1>3 DEF Analyst, Outcome
<1>. HIDE DEF b
<1>5. Grounded(agent[r], log[r])
  BY DEF IInv, RequestsConsistent, Consistent
<1>6. Grounded(b, log[r])
  BY <1>4, <1>5 DEF Grounded
<1>. QED  BY <1>1, <1>2, <1>3, <1>4, <1>6, AnalystMoves

LEMMA WriteSqlKeeps ==
    ASSUME IInv, NEW r \in Requests, WriteSql(r), UNCHANGED <<shape, dataset, table, req, started>>
    PROVE  IInv'
<1>1. PICK reply \in Reply :
          /\ IF reply = "answers" THEN \E to \in {"querying", "declined"} : AgentGoes(r, to, reply)
                                  ELSE AgentGoes(r, "error", reply)
          /\ Called(r, reply)
  BY DEF WriteSql
<1>2. PICK to \in {"querying", "declined", "error"} : AgentGoes(r, to, reply)
  BY <1>1
<1>. QED  BY <1>1, <1>2, AnswerStep DEF WriteSql, store

LEMMA NarrateKeeps ==
    ASSUME IInv, NEW r \in Requests, Narrate(r), UNCHANGED <<shape, dataset, table, req, started>>
    PROVE  IInv'
<1>1. PICK reply \in Reply :
          /\ AgentGoes(r, IF Charge(reply) = 1 THEN "answered" ELSE "error", reply)
          /\ Called(r, reply)
  BY DEF Narrate
<1>2. PICK to \in {"answered", "error"} : AgentGoes(r, to, reply)
  BY <1>1
<1>. QED  BY <1>1, <1>2, AnswerStep DEF Narrate, store

LEMMA RetryShape ==
    ASSUME NEW a \in Analyst
    PROVE  /\ MayRetry(a) => Retry(a) = [at |-> "writing", attempt |-> a.attempt + 1, usage |-> a.usage]
           /\ ~MayRetry(a) => Retry(a) = [at |-> "exhausted", attempt |-> a.attempt, usage |-> a.usage]
<1>1. DOMAIN a = {"at", "attempt", "usage"}
  BY DEF Analyst
<1>. DEFINE again == [a EXCEPT !.at = "writing", !.attempt = @ + 1]
            stop == [a EXCEPT !.at = "exhausted"]
<1>2. again = [f \in {"at", "attempt", "usage"} |->
                  IF f = "attempt" THEN a.attempt + 1 ELSE IF f = "at" THEN "writing" ELSE a[f]]
  BY <1>1
<1>3. again = [at |-> "writing", attempt |-> a.attempt + 1, usage |-> a.usage]
  BY <1>2
<1>4. stop = [at |-> "exhausted", attempt |-> a.attempt, usage |-> a.usage]
  BY DEF Analyst
<1>. QED  BY <1>3, <1>4 DEF Retry

LEMMA QueryRunsKeeps ==
    ASSUME IInv, NEW r \in Requests, agent[r].at = "querying",
           agent' = [agent EXCEPT ![r].at = "narrating"],
           log' = [log EXCEPT ![r][agent[r].attempt] = "ran"],
           UNCHANGED <<shape, dataset, table, req, calls, started, message, brief>>
    PROVE  IInv'
<1>. DEFINE a == agent[r]
            l == log[r]
            b == [at |-> "narrating", attempt |-> a.attempt, usage |-> a.usage]
            m == [l EXCEPT ![a.attempt] = "ran"]
<1>1. a \in Analyst /\ l \in [1..a.attempt -> Fate] /\ calls[r] \in Nat /\ Grounded(a, l)
  BY LogShape DEF IInv, RequestsConsistent, Consistent
<1>2. agent' = [agent EXCEPT ![r] = [a EXCEPT !.at = "narrating"]] /\ log' = [log EXCEPT ![r] = m]
  OBVIOUS
<1>3. calls' = [calls EXCEPT ![r] = calls[r] + 0]
  BY <1>1 DEF IInv, TypeOK
<1>4. a.at = "querying"
  OBVIOUS
<1>. HIDE DEF a, l
<1>5. [a EXCEPT !.at = "narrating"] = b
  BY <1>1 DEF Analyst
<1>6. b \in Analyst /\ b.at # "off" /\ b.usage = a.usage + 0 /\ b.attempt = a.attempt /\ b.at = "narrating"
  BY <1>1 DEF Analyst
<1>7. m \in [1..a.attempt -> Fate] /\ \A i \in 1..a.attempt : m[i] = IF i = a.attempt THEN "ran" ELSE l[i]
  BY <1>1 DEF Fate
<1>8. a.attempt \in Nat /\ a.attempt # 0
  BY <1>1, <1>4, AnalystParts DEF Grounded
<1>. HIDE DEF b, m
<1>9. Grounded(b, m)
  <2>1. \A i \in 1..(b.attempt - 1) : m[i] = "rejected"
    BY <1>1, <1>6, <1>7, <1>8 DEF Grounded
  <2>2. m[b.attempt] = "ran"
    BY <1>6, <1>7, <1>8
  <2>. QED  BY <1>6, <1>8, <2>1, <2>2 DEF Grounded
<1>10. agent[r].at \in {"writing", "querying", "narrating"} /\ b.usage = agent[r].usage + 0
       /\ m \in [1..b.attempt -> Fate] /\ agent' = [agent EXCEPT ![r] = b]
  BY <1>4, <1>2, <1>5, <1>6, <1>7 DEF a
<1>. QED  BY <1>2, <1>3, <1>6, <1>9, <1>10, AnalystMoves

LEMMA QueryFailsKeeps ==
    ASSUME IInv, NEW r \in Requests, agent[r].at = "querying",
           agent' = [agent EXCEPT ![r] = Retry(agent[r])],
           log' = [log EXCEPT ![r] =
                     [i \in 1..Retry(agent[r]).attempt |->
                         IF i = agent[r].attempt THEN "rejected" ELSE IF i < agent[r].attempt THEN @[i] ELSE "unknown"]],
           UNCHANGED <<shape, dataset, table, req, calls, started, message, brief>>
    PROVE  IInv'
<1>. DEFINE a == agent[r]
            l == log[r]
            b == Retry(a)
            m == [i \in 1..b.attempt |-> IF i = a.attempt THEN "rejected" ELSE IF i < a.attempt THEN l[i] ELSE "unknown"]
<1>1. a \in Analyst /\ l \in [1..a.attempt -> Fate] /\ calls[r] \in Nat /\ Grounded(a, l)
  BY LogShape DEF IInv, RequestsConsistent, Consistent
<1>2. agent' = [agent EXCEPT ![r] = b] /\ log' = [log EXCEPT ![r] = m]
  OBVIOUS
<1>3. calls' = [calls EXCEPT ![r] = calls[r] + 0]
  BY <1>1 DEF IInv, TypeOK
<1>4. a.at = "querying" /\ a.attempt \in Nat /\ a.attempt # 0 /\ a.attempt <= MaxSqlAttempts /\ a.usage \in Nat
  <2>1. a.at = "querying"
    OBVIOUS
  <2>. HIDE DEF a, l
  <2>. QED  BY <1>1, <2>1, AnalystParts DEF Grounded
<1>. HIDE DEF a, l
<1>5. /\ b \in Analyst /\ b.at # "off" /\ b.usage = a.usage + 0
      /\ \/ b.at = "writing" /\ b.attempt = a.attempt + 1
         \/ b.at = "exhausted" /\ b.attempt = a.attempt
  <2>1. CASE MayRetry(a)
    <3>1. b = [at |-> "writing", attempt |-> a.attempt + 1, usage |-> a.usage]
      BY <1>1, <2>1, RetryShape
    <3>2. a.attempt + 1 \in 0..MaxSqlAttempts
      BY <1>4, <2>1, AgentsAssumption DEF MayRetry
    <3>3. b \in Analyst
      BY <1>4, <3>1, <3>2, AnalystShape
    <3>. HIDE DEF b
    <3>. QED  BY <1>4, <3>1, <3>3
  <2>2. CASE ~MayRetry(a)
    <3>1. b = [at |-> "exhausted", attempt |-> a.attempt, usage |-> a.usage]
      BY <1>1, <2>2, RetryShape
    <3>2. a.attempt \in 0..MaxSqlAttempts
      BY <1>4, AgentsAssumption
    <3>3. b \in Analyst
      BY <1>4, <3>1, <3>2, AnalystShape DEF Outcome
    <3>. HIDE DEF b
    <3>. QED  BY <1>4, <3>1, <3>3
  <2>. QED  BY <2>1, <2>2
<1>. HIDE DEF b
<1>6. m \in [1..b.attempt -> Fate]
  <2>. SUFFICES ASSUME NEW i \in 1..b.attempt
                PROVE  (IF i = a.attempt THEN "rejected" ELSE IF i < a.attempt THEN l[i] ELSE "unknown") \in Fate
    OBVIOUS
  <2>1. i < a.attempt => l[i] \in Fate
    BY <1>1, <1>4, <1>5
  <2>. QED  BY <2>1 DEF Fate
<1>7. \A i \in 1..b.attempt :
         m[i] = IF i = a.attempt THEN "rejected" ELSE IF i < a.attempt THEN l[i] ELSE "unknown"
  OBVIOUS
<1>. HIDE DEF m
<1>8. Grounded(b, m)
  <2>1. \A i \in 1..(b.attempt - 1) : m[i] = "rejected"
    BY <1>1, <1>4, <1>5, <1>7 DEF Grounded
  <2>2. b.at = "writing" => m[b.attempt] = "unknown"
    BY <1>4, <1>5, <1>7
  <2>3. b.at = "exhausted" => m[b.attempt] = "rejected"
    BY <1>4, <1>5, <1>7
  <2>4. b.attempt # 0
    BY <1>4, <1>5
  <2>. QED  BY <1>5, <2>1, <2>2, <2>3, <2>4 DEF Grounded
<1>9. agent[r].at \in {"writing", "querying", "narrating"} /\ b.usage = agent[r].usage + 0
  BY <1>4, <1>5 DEF a
<1>. QED  BY <1>2, <1>3, <1>5, <1>6, <1>8, <1>9, AnalystMoves

LEMMA AnalyseKeeps ==
    ASSUME IInv, NEW r \in Requests, Analyse(r)
    PROVE  IInv'
<1>1. UNCHANGED <<shape, dataset, table, req, started>>
  BY DEF Analyse
<1>2. CASE RunQuery(r)
  BY <1>1, <1>2, QueryRunsKeeps, QueryFailsKeeps DEF RunQuery, store
<1>. QED  BY <1>1, <1>2, WriteSqlKeeps, NarrateKeeps DEF Analyse

-----------------------------------------------------------------------------
(***************************************************************************)
(* The size of a fleet.                                                    *)
(***************************************************************************)
LEMMA FleetIsFinite ==
    ASSUME NEW S \in SUBSET Specialist
    PROVE  IsFiniteSet(S) /\ Cardinality(S) \in Nat
<1>1. IsFiniteSet({"analyst"} \cup {"investigator"} \cup {"sentinel"} \cup {"forecaster"} \cup {"retention"})
  BY FS_Singleton, FS_Union
<1>2. IsFiniteSet(Specialist)
  BY <1>1 DEF Specialist
<1>. QED  BY <1>2, FS_Subset, FS_CardinalityType

LEMMA RanksApart ==
    /\ \A s \in Specialist : Rank[s] \in Nat
    /\ \A s, t \in Specialist : s # t => Rank[s] < Rank[t] \/ Rank[t] < Rank[s]
BY DEF Rank, Specialist

LEMMA RankExtremes ==
    ASSUME NEW S \in SUBSET Specialist, S # {}
    PROVE  /\ \E s \in S : \A t \in S : ~(Rank[t] < Rank[s])
           /\ \E s \in S : \A t \in S \ {s} : Rank[t] < Rank[s]
<1>. DEFINE least == IF "analyst" \in S THEN "analyst" ELSE IF "investigator" \in S THEN "investigator"
                     ELSE IF "sentinel" \in S THEN "sentinel" ELSE IF "forecaster" \in S THEN "forecaster"
                     ELSE "retention"
            last == IF "retention" \in S THEN "retention" ELSE IF "forecaster" \in S THEN "forecaster"
                    ELSE IF "sentinel" \in S THEN "sentinel" ELSE IF "investigator" \in S THEN "investigator"
                    ELSE "analyst"
<1>1. least \in S /\ last \in S
  BY DEF Specialist
<1>2. \A t \in S : ~(Rank[t] < Rank[least])
  BY DEF Specialist, Rank
<1>3. \A t \in S \ {last} : Rank[t] < Rank[last]
  BY DEF Specialist, Rank
<1>. QED  BY <1>1, <1>2, <1>3

(* No more than n of a set are its first n, some are unless there are none,  *)
(* and all are when there are no more.                                      *)
LEMMA FirstOfSize ==
    ASSUME NEW S \in SUBSET Specialist, NEW n \in Nat \ {0}
    PROVE  /\ FirstOf(S, n) \subseteq S /\ Cardinality(FirstOf(S, n)) <= n
           /\ S # {} => FirstOf(S, n) # {}
           /\ Cardinality(S) <= n => FirstOf(S, n) = S
<1>. DEFINE Before(s) == {t \in S : Rank[t] < Rank[s]}
            F == FirstOf(S, n)
<1>1. F = {s \in S : Cardinality(Before(s)) < n}
  BY DEF FirstOf
<1>2. \A s \in S : IsFiniteSet(Before(s)) /\ Cardinality(Before(s)) \in Nat
  BY FleetIsFinite
<1>3. Cardinality(F) <= n
  <2>1. CASE F = {}
    BY <2>1, FS_EmptySet
  <2>2. CASE F # {}
    <3>1. PICK s \in F : \A t \in F \ {s} : Rank[t] < Rank[s]
      BY <1>1, <2>2, RankExtremes
    <3>. DEFINE B == Before(s)
    <3>2. s \in S /\ IsFiniteSet(B) /\ Cardinality(B) \in Nat /\ Cardinality(B) < n
      BY <1>1, <1>2
    <3>3. s \notin B
      BY <3>2, RanksApart
    <3>4. F \subseteq B \cup {s}
      BY <1>1, <3>1
    <3>. HIDE DEF B, F
    <3>5. IsFiniteSet(B \cup {s}) /\ Cardinality(B \cup {s}) = Cardinality(B) + 1
      BY <3>2, <3>3, FS_AddElement
    <3>6. Cardinality(F) <= Cardinality(B \cup {s})
      BY <3>4, <3>5, FS_Subset
    <3>7. Cardinality(F) \in Nat
      BY <3>4, <3>5, FS_Subset, FS_CardinalityType
    <3>. QED  BY <3>2, <3>5, <3>6, <3>7
  <2>. QED  BY <2>1, <2>2
<1>4. ASSUME S # {} PROVE F # {}
  <2>1. PICK s \in S : \A t \in S : ~(Rank[t] < Rank[s])
    BY <1>4, RankExtremes
  <2>2. Cardinality(Before(s)) = 0
    <3>1. Before(s) = {}
      BY <2>1
    <3>. HIDE DEF Before
    <3>. QED  BY <3>1, FS_EmptySet
  <2>. QED  BY <1>1, <2>2
<1>5. ASSUME Cardinality(S) <= n, NEW s \in S PROVE s \in F
  <2>1. IsFiniteSet(S) /\ Cardinality(S) \in Nat
    BY FleetIsFinite
  <2>2. Cardinality(S \ {s}) = Cardinality(S) - 1 /\ IsFiniteSet(S \ {s})
    BY <2>1, FS_RemoveElement
  <2>3. Before(s) \subseteq S \ {s}
    BY RanksApart
  <2>4. Cardinality(Before(s)) <= Cardinality(S \ {s})
    BY <2>2, <2>3, FS_Subset
  <2>5. Cardinality(Before(s)) \in Nat
    BY <1>2
  <2>. HIDE DEF Before
  <2>6. Cardinality(Before(s)) < n
    BY <1>5, <2>1, <2>2, <2>4, <2>5
  <2>. QED  BY <1>1, <2>6
<1>. QED  BY <1>1, <1>3, <1>4, <1>5

(* What is planned is not empty, within the cap and on offer.               *)
LEMMA PlannedIsFleet ==
    ASSUME NEW named \in SUBSET Specialist, NEW offer \in SUBSET Specialist, offer # {},
           NEW chosen \in Planned(named, offer)
    PROVE  chosen \subseteq offer /\ chosen # {} /\ Cardinality(chosen) <= MaxSpecialists
<1>. DEFINE good == named \cap offer
<1>1. CASE good = {}
  BY <1>1, FirstOfSize, AgentsAssumption DEF Planned
<1>2. CASE good # {} /\ Cardinality(good) <= MaxSpecialists
  BY <1>2 DEF Planned
<1>3. CASE good # {} /\ ~(Cardinality(good) <= MaxSpecialists)
  <2>1. chosen \subseteq good /\ Cardinality(chosen) = MaxSpecialists
    BY <1>3 DEF Planned
  <2>2. chosen # {}
    BY <2>1, FS_EmptySet, AgentsAssumption
  <2>3. MaxSpecialists <= MaxSpecialists
    BY AgentsAssumption
  <2>. QED  BY <2>1, <2>2, <2>3
<1>. QED  BY <1>1, <1>2, <1>3

(* A standing briefing gets every specialist there is but the analyst.      *)
LEMMA StandingFleet ==
    ASSUME TypeOK
    PROVE  /\ FirstOf(Available(FALSE), MaxSpecialists) = Available(FALSE)
           /\ Available(FALSE) = Available(TRUE) \ {"analyst"}
           /\ Available(FALSE) \subseteq Specialist /\ Available(TRUE) \subseteq Specialist
           /\ Available(TRUE) # {} /\ "analyst" \notin Available(FALSE)
           /\ Cardinality(Available(FALSE)) <= MaxSpecialists
<1>1. Available(FALSE) \in SUBSET Specialist /\ Available(TRUE) \in SUBSET Specialist
  BY DEF Available
<1>2. Cardinality(Available(FALSE)) <= MaxSpecialists
  BY CapAssumption DEF TypeOK, Available
<1>3. FirstOf(Available(FALSE), MaxSpecialists) = Available(FALSE)
  BY <1>1, <1>2, FirstOfSize, AgentsAssumption
<1>4. "analyst" \in Specialist /\ Supports(shape, TRUE, "analyst") /\ ~Supports(shape, FALSE, "analyst")
  BY DEF Specialist, Supports
<1>5. \A s \in Specialist \ {"analyst"} : Supports(shape, TRUE, s) = Supports(shape, FALSE, s)
  BY DEF Specialist, Supports
<1>6. Available(FALSE) = Available(TRUE) \ {"analyst"}
  BY <1>4, <1>5 DEF Available
<1>7. "analyst" \in Available(TRUE) /\ "analyst" \notin Available(FALSE)
  BY <1>4 DEF Available
<1>. QED  BY <1>1, <1>2, <1>3, <1>6, <1>7

-----------------------------------------------------------------------------
(***************************************************************************)
(* Requests.                                                               *)
(***************************************************************************)
(* A step that leaves the analyst alone.                                    *)
LEMMA StageMoves ==
    ASSUME IInv, NEW r \in Requests, req[r].at # "done", NEW q \in Stage, NEW c \in Nat,
           req' = [req EXCEPT ![r] = q], calls' = [calls EXCEPT ![r] = c],
           started' \in Nat, started' >= started,
           UNCHANGED <<shape, dataset, table, agent, log, message, brief>>,
           Consistent(r, q, agent[r], log[r], c), OwnTime(r, q)
    PROVE  IInv'
<1>1. /\ agent' = [agent EXCEPT ![r] = agent[r]] /\ log' = [log EXCEPT ![r] = log[r]]
      /\ agent[r] \in Analyst /\ log[r] \in [1..agent[r].attempt -> Fate]
  BY LogShape DEF IInv, TypeOK, LogsOK
<1>. QED  BY <1>1, RequestMoves

(* A request is over: it stores nothing and its analyst rests.              *)
LEMMA EndMoves ==
    ASSUME IInv, NEW r \in Requests, req[r].at # "done", agent[r].at \in Outcome \cup {"off"},
           NEW how \in {"done", "refused", "failed"}, Ends(r, how),
           NEW c \in Nat, calls' = [calls EXCEPT ![r] = c], started' \in Nat, started' >= started,
           UNCHANGED <<shape, dataset, table, agent, log, message, brief>>
    PROVE  IInv'
<1>. DEFINE q == [at |-> how]
<1>1. q \in Stage /\ q.at = how /\ req' = [req EXCEPT ![r] = q]
  BY OverIsStage DEF Ends, Becomes
<1>. HIDE DEF q
<1>2. Grounded(agent[r], log[r])
  BY DEF IInv, RequestsConsistent, Consistent
<1>3. Consistent(r, q, agent[r], log[r], c) /\ OwnTime(r, q)
  BY <1>1, <1>2 DEF Consistent, OwnTime, Fleet
<1>. QED  BY <1>1, <1>3, StageMoves

LEMMA CallsStay ==
    ASSUME IInv, NEW r \in Requests
    PROVE  calls = [calls EXCEPT ![r] = calls[r]] /\ calls[r] \in Nat /\ started \in Nat
BY DEF IInv, TypeOK

LEMMA AnalystStarts ==
    ASSUME NEW a, NEW l, a = [at |-> "writing", attempt |-> 1, usage |-> 0], l = <<"unknown">>
    PROVE  /\ a \in Analyst /\ a.at = "writing" /\ a.usage = 0
           /\ l \in [1..a.attempt -> Fate] /\ Grounded(a, l)
<1>1. a \in Analyst /\ a.at = "writing" /\ a.usage = 0 /\ a.attempt = 1
  BY AgentsAssumption, AnalystShape
<1>2. l \in [1..1 -> Fate] /\ l[1] = "unknown"
  BY DEF Fate
<1>. QED  BY <1>1, <1>2 DEF Grounded

LEMMA RefuseKeeps ==
    ASSUME IInv, NEW r \in Requests, Refuse(r)
    PROVE  IInv'
<1>1. agent[r].at = "off"
  BY DEF Refuse, IInv, RequestsConsistent, Consistent
<1>2. calls' = [calls EXCEPT ![r] = calls[r]] /\ calls[r] \in Nat /\ started' \in Nat /\ started' >= started
  BY CallsStay DEF Refuse
<1>. QED  BY <1>1, <1>2, EndMoves DEF Refuse, store

LEMMA BeginAskKeeps ==
    ASSUME IInv, NEW r \in Requests, BeginAsk(r)
    PROVE  IInv'
<1>1. PICK t \in Threads : Becomes(r, [at |-> "asking", thread |-> t, stamp |-> started + 1])
  BY DEF BeginAsk
<1>2. PICK q : q = [at |-> "asking", thread |-> t, stamp |-> started + 1]
  OBVIOUS
<1>3. PICK a : a = [at |-> "writing", attempt |-> 1, usage |-> 0]
  OBVIOUS
<1>4. PICK l : l = <<"unknown">>
  OBVIOUS
<1>5. q \in Stage /\ q.at = "asking" /\ q.stamp = started + 1
  BY <1>2, CallsStay DEF Stage, Asking
<1>6. /\ a \in Analyst /\ a.at = "writing" /\ a.usage = 0
      /\ l \in [1..a.attempt -> Fate] /\ Grounded(a, l)
  BY <1>3, <1>4, AnalystStarts
<1>7. calls[r] = 0 /\ r \in Asks /\ req[r].at # "done"
  BY DEF BeginAsk, IInv, RequestsConsistent, Consistent
<1>8. Consistent(r, q, a, l, calls[r])
  BY <1>5, <1>6, <1>7 DEF Consistent, Fleet
<1>9. req' = [req EXCEPT ![r] = q] /\ agent' = [agent EXCEPT ![r] = a] /\ log' = [log EXCEPT ![r] = l]
  BY <1>1, <1>2, <1>3, <1>4 DEF BeginAsk, Becomes, StartAnalyst
<1>10. calls' = [calls EXCEPT ![r] = calls[r]] /\ calls[r] \in Nat /\ started' \in Nat /\ started' >= started
  BY CallsStay DEF BeginAsk
<1>11. OwnTime(r, q)
  BY <1>5 DEF OwnTime, BeginAsk
<1>. QED  BY <1>5, <1>6, <1>7, <1>8, <1>9, <1>10, <1>11, RequestMoves DEF BeginAsk, store

LEMMA DispatchKeeps ==
    ASSUME IInv, NEW r \in Briefings, req[r].at \in {"idle", "planning"},
           NEW question \in BOOLEAN, NEW chosen \in SUBSET Specialist, NEW usage \in Nat,
           chosen # {}, Cardinality(chosen) <= MaxSpecialists,
           ~question => chosen = Available(TRUE) \ {"analyst"},
           Dispatch(r, question, chosen, usage), calls' = [calls EXCEPT ![r] = usage],
           started' \in Nat, started' >= started, UNCHANGED <<shape, dataset, table, message, brief>>
    PROVE  IInv'
<1>. DEFINE none == [s \in Specialist |-> "waiting"]
<1>1. PICK q : q = [at |-> "looking", question |-> question, usage |-> usage, chosen |-> chosen, finding |-> none]
  OBVIOUS
<1>2. none \in [Specialist -> Finding] /\ none["analyst"] = "waiting"
  BY DEF Finding, Specialist
<1>3. r \in Requests /\ req[r].at # "done"
  BY DEF Requests
<1>4. req' = [req EXCEPT ![r] = q]
  BY <1>1 DEF Dispatch, Becomes
<1>. HIDE DEF none
<1>5. /\ q \in Stage /\ q.at = "looking" /\ q.question = question /\ q.usage = usage /\ q.chosen = chosen
      /\ q.finding["analyst"] = "waiting"
  BY <1>1, <1>2, LookingShape DEF Fleet
<1>6. OwnTime(r, q)
  BY <1>5 DEF OwnTime
<1>7. /\ agent[r].at = "off" /\ Grounded(agent[r], log[r]) /\ agent[r].usage = 0
  BY <1>3 DEF IInv, RequestsConsistent, Consistent, Grounded
<1>8. ~q.question => q.chosen = Available(TRUE) \ {"analyst"}
  BY <1>5, Zenon
<1>9. CASE "analyst" \in chosen
  <2>1. PICK a : a = [at |-> "writing", attempt |-> 1, usage |-> 0]
    OBVIOUS
  <2>2. PICK l : l = <<"unknown">>
    OBVIOUS
  <2>3. agent' = [agent EXCEPT ![r] = a] /\ log' = [log EXCEPT ![r] = l]
    BY <1>9, <2>1, <2>2 DEF Dispatch, StartAnalyst
  <2>4. /\ a \in Analyst /\ a.at = "writing" /\ a.usage = 0
        /\ l \in [1..a.attempt -> Fate] /\ Grounded(a, l)
    BY <2>1, <2>2, AnalystStarts
  <2>5. Briefed(q, a, usage)
    <3>1. usage = q.usage + Unreported(q, a)
      BY <1>5, <2>4 DEF Unreported
    <3>. QED  BY <1>5, <1>9, <1>8, <2>4, <3>1 DEF Briefed
  <2>6. Consistent(r, q, a, l, usage)
    BY <1>5, <2>4, <2>5 DEF Consistent, Fleet
  <2>. QED  BY <1>3, <1>4, <1>5, <1>6, <2>3, <2>4, <2>6, RequestMoves
<1>10. CASE "analyst" \notin chosen
  <2>1. agent' = agent /\ log' = log
    BY <1>10 DEF Dispatch
  <2>2. Briefed(q, agent[r], usage)
    <3>1. usage = q.usage + Unreported(q, agent[r])
      BY <1>5, <1>7 DEF Unreported
    <3>. QED  BY <1>5, <1>7, <1>10, <1>8, <3>1 DEF Briefed
  <2>3. Consistent(r, q, agent[r], log[r], usage)
    BY <1>5, <1>7, <2>2 DEF Consistent, Fleet
  <2>. QED  BY <1>3, <1>4, <1>5, <1>6, <2>1, <2>3, StageMoves
<1>. QED  BY <1>9, <1>10

LEMMA BeginBriefKeeps ==
    ASSUME IInv, NEW r \in Requests, BeginBrief(r)
    PROVE  IInv'
<1>1. /\ r \in Briefings /\ req[r].at = "idle" /\ agent[r].at = "off" /\ calls[r] = 0
      /\ Grounded(agent[r], log[r])
  BY DEF BeginBrief, IInv, RequestsConsistent, Consistent
<1>2. calls' = [calls EXCEPT ![r] = calls[r]] /\ calls[r] \in Nat /\ started' \in Nat /\ started' >= started
  BY CallsStay DEF BeginBrief
<1>3. UNCHANGED <<shape, dataset, table, message, brief>>
  BY DEF BeginBrief, store
<1>4. PICK question \in BOOLEAN :
          \/ Available(question) = {} /\ Ends(r, "refused") /\ UNCHANGED <<agent, log>>
          \/ /\ question /\ Available(question) # {}
             /\ Becomes(r, [at |-> "planning"]) /\ UNCHANGED <<agent, log>>
          \/ /\ ~question /\ Available(question) # {}
             /\ Dispatch(r, FALSE, FirstOf(Available(FALSE), MaxSpecialists), 0)
  BY DEF BeginBrief
<1>5. CASE Ends(r, "refused") /\ UNCHANGED <<agent, log>>
  BY <1>1, <1>2, <1>3, <1>5, EndMoves
<1>6. CASE Becomes(r, [at |-> "planning"]) /\ UNCHANGED <<agent, log>>
  <2>1. PICK q : q = [at |-> "planning"]
    OBVIOUS
  <2>2. q \in Stage /\ q.at = "planning" /\ OwnTime(r, q)
    BY <2>1 DEF Stage, Planning, OwnTime
  <2>3. Consistent(r, q, agent[r], log[r], calls[r])
    BY <1>1, <2>2 DEF Consistent, Fleet
  <2>4. req' = [req EXCEPT ![r] = q]
    BY <1>6, <2>1 DEF Becomes
  <2>. QED  BY <1>1, <1>2, <1>3, <1>6, <2>2, <2>3, <2>4, StageMoves
<1>7. CASE ~question /\ Available(question) # {} /\ Dispatch(r, FALSE, FirstOf(Available(FALSE), MaxSpecialists), 0)
  <2>1. PICK chosen : chosen = Available(FALSE)
    OBVIOUS
  <2>2. /\ chosen \in SUBSET Specialist /\ chosen # {} /\ Cardinality(chosen) <= MaxSpecialists
        /\ chosen = Available(TRUE) \ {"analyst"} /\ Dispatch(r, FALSE, chosen, 0)
    BY <1>7, <2>1, StandingFleet DEF IInv
  <2>. QED  BY <1>1, <1>2, <1>3, <2>2, DispatchKeeps
<1>. QED  BY <1>4, <1>5, <1>6, <1>7

LEMMA PlanKeeps ==
    ASSUME IInv, NEW r \in Requests, Plan(r)
    PROVE  IInv'
<1>1. /\ r \in Briefings /\ req[r].at = "planning" /\ agent[r].at = "off" /\ calls[r] = 0
  BY DEF Plan, IInv, RequestsConsistent, Consistent
<1>2. PICK reply \in Reply :
          /\ IF reply = "answers"
             THEN \E named \in SUBSET Specialist : \E chosen \in Planned(named, Available(TRUE)) :
                    Dispatch(r, TRUE, chosen, 1)
             ELSE Ends(r, "failed") /\ UNCHANGED <<agent, log>>
          /\ Called(r, reply)
  BY DEF Plan
<1>3. UNCHANGED <<shape, dataset, table, message, brief>> /\ started' \in Nat /\ started' >= started
  BY CallsStay DEF Plan, store
<1>4. PICK c \in Nat : c = Charge(reply) /\ calls' = [calls EXCEPT ![r] = c]
  <2>1. Charge(reply) \in Nat
    BY DEF Charge
  <2>2. calls[r] + Charge(reply) = Charge(reply)
    BY <1>1, <2>1
  <2>. QED  BY <1>2, <2>1, <2>2 DEF Called
<1>5. CASE reply = "answers"
  <2>1. PICK named \in SUBSET Specialist : \E chosen \in Planned(named, Available(TRUE)) : Dispatch(r, TRUE, chosen, 1)
    BY <1>2, <1>5
  <2>2. PICK chosen \in Planned(named, Available(TRUE)) : Dispatch(r, TRUE, chosen, 1)
    BY <2>1
  <2>3. PICK offer : offer = Available(TRUE) /\ offer \in SUBSET Specialist /\ offer # {}
    BY StandingFleet DEF IInv
  <2>4. chosen \in SUBSET Specialist /\ chosen # {} /\ Cardinality(chosen) <= MaxSpecialists
    <3>1. chosen \in Planned(named, offer)
      BY <2>2, <2>3
    <3>. QED  BY <2>3, <3>1, PlannedIsFleet
  <2>5. c = 1
    BY <1>4, <1>5 DEF Charge
  <2>. QED  BY <1>1, <1>3, <1>4, <2>2, <2>4, <2>5, DispatchKeeps
<1>6. CASE reply # "answers"
  BY <1>1, <1>2, <1>3, <1>4, <1>6, EndMoves
<1>. QED  BY <1>5, <1>6

(* A report changes a finding and, if it says so, the usage.                *)
LEMMA ReportMoves ==
    ASSUME IInv, NEW r \in Requests, NEW s, At(r, s), NEW finding \in Finding, NEW u \in Nat,
           Reports(r, s, finding, u), UNCHANGED <<shape, dataset, table, agent, log, calls, started, message, brief>>,
           IF s = "analyst" THEN /\ agent[r].at \in Outcome /\ finding = Verdict(agent[r])
                                 /\ u = IF agent[r].at = "error" THEN 0 ELSE agent[r].usage
                            ELSE u = 0
    PROVE  IInv'
<1>. DEFINE p == req[r]
            a == agent[r]
<1>1. p \in Looking /\ a \in Analyst /\ calls[r] \in Nat
  BY LogShape, StageShape DEF At, IInv, Fleet
<1>2. p.at = "looking" /\ s \in p.chosen /\ p.finding[s] = "waiting"
  BY DEF At
<1>3. Consistent(r, p, a, log[r], calls[r])
  BY DEF IInv, RequestsConsistent
<1>4. req' = [req EXCEPT ![r] = [p EXCEPT !.finding[s] = finding, !.usage = @ + u]]
  BY DEF Reports
<1>. HIDE DEF p, a
<1>5. s \in Specialist
  BY <1>1, <1>2, LookingParts
<1>6. PICK q : q = [at |-> p.at, question |-> p.question, usage |-> p.usage + u, chosen |-> p.chosen,
                    finding |-> [p.finding EXCEPT ![s] = finding]]
  OBVIOUS
<1>7. req' = [req EXCEPT ![r] = q]
  <2>. DEFINE F == {"at", "question", "usage", "chosen", "finding"}
  <2>1. DOMAIN p = F
    BY <1>1 DEF Looking
  <2>2. [p EXCEPT !.finding[s] = finding, !.usage = @ + u]
          = [f \in F |-> IF f = "usage" THEN p.usage + u
                         ELSE IF f = "finding" THEN [p.finding EXCEPT ![s] = finding] ELSE p[f]]
    BY <2>1
  <2>3. [p EXCEPT !.finding[s] = finding, !.usage = @ + u] = q
    BY <1>6, <2>2
  <2>. QED  BY <1>4, <2>3
<1>8. p.usage + u \in Nat /\ [p.finding EXCEPT ![s] = finding] \in [Specialist -> Finding]
  BY <1>1, <1>5, LookingParts
<1>9. q \in Stage
  BY <1>1, <1>6, <1>8, LookingParts, LookingShape
<1>10. /\ q.at = "looking" /\ q.chosen = p.chosen /\ q.question = p.question /\ q.usage = p.usage + u
       /\ q.finding["analyst"] = IF s = "analyst" THEN finding ELSE p.finding["analyst"]
  BY <1>1, <1>2, <1>5, <1>6, LookingParts DEF Specialist
<1>11. Grounded(a, log[r]) /\ r \in Briefings /\ Briefed(p, a, calls[r])
  BY <1>2, <1>3 DEF Consistent, Fleet
<1>12. p.usage \in Nat /\ a.usage \in Nat
  BY <1>1, LookingParts, AnalystParts
<1>13. ~q.question => q.chosen = Available(TRUE) \ {"analyst"}
  <2>1. ~p.question => p.chosen = Available(TRUE) \ {"analyst"}
    BY <1>11 DEF Briefed
  <2>. QED  BY <1>10, <2>1, Zenon
<1>14. Briefed(q, a, calls[r])
  <2>1. CASE s = "analyst"
    <3>1. a.at \in Outcome /\ finding = Verdict(a) /\ u = IF a.at = "error" THEN 0 ELSE a.usage
      BY <2>1 DEF a
    <3>2. calls[r] = p.usage + a.usage
      BY <1>2, <1>11, <2>1 DEF Briefed, Unreported
    <3>3. calls[r] = q.usage + Unreported(q, a)
      BY <1>10, <1>12, <2>1, <3>1, <3>2 DEF Unreported, Verdict
    <3>. QED  BY <1>2, <1>10, <1>11, <1>13, <2>1, <3>1, <3>3 DEF Briefed, Outcome
  <2>2. CASE s # "analyst"
    <3>1. calls[r] = q.usage + Unreported(q, a)
      BY <1>10, <1>11, <1>12, <2>2 DEF Briefed, Unreported
    <3>. QED  BY <1>10, <1>11, <1>13, <2>2, <3>1 DEF Briefed
  <2>. QED  BY <2>1, <2>2
<1>15. Consistent(r, q, agent[r], log[r], calls[r]) /\ OwnTime(r, q)
  BY <1>10, <1>11, <1>14 DEF Consistent, OwnTime, Fleet, a
<1>16. req[r].at # "done"
  BY <1>2 DEF p
<1>17. calls' = [calls EXCEPT ![r] = calls[r]] /\ started' \in Nat /\ started' >= started
  BY CallsStay
<1>. QED  BY <1>1, <1>7, <1>9, <1>15, <1>16, <1>17, StageMoves

LEMMA UseToolKeeps ==
    ASSUME IInv, NEW r \in Requests, NEW s \in Specialist, UseTool(r, s)
    PROVE  IInv'
<1>1. PICK finding \in Finding : Reports(r, s, finding, 0)
  BY DEF UseTool, Finding
<1>. QED  BY <1>1, ReportMoves DEF UseTool, store

LEMMA AnalystReportsKeeps ==
    ASSUME IInv, NEW r \in Requests, AnalystReports(r)
    PROVE  IInv'
<1>1. PICK finding : finding = Verdict(agent[r])
  OBVIOUS
<1>2. PICK u : u = IF agent[r].at = "error" THEN 0 ELSE agent[r].usage
  OBVIOUS
<1>3. Reports(r, "analyst", finding, u) /\ agent[r].at \in Outcome /\ At(r, "analyst")
  BY <1>1, <1>2 DEF AnalystReports, Verdict
<1>4. finding \in Finding /\ u \in Nat
  BY <1>1, <1>2, LogShape, AnalystParts DEF IInv, Verdict, Finding
<1>. QED  BY <1>1, <1>2, <1>3, <1>4, ReportMoves DEF AnalystReports, store

LEMMA SynthesisUpdate ==
    ASSUME NEW q \in Looking, NEW at
    PROVE  /\ [q EXCEPT !.at = at, !.usage = @ + 1]
                = [at |-> at, question |-> q.question, usage |-> q.usage + 1, chosen |-> q.chosen, finding |-> q.finding]
           /\ [q EXCEPT !.at = at]
                = [at |-> at, question |-> q.question, usage |-> q.usage, chosen |-> q.chosen, finding |-> q.finding]
<1>. DEFINE F == {"at", "question", "usage", "chosen", "finding"}
<1>1. DOMAIN q = F
  BY DEF Looking
<1>2. [q EXCEPT !.at = at, !.usage = @ + 1]
        = [f \in F |-> IF f = "usage" THEN q.usage + 1 ELSE IF f = "at" THEN at ELSE q[f]]
  BY <1>1
<1>3. [q EXCEPT !.at = at] = [f \in F |-> IF f = "at" THEN at ELSE q[f]]
  BY <1>1
<1>. QED  BY <1>2, <1>3

LEMMA SynthesiseKeeps ==
    ASSUME IInv, NEW r \in Requests, Synthesise(r)
    PROVE  IInv'
<1>. DEFINE p == req[r]
            a == agent[r]
<1>1. p \in Looking /\ a \in Analyst /\ calls[r] \in Nat
  BY LogShape, StageShape DEF Synthesise, IInv, Fleet
<1>2. p.at \in {"looking", "degraded"} /\ \A s \in p.chosen : p.finding[s] # "waiting"
  BY DEF Synthesise
<1>3. PICK reply \in Reply :
          /\ CASE reply = "answers" -> Becomes(r, [p EXCEPT !.at = "writing", !.usage = @ + 1])
               [] reply = "throttled" /\ TwoModels /\ p.at = "looking" -> Becomes(r, [p EXCEPT !.at = "degraded"])
               [] OTHER -> Ends(r, "failed")
          /\ Called(r, reply)
  BY DEF Synthesise
<1>4. UNCHANGED <<shape, dataset, table, agent, log, message, brief>> /\ started' \in Nat /\ started' >= started
  BY CallsStay DEF Synthesise, store
<1>5. Consistent(r, p, a, log[r], calls[r])
  BY DEF IInv, RequestsConsistent
<1>6. PICK n \in Nat : n = Charge(reply) /\ calls' = [calls EXCEPT ![r] = calls[r] + n]
  BY <1>3 DEF Called, Charge
<1>7. calls[r] + n \in Nat
  BY <1>1, <1>6
<1>. HIDE DEF p, a
<1>8. Grounded(a, log[r]) /\ r \in Briefings /\ Briefed(p, a, calls[r])
  BY <1>2, <1>5 DEF Consistent, Fleet
<1>9. a.at \in Outcome \cup {"off"}
  BY <1>2, <1>8 DEF Briefed
<1>10. p.usage \in Nat /\ a.usage \in Nat
  BY <1>1, LookingParts, AnalystParts
<1>11. ~p.question => p.chosen = Available(TRUE) \ {"analyst"}
  BY <1>8 DEF Briefed
<1>12. req[r].at # "done"
  BY <1>2 DEF p
<1>13. CASE Ends(r, "failed")
  BY <1>4, <1>6, <1>7, <1>9, <1>12, <1>13, EndMoves DEF a
<1>14. ASSUME NEW at \in {"degraded", "writing"}, NEW q,
             q = [at |-> at, question |-> p.question, usage |-> p.usage + n, chosen |-> p.chosen, finding |-> p.finding],
             req' = [req EXCEPT ![r] = q]
       PROVE  IInv'
  <2>1. p.usage + n \in Nat
    BY <1>10
  <2>2. q \in Stage
    BY <1>1, <1>14, <2>1, LookingParts, LookingShape DEF Fleet
  <2>3. q.at = at /\ q.chosen = p.chosen /\ q.question = p.question /\ q.usage = p.usage + n /\ q.finding = p.finding
    BY <1>14
  <2>4. ~q.question => q.chosen = Available(TRUE) \ {"analyst"}
    BY <1>11, <2>3, Zenon
  <2>5. calls[r] + n = q.usage + Unreported(q, a)
    BY <1>8, <1>10, <2>3 DEF Briefed, Unreported
  <2>6. Briefed(q, a, calls[r] + n)
    BY <1>8, <2>3, <2>4, <2>5 DEF Briefed
  <2>7. Consistent(r, q, agent[r], log[r], calls[r] + n) /\ OwnTime(r, q)
    BY <1>2, <1>8, <2>3, <2>6 DEF Consistent, OwnTime, Fleet, a
  <2>. QED  BY <1>4, <1>6, <1>7, <1>12, <1>14, <2>2, <2>7, StageMoves
<1>15. CASE reply = "answers"
  <2>1. n = 1
    BY <1>6, <1>15 DEF Charge
  <2>. QED  BY <1>1, <1>3, <1>14, <1>15, <2>1, SynthesisUpdate DEF Becomes
<1>16. CASE reply = "throttled" /\ ~Ends(r, "failed")
  <2>1. n = 0 /\ p.usage + n = p.usage
    BY <1>6, <1>10, <1>16 DEF Charge
  <2>2. Becomes(r, [p EXCEPT !.at = "degraded"])
    BY <1>3, <1>16
  <2>3. PICK q : q = [at |-> "degraded", question |-> p.question, usage |-> p.usage, chosen |-> p.chosen,
                      finding |-> p.finding]
    OBVIOUS
  <2>4. [p EXCEPT !.at = "degraded"] = q
    BY <1>1, <2>3, SynthesisUpdate
  <2>5. req' = [req EXCEPT ![r] = q]
    BY <2>2, <2>4 DEF Becomes
  <2>. QED  BY <1>14, <2>1, <2>3, <2>5
<1>. QED  BY <1>3, <1>13, <1>15, <1>16

-----------------------------------------------------------------------------
(***************************************************************************)
(* What is stored.                                                         *)
(***************************************************************************)
(* The commit of a request leaves the others, and its analyst, as they are. *)
LEMMA CommitMoves ==
    ASSUME IInv, NEW r \in Requests, agent[r].at \in Outcome \cup {"off"}, Ends(r, "done"),
           UNCHANGED <<shape, dataset, table, agent, log, calls, started>>,
           message' \subseteq Message, brief' \subseteq Brief
    PROVE  /\ TypeOK' /\ LogsOK' /\ RequestsConsistent'
           /\ req'[r].at = "done" /\ \A s \in Requests \ {r} : req'[s] = req[s]
<1>. DEFINE q == [at |-> "done"]
<1>1. q \in Stage /\ q.at = "done" /\ req' = [req EXCEPT ![r] = q]
  BY OverIsStage DEF Ends, Becomes
<1>. HIDE DEF q
<1>2. req' \in [Requests -> Stage] /\ req'[r] = q /\ \A s \in Requests \ {r} : req'[s] = req[s]
  BY <1>1 DEF IInv, TypeOK, Stage
<1>3. TypeOK' /\ LogsOK'
  BY <1>2 DEF IInv, TypeOK, LogsOK, Stage
<1>4. RequestsConsistent'
  <2>. SUFFICES ASSUME NEW s \in Requests
                PROVE  Consistent(s, req[s], agent[s], log[s], calls[s])'
    BY DEF RequestsConsistent
  <2>1. Consistent(s, req[s], agent[s], log[s], calls[s])
    BY DEF IInv, RequestsConsistent
  <2>2. CASE s = r
    BY <1>1, <1>2, <2>1, <2>2 DEF Consistent, Fleet
  <2>3. CASE s # r
    BY <1>2, <2>1, <2>3 DEF Consistent, Briefed, Available
  <2>. QED  BY <2>2, <2>3
<1>. QED  BY <1>1, <1>2, <1>3, <1>4

(* Rows of others stay in agreement with their requests.                    *)
LEMMA OthersAgree ==
    ASSUME IInv, NEW r \in Requests, req[r].at # "done",
           UNCHANGED <<shape, agent, calls>>, \A s \in Requests \ {r} : req'[s] = req[s]
    PROVE  /\ \A m \in message :
                 /\ m.of # r
                 /\ req'[m.of].at = "done" /\ agent'[m.of].at \in {"answered", "declined", "exhausted"}
                 /\ m.role = "assistant" => /\ m.sql = SqlOf(agent'[m.of])
                                            /\ m.attempts = agent'[m.of].attempt
                                            /\ m.usage = calls'[m.of]
           /\ \A b \in brief :
                 /\ req'[b.of].at = "done" /\ agent'[b.of].at \in Outcome \cup {"off"}
                 /\ Briefed(b, agent[b.of], calls[b.of])'
                 /\ \A s \in b.chosen : b.finding[s] # "waiting"
<1>1. \A m \in message : m.of \in Requests /\ m.of # r
  BY DEF IInv, TypeOK, Message, AnswersAgree, Requests
<1>2. \A b \in brief : b.of \in Requests /\ b.of # r
  BY DEF IInv, TypeOK, Brief, BriefsAgree, Requests
<1>3. ASSUME NEW b \in brief
      PROVE  Briefed(b, agent[b.of], calls[b.of])'
  <2>1. Briefed(b, agent[b.of], calls[b.of])
    BY DEF IInv, BriefsAgree
  <2>. QED  BY <2>1 DEF Briefed, Available
<1>. QED  BY <1>1, <1>2, <1>3 DEF IInv, AnswersAgree, BriefsAgree

LEMMA EndAskKeeps ==
    ASSUME IInv, NEW r \in Requests, EndAsk(r)
    PROVE  IInv'
<1>1. req[r].at = "asking" /\ agent[r].at \in Outcome
  BY DEF EndAsk
<1>2. UNCHANGED <<shape, dataset, table, agent, log, calls, started, brief>>
  BY DEF EndAsk
<1>3. CASE agent[r].at = "error"
  <2>1. calls' = [calls EXCEPT ![r] = calls[r]] /\ calls[r] \in Nat /\ started' \in Nat /\ started' >= started
    BY <1>2, CallsStay
  <2>. QED  BY <1>1, <1>2, <1>3, <2>1, EndMoves DEF EndAsk
<1>4. CASE agent[r].at # "error"
  <2>1. Ends(r, "done") /\ message' = message \cup Exchange(r)
    BY <1>4 DEF EndAsk
  <2>2. /\ req[r] \in Asking /\ agent[r] \in Analyst /\ r \in Asks /\ calls[r] = agent[r].usage
        /\ started \in Nat
    <3>1. Consistent(r, req[r], agent[r], log[r], calls[r])
      BY DEF IInv, RequestsConsistent
    <3>. QED  BY <1>1, <3>1, LogShape, StageShape, CallsStay DEF IInv, Consistent
  <2>. DEFINE u == [of |-> r, thread |-> req[r].thread, role |-> "user", stamp |-> req[r].stamp,
                    sql |-> 0, attempts |-> 0, usage |-> 0]
              v == [of |-> r, thread |-> req[r].thread, role |-> "assistant", stamp |-> req[r].stamp,
                    sql |-> SqlOf(agent[r]), attempts |-> agent[r].attempt, usage |-> agent[r].usage]
  <2>3. Exchange(r) = {u, v}
    BY DEF Exchange, StampOf
  <2>4. u \in Message /\ v \in Message
    <3>1. req[r].thread \in Threads /\ req[r].stamp \in Nat
      BY <2>2 DEF Asking
    <3>2. agent[r].attempt \in 0..MaxSqlAttempts /\ SqlOf(agent[r]) \in 0..MaxSqlAttempts /\ agent[r].usage \in Nat
          /\ 0 \in 0..MaxSqlAttempts /\ agent[r].attempt \in Nat
      BY <2>2, AnalystParts, AgentsAssumption DEF SqlOf
    <3>. QED  BY <2>2, <3>1, <3>2 DEF Message
  <2>5. /\ u.of = r /\ u.role = "user" /\ u.thread = v.thread /\ u.stamp = req[r].stamp
        /\ v.of = r /\ v.role = "assistant" /\ v.stamp = req[r].stamp
        /\ v.sql = SqlOf(agent[r]) /\ v.attempts = agent[r].attempt /\ v.usage = agent[r].usage
    OBVIOUS
  <2>. HIDE DEF u, v
  <2>6. message' = message \cup {u, v}
    BY <2>1, <2>3
  <2>7. TypeOK' /\ LogsOK' /\ RequestsConsistent' /\ req'[r].at = "done" /\ \A s \in Requests \ {r} : req'[s] = req[s]
    <3>1. message' \subseteq Message /\ brief' \subseteq Brief
      BY <1>2, <2>4, <2>6 DEF IInv, TypeOK
    <3>. QED  BY <1>1, <1>2, <2>1, <3>1, CommitMoves
  <2>8. /\ \A m \in message :
                 /\ m.of # r
                 /\ req'[m.of].at = "done" /\ agent'[m.of].at \in {"answered", "declined", "exhausted"}
                 /\ m.role = "assistant" => /\ m.sql = SqlOf(agent'[m.of])
                                            /\ m.attempts = agent'[m.of].attempt
                                            /\ m.usage = calls'[m.of]
        /\ \A b \in brief :
                 /\ req'[b.of].at = "done" /\ agent'[b.of].at \in Outcome \cup {"off"}
                 /\ Briefed(b, agent[b.of], calls[b.of])'
                 /\ \A s \in b.chosen : b.finding[s] # "waiting"
    BY <1>1, <1>2, <2>7, OthersAgree
  <2>9. AnswersAgree'
    BY <1>1, <1>2, <1>4, <2>2, <2>5, <2>6, <2>7, <2>8 DEF AnswersAgree, Outcome
  <2>10. BriefsAgree'
    BY <1>2, <2>8 DEF BriefsAgree
  <2>11. Pairs'
    <3>1. ASSUME NEW m \in message', NEW role \in {"user", "assistant"}
          PROVE  \E n \in message' : n.of = m.of /\ n.role = role
      <4>1. CASE m \in message
        <5>1. PICK n \in message : n.of = m.of /\ n.role = role
          BY <4>1 DEF IInv, Pairs
        <5>. QED  BY <2>6, <5>1
      <4>2. CASE m \notin message
        <5>1. m.of = r
          BY <2>5, <2>6, <4>2
        <5>2. u \in message' /\ v \in message'
          BY <2>6
        <5>. QED  BY <2>5, <5>1, <5>2
      <4>. QED  BY <4>1, <4>2
    <3>2. ASSUME NEW m \in message', NEW n \in message', m.of = n.of
          PROVE  m.thread = n.thread /\ m.stamp = n.stamp /\ (m.role = n.role => m = n)
      <4>1. CASE m \in message
        <5>1. m.of # r
          BY <2>8, <4>1
        <5>2. n \in message
          BY <2>5, <2>6, <3>2, <5>1
        <5>. QED  BY <3>2, <4>1, <5>2 DEF IInv, Pairs
      <4>2. CASE m \notin message
        <5>1. m \in {u, v} /\ m.of = r
          BY <2>5, <2>6, <4>2
        <5>2. n \notin message
          BY <2>8, <3>2, <5>1
        <5>3. n \in {u, v}
          BY <2>6, <5>2
        <5>. QED  BY <2>5, <5>1, <5>3
      <4>. QED  BY <4>1, <4>2
    <3>. QED  BY <3>1, <3>2 DEF Pairs
  <2>12. Stamped'
    <3>1. /\ req[r].stamp <= started /\ \A m \in message : m.stamp # req[r].stamp
          /\ \A s \in Requests : req[s].at = "asking" /\ s # r => req[s].stamp # req[r].stamp
      BY <1>1 DEF IInv, Stamped
    <3>2. \A m \in message' : m.stamp <= started
      BY <2>5, <2>6, <3>1 DEF IInv, Stamped
    <3>3. \A m, n \in message' : m.of # n.of => m.stamp # n.stamp
      BY <2>5, <2>6, <3>1 DEF IInv, Stamped
    <3>4. ASSUME NEW s \in Requests, req'[s].at = "asking"
          PROVE  /\ req'[s].stamp <= started
                 /\ \A m \in message' : m.stamp # req'[s].stamp
                 /\ \A t \in Requests : req'[t].at = "asking" /\ t # s => req'[t].stamp # req'[s].stamp
      <4>1. s # r /\ req'[s] = req[s]
        BY <2>7, <3>4
      <4>2. \A m \in message' : m.stamp # req'[s].stamp
        BY <2>5, <2>6, <3>1, <3>4, <4>1 DEF IInv, Stamped
      <4>3. ASSUME NEW t \in Requests, req'[t].at = "asking", t # s
            PROVE  req'[t].stamp # req'[s].stamp
        <5>1. t # r /\ req'[t] = req[t]
          BY <2>7, <4>3
        <5>. QED  BY <3>4, <4>1, <4>3, <5>1 DEF IInv, Stamped
      <4>. QED  BY <3>4, <4>1, <4>2, <4>3 DEF IInv, Stamped
    <3>. QED  BY <1>2, <3>2, <3>3, <3>4 DEF Stamped
  <2>. QED  BY <2>7, <2>9, <2>10, <2>11, <2>12 DEF IInv
<1>. QED  BY <1>3, <1>4

LEMMA SaveBriefKeeps ==
    ASSUME IInv, NEW r \in Requests, SaveBrief(r)
    PROVE  IInv'
<1>1. req[r].at = "writing" /\ UNCHANGED <<shape, dataset, table, agent, log, calls, started, message>>
  BY DEF SaveBrief
<1>2. Consistent(r, req[r], agent[r], log[r], calls[r])
  BY DEF IInv, RequestsConsistent
<1>3. /\ req[r] \in Looking /\ r \in Briefings /\ Briefed(req[r], agent[r], calls[r])
      /\ \A s \in req[r].chosen : req[r].finding[s] # "waiting"
  BY <1>1, <1>2, LogShape, StageShape DEF IInv, Consistent, Fleet
<1>4. agent[r].at \in Outcome \cup {"off"}
  BY <1>3 DEF Briefed
<1>5. CASE dataset = "gone"
  <2>1. calls' = [calls EXCEPT ![r] = calls[r]] /\ calls[r] \in Nat /\ started' \in Nat /\ started' >= started
    BY <1>1, CallsStay
  <2>. QED  BY <1>1, <1>4, <1>5, <2>1, EndMoves DEF SaveBrief
<1>6. CASE dataset # "gone"
  <2>. DEFINE p == req[r]
  <2>1. PICK b : b = [of |-> r, question |-> p.question, chosen |-> p.chosen, finding |-> p.finding, usage |-> p.usage]
    OBVIOUS
  <2>2. Ends(r, "done") /\ brief' = brief \cup {b}
    BY <1>6, <2>1 DEF SaveBrief
  <2>3. p \in Looking /\ Briefed(p, agent[r], calls[r]) /\ \A s \in p.chosen : p.finding[s] # "waiting"
    BY <1>3
  <2>. HIDE DEF p
  <2>4. b \in Brief
    BY <1>3, <2>1, <2>3, LookingParts DEF Brief
  <2>5. b.of = r /\ b.question = p.question /\ b.chosen = p.chosen /\ b.finding = p.finding /\ b.usage = p.usage
    BY <2>1
  <2>6. ~b.question => b.chosen = Available(TRUE) \ {"analyst"}
    <3>1. ~p.question => p.chosen = Available(TRUE) \ {"analyst"}
      BY <2>3 DEF Briefed
    <3>. QED  BY <2>5, <3>1, Zenon
  <2>7. Briefed(b, agent[r], calls[r])
    BY <2>3, <2>5, <2>6 DEF Briefed, Unreported
  <2>8. TypeOK' /\ LogsOK' /\ RequestsConsistent' /\ req'[r].at = "done" /\ \A s \in Requests \ {r} : req'[s] = req[s]
    <3>1. message' \subseteq Message /\ brief' \subseteq Brief
      BY <1>1, <2>2, <2>4 DEF IInv, TypeOK
    <3>. QED  BY <1>1, <1>4, <2>2, <3>1, CommitMoves
  <2>9. /\ \A m \in message :
                 /\ m.of # r
                 /\ req'[m.of].at = "done" /\ agent'[m.of].at \in {"answered", "declined", "exhausted"}
                 /\ m.role = "assistant" => /\ m.sql = SqlOf(agent'[m.of])
                                            /\ m.attempts = agent'[m.of].attempt
                                            /\ m.usage = calls'[m.of]
        /\ \A x \in brief :
                 /\ req'[x.of].at = "done" /\ agent'[x.of].at \in Outcome \cup {"off"}
                 /\ Briefed(x, agent[x.of], calls[x.of])'
                 /\ \A s \in x.chosen : x.finding[s] # "waiting"
    BY <1>1, <2>8, OthersAgree
  <2>10. AnswersAgree'
    BY <1>1, <2>9 DEF AnswersAgree
  <2>11. Briefed(b, agent[b.of], calls[b.of])'
    BY <1>1, <2>5, <2>7 DEF Briefed, Available
  <2>12. BriefsAgree'
    BY <1>1, <1>4, <2>2, <2>3, <2>5, <2>8, <2>9, <2>11 DEF BriefsAgree
  <2>13. Pairs'
    BY <1>1 DEF IInv, Pairs
  <2>14. Stamped'
    BY <1>1, <2>8 DEF IInv, Stamped
  <2>. QED  BY <2>8, <2>10, <2>12, <2>13, <2>14 DEF IInv
<1>. QED  BY <1>5, <1>6

(* The dataset is ingested, loses its table, or goes with all that is       *)
(* stored about it.                                                         *)
LEMMA DatasetStepKeeps ==
    ASSUME IInv, DatasetStep
    PROVE  IInv'
<1>1. UNCHANGED <<shape, req, agent, log, calls, started>>
  BY DEF DatasetStep, Delete
<1>2. dataset' \in {"ready", "busy", "gone"} /\ table' \in BOOLEAN
  BY DEF DatasetStep, Delete, Reingest, Settle, DropTable, IInv, TypeOK
<1>3. UNCHANGED <<message, brief>> \/ (message' = {} /\ brief' = {})
  BY DEF DatasetStep, Delete, store
<1>4. TypeOK' /\ LogsOK'
  BY <1>1, <1>2, <1>3 DEF IInv, TypeOK, LogsOK
<1>5. RequestsConsistent'
  BY <1>1 DEF IInv, RequestsConsistent, Consistent, Briefed, Available
<1>6. AnswersAgree' /\ Pairs'
  BY <1>1, <1>3 DEF IInv, AnswersAgree, Pairs
<1>7. BriefsAgree'
  BY <1>1, <1>3 DEF IInv, BriefsAgree, Briefed, Available
<1>8. Stamped'
  BY <1>1, <1>3 DEF IInv, Stamped
<1>. QED  BY <1>4, <1>5, <1>6, <1>7, <1>8 DEF IInv

LEMMA StutterKeeps ==
    ASSUME IInv, UNCHANGED vars
    PROVE  IInv'
<1>1. UNCHANGED <<shape, dataset, table, req, agent, log, calls, started, message, brief>>
  BY DEF vars
<1>2. TypeOK' /\ LogsOK'
  BY <1>1 DEF IInv, TypeOK, LogsOK
<1>3. RequestsConsistent'
  BY <1>1 DEF IInv, RequestsConsistent, Consistent, Briefed, Available
<1>4. AnswersAgree' /\ Pairs' /\ Stamped'
  BY <1>1 DEF IInv, AnswersAgree, Pairs, Stamped
<1>5. BriefsAgree'
  BY <1>1 DEF IInv, BriefsAgree, Briefed, Available
<1>. QED  BY <1>2, <1>3, <1>4, <1>5 DEF IInv

LEMMA InitInvariant == Init => IInv
<1>. SUFFICES ASSUME Init PROVE IInv
  OBVIOUS
<1>1. \A r \in Requests : /\ req[r] = Waiting /\ agent[r] = Off /\ log[r] = <<>> /\ calls[r] = 0
  BY DEF Init
<1>2. Waiting \in Stage /\ Waiting.at = "idle"
  BY DEF Stage, Waiting
<1>3. Off \in Analyst /\ Off.at = "off" /\ Off.attempt = 0 /\ Off.usage = 0
  BY AgentsAssumption DEF Off, Analyst
<1>4. <<>> \in [1..0 -> Fate]
  OBVIOUS
<1>5. TypeOK
  <2>1. \A r \in Requests : DOMAIN log[r] = 1..agent[r].attempt
    BY <1>1, <1>3, <1>4
  <2>2. agent \in [Requests -> Analyst] /\ req \in [Requests -> Stage]
    BY <1>2, <1>3 DEF Init
  <2>. QED  BY <2>1, <2>2 DEF Init, TypeOK, Stage, Analyst
<1>6. LogsOK
  <2>1. <<>> \in UNION {[1..n -> Fate] : n \in Nat}
    BY <1>4
  <2>. QED  BY <2>1 DEF Init, LogsOK
<1>7. RequestsConsistent
  <2>1. Grounded(Off, <<>>)
    BY <1>3 DEF Grounded, Outcome
  <2>2. \A r \in Requests : Consistent(r, Waiting, Off, <<>>, 0)
    BY <1>2, <1>3, <2>1 DEF Consistent, Fleet
  <2>. QED  BY <1>1, <2>2 DEF RequestsConsistent
<1>8. AnswersAgree /\ BriefsAgree /\ Pairs
  BY DEF Init, AnswersAgree, BriefsAgree, Pairs
<1>9. Stamped
  BY <1>1, <1>2 DEF Init, Stamped
<1>. QED  BY <1>5, <1>6, <1>7, <1>8, <1>9 DEF IInv

LEMMA NextKeepsInvariant == IInv /\ [Next]_vars => IInv'
<1>. SUFFICES ASSUME IInv, [Next]_vars PROVE IInv'
  OBVIOUS
<1>1. ASSUME NEW r \in Requests, Arrive(r)
      PROVE  IInv'
  BY <1>1, RefuseKeeps, BeginAskKeeps, BeginBriefKeeps DEF Arrive
<1>2. ASSUME NEW r \in Requests, Step(r)
      PROVE  IInv'
  BY <1>2, AnalyseKeeps, EndAskKeeps, PlanKeeps, UseToolKeeps, AnalystReportsKeeps, SynthesiseKeeps,
     SaveBriefKeeps DEF Step
<1>. QED  BY <1>1, <1>2, DatasetStepKeeps, StutterKeeps DEF Next

-----------------------------------------------------------------------------
(***************************************************************************)
(* What the invariant means for what is stored.                            *)
(***************************************************************************)
LEMMA InvariantWhole == IInv => WholeExchanges
<1>. SUFFICES ASSUME IInv, NEW m \in message
              PROVE  LET own == {n \in message : n.of = m.of} IN
                     /\ {n.role : n \in own} = {"user", "assistant"} /\ Cardinality(own) = 2
                     /\ \A n \in own, o \in message :
                           o.thread = m.thread /\ o.of # m.of =>
                              (o.stamp < m.stamp <=> o.stamp < n.stamp) /\ o.stamp # m.stamp
  BY DEF WholeExchanges
<1>. DEFINE own == {n \in message : n.of = m.of}
<1>1. PICK u \in message : u.of = m.of /\ u.role = "user"
  BY DEF IInv, Pairs
<1>2. PICK v \in message : v.of = m.of /\ v.role = "assistant"
  BY DEF IInv, Pairs
<1>3. \A n \in message : n.role \in {"user", "assistant"}
  BY DEF IInv, TypeOK, Message
<1>4. own = {u, v}
  <2>1. ASSUME NEW n \in message, n.of = m.of
        PROVE  n = u \/ n = v
    <3>1. n.role = u.role \/ n.role = v.role
      BY <1>1, <1>2, <1>3
    <3>2. /\ n.of = u.of /\ n.role = u.role => n = u
          /\ n.of = v.of /\ n.role = v.role => n = v
      BY DEF IInv, Pairs
    <3>. QED  BY <1>1, <1>2, <2>1, <3>1, <3>2
  <2>. QED  BY <1>1, <1>2, <2>1
<1>5. u # v
  BY <1>1, <1>2
<1>6. {n.role : n \in own} = {"user", "assistant"}
  BY <1>1, <1>2, <1>4
<1>7. Cardinality(own) = 2
  <2>1. IsFiniteSet({u}) /\ Cardinality({u}) = 1
    BY FS_Singleton
  <2>2. Cardinality({u} \cup {v}) = Cardinality({u}) + 1
    BY <1>5, <2>1, FS_AddElement
  <2>3. own = {u} \cup {v}
    BY <1>4
  <2>. QED  BY <2>1, <2>2, <2>3
<1>8. \A n \in own : n.stamp = m.stamp
  BY DEF IInv, Pairs
<1>9. \A o \in message : o.of # m.of => o.stamp # m.stamp
  BY DEF IInv, Stamped
<1>. QED  BY <1>6, <1>7, <1>8, <1>9

(* An analyst at rest: what its log says of the query it ended with.        *)
LEMMA LogOfOutcome ==
    ASSUME IInv, NEW r \in Requests, agent[r].at \in Outcome \ {"error"}
    PROVE  /\ Ran(r) = {SqlOf(agent[r])} \ {0}
           /\ \A i \in 1..(agent[r].attempt - 1) : log[r][i] = "rejected"
           /\ agent[r].at = "answered" <=> Ran(r) # {}
<1>1. /\ Grounded(agent[r], log[r]) /\ DOMAIN log[r] = 1..agent[r].attempt
      /\ agent[r].attempt \in Nat
  BY LogShape, AnalystParts DEF IInv, RequestsConsistent, Consistent, TypeOK
<1>2. agent[r].attempt # 0 /\ \A i \in 1..(agent[r].attempt - 1) : log[r][i] = "rejected"
  BY <1>1 DEF Grounded, Outcome
<1>3. CASE agent[r].at = "answered"
  <2>1. log[r][agent[r].attempt] = "ran"
    BY <1>1, <1>3 DEF Grounded
  <2>2. Ran(r) = {agent[r].attempt}
    BY <1>1, <1>2, <2>1 DEF Ran
  <2>. QED  BY <1>2, <1>3, <2>2 DEF SqlOf
<1>4. CASE agent[r].at # "answered"
  <2>1. log[r][agent[r].attempt] # "ran"
    BY <1>1, <1>4 DEF Grounded, Outcome
  <2>2. Ran(r) = {}
    BY <1>1, <1>2, <2>1 DEF Ran
  <2>. QED  BY <1>2, <1>4, <2>2 DEF SqlOf
<1>. QED  BY <1>3, <1>4

LEMMA InvariantGrounded == IInv => GroundedAnswers
<1>. SUFFICES ASSUME IInv PROVE GroundedAnswers
  OBVIOUS
<1>1. ASSUME NEW m \in message, m.role = "assistant"
      PROVE  Ran(m.of) = {m.sql} \ {0} /\ \A i \in 1..(m.attempts - 1) : log[m.of][i] = "rejected"
  <2>1. m.of \in Requests /\ agent[m.of].at \in Outcome \ {"error"}
    BY DEF IInv, TypeOK, Message, AnswersAgree, Requests, Outcome
  <2>. QED  BY <1>1, <2>1, LogOfOutcome DEF IInv, AnswersAgree
<1>2. ASSUME NEW b \in brief, "analyst" \in b.chosen
      PROVE  /\ b.finding["analyst"] = "ok" => Ran(b.of) # {}
             /\ b.finding["analyst"] = "refused" => Ran(b.of) = {}
  <2>1. /\ b.of \in Requests /\ agent[b.of].at \in Outcome
        /\ b.finding["analyst"] = Verdict(agent[b.of])
    BY <1>2 DEF IInv, TypeOK, Brief, BriefsAgree, Requests, Briefed
  <2>2. CASE agent[b.of].at = "error"
    BY <2>1, <2>2 DEF Verdict
  <2>3. CASE agent[b.of].at # "error"
    BY <2>1, <2>3, LogOfOutcome DEF Verdict
  <2>. QED  BY <2>2, <2>3
<1>. QED  BY <1>1, <1>2 DEF GroundedAnswers

LEMMA InvariantUsage == IInv => UsageRecorded
<1>. SUFFICES ASSUME IInv PROVE UsageRecorded
  OBVIOUS
<1>1. ASSUME NEW b \in brief
      PROVE  b.usage + (IF b.finding["analyst"] = "failed" THEN agent[b.of].usage ELSE 0) = calls[b.of]
  <2>1. b.of \in Requests /\ Briefed(b, agent[b.of], calls[b.of]) /\ \A s \in b.chosen : b.finding[s] # "waiting"
    BY DEF IInv, TypeOK, Brief, BriefsAgree, Requests
  <2>2. calls[b.of] = b.usage + Unreported(b, agent[b.of])
    BY <2>1 DEF Briefed
  <2>3. CASE b.finding["analyst"] = "waiting"
    <3>1. agent[b.of].at = "off"
      BY <2>1, <2>3 DEF Briefed
    <3>2. agent[b.of].usage = 0
      BY <2>1, <3>1 DEF IInv, RequestsConsistent, Consistent, Grounded
    <3>. QED  BY <2>2, <2>3, <3>2 DEF Unreported
  <2>4. CASE b.finding["analyst"] # "waiting"
    BY <2>2, <2>4 DEF Unreported
  <2>. QED  BY <2>3, <2>4
<1>. QED  BY <1>1 DEF UsageRecorded, IInv, AnswersAgree

LEMMA InvariantCovers == IInv => BriefCoversFleet
BY DEF IInv, BriefsAgree, Briefed, BriefCoversFleet

-----------------------------------------------------------------------------
(***************************************************************************)
(* The theorems.                                                           *)
(***************************************************************************)
LEMMA Invariance == Spec => []IInv
BY InitInvariant, NextKeepsInvariant, PTL DEF Spec

(* Requests, analysts, messages and briefings have their types.             *)
THEOREM AgentsTypeCorrect == Spec => []TypeOK
BY Invariance, PTL DEF IInv

(* Exchanges are stored whole, and no other one sorts into them.            *)
THEOREM ExchangesAreWhole == Spec => []WholeExchanges
BY Invariance, InvariantWhole, PTL

(* An answer was told from the rows of the query it carries.                *)
THEOREM AnswersAreGrounded == Spec => []GroundedAnswers
BY Invariance, InvariantGrounded, PTL

(* Usage counts every call that was made, over retries and fallback.        *)
THEOREM UsageIsRecorded == Spec => []UsageRecorded
BY Invariance, InvariantUsage, PTL

(* A stored briefing is complete, and within the cap.                       *)
THEOREM BriefsCoverTheFleet == Spec => []BriefCoversFleet
BY Invariance, InvariantCovers, PTL
=============================================================================

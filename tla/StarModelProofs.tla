-------------------------- MODULE StarModelProofs ---------------------------
(***************************************************************************)
(* StarModel for any datasets, relationships and requests: its types, that *)
(* only agreed joins are made, that an undisturbed rebuild leaves what was *)
(* decided, and that prompts describe the table they are about.            *)
(*                                                                         *)
(* The invariant follows a rebuild from its reads to its views: as long as *)
(* nothing has overtaken it, what it read is still so, and the roles it    *)
(* has committed are those of the model it is about to apply.              *)
(***************************************************************************)
EXTENDS StarModel, TLAPS

Usable == {e \in Within(Ready) : rel[e] = "confirmed"}

(* A slug names one dataset at a time.                                      *)
SlugsAreDistinct == \A c, d \in Live : SlugOf[c] = SlugOf[d] => c = d

(* Whatever a rebuild is about to join has been confirmed by someone.       *)
AgreementsAreKnown ==
    /\ \A e \in Edges : rel[e] = "confirmed" => e \in agreed
    /\ \A r \in Requests :
          /\ req[r].at = "decided" /\ req[r].decision = "confirmed" => req[r].edge \in agreed
          /\ req[r].at \in {"read", "committed"} => req[r].joins \subseteq agreed

(* What a rebuild that is still alone has read is still so.                 *)
CurrentRebuild(q) ==
    /\ q.ready = Ready /\ q.joins = Usable
    /\ q.at = "read" => q.written = {d \in Ready : RoleIn(d, Usable) # role[d]}
    /\ q.at = "committed" => \A d \in Ready : role[d] = RoleIn(d, Usable)

CurrentQuestion(q) ==
    LET d == q.dataset
    IN  /\ settled /\ d \in Ready
        /\ q.at = "asked" => q.fact = (role[d] = "fact")
        /\ q.at = "targeted" =>
              /\ q.star = (role[d] = "fact" /\ view[SlugOf[d]].made)
              /\ q.offered = IF role[d] = "fact" THEN JoinsOf(d, Usable) ELSE {}

RequestsAreCurrent ==
    \A r \in Requests :
        /\ req[r].at \in {"read", "committed"} /\ req[r].alone => CurrentRebuild(req[r])
        /\ req[r].at \in {"asked", "targeted"} /\ req[r].alone => CurrentQuestion(req[r])

IInv == /\ TypeOK
        /\ SlugsAreDistinct
        /\ AgreementsAreKnown
        /\ NothingJoinsItself
        /\ RequestsAreCurrent
        /\ RebuildSettles

-----------------------------------------------------------------------------
(***************************************************************************)
(* The kinds of request.                                                   *)
(***************************************************************************)
Kinds == {Idle} \cup Detection \cup Decision \cup Rebuild \cup Building \cup Question \cup Targeted

LEMMA KindOf ==
    ASSUME NEW q \in Kinds
    PROVE  /\ q.at = "idle" <=> q = Idle
           /\ q.at = "detecting" <=> q \in Detection
           /\ q.at \in {"deciding", "decided"} <=> q \in Decision
           /\ q.at = "rebuilding" <=> q \in Rebuild
           /\ q.at \in {"read", "committed"} <=> q \in Building
           /\ q.at = "asked" <=> q \in Question
           /\ q.at = "targeted" <=> q \in Targeted
<1>1. CASE q = Idle
  BY <1>1 DEF Idle, Detection, Decision, Rebuild, Building, Question, Targeted
<1>2. CASE q \in Detection
  BY <1>2 DEF Idle, Detection, Decision, Rebuild, Building, Question, Targeted
<1>3. CASE q \in Decision
  BY <1>3 DEF Idle, Detection, Decision, Rebuild, Building, Question, Targeted
<1>4. CASE q \in Rebuild
  BY <1>4 DEF Idle, Detection, Decision, Rebuild, Building, Question, Targeted
<1>5. CASE q \in Building
  BY <1>5 DEF Idle, Detection, Decision, Rebuild, Building, Question, Targeted
<1>6. CASE q \in Question
  BY <1>6 DEF Idle, Detection, Decision, Rebuild, Building, Question, Targeted
<1>7. CASE q \in Targeted
  BY <1>7 DEF Idle, Detection, Decision, Rebuild, Building, Question, Targeted
<1> QED BY <1>1, <1>2, <1>3, <1>4, <1>5, <1>6, <1>7 DEF Kinds

(* A request that is overtaken goes on with what it holds, and knows no     *)
(* longer to be alone.                                                      *)
LEMMA OvertakenGoesOn ==
    ASSUME NEW q \in Kinds
    PROVE  /\ Overtaken(q) \in Kinds
           /\ Overtaken(q).at = q.at
           /\ q \in Decision => Overtaken(q) = q
           /\ q \in Building => Overtaken(q).joins = q.joins
           /\ q \in Building \cup Question \cup Targeted => ~Overtaken(q).alone
<1>1. CASE q \in {Idle} \cup Detection \cup Decision \cup Rebuild
  <2>1. "alone" \notin DOMAIN q
    BY <1>1 DEF Idle, Detection, Decision, Rebuild
  <2>2. q \notin Building /\ q \notin Question /\ q \notin Targeted
    BY <1>1, KindOf DEF Idle, Detection, Decision, Rebuild
  <2> QED BY <2>1, <2>2 DEF Overtaken
<1>2. CASE q \in Building
  <2>1. Overtaken(q) = [q EXCEPT !.alone = FALSE] /\ q \notin Decision
    BY <1>2, KindOf DEF Overtaken, Building
  <2>2. [q EXCEPT !.alone = FALSE] \in Building
    BY <1>2 DEF Building
  <2> QED BY <1>2, <2>1, <2>2 DEF Building, Kinds
<1>3. CASE q \in Question
  <2>1. Overtaken(q) = [q EXCEPT !.alone = FALSE] /\ q \notin Decision /\ q \notin Building
    BY <1>3, KindOf DEF Overtaken, Question
  <2>2. [q EXCEPT !.alone = FALSE] \in Question
    BY <1>3 DEF Question
  <2> QED BY <1>3, <2>1, <2>2 DEF Question, Kinds
<1>4. CASE q \in Targeted
  <2>1. Overtaken(q) = [q EXCEPT !.alone = FALSE] /\ q \notin Decision /\ q \notin Building
    BY <1>4, KindOf DEF Overtaken, Targeted
  <2>2. [q EXCEPT !.alone = FALSE] \in Targeted
    BY <1>4 DEF Targeted
  <2> QED BY <1>4, <2>1, <2>2 DEF Targeted, Kinds
<1> QED BY <1>1, <1>2, <1>3, <1>4 DEF Kinds


LEMMA Kinded == TypeOK => req \in [Requests -> Kinds]
BY DEF TypeOK, Kinds

(* What is said of a request that is overtaken holds whatever has changed.  *)
LEMMA OvertakenAreCurrent ==
    ASSUME IInv, NEW p \in Requests, req'[p] = Overtaken(req[p]), agreed \subseteq agreed'
    PROVE  /\ req'[p].at \in {"read", "committed", "asked", "targeted"} => ~req'[p].alone
           /\ req'[p].at = "decided" /\ req'[p].decision = "confirmed" => req'[p].edge \in agreed'
           /\ req'[p].at \in {"read", "committed"} => req'[p].joins \subseteq agreed'
<1>1. req[p] \in Kinds /\ req'[p].at = req[p].at
  BY Kinded, OvertakenGoesOn DEF IInv
<1>2. req'[p].at \in {"read", "committed", "asked", "targeted"} => ~req'[p].alone
  BY <1>1, KindOf, OvertakenGoesOn
<1>3. req[p].at = "decided" => req'[p] = req[p]
  BY <1>1, KindOf, OvertakenGoesOn
<1>4. req[p].at \in {"read", "committed"} => req'[p].joins = req[p].joins
  BY <1>1, KindOf, OvertakenGoesOn
<1> QED BY <1>1, <1>2, <1>3, <1>4 DEF IInv, AgreementsAreKnown

LEMMA DisturbsOthers ==
    ASSUME TypeOK, NEW r \in Requests, NEW q \in Kinds, Disturbs(r, q)
    PROVE  /\ req' \in [Requests -> Kinds]
           /\ req'[r] = q
           /\ \A p \in Requests \ {r} : req'[p] = Overtaken(req[p])
<1>1. \A p \in Requests : Overtaken(req[p]) \in Kinds
  BY Kinded, OvertakenGoesOn
<1>2. req' = [p \in Requests |-> IF p = r THEN q ELSE Overtaken(req[p])]
  BY DEF Disturbs
<1> HIDE DEF Kinds, Overtaken
<1> QED BY <1>1, <1>2

(* The parts of the invariant about the requests, after a step that         *)
(* disturbs the others.                                                     *)
LEMMA DisturbsKeeps ==
    ASSUME IInv, NEW r \in Requests, NEW q \in Kinds, Disturbs(r, q), agreed \subseteq agreed',
           \A e \in Edges : rel'[e] = "confirmed" => e \in agreed',
           q.at = "decided" /\ q.decision = "confirmed" => q.edge \in agreed',
           q.at \in {"read", "committed"} => q.joins \subseteq agreed',
           q.at \in {"read", "committed"} /\ q.alone => CurrentRebuild(q)',
           q.at \in {"asked", "targeted"} => ~q.alone
    PROVE  AgreementsAreKnown' /\ RequestsAreCurrent'
<1>1. req'[r] = q /\ \A p \in Requests \ {r} : req'[p] = Overtaken(req[p])
  BY DisturbsOthers DEF IInv
<1>2. AgreementsAreKnown'
  <2>1. ASSUME NEW p \in Requests
        PROVE  /\ req'[p].at = "decided" /\ req'[p].decision = "confirmed" => req'[p].edge \in agreed'
               /\ req'[p].at \in {"read", "committed"} => req'[p].joins \subseteq agreed'
    <3>1. CASE p = r
      BY <1>1, <3>1
    <3>2. CASE p # r
      BY <1>1, <3>2, OvertakenAreCurrent
    <3> QED BY <3>1, <3>2
  <2> QED BY <2>1 DEF AgreementsAreKnown
<1>3. RequestsAreCurrent'
  <2>1. ASSUME NEW p \in Requests
        PROVE  (/\ req[p].at \in {"read", "committed"} /\ req[p].alone => CurrentRebuild(req[p])
                /\ req[p].at \in {"asked", "targeted"} /\ req[p].alone => CurrentQuestion(req[p]))'
    <3>1. CASE p = r
      <4>1. req'[p].at \in {"read", "committed"} /\ req'[p].alone => CurrentRebuild(req[p])'
        BY <1>1, <3>1 DEF CurrentRebuild
      <4> QED BY <1>1, <3>1, <4>1
    <3>2. CASE p # r
      BY <1>1, <3>2, OvertakenAreCurrent
    <3> QED BY <3>1, <3>2
  <2> QED BY <2>1 DEF RequestsAreCurrent
<1> QED BY <1>2, <1>3

(* A step that moves one request on and leaves the model alone.             *)
LEMMA GoesKeeps ==
    ASSUME IInv, NEW r \in Requests, NEW q \in Kinds, Goes(r, q),
           UNCHANGED <<data, role, view, settled, agreed, broken>>,
           rel' \in [Edges -> {"none"} \cup Decisions],
           \A e \in Edges : rel'[e] = "confirmed" <=> rel[e] = "confirmed",
           q.at \notin {"decided", "read", "committed"},
           q.at \in {"asked", "targeted"} /\ q.alone => CurrentQuestion(q)
    PROVE  IInv'
<1>1. /\ req' = [req EXCEPT ![r] = q]
      /\ ds' = ds /\ tables' = tables /\ role' = role /\ view' = view
      /\ settled' = settled /\ agreed' = agreed /\ broken' = broken
  BY DEF Goes, data
<1>2. req' \in [Requests -> Kinds] /\ \A p \in Requests : req'[p] = IF p = r THEN q ELSE req[p]
  <2> HIDE DEF Kinds
  <2> QED BY <1>1, Kinded DEF IInv
<1>3. TypeOK'
  <2>1. req' \in [Requests -> {Idle} \cup Detection \cup Decision \cup Rebuild \cup Building \cup Question \cup Targeted]
    BY <1>2 DEF Kinds
  <2> HIDE DEF Idle, Detection, Decision, Rebuild, Building, Question, Targeted
  <2> QED BY <1>1, <2>1 DEF IInv, TypeOK
<1>4. Live' = Live /\ Ready' = Ready /\ Usable' = Usable
  BY <1>1 DEF Live, Ready, Usable, Within
<1>5. SlugsAreDistinct' /\ NothingJoinsItself'
  BY <1>1, <1>4 DEF IInv, SlugsAreDistinct, NothingJoinsItself
<1>6. AgreementsAreKnown'
  BY <1>1, <1>2 DEF IInv, AgreementsAreKnown
<1>7. RequestsAreCurrent'
  <2>1. ASSUME NEW p \in Requests
        PROVE  (/\ req[p].at \in {"read", "committed"} /\ req[p].alone => CurrentRebuild(req[p])
                /\ req[p].at \in {"asked", "targeted"} /\ req[p].alone => CurrentQuestion(req[p]))'
    <3>1. CASE p = r
      BY <1>1, <1>2, <1>4, <3>1 DEF CurrentQuestion
    <3>2. CASE p # r
      <4>1. req'[p] = req[p]
        BY <1>2, <3>2
      <4>2. /\ req[p].at \in {"read", "committed"} /\ req[p].alone => CurrentRebuild(req[p])
            /\ req[p].at \in {"asked", "targeted"} /\ req[p].alone => CurrentQuestion(req[p])
        BY DEF IInv, RequestsAreCurrent
      <4>3. CurrentRebuild(req[p])' = CurrentRebuild(req[p])
        BY <1>1, <1>4, <4>1 DEF CurrentRebuild
      <4>4. CurrentQuestion(req[p])' = CurrentQuestion(req[p])
        BY <1>1, <1>4, <4>1 DEF CurrentQuestion
      <4> QED BY <4>1, <4>2, <4>3, <4>4
    <3> QED BY <3>1, <3>2
  <2> QED BY <2>1 DEF RequestsAreCurrent
<1>8. RebuildSettles'
  BY <1>1, <1>4 DEF IInv, RebuildSettles, Usable
<1> QED BY <1>3, <1>5, <1>6, <1>7, <1>8 DEF IInv


(***************************************************************************)
(* Steps that move one request on.                                         *)
(***************************************************************************)
LEMMA DetectReadsKeeps ==
    ASSUME IInv, NEW r \in Requests, DetectReads(r)
    PROVE  IInv'
<1> DEFINE q == [at |-> "detecting", found |-> Within(Ready), known |-> {e \in Edges : rel[e] # "none"}]
<1>1. q \in Detection
  BY DEF Detection, Within
<1>2. q \in Kinds /\ q.at = "detecting"
  BY <1>1 DEF Kinds
<1>3. Goes(r, q) /\ UNCHANGED <<data, role, rel, view, settled, agreed, broken>>
  BY DEF DetectReads
<1>4. rel' \in [Edges -> {"none"} \cup Decisions] /\ rel' = rel
  BY <1>3 DEF IInv, TypeOK
<1> HIDE DEF q
<1> QED BY <1>2, <1>3, <1>4, GoesKeeps

LEMMA DetectCommitsKeeps ==
    ASSUME IInv, NEW r \in Requests, DetectCommits(r)
    PROVE  IInv'
<1>1. req[r] \in Detection
  BY Kinded, KindOf DEF IInv, DetectCommits
<1>2. \A e \in Proposed(req[r]) : e \in Edges /\ rel[e] = "none"
  BY <1>1 DEF DetectCommits, Proposed, Detection
<1>3. rel' = [e \in Edges |-> IF e \in Proposed(req[r]) THEN "proposed" ELSE rel[e]]
  BY DEF DetectCommits
<1>4. rel' \in [Edges -> {"none"} \cup Decisions]
  BY <1>3 DEF IInv, TypeOK, Decisions
<1>5. \A e \in Edges : rel'[e] = "confirmed" <=> rel[e] = "confirmed"
  BY <1>2, <1>3
<1>6. Goes(r, Idle) /\ UNCHANGED <<data, role, view, settled, agreed, broken>>
  BY DEF DetectCommits
<1>7. Idle \in Kinds /\ Idle.at = "idle"
  BY DEF Kinds, Idle
<1> QED BY <1>4, <1>5, <1>6, <1>7, GoesKeeps

LEMMA DecideReadsKeeps ==
    ASSUME IInv, NEW r \in Requests, NEW e \in Edges, NEW decision \in {"confirmed", "rejected"},
           DecideReads(r, e, decision)
    PROVE  IInv'
<1> DEFINE q == [at |-> "deciding", edge |-> e, seen |-> rel[e], decision |-> decision]
<1>1. rel[e] \in Decisions
  BY DEF IInv, TypeOK, DecideReads
<1>2. q \in Kinds /\ q.at = "deciding"
  BY <1>1 DEF Kinds, Decision
<1>3. Goes(r, q) /\ UNCHANGED <<data, role, rel, view, settled, agreed, broken>>
  BY DEF DecideReads
<1>4. rel' \in [Edges -> {"none"} \cup Decisions] /\ rel' = rel
  BY <1>3 DEF IInv, TypeOK
<1> HIDE DEF q
<1> QED BY <1>2, <1>3, <1>4, GoesKeeps

LEMMA RebuildStartsKeeps ==
    ASSUME IInv, NEW r \in Requests, RebuildStarts(r)
    PROVE  IInv'
<1> DEFINE q == [at |-> "rebuilding"]
<1>1. q \in Kinds /\ q.at = "rebuilding"
  BY DEF Kinds, Rebuild
<1>2. Goes(r, q) /\ UNCHANGED <<data, role, rel, view, settled, agreed, broken>>
  BY DEF RebuildStarts
<1>3. rel' \in [Edges -> {"none"} \cup Decisions] /\ rel' = rel
  BY <1>2 DEF IInv, TypeOK
<1> HIDE DEF q
<1> QED BY <1>1, <1>2, <1>3, GoesKeeps

LEMMA AskKeeps ==
    ASSUME IInv, NEW r \in Requests, NEW d \in Datasets, Ask(r, d)
    PROVE  IInv'
<1> DEFINE q == [at |-> "asked", dataset |-> d, fact |-> role[d] = "fact", alone |-> settled]
<1>1. (role[d] = "fact") \in BOOLEAN /\ settled \in BOOLEAN
  BY DEF IInv, TypeOK
<1>2. q \in Question
  BY <1>1 DEF Question
<1>3. Goes(r, q) /\ UNCHANGED <<data, role, rel, view, settled, agreed, broken>>
  BY DEF Ask
<1>4. q \in Kinds /\ q.at = "asked"
  BY <1>2 DEF Kinds
<1>5. q.alone => CurrentQuestion(q)
  BY DEF CurrentQuestion, Ask
<1>6. rel' \in [Edges -> {"none"} \cup Decisions] /\ rel' = rel
  BY <1>3 DEF IInv, TypeOK
<1> HIDE DEF q
<1> QED BY <1>3, <1>4, <1>5, <1>6, GoesKeeps

(* What a question about a READY dataset is offered are its usable joins.   *)
LEMMA OfferedIsUsable == ASSUME NEW d \in Ready PROVE Offered(d) = JoinsOf(d, Usable)
BY DEF Offered, JoinsOf, Usable, IsUsable, Within

LEMMA AskTargetsKeeps ==
    ASSUME IInv, NEW r \in Requests, AskTargets(r)
    PROVE  IInv'
<1> DEFINE d == req[r].dataset
           q == [at |-> "targeted", dataset |-> d, alone |-> req[r].alone,
                 star |-> req[r].fact /\ view[SlugOf[d]].made,
                 offered |-> IF req[r].fact THEN Offered(d) ELSE {}]
<1>1. req[r] \in Question /\ req[r].at = "asked"
  BY Kinded, KindOf DEF IInv, AskTargets
<1>2. (req[r].fact /\ view[SlugOf[d]].made) \in BOOLEAN
  OBVIOUS
<1>3. (IF req[r].fact THEN Offered(d) ELSE {}) \in SUBSET Edges
  BY DEF Offered, JoinsOf
<1>4. q \in Targeted
  BY <1>1, <1>2, <1>3 DEF Targeted, Question
<1>5. Goes(r, q) /\ UNCHANGED <<data, role, rel, view, settled, agreed, broken>>
  BY DEF AskTargets
<1>6. q \in Kinds /\ q.at = "targeted"
  BY <1>4 DEF Kinds
<1>7. q.alone => CurrentQuestion(q)
  <2> SUFFICES ASSUME req[r].alone PROVE CurrentQuestion(q)
    OBVIOUS
  <2>1. settled /\ d \in Ready /\ req[r].fact = (role[d] = "fact")
    BY <1>1 DEF IInv, RequestsAreCurrent, CurrentQuestion
  <2>2. Offered(d) = JoinsOf(d, Usable)
    BY <2>1, OfferedIsUsable
  <2> HIDE DEF d, Offered
  <2> QED BY <2>1, <2>2 DEF CurrentQuestion
<1>8. rel' \in [Edges -> {"none"} \cup Decisions] /\ rel' = rel
  BY <1>5 DEF IInv, TypeOK
<1> HIDE DEF q
<1> QED BY <1>5, <1>6, <1>7, <1>8, GoesKeeps

LEMMA AnswersKeeps ==
    ASSUME IInv, NEW r \in Requests, Answers(r)
    PROVE  IInv'
<1>1. Goes(r, Idle) /\ UNCHANGED <<data, role, rel, view, settled, agreed, broken>>
  BY DEF Answers
<1>2. rel' \in [Edges -> {"none"} \cup Decisions] /\ rel' = rel
  BY <1>1 DEF IInv, TypeOK
<1>3. Idle \in Kinds /\ Idle.at = "idle"
  BY DEF Kinds, Idle
<1> QED BY <1>1, <1>2, <1>3, GoesKeeps


(***************************************************************************)
(* Steps that disturb the others.                                          *)
(***************************************************************************)

(* Datasets come and go: nobody is alone any more.                          *)
LEMMA DataChangeKeeps ==
    ASSUME IInv, NEW ds1, NEW tables1, NEW rel1, DataChange(ds1, tables1, rel1),
           ds1 \in [Datasets -> {"new", "busy", "ready", "deleted"}], tables1 \subseteq Slugs,
           rel1 \in [Edges -> {"none"} \cup Decisions],
           \A e \in Edges : rel1[e] \in {"none", rel[e]},
           SlugsAreDistinct'
    PROVE  IInv'
<1>1. /\ ds' = ds1 /\ tables' = tables1 /\ rel' = rel1 /\ settled' = FALSE
      /\ req' = [p \in Requests |-> Overtaken(req[p])]
      /\ role' = role /\ view' = view /\ agreed' = agreed /\ broken' = broken
  BY DEF DataChange
<1>2. \A p \in Requests : Overtaken(req[p]) \in Kinds /\ req'[p] = Overtaken(req[p])
  <2> HIDE DEF Kinds, Overtaken
  <2> QED BY <1>1, Kinded, OvertakenGoesOn DEF IInv
<1>3. TypeOK'
  <2>1. req' \in [Requests -> Kinds]
    <3> HIDE DEF Kinds, Overtaken
    <3> QED BY <1>1, <1>2
  <2>2. req' \in [Requests -> {Idle} \cup Detection \cup Decision \cup Rebuild \cup Building \cup Question \cup Targeted]
    BY <2>1 DEF Kinds
  <2> HIDE DEF Idle, Detection, Decision, Rebuild, Building, Question, Targeted
  <2> QED BY <1>1, <2>2 DEF IInv, TypeOK
<1>4. NothingJoinsItself'
  BY <1>1 DEF IInv, NothingJoinsItself
<1>5. \A e \in Edges : rel'[e] = "confirmed" => e \in agreed'
  BY <1>1 DEF IInv, AgreementsAreKnown
<1>6. AgreementsAreKnown' /\ RequestsAreCurrent'
  BY <1>1, <1>2, <1>5, OvertakenAreCurrent DEF AgreementsAreKnown, RequestsAreCurrent
<1>7. RebuildSettles'
  BY <1>1 DEF RebuildSettles
<1> QED BY <1>3, <1>4, <1>6, <1>7 DEF IInv

LEMMA UploadKeeps == ASSUME IInv, NEW d \in Datasets, Upload(d) PROVE IInv'
<1>1. DataChange([ds EXCEPT ![d] = "busy"], tables, rel) /\ \A c \in Live : SlugOf[c] # SlugOf[d]
  BY DEF Upload
<1>2. /\ [ds EXCEPT ![d] = "busy"] \in [Datasets -> {"new", "busy", "ready", "deleted"}]
      /\ tables \subseteq Slugs /\ rel \in [Edges -> {"none"} \cup Decisions]
  BY DEF IInv, TypeOK
<1>3. SlugsAreDistinct'
  <2>1. Live' = Live \cup {d}
    BY <1>1 DEF DataChange, Live, IInv, TypeOK
  <2> QED BY <1>1, <2>1 DEF IInv, SlugsAreDistinct
<1> QED BY <1>1, <1>2, <1>3, DataChangeKeeps

LEMMA FinishKeeps == ASSUME IInv, NEW d \in Datasets, Finish(d) PROVE IInv'
<1>1. DataChange([ds EXCEPT ![d] = "ready"], tables \cup {SlugOf[d]}, rel) /\ ds[d] = "busy"
  BY DEF Finish
<1>2. /\ [ds EXCEPT ![d] = "ready"] \in [Datasets -> {"new", "busy", "ready", "deleted"}]
      /\ tables \cup {SlugOf[d]} \subseteq Slugs /\ rel \in [Edges -> {"none"} \cup Decisions]
  BY StarAssumption DEF IInv, TypeOK
<1>3. SlugsAreDistinct'
  <2>1. Live' = Live
    BY <1>1 DEF DataChange, Live, IInv, TypeOK
  <2> QED BY <2>1 DEF IInv, SlugsAreDistinct
<1> QED BY <1>1, <1>2, <1>3, DataChangeKeeps

LEMMA ReingestKeeps == ASSUME IInv, NEW d \in Datasets, Reingest(d) PROVE IInv'
<1>1. DataChange([ds EXCEPT ![d] = "busy"], tables, rel) /\ ds[d] = "ready"
  BY DEF Reingest
<1>2. /\ [ds EXCEPT ![d] = "busy"] \in [Datasets -> {"new", "busy", "ready", "deleted"}]
      /\ tables \subseteq Slugs /\ rel \in [Edges -> {"none"} \cup Decisions]
  BY DEF IInv, TypeOK
<1>3. SlugsAreDistinct'
  <2>1. Live' = Live
    BY <1>1 DEF DataChange, Live, IInv, TypeOK
  <2> QED BY <2>1 DEF IInv, SlugsAreDistinct
<1> QED BY <1>1, <1>2, <1>3, DataChangeKeeps

LEMMA DeleteKeeps == ASSUME IInv, NEW d \in Datasets, Delete(d) PROVE IInv'
<1>1. DataChange([ds EXCEPT ![d] = "deleted"], tables \ {SlugOf[d]}, Cascade(d))
  BY DEF Delete
<1>2. /\ [ds EXCEPT ![d] = "deleted"] \in [Datasets -> {"new", "busy", "ready", "deleted"}]
      /\ tables \ {SlugOf[d]} \subseteq Slugs
      /\ Cascade(d) \in [Edges -> {"none"} \cup Decisions]
      /\ \A e \in Edges : Cascade(d)[e] \in {"none", rel[e]}
  BY DEF IInv, TypeOK, Cascade
<1>3. SlugsAreDistinct'
  <2>1. Live' \subseteq Live
    BY <1>1 DEF DataChange, Live, IInv, TypeOK
  <2> QED BY <2>1 DEF IInv, SlugsAreDistinct
<1> HIDE DEF Cascade
<1> QED BY <1>1, <1>2, <1>3, DataChangeKeeps

LEMMA DecideCommitsKeeps ==
    ASSUME IInv, NEW r \in Requests, DecideCommits(r)
    PROVE  IInv'
<1> DEFINE q == [req[r] EXCEPT !.at = "decided"]
<1>1. req[r] \in Decision /\ req[r].at = "deciding"
  BY Kinded, KindOf DEF IInv, DecideCommits
<1>2. /\ q \in Decision /\ q.at = "decided"
      /\ q.decision = req[r].decision /\ q.edge = req[r].edge
      /\ req[r].edge \in Edges /\ req[r].decision \in {"confirmed", "rejected"}
  BY <1>1 DEF Decision
<1>3. /\ rel' = IF req[r].decision = req[r].seen THEN rel ELSE [rel EXCEPT ![req[r].edge] = req[r].decision]
      /\ agreed' = IF req[r].decision = "confirmed" THEN agreed \cup {req[r].edge} ELSE agreed
      /\ Disturbs(r, q) /\ settled' = FALSE
      /\ ds' = ds /\ tables' = tables /\ role' = role /\ view' = view /\ broken' = broken
  BY DEF DecideCommits, data
<1>4. q \in Kinds
  BY <1>2 DEF Kinds
<1> HIDE DEF q
<1>5. TypeOK'
  <2>1. req' \in [Requests -> {Idle} \cup Detection \cup Decision \cup Rebuild \cup Building \cup Question \cup Targeted]
    BY <1>3, <1>4, DisturbsOthers DEF IInv, Kinds
  <2>2. rel' \in [Edges -> {"none"} \cup Decisions]
    BY <1>2, <1>3 DEF IInv, TypeOK, Decisions
  <2> HIDE DEF Idle, Detection, Decision, Rebuild, Building, Question, Targeted
  <2> QED BY <1>2, <1>3, <2>1, <2>2 DEF IInv, TypeOK
<1>6. \A e \in Edges : rel'[e] = "confirmed" => e \in agreed'
  BY <1>2, <1>3 DEF IInv, AgreementsAreKnown, TypeOK
<1>7. AgreementsAreKnown' /\ RequestsAreCurrent'
  BY <1>2, <1>3, <1>4, <1>6, DisturbsKeeps
<1>8. SlugsAreDistinct' /\ NothingJoinsItself' /\ RebuildSettles'
  BY <1>3 DEF IInv, SlugsAreDistinct, Live, NothingJoinsItself, RebuildSettles
<1> QED BY <1>5, <1>7, <1>8 DEF IInv

(* What the reads of a rebuild give.                                        *)
LEMMA RebuildReadsMoves ==
    ASSUME IInv, NEW r \in Requests, RebuildReads(r)
    PROVE  \E q \in Building :
              /\ Disturbs(r, q)
              /\ q.at = "read" /\ q.joins \subseteq agreed
              /\ q.alone => /\ q.ready = Ready /\ q.joins = Usable
                            /\ q.written = {d \in Ready : RoleIn(d, Usable) # role[d]}
<1> DEFINE joins == Taken(req[r]) \cap Within(Ready)
           written == {d \in Ready : RoleIn(d, joins) # role[d]}
           alone == /\ \A p \in Requests \ {r} : req[p].at \notin {"read", "committed"}
                    /\ Taken(req[r]) = {e \in Edges : IsUsable(e)}
           q == [at |-> "read", ready |-> Ready, joins |-> joins, written |-> written, alone |-> alone]
<1>1. Disturbs(r, q)
  BY DEF RebuildReads
<1>2. Ready \in SUBSET Datasets /\ joins \in SUBSET Edges /\ written \in SUBSET Datasets
  BY DEF Ready, Within
<1>3. alone \in BOOLEAN
  OBVIOUS
<1>4. q \in Building /\ q.at = "read"
  <2> HIDE DEF joins, written, alone
  <2> QED BY <1>2, <1>3 DEF Building
<1>5. joins \subseteq agreed
  <2>1. req[r].at = "decided" /\ req[r].decision = "confirmed" => req[r].edge \in agreed
    BY DEF IInv, AgreementsAreKnown
  <2>2. \A e \in Edges : IsUsable(e) => e \in agreed
    BY DEF IInv, AgreementsAreKnown, IsUsable
  <2> HIDE DEF IsUsable
  <2> QED BY <2>1, <2>2 DEF Taken
<1>6. alone => joins = Usable
  BY DEF IsUsable, Usable, Within
<1>7. q.joins = joins /\ q.ready = Ready /\ q.written = written /\ q.alone = alone
  OBVIOUS
<1>8. alone => written = {d \in Ready : RoleIn(d, Usable) # role[d]}
  BY <1>6
<1> HIDE DEF q, joins, written, alone
<1> QED BY <1>1, <1>4, <1>5, <1>6, <1>7, <1>8

LEMMA RebuildReadsKeeps ==
    ASSUME IInv, NEW r \in Requests, RebuildReads(r)
    PROVE  IInv'
<1>1. PICK q \in Building :
         /\ Disturbs(r, q)
         /\ q.at = "read" /\ q.joins \subseteq agreed
         /\ q.alone => /\ q.ready = Ready /\ q.joins = Usable
                       /\ q.written = {d \in Ready : RoleIn(d, Usable) # role[d]}
  BY RebuildReadsMoves
<1>2. /\ ds' = ds /\ tables' = tables /\ role' = role /\ rel' = rel /\ view' = view
      /\ settled' = settled /\ agreed' = agreed /\ broken' = broken
  BY DEF RebuildReads, data
<1>3. q \in Kinds
  BY DEF Kinds
<1>4. Live' = Live /\ Ready' = Ready /\ Usable' = Usable
  BY <1>2 DEF Live, Ready, Usable, Within
<1>5. TypeOK'
  <2>1. req' \in [Requests -> {Idle} \cup Detection \cup Decision \cup Rebuild \cup Building \cup Question \cup Targeted]
    BY <1>1, <1>3, DisturbsOthers DEF IInv, Kinds
  <2> HIDE DEF Idle, Detection, Decision, Rebuild, Building, Question, Targeted
  <2> QED BY <1>2, <2>1 DEF IInv, TypeOK
<1>6. q.alone => CurrentRebuild(q)'
  BY <1>1, <1>2, <1>4 DEF CurrentRebuild
<1>7. \A e \in Edges : rel'[e] = "confirmed" => e \in agreed'
  BY <1>2 DEF IInv, AgreementsAreKnown
<1>8. AgreementsAreKnown' /\ RequestsAreCurrent'
  BY <1>1, <1>2, <1>3, <1>6, <1>7, DisturbsKeeps
<1>9. SlugsAreDistinct' /\ NothingJoinsItself'
  BY <1>2, <1>4 DEF IInv, SlugsAreDistinct, NothingJoinsItself
<1>10. RebuildSettles'
  BY <1>2, <1>4 DEF IInv, RebuildSettles, Usable
<1> QED BY <1>5, <1>8, <1>9, <1>10 DEF IInv

LEMMA RebuildCommitsMoves ==
    ASSUME IInv, NEW r \in Requests, RebuildCommits(r)
    PROVE  /\ req[r] \in Building /\ req[r].at = "read"
           /\ \E q \in Building :
                 /\ Disturbs(r, q)
                 /\ q.at = "committed" /\ q.joins = req[r].joins
                 /\ q.ready = req[r].ready /\ q.alone = req[r].alone
<1> DEFINE q == [req[r] EXCEPT !.at = "committed", !.written = {}]
<1>1. req[r] \in Building /\ req[r].at = "read"
  BY Kinded, KindOf DEF IInv, RebuildCommits
<1>2. Disturbs(r, q)
  BY DEF RebuildCommits
<1>3. q \in Building /\ q.at = "committed" /\ q.joins = req[r].joins
      /\ q.ready = req[r].ready /\ q.alone = req[r].alone
  BY <1>1 DEF Building
<1> HIDE DEF q
<1> QED BY <1>1, <1>2, <1>3

LEMMA RoleInType == ASSUME NEW d, NEW edges PROVE RoleIn(d, edges) \in {"unknown", "fact", "dimension"}
BY DEF RoleIn

LEMMA RebuildCommitsKeeps ==
    ASSUME IInv, NEW r \in Requests, RebuildCommits(r)
    PROVE  IInv'
<1>1. req[r] \in Building /\ req[r].at = "read"
  BY RebuildCommitsMoves
<1>2. PICK q \in Building :
         /\ Disturbs(r, q)
         /\ q.at = "committed" /\ q.joins = req[r].joins
         /\ q.ready = req[r].ready /\ q.alone = req[r].alone
  BY RebuildCommitsMoves
<1>3. /\ ds' = ds /\ tables' = tables /\ rel' = rel /\ view' = view
      /\ settled' = FALSE /\ agreed' = agreed /\ broken' = broken
      /\ role' = [d \in Datasets |-> IF d \in req[r].written THEN RoleIn(d, req[r].joins) ELSE role[d]]
  BY DEF RebuildCommits, data
<1>4. q \in Kinds
  BY DEF Kinds
<1>5. Live' = Live /\ Ready' = Ready /\ Usable' = Usable
  BY <1>3 DEF Live, Ready, Usable, Within
<1>6. TypeOK'
  <2>1. req' \in [Requests -> {Idle} \cup Detection \cup Decision \cup Rebuild \cup Building \cup Question \cup Targeted]
    BY <1>2, <1>4, DisturbsOthers DEF IInv, Kinds
  <2>2. role' \in [Datasets -> {"unknown", "fact", "dimension"}]
    BY <1>3, RoleInType DEF IInv, TypeOK
  <2> HIDE DEF Idle, Detection, Decision, Rebuild, Building, Question, Targeted
  <2> QED BY <1>3, <2>1, <2>2 DEF IInv, TypeOK
<1>7. q.alone => CurrentRebuild(q)'
  <2> SUFFICES ASSUME q.alone PROVE CurrentRebuild(q)'
    OBVIOUS
  <2>1. CurrentRebuild(req[r])
    BY <1>1, <1>2 DEF IInv, RequestsAreCurrent
  <2>2. \A d \in Ready : role'[d] = RoleIn(d, Usable)
    <3>1. Ready \subseteq Datasets
      BY DEF Ready
    <3>2. req[r].written = {d \in Ready : RoleIn(d, Usable) # role[d]} /\ req[r].joins = Usable
      BY <1>1, <2>1 DEF CurrentRebuild
    <3> HIDE DEF Usable, Ready
    <3> QED BY <1>3, <3>1, <3>2
  <2>3. \A d \in Ready : RoleIn(d, Usable)' = RoleIn(d, Usable)
    BY <1>5 DEF RoleIn, JoinsOf
  <2>4. q.ready = Ready /\ q.joins = Usable
    BY <1>2, <2>1 DEF CurrentRebuild
  <2> HIDE DEF Usable, Ready
  <2> QED BY <1>2, <1>5, <2>2, <2>3, <2>4 DEF CurrentRebuild
<1>8. \A e \in Edges : rel'[e] = "confirmed" => e \in agreed'
  BY <1>3 DEF IInv, AgreementsAreKnown
<1>9. q.joins \subseteq agreed'
  BY <1>1, <1>2, <1>3 DEF IInv, AgreementsAreKnown
<1>10. AgreementsAreKnown' /\ RequestsAreCurrent'
  BY <1>2, <1>3, <1>4, <1>7, <1>8, <1>9, DisturbsKeeps
<1>11. SlugsAreDistinct' /\ NothingJoinsItself' /\ RebuildSettles'
  BY <1>3, <1>5 DEF IInv, SlugsAreDistinct, NothingJoinsItself, RebuildSettles
<1> QED BY <1>6, <1>10, <1>11 DEF IInv


(* Applying the views of some facts: each view is one of theirs, or as it   *)
(* was.                                                                     *)
LEMMA AppliedViews ==
    ASSUME NEW q, NEW S
    PROVE  \A s \in Slugs :
              /\ (\E d \in S : SlugOf[d] = s) =>
                    \E d \in S : SlugOf[d] = s /\ Applied(q, S)[s] = Definition(d, q.joins)
              /\ ~(\E d \in S : SlugOf[d] = s) => Applied(q, S)[s] = view[s]
<1> SUFFICES ASSUME NEW s \in Slugs
             PROVE  /\ (\E d \in S : SlugOf[d] = s) =>
                          \E d \in S : SlugOf[d] = s /\ Applied(q, S)[s] = Definition(d, q.joins)
                    /\ ~(\E d \in S : SlugOf[d] = s) => Applied(q, S)[s] = view[s]
  OBVIOUS
<1>1. Applied(q, S)[s] = IF \E d \in S : SlugOf[d] = s
                         THEN Definition(CHOOSE d \in S : SlugOf[d] = s, q.joins)
                         ELSE view[s]
  BY DEF Applied
<1>2. ASSUME \E d \in S : SlugOf[d] = s
      PROVE  /\ (CHOOSE d \in S : SlugOf[d] = s) \in S
             /\ SlugOf[CHOOSE d \in S : SlugOf[d] = s] = s
  BY <1>2
<1> QED BY <1>1, <1>2

LEMMA AppliedType ==
    ASSUME TypeOK, NEW q \in Building, NEW S
    PROVE  Applied(q, S) \in [Slugs -> [made : BOOLEAN, joins : SUBSET Edges]]
<1>1. \A d : Definition(d, q.joins) \in [made : BOOLEAN, joins : SUBSET Edges]
  BY DEF Definition, JoinsOf, Building
<1>2. \A s \in Slugs : view[s] \in [made : BOOLEAN, joins : SUBSET Edges]
  BY DEF TypeOK
<1> HIDE DEF Definition
<1> QED BY <1>1, <1>2 DEF Applied

LEMMA AppliedAgreed ==
    ASSUME IInv, NEW q, q.joins \subseteq agreed, NEW S, NEW s \in Slugs
    PROVE  Applied(q, S)[s].joins \subseteq agreed
<1>1. \A d : Definition(d, q.joins).joins \subseteq agreed
  BY DEF Definition, JoinsOf
<1>2. view[s].joins \subseteq agreed
  BY DEF IInv, NothingJoinsItself
<1> HIDE DEF Definition, Applied
<1> QED BY <1>1, <1>2, AppliedViews

(* Whatever becomes of the views, the request and those it disturbs.        *)
LEMMA ViewStepKeeps ==
    ASSUME IInv, NEW r \in Requests, Disturbs(r, Idle),
           UNCHANGED <<data, role, rel, agreed>>,
           view' \in [Slugs -> [made : BOOLEAN, joins : SUBSET Edges]],
           settled' \in BOOLEAN, broken' \in BOOLEAN,
           NothingJoinsItself', RebuildSettles'
    PROVE  IInv'
<1>1. ds' = ds /\ tables' = tables /\ role' = role /\ rel' = rel /\ agreed' = agreed
  BY DEF data
<1>2. Idle \in Kinds /\ Idle.at = "idle"
  BY DEF Idle, Kinds
<1>3. TypeOK'
  <2>1. req' \in [Requests -> {Idle} \cup Detection \cup Decision \cup Rebuild \cup Building \cup Question \cup Targeted]
    BY <1>2, DisturbsOthers DEF IInv, Kinds
  <2> HIDE DEF Idle, Detection, Decision, Rebuild, Building, Question, Targeted
  <2> QED BY <1>1, <2>1 DEF IInv, TypeOK
<1>4. \A e \in Edges : rel'[e] = "confirmed" => e \in agreed'
  BY <1>1 DEF IInv, AgreementsAreKnown
<1>5. AgreementsAreKnown' /\ RequestsAreCurrent'
  BY <1>1, <1>2, <1>4, DisturbsKeeps
<1>6. SlugsAreDistinct'
  BY <1>1 DEF IInv, SlugsAreDistinct, Live
<1> QED BY <1>3, <1>5, <1>6 DEF IInv

LEMMA RebuildAppliesKeeps ==
    ASSUME IInv, NEW r \in Requests, RebuildApplies(r)
    PROVE  IInv'
<1>1. req[r] \in Building /\ req[r].at = "committed"
  BY Kinded, KindOf DEF IInv, RebuildApplies
<1>2. /\ view' = Applied(req[r], Facts(req[r]))
      /\ settled' = req[r].alone /\ Disturbs(r, Idle)
      /\ ds' = ds /\ tables' = tables /\ role' = role /\ rel' = rel /\ agreed' = agreed /\ broken' = broken
  BY DEF RebuildApplies, data
<1>3. view' \in [Slugs -> [made : BOOLEAN, joins : SUBSET Edges]]
  BY <1>1, <1>2, AppliedType DEF IInv
<1>4. settled' \in BOOLEAN /\ broken' \in BOOLEAN
  BY <1>1, <1>2 DEF Building, IInv, TypeOK
<1>5. req[r].joins \subseteq agreed
  BY <1>1 DEF IInv, AgreementsAreKnown
<1>6. NothingJoinsItself'
  BY <1>2, <1>5, AppliedAgreed DEF NothingJoinsItself
<1>7. RebuildSettles'
  <2>1. Ready' = Ready /\ Usable' = Usable
    BY <1>2 DEF Ready, Usable, Within
  <2> SUFFICES ASSUME settled', NEW d \in Ready
               PROVE  /\ role[d] = RoleIn(d, Usable)
                      /\ role[d] = "fact" => view'[SlugOf[d]] = Definition(d, Usable)
                      /\ (\E e \in Usable : From[e] = d) => role[d] = "fact"
    BY <1>2, <2>1 DEF RebuildSettles, Usable, RoleIn, JoinsOf, Definition
  <2>2. req[r].ready = Ready /\ req[r].joins = Usable /\ \A c \in Ready : role[c] = RoleIn(c, Usable)
    BY <1>1, <1>2 DEF IInv, RequestsAreCurrent, CurrentRebuild
  <2>3. role[d] = RoleIn(d, Usable)
    BY <2>2
  <2>4. ASSUME role[d] = "fact"
        PROVE  view'[SlugOf[d]] = Definition(d, Usable)
    <3>1. d \in Facts(req[r]) /\ SlugOf[d] \in Slugs
      BY <2>2, <2>3, <2>4, StarAssumption DEF Facts, Ready
    <3>2. PICK c \in Facts(req[r]) : SlugOf[c] = SlugOf[d] /\ view'[SlugOf[d]] = Definition(c, req[r].joins)
      BY <1>2, <3>1, AppliedViews
    <3>3. c = d
      BY <2>2, <3>2 DEF IInv, SlugsAreDistinct, Facts, Ready, Live
    <3> QED BY <2>2, <3>2, <3>3
  <2>5. (\E e \in Usable : From[e] = d) => role[d] = "fact"
    BY <2>3 DEF RoleIn, JoinsOf
  <2> QED BY <2>3, <2>4, <2>5
<1> QED BY <1>2, <1>3, <1>4, <1>6, <1>7, ViewStepKeeps DEF data

LEMMA StopsKeeps ==
    ASSUME IInv, NEW r \in Requests, Stops(r)
    PROVE  IInv'
<1>1. /\ \/ view' = view
         \/ req[r].at = "committed" /\ \E S \in SUBSET Facts(req[r]) : view' = Applied(req[r], S)
      /\ broken' = (broken \/ req[r].at \in {"decided", "read", "committed"})
      /\ settled' = (settled /\ req[r].at # "committed")
      /\ Disturbs(r, Idle)
      /\ ds' = ds /\ tables' = tables /\ role' = role /\ rel' = rel /\ agreed' = agreed
  BY DEF Stops, data
<1>2. settled' \in BOOLEAN /\ broken' \in BOOLEAN
  BY <1>1
<1>3. CASE view' = view
  <2>1. view' \in [Slugs -> [made : BOOLEAN, joins : SUBSET Edges]] /\ NothingJoinsItself'
    BY <1>1, <1>3 DEF IInv, TypeOK, NothingJoinsItself
  <2>2. Ready' = Ready /\ Usable' = Usable
    BY <1>1 DEF Ready, Usable, Within
  <2>3. RebuildSettles'
    BY <1>1, <1>3, <2>2 DEF IInv, RebuildSettles, Usable
  <2> QED BY <1>1, <1>2, <2>1, <2>3, ViewStepKeeps DEF data
<1>4. ASSUME req[r].at = "committed", NEW S \in SUBSET Facts(req[r]), view' = Applied(req[r], S)
      PROVE  IInv'
  <2>1. req[r] \in Building /\ req[r].joins \subseteq agreed
    BY <1>4, Kinded, KindOf DEF IInv, AgreementsAreKnown
  <2>2. view' \in [Slugs -> [made : BOOLEAN, joins : SUBSET Edges]]
    BY <1>4, <2>1, AppliedType DEF IInv
  <2>3. NothingJoinsItself'
    BY <1>1, <1>4, <2>1, AppliedAgreed DEF NothingJoinsItself
  <2>4. RebuildSettles'
    BY <1>1, <1>4 DEF RebuildSettles
  <2> QED BY <1>1, <1>2, <2>2, <2>3, <2>4, ViewStepKeeps DEF data
<1> QED BY <1>1, <1>3, <1>4

LEMMA InitInvariant == Init => IInv
<1> SUFFICES ASSUME Init PROVE IInv
  OBVIOUS
<1>1. TypeOK
  BY DEF Init, TypeOK, NoView, Decisions
<1>2. SlugsAreDistinct /\ NothingJoinsItself /\ RebuildSettles
  BY DEF Init, SlugsAreDistinct, Live, NothingJoinsItself, NoView, RebuildSettles
<1>3. \A r \in Requests : req[r].at = "idle"
  BY DEF Init, Idle
<1>4. AgreementsAreKnown /\ RequestsAreCurrent
  BY <1>3 DEF Init, AgreementsAreKnown, RequestsAreCurrent
<1> QED BY <1>1, <1>2, <1>4 DEF IInv

LEMMA NextKeepsInvariant == IInv /\ [Next]_vars => IInv'
<1> SUFFICES ASSUME IInv, [Next]_vars PROVE IInv'
  OBVIOUS
<1>1. ASSUME NEW d \in Datasets, Upload(d) \/ Finish(d) \/ Reingest(d) \/ Delete(d)
      PROVE  IInv'
  BY <1>1, UploadKeeps, FinishKeeps, ReingestKeeps, DeleteKeeps
<1>2. ASSUME NEW r \in Requests, DetectReads(r) \/ DetectCommits(r) \/ RebuildStarts(r)
      PROVE  IInv'
  BY <1>2, DetectReadsKeeps, DetectCommitsKeeps, RebuildStartsKeeps
<1>3. ASSUME NEW r \in Requests, NEW e \in Edges, NEW decision \in {"confirmed", "rejected"}, DecideReads(r, e, decision)
      PROVE  IInv'
  BY <1>3, DecideReadsKeeps
<1>4. ASSUME NEW r \in Requests, DecideCommits(r) \/ RebuildReads(r) \/ RebuildCommits(r) \/ RebuildApplies(r) \/ Stops(r)
      PROVE  IInv'
  BY <1>4, DecideCommitsKeeps, RebuildReadsKeeps, RebuildCommitsKeeps, RebuildAppliesKeeps, StopsKeeps
<1>5. ASSUME NEW r \in Requests, (\E d \in Datasets : Ask(r, d)) \/ AskTargets(r) \/ Answers(r)
      PROVE  IInv'
  BY <1>5, AskKeeps, AskTargetsKeeps, AnswersKeeps
<1>6. CASE UNCHANGED vars
  <2>1. /\ ds' = ds /\ tables' = tables /\ role' = role /\ rel' = rel /\ view' = view /\ req' = req
        /\ settled' = settled /\ agreed' = agreed /\ broken' = broken
    BY <1>6 DEF vars
  <2>2. TypeOK'
    <3> HIDE DEF Idle, Detection, Decision, Rebuild, Building, Question, Targeted
    <3> QED BY <2>1 DEF IInv, TypeOK
  <2>3. Live' = Live /\ Ready' = Ready /\ Usable' = Usable
    BY <2>1 DEF Live, Ready, Usable, Within
  <2>4. RequestsAreCurrent'
    BY <2>1, <2>3 DEF IInv, RequestsAreCurrent, CurrentRebuild, CurrentQuestion
  <2>5. RebuildSettles'
    BY <2>1, <2>3 DEF IInv, RebuildSettles, Usable
  <2> QED BY <2>1, <2>2, <2>3, <2>4, <2>5 DEF IInv, SlugsAreDistinct, AgreementsAreKnown, NothingJoinsItself
<1> QED BY <1>1, <1>2, <1>3, <1>4, <1>5, <1>6 DEF Next

(***************************************************************************)
(* The theorems.                                                           *)
(***************************************************************************)
LEMMA Invariance == Spec => []IInv
BY InitInvariant, NextKeepsInvariant, PTL DEF Spec

(* The rows, the views and the requests have their types.                   *)
THEOREM StarTypeCorrect == Spec => []TypeOK
BY Invariance, PTL DEF IInv

(* A view only ever joins what someone has confirmed.                       *)
THEOREM OnlyAgreedIsJoined == Spec => []NothingJoinsItself
BY Invariance, PTL DEF IInv

(* A rebuild that nothing interfered with leaves what was decided.          *)
THEOREM RebuildLeavesDecisions == Spec => []RebuildSettles
BY Invariance, PTL DEF IInv

(* A question of a settled model is told the columns of its table.          *)
THEOREM PromptsAreAccurate == Spec => []PromptMatchesTable
<1>1. IInv => PromptMatchesTable
  <2> SUFFICES ASSUME IInv, NEW r \in Requests, req[r].at = "targeted", req[r].alone
               PROVE  req[r].offered = IF req[r].star THEN view[SlugOf[req[r].dataset]].joins ELSE {}
    BY DEF PromptMatchesTable
  <2> DEFINE d == req[r].dataset
  <2>1. /\ settled /\ d \in Ready
        /\ req[r].star = (role[d] = "fact" /\ view[SlugOf[d]].made)
        /\ req[r].offered = IF role[d] = "fact" THEN JoinsOf(d, Usable) ELSE {}
    BY DEF IInv, RequestsAreCurrent, CurrentQuestion
  <2>2. role[d] = "fact" => view[SlugOf[d]] = Definition(d, Usable)
    BY <2>1 DEF IInv, RebuildSettles, Usable
  <2>3. CASE role[d] = "fact"
    <3>1. view[SlugOf[d]].made /\ view[SlugOf[d]].joins = JoinsOf(d, Usable)
      BY <2>2, <2>3 DEF Definition
    <3> QED BY <2>1, <2>3, <3>1
  <2>4. CASE role[d] # "fact"
    BY <2>1, <2>4
  <2> QED BY <2>3, <2>4
<1> QED BY <1>1, Invariance, PTL

(* A decision is only ever changed by another decision, or goes with one of *)
(* its datasets.                                                            *)
THEOREM DecisionsAreKept == Spec => DecisionsStand
<1> DEFINE Stands ==
        \A e \in Edges :
          rel[e] \in {"confirmed", "rejected"} /\ rel'[e] # rel[e] =>
              \/ rel'[e] = "none" /\ ~({From[e], To[e]} \subseteq {d \in Datasets : ds'[d] \in {"busy", "ready"}})
              \/ \E r \in Requests : req[r].at = "deciding" /\ req[r].edge = e /\ req[r].decision = rel'[e]
<1>1. IInv /\ [Next]_vars => [Stands]_vars
  <2> SUFFICES ASSUME IInv, Next, rel' # rel PROVE Stands
    BY DEF vars
  <2>1. \/ \E d \in Datasets : Delete(d)
        \/ \E r \in Requests : DetectCommits(r) \/ DecideCommits(r)
    BY DEF Next, Upload, Finish, Reingest, DataChange, DetectReads, DecideReads, RebuildStarts, RebuildReads,
           RebuildCommits, RebuildApplies, Stops, Ask, AskTargets, Answers
  <2>2. ASSUME NEW d \in Datasets, Delete(d)
        PROVE  Stands
    <3>1. rel' = Cascade(d) /\ ds' = [ds EXCEPT ![d] = "deleted"]
      BY <2>2 DEF Delete, DataChange
    <3>2. ds'[d] = "deleted"
      BY <3>1 DEF IInv, TypeOK
    <3> QED BY <3>1, <3>2 DEF Cascade
  <2>3. ASSUME NEW r \in Requests, DetectCommits(r)
        PROVE  Stands
    <3>1. req[r] \in Detection
      BY <2>3, Kinded, KindOf DEF IInv, DetectCommits
    <3>2. \A e \in Edges : rel[e] # "none" => rel'[e] = rel[e]
      BY <2>3, <3>1 DEF DetectCommits, Proposed
    <3> QED BY <3>2
  <2>4. ASSUME NEW r \in Requests, DecideCommits(r)
        PROVE  Stands
    <3>1. req[r].at = "deciding" /\ rel' = [rel EXCEPT ![req[r].edge] = req[r].decision]
      BY <2>4 DEF DecideCommits
    <3> QED BY <3>1 DEF IInv, TypeOK
  <2> QED BY <2>1, <2>2, <2>3, <2>4
<1> QED BY <1>1, Invariance, PTL DEF Spec, DecisionsStand

=============================================================================

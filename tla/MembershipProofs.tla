-------------------------- MODULE MembershipProofs --------------------------
(***************************************************************************)
(* Membership for any set of people, requests and invitations: its types,  *)
(* the ownership of a workspace, and who may join it.                      *)
(*                                                                         *)
(* The invariant says what a request that has not been overtaken may rely  *)
(* on.  What it has read is still so (Current), in particular the count of *)
(* the owners; and the invitation it redeems has either not been accepted, *)
(* or has made the invitee a member already (Redeemable).                  *)
(***************************************************************************)
EXTENDS Membership, FiniteSetTheorems, TLAPS

(* What a member's request that is not stale has read is still true.        *)
Current(q) ==
    /\ q.actorRole = role[q.actor]
    /\ q.row # "deleted"
    /\ q.op = "remove" => q.arg = "none"
    /\ q.at = "authorised" /\ q.row = "loaded" => q.target = q.actor
    /\ q.op \in {"change", "remove"} /\ q.at # "authorised" =>
          /\ q.row = "loaded"
          /\ q.seen = role[q.target] /\ q.seen # "none"
          /\ "owner" \in {q.seen, q.arg} => q.actorRole = "owner"
          /\ q.seen = "owner" /\ q.arg # "owner" /\ q.at = "ready" => Cardinality(Owners) > 1

Redeemable(q) ==
    /\ q.at = "ready" => q.seen = role[q.target]
    /\ ~raced /\ invite[q.invitation].state = "accepted" => role[q.target] # "none"

RequestsAreCurrent ==
    \A r \in Requests : req[r] # Idle /\ ~req[r].stale =>
        IF req[r].op = "accept" THEN Redeemable(req[r]) ELSE Current(req[r])

(* The invitation of an acceptance exists, and is the invitee's; nobody is  *)
(* invited as an owner.                                                     *)
InvitationsExist ==
    \A r \in Requests :
        /\ req[r].op = "accept" =>
              /\ invite[req[r].invitation].state # "free"
              /\ invite[req[r].invitation].email = req[r].target
        /\ req[r].op = "invite" => req[r].arg \in Role \ {"owner"}

NothingBeforeFounding ==
    ~founded => /\ Owners = {}
                /\ \A r \in Requests : req[r] = Idle
                /\ \A u \in Users : role[u] = "none"
                /\ \A i \in Invitations : invite[i].state = "free"

IInv == /\ TypeOK
        /\ RequestsAreCurrent
        /\ InvitationsExist
        /\ NothingBeforeFounding
        /\ KeepsAnOwner
        /\ OnePendingInvitation

-----------------------------------------------------------------------------
(* The three kinds of request.                                              *)
LEMMA RequestKinds ==
    ASSUME TypeOK, NEW r \in Requests
    PROVE  /\ req[r] \in {Idle} \cup MemberRequest \cup Acceptance
           /\ req[r] = Idle <=> req[r].op = "none"
           /\ req[r] \in MemberRequest <=> req[r].op \in {"change", "remove", "invite"}
           /\ req[r] \in Acceptance <=> req[r].op = "accept"
<1>1. req[r] \in {Idle} \cup MemberRequest \cup Acceptance
  BY DEF TypeOK
<1>2. CASE req[r] = Idle
  BY <1>1, <1>2 DEF Idle, MemberRequest, Acceptance
<1>3. CASE req[r] \in MemberRequest
  BY <1>1, <1>3 DEF Idle, MemberRequest, Acceptance
<1>4. CASE req[r] \in Acceptance
  BY <1>1, <1>4 DEF Idle, MemberRequest, Acceptance
<1> QED BY <1>1, <1>2, <1>3, <1>4

(* A request that is overtaken keeps its kind.                              *)
LEMMA OvertakenType ==
    ASSUME NEW q \in {Idle} \cup MemberRequest \cup Acceptance
    PROVE  Overtaken(q) \in {Idle} \cup MemberRequest \cup Acceptance
<1>1. CASE q = Idle
  BY <1>1 DEF Overtaken
<1>2. CASE q \in MemberRequest
  <2>1. q # Idle /\ q.op # "accept"
    BY <1>2 DEF Idle, MemberRequest
  <2>2. OutOfDate(q) \in BOOLEAN
    BY <1>2 DEF OutOfDate, MemberRequest
  <2>3. RowAfter(q) \in {"unread", "loaded", "deleted"}
    BY <1>2 DEF RowAfter, MemberRequest
  <2>4. Overtaken(q) = [q EXCEPT !.stale = OutOfDate(q), !.row = RowAfter(q)]
    BY <2>1 DEF Overtaken
  <2> HIDE DEF OutOfDate, RowAfter
  <2> QED BY <1>2, <2>2, <2>3, <2>4 DEF MemberRequest
<1>3. CASE q \in Acceptance
  <2>1. q # Idle /\ q.op = "accept"
    BY <1>3 DEF Idle, Acceptance
  <2>2. OutOfDate(q) \in BOOLEAN
    BY <1>3 DEF OutOfDate, Acceptance
  <2>3. Overtaken(q) = [q EXCEPT !.stale = OutOfDate(q)]
    BY <2>1 DEF Overtaken
  <2> HIDE DEF OutOfDate
  <2> QED BY <1>3, <2>2, <2>3 DEF Acceptance
<1> QED BY <1>1, <1>2, <1>3

LEMMA CommitsType ==
    ASSUME TypeOK, NEW r \in Requests, Commits(r)
    PROVE  /\ req' \in [Requests -> {Idle} \cup MemberRequest \cup Acceptance]
           /\ raced' \in BOOLEAN
<1>1. \A q \in Requests : req[q] \in {Idle} \cup MemberRequest \cup Acceptance
  BY DEF TypeOK
<1>2. \A q \in Requests : Overtaken(req[q]) \in {Idle} \cup MemberRequest \cup Acceptance
  BY <1>1, OvertakenType
<1>3. raced' \in BOOLEAN
  BY DEF Commits
<1>4. req' = [q \in Requests |-> IF q = r THEN Idle ELSE Overtaken(req[q])]
  BY DEF Commits
<1> HIDE DEF Overtaken, MemberRequest, Acceptance
<1> QED BY <1>2, <1>3, <1>4

LEMMA AdvancesType ==
    ASSUME TypeOK, NEW r \in Requests, NEW q \in {Idle} \cup MemberRequest \cup Acceptance, Advances(r, q)
    PROVE  TypeOK'
<1> HIDE DEF MemberRequest, Acceptance, Invite, Idle
<1> QED BY DEF TypeOK, Advances

(* The role that a handler works with is one of the instance.               *)
LEMMA RoleReadType ==
    ASSUME TypeOK, NEW r \in Requests, req[r] \in MemberRequest, role[req[r].target] # "none"
    PROVE  RoleRead(req[r]) \in Role
<1>1. role[req[r].target] \in Role \cup {"none"} /\ req[r].actorRole \in Role
  BY DEF TypeOK, MemberRequest
<1> QED BY <1>1 DEF RoleRead

(***************************************************************************)
(* Each action that only moves a request on: what the request becomes.     *)
(***************************************************************************)
LEMMA AuthoriseMoves ==
    ASSUME TypeOK, NEW r \in Requests, NEW u \in Users, NEW v \in Users,
           NEW op \in {"change", "remove", "invite"}, NEW arg \in Role \cup {"none"},
           Authorise(r, u, op, v, arg)
    PROVE  \E q \in MemberRequest :
              /\ Advances(r, q)
              /\ q.op = op /\ q.at = "authorised" /\ q.actor = u /\ q.actorRole = role[u] /\ role[u] # "none"
              /\ q.target = v /\ q.row = IF u = v THEN "loaded" ELSE "unread"
              /\ op = "remove" => q.arg = "none"
              /\ op = "invite" => q.arg \in Role \ {"owner"}
<1> DEFINE q == [op |-> op, at |-> "authorised", actor |-> u, actorRole |-> role[u], target |-> v, arg |-> arg,
                 seen |-> "none", row |-> IF u = v THEN "loaded" ELSE "unread", stale |-> FALSE]
<1>1. role[u] \in Role
  BY DEF TypeOK, Authorise
<1>2. q \in MemberRequest
  BY <1>1 DEF MemberRequest
<1>3. Advances(r, q)
  BY DEF Authorise
<1>4. role[u] # "none" /\ (op = "remove" => arg = "none") /\ (op = "invite" => arg \in Role \ {"owner"})
  BY DEF Authorise
<1> QED BY <1>2, <1>3, <1>4

LEMMA ReadTargetMoves ==
    ASSUME TypeOK, NEW r \in Requests, ReadTarget(r)
    PROVE  /\ req[r] \in MemberRequest /\ role[req[r].target] # "none"
           /\ req[r].op \in {"change", "remove"} /\ req[r].at = "authorised"
           /\ req[r].op = "change" => MayChange(req[r], RoleRead(req[r]))
           /\ req[r].op = "remove" => MayRemove(req[r], RoleRead(req[r]))
           /\ \E q \in MemberRequest :
                 /\ Advances(r, q)
                 /\ q.seen = RoleRead(req[r]) /\ q.row = "loaded"
                 /\ q.at = IF RoleRead(req[r]) = "owner" /\ req[r].arg # "owner" THEN "count" ELSE "ready"
                 /\ \A f \in {"op", "actor", "actorRole", "target", "arg", "stale"} : q[f] = req[r][f]
<1>1. /\ req[r] \in MemberRequest /\ role[req[r].target] # "none"
      /\ req[r].op \in {"change", "remove"} /\ req[r].at = "authorised"
      /\ req[r].op = "change" => MayChange(req[r], RoleRead(req[r]))
      /\ req[r].op = "remove" => MayRemove(req[r], RoleRead(req[r]))
  BY RequestKinds DEF ReadTarget
<1>2. PICK c \in Role : c = RoleRead(req[r])
  BY <1>1, RoleReadType
<1> DEFINE q == [req[r] EXCEPT !.seen = c, !.row = "loaded",
                               !.at = IF c = "owner" /\ req[r].arg # "owner" THEN "count" ELSE "ready"]
<1>3. Advances(r, q)
  BY <1>2 DEF ReadTarget
<1>4. q \in MemberRequest
  BY <1>1 DEF MemberRequest
<1>5. /\ q.seen = c /\ q.row = "loaded"
      /\ q.at = IF c = "owner" /\ req[r].arg # "owner" THEN "count" ELSE "ready"
      /\ \A f \in {"op", "actor", "actorRole", "target", "arg", "stale"} : q[f] = req[r][f]
  BY <1>1 DEF MemberRequest
<1> HIDE DEF q
<1> QED BY <1>1, <1>2, <1>3, <1>4, <1>5

(* From "count", or from "authorised" for an invitation, to "ready".        *)
LEMMA MemberReadyMoves ==
    ASSUME TypeOK, NEW r \in Requests, CountOwners(r) \/ CheckInvite(r)
    PROVE  /\ req[r] \in MemberRequest
           /\ CountOwners(r) => req[r].at = "count" /\ Cardinality(Owners) > 1
           /\ CheckInvite(r) => req[r].op = "invite"
           /\ \E q \in MemberRequest :
                 /\ Advances(r, q)
                 /\ q.at = "ready"
                 /\ \A f \in {"op", "actor", "actorRole", "target", "arg", "seen", "row", "stale"} :
                       q[f] = req[r][f]
<1> DEFINE q == [req[r] EXCEPT !.at = "ready"]
<1>1. req[r] \in MemberRequest
  <2>1. req[r].at = "count" => req[r] \in MemberRequest
    <3>1. req[r] \in Acceptance => req[r].at # "count"
      BY DEF Acceptance
    <3>2. Idle.at # "count"
      BY DEF Idle
    <3> QED BY <3>1, <3>2, RequestKinds
  <2> QED BY <2>1, RequestKinds DEF CountOwners, CheckInvite
<1>2. q \in MemberRequest /\ q.at = "ready"
  BY <1>1 DEF MemberRequest
<1>3. Advances(r, q)
  BY DEF CountOwners, CheckInvite
<1>4. \A f \in {"op", "actor", "actorRole", "target", "arg", "seen", "row", "stale"} : q[f] = req[r][f]
  BY <1>1 DEF MemberRequest
<1>5. /\ CountOwners(r) => req[r].at = "count" /\ Cardinality(Owners) > 1
      /\ CheckInvite(r) => req[r].op = "invite"
  BY DEF CountOwners, CheckInvite
<1> HIDE DEF q
<1> QED BY <1>1, <1>2, <1>3, <1>4, <1>5

LEMMA RedeemMoves ==
    ASSUME TypeOK, NEW r \in Requests, NEW i \in Invitations, Redeem(r, i)
    PROVE  /\ invite[i].state = "pending"
           /\ \E q \in Acceptance :
                 /\ Advances(r, q)
                 /\ q.at = "authorised" /\ q.target = invite[i].email /\ q.invitation = i
<1> DEFINE q == [op |-> "accept", at |-> "authorised", target |-> invite[i].email, invitation |-> i,
                 known |-> FALSE, seen |-> "none", stale |-> FALSE]
<1>1. invite[i].state = "pending"
  BY DEF Redeem
<1>2. invite[i].email \in Users
  BY <1>1 DEF TypeOK, Invite
<1>3. q \in Acceptance
  BY <1>2 DEF Acceptance
<1>4. Advances(r, q)
  BY DEF Redeem
<1> QED BY <1>1, <1>3, <1>4

LEMMA ReadInviteeMoves ==
    ASSUME TypeOK, NEW r \in Requests, ReadInvitee(r)
    PROVE  /\ req[r] \in Acceptance
           /\ \E q \in Acceptance :
                 /\ Advances(r, q)
                 /\ q.at = "ready" /\ q.seen = role[req[r].target]
                 /\ \A f \in {"op", "target", "invitation", "stale"} : q[f] = req[r][f]
<1> DEFINE q == [req[r] EXCEPT !.at = "ready", !.known = (req[r].target \in account),
                               !.seen = role[req[r].target]]
<1>1. req[r] \in Acceptance
  BY RequestKinds DEF ReadInvitee
<1>2. role[req[r].target] \in Role \cup {"none"}
  BY <1>1 DEF TypeOK, Acceptance
<1>3. q \in Acceptance
  <2>1. (req[r].target \in account) \in BOOLEAN
    OBVIOUS
  <2>2. ASSUME NEW k \in BOOLEAN
        PROVE  [req[r] EXCEPT !.at = "ready", !.known = k, !.seen = role[req[r].target]] \in Acceptance
    BY <1>1, <1>2 DEF Acceptance
  <2> QED BY <2>1, <2>2
<1>4. /\ q.at = "ready" /\ q.seen = role[req[r].target]
      /\ \A f \in {"op", "target", "invitation", "stale"} : q[f] = req[r][f]
  BY <1>1 DEF Acceptance
<1>5. Advances(r, q)
  BY DEF ReadInvitee
<1> HIDE DEF q
<1> QED BY <1>1, <1>3, <1>4, <1>5

(***************************************************************************)
(* What a step leaves alone.                                               *)
(***************************************************************************)
LEMMA AdvancesKeeps ==
    ASSUME IInv, NEW r \in Requests, NEW q \in {Idle} \cup MemberRequest \cup Acceptance, Advances(r, q),
           q # Idle => founded,
           q # Idle /\ ~q.stale => IF q.op = "accept" THEN Redeemable(q) ELSE Current(q),
           q.op = "accept" => invite[q.invitation].state # "free" /\ invite[q.invitation].email = q.target,
           q.op = "invite" => q.arg \in Role \ {"owner"}
    PROVE  IInv'
<1> USE DEF IInv
<1>1. /\ req' = [req EXCEPT ![r] = q]
      /\ UNCHANGED <<founded, account, role, invite, raced>>
  BY DEF Advances
<1>2. TypeOK'
  BY AdvancesType
<1>3. \A p \in Requests : req'[p] = IF p = r THEN q ELSE req[p]
  BY <1>1 DEF TypeOK
<1>4. Owners' = Owners
  BY <1>1 DEF Owners
<1>5. RequestsAreCurrent'
  <2> SUFFICES ASSUME NEW p \in Requests, req'[p] # Idle, ~req'[p].stale
               PROVE  (IF req[p].op = "accept" THEN Redeemable(req[p]) ELSE Current(req[p]))'
    BY DEF RequestsAreCurrent, Idle
  <2>1. IF req'[p].op = "accept" THEN Redeemable(req'[p]) ELSE Current(req'[p])
    BY <1>3 DEF RequestsAreCurrent
  <2> HIDE DEF Owners
  <2> QED BY <2>1, <1>1, <1>4 DEF Redeemable, Current
<1>6. InvitationsExist'
  BY <1>1, <1>3 DEF InvitationsExist
<1>7. NothingBeforeFounding'
  BY <1>1, <1>3, <1>4 DEF NothingBeforeFounding, Idle
<1>8. KeepsAnOwner' /\ OnePendingInvitation'
  BY <1>1, <1>4 DEF KeepsAnOwner, OnePendingInvitation, Unaccepted
<1> QED BY <1>2, <1>5, <1>6, <1>7, <1>8

(* A request under way means that there is a workspace.                     *)
LEMMA BusyIsFounded ==
    ASSUME IInv, NEW r \in Requests, req[r] # Idle
    PROVE  founded
BY DEF IInv, NothingBeforeFounding, TypeOK

(* A commit leaves the other requests stale, or with what they know intact. *)
LEMMA CommitsKeep ==
    ASSUME IInv, NEW r \in Requests, Commits(r),
           \A i \in Invitations :
              /\ invite[i].state # "free" => invite'[i].state # "free" /\ invite'[i].email = invite[i].email
              /\ invite[i].state # "free" /\ invite'[i].state = "accepted" =>
                    invite[i].state = "accepted" \/ role'[invite[i].email] # "none" \/ raced'
    PROVE  RequestsAreCurrent' /\ InvitationsExist'
<1> USE DEF IInv
<1>1. /\ req' = [p \in Requests |-> IF p = r THEN Idle ELSE Overtaken(req[p])]
      /\ raced' = (raced \/ req[r].stale)
  BY DEF Commits
<1>2. \A p \in Requests : req'[p] = IF p = r THEN Idle ELSE Overtaken(req[p])
  BY <1>1
<1>3. ASSUME NEW p \in Requests, req[p] \in Acceptance, p # r
      PROVE  /\ \A f \in {"op", "target", "invitation", "at", "seen"} : req'[p][f] = req[p][f]
             /\ req'[p].stale = OutOfDate(req[p])
  <2>1. req[p] # Idle /\ req[p].op = "accept"
    BY <1>3, RequestKinds
  <2>2. req'[p] = [req[p] EXCEPT !.stale = OutOfDate(req[p])]
    BY <1>2, <1>3, <2>1 DEF Overtaken
  <2> HIDE DEF OutOfDate
  <2> QED BY <2>2, <1>3 DEF Acceptance
<1>4. ASSUME NEW p \in Requests, req[p] \in MemberRequest, p # r
      PROVE  /\ \A f \in {"op", "at", "actor", "actorRole", "target", "arg", "seen"} : req'[p][f] = req[p][f]
             /\ req'[p].stale = OutOfDate(req[p])
             /\ req'[p].row = RowAfter(req[p])
  <2>1. req[p] # Idle /\ req[p].op # "accept"
    BY <1>4, RequestKinds
  <2>2. req'[p] = [req[p] EXCEPT !.stale = OutOfDate(req[p]), !.row = RowAfter(req[p])]
    BY <1>2, <1>4, <2>1 DEF Overtaken
  <2> HIDE DEF OutOfDate, RowAfter
  <2> QED BY <2>2, <1>4 DEF MemberRequest
<1>5. \A p \in Requests : p = r \/ req[p] = Idle => req'[p] = Idle
  BY <1>2 DEF Overtaken
<1>6. InvitationsExist'
  <2>0. ASSUME NEW p \in Requests, req'[p].op = "invite"
        PROVE  req'[p].arg \in Role \ {"owner"}
    <3>1. p # r /\ req[p] \in MemberRequest
      BY <1>3, <1>5, <2>0, RequestKinds DEF Idle
    <3>2. req'[p].op = req[p].op /\ req'[p].arg = req[p].arg
      BY <1>4, <3>1
    <3> QED BY <2>0, <3>2 DEF InvitationsExist
  <2> SUFFICES ASSUME NEW p \in Requests, req'[p].op = "accept"
               PROVE  /\ invite'[req'[p].invitation].state # "free"
                      /\ invite'[req'[p].invitation].email = req'[p].target
    BY <2>0 DEF InvitationsExist
  <2>1. p # r /\ req[p] \in Acceptance
    BY <1>4, <1>5, RequestKinds DEF Idle
  <2>2. req[p].invitation \in Invitations
    BY <2>1 DEF Acceptance
  <2>3. req[p].op = "accept"
    BY <2>1, RequestKinds
  <2> QED BY <1>3, <2>1, <2>2, <2>3 DEF InvitationsExist
<1>7. RequestsAreCurrent'
  <2> SUFFICES ASSUME NEW p \in Requests, req'[p] # Idle, ~req'[p].stale
               PROVE  (IF req[p].op = "accept" THEN Redeemable(req[p]) ELSE Current(req[p]))'
    BY DEF RequestsAreCurrent, Idle
  <2>1. p # r /\ req[p] # Idle
    BY <1>5
  <2>2. CASE req[p] \in Acceptance
    <3>1. req[p].op = "accept" /\ ~OutOfDate(req[p])
      BY <1>3, <2>1, <2>2, RequestKinds
    <3>2. /\ ~req[p].stale /\ req[p].target \notin Changed
          /\ req[p].target \in Users /\ req[p].invitation \in Invitations
      BY <3>1, <2>2 DEF OutOfDate, Parties, Acceptance
    <3>3. role'[req[p].target] = role[req[p].target]
      BY <3>2 DEF Changed
    <3>4. Redeemable(req[p])
      BY <2>1, <3>1, <3>2 DEF RequestsAreCurrent
    <3>5. invite[req[p].invitation].state # "free" /\ invite[req[p].invitation].email = req[p].target
      BY <3>1 DEF InvitationsExist
    <3>6. ~raced' => ~raced
      BY <1>1
    <3>7. /\ req'[p].op = "accept" /\ req'[p].at = req[p].at /\ req'[p].seen = req[p].seen
          /\ req'[p].target = req[p].target /\ req'[p].invitation = req[p].invitation
      BY <1>3, <2>1, <2>2, <3>1
    <3> QED BY <3>2, <3>3, <3>4, <3>5, <3>6, <3>7 DEF Redeemable
  <2>3. CASE req[p] \in MemberRequest
    <3>1. req[p].op # "accept" /\ ~OutOfDate(req[p])
      BY <1>4, <2>1, <2>3, RequestKinds
    <3>2. /\ ~req[p].stale /\ req[p].target \notin Changed /\ req[p].actor \notin Changed
          /\ req[p].target \in Users /\ req[p].actor \in Users
          /\ Owners' = Owners
      BY <3>1, <2>3 DEF OutOfDate, Parties, MemberRequest
    <3>3. role'[req[p].target] = role[req[p].target] /\ role'[req[p].actor] = role[req[p].actor]
      BY <3>2 DEF Changed
    <3>4. Current(req[p])
      BY <2>1, <3>1, <3>2 DEF RequestsAreCurrent
    <3>5. /\ req'[p].op = req[p].op /\ req'[p].at = req[p].at /\ req'[p].seen = req[p].seen
          /\ req'[p].actor = req[p].actor /\ req'[p].target = req[p].target
          /\ req'[p].actorRole = req[p].actorRole /\ req'[p].arg = req[p].arg
      BY <1>4, <2>1, <2>3
    <3>6. req'[p].row = req[p].row
      BY <1>4, <2>1, <2>3, <3>2 DEF RowAfter
    <3> HIDE DEF Owners
    <3> QED BY <3>1, <3>2, <3>3, <3>4, <3>5, <3>6 DEF Current
  <2> QED BY <2>1, <2>2, <2>3, RequestKinds
<1> QED BY <1>6, <1>7

(***************************************************************************)
(* The steps of a request before its commit.                               *)
(***************************************************************************)
LEMMA StopsKeeps ==
    ASSUME IInv, NEW r \in Requests, Stops(r)
    PROVE  IInv'
<1>1. Advances(r, Idle)
  BY DEF Stops
<1>2. Idle.op # "accept"
  BY DEF Idle
<1>3. Idle.op # "invite"
  BY DEF Idle
<1> QED BY <1>1, <1>2, <1>3, AdvancesKeeps

LEMMA AuthoriseKeeps ==
    ASSUME IInv, NEW r \in Requests, NEW u \in Users, NEW v \in Users,
           NEW op \in {"change", "remove", "invite"}, NEW arg \in Role \cup {"none"},
           Authorise(r, u, op, v, arg)
    PROVE  IInv'
<1>1. PICK q \in MemberRequest :
         /\ Advances(r, q)
         /\ q.op = op /\ q.at = "authorised" /\ q.actor = u /\ q.actorRole = role[u] /\ role[u] # "none"
         /\ q.target = v /\ q.row = IF u = v THEN "loaded" ELSE "unread"
         /\ op = "remove" => q.arg = "none"
         /\ op = "invite" => q.arg \in Role \ {"owner"}
  BY AuthoriseMoves DEF IInv
<1>2. founded
  BY <1>1 DEF IInv, NothingBeforeFounding
<1>3. Current(q)
  BY <1>1 DEF Current
<1> QED BY <1>1, <1>2, <1>3, AdvancesKeeps

LEMMA ReadTargetKeeps ==
    ASSUME IInv, NEW r \in Requests, ReadTarget(r)
    PROVE  IInv'
<1>1. /\ req[r] \in MemberRequest /\ role[req[r].target] # "none"
      /\ req[r].op \in {"change", "remove"} /\ req[r].at = "authorised"
      /\ req[r].op = "change" => MayChange(req[r], RoleRead(req[r]))
      /\ req[r].op = "remove" => MayRemove(req[r], RoleRead(req[r]))
  BY ReadTargetMoves DEF IInv
<1>2. PICK q \in MemberRequest :
         /\ Advances(r, q)
         /\ q.seen = RoleRead(req[r]) /\ q.row = "loaded"
         /\ q.at = IF RoleRead(req[r]) = "owner" /\ req[r].arg # "owner" THEN "count" ELSE "ready"
         /\ \A f \in {"op", "actor", "actorRole", "target", "arg", "stale"} : q[f] = req[r][f]
  BY ReadTargetMoves DEF IInv
<1>3. /\ q.op = req[r].op /\ q.actor = req[r].actor /\ q.actorRole = req[r].actorRole
      /\ q.target = req[r].target /\ q.arg = req[r].arg /\ q.stale = req[r].stale
  BY <1>2
<1>4. founded /\ req[r] # Idle
  BY <1>1, RequestKinds, BusyIsFounded DEF IInv
<1>5. ASSUME ~q.stale
      PROVE  Current(q)
  <2>1. Current(req[r])
    BY <1>1, <1>3, <1>4, <1>5 DEF IInv, RequestsAreCurrent
  <2>2. RoleRead(req[r]) = role[req[r].target]
    BY <1>1, <2>1 DEF Current, RoleRead
  <2>3. "owner" \in {q.seen, q.arg} => q.actorRole = "owner"
    <3>1. CASE req[r].op = "change"
      BY <1>1, <1>2, <1>3, <3>1 DEF MayChange
    <3>2. CASE req[r].op = "remove"
      <4>1. req[r].target = req[r].actor => q.seen = q.actorRole
        BY <1>2, <1>3, <2>1, <2>2 DEF Current
      <4>2. req[r].arg # "owner"
        BY <2>1, <3>2 DEF Current
      <4> QED BY <1>1, <1>2, <1>3, <3>2, <4>1, <4>2 DEF MayRemove
    <3> QED BY <1>1, <3>1, <3>2
  <2>4. q.seen = "owner" /\ q.arg # "owner" => q.at # "ready"
    BY <1>2, <1>3
  <2> QED BY <1>1, <1>2, <1>3, <2>1, <2>2, <2>3, <2>4 DEF Current
<1>6. q.op # "accept" /\ q.op # "invite"
  BY <1>1, <1>3
<1> QED BY <1>2, <1>4, <1>5, <1>6, AdvancesKeeps

LEMMA MemberReadyKeeps ==
    ASSUME IInv, NEW r \in Requests, CountOwners(r) \/ CheckInvite(r)
    PROVE  IInv'
<1>1. /\ req[r] \in MemberRequest
      /\ CountOwners(r) => req[r].at = "count" /\ Cardinality(Owners) > 1
      /\ CheckInvite(r) => req[r].op = "invite"
  BY MemberReadyMoves DEF IInv
<1>2. PICK q \in MemberRequest :
         /\ Advances(r, q)
         /\ q.at = "ready"
         /\ \A f \in {"op", "actor", "actorRole", "target", "arg", "seen", "row", "stale"} : q[f] = req[r][f]
  BY MemberReadyMoves DEF IInv
<1>3. /\ q.op = req[r].op /\ q.actor = req[r].actor /\ q.actorRole = req[r].actorRole
      /\ q.target = req[r].target /\ q.arg = req[r].arg /\ q.stale = req[r].stale
      /\ q.seen = req[r].seen /\ q.row = req[r].row
  BY <1>2
<1>4. founded /\ req[r] # Idle /\ req[r].op # "accept"
  BY <1>1, RequestKinds, BusyIsFounded DEF IInv
<1>5. ASSUME ~q.stale
      PROVE  Current(q)
  <2>1. Current(req[r])
    BY <1>3, <1>4, <1>5 DEF IInv, RequestsAreCurrent
  <2> HIDE DEF Owners
  <2> QED BY <1>1, <1>2, <1>3, <2>1 DEF Current
<1>6. q.op = "invite" => q.arg \in Role \ {"owner"}
  BY <1>3 DEF IInv, InvitationsExist
<1> QED BY <1>2, <1>3, <1>4, <1>5, <1>6, AdvancesKeeps

LEMMA RedeemKeeps ==
    ASSUME IInv, NEW r \in Requests, NEW i \in Invitations, Redeem(r, i)
    PROVE  IInv'
<1>1. invite[i].state = "pending"
  BY RedeemMoves DEF IInv
<1>2. PICK q \in Acceptance :
         /\ Advances(r, q)
         /\ q.at = "authorised" /\ q.target = invite[i].email /\ q.invitation = i
  BY RedeemMoves DEF IInv
<1>3. q.op = "accept"
  BY DEF Acceptance
<1>4. founded
  BY <1>1 DEF IInv, NothingBeforeFounding
<1>5. Redeemable(q)
  BY <1>1, <1>2 DEF Redeemable
<1> QED BY <1>1, <1>2, <1>3, <1>4, <1>5, AdvancesKeeps

LEMMA ReadInviteeKeeps ==
    ASSUME IInv, NEW r \in Requests, ReadInvitee(r)
    PROVE  IInv'
<1>1. req[r] \in Acceptance
  BY ReadInviteeMoves DEF IInv
<1>2. PICK q \in Acceptance :
         /\ Advances(r, q)
         /\ q.at = "ready" /\ q.seen = role[req[r].target]
         /\ \A f \in {"op", "target", "invitation", "stale"} : q[f] = req[r][f]
  BY ReadInviteeMoves DEF IInv
<1>3. q.op = req[r].op /\ q.target = req[r].target /\ q.invitation = req[r].invitation /\ q.stale = req[r].stale
  BY <1>2
<1>4. founded /\ req[r] # Idle /\ req[r].op = "accept"
  BY <1>1, RequestKinds, BusyIsFounded DEF IInv
<1>5. ASSUME ~q.stale
      PROVE  Redeemable(q)
  BY <1>2, <1>3, <1>4, <1>5 DEF IInv, RequestsAreCurrent, Redeemable
<1>6. invite[q.invitation].state # "free" /\ invite[q.invitation].email = q.target
  BY <1>3, <1>4 DEF IInv, InvitationsExist
<1> QED BY <1>2, <1>3, <1>4, <1>5, <1>6, AdvancesKeeps

(***************************************************************************)
(* The commits.                                                            *)
(***************************************************************************)

(* Taking one of several owners away leaves an owner.                       *)
LEMMA OneOfSeveral ==
    ASSUME NEW S, IsFiniteSet(S), Cardinality(S) > 1, NEW x
    PROVE  S \ {x} # {}
<1> SUFFICES ASSUME S \ {x} = {} PROVE FALSE
  OBVIOUS
<1>1. CASE x \in S
  <2>1. S = {x}
    BY <1>1
  <2> QED BY <2>1, FS_Singleton
<1>2. CASE x \notin S
  <2>1. S = {}
    BY <1>2
  <2> QED BY <2>1, FS_EmptySet
<1> QED BY <1>1, <1>2

LEMMA OwnersFinite == IsFiniteSet(Owners)
BY UsersAssumption, FS_Subset DEF Owners

(* A committed change or removal that is not stale: the target's role was   *)
(* what the request had seen, an owner asked for it if ownership is touched, *)
(* and it was not the last owner.                                           *)
LEMMA MemberCommitIsCurrent ==
    ASSUME IInv, NEW r \in Requests, CommitChange(r) \/ CommitRemove(r), ~req[r].stale
    PROVE  /\ req[r].target \in Users /\ req[r].actor \in Users
           /\ req[r].seen = role[req[r].target] /\ role[req[r].target] # "none"
           /\ req[r].row = "loaded" /\ req[r].op \in {"change", "remove"}
           /\ req[r].op = "remove" => req[r].arg = "none"
           /\ "owner" \in {req[r].seen, req[r].arg} => role[req[r].actor] = "owner"
           /\ req[r].seen = "owner" /\ req[r].arg # "owner" => Owners \ {req[r].target} # {}
<1>1. req[r] \in MemberRequest /\ req[r].op \in {"change", "remove"} /\ req[r].at = "ready" /\ req[r] # Idle
  BY RequestKinds DEF IInv, CommitChange, CommitRemove
<1>2. Current(req[r])
  BY <1>1 DEF IInv, RequestsAreCurrent
<1>3. req[r].target \in Users /\ req[r].actor \in Users
  BY <1>1 DEF MemberRequest
<1>4. req[r].seen = "owner" /\ req[r].arg # "owner" => Owners \ {req[r].target} # {}
  BY <1>1, <1>2, OneOfSeveral, OwnersFinite DEF Current
<1> QED BY <1>1, <1>2, <1>3, <1>4 DEF Current

LEMMA CommitChangeKeeps ==
    ASSUME IInv, NEW r \in Requests, CommitChange(r)
    PROVE  IInv'
<1>1. req[r] \in MemberRequest /\ req[r] # Idle /\ Commits(r)
  BY RequestKinds DEF IInv, CommitChange
<1>2. founded /\ founded' = founded /\ account' = account /\ invite' = invite
  BY <1>1, BusyIsFounded DEF CommitChange
<1>3. req[r].target \in Users /\ req[r].arg \in Role \cup {"none"}
  BY <1>1 DEF MemberRequest
<1>4. role' = IF req[r].arg = req[r].seen THEN role ELSE [role EXCEPT ![req[r].target] = req[r].arg]
  BY DEF CommitChange
<1>5. TypeOK'
  <2>1. req' \in [Requests -> {Idle} \cup MemberRequest \cup Acceptance] /\ raced' \in BOOLEAN
    BY <1>1, CommitsType DEF IInv
  <2>2. role' \in [Users -> Role \cup {"none"}]
    BY <1>3, <1>4 DEF IInv, TypeOK
  <2> QED BY <1>2, <2>1, <2>2 DEF IInv, TypeOK
<1>6. RequestsAreCurrent' /\ InvitationsExist'
  BY <1>1, <1>2, CommitsKeep
<1>7. KeepsAnOwner'
  <2> SUFFICES ASSUME ~raced' PROVE Owners' # {}
    BY DEF KeepsAnOwner
  <2>1. Owners # {} /\ ~req[r].stale
    BY <1>1, <1>2 DEF IInv, KeepsAnOwner, Commits
  <2>2. CASE req[r].seen = "owner" /\ req[r].arg # "owner"
    <3>1. PICK w \in Owners : w # req[r].target
      BY <2>1, <2>2, MemberCommitIsCurrent
    <3>2. role'[w] = "owner" /\ w \in Users
      BY <3>1, <1>4, <1>3 DEF Owners, IInv, TypeOK
    <3> QED BY <3>2 DEF Owners
  <2>3. CASE req[r].seen # "owner" \/ req[r].arg = "owner"
    <3>1. PICK w \in Owners : TRUE
      BY <2>1
    <3>2. w = req[r].target => req[r].arg = "owner"
      BY <2>1, <2>3, <3>1, MemberCommitIsCurrent DEF Owners
    <3>3. role'[w] = "owner" /\ w \in Users
      BY <3>1, <3>2, <1>4, <1>3 DEF Owners, IInv, TypeOK
    <3> QED BY <3>3 DEF Owners
  <2> QED BY <2>2, <2>3
<1>8. NothingBeforeFounding' /\ OnePendingInvitation'
  BY <1>2 DEF NothingBeforeFounding, IInv, OnePendingInvitation, Unaccepted
<1> QED BY <1>5, <1>6, <1>7, <1>8 DEF IInv

LEMMA CommitRemoveKeeps ==
    ASSUME IInv, NEW r \in Requests, CommitRemove(r)
    PROVE  IInv'
<1>1. req[r] \in MemberRequest /\ req[r] # Idle /\ Commits(r)
  BY RequestKinds DEF IInv, CommitRemove
<1>2. founded /\ founded' = founded /\ account' = account /\ invite' = invite
  BY <1>1, BusyIsFounded DEF CommitRemove
<1>3. req[r].target \in Users
  BY <1>1 DEF MemberRequest
<1>4. role' = IF req[r].row = "loaded" THEN [role EXCEPT ![req[r].target] = "none"] ELSE role
  BY DEF CommitRemove
<1>5. TypeOK'
  <2>1. req' \in [Requests -> {Idle} \cup MemberRequest \cup Acceptance] /\ raced' \in BOOLEAN
    BY <1>1, CommitsType DEF IInv
  <2>2. role' \in [Users -> Role \cup {"none"}]
    BY <1>3, <1>4 DEF IInv, TypeOK
  <2> QED BY <1>2, <2>1, <2>2 DEF IInv, TypeOK
<1>6. RequestsAreCurrent' /\ InvitationsExist'
  BY <1>1, <1>2, CommitsKeep
<1>7. KeepsAnOwner'
  <2> SUFFICES ASSUME ~raced' PROVE Owners' # {}
    BY DEF KeepsAnOwner
  <2>1. Owners # {} /\ ~req[r].stale
    BY <1>1, <1>2 DEF IInv, KeepsAnOwner, Commits
  <2>2. req[r].op = "remove"
    BY DEF CommitRemove
  <2>3. PICK w \in Owners : w # req[r].target
    BY <2>1, <2>2, MemberCommitIsCurrent DEF Owners
  <2>4. role'[w] = "owner" /\ w \in Users
    BY <2>3, <1>3, <1>4 DEF Owners, IInv, TypeOK
  <2> QED BY <2>4 DEF Owners
<1>8. NothingBeforeFounding' /\ OnePendingInvitation'
  BY <1>2 DEF NothingBeforeFounding, IInv, OnePendingInvitation, Unaccepted
<1> QED BY <1>5, <1>6, <1>7, <1>8 DEF IInv

(* The state of an invitation, and nothing else of it, changes.             *)
LEMMA CommitAcceptKeeps ==
    ASSUME IInv, NEW r \in Requests, CommitAccept(r)
    PROVE  IInv'
<1> DEFINE i == req[r].invitation
           u == req[r].target
<1>1. req[r] \in Acceptance /\ req[r] # Idle /\ Commits(r) /\ req[r].op = "accept"
  BY RequestKinds DEF IInv, CommitAccept
<1>2. i \in Invitations /\ u \in Users
  BY <1>1 DEF Acceptance
<1>3. invite[i].state \in {"pending", "expired", "accepted"} /\ invite[i].email = u /\ invite[i].role \in Role \ {"owner"}
  BY <1>1, <1>2 DEF IInv, InvitationsExist, TypeOK, Invite
<1>4. founded /\ founded' = founded /\ account' = account \cup {u}
  BY <1>1, BusyIsFounded DEF CommitAccept
<1>5. role' = IF req[r].seen = "none" THEN [role EXCEPT ![u] = invite[i].role] ELSE role
  BY DEF CommitAccept
<1>6. invite' = [invite EXCEPT ![i].state = "accepted"]
  BY DEF CommitAccept
<1>7. req[r].seen = "none" => role[u] = "none"
  BY DEF CommitAccept, InsertsAreNew
<1> HIDE DEF i, u
<1>8. invite' \in [Invitations -> Invite]
  <2>1. [invite[i] EXCEPT !.state = "accepted"] \in Invite
    BY <1>2, <1>3 DEF IInv, TypeOK, Invite
  <2> HIDE DEF Invite
  <2> QED BY <1>6, <2>1 DEF IInv, TypeOK
<1>9. TypeOK'
  <2>1. req' \in [Requests -> {Idle} \cup MemberRequest \cup Acceptance] /\ raced' \in BOOLEAN
    BY <1>1, CommitsType DEF IInv
  <2>2. role' \in [Users -> Role \cup {"none"}]
    BY <1>2, <1>3, <1>5 DEF IInv, TypeOK
  <2> HIDE DEF Invite
  <2> QED BY <1>2, <1>4, <1>8, <2>1, <2>2 DEF IInv, TypeOK
<1>10. \A j \in Invitations :
         /\ invite[j].state # "free" => invite'[j].state # "free" /\ invite'[j].email = invite[j].email
         /\ j # i => invite'[j] = invite[j]
         /\ j = i => invite'[j].state = "accepted"
  <2>1. invite \in [Invitations -> Invite]
    BY DEF IInv, TypeOK
  <2>2. /\ [invite[i] EXCEPT !.state = "accepted"].state = "accepted"
        /\ [invite[i] EXCEPT !.state = "accepted"].email = invite[i].email
    BY <1>2, <1>3, <2>1 DEF Invite
  <2> HIDE DEF Invite
  <2> QED BY <1>6, <2>1, <2>2
<1>11. role'[u] # "none" \/ raced'
  <2>1. CASE req[r].seen = "none"
    BY <1>2, <1>3, <1>5, <2>1, RoleAssumption DEF IInv, TypeOK, Rank
  <2>2. CASE req[r].seen # "none"
    <3> SUFFICES ASSUME ~raced' PROVE role'[u] # "none"
      OBVIOUS
    <3>1. ~req[r].stale
      BY <1>1 DEF Commits
    <3>2. Redeemable(req[r]) /\ req[r].at = "ready"
      BY <1>1, <3>1 DEF IInv, RequestsAreCurrent, CommitAccept
    <3> QED BY <1>5, <2>2, <3>2 DEF Redeemable, u
  <2> QED BY <2>1, <2>2
<1>12. RequestsAreCurrent' /\ InvitationsExist'
  BY <1>1, <1>3, <1>10, <1>11, CommitsKeep
<1>13. KeepsAnOwner'
  <2>1. Owners \subseteq Owners'
    BY <1>2, <1>5, <1>7 DEF Owners, IInv, TypeOK
  <2> QED BY <1>1, <1>4, <2>1 DEF IInv, KeepsAnOwner, Commits
<1>14. NothingBeforeFounding'
  BY <1>4 DEF NothingBeforeFounding
<1>15. OnePendingInvitation'
  BY <1>10 DEF IInv, OnePendingInvitation, Unaccepted
<1> QED BY <1>9, <1>12, <1>13, <1>14, <1>15 DEF IInv

LEMMA CommitInviteKeeps ==
    ASSUME IInv, NEW r \in Requests, NEW i \in Invitations, CommitInvite(r, i)
    PROVE  IInv'
<1>1. req[r] \in MemberRequest /\ req[r] # Idle /\ Commits(r) /\ ~Awaited(req[r].target) /\ invite[i].state = "free"
  BY RequestKinds DEF IInv, CommitInvite, UniquePending
<1>2. req[r].target \in Users /\ req[r].arg \in Role \ {"owner"}
  <2>1. req[r].op = "invite"
    BY DEF CommitInvite
  <2> QED BY <1>1, <2>1 DEF IInv, InvitationsExist, MemberRequest
<1>3. founded /\ founded' = founded /\ account' = account /\ role' = role
  BY <1>1, BusyIsFounded DEF CommitInvite
<1> DEFINE new == [state |-> "pending", email |-> req[r].target, role |-> req[r].arg]
<1>4. invite' = [invite EXCEPT ![i] = new]
  BY DEF CommitInvite
<1>5. new \in Invite /\ new.state = "pending" /\ new.email = req[r].target
  BY <1>2 DEF Invite
<1> HIDE DEF new
<1>6. invite' \in [Invitations -> Invite] /\ \A j \in Invitations : invite'[j] = IF j = i THEN new ELSE invite[j]
  <2> HIDE DEF Invite
  <2> QED BY <1>4, <1>5 DEF IInv, TypeOK
<1>7. TypeOK'
  <2>1. req' \in [Requests -> {Idle} \cup MemberRequest \cup Acceptance] /\ raced' \in BOOLEAN
    BY <1>1, CommitsType DEF IInv
  <2> HIDE DEF Invite
  <2> QED BY <1>3, <1>6, <2>1 DEF IInv, TypeOK
<1>8. RequestsAreCurrent' /\ InvitationsExist'
  BY <1>1, <1>5, <1>6, CommitsKeep
<1>9. KeepsAnOwner' /\ NothingBeforeFounding'
  BY <1>1, <1>3 DEF IInv, KeepsAnOwner, Commits, Owners, NothingBeforeFounding
<1>10. OnePendingInvitation'
  BY <1>1, <1>5, <1>6 DEF IInv, OnePendingInvitation, Unaccepted, Awaited
<1> QED BY <1>7, <1>8, <1>9, <1>10 DEF IInv

(***************************************************************************)
(* Steps that are no request's.                                            *)
(***************************************************************************)
LEMMA RegisterKeeps ==
    ASSUME IInv, NEW u \in Users, Register(u)
    PROVE  IInv'
<1>1. account' = account \cup {u} /\ UNCHANGED <<founded, role, invite, req, raced>>
  BY DEF Register
<1>2. TypeOK'
  <2> HIDE DEF Invite, MemberRequest, Acceptance
  <2> QED BY <1>1 DEF IInv, TypeOK
<1>3. Owners' = Owners
  BY <1>1 DEF Owners
<1>4. RequestsAreCurrent'
  <2> HIDE DEF Owners
  <2> QED BY <1>1, <1>3 DEF IInv, RequestsAreCurrent, Redeemable, Current
<1> QED BY <1>1, <1>2, <1>3, <1>4 DEF IInv, InvitationsExist, NothingBeforeFounding, KeepsAnOwner,
           OnePendingInvitation, Unaccepted

LEMMA FoundKeeps ==
    ASSUME IInv, NEW u \in Users, Found(u)
    PROVE  IInv'
<1>1. /\ ~founded /\ founded' = TRUE /\ account' = account \cup {u}
      /\ role' = [role EXCEPT ![u] = "owner"]
      /\ UNCHANGED <<invite, req, raced>>
  BY DEF Found
<1>2. TypeOK'
  <2> HIDE DEF Invite, MemberRequest, Acceptance
  <2> QED BY <1>1, RoleAssumption DEF IInv, TypeOK
<1>3. \A r \in Requests : req[r] = Idle
  BY <1>1 DEF IInv, NothingBeforeFounding
<1>4. RequestsAreCurrent' /\ InvitationsExist'
  BY <1>1, <1>3 DEF RequestsAreCurrent, InvitationsExist, Idle
<1>5. u \in Owners'
  BY <1>1 DEF IInv, TypeOK, Owners
<1> QED BY <1>1, <1>2, <1>4, <1>5 DEF IInv, NothingBeforeFounding, KeepsAnOwner, OnePendingInvitation, Unaccepted

LEMMA ExpiresKeeps ==
    ASSUME IInv, NEW i \in Invitations, Expires(i)
    PROVE  IInv'
<1>1. /\ invite[i].state = "pending"
      /\ invite' = [invite EXCEPT ![i].state = "expired"]
      /\ UNCHANGED <<founded, account, role, req, raced>>
  BY DEF Expires
<1>2. invite[i] \in Invite /\ invite \in [Invitations -> Invite]
  BY DEF IInv, TypeOK
<1> DEFINE new == [invite[i] EXCEPT !.state = "expired"]
<1>3. new \in Invite /\ new.state = "expired" /\ new.email = invite[i].email
  BY <1>1, <1>2 DEF Invite
<1> HIDE DEF new
<1>4. invite' \in [Invitations -> Invite] /\ \A j \in Invitations : invite'[j] = IF j = i THEN new ELSE invite[j]
  <2>1. invite' = [invite EXCEPT ![i] = new]
    BY <1>1 DEF new
  <2> HIDE DEF Invite
  <2> QED BY <1>2, <1>3, <2>1
<1>5. TypeOK'
  <2> HIDE DEF Invite, MemberRequest, Acceptance
  <2> QED BY <1>1, <1>4 DEF IInv, TypeOK
<1>6. Owners' = Owners
  BY <1>1 DEF Owners
<1>7. InvitationsExist'
  <2>1. \A r \in Requests : req[r].op = "accept" => req[r].invitation \in Invitations
    BY RequestKinds DEF IInv, Acceptance
  <2> QED BY <1>1, <1>3, <1>4, <2>1 DEF IInv, InvitationsExist
<1>8. RequestsAreCurrent'
  <2>1. \A r \in Requests : req[r].op = "accept" => req[r].invitation \in Invitations
    BY RequestKinds DEF IInv, Acceptance
  <2> HIDE DEF Owners
  <2> QED BY <1>1, <1>3, <1>4, <1>6, <2>1 DEF IInv, RequestsAreCurrent, Redeemable, Current
<1>9. OnePendingInvitation'
  BY <1>1, <1>3, <1>4 DEF IInv, OnePendingInvitation, Unaccepted
<1>10. KeepsAnOwner' /\ NothingBeforeFounding'
  BY <1>1, <1>3, <1>4, <1>6 DEF IInv, KeepsAnOwner, NothingBeforeFounding
<1> QED BY <1>5, <1>7, <1>8, <1>9, <1>10 DEF IInv

LEMMA InitInvariant == Init => IInv
<1> SUFFICES ASSUME Init PROVE IInv
  OBVIOUS
<1>1. TypeOK
  BY DEF Init, TypeOK, Invite
<1>2. \A r \in Requests : req[r] = Idle
  BY DEF Init
<1>3. Owners = {}
  BY DEF Init, Owners
<1> QED BY <1>1, <1>2, <1>3 DEF Init, Idle, IInv, RequestsAreCurrent, InvitationsExist, NothingBeforeFounding,
           KeepsAnOwner, OnePendingInvitation, Unaccepted

LEMMA NextKeepsInvariant == IInv /\ [Next]_vars => IInv'
<1> SUFFICES ASSUME IInv, [Next]_vars PROVE IInv'
  OBVIOUS
<1>1. ASSUME NEW u \in Users, Register(u) \/ Found(u)
      PROVE  IInv'
  BY <1>1, RegisterKeeps, FoundKeeps
<1>2. ASSUME NEW r \in Requests, NEW u \in Users, NEW v \in Users, NEW op \in {"change", "remove", "invite"},
             NEW arg \in Role \cup {"none"}, Authorise(r, u, op, v, arg)
      PROVE  IInv'
  BY <1>2, AuthoriseKeeps
<1>3. ASSUME NEW r \in Requests, ReadTarget(r) \/ CountOwners(r) \/ CheckInvite(r) \/ ReadInvitee(r) \/ Stops(r)
      PROVE  IInv'
  BY <1>3, ReadTargetKeeps, MemberReadyKeeps, ReadInviteeKeeps, StopsKeeps
<1>4. ASSUME NEW r \in Requests, CommitChange(r) \/ CommitRemove(r) \/ CommitAccept(r)
      PROVE  IInv'
  BY <1>4, CommitChangeKeeps, CommitRemoveKeeps, CommitAcceptKeeps
<1>5. ASSUME NEW r \in Requests, NEW i \in Invitations, Redeem(r, i) \/ CommitInvite(r, i)
      PROVE  IInv'
  BY <1>5, RedeemKeeps, CommitInviteKeeps
<1>6. ASSUME NEW i \in Invitations, Expires(i)
      PROVE  IInv'
  BY <1>6, ExpiresKeeps
<1>7. CASE UNCHANGED vars
  <2>1. Owners' = Owners /\ TypeOK'
    BY <1>7 DEF vars, Owners, IInv, TypeOK
  <2> HIDE DEF Owners
  <2> QED BY <1>7, <2>1 DEF vars, IInv, RequestsAreCurrent, Redeemable, Current, InvitationsExist,
             NothingBeforeFounding, KeepsAnOwner, OnePendingInvitation, Unaccepted
<1> QED BY <1>1, <1>2, <1>3, <1>4, <1>5, <1>6, <1>7 DEF Next

(***************************************************************************)
(* The theorems.                                                           *)
(***************************************************************************)
LEMMA Invariance == Spec => []IInv
BY InitInvariant, NextKeepsInvariant, PTL DEF Spec

(* Rows, invitations and requests have their types.                         *)
THEOREM MembershipTypeCorrect == Spec => []TypeOK
BY Invariance, PTL DEF IInv

(* The last owner is never lost to requests that do not race.               *)
THEOREM OwnerIsKept == Spec => []KeepsAnOwner
BY Invariance, PTL DEF IInv

(* At most one unaccepted invitation of an address.                         *)
THEOREM InvitationsAreUnique == Spec => []OnePendingInvitation
BY Invariance, PTL DEF IInv

(* Which steps change a role: the founding and three commits.               *)
LEMMA RoleChanges ==
    ASSUME Next, role' # role
    PROVE  \/ \E u \in Users : Found(u)
           \/ \E r \in Requests : CommitChange(r) \/ CommitRemove(r) \/ CommitAccept(r)
<1>1. ASSUME NEW u \in Users, Register(u)
      PROVE  role' = role
  BY <1>1 DEF Register
<1>2. ASSUME NEW i \in Invitations, Expires(i)
      PROVE  role' = role
  BY <1>2 DEF Expires
<1>3. ASSUME NEW r \in Requests, NEW u \in Users, NEW v \in Users,
             NEW op \in {"change", "remove", "invite"}, NEW arg \in Role \cup {"none"},
             Authorise(r, u, op, v, arg)
      PROVE  role' = role
  BY <1>3 DEF Authorise, Advances
<1>4. ASSUME NEW r \in Requests, ReadTarget(r) \/ CountOwners(r)
      PROVE  role' = role
  BY <1>4 DEF ReadTarget, CountOwners, Advances
<1>5. ASSUME NEW r \in Requests, CheckInvite(r) \/ ReadInvitee(r)
      PROVE  role' = role
  BY <1>5 DEF CheckInvite, ReadInvitee, Advances
<1>6. ASSUME NEW r \in Requests, Stops(r)
      PROVE  role' = role
  BY <1>6 DEF Stops, Advances
<1>7. ASSUME NEW r \in Requests, NEW i \in Invitations, Redeem(r, i) \/ CommitInvite(r, i)
      PROVE  role' = role
  BY <1>7 DEF Redeem, CommitInvite, Advances
<1>. QED  BY <1>1, <1>2, <1>3, <1>4, <1>5, <1>6, <1>7 DEF Next

(***************************************************************************)
(* Ownership.  What a request may do to it was settled when it read its    *)
(* actor's and its target's roles: no race takes that from it or adds.     *)
(***************************************************************************)
Entitled(q) ==
    \/ q.actorRole = "owner"
    \/ q.op = "remove" /\ q.actor = q.target
    \/ q.seen # "owner" /\ (q.op = "change" => q.arg # "owner")

AuthorityIsRead ==
    \A r \in Requests :
        req[r].op \in {"change", "remove"} /\ req[r].at # "authorised" => Entitled(req[r])

LEMMA AdvancesKeepsAuthority ==
    ASSUME TypeOK, AuthorityIsRead, NEW r \in Requests, NEW q, Advances(r, q),
           q.op \in {"change", "remove"} /\ q.at # "authorised" => Entitled(q)
    PROVE  AuthorityIsRead'
<1>1. \A p \in Requests : req'[p] = IF p = r THEN q ELSE req[p]
  BY DEF TypeOK, Advances
<1> QED BY <1>1 DEF AuthorityIsRead, Entitled

LEMMA CommitsKeepAuthority ==
    ASSUME TypeOK, AuthorityIsRead, NEW r \in Requests, Commits(r)
    PROVE  AuthorityIsRead'
<1> SUFFICES ASSUME NEW p \in Requests, req'[p].op \in {"change", "remove"}, req'[p].at # "authorised"
             PROVE  Entitled(req'[p])
  BY DEF AuthorityIsRead, Entitled
<1>1. req'[p] = IF p = r THEN Idle ELSE Overtaken(req[p])
  BY DEF Commits
<1>2. p # r /\ req[p] # Idle
  BY <1>1 DEF Idle, Overtaken
<1>3. req[p] \in MemberRequest
  <2>1. req[p] \notin Acceptance
    <3> SUFFICES ASSUME req[p] \in Acceptance PROVE FALSE
      OBVIOUS
    <3>1. req[p].op = "accept"
      BY RequestKinds
    <3>2. req'[p] = [req[p] EXCEPT !.stale = OutOfDate(req[p])]
      BY <1>1, <1>2, <3>1 DEF Overtaken
    <3>3. req'[p].op = "accept"
      BY <3>1, <3>2 DEF Acceptance
    <3> QED BY <3>3
  <2> QED BY <1>2, <2>1, RequestKinds
<1>4. req'[p] = [req[p] EXCEPT !.stale = OutOfDate(req[p]), !.row = RowAfter(req[p])]
  <2>1. req[p].op # "accept"
    BY <1>3, RequestKinds
  <2> QED BY <1>1, <1>2, <2>1 DEF Overtaken
<1>5. /\ req'[p].op = req[p].op /\ req'[p].at = req[p].at /\ req'[p].actor = req[p].actor
      /\ req'[p].actorRole = req[p].actorRole /\ req'[p].target = req[p].target
      /\ req'[p].arg = req[p].arg /\ req'[p].seen = req[p].seen
  <2> HIDE DEF OutOfDate, RowAfter
  <2> QED BY <1>3, <1>4 DEF MemberRequest
<1>6. Entitled(req[p])
  BY <1>5 DEF AuthorityIsRead
<1> QED BY <1>5, <1>6 DEF Entitled

(* What a request may do is checked as it reads its target.                 *)
LEMMA ReadTargetKeepsAuthority ==
    ASSUME TypeOK, AuthorityIsRead, NEW r \in Requests, ReadTarget(r)
    PROVE  AuthorityIsRead'
<1>1. /\ req[r].op = "change" => MayChange(req[r], RoleRead(req[r]))
      /\ req[r].op = "remove" => MayRemove(req[r], RoleRead(req[r]))
  BY ReadTargetMoves
<1>2. PICK q \in MemberRequest :
         /\ Advances(r, q)
         /\ q.seen = RoleRead(req[r]) /\ q.row = "loaded"
         /\ q.at = IF RoleRead(req[r]) = "owner" /\ req[r].arg # "owner" THEN "count" ELSE "ready"
         /\ \A f \in {"op", "actor", "actorRole", "target", "arg", "stale"} : q[f] = req[r][f]
  BY ReadTargetMoves
<1>3. /\ q.op = req[r].op /\ q.actor = req[r].actor /\ q.actorRole = req[r].actorRole
      /\ q.target = req[r].target /\ q.arg = req[r].arg
  BY <1>2
<1>4. q.op \in {"change", "remove"} => Entitled(q)
  BY <1>1, <1>2, <1>3 DEF Entitled, MayChange, MayRemove
<1> QED BY <1>2, <1>4, AdvancesKeepsAuthority

LEMMA NextKeepsAuthority == TypeOK /\ AuthorityIsRead /\ [Next]_vars => AuthorityIsRead'
<1> SUFFICES ASSUME TypeOK, AuthorityIsRead, [Next]_vars PROVE AuthorityIsRead'
  OBVIOUS
<1>1. ASSUME UNCHANGED req
      PROVE  AuthorityIsRead'
  BY <1>1 DEF AuthorityIsRead, Entitled
<1>2. ASSUME NEW u \in Users, Register(u) \/ Found(u)
      PROVE  AuthorityIsRead'
  BY <1>1, <1>2 DEF Register, Found
<1>3. ASSUME NEW i \in Invitations, Expires(i)
      PROVE  AuthorityIsRead'
  BY <1>1, <1>3 DEF Expires
<1>4. ASSUME NEW r \in Requests, NEW u \in Users, NEW v \in Users, NEW op \in {"change", "remove", "invite"},
             NEW arg \in Role \cup {"none"}, Authorise(r, u, op, v, arg)
      PROVE  AuthorityIsRead'
  BY <1>4, AuthoriseMoves, AdvancesKeepsAuthority
<1>5. ASSUME NEW r \in Requests, CountOwners(r) \/ CheckInvite(r)
      PROVE  AuthorityIsRead'
  <2>1. /\ req[r] \in MemberRequest
        /\ CountOwners(r) => req[r].at = "count"
        /\ CheckInvite(r) => req[r].op = "invite"
    BY <1>5, MemberReadyMoves
  <2>2. PICK q \in MemberRequest :
           /\ Advances(r, q)
           /\ \A f \in {"op", "actor", "actorRole", "target", "arg", "seen", "row", "stale"} : q[f] = req[r][f]
    BY <1>5, MemberReadyMoves
  <2>3. /\ q.op = req[r].op /\ q.actor = req[r].actor /\ q.actorRole = req[r].actorRole
        /\ q.target = req[r].target /\ q.arg = req[r].arg /\ q.seen = req[r].seen
    BY <2>2
  <2>4. q.op \in {"change", "remove"} => Entitled(q)
    BY <1>5, <2>1, <2>3 DEF AuthorityIsRead, Entitled
  <2> QED BY <2>2, <2>4, AdvancesKeepsAuthority
<1>6. ASSUME NEW r \in Requests, NEW q \in {Idle} \cup Acceptance, Advances(r, q)
      PROVE  AuthorityIsRead'
  <2>1. q.op \notin {"change", "remove"}
    BY <1>6 DEF Idle, Acceptance
  <2> QED BY <1>6, <2>1, AdvancesKeepsAuthority
<1>7. ASSUME NEW r \in Requests, Stops(r) \/ ReadInvitee(r)
      PROVE  AuthorityIsRead'
  BY <1>6, <1>7, ReadInviteeMoves DEF Stops
<1>8. ASSUME NEW r \in Requests, NEW i \in Invitations, Redeem(r, i)
      PROVE  AuthorityIsRead'
  BY <1>6, <1>8, RedeemMoves
<1>9. ASSUME NEW r \in Requests, Commits(r)
      PROVE  AuthorityIsRead'
  BY <1>9, CommitsKeepAuthority
<1>10. ASSUME NEW r \in Requests, CommitChange(r) \/ CommitRemove(r) \/ CommitAccept(r)
       PROVE  AuthorityIsRead'
  BY <1>9, <1>10 DEF CommitChange, CommitRemove, CommitAccept
<1>11. ASSUME NEW r \in Requests, NEW i \in Invitations, CommitInvite(r, i)
       PROVE  AuthorityIsRead'
  BY <1>9, <1>11 DEF CommitInvite
<1> QED BY <1>1, <1>2, <1>3, <1>4, <1>5, <1>7, <1>8, <1>10, <1>11, ReadTargetKeepsAuthority DEF Next, vars

LEMMA AuthorityInvariance == Spec => [](IInv /\ AuthorityIsRead)
<1>1. Init => AuthorityIsRead
  BY DEF Init, AuthorityIsRead, Idle
<1>2. IInv => TypeOK
  BY DEF IInv
<1> QED BY <1>1, <1>2, InitInvariant, NextKeepsInvariant, NextKeepsAuthority, PTL DEF Spec

LEMMA OwnershipStep ==
    ASSUME IInv, AuthorityIsRead, [Next]_vars, founded, NEW u \in (Owners' \ Owners) \cup (Owners \ Owners')
    PROVE  \E r \in Requests : /\ req[r].op \in {"change", "remove"} /\ req[r].target = u
                               /\ req'[r] = Idle
                               /\ TouchesRightly(req[r], u)
<1>1. role' # role /\ Next
  BY DEF Owners, vars
<1>2. ~\E v \in Users : Found(v)
  BY DEF Found
<1>3. ASSUME NEW r \in Requests, CommitAccept(r)
      PROVE  FALSE
  <2>1. req[r] \in Acceptance
    BY <1>3, RequestKinds DEF IInv, CommitAccept
  <2>2. /\ req[r].target \in Users
        /\ invite[req[r].invitation].role # "owner"
    BY <1>3, <2>1 DEF IInv, InvitationsExist, TypeOK, Invite, Acceptance, CommitAccept
  <2>3. role' = IF req[r].seen = "none" THEN [role EXCEPT ![req[r].target] = invite[req[r].invitation].role] ELSE role
    BY <1>3 DEF CommitAccept
  <2>4. req[r].seen = "none" => role[req[r].target] = "none"
    BY <1>3 DEF CommitAccept, InsertsAreNew
  <2> QED BY <2>2, <2>3, <2>4 DEF Owners, IInv, TypeOK
<1>4. ASSUME NEW r \in Requests, CommitChange(r) \/ CommitRemove(r)
      PROVE  /\ req[r].op \in {"change", "remove"} /\ req[r].target = u
             /\ req'[r] = Idle
             /\ TouchesRightly(req[r], u)
  <2>1. req[r] \in MemberRequest /\ req[r].op \in {"change", "remove"} /\ req[r].at = "ready"
    BY <1>4, RequestKinds DEF IInv, CommitChange, CommitRemove
  <2>2. req[r].target \in Users /\ req[r].actor \in Users
    BY <2>1 DEF MemberRequest
  <2>3. \A v \in Users : v # req[r].target => role'[v] = role[v]
    BY <1>4, <2>2 DEF CommitChange, CommitRemove, IInv, TypeOK
  <2>4. req[r].target = u
    BY <2>3 DEF Owners
  <2>5. role'[u] = "owner" /\ role[u] # "owner" => req[r].op = "change" /\ req[r].arg = "owner"
    BY <1>4, <2>2, <2>4 DEF CommitChange, CommitRemove, IInv, TypeOK
  <2>6. role[u] # "owner" => role'[u] = "owner"
    BY DEF Owners
  <2>7. Entitled(req[r])
    BY <2>1 DEF AuthorityIsRead
  <2>8. req[r].actor \in Owners \/ req[r].stale
    <3> SUFFICES ASSUME ~req[r].stale PROVE role[req[r].actor] = "owner"
      BY <2>2 DEF Owners
    <3>1. /\ req[r].seen = role[u]
          /\ "owner" \in {req[r].seen, req[r].arg} => role[req[r].actor] = "owner"
      BY <1>4, <2>4, MemberCommitIsCurrent
    <3> QED BY <2>5, <2>6, <3>1
  <2>9. req'[r] = Idle
    BY <1>4 DEF CommitChange, CommitRemove, Commits
  <2>10. u \in Owners <=> role[u] = "owner"
    BY <2>2, <2>4 DEF Owners
  <2>11. \/ req[r].actorRole = "owner"
         \/ req[r].op = "remove" /\ req[r].actor = u
         \/ u \in Owners /\ req[r].seen # "owner"
    BY <2>4, <2>5, <2>6, <2>7, <2>10 DEF Entitled
  <2> QED BY <2>1, <2>4, <2>8, <2>9, <2>11 DEF TouchesRightly
<1> QED BY <1>1, <1>2, <1>3, <1>4, RoleChanges

LEMMA JoiningStep ==
    ASSUME IInv, [Next]_vars, founded, ~raced', NEW u \in Users, role[u] = "none", role'[u] # "none"
    PROVE  \E i \in Invitations : /\ Unaccepted(i) /\ invite[i].email = u
                                  /\ invite'[i].state = "accepted"
<1>1. role' # role /\ Next
  BY DEF vars
<1>2. ~\E v \in Users : Found(v)
  BY DEF Found
<1>3. ASSUME NEW r \in Requests, CommitChange(r) \/ CommitRemove(r)
      PROVE  FALSE
  <2>1. req[r].target \in Users /\ role[req[r].target] # "none"
    <3>1. ~req[r].stale
      BY <1>3 DEF CommitChange, CommitRemove, Commits
    <3> QED BY <1>3, <3>1, MemberCommitIsCurrent
  <2>2. \A v \in Users : v # req[r].target => role'[v] = role[v]
    BY <1>3, <2>1 DEF CommitChange, CommitRemove, IInv, TypeOK
  <2> QED BY <2>1, <2>2
<1>4. ASSUME NEW r \in Requests, CommitAccept(r)
      PROVE  \E i \in Invitations : /\ Unaccepted(i) /\ invite[i].email = u
                                    /\ invite'[i].state = "accepted"
  <2> DEFINE i == req[r].invitation
  <2>1. req[r] \in Acceptance /\ req[r] # Idle /\ req[r].op = "accept"
    BY <1>4, RequestKinds DEF IInv, CommitAccept
  <2>2. i \in Invitations /\ req[r].target \in Users
    BY <2>1 DEF Acceptance
  <2>3. req[r].target = u
    BY <1>4, <2>2 DEF CommitAccept, IInv, TypeOK
  <2>4. Redeemable(req[r]) /\ ~raced
    BY <1>4, <2>1 DEF IInv, RequestsAreCurrent, CommitAccept, Commits
  <2>5. invite[i].state \in {"pending", "expired", "accepted"} /\ invite[i].email = u
    BY <2>1, <2>2, <2>3 DEF IInv, InvitationsExist, TypeOK, Invite
  <2>6. invite[i].state # "accepted"
    BY <2>3, <2>4 DEF Redeemable
  <2>7. invite'[i].state = "accepted"
    <3>1. invite' = [invite EXCEPT ![i].state = "accepted"] /\ invite[i] \in Invite
      BY <1>4, <2>2 DEF CommitAccept, IInv, TypeOK
    <3>2. [invite[i] EXCEPT !.state = "accepted"].state = "accepted"
      BY <2>5, <3>1 DEF Invite
    <3> QED BY <2>2, <3>1, <3>2 DEF IInv, TypeOK
  <2> QED BY <2>2, <2>5, <2>6, <2>7 DEF Unaccepted
<1> QED BY <1>1, <1>2, <1>3, <1>4, RoleChanges

(* Ownership is touched by owners, on the roles that were read.             *)
THEOREM OwnersDecideOnOwnership == Spec => OwnershipTouchedByOwners
<1>1. IInv /\ AuthorityIsRead /\ [Next]_vars =>
        [\A u \in (Owners' \ Owners) \cup (Owners \ Owners') :
            \/ ~founded
            \/ \E r \in Requests : /\ req[r].op \in {"change", "remove"} /\ req[r].target = u
                                    /\ req'[r] = Idle
                                    /\ TouchesRightly(req[r], u)]_vars
  BY OwnershipStep
<1> QED BY <1>1, AuthorityInvariance, PTL DEF Spec, OwnershipTouchedByOwners

(* Nobody joins by an invitation that has been used, unless they raced.     *)
THEOREM InvitationsAreUsedOnce == Spec => JoinsByUnusedInvitation
<1>1. IInv /\ [Next]_vars =>
        [\A u \in Users : role[u] = "none" /\ role'[u] # "none" =>
            \/ raced' \/ ~founded
            \/ \E i \in Invitations : /\ Unaccepted(i) /\ invite[i].email = u
                                       /\ invite'[i].state = "accepted"]_vars
  BY JoiningStep
<1> QED BY <1>1, Invariance, PTL DEF Spec, JoinsByUnusedInvitation

=============================================================================

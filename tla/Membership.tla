----------------------------- MODULE Membership -----------------------------
(***************************************************************************)
(* Who belongs to a workspace, and as what: services/auth.py from register *)
(* to remove_member, behind the endpoints of api/v1/orgs.py and the        *)
(* dependencies of api/deps.py.                                            *)
(*                                                                         *)
(* A request is authorised from one SELECT, checks what it is about to     *)
(* change with others, and commits a last one.  Postgres runs at READ      *)
(* COMMITTED and nothing takes a row lock, so other requests commit in     *)
(* between.  One workspace is followed; the refresh tokens that a role     *)
(* change or a removal revokes afterwards are in Sessions.                 *)
(***************************************************************************)
EXTENDS Naturals, FiniteSets

CONSTANTS
    Users,        \* people, each with one email address
    Requests,     \* requests that can be under way at once
    Invitations,  \* rows of invitations that can be created (a bound)
    Role          \* the roles of the instance

Rank == [owner |-> 0, admin |-> 1, analyst |-> 2, viewer |-> 3]

ASSUME RoleAssumption == {"owner", "admin"} \subseteq Role /\ Role \subseteq DOMAIN Rank
ASSUME UsersAssumption == IsFiniteSet(Users)

VARIABLES
    founded,  \* the workspace exists
    account,  \* users with a row in users
    role,     \* memberships.role, "none" where there is no row
    invite,   \* the rows of invitations
    req,      \* the requests under way
    raced     \* history: a request has committed over a change it had not seen

vars == <<founded, account, role, invite, req, raced>>

Satisfies(r, required) == Rank[r] <= Rank[required]
Owners == {u \in Users : role[u] = "owner"}

Idle == [op |-> "none", at |-> "idle"]

(* A request of a member: what it asks, what it has read so far.  row says  *)
(* what became of the target's membership row that it loaded: a row that    *)
(* was deleted and inserted again is another row.                           *)
MemberRequest ==
    [op : {"change", "remove", "invite"}, at : {"authorised", "count", "ready"},
     actor : Users, actorRole : Role, target : Users, arg : Role \cup {"none"},
     seen : Role \cup {"none"}, row : {"unread", "loaded", "deleted"}, stale : BOOLEAN]

(* A request that redeems an invitation; seen is the invitee's membership.  *)
Acceptance ==
    [op : {"accept"}, at : {"authorised", "ready"}, target : Users, invitation : Invitations,
     known : BOOLEAN, seen : Role \cup {"none"}, stale : BOOLEAN]

Invite == [state : {"free"}]
              \cup [state : {"pending", "expired", "accepted"}, email : Users, role : Role \ {"owner"}]

TypeOK ==
    /\ founded \in BOOLEAN /\ raced \in BOOLEAN
    /\ account \subseteq Users
    /\ role \in [Users -> Role \cup {"none"}]
    /\ invite \in [Invitations -> Invite]
    /\ req \in [Requests -> {Idle} \cup MemberRequest \cup Acceptance]

Init ==
    /\ founded = FALSE /\ raced = FALSE
    /\ account = {}
    /\ role = [u \in Users |-> "none"]
    /\ invite = [i \in Invitations |-> [state |-> "free"]]
    /\ req = [r \in Requests |-> Idle]

(***************************************************************************)
(* What a commit does to the other requests.  A row that one has loaded    *)
(* may be gone, and what it was decided from is out of date (history) when *)
(* the owners, or the membership of its actor or target, are others now.   *)
(***************************************************************************)
Changed == {u \in Users : role'[u] # role[u]}
Parties(q) == IF q.op = "accept" THEN {q.target} ELSE {q.actor, q.target}
OutOfDate(q) == q.stale \/ Parties(q) \cap Changed # {} \/ Owners' # Owners
RowAfter(q) == IF q.row = "loaded" /\ q.target \in Changed /\ role'[q.target] = "none" THEN "deleted" ELSE q.row

Overtaken(q) ==
    IF q = Idle THEN q
    ELSE IF q.op = "accept" THEN [q EXCEPT !.stale = OutOfDate(q)]
    ELSE [q EXCEPT !.stale = OutOfDate(q), !.row = RowAfter(q)]

Commits(r) ==
    /\ req' = [q \in Requests |-> IF q = r THEN Idle ELSE Overtaken(req[q])]
    /\ raced' = (raced \/ req[r].stale)

Advances(r, q) == req' = [req EXCEPT ![r] = q] /\ UNCHANGED <<founded, account, role, invite, raced>>

(* Every way a request ends without a commit: a check that fails, an        *)
(* IntegrityError, a client that goes away, a process that dies.            *)
Stops(r) == req[r] # Idle /\ Advances(r, Idle)

(***************************************************************************)
(* register and create_organization: the workspace with its owner in one   *)
(* transaction.  The unique index on lower(email) makes the check of the   *)
(* address and the insert one step; the workspace of interest is founded   *)
(* once, other ones leave no trace here.                                   *)
(***************************************************************************)
Register(u) ==
    /\ u \notin account
    /\ account' = account \cup {u}
    /\ UNCHANGED <<founded, role, invite, req, raced>>

Found(u) ==
    /\ ~founded
    /\ founded' = TRUE
    /\ account' = account \cup {u}
    /\ role' = [role EXCEPT ![u] = "owner"]
    /\ UNCHANGED <<invite, req, raced>>

(***************************************************************************)
(* get_tenant_principal reads the live role; require_role(ADMIN) guards    *)
(* the role change and the invitation; InviteRequest refuses OWNER.        *)
(***************************************************************************)

Authorise(r, u, op, v, arg) ==
    /\ req[r] = Idle
    /\ role[u] # "none"
    /\ op # "remove" => Satisfies(role[u], "admin")
    /\ \/ op = "change" /\ v # u /\ arg \in Role
       \/ op = "remove" /\ arg = "none"
       \/ op = "invite" /\ arg \in Role \ {"owner"}
    /\ Advances(r, [op |-> op, at |-> "authorised", actor |-> u, actorRole |-> role[u], target |-> v,
                    arg |-> arg, seen |-> "none", row |-> IF u = v THEN "loaded" ELSE "unread", stale |-> FALSE])

(* The role the handler works with.  The actor's row is in the session's    *)
(* identity map since it was authorised, and a second SELECT of it does not *)
(* refresh it: someone who leaves is judged by the role read first.         *)
RoleRead(q) == IF q.row = "loaded" THEN q.actorRole ELSE role[q.target]

MayChange(q, current) == (current = "owner" \/ q.arg = "owner") => q.actorRole = "owner"

(* Mutant: an admin may remove anybody.                                     *)
MayRemoveAnybody(q, current) == q.actor = q.target \/ Satisfies(q.actorRole, "admin")

MayRemove(q, current) ==
    \/ q.actor = q.target
    \/ /\ Satisfies(q.actorRole, "admin")
       /\ current = "owner" => q.actorRole = "owner"

ReadTarget(r) ==
    LET q == req[r]
        current == RoleRead(q)
    IN  /\ q.op \in {"change", "remove"} /\ q.at = "authorised"
        /\ role[q.target] # "none"
        /\ IF q.op = "change" THEN MayChange(q, current) ELSE MayRemove(q, current)
        /\ Advances(r, [q EXCEPT !.seen = current, !.row = "loaded",
                            !.at = IF current = "owner" /\ q.arg # "owner" THEN "count" ELSE "ready"])

(* Mutant: the owner that is about to go counts as the one that stays.      *)
CountOwnersFromOne(r) ==
    /\ req[r].at = "count"
    /\ Cardinality(Owners) > 0
    /\ Advances(r, [req[r] EXCEPT !.at = "ready"])

CountOwners(r) ==
    /\ req[r].at = "count"
    /\ Cardinality(Owners) > 1
    /\ Advances(r, [req[r] EXCEPT !.at = "ready"])

(***************************************************************************)
(* The commits.  An UPDATE writes only a value that differs from the one   *)
(* loaded, and fails when its row is gone (Stops); a DELETE of a row that  *)
(* is gone deletes nothing and succeeds.                                   *)
(***************************************************************************)
CommitChange(r) ==
    LET q == req[r]
    IN  /\ q.op = "change" /\ q.at = "ready"
        /\ q.arg # q.seen => q.row = "loaded"
        /\ role' = IF q.arg = q.seen THEN role ELSE [role EXCEPT ![q.target] = q.arg]
        /\ Commits(r)
        /\ UNCHANGED <<founded, account, invite>>

CommitRemove(r) ==
    LET q == req[r]
    IN  /\ q.op = "remove" /\ q.at = "ready"
        /\ role' = IF q.row = "loaded" THEN [role EXCEPT ![q.target] = "none"] ELSE role
        /\ Commits(r)
        /\ UNCHANGED <<founded, account, invite>>

Unaccepted(i) == invite[i].state \in {"pending", "expired"}
Awaited(v) == \E i \in Invitations : Unaccepted(i) /\ invite[i].email = v

(* invite_member's two checks; an invitation that expired still counts.     *)
CheckInvite(r) ==
    LET q == req[r]
    IN  /\ q.op = "invite" /\ q.at = "authorised"
        /\ role[q.target] = "none"
        /\ ~Awaited(q.target)
        /\ Advances(r, [q EXCEPT !.at = "ready"])

(* The partial unique index on (org, email) where accepted_at is null.      *)
(* Mutant: without the index.                                               *)
NoIndex(v) == TRUE

UniquePending(v) == ~Awaited(v)

CommitInvite(r, i) ==
    LET q == req[r]
    IN  /\ q.op = "invite" /\ q.at = "ready"
        /\ UniquePending(q.target)
        /\ invite[i].state = "free"
        /\ invite' = [invite EXCEPT ![i] = [state |-> "pending", email |-> q.target, role |-> q.arg]]
        /\ UNCHANGED <<founded, account, role>>
        /\ Commits(r)

Expires(i) ==
    /\ invite[i].state = "pending"
    /\ invite' = [invite EXCEPT ![i].state = "expired"]
    /\ UNCHANGED <<founded, account, role, req, raced>>

(***************************************************************************)
(* accept_invitation.                                                      *)
(***************************************************************************)

(* Mutant: accepted_at is not looked at.                                    *)
RedeemAgain(r, i) ==
    /\ req[r] = Idle
    /\ invite[i].state \in {"pending", "accepted"}
    /\ Advances(r, [op |-> "accept", at |-> "authorised", target |-> invite[i].email, invitation |-> i,
                    known |-> FALSE, seen |-> "none", stale |-> FALSE])

Redeem(r, i) ==
    /\ req[r] = Idle
    /\ invite[i].state = "pending"
    /\ Advances(r, [op |-> "accept", at |-> "authorised", target |-> invite[i].email, invitation |-> i,
                    known |-> FALSE, seen |-> "none", stale |-> FALSE])

ReadInvitee(r) ==
    LET q == req[r]
    IN  /\ q.op = "accept" /\ q.at = "authorised"
        /\ Advances(r, [q EXCEPT !.at = "ready", !.known = (q.target \in account), !.seen = role[q.target]])

(* The unique constraints on users.email and memberships(org, user): an     *)
(* insert of what has appeared since it was looked up fails.                *)
InsertsAreNew(q) ==
    /\ ~q.known => q.target \notin account
    /\ q.seen = "none" => role[q.target] = "none"

CommitAccept(r) ==
    LET q == req[r]
        i == q.invitation
    IN  /\ q.op = "accept" /\ q.at = "ready"
        /\ InsertsAreNew(q)
        /\ account' = account \cup {q.target}
        /\ role' = IF q.seen = "none" THEN [role EXCEPT ![q.target] = invite[i].role] ELSE role
        /\ invite' = [invite EXCEPT ![i].state = "accepted"]
        /\ Commits(r)
        /\ UNCHANGED founded

Next ==
    \/ \E u \in Users : Register(u) \/ Found(u)
    \/ \E r \in Requests :
          \/ \E u, v \in Users, op \in {"change", "remove", "invite"}, arg \in Role \cup {"none"} :
                Authorise(r, u, op, v, arg)
          \/ ReadTarget(r) \/ CountOwners(r) \/ CommitChange(r) \/ CommitRemove(r)
          \/ CheckInvite(r) \/ ReadInvitee(r) \/ CommitAccept(r) \/ Stops(r)
          \/ \E i \in Invitations : Redeem(r, i) \/ CommitInvite(r, i)
    \/ \E i \in Invitations : Expires(i)

Spec == Init /\ [][Next]_vars

-----------------------------------------------------------------------------
(***************************************************************************)
(* Properties.                                                             *)
(***************************************************************************)

(* What register and the error messages of change_member_role and           *)
(* remove_member say: a workspace always has an owner.  Two requests that   *)
(* each count the other's target among the owners break it.                 *)
AlwaysAnOwner == founded => Owners # {}

(* The part of it that holds: the last owner is lost only by a request that *)
(* commits over a change, of the owners or of the two memberships it is     *)
(* about, made since it was authorised.  The two owner counts and the       *)
(* guards around ownership suffice in every other interleaving.             *)
KeepsAnOwner == founded /\ ~raced => Owners # {}

(* Ownership is only ever touched by an owner (change_member_role): someone *)
(* becomes or ceases to be an owner by the founding, by leaving, or by a    *)
(* request of an owner.  A request is as good as the role it was authorised *)
(* with and the target's role that it read, however late it commits and     *)
(* whatever raced with it; if it is not stale, its actor is an owner still. *)
TouchesRightly(q, u) ==
    /\ \/ q.actorRole = "owner"
       \/ q.op = "remove" /\ q.actor = u
       \/ u \in Owners /\ q.seen # "owner"
    /\ q.stale \/ q.actor \in Owners

OwnershipTouchedByOwners ==
    [][\A u \in (Owners' \ Owners) \cup (Owners \ Owners') :
          \/ ~founded
          \/ \E r \in Requests : /\ req[r].op \in {"change", "remove"} /\ req[r].target = u
                                  /\ req'[r] = Idle
                                  /\ TouchesRightly(req[r], u)]_vars

(* Whoever joins was let in once: by the founding, or by an invitation that *)
(* nobody had accepted.  Someone who was removed does not come back by the  *)
(* invitation that let them in, unless an acceptance of it raced.           *)
JoinsByUnusedInvitation ==
    [][\A u \in Users : role[u] = "none" /\ role'[u] # "none" =>
          \/ raced' \/ ~founded
          \/ \E i \in Invitations : /\ Unaccepted(i) /\ invite[i].email = u
                                     /\ invite'[i].state = "accepted"]_vars

(* At most one invitation of an address is unaccepted, however many admins  *)
(* invite it at once.                                                       *)
OnePendingInvitation ==
    \A i, j \in Invitations :
        Unaccepted(i) /\ Unaccepted(j) /\ invite[i].email = invite[j].email => i = j
=============================================================================

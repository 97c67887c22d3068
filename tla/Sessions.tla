------------------------------ MODULE Sessions ------------------------------
(***************************************************************************)
(* The sessions of one user: the refresh tokens the API keeps              *)
(* (services/auth.py, api/v1/auth.py) and the tabs of the web client that  *)
(* spend them (web/lib/api.ts, web/lib/auth.tsx).                          *)
(*                                                                         *)
(* A refresh token is rotated on every use, and one that is presented      *)
(* again revokes them all.  The tabs of a browser share the stored token,  *)
(* each keeps its access token and its one refresh in flight to itself.    *)
(* The server reads a token in one step and rotates it in another, and an  *)
(* answer may be lost on its way.                                          *)
(***************************************************************************)
EXTENDS Naturals, FiniteSets

CONSTANTS
    Tabs, Browsers, BrowserOf,  \* BrowserOf[t] is the browser of tab t
    Calls, TabOf,               \* API calls that can be under way, and the tab each is made in
    MaxTokens                   \* rows of refresh_tokens that can be created (a bound)

ASSUME SessionsAssumption ==
    /\ BrowserOf \in [Tabs -> Browsers] /\ TabOf \in [Calls -> Tabs]
    /\ MaxTokens \in Nat

Tokens == 1..MaxTokens
NoToken == 0

VARIABLES
    token,     \* each row of refresh_tokens
    login,     \* history: the login each token descends from
    stored,    \* localStorage of each browser
    access,    \* the access token of each tab
    exchange,  \* the login or refresh under way in each tab
    call,      \* the calls that were answered 401
    history    \* history: whether a rotation forked a session, whether the alarm
               \* for a stolen token was set off, and what may excuse it

vars == <<token, login, stored, access, exchange, call, history>>

(* The login or refresh under way: spent is the token that a refresh sent,  *)
(* new the one that an answer brings.                                       *)
NoExchange == [at |-> "none", kind |-> "none", spent |-> NoToken, new |-> NoToken]
Exchange ==
    {NoExchange}
        \cup [at : {"read"}, kind : {"login"}, spent : {NoToken}, new : {NoToken}]
        \cup [at : {"answered"}, kind : {"login"}, spent : {NoToken}, new : Tokens]
        \cup [at : {"sent", "read", "refused"}, kind : {"refresh"}, spent : Tokens, new : {NoToken}]
        \cup [at : {"answered"}, kind : {"refresh"}, spent : Tokens, new : Tokens]

(* The server has answered with a new token, on its way to the tab.        *)
Answer(kind, spent, new) == [at |-> "answered", kind |-> kind, spent |-> spent, new |-> new]

(* "me" is the call of AuthProvider's mount effect.                         *)
CallState == [at : {"idle", "sent", "awaiting"}, me : BOOLEAN]
Quiet == [at |-> "idle", me |-> FALSE]

TypeOK ==
    /\ token \in [Tokens -> {"unissued", "live", "revoked", "expired", "purged"}]
    /\ login \in [Tokens -> Tokens \cup {NoToken}]
    /\ stored \in [Browsers -> Tokens \cup {NoToken}]
    /\ access \in [Tabs -> BOOLEAN]
    /\ exchange \in [Tabs -> Exchange]
    /\ call \in [Calls -> CallState]
    /\ history \in SUBSET {"excuse", "forked", "alarm"}

Init ==
    /\ token = [k \in Tokens |-> "unissued"]
    /\ login = [k \in Tokens |-> NoToken]
    /\ stored = [b \in Browsers |-> NoToken]
    /\ access = [t \in Tabs |-> FALSE]
    /\ exchange = [t \in Tabs |-> NoExchange]
    /\ call = [c \in Calls |-> Quiet]
    /\ history = {}

(***************************************************************************)
(* refresh_tokens.                                                         *)
(***************************************************************************)
Fresh(k) == token[k] = "unissued" /\ \A j \in 1..(k - 1) : token[j] # "unissued"

(* revoke_all_user_tokens.  Its SELECT and its UPDATEs are one step: a token *)
(* issued between them is the same as one issued after.  An expired token   *)
(* is refused for its exp claim, whatever its row says.                     *)
AllRevoked == [k \in Tokens |-> IF token[k] = "live" THEN "revoked" ELSE token[k]]

(* A role change or a removal, after its own commit.                        *)
SweepTokens ==
    /\ token' = AllRevoked
    /\ history' = history \cup {"excuse"}
    /\ UNCHANGED <<login, stored, access, exchange, call>>

(* POST /auth/logout, which the web client never calls.                     *)
RevokeOne(k) ==
    /\ token[k] = "live"
    /\ token' = [token EXCEPT ![k] = "revoked"]
    /\ history' = history \cup {"excuse"}
    /\ UNCHANGED <<login, stored, access, exchange, call>>

TokenExpires(k) ==
    /\ token[k] \in {"live", "revoked"}
    /\ token' = [token EXCEPT ![k] = "expired"]
    /\ UNCHANGED <<login, stored, access, exchange, call, history>>

(* purge_stale_refresh_tokens, a cron job: rows 30 days past their use,      *)
(* while a token lives 14.                                                  *)
Purge ==
    /\ \E S \in SUBSET {k \in Tokens : token[k] = "expired"} :
          /\ S # {}
          /\ token' = [k \in Tokens |-> IF k \in S THEN "purged" ELSE token[k]]
    /\ UNCHANGED <<login, stored, access, exchange, call, history>>

CallsOf(t) == {c \in Calls : TabOf[c] = t}

(* refreshSession sends the stored token.                                   *)
StartsRefresh(t, k) ==
    /\ exchange' = [exchange EXCEPT ![t] = [NoExchange EXCEPT !.at = "sent", !.kind = "refresh", !.spent = k]]
    /\ history' = IF \E u \in Tabs \ {t} : exchange[u].spent = k THEN history \cup {"excuse"} ELSE history

(***************************************************************************)
(* A login, behind the throttle that RateLimit is about.  A tab at its     *)
(* login form makes no other call: what is under way there, the login or a *)
(* refresh for its replay, is what no call awaits.                         *)
(***************************************************************************)
AtLoginForm(t) == exchange[t] # NoExchange /\ \A c \in CallsOf(t) : call[c].at # "awaiting"

LogIn(t) ==
    /\ exchange[t] = NoExchange
    /\ \A c \in CallsOf(t) : call[c] = Quiet
    /\ exchange' = [exchange EXCEPT ![t] = [NoExchange EXCEPT !.at = "read", !.kind = "login"]]
    /\ UNCHANGED <<token, login, stored, access, call, history>>

(* Refused, by the throttle or for the password.  The latter is a 401 like   *)
(* any other to request: if another tab has stored a token, it refreshes    *)
(* with it and replays the login, which is refused again.                   *)
WrongPassword(t) ==
    LET k == stored[BrowserOf[t]]
    IN  /\ exchange[t].at = "read" /\ exchange[t].kind = "login"
        /\ \/ exchange' = [exchange EXCEPT ![t] = NoExchange] /\ UNCHANGED history
           \/ k # NoToken /\ StartsRefresh(t, k)
        /\ UNCHANGED <<token, login, stored, access, call>>

RightPassword(t, k) ==
    /\ exchange[t].at = "read" /\ exchange[t].kind = "login"
    /\ Fresh(k)
    /\ token' = [token EXCEPT ![k] = "live"]
    /\ login' = [login EXCEPT ![k] = k]
    /\ exchange' = [exchange EXCEPT ![t] = Answer("login", NoToken, k)]
    /\ UNCHANGED <<stored, access, call, history>>

(***************************************************************************)
(* rotate_refresh_token: the row is read, then rotated and committed with  *)
(* the new one.                                                            *)
(***************************************************************************)
Acceptable(k) == token[k] = "live"

ServerReads(t) ==
    LET k == exchange[t].spent
    IN  /\ exchange[t].at = "sent"
        /\ exchange' = [exchange EXCEPT ![t].at = IF Acceptable(k) THEN "read" ELSE "refused"]
        /\ token' = IF token[k] = "revoked" THEN AllRevoked ELSE token
        /\ history' = IF token[k] = "revoked" THEN history \cup {"alarm"} ELSE history
        /\ UNCHANGED <<login, stored, access, call>>

(* Mutant: the predecessor stays valid.                                     *)
ServerIssues(t, k) ==
    LET old == exchange[t].spent
    IN  /\ exchange[t].at = "read" /\ exchange[t].kind = "refresh"
        /\ Fresh(k)
        /\ token' = [token EXCEPT ![k] = "live"]
        /\ login' = [login EXCEPT ![k] = login[old]]
        /\ exchange' = [exchange EXCEPT ![t] = Answer("refresh", old, k)]
        /\ history' = IF Acceptable(old) THEN history ELSE history \cup {"forked"}
        /\ UNCHANGED <<stored, access, call>>

ServerRotates(t, k) ==
    LET old == exchange[t].spent
    IN  /\ exchange[t].at = "read" /\ exchange[t].kind = "refresh"
        /\ Fresh(k)
        /\ token' = [token EXCEPT ![old] = IF Acceptable(old) THEN "revoked" ELSE token[old], ![k] = "live"]
        /\ login' = [login EXCEPT ![k] = login[old]]
        /\ exchange' = [exchange EXCEPT ![t] = Answer("refresh", old, k)]
        /\ history' = IF Acceptable(old) THEN history ELSE history \cup {"forked"}
        /\ UNCHANGED <<stored, access, call>>

(* Any other failure of the endpoint: a status the client takes as a no.    *)
ServerFails(t) ==
    /\ exchange[t].at \in {"sent", "read"} /\ exchange[t].kind = "refresh"
    /\ exchange' = [exchange EXCEPT ![t].at = "refused"]
    /\ UNCHANGED <<token, login, stored, access, call, history>>

(***************************************************************************)
(* The client.  request: a 401 joins the refresh in flight in its tab, or  *)
(* starts one with the stored token.  Reading the store, testing the       *)
(* flight and starting it are one turn of the event loop.                  *)
(***************************************************************************)
SendWithout(c) ==
    /\ call[c] = Quiet
    /\ ~access[TabOf[c]]
    /\ ~AtLoginForm(TabOf[c])
    /\ call' = [call EXCEPT ![c].at = "sent"]
    /\ UNCHANGED <<token, login, stored, access, exchange, history>>

(* A call that fails; for the mount effect's that means clearTokens.        *)
Fail(c) ==
    /\ call' = [call EXCEPT ![c] = Quiet]
    /\ IF call[c].me
       THEN /\ stored' = [stored EXCEPT ![BrowserOf[TabOf[c]]] = NoToken]
            /\ access' = [access EXCEPT ![TabOf[c]] = FALSE]
       ELSE UNCHANGED <<stored, access>>
    /\ UNCHANGED <<token, login, exchange, history>>

(* Mutant: every 401 starts a refresh of its own.                           *)
NeverInFlight(t) == FALSE

InFlight(t) == exchange[t] # NoExchange

(* Mutant: a refresh is sent without looking whether a token is stored.     *)
UnauthorisedAnyway(c) ==
    LET t == TabOf[c]
        k == stored[BrowserOf[t]]
    IN  /\ call[c].at = "sent"
        /\ call' = [call EXCEPT ![c].at = "awaiting"]
        /\ IF InFlight(t) THEN UNCHANGED <<exchange, history>> ELSE StartsRefresh(t, k)
        /\ UNCHANGED <<token, login, stored, access>>

Unauthorised(c) ==
    LET t == TabOf[c]
        k == stored[BrowserOf[t]]
    IN  /\ call[c].at = "sent"
        /\ IF k = NoToken THEN Fail(c)
           ELSE /\ call' = [call EXCEPT ![c].at = "awaiting"]
                /\ IF InFlight(t) THEN UNCHANGED <<exchange, history>> ELSE StartsRefresh(t, k)
                /\ UNCHANGED <<token, login, stored, access>>

(* What the calls that awaited the refresh do next: replay with the new     *)
(* access token, once, or fail.                                             *)
(* Mutant: a refresh that was refused settles nobody.                       *)
SettledByAnswer(t) ==
    [c \in Calls |-> IF exchange[t].at = "answered" /\ c \in CallsOf(t) /\ call[c].at = "awaiting"
                     THEN Quiet ELSE call[c]]

Settled(t) == [c \in Calls |-> IF c \in CallsOf(t) /\ call[c].at = "awaiting" THEN Quiet ELSE call[c]]
MountFails(t) == \E c \in CallsOf(t) : call[c].at = "awaiting" /\ call[c].me

AnswerArrives(t) ==
    LET b == BrowserOf[t]
        ok == exchange[t].at = "answered"
    IN  /\ exchange[t].at \in {"answered", "refused"}
        /\ access' = [access EXCEPT ![t] = ok]
        /\ stored' = [stored EXCEPT ![b] = exchange[t].new]
        /\ call' = Settled(t)
        /\ exchange' = [exchange EXCEPT ![t] = NoExchange]
        /\ UNCHANGED <<token, login, history>>

(* fetch throws: the answer, or the request before it was read, is lost.    *)
(* The tokens stay as they are, unless the mount effect clears them.        *)
AnswerLost(t) ==
    LET b == BrowserOf[t]
    IN  /\ exchange[t].at \in {"sent", "answered", "refused"}
        /\ stored' = IF MountFails(t) THEN [stored EXCEPT ![b] = NoToken] ELSE stored
        /\ access' = [access EXCEPT ![t] = access[t] /\ ~MountFails(t)]
        /\ call' = Settled(t)
        /\ exchange' = [exchange EXCEPT ![t] = NoExchange]
        /\ history' = IF exchange[t].at = "answered" /\ exchange[t].kind = "refresh"
                      THEN history \cup {"excuse"} ELSE history
        /\ UNCHANGED <<token, login>>

AccessExpires(t) ==
    /\ access[t]
    /\ access' = [access EXCEPT ![t] = FALSE]
    /\ UNCHANGED <<token, login, stored, exchange, call, history>>

(* logout in the web client: clearTokens, and nothing on the server.        *)
LogOut(t) ==
    /\ ~AtLoginForm(t)
    /\ stored' = [stored EXCEPT ![BrowserOf[t]] = NoToken]
    /\ access' = [access EXCEPT ![t] = FALSE]
    /\ UNCHANGED <<token, login, exchange, call, history>>

(* A page load: the access token is gone, what was under way is forgotten,  *)
(* and the mount effect asks for /me.  A refresh that is on its way keeps   *)
(* the tab here until its answer, lost or not: a bound.  The calls of a tab  *)
(* differ in nothing, so one of them stands for the mount effect's.         *)
MountCall(t) == CHOOSE c \in CallsOf(t) : TRUE

Load(c) ==
    LET t == TabOf[c]
    IN  /\ c = MountCall(t)
        /\ ~InFlight(t)
        /\ stored[BrowserOf[t]] # NoToken
        /\ access' = [access EXCEPT ![t] = FALSE]
        /\ call' = [d \in Calls |-> IF d = c THEN [at |-> "sent", me |-> TRUE]
                                    ELSE IF TabOf[d] = t THEN Quiet ELSE call[d]]
        /\ UNCHANGED <<token, login, stored, exchange, history>>

ServerStep(t) ==
    ServerReads(t) \/ ServerFails(t) \/ WrongPassword(t) \/ \E k \in Tokens : RightPassword(t, k) \/ ServerRotates(t, k)

Next ==
    \/ \E t \in Tabs : \/ LogIn(t) \/ ServerStep(t) \/ AnswerArrives(t) \/ AnswerLost(t)
                       \/ AccessExpires(t) \/ LogOut(t)
    \/ \E c \in Calls : SendWithout(c) \/ Unauthorised(c) \/ Load(c)
    \/ \E k \in Tokens : RevokeOne(k) \/ TokenExpires(k)
    \/ SweepTokens \/ Purge

Spec == Init /\ [][Next]_vars

(* The server handles what it receives, and the browser what it is answered *)
(* (or that it is not).  Nobody has to log in or to make a call.            *)
FairSpec ==
    /\ Spec
    /\ \A t \in Tabs : WF_vars(ServerStep(t)) /\ WF_vars(AnswerArrives(t) \/ AnswerLost(t))
    /\ \A c \in Calls : WF_vars(Unauthorised(c))

-----------------------------------------------------------------------------
(***************************************************************************)
(* Properties.                                                             *)
(***************************************************************************)

(* Rotation invalidates the predecessor (rotate_refresh_token): of all that *)
(* descends from one login, one token is live, unless a rotation committed  *)
(* over a token that was spent or revoked since read.                        *)
OneLivePerLogin ==
    "forked" \in history
        \/ \A j, k \in Tokens : token[j] = "live" /\ token[k] = "live" /\ login[j] = login[k] => j = k

(* Presenting a revoked token is taken for theft and ends every session of  *)
(* the user.  The client alone never sets this off: collapsing the          *)
(* refreshes of a tab into one suffices, unless two tabs spend the stored   *)
(* token at once, the answer to a rotation is lost, or the token was        *)
(* revoked for another reason.                                              *)
AlarmHasCause == "alarm" \in history => "excuse" \in history

(* Every call that was answered 401 ends, whatever becomes of the refresh   *)
(* that it shares with others (request, refreshSession).                    *)
CallsSettle == \A c \in Calls : call[c].at # "idle" ~> call[c].at = "idle"
=============================================================================

--------------------------- MODULE SessionsProofs ---------------------------
(***************************************************************************)
(* Sessions for any tabs, browsers, calls and bound: its types, that a     *)
(* login has one live token, and what the alarm for a stolen token takes.  *)
(*                                                                         *)
(* The alarm needs an account of who holds which token.  While nothing     *)
(* excuses it, a token is the stored one of one browser, is spent by one   *)
(* tab of that browser, and is revoked only between the answer to its      *)
(* rotation and the arrival of that answer.                                *)
(***************************************************************************)
EXTENDS Sessions, TLAPS

Issued(k) == token[k] # "unissued"

LoginsAreIssued == \A k \in Tokens : Issued(k) => login[k] \in Tokens /\ Issued(login[k])

(* What a browser stores, a refresh spends or an answer brings is a row.    *)
HeldAreIssued ==
    /\ \A b \in Browsers : stored[b] # NoToken => Issued(stored[b])
    /\ \A t \in Tabs : /\ exchange[t].spent # NoToken => Issued(exchange[t].spent)
                       /\ exchange[t].new # NoToken => Issued(exchange[t].new)

Secret(k) ==
    /\ token[k] # "revoked"
    /\ \A b \in Browsers : stored[b] # k
    /\ \A t \in Tabs : exchange[t].spent # k

(* Who holds a token: one browser, one refresh of one of its tabs, or the   *)
(* one answer that brings it.                                               *)
HeldByOne ==
    /\ \A b, c \in Browsers : stored[b] = stored[c] /\ stored[b] # NoToken => b = c
    /\ \A t \in Tabs, b \in Browsers :
          exchange[t].spent = stored[b] /\ stored[b] # NoToken => BrowserOf[t] = b
    /\ \A t, u \in Tabs : exchange[t].spent = exchange[u].spent /\ exchange[t].spent # NoToken => t = u
    /\ \A t \in Tabs : exchange[t].new # NoToken => Secret(exchange[t].new)
    /\ \A t, u \in Tabs : exchange[t].new = exchange[u].new /\ exchange[t].new # NoToken => t = u

(* A revoked token that somebody still holds is on its way to be replaced.  *)
RevokedIsReplaced ==
    \A k \in Tokens : token[k] = "revoked" =>
        /\ \A t \in Tabs : exchange[t].spent = k => exchange[t].at = "answered"
        /\ \A b \in Browsers : stored[b] = k => \E t \in Tabs : exchange[t].spent = k

Unexcused == "excuse" \notin history => HeldByOne /\ RevokedIsReplaced /\ "alarm" \notin history

IInv == TypeOK /\ LoginsAreIssued /\ HeldAreIssued /\ OneLivePerLogin /\ Unexcused

-----------------------------------------------------------------------------
(***************************************************************************)
(* The shapes of an exchange.                                              *)
(***************************************************************************)
LEMMA ZeroIsNoToken == NoToken \notin Tokens
BY DEF NoToken, Tokens

LEMMA ShapeOf ==
    ASSUME NEW x \in Exchange
    PROVE  /\ x.at \in {"none", "sent", "read", "refused", "answered"}
           /\ x.kind \in {"none", "login", "refresh"}
           /\ x.spent \in Tokens \cup {NoToken} /\ x.new \in Tokens \cup {NoToken}
           /\ x.new # NoToken => x.at = "answered"
           /\ x.at \in {"sent", "refused"} => x.kind = "refresh"
           /\ x.at = "answered" => x.kind # "none" /\ x.new \in Tokens
           /\ x.kind = "refresh" => x.spent \in Tokens
           /\ x.kind # "refresh" => x.spent = NoToken
           /\ x.at = "none" => x = NoExchange
           /\ x.at = "read" => x.new = NoToken
           /\ x = [at |-> x.at, kind |-> x.kind, spent |-> x.spent, new |-> x.new]
<1>. HIDE DEF NoToken, Tokens
<1>. QED  BY ZeroIsNoToken DEF Exchange, NoExchange

LEMMA AtLogin ==
    /\ NoExchange \in Exchange
    /\ [NoExchange EXCEPT !.at = "read", !.kind = "login"] \in Exchange
BY DEF Exchange, NoExchange

LEMMA LoginShape ==
    LET x == [NoExchange EXCEPT !.at = "read", !.kind = "login"]
    IN  x.at = "read" /\ x.kind = "login"
BY DEF NoExchange

LEMMA AtRefresh ==
    ASSUME NEW k \in Tokens
    PROVE  [NoExchange EXCEPT !.at = "sent", !.kind = "refresh", !.spent = k] \in Exchange
<1>. HIDE DEF Tokens
<1>. QED  BY DEF Exchange, NoExchange

LEMMA RefreshShape ==
    ASSUME NEW k
    PROVE  LET x == [NoExchange EXCEPT !.at = "sent", !.kind = "refresh", !.spent = k]
           IN  x.spent = k /\ x.new = NoToken
BY DEF NoExchange

LEMMA AtAnswer ==
    ASSUME NEW k \in Tokens
    PROVE  /\ Answer("login", NoToken, k) \in Exchange
           /\ \A j \in Tokens : Answer("refresh", j, k) \in Exchange
<1>. HIDE DEF Tokens
<1>. QED  BY DEF Exchange, Answer

LEMMA AtServer ==
    ASSUME NEW x \in Exchange, x.kind = "refresh", x.at \in {"sent", "read"},
           NEW place \in {"read", "refused"}
    PROVE  [x EXCEPT !.at = place] \in Exchange
<1>. HIDE DEF Tokens, NoToken
<1>1. x = [at |-> x.at, kind |-> x.kind, spent |-> x.spent, new |-> x.new]
  BY ShapeOf
<1>2. x.new = NoToken /\ x.spent \in Tokens
  BY ShapeOf
<1>3. [x EXCEPT !.at = place] = [at |-> place, kind |-> "refresh", spent |-> x.spent, new |-> NoToken]
  BY <1>1, <1>2
<1>. QED  BY <1>2, <1>3 DEF Exchange

-----------------------------------------------------------------------------
(***************************************************************************)
(* Types.                                                                  *)
(***************************************************************************)
LEMMA Served ==
    ASSUME TypeOK, NEW t \in Tabs, exchange[t].kind = "refresh", exchange[t].at \in {"sent", "read"},
           NEW place \in {"read", "refused"}, exchange' = [exchange EXCEPT ![t].at = place]
    PROVE  /\ exchange' = [exchange EXCEPT ![t] = [exchange[t] EXCEPT !.at = place]]
           /\ exchange' \in [Tabs -> Exchange]
<1>. HIDE DEF Tokens, NoToken, Exchange
<1>1. exchange' = [exchange EXCEPT ![t] = [exchange[t] EXCEPT !.at = place]]
  BY DEF TypeOK
<1>2. [exchange[t] EXCEPT !.at = place] \in Exchange
  BY AtServer DEF TypeOK
<1>. QED  BY <1>1, <1>2 DEF TypeOK

LEMMA QuietIsCall == Quiet \in CallState
BY DEF Quiet, CallState

(* Each action's types.                                                     *)
LEMMA TypeInit == Init => TypeOK
<1>. HIDE DEF Exchange
<1>. QED  BY AtLogin, QuietIsCall DEF Init, TypeOK

LEMMA TypeNext ==
    ASSUME TypeOK, Next
    PROVE  TypeOK'
<1>. USE SessionsAssumption DEF TypeOK
<1>. HIDE DEF Exchange, Tokens, NoToken
<1>1. ASSUME NEW t \in Tabs, LogIn(t) PROVE TypeOK'
  BY <1>1, AtLogin DEF LogIn
<1>2. ASSUME NEW t \in Tabs, WrongPassword(t) PROVE TypeOK'
  <2>1. exchange' \in [Tabs -> Exchange] /\ history' \in SUBSET {"excuse", "forked", "alarm"}
    <3>1. CASE exchange' = [exchange EXCEPT ![t] = NoExchange] /\ UNCHANGED history
      BY <3>1, AtLogin
    <3>2. CASE stored[BrowserOf[t]] # NoToken /\ StartsRefresh(t, stored[BrowserOf[t]])
      <4>1. stored[BrowserOf[t]] \in Tokens
        BY <3>2
      <4>. QED  BY <3>2, <4>1, AtRefresh DEF StartsRefresh
    <3>. QED  BY <1>2, <3>1, <3>2 DEF WrongPassword
  <2>. QED  BY <1>2, <2>1 DEF WrongPassword
<1>3. ASSUME NEW t \in Tabs, NEW k \in Tokens, RightPassword(t, k) PROVE TypeOK'
  BY <1>3, AtAnswer DEF RightPassword
<1>4. ASSUME NEW t \in Tabs, ServerReads(t) PROVE TypeOK'
  <2>1. exchange[t].kind = "refresh" /\ exchange[t].at = "sent"
    BY <1>4, ShapeOf DEF ServerReads
  <2>2. PICK place \in {"read", "refused"} : exchange' = [exchange EXCEPT ![t].at = place]
    BY <1>4 DEF ServerReads
  <2>3. exchange' \in [Tabs -> Exchange]
    BY <2>1, <2>2, Served
  <2>4. token' \in [Tokens -> {"unissued", "live", "revoked", "expired", "purged"}]
    BY <1>4 DEF ServerReads, AllRevoked
  <2>. QED  BY <1>4, <2>3, <2>4 DEF ServerReads
<1>5. ASSUME NEW t \in Tabs, NEW k \in Tokens, ServerRotates(t, k) PROVE TypeOK'
  <2>1. exchange[t].spent \in Tokens
    BY <1>5, ShapeOf DEF ServerRotates
  <2>. QED  BY <1>5, <2>1, AtAnswer DEF ServerRotates
<1>6. ASSUME NEW t \in Tabs, ServerFails(t) PROVE TypeOK'
  <2>1. exchange' \in [Tabs -> Exchange]
    BY <1>6, Served DEF ServerFails
  <2>. QED  BY <1>6, <2>1 DEF ServerFails
<1>7. ASSUME NEW t \in Tabs, AnswerArrives(t) PROVE TypeOK'
  <2>1. exchange[t].new \in Tokens \cup {NoToken}
    BY ShapeOf
  <2>. QED  BY <1>7, <2>1, AtLogin, QuietIsCall DEF AnswerArrives, Settled
<1>8. ASSUME NEW t \in Tabs, AnswerLost(t) PROVE TypeOK'
  <2>1. access' \in [Tabs -> BOOLEAN]
    <3>1. (access[t] /\ ~MountFails(t)) \in BOOLEAN
      OBVIOUS
    <3>. QED  BY <1>8, <3>1 DEF AnswerLost
  <2>2. stored' \in [Browsers -> Tokens \cup {NoToken}]
    BY <1>8 DEF AnswerLost
  <2>3. exchange' \in [Tabs -> Exchange] /\ call' \in [Calls -> CallState]
    BY <1>8, AtLogin, QuietIsCall DEF AnswerLost, Settled
  <2>4. history' \in SUBSET {"excuse", "forked", "alarm"} /\ token' = token /\ login' = login
    BY <1>8 DEF AnswerLost
  <2>. QED  BY <2>1, <2>2, <2>3, <2>4
<1>9. ASSUME NEW t \in Tabs, AccessExpires(t) \/ LogOut(t) PROVE TypeOK'
  BY <1>9 DEF AccessExpires, LogOut
<1>10. ASSUME NEW c \in Calls, SendWithout(c) PROVE TypeOK'
  <2>1. call' \in [Calls -> CallState]
    BY <1>10, QuietIsCall DEF SendWithout, CallState
  <2>. QED  BY <1>10, <2>1 DEF SendWithout
<1>11. ASSUME NEW c \in Calls, Unauthorised(c) PROVE TypeOK'
  <2>. DEFINE b == BrowserOf[TabOf[c]]
  <2>1. TabOf[c] \in Tabs /\ b \in Browsers
    OBVIOUS
  <2>2. CASE stored[b] = NoToken
    BY <1>11, <2>1, <2>2, QuietIsCall DEF Unauthorised, Fail
  <2>3. CASE stored[b] # NoToken
    <3>1. call' \in [Calls -> CallState]
      BY <1>11, <2>3 DEF Unauthorised, CallState
    <3>2. exchange' \in [Tabs -> Exchange] /\ history' \in SUBSET {"excuse", "forked", "alarm"}
      <4>1. CASE InFlight(TabOf[c])
        BY <1>11, <2>3, <4>1 DEF Unauthorised
      <4>2. CASE ~InFlight(TabOf[c])
        <5>1. StartsRefresh(TabOf[c], stored[b]) /\ stored[b] \in Tokens
          BY <1>11, <2>1, <2>3, <4>2 DEF Unauthorised
        <5>. QED  BY <2>1, <5>1, AtRefresh DEF StartsRefresh
      <4>. QED  BY <4>1, <4>2
    <3>. QED  BY <1>11, <2>3, <3>1, <3>2 DEF Unauthorised
  <2>. QED  BY <2>2, <2>3
<1>12. ASSUME NEW c \in Calls, Load(c) PROVE TypeOK'
  <2>1. call' \in [Calls -> CallState]
    BY <1>12, QuietIsCall DEF Load, CallState
  <2>. QED  BY <1>12, <2>1 DEF Load
<1>13. ASSUME NEW k \in Tokens, RevokeOne(k) \/ TokenExpires(k) PROVE TypeOK'
  BY <1>13 DEF RevokeOne, TokenExpires
<1>14. ASSUME SweepTokens \/ Purge PROVE TypeOK'
  <2>1. CASE SweepTokens
    BY <2>1 DEF SweepTokens, AllRevoked
  <2>2. CASE Purge
    BY <2>2 DEF Purge
  <2>. QED  BY <1>14, <2>1, <2>2
<1>. QED  BY <1>1, <1>2, <1>3, <1>4, <1>5, <1>6, <1>7, <1>8, <1>9, <1>10, <1>11, <1>12, <1>13, <1>14
             DEF Next, ServerStep

-----------------------------------------------------------------------------
(***************************************************************************)
(* Steps that hand no token to anybody: rows age, a revocation has an      *)
(* excuse, and what is held is held on or let go.  A refresh that is       *)
(* answered with a rotation is not let go without an excuse.               *)
(***************************************************************************)
TokensAge ==
    \A k \in Tokens :
        \/ token'[k] = token[k]
        \/ /\ token[k] # "unissued"
           /\ token'[k] \notin {"unissued", "live"}
           /\ token'[k] = "revoked" => "excuse" \in history'

LetsGo(t) ==
    \/ /\ exchange'[t].spent = exchange[t].spent /\ exchange'[t].new = exchange[t].new
       /\ exchange[t].at = "answered" => exchange'[t].at = "answered"
    \/ /\ exchange'[t].spent = NoToken /\ exchange'[t].new = NoToken
       /\ exchange[t].spent = NoToken \/ exchange[t].at # "answered" \/ "excuse" \in history'

NothingHanded ==
    /\ TokensAge /\ login' = login
    /\ \A b \in Browsers : stored'[b] \in {stored[b], NoToken}
    /\ \A t \in Tabs : LetsGo(t)
    /\ history \subseteq history' /\ ("forked" \in history' => "forked" \in history)
    /\ "alarm" \in history' => "alarm" \in history \/ "excuse" \in history'

LEMMA NothingHandedKeeps ==
    ASSUME IInv, TypeOK', NothingHanded
    PROVE  IInv'
<1>. HIDE DEF Exchange, Tokens, NoToken
<1>. USE ZeroIsNoToken
<1>1. \A k \in Tokens : (Issued(k) => Issued(k)') /\ (token'[k] = "live" => token[k] = "live")
  BY DEF NothingHanded, TokensAge, Issued
<1>2. LoginsAreIssued'
  BY <1>1 DEF IInv, LoginsAreIssued, NothingHanded, TokensAge, Issued
<1>3. HeldAreIssued'
  <2>1. \A b \in Browsers : stored'[b] # NoToken => stored'[b] = stored[b] /\ stored[b] \in Tokens
    BY DEF NothingHanded, IInv, TypeOK
  <2>2. \A t \in Tabs : /\ exchange[t].spent \in Tokens \cup {NoToken}
                        /\ exchange[t].new \in Tokens \cup {NoToken}
    BY ShapeOf DEF IInv, TypeOK
  <2>3. \A t \in Tabs : /\ exchange'[t].spent # NoToken => exchange'[t].spent = exchange[t].spent
                        /\ exchange'[t].new # NoToken => exchange'[t].new = exchange[t].new
    BY DEF NothingHanded, LetsGo
  <2>4. \A b \in Browsers : stored'[b] # NoToken => token'[stored'[b]] # "unissued"
    BY <1>1, <2>1 DEF IInv, HeldAreIssued, Issued
  <2>5. \A t \in Tabs : /\ exchange'[t].spent # NoToken => token'[exchange'[t].spent] # "unissued"
                        /\ exchange'[t].new # NoToken => token'[exchange'[t].new] # "unissued"
    BY <1>1, <2>2, <2>3 DEF IInv, HeldAreIssued, Issued
  <2>. QED  BY <2>4, <2>5 DEF HeldAreIssued, Issued
<1>4. OneLivePerLogin'
  BY <1>1 DEF IInv, OneLivePerLogin, NothingHanded
<1>5. Unexcused'
  <2>. SUFFICES ASSUME "excuse" \notin history' PROVE (HeldByOne /\ RevokedIsReplaced /\ "alarm" \notin history)'
    BY DEF Unexcused
  <2>1. HeldByOne /\ RevokedIsReplaced /\ "alarm" \notin history'
    BY DEF IInv, Unexcused, NothingHanded
  <2>2. \A k \in Tokens : token'[k] = "revoked" => token[k] = "revoked"
    BY DEF NothingHanded, TokensAge
  <2>3. \A b \in Browsers : stored'[b] # NoToken => stored'[b] = stored[b] /\ stored[b] \in Tokens
    BY DEF NothingHanded, IInv, TypeOK
  <2>4. \A t \in Tabs : /\ exchange'[t].spent # NoToken => exchange'[t].spent = exchange[t].spent
                        /\ exchange'[t].new # NoToken => exchange'[t].new = exchange[t].new
                        /\ exchange[t].new \in Tokens \cup {NoToken}
    BY ShapeOf DEF NothingHanded, LetsGo, IInv, TypeOK
  <2>5. HeldByOne'
    <3>1. ASSUME NEW t \in Tabs, exchange'[t].new # NoToken
          PROVE  /\ token'[exchange'[t].new] # "revoked"
                 /\ \A b \in Browsers : stored'[b] # exchange'[t].new
                 /\ \A u \in Tabs : exchange'[u].spent # exchange'[t].new
      <4>1. exchange'[t].new = exchange[t].new /\ exchange[t].new \in Tokens
        BY <3>1, <2>4
      <4>2. Secret(exchange[t].new)
        BY <2>1, <4>1 DEF HeldByOne
      <4>3. token'[exchange'[t].new] # "revoked"
        BY <2>2, <4>1, <4>2 DEF Secret
      <4>4. \A b \in Browsers : stored'[b] # exchange'[t].new
        BY <2>3, <4>1, <4>2 DEF Secret
      <4>5. \A u \in Tabs : exchange'[u].spent # exchange'[t].new
        BY <2>4, <4>1, <4>2 DEF Secret
      <4>. QED  BY <4>3, <4>4, <4>5
    <3>2. \A b, c \in Browsers : stored'[b] = stored'[c] /\ stored'[b] # NoToken => b = c
      BY <2>1, <2>3 DEF HeldByOne
    <3>3. \A t \in Tabs, b \in Browsers :
             exchange'[t].spent = stored'[b] /\ stored'[b] # NoToken => BrowserOf[t] = b
      BY <2>1, <2>3, <2>4 DEF HeldByOne
    <3>4. \A t, u \in Tabs : exchange'[t].spent = exchange'[u].spent /\ exchange'[t].spent # NoToken => t = u
      BY <2>1, <2>4 DEF HeldByOne
    <3>5. \A t, u \in Tabs : exchange'[t].new = exchange'[u].new /\ exchange'[t].new # NoToken => t = u
      BY <2>1, <2>4 DEF HeldByOne
    <3>. QED  BY <3>1, <3>2, <3>3, <3>4, <3>5 DEF HeldByOne, Secret
  <2>6. RevokedIsReplaced'
    <3>. SUFFICES ASSUME NEW k \in Tokens, token'[k] = "revoked"
                  PROVE  /\ \A t \in Tabs : exchange'[t].spent = k => exchange'[t].at = "answered"
                         /\ \A b \in Browsers : stored'[b] = k => \E t \in Tabs : exchange'[t].spent = k
      BY DEF RevokedIsReplaced
    <3>1. \A t \in Tabs : exchange[t].spent = k => exchange[t].at = "answered"
      BY <2>1, <2>2 DEF RevokedIsReplaced
    <3>2. \A t \in Tabs : exchange[t].spent = k => exchange'[t].spent = k /\ exchange'[t].at = "answered"
      BY <3>1 DEF NothingHanded, LetsGo
    <3>3. \A b \in Browsers : stored'[b] = k => \E t \in Tabs : exchange[t].spent = k
      BY <2>1, <2>2, <2>3 DEF RevokedIsReplaced
    <3>. QED  BY <2>4, <3>2, <3>3
  <2>. QED  BY <2>1, <2>5, <2>6
<1>. QED  BY <1>2, <1>3, <1>4, <1>5 DEF IInv

LEMMA QuietSteps ==
    ASSUME IInv, TypeOK',
           \/ \E t \in Tabs : LogIn(t) \/ AccessExpires(t) \/ LogOut(t)
           \/ \E c \in Calls : SendWithout(c) \/ Load(c)
           \/ \E k \in Tokens : RevokeOne(k) \/ TokenExpires(k)
           \/ SweepTokens \/ Purge
    PROVE  IInv'
<1>. HIDE DEF Exchange, Tokens, NoToken
<1>. USE DEF IInv, TypeOK
<1>1. ASSUME NEW t \in Tabs, LogIn(t) PROVE NothingHanded
  <2>1. /\ exchange[t].spent = NoToken /\ exchange[t].new = NoToken
        /\ exchange'[t].spent = NoToken /\ exchange'[t].new = NoToken
    <3>1. exchange[t] \in Exchange /\ exchange'[t] \in Exchange
      OBVIOUS
    <3>2. exchange[t].kind # "refresh" /\ exchange[t].at # "answered"
      BY <1>1 DEF LogIn, NoExchange
    <3>3. exchange'[t].kind # "refresh" /\ exchange'[t].at # "answered"
      BY <1>1, LoginShape DEF LogIn
    <3>. QED  BY <3>1, <3>2, <3>3, ShapeOf
  <2>2. \A u \in Tabs \ {t} : exchange'[u] = exchange[u]
    BY <1>1 DEF LogIn
  <2>3. \A u \in Tabs : LetsGo(u)
    BY <2>1, <2>2 DEF LetsGo
  <2>. QED  BY <1>1, <2>3 DEF LogIn, NothingHanded, TokensAge
<1>2. ASSUME NEW t \in Tabs, AccessExpires(t) \/ LogOut(t) PROVE NothingHanded
  BY <1>2 DEF AccessExpires, LogOut, NothingHanded, TokensAge, LetsGo
<1>3. ASSUME NEW c \in Calls, SendWithout(c) \/ Load(c) PROVE NothingHanded
  BY <1>3 DEF SendWithout, Load, NothingHanded, TokensAge, LetsGo
<1>4. ASSUME NEW k \in Tokens, RevokeOne(k) \/ TokenExpires(k) PROVE NothingHanded
  BY <1>4 DEF RevokeOne, TokenExpires, NothingHanded, TokensAge, LetsGo
<1>5. ASSUME SweepTokens PROVE NothingHanded
  BY <1>5 DEF SweepTokens, AllRevoked, NothingHanded, TokensAge, LetsGo
<1>6. ASSUME Purge PROVE NothingHanded
  BY <1>6 DEF Purge, NothingHanded, TokensAge, LetsGo
<1>. QED  BY <1>1, <1>2, <1>3, <1>4, <1>5, <1>6, NothingHandedKeeps

LEMMA ServerReadsKeeps ==
    ASSUME IInv, TypeOK', NEW t \in Tabs, ServerReads(t)
    PROVE  IInv'
<1>. HIDE DEF Exchange, Tokens, NoToken
<1>. DEFINE k == exchange[t].spent
<1>1. exchange[t].at = "sent" /\ exchange[t].kind = "refresh" /\ k \in Tokens
  BY ShapeOf DEF ServerReads, IInv, TypeOK
<1>2. PICK place \in {"read", "refused"} : exchange' = [exchange EXCEPT ![t].at = place]
  BY DEF ServerReads
<1>3. exchange' = [exchange EXCEPT ![t] = [exchange[t] EXCEPT !.at = place]]
  BY <1>1, <1>2, Served DEF IInv
<1>4. \A u \in Tabs : LetsGo(u)
  BY <1>1, <1>3, ShapeOf DEF LetsGo, IInv, TypeOK
<1>5. "excuse" \notin history => token[k] # "revoked"
  BY <1>1 DEF IInv, Unexcused, RevokedIsReplaced
<1>6. TokensAge /\ ("alarm" \in history' => "alarm" \in history \/ "excuse" \in history')
  <2>1. CASE token[k] = "revoked"
    <3>1. token' = AllRevoked /\ history' = history \cup {"alarm"} /\ "excuse" \in history
      BY <1>5, <2>1 DEF ServerReads
    <3>. QED  BY <3>1 DEF TokensAge, AllRevoked, IInv, TypeOK
  <2>2. CASE token[k] # "revoked"
    BY <2>2 DEF ServerReads, TokensAge
  <2>. QED  BY <2>1, <2>2
<1>7. NothingHanded
  BY <1>4, <1>6 DEF ServerReads, NothingHanded
<1>. QED  BY <1>7, NothingHandedKeeps

LEMMA ServerFailsKeeps ==
    ASSUME IInv, TypeOK', NEW t \in Tabs, ServerFails(t)
    PROVE  IInv'
<1>. HIDE DEF Exchange, Tokens, NoToken
<1>1. exchange' = [exchange EXCEPT ![t] = [exchange[t] EXCEPT !.at = "refused"]]
  BY Served DEF IInv, ServerFails
<1>2. \A u \in Tabs : LetsGo(u)
  BY <1>1, ShapeOf DEF LetsGo, IInv, TypeOK, ServerFails
<1>3. NothingHanded
  BY <1>2 DEF ServerFails, NothingHanded, TokensAge
<1>. QED  BY <1>3, NothingHandedKeeps

LEMMA AnswerLostKeeps ==
    ASSUME IInv, TypeOK', NEW t \in Tabs, AnswerLost(t)
    PROVE  IInv'
<1>. HIDE DEF Exchange, Tokens, NoToken
<1>1. exchange' = [exchange EXCEPT ![t] = NoExchange]
  BY DEF AnswerLost
<1>2. LetsGo(t)
  <2>1. exchange'[t].spent = NoToken /\ exchange'[t].new = NoToken
    BY <1>1 DEF NoExchange, IInv, TypeOK
  <2>2. exchange[t].spent = NoToken \/ exchange[t].at # "answered" \/ exchange[t].kind = "refresh"
    BY ShapeOf DEF IInv, TypeOK
  <2>. QED  BY <2>1, <2>2 DEF LetsGo, AnswerLost
<1>3. \A u \in Tabs \ {t} : LetsGo(u)
  BY <1>1 DEF LetsGo, IInv, TypeOK
<1>4. \A b \in Browsers : stored'[b] \in {stored[b], NoToken}
  BY DEF AnswerLost, IInv, TypeOK
<1>5. NothingHanded
  BY <1>2, <1>3, <1>4 DEF AnswerLost, NothingHanded, TokensAge
<1>. QED  BY <1>5, NothingHandedKeeps

-----------------------------------------------------------------------------
(***************************************************************************)
(* A token is created for a login, or in the place of the one that was     *)
(* spent.                                                                  *)
(***************************************************************************)
LEMMA NewTokenKeeps ==
    ASSUME IInv, TypeOK', NEW t \in Tabs, NEW k \in Tokens, Fresh(k),
           NEW old \in Tokens \cup {NoToken}, NEW kind, NEW l \in Tokens,
           exchange[t].at = "read", exchange[t].spent = old,
           exchange' = [exchange EXCEPT ![t] = Answer(kind, old, k)],
           token'[k] = "live",
           \A j \in Tokens \ {k} : token'[j] = IF j = old /\ token[old] = "live" THEN "revoked" ELSE token[j],
           login' = [login EXCEPT ![k] = l],
           IF old = NoToken THEN l = k ELSE l = login[old],
           history' = IF old \in Tokens /\ token[old] # "live" THEN history \cup {"forked"} ELSE history,
           stored' = stored
    PROVE  IInv'
<1>. HIDE DEF Exchange, Tokens, NoToken
<1>. USE ZeroIsNoToken
<1>1. token[k] = "unissued" /\ k # NoToken
  BY DEF Fresh
<1>2. /\ \A u \in Tabs : exchange[u].spent \in Tokens \cup {NoToken} /\ exchange[u].new \in Tokens \cup {NoToken}
      /\ \A b \in Browsers : stored[b] \in Tokens \cup {NoToken}
      /\ exchange[t].new = NoToken
  BY ShapeOf DEF IInv, TypeOK
<1>3. /\ exchange'[t].at = "answered" /\ exchange'[t].spent = old /\ exchange'[t].new = k
      /\ \A u \in Tabs \ {t} : exchange'[u] = exchange[u]
  BY DEF Answer, IInv, TypeOK
<1>4. /\ old # k
      /\ \A b \in Browsers : stored[b] # k
      /\ \A u \in Tabs : exchange[u].spent # k /\ exchange[u].new # k
  BY <1>1 DEF IInv, HeldAreIssued, Issued
<1>5. \A j \in Tokens : token[j] # "unissued" => j # k /\ token'[j] # "unissued"
  BY <1>1
<1>6. LoginsAreIssued'
  <2>1. l = k \/ token[l] # "unissued"
    BY <1>2 DEF IInv, HeldAreIssued, LoginsAreIssued, Issued
  <2>2. token'[l] # "unissued"
    BY <1>5, <2>1
  <2>3. ASSUME NEW j \in Tokens, token'[j] # "unissued"
        PROVE  login'[j] \in Tokens /\ token'[login'[j]] # "unissued"
    <3>1. CASE j = k
      BY <2>2, <3>1 DEF IInv, TypeOK
    <3>2. CASE j # k
      <4>1. token[j] # "unissued" /\ login'[j] = login[j]
        BY <2>3, <3>2 DEF IInv, TypeOK
      <4>. QED  BY <1>5, <4>1 DEF IInv, LoginsAreIssued, Issued
    <3>. QED  BY <3>1, <3>2
  <2>. QED  BY <2>3 DEF LoginsAreIssued, Issued
<1>7. HeldAreIssued'
  <2>1. \A b \in Browsers : stored[b] # NoToken => token'[stored[b]] # "unissued"
    BY <1>2, <1>5 DEF IInv, HeldAreIssued, Issued
  <2>2. \A u \in Tabs : /\ exchange[u].spent # NoToken => token'[exchange[u].spent] # "unissued"
                        /\ exchange[u].new # NoToken => token'[exchange[u].new] # "unissued"
    BY <1>2, <1>5 DEF IInv, HeldAreIssued, Issued
  <2>3. \A u \in Tabs : /\ exchange'[u].spent # NoToken => token'[exchange'[u].spent] # "unissued"
                        /\ exchange'[u].new # NoToken => token'[exchange'[u].new] # "unissued"
    BY <1>3, <2>2
  <2>. QED  BY <2>1, <2>3 DEF HeldAreIssued, Issued
<1>8. OneLivePerLogin'
  <2>. SUFFICES ASSUME "forked" \notin history', NEW i \in Tokens, NEW j \in Tokens,
                       token'[i] = "live", token'[j] = "live", login'[i] = login'[j]
                PROVE  i = j
    BY DEF OneLivePerLogin
  <2>1. "forked" \notin history /\ (old \in Tokens => token[old] = "live" /\ token'[old] = "revoked")
    BY <1>4
  <2>2. \A n \in Tokens : token'[n] = "live" => n = k \/ (token[n] = "live" /\ n # old)
    BY <2>1
  <2>3. login'[k] = l /\ \A n \in Tokens \ {k} : login'[n] = login[n]
    BY DEF IInv, TypeOK
  <2>4. \A n \in Tokens \ {k} : token'[n] = "live" => login[n] # l
    <3>. SUFFICES ASSUME NEW n \in Tokens \ {k}, token'[n] = "live" PROVE login[n] # l
      OBVIOUS
    <3>1. token[n] = "live" /\ n # old
      BY <2>2
    <3>2. CASE old = NoToken
      BY <1>1, <3>1, <3>2 DEF IInv, LoginsAreIssued, Issued
    <3>3. CASE old \in Tokens
      BY <2>1, <3>1, <3>3 DEF IInv, OneLivePerLogin
    <3>. QED  BY <3>2, <3>3
  <2>. QED  BY <2>1, <2>2, <2>3, <2>4 DEF IInv, OneLivePerLogin
<1>9. Unexcused'
  <2>. SUFFICES ASSUME "excuse" \notin history' PROVE (HeldByOne /\ RevokedIsReplaced /\ "alarm" \notin history)'
    BY DEF Unexcused
  <2>1. HeldByOne /\ RevokedIsReplaced /\ "alarm" \notin history'
    BY DEF IInv, Unexcused
  <2>2. \A u \in Tabs : exchange'[u].spent = exchange[u].spent /\ (u # t => exchange'[u].new = exchange[u].new)
    BY <1>3
  <2>3. HeldByOne'
    <3>1. ASSUME NEW u \in Tabs, exchange'[u].new # NoToken
          PROVE  /\ token'[exchange'[u].new] # "revoked"
                 /\ \A b \in Browsers : stored'[b] # exchange'[u].new
                 /\ \A v \in Tabs : exchange'[v].spent # exchange'[u].new
      <4>1. CASE u = t
        BY <1>3, <1>4, <2>2, <4>1
      <4>2. CASE u # t
        <5>. DEFINE n == exchange[u].new
        <5>1. exchange'[u].new = n /\ n \in Tokens /\ n # k
          BY <1>2, <1>4, <2>2, <3>1, <4>2
        <5>2. Secret(n)
          BY <2>1, <3>1, <5>1 DEF HeldByOne
        <5>3. n # old
          BY <5>2 DEF Secret
        <5>4. token'[n] = token[n]
          BY <5>1, <5>3
        <5>. QED  BY <2>2, <5>1, <5>2, <5>4 DEF Secret
      <4>. QED  BY <4>1, <4>2
    <3>2. \A u, v \in Tabs : exchange'[u].new = exchange'[v].new /\ exchange'[u].new # NoToken => u = v
      BY <1>3, <1>4, <2>1, <2>2 DEF HeldByOne
    <3>. QED  BY <2>1, <2>2, <3>1, <3>2 DEF HeldByOne, Secret
  <2>4. RevokedIsReplaced'
    <3>. SUFFICES ASSUME NEW j \in Tokens, token'[j] = "revoked"
                  PROVE  /\ \A u \in Tabs : exchange'[u].spent = j => exchange'[u].at = "answered"
                         /\ \A b \in Browsers : stored'[b] = j => \E u \in Tabs : exchange'[u].spent = j
      BY DEF RevokedIsReplaced
    <3>1. CASE token[j] = "revoked"
      BY <1>3, <2>1, <2>2, <3>1 DEF RevokedIsReplaced
    <3>2. CASE token[j] # "revoked"
      <4>1. j = old
        BY <3>2
      <4>2. \A u \in Tabs : exchange[u].spent = j => u = t
        BY <2>1, <4>1 DEF HeldByOne
      <4>. QED  BY <1>3, <2>2, <4>1, <4>2
    <3>. QED  BY <3>1, <3>2
  <2>. QED  BY <2>1, <2>3, <2>4
<1>. QED  BY <1>6, <1>7, <1>8, <1>9 DEF IInv

LEMMA LoginAnsweredKeeps ==
    ASSUME IInv, TypeOK', NEW t \in Tabs, NEW k \in Tokens, RightPassword(t, k)
    PROVE  IInv'
<1>. HIDE DEF Exchange, Tokens, NoToken
<1>. USE ZeroIsNoToken
<1>1. exchange[t].at = "read" /\ exchange[t].spent = NoToken
  BY ShapeOf DEF RightPassword, IInv, TypeOK
<1>2. exchange' = [exchange EXCEPT ![t] = Answer("login", NoToken, k)] /\ Fresh(k)
  BY DEF RightPassword
<1>3. \A j \in Tokens \ {k} : token'[j] = IF j = NoToken /\ token[NoToken] = "live" THEN "revoked" ELSE token[j]
  BY DEF RightPassword, IInv, TypeOK
<1>4. /\ token'[k] = "live" /\ login' = [login EXCEPT ![k] = k] /\ stored' = stored
      /\ history' = IF NoToken \in Tokens /\ token[NoToken] # "live" THEN history \cup {"forked"} ELSE history
  BY DEF RightPassword, IInv, TypeOK
<1>5. NoToken \in Tokens \cup {NoToken} /\ (IF NoToken = NoToken THEN k = k ELSE k = login[NoToken])
  OBVIOUS
<1>. QED  BY <1>1, <1>2, <1>3, <1>4, <1>5, NewTokenKeeps

LEMMA RotationKeeps ==
    ASSUME IInv, TypeOK', NEW t \in Tabs, NEW k \in Tokens, ServerRotates(t, k)
    PROVE  IInv'
<1>. HIDE DEF Exchange, Tokens, NoToken
<1>. USE ZeroIsNoToken
<1>. DEFINE old == exchange[t].spent
<1>1. exchange[t].at = "read" /\ old \in Tokens /\ old # NoToken
  BY ShapeOf DEF ServerRotates, IInv, TypeOK
<1>2. exchange' = [exchange EXCEPT ![t] = Answer("refresh", old, k)] /\ Fresh(k) /\ stored' = stored
  BY DEF ServerRotates
<1>3. /\ token'[k] = "live"
      /\ \A j \in Tokens \ {k} : token'[j] = IF j = old /\ token[old] = "live" THEN "revoked" ELSE token[j]
  <2>1. /\ token' = [token EXCEPT ![old] = IF token[old] = "live" THEN "revoked" ELSE token[old], ![k] = "live"]
        /\ DOMAIN token = Tokens
    BY DEF ServerRotates, Acceptable, IInv, TypeOK
  <2>. HIDE DEF old
  <2>. QED  BY <1>1, <2>1
<1>4. login[old] \in Tokens /\ login' = [login EXCEPT ![k] = login[old]]
  BY <1>1 DEF ServerRotates, IInv, HeldAreIssued, LoginsAreIssued
<1>5. history' = IF old \in Tokens /\ token[old] # "live" THEN history \cup {"forked"} ELSE history
  BY <1>1 DEF ServerRotates, Acceptable
<1>. HIDE DEF old
<1>. QED  BY <1>1, <1>2, <1>3, <1>4, <1>5, NewTokenKeeps DEF old

-----------------------------------------------------------------------------
(***************************************************************************)
(* A 401, and the answer to a login or a refresh.                          *)
(***************************************************************************)
LEMMA RefreshStartKeeps ==
    ASSUME IInv, TypeOK', NEW t \in Tabs, exchange[t].spent = NoToken, exchange[t].new = NoToken,
           stored[BrowserOf[t]] # NoToken, StartsRefresh(t, stored[BrowserOf[t]]),
           UNCHANGED <<token, login, stored>>
    PROVE  IInv'
<1>. HIDE DEF Exchange, Tokens, NoToken
<1>. USE ZeroIsNoToken, SessionsAssumption
<1>. DEFINE b == BrowserOf[t]
            k == stored[b]
<1>1. b \in Browsers /\ k \in Tokens
  BY DEF IInv, TypeOK
<1>2. exchange' = [exchange EXCEPT ![t] = [NoExchange EXCEPT !.at = "sent", !.kind = "refresh", !.spent = k]]
  BY DEF StartsRefresh
<1>3. exchange'[t].spent = k /\ exchange'[t].new = NoToken
  BY <1>1, <1>2, RefreshShape DEF IInv, TypeOK
<1>4. \A u \in Tabs \ {t} : exchange'[u] = exchange[u]
  BY <1>2 DEF IInv, TypeOK
<1>5. exchange[t].spent = NoToken /\ exchange[t].new = NoToken
  OBVIOUS
<1>6. LoginsAreIssued' /\ OneLivePerLogin'
  BY DEF LoginsAreIssued, OneLivePerLogin, IInv, Issued, StartsRefresh
<1>7. HeldAreIssued'
  <2>1. \A u \in Tabs : /\ exchange'[u].spent # NoToken => token[exchange'[u].spent] # "unissued"
                        /\ exchange'[u].new # NoToken => token[exchange'[u].new] # "unissued"
    BY <1>1, <1>3, <1>4 DEF IInv, HeldAreIssued, Issued
  <2>. QED  BY <2>1 DEF IInv, HeldAreIssued, Issued
<1>8. Unexcused'
  <2>. SUFFICES ASSUME "excuse" \notin history' PROVE (HeldByOne /\ RevokedIsReplaced /\ "alarm" \notin history)'
    BY DEF Unexcused
  <2>1. /\ HeldByOne /\ RevokedIsReplaced /\ "alarm" \notin history'
        /\ \A u \in Tabs \ {t} : exchange[u].spent # k
    BY DEF IInv, Unexcused, StartsRefresh
  <2>2. \A u \in Tabs : exchange[u].spent # k
    BY <1>1, <1>5, <2>1
  <2>3. token[k] # "revoked"
    BY <1>1, <2>1, <2>2 DEF RevokedIsReplaced
  <2>4. HeldByOne'
    <3>1. ASSUME NEW u \in Tabs, exchange'[u].new # NoToken
          PROVE  /\ token[exchange'[u].new] # "revoked"
                 /\ \A c \in Browsers : stored[c] # exchange'[u].new
                 /\ \A v \in Tabs : exchange'[v].spent # exchange'[u].new
      <4>1. u # t /\ exchange'[u].new = exchange[u].new /\ Secret(exchange[u].new)
        BY <1>3, <1>4, <2>1, <3>1 DEF HeldByOne
      <4>. QED  BY <1>1, <1>3, <1>4, <4>1 DEF Secret
    <3>2. \A u \in Tabs, c \in Browsers :
             exchange'[u].spent = stored[c] /\ stored[c] # NoToken => BrowserOf[u] = c
      BY <1>1, <1>3, <1>4, <2>1 DEF HeldByOne
    <3>3. \A u, v \in Tabs : exchange'[u].spent = exchange'[v].spent /\ exchange'[u].spent # NoToken => u = v
      BY <1>3, <1>4, <2>1, <2>2 DEF HeldByOne
    <3>4. \A u, v \in Tabs : exchange'[u].new = exchange'[v].new /\ exchange'[u].new # NoToken => u = v
      BY <1>3, <1>4, <2>1 DEF HeldByOne
    <3>. QED  BY <2>1, <3>1, <3>2, <3>3, <3>4 DEF HeldByOne, Secret
  <2>5. RevokedIsReplaced'
    <3>. SUFFICES ASSUME NEW j \in Tokens, token[j] = "revoked"
                  PROVE  /\ \A u \in Tabs : exchange'[u].spent = j => exchange'[u].at = "answered"
                         /\ \A c \in Browsers : stored[c] = j => \E u \in Tabs : exchange'[u].spent = j
      BY DEF RevokedIsReplaced
    <3>1. j # k
      BY <2>3
    <3>2. \A c \in Browsers : stored[c] = j => \E u \in Tabs : exchange[u].spent = j /\ u # t
      BY <1>5, <2>1 DEF RevokedIsReplaced
    <3>. QED  BY <1>3, <1>4, <2>1, <3>1, <3>2 DEF RevokedIsReplaced
  <2>. QED  BY <2>1, <2>4, <2>5
<1>. QED  BY <1>6, <1>7, <1>8 DEF IInv

LEMMA WrongPasswordKeeps ==
    ASSUME IInv, TypeOK', NEW t \in Tabs, WrongPassword(t)
    PROVE  IInv'
<1>. HIDE DEF Exchange, Tokens, NoToken
<1>1. exchange[t].spent = NoToken /\ exchange[t].new = NoToken
  BY ShapeOf DEF WrongPassword, IInv, TypeOK
<1>2. CASE exchange' = [exchange EXCEPT ![t] = NoExchange] /\ UNCHANGED history
  <2>1. exchange'[t].spent = NoToken /\ exchange'[t].new = NoToken
    BY <1>2 DEF NoExchange, IInv, TypeOK
  <2>2. \A u \in Tabs : LetsGo(u)
    BY <1>1, <1>2, <2>1 DEF LetsGo, IInv, TypeOK
  <2>3. NothingHanded
    BY <1>2, <2>2 DEF WrongPassword, NothingHanded, TokensAge
  <2>. QED  BY <2>3, NothingHandedKeeps
<1>3. CASE stored[BrowserOf[t]] # NoToken /\ StartsRefresh(t, stored[BrowserOf[t]])
  <2>1. UNCHANGED <<token, login, stored>>
    BY DEF WrongPassword
  <2>. QED  BY <1>1, <1>3, <2>1, RefreshStartKeeps
<1>. QED  BY <1>2, <1>3 DEF WrongPassword

LEMMA UnauthorisedKeeps ==
    ASSUME IInv, TypeOK', NEW c \in Calls, Unauthorised(c)
    PROVE  IInv'
<1>. HIDE DEF Exchange, Tokens, NoToken
<1>. USE SessionsAssumption
<1>. DEFINE t == TabOf[c]
            b == BrowserOf[t]
<1>1. t \in Tabs /\ b \in Browsers
  OBVIOUS
<1>2. CASE stored[b] = NoToken
  <2>1. Fail(c)
    BY <1>2 DEF Unauthorised
  <2>2. NothingHanded
    BY <1>1, <2>1 DEF Fail, NothingHanded, TokensAge, LetsGo, IInv, TypeOK
  <2>. QED  BY <2>2, NothingHandedKeeps
<1>3. CASE stored[b] # NoToken /\ InFlight(t)
  <2>1. UNCHANGED <<token, login, stored, exchange, history>>
    BY <1>3 DEF Unauthorised
  <2>2. NothingHanded
    BY <2>1 DEF NothingHanded, TokensAge, LetsGo
  <2>. QED  BY <2>2, NothingHandedKeeps
<1>4. CASE stored[b] # NoToken /\ ~InFlight(t)
  <2>1. StartsRefresh(t, stored[b]) /\ UNCHANGED <<token, login, stored>>
    BY <1>4 DEF Unauthorised
  <2>2. exchange[t].spent = NoToken /\ exchange[t].new = NoToken
    BY <1>4 DEF InFlight, NoExchange
  <2>. QED  BY <1>1, <1>4, <2>1, <2>2, RefreshStartKeeps
<1>. QED  BY <1>2, <1>3, <1>4

LEMMA AnswerArrivesKeeps ==
    ASSUME IInv, TypeOK', NEW t \in Tabs, AnswerArrives(t)
    PROVE  IInv'
<1>. HIDE DEF Exchange, Tokens, NoToken
<1>. USE ZeroIsNoToken, SessionsAssumption
<1>. DEFINE b == BrowserOf[t]
            k == exchange[t].new
<1>1. b \in Browsers /\ stored' = [stored EXCEPT ![b] = k] /\ UNCHANGED <<token, login, history>>
  BY DEF AnswerArrives
<1>2. stored'[b] = k /\ \A c \in Browsers \ {b} : stored'[c] = stored[c]
  BY <1>1 DEF IInv, TypeOK
<1>3. exchange'[t].spent = NoToken /\ exchange'[t].new = NoToken
  BY DEF AnswerArrives, NoExchange, IInv, TypeOK
<1>4. \A u \in Tabs \ {t} : exchange'[u] = exchange[u]
  BY DEF AnswerArrives, IInv, TypeOK
<1>5. LoginsAreIssued' /\ OneLivePerLogin'
  BY <1>1 DEF LoginsAreIssued, OneLivePerLogin, IInv, Issued
<1>6. HeldAreIssued'
  <2>1. \A c \in Browsers : stored'[c] # NoToken => token[stored'[c]] # "unissued"
    BY <1>2 DEF IInv, HeldAreIssued, Issued
  <2>2. \A u \in Tabs : /\ exchange'[u].spent # NoToken => token[exchange'[u].spent] # "unissued"
                        /\ exchange'[u].new # NoToken => token[exchange'[u].new] # "unissued"
    BY <1>3, <1>4 DEF IInv, HeldAreIssued, Issued
  <2>. QED  BY <1>1, <2>1, <2>2 DEF HeldAreIssued, Issued
<1>7. Unexcused'
  <2>. SUFFICES ASSUME "excuse" \notin history' PROVE (HeldByOne /\ RevokedIsReplaced /\ "alarm" \notin history)'
    BY DEF Unexcused
  <2>1. HeldByOne /\ RevokedIsReplaced /\ "alarm" \notin history'
    BY <1>1 DEF IInv, Unexcused
  <2>2. k # NoToken => Secret(k)
    BY <2>1 DEF HeldByOne
  <2>3. HeldByOne'
    <3>1. ASSUME NEW u \in Tabs, exchange'[u].new # NoToken
          PROVE  /\ token[exchange'[u].new] # "revoked"
                 /\ \A c \in Browsers : stored'[c] # exchange'[u].new
                 /\ \A v \in Tabs : exchange'[v].spent # exchange'[u].new
      <4>. DEFINE n == exchange[u].new
      <4>1. u # t /\ exchange'[u].new = n /\ n # NoToken /\ Secret(n)
        BY <1>3, <1>4, <2>1, <3>1 DEF HeldByOne
      <4>2. n # k
        BY <2>1, <4>1 DEF HeldByOne
      <4>. QED  BY <1>2, <1>3, <1>4, <4>1, <4>2 DEF Secret
    <3>2. \A c, d \in Browsers : stored'[c] = stored'[d] /\ stored'[c] # NoToken => c = d
      BY <1>2, <2>1, <2>2 DEF HeldByOne, Secret
    <3>3. \A u \in Tabs, c \in Browsers :
             exchange'[u].spent = stored'[c] /\ stored'[c] # NoToken => BrowserOf[u] = c
      BY <1>2, <1>3, <1>4, <2>1, <2>2 DEF HeldByOne, Secret
    <3>4. \A u, v \in Tabs : exchange'[u].spent = exchange'[v].spent /\ exchange'[u].spent # NoToken => u = v
      BY <1>3, <1>4, <2>1 DEF HeldByOne
    <3>5. \A u, v \in Tabs : exchange'[u].new = exchange'[v].new /\ exchange'[u].new # NoToken => u = v
      BY <1>3, <1>4, <2>1 DEF HeldByOne
    <3>. QED  BY <1>1, <3>1, <3>2, <3>3, <3>4, <3>5 DEF HeldByOne, Secret
  <2>4. RevokedIsReplaced'
    <3>. SUFFICES ASSUME NEW j \in Tokens, token[j] = "revoked"
                  PROVE  /\ \A u \in Tabs : exchange'[u].spent = j => exchange'[u].at = "answered"
                         /\ \A c \in Browsers : stored'[c] = j => \E u \in Tabs : exchange'[u].spent = j
      BY <1>1 DEF RevokedIsReplaced
    <3>1. \A u \in Tabs : exchange'[u].spent = j => exchange'[u].at = "answered"
      BY <1>3, <1>4, <2>1 DEF RevokedIsReplaced
    <3>2. ASSUME NEW c \in Browsers, stored'[c] = j PROVE \E u \in Tabs : exchange'[u].spent = j
      <4>1. c # b /\ stored[c] = j
        BY <1>2, <2>2, <3>2 DEF Secret
      <4>2. PICK u \in Tabs : exchange[u].spent = j
        BY <2>1, <4>1 DEF RevokedIsReplaced
      <4>3. u # t
        BY <2>1, <4>1, <4>2 DEF HeldByOne
      <4>. QED  BY <1>4, <4>2, <4>3
    <3>. QED  BY <3>1, <3>2
  <2>. QED  BY <2>1, <2>3, <2>4
<1>. QED  BY <1>5, <1>6, <1>7 DEF IInv

-----------------------------------------------------------------------------
LEMMA InitHolds == Init => IInv
<1>. SUFFICES ASSUME Init PROVE IInv
  OBVIOUS
<1>1. TypeOK
  BY TypeInit
<1>2. LoginsAreIssued /\ HeldAreIssued /\ OneLivePerLogin
  BY DEF Init, LoginsAreIssued, HeldAreIssued, OneLivePerLogin, Issued, NoExchange
<1>3. Unexcused
  BY DEF Init, Unexcused, HeldByOne, RevokedIsReplaced, NoExchange
<1>. QED  BY <1>1, <1>2, <1>3 DEF IInv

LEMMA NextKeeps == IInv /\ [Next]_vars => IInv'
<1>. SUFFICES ASSUME IInv, [Next]_vars PROVE IInv'
  OBVIOUS
<1>1. CASE UNCHANGED vars
  BY <1>1 DEF vars, IInv, TypeOK, LoginsAreIssued, HeldAreIssued, OneLivePerLogin, Unexcused,
              HeldByOne, RevokedIsReplaced, Issued, Secret
<1>2. CASE Next
  <2>1. TypeOK'
    BY <1>2, TypeNext DEF IInv
  <2>. QED  BY <1>2, <2>1, QuietSteps, ServerReadsKeeps, ServerFailsKeeps, AnswerLostKeeps, LoginAnsweredKeeps,
               RotationKeeps, WrongPasswordKeeps, UnauthorisedKeeps, AnswerArrivesKeeps DEF Next, ServerStep
<1>. QED  BY <1>1, <1>2

LEMMA InvariantHolds == Spec => []IInv
BY InitHolds, NextKeeps, PTL DEF Spec

(* The rows, the stored tokens and what is under way have their types.      *)
THEOREM SessionsTypeCorrect == Spec => []TypeOK
<1>1. IInv => TypeOK
  BY DEF IInv
<1>. QED  BY <1>1, InvariantHolds, PTL

(* Of what descends from a login one token is live, unless a rotation       *)
(* commits over a token that was spent or revoked since it was read         *)
(* (rotate_refresh_token).                                                  *)
THEOREM RotationReplaces == Spec => []OneLivePerLogin
<1>1. IInv => OneLivePerLogin
  BY DEF IInv
<1>. QED  BY <1>1, InvariantHolds, PTL

(* The alarm for a stolen token is never set off by a client that merely    *)
(* refreshes: it takes two tabs at once, a lost answer to a rotation, or a  *)
(* revocation for another reason (rotate_refresh_token, refreshSession).    *)
THEOREM AlarmsHaveCauses == Spec => []AlarmHasCause
<1>1. IInv => AlarmHasCause
  BY DEF IInv, Unexcused, AlarmHasCause
<1>. QED  BY <1>1, InvariantHolds, PTL
=============================================================================

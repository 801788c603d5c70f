--------------------------- MODULE Session_proofs ---------------------------
(***************************************************************************)
(* Theorems about Session, for any tabs, calls and bounds: types, every    *)
(* refresh token is accounted for, a session ends only for a reason, and   *)
(* the queue of failed calls has a leader.                                 *)
(***************************************************************************)
EXTENDS Session, TLAPS

USE SessionConstants

-----------------------------------------------------------------------------
(* Types.                                                                   *)

LEMMA Constants ==
    /\ NoCookie \in Cookies /\ Idle \in Refreshes /\ Quiet \in Upgrades /\ NoLogout \in Logouts
    /\ NoToken \in Tokens /\ 0 \in Sid
  BY DEF NoCookie, Cookies, Idle, Refreshes, Quiet, Upgrades, NoLogout, Logouts, NoToken, Tokens, Sid, Waiter

LEMMA SettleType ==
    ASSUME TypeOK, NEW C, NEW r \in {"idle", "sent", "leading", "queued", "ok", "failed"}
    PROVE  Settle(C, r) \in [Call -> Calls]
  <1>1. \A c \in Call : [call[c] EXCEPT !.st = IF c \in C THEN r ELSE @] \in Calls
    BY DEF TypeOK, Calls
  <1>2. QED
    BY <1>1 DEF Settle

LEMMA ResendType ==
    ASSUME TypeOK, NEW t, Resend(t)
    PROVE  call' \in [Call -> Calls]
  <1>1. \A c \in Call : call[c] \in Calls /\ [call[c] EXCEPT !.st = "sent", !.fresh = TRUE] \in Calls
    BY DEF TypeOK, Calls
  <1>2. QED
    BY <1>1 DEF Resend

LEMMA JoinType ==
    ASSUME TypeOK, NEW t \in Tab, NEW w \in Waiter, Join(t, w)
    PROVE  refresh' \in [Tab -> Refreshes]
  <1> DEFINE new    == [st |-> "sent", cookie |-> cookie, for |-> {w}]
             shared == [refresh[t] EXCEPT !.for = refresh[t].for \cup {w}]
  <1>1. refresh[t] \in Refreshes /\ cookie \in Cookies
    BY DEF TypeOK
  <1>2. new \in Refreshes
    BY <1>1 DEF Refreshes
  <1>3. shared \in Refreshes
    BY <1>1 DEF Refreshes
  <1>4. refresh' = [refresh EXCEPT ![t] = IF refresh[t].st = "none" THEN new ELSE shared]
    BY DEF Join
  <1> HIDE DEF new, shared
  <1>5. QED
    BY <1>2, <1>3, <1>4 DEF TypeOK

LEMMA SpendType == TypeOK /\ Spend => budget' \in Nat
  BY DEF TypeOK, Spend

LEMMA ClearType ==
    ASSUME TypeOK, NEW t \in Tab, Clear(t)
    PROVE  /\ token' \in [Tab -> Tokens]
           /\ role' \in BOOLEAN /\ legacy' \in {"none", "good", "stale"}
  BY Constants DEF TypeOK, Clear

LEMMA GiveUpType ==
    ASSUME TypeOK, NEW t \in Tab, NEW W, GiveUp(t, W)
    PROVE  /\ token' \in [Tab -> Tokens]
           /\ role' \in BOOLEAN /\ legacy' \in {"none", "good", "stale"}
           /\ refreshing' \in [Tab -> BOOLEAN] /\ call' \in [Call -> Calls]
           /\ page' \in [Tab -> Pages] /\ checked' \in [Tab -> BOOLEAN]
           /\ logout' \in [Tab -> Logouts]
  <1>1. Clear(t)
    BY DEF GiveUp
  <1>2. refreshing' \in [Tab -> BOOLEAN] /\ checked' \in [Tab -> BOOLEAN]
    BY DEF GiveUp, Freed, TypeOK
  <1>3. call' \in [Call -> Calls]
    BY SettleType DEF TypeOK, GiveUp, Reject
  <1>4. page' \in [Tab -> Pages]
    BY DEF GiveUp, Landing, TypeOK, Pages
  <1>5. logout' \in [Tab -> Logouts]
    BY Constants DEF TypeOK, GiveUp
  <1>6. QED
    BY <1>1, <1>2, <1>3, <1>4, <1>5, ClearType

LEMMA InitType == Init => TypeOK
  <1> SUFFICES ASSUME Init PROVE TypeOK
    OBVIOUS
  <1>1. call \in [Call -> Calls]
    BY DEF Init, Calls
  <1>2. page \in [Tab -> Pages]
    BY DEF Init, Pages
  <1>3. token \in [Tab -> Tokens] /\ login \in [Tab -> Sid] /\ cookie \in Cookies
    BY Constants DEF Init
  <1>4. refresh \in [Tab -> Refreshes] /\ upgrade \in [Tab -> Upgrades] /\ logout \in [Tab -> Logouts]
    BY Constants DEF Init
  <1>5. cur \in [1 .. MaxSession -> Nat] /\ made \in Sid
    BY DEF Init, Sid
  <1>6. /\ role \in BOOLEAN /\ legacy \in {"none", "good", "stale"} /\ budget \in Nat /\ issued \in Nat
        /\ revoked \subseteq Nat /\ aged \subseteq Nat /\ lapsed \subseteq Sid
        /\ checked \in [Tab -> BOOLEAN] /\ refreshing \in [Tab -> BOOLEAN]
    BY DEF Init
  <1>7. \A t \in Tab : upgrade[t].st # "ok"
    BY DEF Init, Quiet
  <1>8. QED
    BY <1>1, <1>2, <1>3, <1>4, <1>5, <1>6, <1>7 DEF TypeOK

\* The service.
LEMMA ServerType ==
    ASSUME TypeOK, NEW t \in Tab, RefreshRead(t) \/ RefreshWrite(t) \/ UpgradeServe(t) \/ SignOutServe(t)
    PROVE  TypeOK'
  <1>1. /\ refresh[t] \in Refreshes /\ refresh[t].cookie \in Cookies /\ refresh[t].cookie.sid \in Sid
        /\ refresh[t].cookie.jti \in Nat
    BY DEF TypeOK, Refreshes, Cookies
  <1>2. Row(refresh[t].cookie) \in Nat
    BY <1>1 DEF Row, Sid, TypeOK
  <1>3. \A S : Ended(S) \in [1 .. MaxSession -> Nat]
    BY DEF Ended, TypeOK
  <1>4. CASE RefreshRead(t)
    <2>1. /\ [refresh[t].cookie EXCEPT !.jti = Row(refresh[t].cookie)] \in Cookies
      BY <1>1, <1>2 DEF Cookies
    <2>2. \A st \in {"ok", "refused", "read"}, k \in Cookies :
            [refresh[t] EXCEPT !.st = st, !.cookie = k] \in Refreshes
      BY <1>1 DEF Refreshes
    <2>3. PICK st \in {"ok", "refused", "read"}, k \in Cookies :
            refresh' = [refresh EXCEPT ![t].st = st, ![t].cookie = k]
      BY <1>1, <1>4, <2>1 DEF RefreshRead
    <2>4. refresh' \in [Tab -> Refreshes]
      <3>1. refresh' = [refresh EXCEPT ![t] = [refresh[t] EXCEPT !.st = st, !.cookie = k]]
        BY <2>3 DEF TypeOK
      <3>2. QED
        BY <2>2, <3>1 DEF TypeOK
    <2>5. cur' \in [1 .. MaxSession -> Nat]
      BY <1>3, <1>4 DEF RefreshRead, TypeOK
    <2>6. QED
      BY <1>4, <2>4, <2>5 DEF TypeOK, RefreshRead, browser
  <1>5. CASE RefreshWrite(t)
    <2>1. [refresh[t] EXCEPT !.st = "error"] \in Refreshes
      BY <1>1 DEF Refreshes
    <2>2. [refresh[t] EXCEPT !.st = "ok", !.cookie.jti = issued + 1] \in Refreshes
      <3>1. [refresh[t].cookie EXCEPT !.jti = issued + 1] \in Cookies
        BY <1>1 DEF Cookies, TypeOK
      <3>2. QED
        BY <1>1, <3>1 DEF Refreshes
    <2>3. refresh' \in [Tab -> Refreshes]
      BY <1>5, <2>1, <2>2 DEF TypeOK, RefreshWrite
    <2>4. cur' \in [1 .. MaxSession -> Nat] /\ issued' \in Nat /\ revoked' \subseteq Nat
      BY <1>1, <1>5 DEF RefreshWrite, Revoked, TypeOK
    <2>5. QED
      BY <1>5, <2>3, <2>4 DEF TypeOK, RefreshWrite, browser
  <1>6. CASE UpgradeServe(t)
    <2>1. upgrade[t] \in Upgrades
      BY DEF TypeOK
    <2>2. [upgrade[t] EXCEPT !.st = "failed"] \in Upgrades
      BY <2>1 DEF Upgrades
    <2>3. made < MaxSession => [upgrade[t] EXCEPT !.st = "ok", !.sid = made + 1] \in Upgrades
      <3>1. made < MaxSession => made + 1 \in Sid
        BY DEF Sid, TypeOK
      <3>2. QED
        BY <2>1, <3>1 DEF Upgrades
    <2>4. upgrade' \in [Tab -> Upgrades]
      BY <1>6, <2>2, <2>3 DEF TypeOK, UpgradeServe, NewSession
    <2>5. cur' \in [1 .. MaxSession -> Nat] /\ made' \in Sid /\ issued' \in Nat
          /\ UNCHANGED <<revoked, aged, lapsed>>
      BY <1>6 DEF UpgradeServe, NewSession, server, TypeOK, Sid
    <2> \A x \in Tab : upgrade'[x].st = "ok" => upgrade'[x].sid # 0
      <3>1. upgrade'[t].st = "ok" => upgrade'[t].sid = made + 1
        BY <1>6, <2>1 DEF UpgradeServe, TypeOK, Upgrades
      <3>2. \A x \in Tab : x # t => upgrade'[x] = upgrade[x]
        BY <1>6 DEF UpgradeServe, TypeOK
      <3>3. made + 1 # 0
        BY DEF TypeOK, Sid
      <3>4. QED
        BY <3>1, <3>2, <3>3 DEF TypeOK
    <2>6. QED
      BY <1>6, <2>4, <2>5 DEF TypeOK, UpgradeServe, browser
  <1>7. CASE SignOutServe(t)
    <2>1. [logout[t] EXCEPT !.st = "ok"] \in Logouts
      BY DEF TypeOK, Logouts
    <2>2. logout' \in [Tab -> Logouts]
      BY <1>7, <2>1 DEF TypeOK, SignOutServe
    <2>3. cur' \in [1 .. MaxSession -> Nat]
      BY <1>3, <1>7 DEF SignOutServe
    <2>4. QED
      BY <1>7, <2>2, <2>3 DEF TypeOK, SignOutServe, browser, mutex
  <1>8. QED
    BY <1>4, <1>5, <1>6, <1>7

\* The promise settles, or its request is lost.
LEMMA OutcomeType ==
    ASSUME TypeOK, NEW t \in Tab,
           RefreshAnswer(t) \/ RefreshFail(t) \/ RefreshLost(t) \/ UpgradeAnswer(t)
    PROVE  TypeOK'
  <1>1. /\ refresh[t] \in Refreshes /\ refresh[t].cookie \in Cookies /\ refresh[t].for \subseteq Waiter
        /\ refresh[t].cookie.sid \in Sid
    BY DEF TypeOK, Refreshes, Cookies
  <1>2. /\ upgrade[t] \in Upgrades /\ upgrade[t].sid \in Sid
    BY DEF TypeOK, Upgrades
  <1>3. CASE RefreshAnswer(t)
    <2>1. cookie' \in Cookies /\ role' \in BOOLEAN /\ refresh' \in [Tab -> Refreshes]
      BY <1>1, <1>3, Constants DEF RefreshAnswer, TypeOK
    <2>2. token' \in [Tab -> Tokens]
      <3>1. [sid |-> refresh[t].cookie.sid, fresh |-> TRUE] \in Tokens
        BY <1>1 DEF Tokens
      <3>2. QED
        BY <1>3, <3>1 DEF RefreshAnswer, TypeOK
    <2>3. call' \in [Call -> Calls]
      BY <1>3, ResendType DEF RefreshAnswer, TypeOK
    <2>4. refreshing' \in [Tab -> BOOLEAN] /\ page' \in [Tab -> Pages]
      BY <1>3 DEF RefreshAnswer, Freed, TypeOK, Pages
    <2>5. UNCHANGED <<server, legacy, checked, upgrade, login, logout, budget>>
      BY <1>3 DEF RefreshAnswer
    <2>6. QED
      BY <2>1, <2>2, <2>3, <2>4, <2>5 DEF TypeOK, server
  <1>4. CASE RefreshFail(t)
    <2>1. refresh' \in [Tab -> Refreshes] /\ UNCHANGED <<server, cookie, login, budget>>
      BY <1>4, Constants DEF RefreshFail, TypeOK
    <2>2. CASE GiveUp(t, refresh[t].for) /\ UNCHANGED upgrade
      BY <2>1, <2>2, GiveUpType DEF TypeOK, server
    <2>3. CASE /\ upgrade' = [upgrade EXCEPT ![t] =
                               [st |-> "sent", sid |-> 0, good |-> legacy = "good", for |-> refresh[t].for \ {"signin"}]]
               /\ UNCHANGED <<role, legacy, token, page, checked, refreshing, logout, call>>
      <3>1. [st |-> "sent", sid |-> 0, good |-> legacy = "good", for |-> refresh[t].for \ {"signin"}] \in Upgrades
        BY <1>1, Constants DEF Upgrades
      <3>2. upgrade' \in [Tab -> Upgrades] /\ \A x \in Tab : upgrade'[x].st = "ok" => upgrade'[x].sid # 0
        BY <2>3, <3>1 DEF TypeOK
      <3>3. QED
        BY <2>1, <2>3, <3>2 DEF TypeOK, server
    <2>4. QED
      BY <1>4, <2>2, <2>3 DEF RefreshFail
  <1>5. CASE RefreshLost(t)
    <2>1. [refresh[t] EXCEPT !.st = "error"] \in Refreshes
      BY <1>1 DEF Refreshes
    <2>2. refresh' \in [Tab -> Refreshes] /\ budget' \in Nat
      BY <1>5, <2>1, SpendType DEF RefreshLost, TypeOK
    <2>3. QED
      BY <1>5, <2>2 DEF RefreshLost, TypeOK, server, browser
  <1>6. CASE UpgradeAnswer(t)
    <2>1. upgrade' \in [Tab -> Upgrades] /\ UNCHANGED <<server, refresh, login, budget>>
      BY <1>6, Constants DEF UpgradeAnswer, TypeOK
    <2> \A x \in Tab : upgrade'[x].st = "ok" => upgrade'[x].sid # 0
      BY <1>6 DEF UpgradeAnswer, TypeOK, Quiet
    <2>2. CASE GiveUp(t, upgrade[t].for) /\ UNCHANGED cookie
      BY <2>1, <2>2, GiveUpType DEF TypeOK, server
    <2>3. CASE upgrade[t].st = "ok"
      <3>1. UNCHANGED <<checked, logout>> /\ legacy' = "none" /\ role' \in BOOLEAN
        BY <1>6, <2>3 DEF UpgradeAnswer, TypeOK
      <3>2. token' \in [Tab -> Tokens]
        <4>1. [sid |-> upgrade[t].sid, fresh |-> TRUE] \in Tokens
          BY <1>2 DEF Tokens
        <4>2. token' = [token EXCEPT ![t] = [sid |-> upgrade[t].sid, fresh |-> TRUE]]
          BY <1>6, <2>3 DEF UpgradeAnswer
        <4>3. QED
          BY <4>1, <4>2 DEF TypeOK
      <3>3. call' \in [Call -> Calls]
        BY <1>6, <2>3, ResendType DEF UpgradeAnswer, TypeOK
      <3>4. refreshing' \in [Tab -> BOOLEAN] /\ page' \in [Tab -> Pages]
        <4>1. /\ refreshing' = [refreshing EXCEPT ![t] = Freed(t, upgrade[t].for)]
              /\ page' \in {page, [page EXCEPT ![t] = "app"]}
          <5> DEFINE verified == "verify" \in upgrade[t].for /\ page[t] = "checking"
          <5>1. /\ refreshing' = [refreshing EXCEPT ![t] = Freed(t, upgrade[t].for)]
                /\ page' = [page EXCEPT ![t] = IF verified THEN "app" ELSE page[t]]
            BY <1>6, <2>3 DEF UpgradeAnswer
          <5>2. [page EXCEPT ![t] = page[t]] = page
            BY DEF TypeOK
          <5> HIDE DEF verified
          <5>3. QED
            BY <5>1, <5>2
        <4>2. refreshing' \in [Tab -> BOOLEAN]
          <5>1. Freed(t, upgrade[t].for) \in BOOLEAN
            BY DEF Freed
          <5>2. refreshing' = [refreshing EXCEPT ![t] = Freed(t, upgrade[t].for)]
            BY <4>1
          <5>3. QED
            BY <5>1, <5>2 DEF TypeOK
        <4>3. page' \in [Tab -> Pages]
          <5>1. [page EXCEPT ![t] = "app"] \in [Tab -> Pages] /\ page \in [Tab -> Pages]
            BY DEF TypeOK, Pages
          <5>2. QED
            BY <4>1, <5>1
        <4>4. QED
          BY <4>2, <4>3
      <3>5. cookie' \in Cookies
        <4>1. cur[upgrade[t].sid] \in Nat
          BY <1>2, <2>3 DEF TypeOK, Sid
        <4>2. QED
          BY <1>2, <1>6, <2>3, <4>1 DEF UpgradeAnswer, Cookies
      <3>6. QED
        BY <2>1, <3>1, <3>2, <3>3, <3>4, <3>5 DEF TypeOK, server
    <2>4. QED
      BY <1>6, <2>2, <2>3 DEF UpgradeAnswer
  <1>7. QED
    BY <1>3, <1>4, <1>5, <1>6

\* The calls of the pages.
LEMMA CallType ==
    ASSUME TypeOK, NEW c \in Call, Send(c) \/ Served(c) \/ Unauthorized(c) \/ Broken(c)
    PROVE  TypeOK'
  <1>1. call[c] \in Calls /\ Owner[c] \in Tab
    BY DEF TypeOK
  <1>2. UNCHANGED <<server, browser, token, page, checked, upgrade, login, logout>> /\ budget' \in Nat
    BY SpendType DEF Send, Served, Unauthorized, Broken, mutex, TypeOK
  <1>3. refreshing' \in [Tab -> BOOLEAN] /\ refresh' \in [Tab -> Refreshes]
    <2>1. CASE Unauthorized(c)
      BY <1>1, <2>1, JoinType DEF Unauthorized, TypeOK, Waiter
    <2>2. CASE Send(c) \/ Served(c) \/ Broken(c)
      BY <2>2 DEF Send, Served, Broken, mutex, TypeOK
    <2>3. QED
      BY <2>1, <2>2
  <1>4. call' \in [Call -> Calls]
    <2>1. CASE Send(c)
      <3>1. Fresh(Owner[c]) \in BOOLEAN
        BY <1>1 DEF Fresh, TypeOK, Tokens
      <3>2. [st |-> "sent", retry |-> FALSE, fresh |-> Fresh(Owner[c])] \in Calls
        BY <3>1 DEF Calls
      <3>3. QED
        BY <2>1, <3>2 DEF Send, TypeOK
    <2>2. \A st \in {"ok", "failed", "queued"} : [call[c] EXCEPT !.st = st] \in Calls
      BY <1>1 DEF Calls
    <2>3. [call[c] EXCEPT !.st = "leading", !.retry = TRUE] \in Calls
      BY <1>1 DEF Calls
    <2>4. CASE Served(c) \/ Unauthorized(c) \/ Broken(c)
      <3>1. CASE \E st \in {"ok", "failed", "queued"} : call' = [call EXCEPT ![c].st = st]
        BY <2>2, <3>1 DEF TypeOK
      <3>2. CASE call' = [call EXCEPT ![c].st = "leading", ![c].retry = TRUE]
        <4>1. call' = [call EXCEPT ![c] = [call[c] EXCEPT !.st = "leading", !.retry = TRUE]]
          BY <3>2 DEF TypeOK
        <4>2. QED
          BY <2>3, <4>1 DEF TypeOK
      <3>3. QED
        BY <2>4, <3>1, <3>2 DEF Served, Unauthorized, Broken
    <2>5. QED
      BY <2>1, <2>4
  <1>5. QED
    BY <1>2, <1>3, <1>4 DEF TypeOK, server, browser

\* The guard, the login form, sign-out, the document.
LEMMA PageType ==
    ASSUME TypeOK, NEW t \in Tab,
           \/ Verify(t) \/ Revisit(t) \/ CheckActiveSession(t) \/ SignIn(t) \/ SignInAnswer(t)
           \/ SignOut(t) \/ SignOutLost(t) \/ SignOutAnswer(t) \/ Reload(t) \/ Expire(t)
    PROVE  TypeOK'
  <1>0. CASE Revisit(t)
    BY <1>0, GiveUpType DEF Revisit, Disown, TypeOK, server
  <1>1. CASE Verify(t)
    <2>1. UNCHANGED <<server, cookie, upgrade, login, budget>>
      BY <1>1 DEF Verify
    <2>2. CASE GiveUp(t, {"verify"}) /\ UNCHANGED refresh
      BY <2>1, <2>2, GiveUpType DEF TypeOK, server
    <2>3. "verify" \in Waiter /\ "app" \in Pages
      BY DEF Waiter, Pages
    <2>4. CASE /\ token[t] = NoToken /\ Join(t, "verify")
               /\ UNCHANGED <<role, legacy, token, page, checked, refreshing, logout, call>>
      <3>1. refresh' \in [Tab -> Refreshes]
        BY <2>3, <2>4, JoinType
      <3>2. QED
        BY <2>1, <2>4, <3>1 DEF TypeOK, server
    <2>5. CASE /\ page' = [page EXCEPT ![t] = "app"]
               /\ UNCHANGED <<role, legacy, token, checked, refreshing, refresh, logout, call>>
      <3>1. page' \in [Tab -> Pages]
        BY <2>3, <2>5 DEF TypeOK
      <3>2. QED
        BY <2>1, <2>5, <3>1 DEF TypeOK, server
    <2>6. QED
      BY <1>1, <2>2, <2>4, <2>5 DEF Verify, Disown
  <1>2. CASE CheckActiveSession(t)
    <2>1. refresh' \in [Tab -> Refreshes]
      BY <1>2, JoinType DEF CheckActiveSession, TypeOK, Waiter
    <2>2. checked' \in [Tab -> BOOLEAN]
      BY <1>2 DEF CheckActiveSession, TypeOK
    <2>3. QED
      BY <1>2, <2>1, <2>2 DEF CheckActiveSession, TypeOK, server, browser
  <1>3. CASE SignIn(t)
    <2>1. /\ cur' \in [1 .. MaxSession -> Nat] /\ made' \in Sid /\ issued' \in Nat
          /\ UNCHANGED <<revoked, aged, lapsed>> /\ login' \in [Tab -> Sid]
      BY <1>3 DEF SignIn, NewSession, TypeOK, Sid
    <2>2. QED
      BY <1>3, <2>1 DEF SignIn, TypeOK, browser, mutex
  <1>4. CASE SignInAnswer(t)
    <2>1. login[t] \in Sid /\ login[t] # 0 /\ cur[login[t]] \in Nat
      BY <1>4 DEF SignInAnswer, TypeOK, Sid
    <2>2. cookie' \in Cookies
      BY <1>4, <2>1 DEF SignInAnswer, Cookies
    <2>3. token' \in [Tab -> Tokens]
      <3>1. [sid |-> login[t], fresh |-> TRUE] \in Tokens
        BY <2>1 DEF Tokens
      <3>2. QED
        BY <1>4, <3>1 DEF SignInAnswer, TypeOK
    <2>4. page' \in [Tab -> Pages] /\ login' \in [Tab -> Sid] /\ role' \in BOOLEAN
      BY <1>4, Constants DEF SignInAnswer, TypeOK, Pages
    <2>5. QED
      BY <1>4, <2>2, <2>3, <2>4 DEF SignInAnswer, TypeOK, server, mutex
  <1>5. CASE SignOut(t)
    <2>1. [st |-> "sent", sids |-> LoggedOut(t) \ {0}] \in Logouts
      BY DEF LoggedOut, TypeOK, Logouts, Cookies, Tokens
    <2>2. logout' \in [Tab -> Logouts]
      BY <1>5, <2>1 DEF SignOut, TypeOK
    <2>3. QED
      BY <1>5, <2>2 DEF SignOut, TypeOK, server, browser, mutex
  <1>6. CASE SignOutLost(t)
    <2>1. [logout[t] EXCEPT !.st = "lost"] \in Logouts
      BY DEF TypeOK, Logouts
    <2>2. logout' \in [Tab -> Logouts] /\ budget' \in Nat
      BY <1>6, <2>1, SpendType DEF SignOutLost, TypeOK
    <2>3. QED
      BY <1>6, <2>2 DEF SignOutLost, TypeOK, server, browser, mutex
  <1>7. CASE SignOutAnswer(t)
    <2>1. /\ token' \in [Tab -> Tokens] /\ role' \in BOOLEAN
          /\ legacy' \in {"none", "good", "stale"}
      BY <1>7, ClearType DEF SignOutAnswer
    <2>2. cookie' \in Cookies /\ logout' \in [Tab -> Logouts]
      BY <1>7, Constants DEF SignOutAnswer, TypeOK
    <2>3. page' \in [Tab -> Pages] /\ checked' \in [Tab -> BOOLEAN]
      BY <1>7 DEF SignOutAnswer, TypeOK, Pages
    <2>4. QED
      BY <1>7, <2>1, <2>2, <2>3 DEF SignOutAnswer, TypeOK, server, mutex
  <1>8. CASE Reload(t)
    <2>1. call' \in [Call -> Calls]
      BY <1>8, SettleType DEF Reload
    <2>2. page' \in [Tab -> Pages] /\ checked' \in [Tab -> BOOLEAN] /\ refreshing' \in [Tab -> BOOLEAN]
          /\ budget' \in Nat
      BY <1>8, SpendType DEF Reload, TypeOK, Pages
    <2>3. /\ token' \in [Tab -> Tokens] /\ refresh' \in [Tab -> Refreshes]
          /\ upgrade' \in [Tab -> Upgrades]
          /\ login' \in [Tab -> Sid] /\ logout' \in [Tab -> Logouts]
      BY <1>8, Constants DEF Reload, TypeOK
    <2>4. \A x \in Tab : upgrade'[x].st = "ok" => upgrade'[x].sid # 0
      BY <1>8 DEF Reload, TypeOK, Quiet
    <2>5. QED
      BY <1>8, <2>1, <2>2, <2>3, <2>4 DEF Reload, TypeOK, server, browser
  <1>9. CASE Expire(t)
    <2>1. \A c \in Call : [call[c] EXCEPT !.fresh = @ /\ c \notin CallsOf(t)] \in Calls
      <3>1. \A c \in Call : call[c] \in Calls /\ call[c].fresh \in BOOLEAN
        BY DEF TypeOK, Calls
      <3>2. \A c \in Call : (call[c].fresh /\ c \notin CallsOf(t)) \in BOOLEAN
        OBVIOUS
      <3>3. \A k \in Calls, b \in BOOLEAN : [k EXCEPT !.fresh = b] \in Calls
        BY DEF Calls
      <3>4. QED
        BY <3>1, <3>2, <3>3
    <2>2. call' \in [Call -> Calls]
      BY <1>9, <2>1 DEF Expire
    <2>3. [token[t] EXCEPT !.fresh = FALSE] \in Tokens
      BY DEF TypeOK, Tokens
    <2>4. token' \in [Tab -> Tokens] /\ budget' \in Nat
      BY <1>9, <2>3, SpendType DEF Expire, TypeOK
    <2>5. QED
      BY <1>9, <2>2, <2>4 DEF Expire, TypeOK, server, browser, mutex
  <1>10. QED
    BY <1>0, <1>1, <1>2, <1>3, <1>4, <1>5, <1>6, <1>7, <1>8, <1>9

LEMMA TimeType ==
    ASSUME TypeOK, Time
    PROVE  TypeOK'
  <1>1. CASE \E j \in revoked : Age(j)
    <2>1. /\ revoked' \subseteq Nat /\ aged' \subseteq Nat /\ budget' \in Nat
      BY <1>1, SpendType DEF Age, TypeOK
    <2>2. UNCHANGED <<cur, made, issued, lapsed, browser, token, page, checked, mutex,
                      login, logout, call>>
      BY <1>1 DEF Age
    <2>3. QED
      BY <2>1, <2>2 DEF TypeOK, browser, mutex
  <1>2. CASE \E s \in 1 .. MaxSession : Lapse(s)
    <2>1. /\ lapsed' \subseteq Sid /\ budget' \in Nat
      BY <1>2, SpendType DEF Lapse, TypeOK, Sid
    <2>2. UNCHANGED <<cur, made, issued, revoked, aged, browser, token, page, checked,
                      mutex, login, logout, call>>
      BY <1>2 DEF Lapse
    <2>3. QED
      BY <2>1, <2>2 DEF TypeOK, browser, mutex
  <1>3. QED
    BY <1>1, <1>2 DEF Time

LEMMA StepType == TypeOK /\ [Next]_vars => TypeOK'
  <1> SUFFICES ASSUME TypeOK, [Next]_vars PROVE TypeOK'
    OBVIOUS
  <1>1. ASSUME NEW t \in Tab, Progress(t) \/ User(t) \/ Faults(t) PROVE TypeOK'
    BY <1>1, ServerType, OutcomeType, PageType DEF Progress, User, Faults
  <1>2. ASSUME NEW c \in Call, Send(c) \/ Reply(c) \/ Broken(c) PROVE TypeOK'
    BY <1>2, CallType DEF Reply
  <1>3. CASE Time
    BY <1>3, TimeType
  <1>4. CASE UNCHANGED vars
    BY <1>4 DEF vars, TypeOK, server, browser, mutex
  <1>5. QED
    BY <1>1, <1>2, <1>3, <1>4 DEF Next

-----------------------------------------------------------------------------
(* Every refresh token is the current one or on record.                     *)

Sound(k) == k.sid <= made /\ (Row(k) # 0 => k.jti \in {Row(k)} \cup revoked \cup aged)

AccountInv == TypeOK /\ Numbered /\ TokensAccountedFor

LEMMA HeldSound == AccountInv => \A k \in Held : k \in Cookies /\ Sound(k)
  <1> SUFFICES ASSUME AccountInv, NEW k \in Held PROVE k \in Cookies /\ Sound(k)
    OBVIOUS
  <1>1. k \in Cookies
    BY DEF AccountInv, TypeOK, Held, Refreshes
  <1>2. QED
    BY <1>1 DEF AccountInv, Numbered, TokensAccountedFor, Sound

LEMMA NothingSound == TypeOK => NoCookie \in Cookies /\ Sound(NoCookie)
  BY Constants DEF Sound, NoCookie, Row, TypeOK, Sid

\* A sound token stays sound while the rows stay or end and records stay.
LEMMA SoundStays ==
    ASSUME TypeOK, NEW k \in Cookies, Sound(k), made' = made,
           revoked \cup aged \subseteq revoked' \cup aged',
           cur' = cur \/ \E S : cur' = Ended(S)
    PROVE  Sound(k)'
  <1>1. k.sid \in Sid /\ k.sid <= made
    BY DEF Cookies, Sound
  <1>2. Row(k)' \in {0, Row(k)}
    <2>1. CASE k.sid = 0
      BY <2>1 DEF Row
    <2>2. CASE k.sid # 0
      <3>1. k.sid \in 1 .. MaxSession
        BY <1>1, <2>2 DEF Sid
      <3>2. cur'[k.sid] \in {0, cur[k.sid]}
        BY <3>1 DEF Ended, TypeOK
      <3>3. QED
        BY <2>2, <3>2 DEF Row
    <2>3. QED
      BY <2>1, <2>2
  <1>3. QED
    BY <1>1, <1>2 DEF Sound

LEMMA AllSound ==
    ASSUME \A k \in Held' : Sound(k)'
    PROVE  TokensAccountedFor' /\ \A k \in Held' : k.sid <= made'
  BY DEF Sound, TokensAccountedFor

\* The steps in which nothing but tokens that are known changes hands.
LEMMA HandedOn ==
    ASSUME TypeOK, NEW t \in Tab,
           \/ RefreshAnswer(t) \/ RefreshFail(t) \/ RefreshLost(t) \/ Verify(t)
           \/ Revisit(t) \/ CheckActiveSession(t) \/ SignOut(t) \/ SignOutLost(t) \/ SignOutAnswer(t)
           \/ Reload(t) \/ Expire(t)
    PROVE  /\ UNCHANGED server /\ Held' \subseteq Held \cup {NoCookie}
           /\ \A u \in Tab : login'[u] \in {0, login[u]} /\ upgrade'[u].sid \in {0, upgrade[u].sid}
  <1>0. \A u \in Tab : refresh[u].cookie \in Held
    BY DEF Held
  <1>1. CASE RefreshAnswer(t)
    BY <1>1 DEF RefreshAnswer, TypeOK, Held, Idle
  <1>2. CASE RefreshFail(t)
    <2>1. UNCHANGED <<server, cookie, login>> /\ refresh' = [refresh EXCEPT ![t] = Idle]
      BY <1>2 DEF RefreshFail
    <2>2. \A u \in Tab : upgrade'[u].sid \in {0, upgrade[u].sid}
      BY <1>2 DEF RefreshFail, TypeOK
    <2>3. QED
      BY <2>1, <2>2 DEF TypeOK, Held, Idle
  <1>3. CASE RefreshLost(t)
    <2>1. UNCHANGED <<server, cookie, login, upgrade>>
      BY <1>3 DEF RefreshLost, browser
    <2>2. \A u \in Tab : refresh'[u].cookie = refresh[u].cookie
      BY <1>3 DEF RefreshLost, TypeOK, Refreshes
    <2>3. QED
      BY <2>1, <2>2 DEF Held
  <1>4. ASSUME NEW w, Join(t, w), UNCHANGED <<server, cookie, login, upgrade>>
        PROVE  /\ UNCHANGED server /\ Held' \subseteq Held \cup {NoCookie}
               /\ \A u \in Tab : login'[u] \in {0, login[u]} /\ upgrade'[u].sid \in {0, upgrade[u].sid}
    <2>1. \A u \in Tab : refresh'[u].cookie \in {cookie, refresh[u].cookie}
      BY <1>4 DEF Join, TypeOK, Refreshes
    <2>2. QED
      BY <1>4, <2>1 DEF Held
  <1>5. CASE Verify(t)
    <2>1. UNCHANGED <<server, cookie, login, upgrade>> /\ (Join(t, "verify") \/ refresh' = refresh)
      BY <1>5 DEF Verify
    <2>2. QED
      BY <1>4, <2>1 DEF Held
  <1>6. CASE CheckActiveSession(t)
    <2>1. UNCHANGED <<server, cookie, login, upgrade>> /\ (Join(t, "signin") \/ refresh' = refresh)
      BY <1>6 DEF CheckActiveSession, browser
    <2>2. QED
      BY <1>4, <2>1 DEF Held
  <1>7. CASE Revisit(t) \/ SignOut(t) \/ SignOutLost(t) \/ Expire(t)
    BY <1>7 DEF Revisit, SignOut, SignOutLost, Expire, Held, browser, mutex
  <1>8. CASE SignOutAnswer(t)
    BY <1>8 DEF SignOutAnswer, Held, mutex
  <1>9. CASE Reload(t)
    BY <1>9 DEF Reload, Held, browser, Idle, Quiet, TypeOK
  <1>10. QED
    BY <1>1, <1>2, <1>3, <1>5, <1>6, <1>7, <1>8, <1>9

LEMMA HandedOnAccount ==
    ASSUME AccountInv, NEW t \in Tab, UNCHANGED <<cur, made, revoked, aged>>,
           Held' \subseteq Held \cup {NoCookie},
           \A u \in Tab : login'[u] \in {0, login[u]} /\ upgrade'[u].sid \in {0, upgrade[u].sid}
    PROVE  Numbered' /\ TokensAccountedFor'
  <1>1. \A k \in Held' : Sound(k)'
    BY HeldSound, NothingSound, SoundStays DEF AccountInv
  <1>2. \A u \in Tab : login'[u] <= made' /\ upgrade'[u].sid <= made'
    <2>1. made' = made /\ made \in Nat
      BY DEF AccountInv, TypeOK, Sid
    <2>2. \A u \in Tab : login[u] <= made /\ upgrade[u].sid <= made
      BY DEF AccountInv, Numbered
    <2>3. QED
      BY <2>1, <2>2
  <1>3. QED
    BY <1>1, <1>2, AllSound DEF Numbered

\* The rotation: the old token goes on record as the new one takes its place,
\* for every other holder of the session too.
LEMMA WriteAccount ==
    ASSUME AccountInv, NEW t \in Tab, RefreshWrite(t)
    PROVE  Numbered' /\ TokensAccountedFor'
  <1> DEFINE k == refresh[t].cookie
  <1>1. k \in Held /\ k \in Cookies /\ Sound(k) /\ TypeOK
    BY HeldSound DEF Held, AccountInv
  <1>2. UNCHANGED <<made, aged, cookie, login, upgrade>>
    BY DEF RefreshWrite, browser
  <1>3. CASE k.jti \in revoked \cup aged
    <2>1. UNCHANGED <<cur, revoked>> /\ refresh' = [refresh EXCEPT ![t].st = "error"]
      BY <1>3 DEF RefreshWrite
    <2>2. \A u \in Tab : refresh'[u].cookie = refresh[u].cookie
      BY <2>1, <1>1 DEF TypeOK, Refreshes
    <2>3. Held' \subseteq Held \cup {NoCookie}
      BY <1>2, <2>2 DEF Held
    <2>4. QED
      BY <1>2, <2>1, <2>3, HandedOnAccount
  <1>4. CASE k.jti \notin revoked \cup aged
    <2>0. issued + 1 \in Nat
      BY <1>1 DEF TypeOK
    <2> PICK new \in Cookies : new = [k EXCEPT !.jti = issued + 1]
      BY <1>1, <2>0 DEF Cookies
    <2>1. /\ revoked' = revoked \cup {k.jti}
          /\ cur' = [cur EXCEPT ![k.sid] = IF cur[k.sid] = 0 THEN 0 ELSE issued + 1]
          /\ refresh' = [refresh EXCEPT ![t].st = "ok", ![t].cookie.jti = issued + 1]
      BY <1>4 DEF RefreshWrite, Revoked
    <2>2. new \in Cookies /\ new.sid = k.sid /\ new.jti = issued + 1
      BY <1>1 DEF Cookies, TypeOK
    <2>3. \A u \in Tab : refresh'[u].cookie \in {refresh[u].cookie, new}
      <3>1. refresh' = [refresh EXCEPT ![t] =
                          [refresh[t] EXCEPT !.st = "ok", !.cookie.jti = issued + 1]]
        BY <2>1
      <3>2. [refresh[t] EXCEPT !.st = "ok", !.cookie.jti = issued + 1].cookie = new
        BY <1>1 DEF TypeOK, Refreshes
      <3>3. QED
        BY <3>1, <3>2, <1>1 DEF TypeOK
    <2>4. Held' \subseteq Held \cup {new}
      BY <1>2, <2>3 DEF Held
    <2>5. ASSUME NEW h \in Cookies, h.sid = k.sid
          PROVE  Row(h)' \in {0, issued + 1} /\ (Row(h)' # 0 => Row(h) # 0) /\ Row(h) = Row(k)
      <3>1. CASE k.sid = 0
        BY <2>5, <3>1 DEF Row
      <3>2. CASE k.sid # 0
        <4>1. k.sid \in 1 .. MaxSession
          BY <1>1, <3>2 DEF Sid, Cookies
        <4>2. cur'[k.sid] = IF cur[k.sid] = 0 THEN 0 ELSE issued + 1
          BY <2>1, <4>1, <1>1 DEF TypeOK
        <4>3. QED
          BY <2>5, <3>2, <4>2 DEF Row
      <3>3. QED
        BY <3>1, <3>2
    <2>6. ASSUME NEW h \in Cookies, h.sid # k.sid
          PROVE  Row(h)' = Row(h)
      BY <2>1, <2>6, <1>1 DEF Row, TypeOK, Cookies, Sid
    <2>7. Sound(new)'
      BY <2>2, <2>5, <1>1, <1>2 DEF Sound
    <2>8. Row(k) # 0 => k.jti = Row(k)
      BY <1>1, <1>4 DEF Sound
    <2>9. ASSUME NEW h \in Held PROVE Sound(h)'
      <3>1. h \in Cookies /\ Sound(h)
        BY HeldSound
      <3>2. CASE h.sid = k.sid
        BY <2>1, <2>5, <2>8, <3>1, <3>2, <1>2 DEF Sound
      <3>3. CASE h.sid # k.sid
        BY <2>1, <2>6, <3>1, <3>3, <1>2 DEF Sound
      <3>4. QED
        BY <3>2, <3>3
    <2>10. \A h \in Held' : Sound(h)'
      BY <2>4, <2>7, <2>9
    <2>11. QED
      BY <2>10, <1>2, AllSound DEF Numbered, AccountInv
  <1>5. QED
    BY <1>3, <1>4

LEMMA ReadAccount ==
    ASSUME AccountInv, NEW t \in Tab, RefreshRead(t)
    PROVE  Numbered' /\ TokensAccountedFor'
  <1> DEFINE k   == refresh[t].cookie
  <1>1. k \in Held /\ k \in Cookies /\ TypeOK
    BY HeldSound DEF Held, AccountInv
  <1>2. UNCHANGED <<made, revoked, aged, cookie, login, upgrade>>
    BY DEF RefreshRead, browser
  <1>3. Row(k) \in Nat
    BY <1>1 DEF Row, TypeOK, Cookies, Sid
  <1>4. PICK new \in Cookies : new = [k EXCEPT !.jti = Row(k)]
    BY <1>1, <1>3 DEF Cookies
  <1>5. CASE cur' = cur /\ \E st : refresh' = [refresh EXCEPT ![t].st = st, ![t].cookie = new]
    <2>1. new.sid = k.sid /\ new.jti = Row(k)
      BY <1>1, <1>4 DEF Cookies
    <2>2. Row(new) = Row(k)
      BY <2>1 DEF Row
    <2>3. k.sid <= made
      BY <1>1 DEF AccountInv, Numbered
    <2>4. Sound(new)
      BY <2>1, <2>2, <2>3 DEF Sound
    <2>5. \A u \in Tab : refresh'[u].cookie \in {refresh[u].cookie, new}
      BY <1>5, <1>4, <1>1 DEF TypeOK, Refreshes
    <2>6. Held' \subseteq Held \cup {new}
      BY <1>2, <2>5 DEF Held
    <2>7. \A h \in Held' : h \in Cookies /\ Sound(h)
      BY <2>1, <2>4, <2>6, HeldSound
    <2>8. \A h \in Held' : Sound(h)'
      BY <1>1, <1>2, <1>5, <2>7, SoundStays
    <2>9. QED
      BY <2>8, <1>2, AllSound DEF Numbered, AccountInv
  <1>6. CASE /\ cur' = cur \/ \E S : cur' = Ended(S)
             /\ \E st : refresh' = [refresh EXCEPT ![t].st = st, ![t].cookie = k]
    <2>1. \A u \in Tab : refresh'[u].cookie = refresh[u].cookie
      BY <1>6, <1>1 DEF TypeOK, Refreshes
    <2>2. Held' = Held
      BY <1>2, <2>1 DEF Held
    <2>3. \A h \in Held' : Sound(h)'
      BY <1>1, <1>2, <1>6, <2>2, HeldSound, SoundStays
    <2>4. QED
      BY <2>3, <1>2, AllSound DEF Numbered, AccountInv
  <1>7. QED
    BY <1>5, <1>6, <1>4 DEF RefreshRead

\* A new session takes a number that no token names yet.
LEMMA NewSound ==
    ASSUME TypeOK, NewSession, NEW k \in Cookies, Sound(k)
    PROVE  Sound(k)'
  <1>1. made + 1 \in 1 .. MaxSession /\ made \in Nat /\ made' = made + 1
    BY DEF NewSession, TypeOK, Sid
  <1>2. k.sid \in Sid /\ k.sid <= made
    BY DEF Cookies, Sound
  <1>3. k.sid # 0 => k.sid \in 1 .. MaxSession /\ k.sid # made + 1
    BY <1>1, <1>2 DEF Sid
  <1>4. Row(k)' = Row(k)
    BY <1>1, <1>3 DEF NewSession, TypeOK, Row
  <1>5. k.sid <= made'
    BY <1>1, <1>2 DEF Sid
  <1>6. QED
    BY <1>4, <1>5 DEF Sound, NewSession

LEMMA NewAccount ==
    ASSUME AccountInv, NEW t \in Tab, SignIn(t) \/ UpgradeServe(t)
    PROVE  Numbered' /\ TokensAccountedFor'
  <1>1. TypeOK /\ Numbered /\ made \in Nat
    BY DEF AccountInv, TypeOK, Sid
  <1>2. Held' = Held
    BY DEF SignIn, UpgradeServe, Held, browser, mutex
  <1>3. CASE NewSession /\ \A u \in Tab : /\ login'[u] \in {login[u], made + 1}
                                          /\ upgrade'[u].sid \in {upgrade[u].sid, made + 1}
    <2>1. \A k \in Held' : Sound(k)'
      BY <1>1, <1>2, <1>3, HeldSound, NewSound
    <2>2. \A u \in Tab : /\ login'[u] <= made' /\ upgrade'[u].sid <= made'
      <3>1. \A u \in Tab : login[u] \in Nat /\ upgrade[u].sid \in Nat
        BY <1>1 DEF TypeOK, Upgrades, Sid
      <3>2. made' = made + 1
        BY <1>3 DEF NewSession
      <3>3. \A u \in Tab : login[u] <= made /\ upgrade[u].sid <= made
        BY <1>1 DEF Numbered
      <3>4. QED
        BY <1>1, <1>3, <3>1, <3>2, <3>3
    <2>3. QED
      BY <2>1, <2>2, AllSound DEF Numbered
  <1>4. CASE UNCHANGED server /\ \A u \in Tab : /\ login'[u] = login[u]
                                                /\ upgrade'[u].sid = upgrade[u].sid
    BY <1>2, <1>4, HandedOnAccount DEF server
  <1>5. CASE SignIn(t)
    BY <1>1, <1>3, <1>5 DEF SignIn, mutex, TypeOK
  <1>6. CASE UpgradeServe(t)
    <2>1. \/ NewSession /\ upgrade' = [upgrade EXCEPT ![t].st = "ok", ![t].sid = made + 1]
          \/ UNCHANGED server /\ upgrade' = [upgrade EXCEPT ![t].st = "failed"]
      BY <1>6 DEF UpgradeServe
    <2>2. login' = login
      BY <1>6 DEF UpgradeServe
    <2>3. CASE NewSession /\ upgrade' = [upgrade EXCEPT ![t].st = "ok", ![t].sid = made + 1]
      <3>1. \A u \in Tab : upgrade'[u].sid \in {upgrade[u].sid, made + 1}
        BY <1>1, <2>3 DEF TypeOK, Upgrades
      <3>2. QED
        BY <1>3, <2>2, <2>3, <3>1
    <2>4. CASE UNCHANGED server /\ upgrade' = [upgrade EXCEPT ![t].st = "failed"]
      <3>1. \A u \in Tab : upgrade'[u].sid = upgrade[u].sid
        BY <1>1, <2>4 DEF TypeOK, Upgrades
      <3>2. QED
        BY <1>4, <2>2, <2>4, <3>1
    <2>5. QED
      BY <2>1, <2>3, <2>4
  <1>7. QED
    BY <1>5, <1>6

\* An answer that brings a session brings its current token.
LEMMA BroughtAccount ==
    ASSUME AccountInv, NEW t \in Tab, SignInAnswer(t) \/ UpgradeAnswer(t)
    PROVE  Numbered' /\ TokensAccountedFor'
  <1>1. TypeOK /\ Numbered /\ made \in Nat
    BY DEF AccountInv, TypeOK, Sid
  <1>2. /\ UNCHANGED server
        /\ \A u \in Tab : refresh'[u] = refresh[u]
        /\ \A u \in Tab : /\ login'[u] \in {0, login[u]}
                          /\ upgrade'[u].sid \in {0, upgrade[u].sid}
    BY <1>1 DEF SignInAnswer, UpgradeAnswer, mutex, TypeOK, Quiet
  <1>3. CASE \E n \in 1 .. MaxSession : n <= made /\ cookie' = [sid |-> n, jti |-> cur[n]]
    <2>1. PICK n \in 1 .. MaxSession : n <= made /\ cookie' = [sid |-> n, jti |-> cur[n]]
      BY <1>3
    <2>2. PICK new \in Cookies : new = [sid |-> n, jti |-> cur[n]]
      <3>1. n \in Sid /\ cur[n] \in Nat
        BY <1>1 DEF TypeOK, Sid
      <3>2. QED
        BY <3>1 DEF Cookies
    <2>3. Row(new) = new.jti /\ new.sid <= made
      BY <2>1, <2>2 DEF Row
    <2>4. Sound(new)
      BY <2>3 DEF Sound
    <2>5. Held' \subseteq Held \cup {new}
      BY <1>2, <2>1, <2>2 DEF Held
    <2>6. \A k \in Held' : k \in Cookies /\ Sound(k)
      BY <2>4, <2>5, HeldSound
    <2>7. \A k \in Held' : Sound(k)'
      BY <1>1, <1>2, <2>6, SoundStays DEF server
    <2>8. \A u \in Tab : login'[u] <= made' /\ upgrade'[u].sid <= made'
      BY <1>1, <1>2 DEF Numbered, server
    <2>9. QED
      BY <2>7, <2>8, AllSound DEF Numbered
  <1>4. CASE cookie' = cookie
    <2>1. Held' = Held
      BY <1>2, <1>4 DEF Held
    <2>2. QED
      BY <1>2, <2>1, HandedOnAccount DEF server
  <1>5. CASE SignInAnswer(t)
    <2>1. login[t] \in 1 .. MaxSession /\ login[t] <= made
      BY <1>1, <1>5 DEF SignInAnswer, TypeOK, Sid, Numbered
    <2>2. cookie' = [sid |-> login[t], jti |-> cur[login[t]]]
      BY <1>5 DEF SignInAnswer
    <2>3. QED
      BY <1>3, <2>1, <2>2
  <1>6. CASE UpgradeAnswer(t)
    <2>1. CASE upgrade[t].st = "ok"
      <3>1. upgrade[t].sid \in 1 .. MaxSession /\ upgrade[t].sid <= made
        BY <1>1, <2>1 DEF TypeOK, Upgrades, Sid, Numbered
      <3>2. cookie' = [sid |-> upgrade[t].sid, jti |-> cur[upgrade[t].sid]]
        BY <1>6, <2>1 DEF UpgradeAnswer
      <3>3. QED
        BY <1>3, <3>1, <3>2
    <2>2. CASE upgrade[t].st # "ok"
      BY <1>4, <1>6, <2>2 DEF UpgradeAnswer
    <2>3. QED
      BY <2>1, <2>2
  <1>7. QED
    BY <1>5, <1>6

\* The steps that touch no token of the browser.
LEMMA ElsewhereAccount ==
    ASSUME AccountInv,
           \/ \E t \in Tab : SignOutServe(t)
           \/ Time
           \/ \E c \in Call : Send(c) \/ Reply(c) \/ Broken(c)
           \/ UNCHANGED vars
    PROVE  Numbered' /\ TokensAccountedFor'
  <1>1. TypeOK /\ Numbered
    BY DEF AccountInv
  <1>2. CASE \E t \in Tab : SignOutServe(t)
    <2>1. UNCHANGED <<made, revoked, aged, cookie, refresh, login, upgrade>> /\ \E S : cur' = Ended(S)
      BY <1>2 DEF SignOutServe, browser, mutex
    <2>2. Held' = Held
      BY <2>1 DEF Held
    <2>3. \A k \in Held' : Sound(k)'
      BY <1>1, <2>1, <2>2, HeldSound, SoundStays
    <2>4. QED
      BY <1>1, <2>1, <2>3, AllSound DEF Numbered
  <1>3. CASE Time
    <2>1. /\ UNCHANGED <<cur, made, cookie, refresh, login, upgrade>>
          /\ revoked \cup aged \subseteq revoked' \cup aged'
      <3>1. CASE \E j \in revoked : Age(j)
        BY <3>1 DEF Age, browser, mutex
      <3>2. CASE \E s \in 1 .. MaxSession : Lapse(s)
        BY <3>2 DEF Lapse, browser, mutex
      <3>3. QED
        BY <1>3, <3>1, <3>2 DEF Time
    <2>2. Held' = Held
      BY <2>1 DEF Held
    <2>3. \A k \in Held' : Sound(k)'
      BY <1>1, <2>1, <2>2, HeldSound, SoundStays
    <2>4. QED
      BY <1>1, <2>1, <2>3, AllSound DEF Numbered
  <1>4. ASSUME NEW c \in Call, Send(c) \/ Reply(c) \/ Broken(c)
        PROVE  Numbered' /\ TokensAccountedFor'
    <2>1. UNCHANGED <<server, cookie, login, upgrade>>
      BY <1>4 DEF Send, Reply, Served, Unauthorized, Broken, browser, mutex
    <2>2. \A u \in Tab : refresh'[u].cookie \in {cookie, refresh[u].cookie}
      <3>1. refresh' = refresh \/ Join(Owner[c], "leader")
        BY <1>4 DEF Send, Reply, Served, Unauthorized, Broken, mutex
      <3>2. CASE refresh' = refresh
        BY <3>2
      <3>3. CASE Join(Owner[c], "leader")
        BY <1>1, <3>3 DEF Join, TypeOK, Refreshes
      <3>4. QED
        BY <3>1, <3>2, <3>3
    <2>3. Held' \subseteq Held
      BY <2>1, <2>2 DEF Held
    <2>4. \A k \in Held' : Sound(k)'
      BY <1>1, <2>1, <2>3, HeldSound, SoundStays DEF server
    <2>5. QED
      BY <1>1, <2>1, <2>4, AllSound DEF Numbered, server
  <1>5. CASE UNCHANGED vars
    BY <1>1, <1>5 DEF vars, server, browser, mutex, AccountInv, Numbered, TokensAccountedFor, Held, Row
  <1>6. QED
    BY <1>2, <1>3, <1>4, <1>5

LEMMA AccountStep == AccountInv /\ [Next]_vars => AccountInv'
  <1> SUFFICES ASSUME AccountInv, [Next]_vars PROVE AccountInv'
    OBVIOUS
  <1>1. TypeOK'
    BY StepType DEF AccountInv
  <1>2. ASSUME NEW t \in Tab, Progress(t) \/ User(t) \/ Faults(t)
        PROVE  Numbered' /\ TokensAccountedFor'
    <2>1. CASE \/ RefreshAnswer(t) \/ RefreshFail(t) \/ RefreshLost(t) \/ Verify(t)
               \/ Revisit(t) \/ CheckActiveSession(t) \/ SignOut(t) \/ SignOutLost(t) \/ SignOutAnswer(t)
               \/ Reload(t) \/ Expire(t)
      BY <2>1, HandedOn, HandedOnAccount DEF AccountInv, server
    <2>2. CASE RefreshRead(t) \/ RefreshWrite(t)
      BY <2>2, ReadAccount, WriteAccount
    <2>3. CASE SignIn(t) \/ UpgradeServe(t) \/ SignInAnswer(t) \/ UpgradeAnswer(t)
      BY <2>3, NewAccount, BroughtAccount
    <2>4. CASE SignOutServe(t)
      BY <2>4, ElsewhereAccount
    <2>5. QED
      BY <1>2, <2>1, <2>2, <2>3, <2>4 DEF Progress, User, Faults
  <1>3. Numbered' /\ TokensAccountedFor'
    BY <1>2, ElsewhereAccount DEF Next
  <1>4. QED
    BY <1>1, <1>3 DEF AccountInv

LEMMA AccountInit == Init => AccountInv
  <1> SUFFICES ASSUME Init PROVE AccountInv
    OBVIOUS
  <1>1. Held \subseteq {NoCookie} /\ TypeOK
    BY InitType DEF Init, Held, Idle
  <1>2. made = 0 /\ \A t \in Tab : login[t] = 0 /\ upgrade[t].sid = 0
    BY DEF Init, Quiet
  <1>3. QED
    BY <1>1, <1>2, NothingSound DEF AccountInv, Numbered, TokensAccountedFor, Sound

\* For any tabs, calls and bounds the state of tabs and service is well typed.
THEOREM SessionTypeCorrect == Spec => []TypeOK
  <1>1. QED
    BY InitType, StepType, PTL DEF Spec

\* Concurrent rotations never leave a token that the service does not know:
\* what the browser holds for a live session is its current token, or one on
\* record in revoked_tokens.
THEOREM TokensAccountedForHolds == Spec => []TokensAccountedFor
  <1>1. AccountInv => TokensAccountedFor
    BY DEF AccountInv
  <1>2. QED
    BY <1>1, AccountInit, AccountStep, PTL DEF Spec

LEMMA StepEndsForAReason ==
    ASSUME AccountInv, [Next]_vars
    PROVE  \A s \in 1 .. MaxSession : cur[s] # 0 /\ cur'[s] = 0 =>
             \/ s \in lapsed
             \/ \E t \in Tab : logout[t].st = "sent" /\ logout'[t].st = "ok"
             \/ \E t \in Tab : refresh[t].st = "sent" /\ refresh[t].cookie.jti \in aged
  <1> SUFFICES ASSUME NEW s \in 1 .. MaxSession, cur[s] # 0, cur'[s] = 0
               PROVE  \/ s \in lapsed
                      \/ \E t \in Tab : logout[t].st = "sent" /\ logout'[t].st = "ok"
                      \/ \E t \in Tab : refresh[t].st = "sent" /\ refresh[t].cookie.jti \in aged
    OBVIOUS
  <1>1. TypeOK /\ cur' # cur
    BY DEF AccountInv
  <1>2. ~Time /\ ~UNCHANGED vars /\ \A c \in Call : ~Send(c) /\ ~Reply(c) /\ ~Broken(c)
    BY <1>1 DEF Time, Age, Lapse, vars, Send, Reply, Served, Unauthorized, Broken, server
  <1>3. PICK t \in Tab : Progress(t) \/ User(t) \/ Faults(t)
    BY <1>2 DEF Next
  <1>4. CASE NewSession
    <2>1. cur' = [cur EXCEPT ![made + 1] = issued + 1] /\ issued + 1 # 0
      BY <1>1, <1>4 DEF NewSession, TypeOK
    <2>2. QED
      BY <1>1, <2>1 DEF TypeOK
  <1>5. CASE RefreshWrite(t)
    <2>1. cur' = [cur EXCEPT ![refresh[t].cookie.sid] = IF @ = 0 THEN 0 ELSE issued + 1]
      BY <1>1, <1>5 DEF RefreshWrite
    <2>2. issued + 1 # 0
      BY <1>1 DEF TypeOK
    <2>3. QED
      BY <1>1, <2>1, <2>2 DEF TypeOK
  <1>6. CASE RefreshRead(t)
    <2> DEFINE k == refresh[t].cookie
    <2>1. k \in Held /\ k \in Cookies /\ refresh[t].st = "sent"
      BY <1>1, <1>6 DEF Held, TypeOK, Refreshes, RefreshRead
    <2>2. /\ Row(k) # 0 /\ cur' = Ended({k.sid})
          /\ IF Row(k) = k.jti THEN k.sid \in lapsed ELSE k.jti \notin revoked
      BY <1>1, <1>6 DEF RefreshRead, InGrace
    <2>3. s = k.sid
      BY <1>1, <2>2 DEF Ended, TypeOK
    <2>4. Row(k) = k.jti \/ k.jti \in revoked \cup aged
      BY <2>1, <2>2 DEF AccountInv, TokensAccountedFor
    <2>5. QED
      BY <2>1, <2>2, <2>3, <2>4
  <1>7. CASE SignOutServe(t)
    <2>1. logout[t].st = "sent" /\ logout'[t].st = "ok"
      BY <1>1, <1>7 DEF SignOutServe, TypeOK, Logouts
    <2>2. QED
      BY <2>1
  <1>8. CASE ~NewSession /\ ~RefreshWrite(t) /\ ~RefreshRead(t) /\ ~SignOutServe(t)
    <2>1. ~UpgradeServe(t) /\ ~UpgradeAnswer(t) /\ ~SignIn(t) /\ ~SignInAnswer(t)
      BY <1>1, <1>8 DEF UpgradeServe, UpgradeAnswer, SignIn, SignInAnswer, server
    <2>2. UNCHANGED server
      BY <1>1, <1>3, <1>8, <2>1, HandedOn DEF Progress, User, Faults
    <2>3. QED
      BY <1>1, <2>2 DEF server
  <1>9. QED
    BY <1>4, <1>5, <1>6, <1>7, <1>8

\* A session ends by sign-out, by its limits, or when a token revoked more than
\* 15 seconds ago comes back: never because tabs refreshed at the same time.
THEOREM EndsForAReasonHolds == Spec => EndsForAReason
  <1>1. AccountInv /\ [Next]_vars =>
          [\A s \in 1 .. MaxSession : cur[s] # 0 /\ cur'[s] = 0 =>
             \/ s \in lapsed
             \/ \E t \in Tab : logout[t].st = "sent" /\ logout'[t].st = "ok"
             \/ \E t \in Tab : refresh[t].st = "sent" /\ refresh[t].cookie.jti \in aged]_vars
    BY StepEndsForAReason
  <1>2. QED
    BY <1>1, AccountInit, AccountStep, PTL DEF Spec, EndsForAReason

-----------------------------------------------------------------------------
(* While a call waits in the queue, a leader is on its way to wake it.      *)

\* A step that leaves the waiters and the waiting calls of tab u as they are.
LEMMA TabKept ==
    ASSUME TypeOK, NEW u \in Tab, Led(u), Waiting(u),
           refreshing'[u] = refreshing[u], refresh'[u].for = refresh[u].for,
           upgrade'[u].for = upgrade[u].for,
           refresh'[u].st = "none" => refresh[u].st = "none",
           \A c \in CallsOf(u) : /\ call'[c].st = "leading" <=> call[c].st = "leading"
                                 /\ call'[c].st = "queued" <=> call[c].st = "queued",
           \/ legacy' = "none"
           \/ /\ legacy' = legacy /\ page'[u] = page[u]
              /\ \/ page[u] = "app"
                 \/ \A c \in CallsOf(u) : call[c].st = "idle" => call'[c].st = "idle"
    PROVE  Led(u)' /\ Waiting(u)'
  <1>1. Made(u, "leading")' = Made(u, "leading") /\ Made(u, "queued")' = Made(u, "queued")
    <2>1. \A c : c \in Made(u, "leading")' <=> c \in Made(u, "leading")
      BY DEF Made, CallsOf
    <2>2. \A c : c \in Made(u, "queued")' <=> c \in Made(u, "queued")
      BY DEF Made, CallsOf
    <2>3. QED
      BY <2>1, <2>2
  <1>2. Led(u)'
    BY <1>1 DEF Led
  <1>3. CASE legacy' = "none"
    BY <1>2, <1>3 DEF Waiting
  <1>4. CASE legacy' = legacy /\ page'[u] = page[u] /\ page[u] = "app"
    BY <1>2, <1>4 DEF Waiting
  <1>5. CASE /\ legacy' = legacy /\ page'[u] = page[u]
             /\ \A c \in CallsOf(u) : call[c].st = "idle" => call'[c].st = "idle"
    BY <1>2, <1>5 DEF Waiting, CallsOf
  <1>6. QED
    BY <1>3, <1>4, <1>5

\* A tab that another tab's step does not reach, but for localStorage.
LEMMA OtherTab ==
    ASSUME TypeOK, NEW u \in Tab, Led(u), Waiting(u),
           refreshing'[u] = refreshing[u], refresh'[u] = refresh[u],
           upgrade'[u] = upgrade[u], page'[u] = page[u],
           \A c \in CallsOf(u) : call'[c].st = call[c].st,
           legacy' \in {legacy, "none"}
    PROVE  Led(u)' /\ Waiting(u)'
  BY TabKept

\* The leader is gone and its waiters with it: no call of the tab waits.
LEMMA Emptied ==
    ASSUME TypeOK, NEW t \in Tab, Waiting(t), ~refreshing'[t],
           "leader" \notin refresh'[t].for \cup upgrade'[t].for,
           \A c \in CallsOf(t) : call'[c].st \notin {"leading", "queued"}
    PROVE  Led(t)'
  <1>1. Made(t, "leading")' = {} /\ Made(t, "queued")' = {}
    BY DEF Made, CallsOf
  <1>2. QED
    BY <1>1 DEF Led

\* What a tab owes its waiters W when they are served or turned away.
Dismissed(t, W) ==
  /\ refresh'[t].for \subseteq refresh[t].for /\ upgrade'[t].for \subseteq upgrade[t].for
  /\ refresh'[t].st = "none" => refresh'[t].for = {}
  /\ "leader" \in W => "leader" \notin refresh'[t].for \cup upgrade'[t].for
  /\ "leader" \notin W => ("leader" \in refresh'[t].for \cup upgrade'[t].for
                            <=> "leader" \in refresh[t].for \cup upgrade[t].for)

LEMMA GaveUp ==
    ASSUME TypeOK, NEW t \in Tab, Led(t), Waiting(t), NEW W, GiveUp(t, W), Dismissed(t, W)
    PROVE  Led(t)' /\ Waiting(t)'
  <1>1. legacy' = "none" /\ refreshing'[t] = (refreshing[t] /\ "leader" \notin W)
    <2>1. legacy' = "none" /\ refreshing' = [refreshing EXCEPT ![t] = Freed(t, W)]
      BY DEF GiveUp, Clear
    <2>2. QED
      BY <2>1 DEF Freed, TypeOK
  <1>2. Waiting(t)'
    BY <1>1 DEF Waiting, Dismissed
  <1>3. CASE "leader" \notin W
    <2>1. UNCHANGED call
      BY <1>3 DEF GiveUp
    <2>2. Made(t, "leading")' = Made(t, "leading") /\ Made(t, "queued")' = Made(t, "queued")
      BY <2>1 DEF Made
    <2>3. QED
      BY <1>1, <1>2, <1>3, <2>2 DEF Led, Dismissed
  <1>4. CASE "leader" \in W
    <2>1. call' = Reject(t) \/ call' = Settle(CallsOf(t), "idle")
      BY <1>4 DEF GiveUp
    <2>2. \A c \in CallsOf(t) : call'[c].st \notin {"leading", "queued"}
      <3>1. \A c \in CallsOf(t) : c \in Call /\ call[c] \in Calls
        BY DEF CallsOf, TypeOK
      <3>2. CASE call' = Reject(t)
        BY <3>1, <3>2 DEF Reject, Settle, Made, Calls
      <3>3. CASE call' = Settle(CallsOf(t), "idle")
        BY <3>1, <3>3 DEF Settle, Calls
      <3>4. QED
        BY <2>1, <3>2, <3>3
    <2>3. QED
      BY <1>1, <1>2, <1>4, <2>2, Emptied DEF Dismissed
  <1>5. QED
    BY <1>3, <1>4

\* A new token is there: the leader and the queue are sent again.
LEMMA LetIn ==
    ASSUME TypeOK, NEW t \in Tab, Led(t), Waiting(t), NEW W, Dismissed(t, W),
           IF "leader" \in W THEN Resend(t) ELSE UNCHANGED call,
           refreshing' = [refreshing EXCEPT ![t] = Freed(t, W)]
    PROVE  Led(t)'
  <1>1. refreshing'[t] = (refreshing[t] /\ "leader" \notin W)
    BY DEF Freed, TypeOK
  <1>2. CASE "leader" \notin W
    <2>1. Made(t, "leading")' = Made(t, "leading") /\ Made(t, "queued")' = Made(t, "queued")
      BY <1>2 DEF Made
    <2>2. QED
      BY <1>1, <1>2, <2>1 DEF Led, Dismissed
  <1>3. CASE "leader" \in W
    <2>1. \A c \in CallsOf(t) : call'[c].st \notin {"leading", "queued"}
      <3>1. \A c \in CallsOf(t) : c \in Call /\ call[c] \in Calls
        BY DEF CallsOf, TypeOK
      <3>2. Resend(t)
        BY <1>3
      <3>3. QED
        BY <3>1, <3>2 DEF Resend, Made, Calls
    <2>2. QED
      BY <1>1, <1>3, <2>1, Emptied DEF Dismissed
  <1>4. QED
    BY <1>2, <1>3

\* What a step of another tab leaves to tab u.
Apart(u) ==
  /\ refreshing'[u] = refreshing[u] /\ refresh'[u] = refresh[u]
  /\ upgrade'[u] = upgrade[u] /\ page'[u] = page[u]
  /\ \A c \in CallsOf(u) : call'[c].st = call[c].st
  /\ legacy' \in {legacy, "none"}

LEMMA CallsApart ==
    ASSUME TypeOK, NEW t \in Tab, NEW u \in Tab, u # t,
           \/ call' = call
           \/ Resend(t)
           \/ \E r : call' = Settle(CallsOf(t), r)
           \/ call' = Reject(t)
    PROVE  \A c \in CallsOf(u) : call'[c].st = call[c].st
  <1>1. \A c \in CallsOf(u) : c \in Call /\ c \notin CallsOf(t)
    BY DEF CallsOf
  <1>2. CASE call' = call
    BY <1>2
  <1>3. CASE Resend(t)
    BY <1>1, <1>3 DEF Resend, Made
  <1>4. CASE \E r : call' = Settle(CallsOf(t), r)
    <2>1. PICK r : call' = Settle(CallsOf(t), r)
      BY <1>4
    <2>2. \A c \in CallsOf(u) : call'[c] = [call[c] EXCEPT !.st = call[c].st]
      BY <1>1, <2>1 DEF Settle
    <2>3. QED
      BY <1>1, <2>2 DEF TypeOK, Calls
  <1>5. CASE call' = Reject(t)
    <2>1. \A c \in CallsOf(u) : call'[c] = [call[c] EXCEPT !.st = call[c].st]
      BY <1>1, <1>5 DEF Reject, Settle, Made
    <2>2. QED
      BY <1>1, <2>1 DEF TypeOK, Calls
  <1>6. QED
    BY <1>2, <1>3, <1>4, <1>5

LEMMA GiveUpApart ==
    ASSUME TypeOK, NEW t \in Tab, NEW u \in Tab, u # t, NEW W, GiveUp(t, W)
    PROVE  /\ refreshing'[u] = refreshing[u] /\ page'[u] = page[u] /\ legacy' = "none"
           /\ \A c \in CallsOf(u) : call'[c].st = call[c].st
  <1>1. call' = call \/ call' = Reject(t) \/ \E r : call' = Settle(CallsOf(t), r)
    BY DEF GiveUp
  <1>2. QED
    BY <1>1, CallsApart DEF GiveUp, Clear, TypeOK

LEMMA StepApart ==
    ASSUME TypeOK, NEW t \in Tab, Progress(t) \/ User(t) \/ Faults(t), NEW u \in Tab, u # t
    PROVE  Apart(u)
  <1>0. CASE Revisit(t)
    BY <1>0, GiveUpApart DEF Revisit, Disown, Apart, TypeOK
  <1>1. CASE RefreshRead(t)
    BY <1>1 DEF RefreshRead, Apart, TypeOK, browser
  <1>2. CASE RefreshWrite(t)
    BY <1>2 DEF RefreshWrite, Apart, TypeOK, browser
  <1>3. CASE RefreshAnswer(t)
    <2>1. call' = call \/ Resend(t)
      BY <1>3 DEF RefreshAnswer
    <2>2. QED
      BY <1>3, <2>1, CallsApart DEF RefreshAnswer, Apart, TypeOK
  <1>4. CASE RefreshFail(t)
    <2>1. CASE UNCHANGED <<legacy, page, refreshing, call>>
      BY <1>4, <2>1 DEF RefreshFail, Apart, TypeOK
    <2>2. CASE GiveUp(t, refresh[t].for) /\ UNCHANGED upgrade
      BY <1>4, <2>2, GiveUpApart DEF RefreshFail, Apart, TypeOK
    <2>3. QED
      BY <1>4, <2>1, <2>2 DEF RefreshFail
  <1>5. CASE UpgradeServe(t)
    BY <1>5 DEF UpgradeServe, Apart, TypeOK, browser
  <1>6. CASE UpgradeAnswer(t)
    <2>1. CASE upgrade[t].st = "ok"
      <3>1. call' = call \/ Resend(t)
        BY <1>6, <2>1 DEF UpgradeAnswer
      <3>2. QED
        BY <1>6, <2>1, <3>1, CallsApart DEF UpgradeAnswer, Apart, TypeOK
    <2>2. CASE upgrade[t].st # "ok"
      BY <1>6, <2>2, GiveUpApart DEF UpgradeAnswer, Apart, TypeOK
    <2>3. QED
      BY <2>1, <2>2
  <1>7. CASE Verify(t)
    <2>1. CASE GiveUp(t, {"verify"}) /\ UNCHANGED refresh
      BY <1>7, <2>1, GiveUpApart DEF Verify, Apart, TypeOK
    <2>2. CASE Join(t, "verify") /\ UNCHANGED <<legacy, page, refreshing, call>>
      BY <1>7, <2>2 DEF Verify, Join, Apart, TypeOK
    <2>3. CASE UNCHANGED <<legacy, refreshing, refresh, call>> /\ page' = [page EXCEPT ![t] = "app"]
      BY <1>7, <2>3 DEF Verify, Apart, TypeOK
    <2>4. QED
      BY <1>7, <2>1, <2>2, <2>3 DEF Verify, Disown
  <1>8. CASE CheckActiveSession(t)
    BY <1>8 DEF CheckActiveSession, Join, Apart, TypeOK, browser
  <1>9. CASE SignIn(t) \/ SignOut(t) \/ SignOutServe(t) \/ SignOutLost(t)
    BY <1>9 DEF SignIn, SignOut, SignOutServe, SignOutLost, Apart, TypeOK, browser, mutex
  <1>10. CASE SignInAnswer(t) \/ SignOutAnswer(t)
    BY <1>10 DEF SignInAnswer, SignOutAnswer, Clear, Apart, TypeOK, mutex
  <1>11. CASE RefreshLost(t)
    BY <1>11 DEF RefreshLost, Apart, TypeOK, browser
  <1>12. CASE Reload(t)
    BY <1>12, CallsApart DEF Reload, Apart, TypeOK, browser
  <1>13. CASE Expire(t)
    <2>1. \A c \in CallsOf(u) : call'[c].st = call[c].st
      BY <1>13 DEF Expire, CallsOf, TypeOK, Calls
    <2>2. QED
      BY <1>13, <2>1 DEF Expire, Apart, TypeOK, browser, mutex
  <1>14. QED
    BY <1>0, <1>1, <1>2, <1>3, <1>4, <1>5, <1>6, <1>7, <1>8, <1>9, <1>10, <1>11, <1>12, <1>13
       DEF Progress, User, Faults

\* The step of a tab that starts, or shares, a refresh for somebody but the leader.
LEMMA JoinKeeps ==
    ASSUME TypeOK, NEW t \in Tab, Led(t), Waiting(t), NEW w \in {"verify", "signin"}, Join(t, w),
           UNCHANGED <<refreshing, upgrade, legacy, page, call>>,
           legacy # "none" => /\ page[t] = "checking" /\ w = "verify"
                              /\ w \notin upgrade[t].for /\ upgrade[t].for \subseteq {"verify"}
    PROVE  Led(t)' /\ Waiting(t)'
  <1>1. refresh[t] \in Refreshes
    BY DEF TypeOK
  <1>2. refresh'[t].st # "none" /\ refresh'[t].for = refresh[t].for \cup {w}
    BY <1>1 DEF Join, TypeOK, Refreshes, Waiting
  <1>3. Led(t)'
    BY <1>2 DEF Led, Made
  <1>4. Waiting(t)'
    BY <1>2 DEF Waiting
  <1>5. QED
    BY <1>3, <1>4

LEMMA AnswerKeeps ==
    ASSUME TypeOK, NEW t \in Tab, Led(t), Waiting(t), RefreshAnswer(t)
    PROVE  Led(t)' /\ Waiting(t)'
  <1>1. refresh'[t] = Idle /\ upgrade' = upgrade /\ legacy' = legacy /\ Idle.for = {}
    BY DEF RefreshAnswer, TypeOK, Idle
  <1>2. Dismissed(t, refresh[t].for)
    BY <1>1 DEF Dismissed, Waiting
  <1>3. Led(t)'
    BY <1>2, LetIn DEF RefreshAnswer
  <1>4. CASE legacy = "none"
    BY <1>1, <1>3, <1>4 DEF Waiting
  <1>5. CASE legacy # "none" /\ "verify" \in refresh[t].for
    <2>1. upgrade[t].for = {} /\ page[t] # "login" /\ page[t] # "app"
      BY <1>5 DEF Waiting
    <2>2. page'[t] = "app"
      BY <1>5, <2>1 DEF RefreshAnswer, TypeOK, Pages
    <2>3. QED
      BY <1>1, <1>3, <2>1, <2>2 DEF Waiting
  <1>6. CASE legacy # "none" /\ "verify" \notin refresh[t].for
    <2>1. page[t] # "login"
      BY <1>6 DEF Waiting
    <2>2. page'[t] = page[t]
      BY <1>6, <2>1 DEF RefreshAnswer, TypeOK
    <2>3. page[t] = "checking" => \A c \in CallsOf(t) : call'[c].st = call[c].st
      <3>1. page[t] = "checking" => "leader" \notin refresh[t].for
        BY <1>6 DEF Waiting
      <3>2. QED
        BY <3>1 DEF RefreshAnswer
    <2>4. Waiting(t)'
      BY <1>1, <1>6, <2>1, <2>2, <2>3 DEF Waiting, CallsOf
    <2>5. QED
      BY <1>3, <2>4
  <1>7. QED
    BY <1>4, <1>5, <1>6

LEMMA FailKeeps ==
    ASSUME TypeOK, NEW t \in Tab, Led(t), Waiting(t), RefreshFail(t)
    PROVE  Led(t)' /\ Waiting(t)'
  <1>1. refresh'[t] = Idle /\ Idle.for = {} /\ Idle.st = "none"
    BY DEF RefreshFail, TypeOK, Idle
  <1>2. CASE GiveUp(t, refresh[t].for) /\ UNCHANGED upgrade
    <2>1. Dismissed(t, refresh[t].for)
      BY <1>1, <1>2 DEF Dismissed, Waiting
    <2>2. QED
      BY <1>2, <2>1, GaveUp
  <1>3. CASE /\ legacy # "none" /\ refresh[t].for \cap {"leader", "verify"} # {}
             /\ upgrade' = [upgrade EXCEPT ![t] =
                              [st |-> "sent", sid |-> 0, good |-> legacy = "good", for |-> refresh[t].for \ {"signin"}]]
             /\ UNCHANGED <<legacy, page, refreshing, call>>
    <2>1. upgrade[t].for = {} /\ upgrade'[t].for = refresh[t].for \ {"signin"}
      BY <1>3 DEF Waiting, TypeOK
    <2>2. Led(t)'
      BY <1>1, <1>3, <2>1 DEF Led, Made
    <2>3. Waiting(t)'
      BY <1>1, <1>3, <2>1 DEF Waiting
    <2>4. QED
      BY <2>2, <2>3
  <1>4. QED
    BY <1>2, <1>3 DEF RefreshFail

LEMMA UpgradeKeeps ==
    ASSUME TypeOK, NEW t \in Tab, Led(t), Waiting(t), UpgradeAnswer(t)
    PROVE  Led(t)' /\ Waiting(t)'
  <1>1. upgrade'[t] = Quiet /\ Quiet.for = {} /\ refresh' = refresh
    BY DEF UpgradeAnswer, TypeOK, Quiet
  <1>2. Dismissed(t, upgrade[t].for)
    BY <1>1 DEF Dismissed, Waiting
  <1>3. CASE upgrade[t].st = "ok"
    <2>1. legacy' = "none"
      BY <1>3 DEF UpgradeAnswer
    <2>2. Led(t)'
      BY <1>2, <1>3, LetIn DEF UpgradeAnswer
    <2>3. QED
      BY <1>1, <2>1, <2>2 DEF Waiting
  <1>4. CASE upgrade[t].st # "ok"
    BY <1>2, <1>4, GaveUp DEF UpgradeAnswer
  <1>5. QED
    BY <1>3, <1>4

LEMMA VerifyKeeps ==
    ASSUME TypeOK, NEW t \in Tab, Led(t), Waiting(t), Verify(t)
    PROVE  Led(t)' /\ Waiting(t)'
  <1>1. page[t] = "checking" /\ "verify" \notin refresh[t].for \cup upgrade[t].for /\ upgrade' = upgrade
    BY DEF Verify
  <1>2. CASE Join(t, "verify") /\ UNCHANGED <<legacy, page, refreshing, call>>
    BY <1>1, <1>2, JoinKeeps DEF Waiting
  <1>3. CASE UNCHANGED <<legacy, refreshing, refresh, call>> /\ page' = [page EXCEPT ![t] = "app"]
    <2>1. Led(t)'
      BY <1>1, <1>3 DEF Led, Made
    <2>2. page'[t] = "app"
      BY <1>3 DEF TypeOK
    <2>3. legacy # "none" => refresh[t].for = {} /\ upgrade[t].for = {}
      BY <1>1 DEF Waiting
    <2>4. Waiting(t)'
      BY <1>1, <1>3, <2>2, <2>3 DEF Waiting
    <2>5. QED
      BY <2>1, <2>4
  <1>4. CASE GiveUp(t, {"verify"}) /\ UNCHANGED refresh
    <2>1. Dismissed(t, {"verify"})
      BY <1>1, <1>4 DEF Dismissed, Waiting
    <2>2. QED
      BY <1>4, <2>1, GaveUp
  <1>5. QED
    BY <1>2, <1>3, <1>4 DEF Verify, Disown

LEMMA RevisitKeeps ==
    ASSUME TypeOK, NEW t \in Tab, Led(t), Waiting(t), Revisit(t)
    PROVE  Led(t)' /\ Waiting(t)'
  <1>1. GiveUp(t, {"verify"}) /\ UNCHANGED <<refresh, upgrade>>
    BY DEF Revisit, Disown
  <1>2. Dismissed(t, {"verify"})
    BY <1>1 DEF Dismissed, Waiting
  <1>3. QED
    BY <1>1, <1>2, GaveUp

LEMMA CheckKeeps ==
    ASSUME TypeOK, NEW t \in Tab, Led(t), Waiting(t), CheckActiveSession(t)
    PROVE  Led(t)' /\ Waiting(t)'
  <1>1. UNCHANGED <<refreshing, upgrade, legacy, page, call>> /\ legacy = "none"
    BY DEF CheckActiveSession, browser, Waiting
  <1>2. CASE Join(t, "signin")
    BY <1>1, <1>2, JoinKeeps
  <1>3. CASE UNCHANGED refresh
    BY <1>1, <1>3, TabKept
  <1>4. QED
    BY <1>2, <1>3 DEF CheckActiveSession

LEMMA ReloadKeeps ==
    ASSUME TypeOK, NEW t \in Tab, Led(t), Waiting(t), Reload(t)
    PROVE  Led(t)' /\ Waiting(t)'
  <1>1. /\ refresh'[t] = Idle /\ upgrade'[t] = Quiet /\ legacy' = legacy /\ ~refreshing'[t]
        /\ Idle.for = {} /\ Quiet.for = {}
    BY DEF Reload, TypeOK, Idle, Quiet, browser
  <1>2. \A c \in CallsOf(t) : call'[c].st = "idle"
    BY DEF Reload, Settle, CallsOf, TypeOK, Calls
  <1>3. Led(t)'
    BY <1>1, <1>2, Emptied
  <1>4. legacy # "none" => page'[t] # "login"
    BY DEF Reload, Waiting, TypeOK
  <1>5. Waiting(t)'
    BY <1>1, <1>2, <1>4 DEF Waiting, CallsOf
  <1>6. QED
    BY <1>3, <1>5

\* The service's work, and the steps that concern no refresh.
LEMMA ElsewhereKeeps ==
    ASSUME TypeOK, NEW t \in Tab, Led(t), Waiting(t),
           \/ RefreshRead(t) \/ RefreshWrite(t) \/ RefreshLost(t) \/ UpgradeServe(t)
           \/ SignIn(t) \/ SignInAnswer(t) \/ SignOut(t) \/ SignOutServe(t) \/ SignOutLost(t)
           \/ SignOutAnswer(t) \/ Expire(t)
    PROVE  Led(t)' /\ Waiting(t)'
  <1>1. refresh[t] \in Refreshes /\ upgrade[t] \in Upgrades
    BY DEF TypeOK
  <1>2. refresh'[t].for = refresh[t].for /\ (refresh'[t].st = "none" => refresh[t].st = "none")
    BY <1>1 DEF RefreshRead, RefreshWrite, RefreshLost, UpgradeServe, SignIn, SignInAnswer, SignOut,
                SignOutServe, SignOutLost, SignOutAnswer, Expire, TypeOK, Refreshes, mutex
  <1>3. upgrade'[t].for = upgrade[t].for
    BY <1>1 DEF RefreshRead, RefreshWrite, RefreshLost, UpgradeServe, SignIn, SignInAnswer, SignOut,
                SignOutServe, SignOutLost, SignOutAnswer, Expire, TypeOK, Upgrades, mutex
  <1>4. \A c \in CallsOf(t) : call'[c].st = call[c].st
    <2>1. CASE Expire(t)
      BY <2>1 DEF Expire, CallsOf, TypeOK, Calls
    <2>2. CASE ~Expire(t)
      BY <2>2 DEF RefreshRead, RefreshWrite, RefreshLost, UpgradeServe, SignIn, SignInAnswer, SignOut,
                  SignOutServe, SignOutLost, SignOutAnswer
    <2>3. QED
      BY <2>1, <2>2
  <1>5. refreshing' = refreshing /\ (legacy' = "none" \/ (legacy' = legacy /\ page' = page))
    BY DEF RefreshRead, RefreshWrite, RefreshLost, UpgradeServe, SignIn, SignInAnswer, SignOut,
           SignOutServe, SignOutLost, SignOutAnswer, Expire, Clear, browser, mutex
  <1>6. QED
    BY <1>2, <1>3, <1>4, <1>5, TabKept

\* A 401: the call is rejected, waits, or takes the lead.
LEMMA UnauthorizedKeeps ==
    ASSUME TypeOK, NEW c \in Call, NEW t \in Tab, t = Owner[c], Led(t), Waiting(t), Unauthorized(c)
    PROVE  Led(t)' /\ Waiting(t)'
  <1>1. /\ UNCHANGED <<legacy, page, upgrade>> /\ c \in CallsOf(t) /\ call[c].st = "sent"
        /\ refresh[t] \in Refreshes
    BY DEF Unauthorized, CallsOf, TypeOK, browser
  <1>2. CASE /\ call' = [call EXCEPT ![c].st = "failed"]
             /\ UNCHANGED <<refreshing, refresh>>
    <2>1. \A d \in CallsOf(t) : call'[d].st = IF d = c THEN "failed" ELSE call[d].st
      BY <1>2 DEF TypeOK, Calls, CallsOf
    <2>2. QED
      BY <1>1, <1>2, <2>1, TabKept
  <1>3. CASE /\ refreshing[t] /\ call' = [call EXCEPT ![c].st = "queued"]
             /\ UNCHANGED <<refreshing, refresh>>
    <2>1. \A d \in CallsOf(t) : call'[d].st = IF d = c THEN "queued" ELSE call[d].st
      BY <1>3 DEF TypeOK, Calls, CallsOf
    <2>2. Made(t, "leading")' = Made(t, "leading")
      BY <1>1, <2>1 DEF Made
    <2>3. Led(t)'
      BY <1>1, <1>3, <2>2 DEF Led
    <2>4. Waiting(t)'
      BY <1>1, <1>3, <2>1 DEF Waiting
    <2>5. QED
      BY <2>3, <2>4
  <1>4. CASE /\ ~refreshing[t]
             /\ call' = [call EXCEPT ![c].st = "leading", ![c].retry = TRUE]
             /\ refreshing' = [refreshing EXCEPT ![t] = TRUE]
             /\ Join(t, "leader")
    <2>1. \A d \in CallsOf(t) : call'[d].st = IF d = c THEN "leading" ELSE call[d].st
      BY <1>4 DEF TypeOK, Calls, CallsOf
    <2>2. Made(t, "leading") = {}
      BY <1>4 DEF Led
    <2>3. Made(t, "leading")' = {c}
      BY <1>1, <2>1, <2>2 DEF Made
    <2>4. refresh'[t].st # "none" /\ refresh'[t].for = refresh[t].for \cup {"leader"}
      BY <1>1, <1>4 DEF Join, TypeOK, Refreshes, Waiting
    <2>5. refreshing'[t] /\ "leader" \notin refresh[t].for \cup upgrade[t].for
      BY <1>4 DEF Led, TypeOK
    <2>6. Led(t)'
      BY <2>3, <2>4, <2>5 DEF Led
    <2>7. legacy # "none" => page[t] = "app" /\ upgrade[t].for = {}
      <3>1. page[t] \in {"login", "checking", "app"}
        BY DEF TypeOK, Pages
      <3>2. legacy # "none" => page[t] = "app"
        BY <1>1, <3>1 DEF Waiting
      <3>3. QED
        BY <2>5, <3>2 DEF Waiting
    <2>8. Waiting(t)'
      BY <1>1, <2>4, <2>5, <2>7 DEF Waiting
    <2>9. QED
      BY <2>6, <2>8
  <1>5. QED
    BY <1>2, <1>3, <1>4 DEF Unauthorized

LEMMA CallKeeps ==
    ASSUME TypeOK, \A t \in Tab : Led(t) /\ Waiting(t),
           NEW c \in Call, Send(c) \/ Reply(c) \/ Broken(c), NEW u \in Tab
    PROVE  Led(u)' /\ Waiting(u)'
  <1>1. UNCHANGED <<legacy, page, upgrade>> /\ Owner[c] \in Tab
    BY DEF Send, Reply, Served, Unauthorized, Broken, browser, mutex
  <1>2. \A d \in Call : d # c => call'[d] = call[d]
    BY DEF Send, Reply, Served, Unauthorized, Broken, TypeOK
  <1>3. CASE u # Owner[c]
    <2>1. \A d \in CallsOf(u) : call'[d].st = call[d].st
      BY <1>2, <1>3 DEF CallsOf
    <2>2. refreshing'[u] = refreshing[u] /\ refresh'[u] = refresh[u]
      BY <1>3 DEF Send, Reply, Served, Unauthorized, Broken, Join, TypeOK, mutex
    <2>3. QED
      BY <1>1, <2>1, <2>2, OtherTab
  <1>4. CASE u = Owner[c] /\ ~Unauthorized(c)
    <2>1. UNCHANGED <<refreshing, refresh>>
      BY <1>4 DEF Send, Reply, Served, Broken, mutex
    <2>2. call'[c].st \in {"sent", "ok", "failed"} /\ call[c].st \notin {"leading", "queued"}
      BY <1>4 DEF Send, Reply, Served, Broken, TypeOK, Calls
    <2>3. page[u] = "app" \/ call[c].st # "idle"
      BY <1>4 DEF Send, Reply, Served, Broken
    <2>4. QED
      BY <1>1, <1>2, <2>1, <2>2, <2>3, TabKept DEF CallsOf
  <1>5. CASE u = Owner[c] /\ Unauthorized(c)
    BY <1>5, UnauthorizedKeeps
  <1>6. QED
    BY <1>3, <1>4, <1>5

LEMMA QueueStep == QueueInv /\ [Next]_vars => QueueInv'
  <1> SUFFICES ASSUME QueueInv, [Next]_vars PROVE QueueInv'
    OBVIOUS
  <1>1. TypeOK /\ TypeOK' /\ \A u \in Tab : Led(u) /\ Waiting(u)
    BY StepType DEF QueueInv
  <1> SUFFICES ASSUME NEW u \in Tab PROVE Led(u)' /\ Waiting(u)'
    BY <1>1 DEF QueueInv
  <1>2. ASSUME NEW t \in Tab, Progress(t) \/ User(t) \/ Faults(t)
        PROVE  Led(u)' /\ Waiting(u)'
    <2>1. CASE u # t
      BY <1>1, <1>2, <2>1, StepApart, OtherTab DEF Apart
    <2>2. CASE u = t
      BY <1>1, <1>2, <2>2, AnswerKeeps, FailKeeps, UpgradeKeeps, VerifyKeeps, RevisitKeeps, CheckKeeps,
         ReloadKeeps, ElsewhereKeeps DEF Progress, User, Faults
    <2>3. QED
      BY <2>1, <2>2
  <1>3. ASSUME NEW c \in Call, Send(c) \/ Reply(c) \/ Broken(c)
        PROVE  Led(u)' /\ Waiting(u)'
    BY <1>1, <1>3, CallKeeps
  <1>4. CASE Time
    <2>1. UNCHANGED <<legacy, page, mutex, call>>
      BY <1>4 DEF Time, Age, Lapse, browser
    <2>2. QED
      BY <1>1, <2>1, OtherTab DEF mutex
  <1>5. CASE UNCHANGED vars
    BY <1>1, <1>5, OtherTab DEF vars, browser, mutex
  <1>6. QED
    BY <1>2, <1>3, <1>4, <1>5 DEF Next

LEMMA QueueInit == Init => QueueInv
  <1> SUFFICES ASSUME Init, NEW t \in Tab PROVE Led(t) /\ Waiting(t)
    BY InitType DEF QueueInv
  <1>1. /\ ~refreshing[t] /\ refresh[t].for = {} /\ upgrade[t].for = {} /\ page[t] = "checking"
        /\ \A c \in CallsOf(t) : call[c].st = "idle"
    BY DEF Init, Idle, Quiet, CallsOf
  <1>2. QED
    BY <1>1 DEF Led, Waiting, Made

\* While a call waits in failedQueue, exactly one call holds the tab's mutex and
\* its refresh or upgrade is under way: no caller is left without a waker.
THEOREM QueueHasLeaderHolds == Spec => []QueueHasLeader
  <1>1. QueueInv => QueueHasLeader
    BY DEF QueueInv, QueueHasLeader
  <1>2. QED
    BY <1>1, QueueInit, QueueStep, PTL DEF Spec

-----------------------------------------------------------------------------
(* The client implements the promise of ServedCalls.                        *)

Pending == {"sent", "leading", "queued"}

\* What a step may do to the calls, ...
Quietly == \A c \in Call : Status'[c] = Status[c]
Makes   == \E c \in Call : /\ Status[c] # "pending" /\ Status'[c] = "pending"
                           /\ \A d \in Call \ {c} : Status'[d] = Status[d]
Answers == \E C \in SUBSET Call, r \in {"ok", "failed"} :
             /\ \A c \in C : Status[c] = "pending"
             /\ \A c \in Call : Status'[c] = IF c \in C THEN r ELSE Status[c]
Unloads == \E C \in SUBSET Call :
             \A c \in Call : Status'[c] = IF c \in C THEN "idle" ELSE Status[c]

\* ... all of which the promise allows.
LEMMA Allowed == Quietly \/ Makes \/ Answers \/ Unloads => [Promise!Next]_Status
  <1>1. /\ Status = [c \in Call |-> Status[c]]
        /\ Status' = [c \in Call |-> Status'[c]]
    BY DEF Status
  <1>2. Quietly => Status' = Status
    BY <1>1 DEF Quietly
  <1>3. Makes => Promise!Next
    <2> SUFFICES ASSUME NEW c \in Call, Status[c] # "pending", Status'[c] = "pending",
                        \A d \in Call \ {c} : Status'[d] = Status[d]
                 PROVE  Promise!Make(c)
      BY DEF Makes, Promise!Next
    <2>1. Status' = [Status EXCEPT ![c] = "pending"]
      BY <1>1
    <2>2. QED
      BY <2>1 DEF Promise!Make
  <1>4. Answers => Promise!Next \/ Status' = Status
    <2> SUFFICES ASSUME NEW C \in SUBSET Call, NEW r \in {"ok", "failed"},
                        \A c \in C : Status[c] = "pending",
                        \A c \in Call : Status'[c] = IF c \in C THEN r ELSE Status[c]
                 PROVE  Promise!Next \/ Status' = Status
      BY DEF Answers
    <2>1. CASE C = {}
      BY <1>1, <2>1
    <2>2. CASE C # {}
      <3>1. Status' = [c \in Call |-> IF c \in C THEN r ELSE Status[c]]
        BY <1>1
      <3>2. Promise!Answer(C)
        BY <2>2, <3>1 DEF Promise!Answer
      <3>3. QED
        BY <3>2 DEF Promise!Next
    <2>3. QED
      BY <2>1, <2>2
  <1>5. Unloads => Promise!Next
    <2> SUFFICES ASSUME NEW C \in SUBSET Call,
                        \A c \in Call : Status'[c] = IF c \in C THEN "idle" ELSE Status[c]
                 PROVE  Promise!Next
      BY DEF Unloads
    <2>1. Status' = [c \in Call |-> IF c \in C THEN "idle" ELSE Status[c]]
      BY <1>1
    <2>2. QED
      BY <2>1 DEF Promise!Unload, Promise!Next
  <1>6. QED
    BY <1>2, <1>3, <1>4, <1>5

LEMMA StatusOf ==
    ASSUME NEW c \in Call
    PROVE  /\ Status[c] = IF call[c].st \in Pending THEN "pending" ELSE call[c].st
           /\ Status'[c] = IF call'[c].st \in Pending THEN "pending" ELSE call'[c].st
  BY DEF Status, Pending

LEMMA SameCalls ==
    ASSUME \A c \in Call : call'[c].st = call[c].st
    PROVE  Quietly
  BY StatusOf DEF Quietly

\* The leader and the queue go from one way of waiting to another.
LEMMA ResendQuietly ==
    ASSUME TypeOK, NEW t, Resend(t)
    PROVE  Quietly
  <1>1. \A c \in Call : call[c].st \in Pending <=> call'[c].st \in Pending
    BY DEF Resend, Made, TypeOK, Calls, Pending
  <1>2. \A c \in Call : call'[c].st \in Pending \/ call'[c].st = call[c].st
    BY DEF Resend, TypeOK, Calls, Pending
  <1>3. QED
    BY <1>1, <1>2, StatusOf DEF Quietly

LEMMA ReloadUnloads ==
    ASSUME TypeOK, NEW t, call' = Settle(CallsOf(t), "idle")
    PROVE  Unloads
  <1>1. CallsOf(t) \in SUBSET Call
    BY DEF CallsOf
  <1>2. \A c \in Call : call'[c].st = IF c \in CallsOf(t) THEN "idle" ELSE call[c].st
    BY DEF Settle, TypeOK, Calls
  <1>3. \A c \in Call : Status'[c] = IF c \in CallsOf(t) THEN "idle" ELSE Status[c]
    BY <1>2, StatusOf DEF Pending
  <1>4. QED
    BY <1>1, <1>3 DEF Unloads

LEMMA GiveUpAnswers ==
    ASSUME TypeOK, NEW t, NEW W, GiveUp(t, W)
    PROVE  Quietly \/ Answers \/ Unloads
  <1>1. call' = call \/ call' = Reject(t) \/ call' = Settle(CallsOf(t), "idle")
    BY DEF GiveUp
  <1>2. CASE call' = Reject(t)
    <2> DEFINE C == Made(t, "leading") \cup Made(t, "queued")
    <2>1. C \in SUBSET Call /\ \A c \in C : call[c].st \in Pending
      BY DEF Made, CallsOf, Pending
    <2>2. \A c \in Call : call'[c].st = IF c \in C THEN "failed" ELSE call[c].st
      BY <1>2 DEF Reject, Settle, TypeOK, Calls
    <2> HIDE DEF C
    <2>3. /\ \A c \in C : Status[c] = "pending"
          /\ \A c \in Call : Status'[c] = IF c \in C THEN "failed" ELSE Status[c]
      BY <2>1, <2>2, StatusOf DEF Pending
    <2>4. QED
      BY <2>1, <2>3 DEF Answers
  <1>3. QED
    BY <1>1, <1>2, SameCalls, ReloadUnloads

LEMMA TabPromise ==
    ASSUME TypeOK, NEW t \in Tab, Progress(t) \/ User(t) \/ Faults(t)
    PROVE  Quietly \/ Answers \/ Unloads
  <1>1. CASE UNCHANGED call
    BY <1>1, SameCalls
  <1>2. CASE RefreshAnswer(t)
    BY <1>1, <1>2, ResendQuietly DEF RefreshAnswer
  <1>3. CASE RefreshFail(t)
    BY <1>1, <1>3, GiveUpAnswers DEF RefreshFail
  <1>4. CASE UpgradeAnswer(t)
    BY <1>1, <1>4, ResendQuietly, GiveUpAnswers DEF UpgradeAnswer
  <1>5. CASE Verify(t) \/ Revisit(t)
    BY <1>1, <1>5, GiveUpAnswers DEF Verify, Revisit, Disown
  <1>6. CASE Reload(t)
    BY <1>6, ReloadUnloads DEF Reload
  <1>7. CASE Expire(t)
    <2>1. \A c \in Call : call'[c].st = call[c].st
      BY <1>7 DEF Expire, TypeOK, Calls
    <2>2. QED
      BY <2>1, SameCalls
  <1>8. CASE \/ RefreshRead(t) \/ RefreshWrite(t) \/ UpgradeServe(t) \/ CheckActiveSession(t)
             \/ SignIn(t) \/ SignInAnswer(t) \/ SignOut(t) \/ SignOutServe(t) \/ SignOutAnswer(t)
             \/ RefreshLost(t) \/ SignOutLost(t)
    BY <1>1, <1>8 DEF RefreshRead, RefreshWrite, UpgradeServe, CheckActiveSession, SignIn,
       SignInAnswer, SignOut, SignOutServe, SignOutAnswer, RefreshLost, SignOutLost
  <1>9. QED
    BY <1>2, <1>3, <1>4, <1>5, <1>6, <1>7, <1>8 DEF Progress, User, Faults

LEMMA CallPromise ==
    ASSUME TypeOK, NEW c \in Call, Send(c) \/ Reply(c) \/ Broken(c)
    PROVE  Quietly \/ Makes \/ Answers
  <1>1. \A d \in Call \ {c} : Status'[d] = Status[d]
    <2>1. \A d \in Call \ {c} : call'[d] = call[d]
      BY DEF Send, Reply, Served, Unauthorized, Broken, TypeOK
    <2>2. QED
      BY <2>1, StatusOf
  <1>2. CASE Send(c)
    <2>1. call[c].st \in {"idle", "ok", "failed"} /\ call'[c].st = "sent"
      BY <1>2 DEF Send, TypeOK
    <2>2. Status[c] # "pending" /\ Status'[c] = "pending"
      BY <2>1, StatusOf DEF Pending
    <2>3. QED
      BY <1>1, <2>2 DEF Makes
  <1>3. ASSUME NEW r \in {"ok", "failed"}, call[c].st = "sent", call'[c].st = r
        PROVE  Answers
    <2>1. Status[c] = "pending" /\ Status'[c] = r
      BY <1>3, StatusOf DEF Pending
    <2>2. {c} \in SUBSET Call
      OBVIOUS
    <2>3. /\ \A d \in {c} : Status[d] = "pending"
          /\ \A d \in Call : Status'[d] = IF d \in {c} THEN r ELSE Status[d]
      BY <1>1, <2>1
    <2>4. QED
      BY <2>2, <2>3 DEF Answers
  <1>4. CASE Served(c) \/ Broken(c)
    <2>1. call[c].st = "sent" /\ call'[c].st \in {"ok", "failed"}
      BY <1>4 DEF Served, Broken, TypeOK, Calls
    <2>2. QED
      BY <1>3, <2>1
  <1>5. CASE Unauthorized(c)
    <2>1. call[c].st = "sent" /\ call'[c].st \in {"failed", "queued", "leading"}
      BY <1>5 DEF Unauthorized, TypeOK, Calls
    <2>2. CASE call'[c].st = "failed"
      BY <1>3, <2>1, <2>2
    <2>3. CASE call'[c].st # "failed"
      <3>1. Status'[c] = Status[c]
        BY <2>1, <2>3, StatusOf DEF Pending
      <3>2. QED
        BY <1>1, <3>1 DEF Quietly
    <2>4. QED
      BY <2>2, <2>3
  <1>6. QED
    BY <1>2, <1>4, <1>5 DEF Reply

LEMMA PromiseStep == TypeOK /\ [Next]_vars => [Promise!Next]_Status
  <1> SUFFICES ASSUME TypeOK, [Next]_vars PROVE Quietly \/ Makes \/ Answers \/ Unloads
    BY Allowed
  <1>1. CASE Time \/ UNCHANGED vars
    BY <1>1, SameCalls DEF Time, Age, Lapse, vars
  <1>2. QED
    BY <1>1, TabPromise, CallPromise DEF Next

LEMMA PromiseInit == Init => Promise!Init
  <1> SUFFICES ASSUME Init PROVE Status = [c \in Call |-> "idle"]
    BY DEF Promise!Init
  <1>1. \A c \in Call : call[c].st = "idle"
    BY DEF Init
  <1>2. QED
    BY <1>1 DEF Status

\* The client implements ServedCalls: a call of a page is answered once, with
\* data or with an error, however its 401, the refresh, the queue, the retry and
\* a sign-out interleave.
THEOREM KeepsPromiseHolds == Spec => KeepsPromise
  <1>1. QED
    BY InitType, StepType, PromiseInit, PromiseStep, PTL DEF Spec, KeepsPromise, Promise!Spec

=============================================================================

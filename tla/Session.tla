------------------------------ MODULE Session ------------------------------
(***************************************************************************)
(* Sign-in, silent refresh and sign-out: lib/api-client.ts with the        *)
(* in-memory token of lib/auth-token.ts, the guard of ProtectedRoute, the  *)
(* idle timer, the login page and the sign-out of the dashboard layout, in *)
(* several tabs of one browser, against the rotating refresh tokens of     *)
(* modules/auth/service.py.                                                *)
(*                                                                         *)
(* The tabs share the cookie and localStorage; each has its own token,     *)
(* mutex and queue.  A session is named by a number, a refresh token by    *)
(* its jti; an access token is the session it was issued for and whether   *)
(* the server still accepts it.                                            *)
(***************************************************************************)
EXTENDS Naturals

CONSTANTS Tab, Call,
          Owner,          \* Owner[c]: the tab that makes call c
          Ages,           \* do the 15 seconds, the 30 minutes and the 8 hours pass
          Fails,          \* may a request or an answer be lost
          MaxSession,     \* bound on the sessions ever created
          Budget          \* bound on expiries, reloads, ageing and losses

ASSUME SessionConstants ==
  /\ Owner \in [Call -> Tab]
  /\ Ages \in BOOLEAN /\ Fails \in BOOLEAN
  /\ MaxSession \in Nat /\ Budget \in Nat

VARIABLES
  cur,         \* cur[s]: current_jti of session s, 0 when there is no such row
  made,        \* sessions created so far
  issued,      \* refresh tokens issued so far
  revoked,     \* revoked_tokens within the last 15 seconds
  aged,        \* revoked_tokens older than that
  lapsed,      \* sessions past the idle or the absolute limit
  cookie,      \* the browser's refresh_token cookie
  role,        \* localStorage user_role is set
  legacy,      \* localStorage auth_token of the former release
  token,       \* token[t]: inMemoryAccessToken
  page,        \* page[t]: what the tab shows
  checked,     \* checked[t]: this visit of /login looks for a session no more
  refreshing,  \* refreshing[t]: isRefreshing
  refresh,     \* refresh[t]: activeRefreshPromise and the request behind it
  upgrade,     \* upgrade[t]: the POST of /auth/upgrade-session
  login,       \* login[t]: the session of a login whose answer is on its way
  logout,      \* logout[t]: the POST of /auth/logout
  call,        \* call[c]: a request of a page, from the page's view
  budget

server  == <<cur, made, issued, revoked, aged, lapsed>>
browser == <<cookie, role, legacy>>
mutex   == <<refreshing, refresh, upgrade>>
vars == <<server, browser, token, page, checked, mutex, login, logout, call, budget>>

----------------------------------------------------------------------------
Sid      == 0 .. MaxSession
NoCookie == [sid |-> 0, jti |-> 0]
NoToken  == [sid |-> 0, fresh |-> FALSE]
Idle     == [st |-> "none", cookie |-> NoCookie, for |-> {}]
Quiet    == [st |-> "none", sid |-> 0, good |-> FALSE, for |-> {}]
NoLogout == [st |-> "none", sids |-> {}]

\* The pages behind ProtectedRoute, and the login page.
Pages == {"login", "checking", "app"}

\* Who awaits a refresh: the interceptor, ProtectedRoute, the login page.
Waiter == {"leader", "verify", "signin"}

CallsOf(t) == {c \in Call : Owner[c] = t}
Made(t, st) == {c \in CallsOf(t) : call[c].st = st}

\* The credentials that the request interceptor puts on a request of tab t.
Fresh(t) == IF token[t] # NoToken THEN token[t].fresh ELSE legacy = "good"

\* The calls of C are answered, or forgotten.
Settle(C, r) == [c \in Call |-> [call[c] EXCEPT !.st = IF c \in C THEN r ELSE @]]

Spend == budget > 0 /\ budget' = budget - 1

Init ==
  /\ cur = [s \in 1 .. MaxSession |-> 0] /\ made = 0 /\ issued = 0
  /\ revoked = {} /\ aged = {} /\ lapsed = {}
  /\ cookie = NoCookie
  /\ legacy \in {"none", "good", "stale"} /\ role = (legacy # "none")
  /\ token = [t \in Tab |-> NoToken]
  /\ page = [t \in Tab |-> "checking"]
  /\ checked = [t \in Tab |-> FALSE]
  /\ refreshing = [t \in Tab |-> FALSE]
  /\ refresh = [t \in Tab |-> Idle]
  /\ upgrade = [t \in Tab |-> Quiet]
  /\ login = [t \in Tab |-> 0]
  /\ logout = [t \in Tab |-> NoLogout]
  /\ call = [c \in Call |-> [st |-> "idle", retry |-> FALSE, fresh |-> FALSE]]
  /\ budget = Budget

----------------------------------------------------------------------------
(* The auth service.                                                       *)

\* create_session: a row with a new jti.
NewSession ==
  /\ made < MaxSession
  /\ made' = made + 1 /\ issued' = issued + 1
  /\ cur' = [cur EXCEPT ![made + 1] = issued + 1]
  /\ UNCHANGED <<revoked, aged, lapsed>>

\* current_jti of the session a refresh token names, 0 when it is gone.
Row(k) == IF k.sid = 0 THEN 0 ELSE cur[k.sid]

Ended(S) == [s \in DOMAIN cur |-> IF s \in S THEN 0 ELSE cur[s]]

\* Mutant of InGrace: a token that is not the current one is always a reuse.
NoGrace(k) == FALSE

InGrace(k) == k.jti \in revoked

\* rotate_refresh_token up to its first write: the row is read without a lock.
\* A token that is not the current one is honoured while it is in the grace
\* window and ends the session afterwards.
RefreshRead(t) ==
  LET k == refresh[t].cookie
      Answer(st, kk) == refresh' = [refresh EXCEPT ![t].st = st, ![t].cookie = kk]
  IN
  /\ refresh[t].st = "sent"
  /\ \/ /\ Row(k) = 0
        /\ Answer("refused", k)
        /\ UNCHANGED cur
     \/ /\ Row(k) \notin {0, k.jti} /\ InGrace(k)
        /\ Answer("ok", [k EXCEPT !.jti = Row(k)])
        /\ UNCHANGED cur
     \/ /\ Row(k) # 0
        /\ IF Row(k) = k.jti THEN k.sid \in lapsed ELSE ~InGrace(k)
        /\ cur' = Ended({k.sid})
        /\ Answer("refused", k)
     \/ /\ Row(k) # 0 /\ Row(k) = k.jti /\ k.sid \notin lapsed
        /\ Answer("read", k)
        /\ UNCHANGED cur
  /\ UNCHANGED <<made, issued, revoked, aged, lapsed, browser, token, page,
                 checked, refreshing, upgrade, login, logout, call, budget>>

\* Mutant of Revoked: the token that is traded in is not recorded.
RevokedUnlogged(k) == revoked

Revoked(k) == revoked \cup {k.jti}

\* The INSERT into revoked_tokens, whose key is the jti, the UPDATE of the
\* session row, if it is still there, and the COMMIT.
RefreshWrite(t) ==
  LET k == refresh[t].cookie IN
  /\ refresh[t].st = "read"
  /\ \/ /\ k.jti \in revoked \cup aged
        /\ refresh' = [refresh EXCEPT ![t].st = "error"]
        /\ UNCHANGED <<cur, issued, revoked>>
     \/ /\ k.jti \notin revoked \cup aged
        /\ issued' = issued + 1
        /\ revoked' = Revoked(k)
        /\ cur' = [cur EXCEPT ![k.sid] = IF @ = 0 THEN 0 ELSE issued + 1]
        /\ refresh' = [refresh EXCEPT ![t].st = "ok", ![t].cookie.jti = issued + 1]
  /\ UNCHANGED <<made, aged, lapsed, browser, token, page, checked, refreshing,
                 upgrade, login, logout, call, budget>>

\* Fifteen seconds pass after the revocation of j.
Age(j) ==
  /\ Ages /\ j \in revoked /\ Spend
  /\ revoked' = revoked \ {j} /\ aged' = aged \cup {j}
  /\ UNCHANGED <<cur, made, issued, lapsed, browser, token, page, checked, mutex,
                 login, logout, call>>

\* Session s reaches its idle or its absolute limit.
Lapse(s) ==
  /\ Ages /\ cur[s] # 0 /\ s \notin lapsed /\ Spend
  /\ lapsed' = lapsed \cup {s}
  /\ UNCHANGED <<cur, made, issued, revoked, aged, browser, token, page, checked,
                 mutex, login, logout, call>>

\* The 15 minutes of the access tokens of tab t pass, also for its requests
\* that the server has not looked at yet.
Expire(t) ==
  /\ token[t].fresh /\ Spend
  /\ token' = [token EXCEPT ![t].fresh = FALSE]
  /\ call' = [c \in Call |-> [call[c] EXCEPT !.fresh = @ /\ c \notin CallsOf(t)]]
  /\ UNCHANGED <<server, browser, page, checked, mutex, login, logout>>

----------------------------------------------------------------------------
(* refreshTokenOnce and what its callers do with the outcome.              *)

\* A caller shares the refresh under way or starts one with today's cookie.
Join(t, w) ==
  LET r == refresh[t] IN
  refresh' = [refresh EXCEPT ![t] =
    IF r.st = "none" THEN [st |-> "sent", cookie |-> cookie, for |-> {w}]
                     ELSE [r EXCEPT !.for = r.for \cup {w}]]

\* tokenStore.clearToken() and the localStorage keys.
Clear(t) == /\ token' = [token EXCEPT ![t] = NoToken]
            /\ role' = FALSE /\ legacy' = "none"

\* processQueue with a token, and the leader's own retry.
Resend(t) ==
  call' = [c \in Call |->
    IF c \in Made(t, "leading") \cup Made(t, "queued")
    THEN [call[c] EXCEPT !.st = "sent", !.fresh = TRUE] ELSE call[c]]

\* Mutant of Freed: isRefreshing stays set.
FreedNever(t, W) == refreshing[t]

\* isRefreshing after the waiters W were served; the leader resets it.
Freed(t, W) == refreshing[t] /\ "leader" \notin W

Landing == "login"

\* Mutant of Reject: the calls in the queue are resolved, without a token.
RejectLeader(t) ==
  [c \in Call |-> [call[c] EXCEPT !.st = IF c \in Made(t, "leading") THEN "failed"
                                         ELSE IF c \in Made(t, "queued") THEN "ok" ELSE @]]

Reject(t) == Settle(Made(t, "leading") \cup Made(t, "queued"), "failed")

\* The session is gone: the interceptor rejects the queue and replaces the
\* document by /login?expired=1, unless it shows /login already; ProtectedRoute
\* and the login page only clear, and ProtectedRoute pushes /login.
GiveUp(t, W) ==
  /\ Clear(t)
  /\ refreshing' = [refreshing EXCEPT ![t] = Freed(t, W)]
  /\ call' = IF "leader" \notin W THEN call
             ELSE IF page[t] = "login"
             THEN Reject(t)
             ELSE Settle(CallsOf(t), "idle")
  /\ page' = [page EXCEPT ![t] = Landing]
  /\ checked' = [checked EXCEPT ![t] = TRUE]
  /\ IF "leader" \in W /\ page[t] # "login"
     THEN logout' = [logout EXCEPT ![t] = NoLogout]
     ELSE UNCHANGED logout

\* The refresh succeeded: cookie and token are new, the queue is released, and
\* ProtectedRoute or the login page lets the user in.
RefreshAnswer(t) ==
  LET r == refresh[t] IN
  /\ r.st = "ok"
  /\ cookie' = r.cookie /\ role' = TRUE
  /\ token' = [token EXCEPT ![t] = [sid |-> r.cookie.sid, fresh |-> TRUE]]
  /\ IF "leader" \in r.for THEN Resend(t) ELSE UNCHANGED call
  /\ refreshing' = [refreshing EXCEPT ![t] = Freed(t, r.for)]
  /\ page' = [page EXCEPT ![t] = IF "verify" \in r.for /\ @ = "checking" THEN "app"
                                 ELSE IF "signin" \in r.for /\ @ = "login"
                                 THEN "checking" ELSE @]
  /\ refresh' = [refresh EXCEPT ![t] = Idle]
  /\ UNCHANGED <<server, legacy, checked, upgrade, login, logout, budget>>

\* Mutant of Failed: only a 401 rejects the promise.
FailedCleanly == {"refused"}

Failed == {"refused", "error"}

\* It failed: a token of the former release is tried before giving up.  The
\* cookie stays: clear_refresh_cookie edits a response that the exception
\* raised after it replaces.
RefreshFail(t) ==
  LET r == refresh[t]
      tries == legacy # "none" /\ r.for \cap {"leader", "verify"} # {}
  IN
  /\ r.st \in Failed
  /\ refresh' = [refresh EXCEPT ![t] = Idle]
  /\ \/ /\ tries
        /\ upgrade' = [upgrade EXCEPT ![t] =
                         [st |-> "sent", sid |-> 0, good |-> legacy = "good",
                          for |-> r.for \ {"signin"}]]
        /\ UNCHANGED <<role, legacy, token, page, checked, refreshing, logout, call>>
     \/ /\ ~tries
        /\ GiveUp(t, r.for)
        /\ UNCHANGED upgrade
  /\ UNCHANGED <<server, cookie, login, budget>>

\* The refresh request, or its answer, is lost.
RefreshLost(t) ==
  /\ Fails /\ refresh[t].st \in {"sent", "ok", "refused"} /\ Spend
  /\ refresh' = [refresh EXCEPT ![t].st = "error"]
  /\ UNCHANGED <<server, browser, token, page, checked, refreshing, upgrade,
                 login, logout, call>>

\* /auth/upgrade-session makes a session for the bearer of a valid old token,
\* the one that localStorage held when the request was made.
UpgradeServe(t) ==
  /\ upgrade[t].st = "sent"
  /\ \/ /\ upgrade[t].good /\ NewSession
        /\ upgrade' = [upgrade EXCEPT ![t].st = "ok", ![t].sid = made + 1]
     \/ /\ ~upgrade[t].good \/ made = MaxSession
        /\ upgrade' = [upgrade EXCEPT ![t].st = "failed"]
        /\ UNCHANGED server
  /\ UNCHANGED <<browser, token, page, checked, refreshing, refresh, login,
                 logout, call, budget>>

UpgradeAnswer(t) ==
  LET u == upgrade[t] IN
  /\ upgrade' = [upgrade EXCEPT ![t] = Quiet]
  /\ \/ /\ u.st = "ok"
        /\ cookie' = [sid |-> u.sid, jti |-> cur[u.sid]]
        /\ token' = [token EXCEPT ![t] = [sid |-> u.sid, fresh |-> TRUE]]
        /\ legacy' = "none"
        /\ role' = (role \/ "verify" \in u.for)
        /\ IF "leader" \in u.for THEN Resend(t) ELSE UNCHANGED call
        /\ refreshing' = [refreshing EXCEPT ![t] = Freed(t, u.for)]
        /\ page' = [page EXCEPT ![t] = IF "verify" \in u.for /\ @ = "checking"
                                       THEN "app" ELSE @]
        /\ UNCHANGED <<checked, logout>>
     \/ /\ u.st = "failed"
        /\ GiveUp(t, u.for)
        /\ UNCHANGED cookie
  /\ UNCHANGED <<server, refresh, login, budget>>

----------------------------------------------------------------------------
(* The requests of the pages.                                              *)

Send(c) ==
  LET t == Owner[c] IN
  /\ page[t] = "app" /\ call[c].st \in {"idle", "ok", "failed"}
  /\ call' = [call EXCEPT ![c] = [st |-> "sent", retry |-> FALSE, fresh |-> Fresh(t)]]
  /\ UNCHANGED <<server, browser, token, page, checked, mutex, login, logout, budget>>

\* The server accepts the token.
Served(c) ==
  /\ call[c].st = "sent" /\ call[c].fresh
  /\ call' = [call EXCEPT ![c].st = "ok"]
  /\ UNCHANGED <<server, browser, token, page, checked, mutex, login, logout, budget>>

\* 401: a retried call is rejected, the first to notice leads a refresh, the
\* others wait in failedQueue.
Unauthorized(c) ==
  LET t == Owner[c] IN
  /\ call[c].st = "sent" /\ ~call[c].fresh
  /\ \/ /\ call[c].retry
        /\ call' = [call EXCEPT ![c].st = "failed"]
        /\ UNCHANGED <<refreshing, refresh>>
     \/ /\ ~call[c].retry /\ refreshing[t]
        /\ call' = [call EXCEPT ![c].st = "queued"]
        /\ UNCHANGED <<refreshing, refresh>>
     \/ /\ ~call[c].retry /\ ~refreshing[t]
        /\ call' = [call EXCEPT ![c].st = "leading", ![c].retry = TRUE]
        /\ refreshing' = [refreshing EXCEPT ![t] = TRUE]
        /\ Join(t, "leader")
  /\ UNCHANGED <<server, browser, token, page, checked, upgrade, login, logout, budget>>

\* Any other error.
Broken(c) ==
  /\ Fails /\ call[c].st = "sent" /\ Spend
  /\ call' = [call EXCEPT ![c].st = "failed"]
  /\ UNCHANGED <<server, browser, token, page, checked, mutex, login, logout>>

----------------------------------------------------------------------------
(* The pages: the guard, the login form, sign-out.                         *)

\* Mutant of Disown: nothing happens, the effect has run.
DisownNothing(t) == UNCHANGED <<role, legacy, token, page, checked, refreshing, logout, call>>

\* A token without a role in localStorage: another tab has signed out.
Disown(t) == GiveUp(t, {"verify"})

\* verifySession of ProtectedRoute.
Verify(t) ==
  /\ page[t] = "checking"
  /\ "verify" \notin refresh[t].for \cup upgrade[t].for
  /\ \/ /\ token[t] = NoToken /\ Join(t, "verify")
        /\ UNCHANGED <<role, legacy, token, page, checked, refreshing, logout, call>>
     \/ /\ token[t] # NoToken /\ role
        /\ page' = [page EXCEPT ![t] = "app"]
        /\ UNCHANGED <<role, legacy, token, checked, refreshing, refresh, logout, call>>
     \/ /\ token[t] # NoToken /\ ~role
        /\ Disown(t)
        /\ UNCHANGED refresh
  /\ UNCHANGED <<server, cookie, upgrade, login, budget>>

\* checkActiveSession when /login is opened: not after an expiry, and only when
\* localStorage says that somebody is signed in.
CheckActiveSession(t) ==
  /\ page[t] = "login" /\ ~checked[t]
  /\ checked' = [checked EXCEPT ![t] = TRUE]
  /\ IF role THEN Join(t, "signin") ELSE UNCHANGED refresh
  /\ UNCHANGED <<server, browser, token, page, refreshing, upgrade, login, logout,
                 call, budget>>

\* handleLogin: the server opens a session ...
SignIn(t) ==
  /\ page[t] = "login" /\ login[t] = 0
  /\ NewSession
  /\ login' = [login EXCEPT ![t] = made + 1]
  /\ UNCHANGED <<browser, token, page, checked, mutex, logout, call, budget>>

\* ... and its answer brings the cookie, the token and the landing page, also
\* when a session that was found meanwhile has taken the tab there already.
SignInAnswer(t) ==
  LET s == login[t] IN
  /\ s # 0
  /\ cookie' = [sid |-> s, jti |-> cur[s]]
  /\ token' = [token EXCEPT ![t] = [sid |-> s, fresh |-> TRUE]]
  /\ legacy' = "none" /\ role' = TRUE
  /\ login' = [login EXCEPT ![t] = 0]
  /\ page' = [page EXCEPT ![t] = "checking"]
  /\ UNCHANGED <<server, checked, mutex, logout, call, budget>>

\* verifySession again, when the path changes under a page that is shown, and
\* the tab then has a token: only a role that is gone changes anything.
Revisit(t) ==
  /\ page[t] = "app" /\ token[t] # NoToken /\ ~role
  /\ Disown(t)
  /\ UNCHANGED <<server, cookie, refresh, upgrade, login, budget>>

\* The sessions that /auth/logout ends: the cookie's, and that of a bearer token
\* which can still be decoded.
LoggedOut(t) == {cookie.sid} \cup IF token[t].fresh THEN {token[t].sid} ELSE {}

\* handleLogout of the layout, and performIdleLogout after 30 idle minutes.
SignOut(t) ==
  /\ page[t] = "app" /\ logout[t].st = "none"
  /\ logout' = [logout EXCEPT ![t] =
                  [st |-> "sent", sids |-> LoggedOut(t) \ {0}]]
  /\ UNCHANGED <<server, browser, token, page, checked, mutex, login, call, budget>>

SignOutServe(t) ==
  /\ logout[t].st = "sent"
  /\ cur' = Ended(logout[t].sids)
  /\ logout' = [logout EXCEPT ![t].st = "ok"]
  /\ UNCHANGED <<made, issued, revoked, aged, lapsed, browser, token, page, checked,
                 mutex, login, call, budget>>

SignOutLost(t) ==
  /\ Fails /\ logout[t].st \in {"sent", "ok"} /\ Spend
  /\ logout' = [logout EXCEPT ![t].st = "lost"]
  /\ UNCHANGED <<server, browser, token, page, checked, mutex, login, call>>

\* Whatever the answer, the tab forgets the user and shows /login.
SignOutAnswer(t) ==
  /\ logout[t].st \in {"ok", "lost"}
  /\ cookie' = IF logout[t].st = "ok" THEN NoCookie ELSE cookie
  /\ Clear(t)
  /\ logout' = [logout EXCEPT ![t] = NoLogout]
  /\ page' = [page EXCEPT ![t] = "login"]
  /\ checked' = [checked EXCEPT ![t] = TRUE]
  /\ UNCHANGED <<server, mutex, login, call, budget>>

\* The document is loaded afresh: everything in its memory is gone, and the
\* requests it was waiting for are abandoned (one the server is working on
\* is let finish first).
Reload(t) ==
  /\ Spend /\ refresh[t].st # "read"
  /\ token' = [token EXCEPT ![t] = NoToken]
  /\ page' = [page EXCEPT ![t] = IF @ = "login" THEN @ ELSE "checking"]
  /\ checked' = [checked EXCEPT ![t] = FALSE]
  /\ refreshing' = [refreshing EXCEPT ![t] = FALSE]
  /\ refresh' = [refresh EXCEPT ![t] = Idle]
  /\ upgrade' = [upgrade EXCEPT ![t] = Quiet]
  /\ login' = [login EXCEPT ![t] = 0]
  /\ logout' = [logout EXCEPT ![t] = NoLogout]
  /\ call' = Settle(CallsOf(t), "idle")
  /\ UNCHANGED <<server, browser>>

----------------------------------------------------------------------------
\* What happens without anybody's decision: the service works on requests, the
\* browser delivers every answer or an error, the guard's effect runs.
Progress(t) == \/ RefreshRead(t) \/ RefreshWrite(t)
               \/ RefreshAnswer(t) \/ RefreshFail(t)
               \/ UpgradeServe(t) \/ UpgradeAnswer(t)
               \/ Verify(t)
Reply(c) == Served(c) \/ Unauthorized(c)

User(t) == \/ CheckActiveSession(t) \/ SignIn(t) \/ SignInAnswer(t) \/ Revisit(t)
           \/ SignOut(t) \/ SignOutServe(t) \/ SignOutAnswer(t)
Faults(t) == RefreshLost(t) \/ SignOutLost(t) \/ Reload(t) \/ Expire(t)
Time == (\E j \in revoked : Age(j)) \/ (\E s \in 1 .. MaxSession : Lapse(s))

Next == \/ \E t \in Tab : Progress(t) \/ User(t) \/ Faults(t)
        \/ \E c \in Call : Send(c) \/ Reply(c) \/ Broken(c)
        \/ Time

Fairness == /\ \A t \in Tab : WF_vars(Progress(t))
            /\ \A c \in Call : WF_vars(Reply(c))

Spec == Init /\ [][Next]_vars /\ Fairness

----------------------------------------------------------------------------
(* Properties.                                                             *)

Cookies   == [sid : Sid, jti : Nat]
Tokens    == [sid : Sid, fresh : BOOLEAN]
Refreshes == [st : {"none", "sent", "read", "ok", "refused", "error"},
              cookie : Cookies, for : SUBSET Waiter]
Upgrades  == [st : {"none", "sent", "ok", "failed"}, sid : Sid, good : BOOLEAN,
              for : SUBSET Waiter]
Logouts   == [st : {"none", "sent", "ok", "lost"}, sids : SUBSET Sid]
Calls     == [st : {"idle", "sent", "leading", "queued", "ok", "failed"},
              retry : BOOLEAN, fresh : BOOLEAN]

TypeOK ==
  /\ cur \in [1 .. MaxSession -> Nat] /\ made \in Sid /\ issued \in Nat
  /\ revoked \subseteq Nat /\ aged \subseteq Nat /\ lapsed \subseteq Sid
  /\ cookie \in Cookies /\ role \in BOOLEAN
  /\ legacy \in {"none", "good", "stale"}
  /\ token \in [Tab -> Tokens]
  /\ page \in [Tab -> Pages] /\ checked \in [Tab -> BOOLEAN]
  /\ refreshing \in [Tab -> BOOLEAN]
  /\ refresh \in [Tab -> Refreshes] /\ upgrade \in [Tab -> Upgrades]
  /\ login \in [Tab -> Sid] /\ logout \in [Tab -> Logouts]
  /\ call \in [Call -> Calls] /\ budget \in Nat
  /\ \A t \in Tab : upgrade[t].st = "ok" => upgrade[t].sid # 0

\* The calls that wait in tab t, and the waiter that will wake them.
Led(t) ==
  /\ refreshing[t] <=> Made(t, "leading") # {}
  /\ \A c, d \in Made(t, "leading") : c = d
  /\ refreshing[t] <=> "leader" \in refresh[t].for \cup upgrade[t].for
  /\ Made(t, "queued") # {} => refreshing[t]

\* failedQueue has a keeper: while a call waits in it, the tab's mutex is taken
\* by exactly one call, whose refresh or upgrade is under way and will empty it.
QueueHasLeader == \A t \in Tab : Led(t)

\* Who waits where: for one thing at a time while a token of the former release
\* may be traded in, since a failed refresh starts that anew.
Waiting(t) ==
  /\ refresh[t].st = "none" => refresh[t].for = {}
  /\ "leader" \notin refresh[t].for \cap upgrade[t].for
  /\ legacy # "none" =>
       /\ page[t] # "login"
       /\ refresh[t].for = {} \/ upgrade[t].for = {}
       /\ page[t] = "checking" => /\ refresh[t].for \cup upgrade[t].for \subseteq {"verify"}
                                  /\ \A c \in CallsOf(t) : call[c].st = "idle"
       /\ page[t] = "app" => refresh[t].for \cup upgrade[t].for \subseteq {"leader"}

QueueInv == TypeOK /\ \A t \in Tab : Led(t) /\ Waiting(t)

\* The refresh tokens that the browser holds, or a refresh carries.
Held == {cookie} \cup {refresh[t].cookie : t \in Tab}

\* Only sessions that were created are named.
Numbered ==
  /\ \A k \in Held : k.sid <= made
  /\ \A t \in Tab : login[t] <= made /\ upgrade[t].sid <= made

\* Every refresh token that the browser holds, sends or is being given, for a
\* session that still exists, is either the current one or on record as
\* revoked: concurrent rotations never leave a token the service does not know.
TokensAccountedFor ==
  \A k \in Held :
    Row(k) # 0 => k.jti \in {Row(k)} \cup revoked \cup aged

\* A session ends because somebody signed out, because it lapsed, or because a
\* token revoked more than 15 seconds ago came back: never because two tabs, or
\* a reload, refreshed at the same time.
EndsForAReason ==
  [][\A s \in 1 .. MaxSession : cur[s] # 0 /\ cur'[s] = 0 =>
       \/ s \in lapsed
       \/ \E t \in Tab : logout[t].st = "sent" /\ logout'[t].st = "ok"
       \/ \E t \in Tab : refresh[t].st = "sent" /\ refresh[t].cookie.jti \in aged]_vars

\* The calls of the pages, as their callers see them.
Status == [c \in Call |-> IF call[c].st \in {"sent", "leading", "queued"}
                          THEN "pending" ELSE call[c].st]

Promise == INSTANCE ServedCalls WITH status <- Status

\* Every call is answered once, whatever happens to the token meanwhile ...
KeepsPromise == Promise!Spec

\* ... and no call waits for ever: the queue is emptied on every path.
CallsSettle == Promise!Live

\* The spinner of ProtectedRoute ends: the user gets in or is sent to /login.
GuardDecides == \A t \in Tab : page[t] = "checking" ~> page[t] # "checking"

\* The grace window "prevents false token reuse detection": a refresh that was
\* sent with a token that was current, or revoked within the window, of a session
\* that lives is not refused.
ConcurrentRefreshHonoured ==
  [][\A t \in Tab : LET k == refresh[t].cookie IN
       /\ refresh[t].st \in {"sent", "read"} /\ k.sid \notin lapsed
       /\ Row(k) # 0 /\ k.jti \in revoked \cup {Row(k)}
       => refresh'[t].st \notin {"refused", "error"}]_vars
=============================================================================

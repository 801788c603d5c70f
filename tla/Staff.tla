------------------------------- MODULE Staff -------------------------------
(***************************************************************************)
(* Staff accounts and what a role may open: the role tables and the        *)
(* permission matrix of lib/permissions.ts, the role guard of              *)
(* ProtectedRoute, the landing pages of the login page, the settings page, *)
(* the staff pages /users/[id] and /users/register, and the account        *)
(* endpoints of modules/auth/router.py.                                    *)
(*                                                                         *)
(* One browser ("here", shared by whoever signs in on it) is followed page *)
(* by page; of the other browsers only the requests an administrator sends *)
(* from them are kept ("peer").  The routes of one module of the shop      *)
(* share their roles and are one page; names, rates and avatars are left   *)
(* out.  How sessions live and die is the subject of module Session.       *)
(***************************************************************************)
EXTENDS Naturals, Sequences

CONSTANTS User,        \* accounts, by their identifier
          First,       \* the administrator the shop starts with
          Page,        \* the pages people try to open
          Assignable,  \* the roles administrators give
          Toggled,     \* the <<module, role>> switches that are used
          Budget       \* bound on the requests that change accounts

None == "none"
Role == {"admin", "manager", "cashier", "mechanic"}

Module == {"pos", "sales", "inventory", "payroll", "motorcycles", "board",
           "history", "reports", "audit", "users"}

ASSUME StaffConstants ==
  /\ First \in User
  /\ Page \subseteq Module \cup {"settings"}
  /\ Assignable \subseteq Role
  /\ Toggled \subseteq Module \X (Role \ {"admin"})
  /\ Budget \in Nat

VARIABLES
  account,  \* account[u]: role and token_version; None is no account (any more)
  cookie,   \* whose session the refresh cookie of this browser names
  token,    \* the access token in memory: its user and token_version
  seen,     \* localStorage user_role
  matrix,   \* localStorage motoshop_custom_permissions, the defaults without it
  page, screen,
  fallback, \* where the screen "Access Denied" leads
  isAdmin,  \* the settings page shows the tabs of an administrator
  draft,    \* its modulePermissions
  profile,  \* the role in the profile form of the settings page
  card,     \* the account that /users/[id] shows, as it was loaded
  call,     \* call[c]: the request of client c that changes accounts
  left,     \* how many such requests may still be sent
  crossed   \* history: the accounts given a role from a row that had changed since

browser == <<cookie, token, seen>>
forms   == <<isAdmin, draft, profile, card>>
view    == <<page, screen, fallback, forms>>
vars    == <<account, browser, matrix, view, call, left, crossed>>

----------------------------------------------------------------------------
(* Roles and pages.                                                        *)

\* DEFAULT_ROUTE_PERMISSIONS: the roles besides admin that may open a module.
Default ==
  [pos |-> {"cashier", "manager"}, sales |-> {"cashier", "manager"},
   inventory |-> {"manager"}, payroll |-> {"manager"}, reports |-> {"manager"},
   motorcycles |-> {"manager", "mechanic"}, board |-> {"manager", "mechanic"},
   history |-> {"manager", "mechanic"}, audit |-> {}, users |-> {}]

\* getEffectiveRoutePermissions.
Effective(m) == [m EXCEPT !.audit = {}]

Allowed(p, r) ==
  \/ r = "admin" \/ p = "settings"
  \/ p \in Module /\ r \in Effective(matrix)[p]

\* ROLE_LANDING_PAGES, then ROLE_FALLBACK_PRIORITY, then the modules in their
\* order, the audit log and the staff pages excepted.
Preferred ==
  [manager  |-> <<"reports", "pos", "sales", "inventory", "board", "motorcycles",
                  "payroll">>,
   cashier  |-> <<"pos", "sales", "reports", "board", "motorcycles", "inventory",
                  "payroll">>,
   mechanic |-> <<"board", "motorcycles", "history", "reports", "pos", "sales",
                  "inventory", "payroll">>]
Rest == <<"pos", "sales", "inventory", "payroll", "motorcycles", "board",
          "history", "reports">>

\* Mutant of Landing: a role lands where it lands by default.
LandingUnchecked(r) == IF r = "admin" THEN "reports" ELSE Preferred[r][1]

\* getEffectiveLandingPage: the first page of the order that the role may open,
\* None when it may open no workspace.
Landing(r) ==
  IF r = "admin" THEN "reports"
  ELSE LET order == Preferred[r] \o Rest
           Leads(n) == /\ Allowed(order[n], r)
                       /\ \A m \in 1 .. n - 1 : ~Allowed(order[m], r)
       IN IF \E n \in DOMAIN order : Leads(n)
          THEN order[CHOOSE n \in DOMAIN order : Leads(n)] ELSE None

----------------------------------------------------------------------------
Idle  == [op |-> "idle"]
Gone  == [role |-> None, version |-> 0]
NoToken == [user |-> None, version |-> 0]
Exists(u) == account[u].role # None
Issued(u) == [user |-> u, version |-> account[u].version]

Init ==
  /\ account \in {a \in [User -> [role : Assignable \cup {None}, version : {0, 1}]] :
                    /\ a[First].role = "admin"
                    /\ \A u \in User : a[u].version = IF a[u].role = None THEN 0 ELSE 1}
  /\ cookie = None /\ token = NoToken /\ seen = None /\ matrix = Default
  /\ page = "login" /\ screen = "form" /\ fallback = None
  /\ isAdmin = FALSE /\ draft = Default /\ profile = None /\ card = Gone
  /\ call = [c \in {"here", "peer"} |-> Idle]
  /\ left = Budget /\ crossed = {}

\* A new page: what the former one held is gone.
Blank == isAdmin' = FALSE /\ draft' = Default /\ profile' = None /\ card' = Gone

\* Nothing of a page is shown before verifySession has decided: the layout is new,
\* or its guard still shows the refusal of the page before.
Goto(p) == page' = p /\ screen' = "checking" /\ fallback' = None /\ Blank

\* localStorage and the token are cleared and the login form is shown.
ToForm ==
  /\ token' = NoToken /\ seen' = None
  /\ page' = "login" /\ screen' = "form" /\ fallback' = None /\ Blank

\* POST /auth/refresh: a token for the account as it is now.
Refreshed == token' = Issued(cookie) /\ seen' = account[cookie].role
CanRefresh == cookie # None

----------------------------------------------------------------------------
(* The login page and the guard.                                           *)

\* Where one goes from /login: the page one came from, if the role may open it.
Returns(r) == {p \in Page : Allowed(p, r)}

\* handleLogin.  A role without a workspace is turned away, and the request
\* that ends its new session may be lost.
SignIn(u) ==
  /\ screen = "form" /\ Exists(u)
  /\ LET r == account[u].role
     IN \/ /\ Landing(r) # None
           /\ cookie' = u /\ token' = Issued(u) /\ seen' = r
           /\ \E p \in Returns(r) \cup {Landing(r)} : Goto(p)
        \/ /\ Landing(r) = None
           /\ cookie' \in {None, u} /\ token' = NoToken /\ seen' = None
           /\ UNCHANGED view
  /\ UNCHANGED <<account, crossed, matrix, call, left>>

\* checkActiveSession: /login opened with a user_role in localStorage.
Resume ==
  /\ screen = "resuming"
  /\ IF CanRefresh
     THEN /\ Refreshed
          /\ LET r == account[cookie].role
             IN \E p \in Returns(r) \cup {IF Landing(r) = None THEN "reports" ELSE Landing(r)} :
                  Goto(p)
     ELSE ToForm
  /\ UNCHANGED <<account, crossed, cookie, matrix, call, left>>

\* verifySession, for the token in memory or the one a refresh brings.
Me     == IF token = NoToken THEN cookie ELSE token.user
MyRole == IF token = NoToken THEN account[cookie].role ELSE seen
Verified ==
  /\ token # NoToken \/ CanRefresh
  /\ IF token = NoToken THEN Refreshed ELSE UNCHANGED <<token, seen>>

\* Opening the settings page loads the profile (the role it falls back to when
\* that fails is the one in localStorage) and, for an administrator, the matrix
\* in force.
Mount ==
  /\ profile' \in {account[Me].role, MyRole} \ {None}
  /\ isAdmin' = (MyRole = "admin")
  /\ draft' = IF isAdmin' THEN Effective(matrix) ELSE Default

\* A link or a push within the app: ProtectedRoute stays mounted with isAuthorized
\* as it was, so the new page is rendered and its effects run before verifySession
\* decides about it.
Render(p) ==
  /\ page' = p /\ screen' = "rendered" /\ fallback' = None /\ card' = Gone
  /\ IF p = "settings" THEN Mount
     ELSE isAdmin' = FALSE /\ draft' = Default /\ profile' = None

Show ==
  /\ Verified /\ Allowed(page, MyRole)
  /\ screen' = "shown" /\ fallback' = None
  /\ IF page = "settings" /\ screen = "checking" THEN Mount
     ELSE UNCHANGED <<isAdmin, draft, profile>>
  /\ UNCHANGED <<page, card>>

\* A page that was rendered is taken away.
Deny ==
  /\ Verified /\ ~Allowed(page, MyRole)
  /\ screen' = "denied"
  /\ fallback' = IF Landing(MyRole) = None THEN "login" ELSE Landing(MyRole)
  /\ Blank /\ UNCHANGED page

Verify ==
  /\ screen \in {"checking", "rendered"}
  /\ Show \/ Deny \/ (token = NoToken /\ ~CanRefresh /\ ToForm)
  /\ UNCHANGED <<account, crossed, cookie, matrix, call, left>>

\* The countdown of the screen "Access Denied" ends, or its button is pressed.
\* A page is verified when the path changes: being sent to the page one was
\* refused changes nothing.
Redirect ==
  /\ screen = "denied" /\ fallback # page
  /\ IF fallback = "login"
     THEN page' = "login" /\ screen' = "resuming" /\ fallback' = None /\ Blank
     ELSE Goto(fallback)
  /\ UNCHANGED <<account, crossed, browser, matrix, call, left>>

\* handleLogout of the layout and of the screen "Access Denied"; the request
\* may be lost and then the session lives on.
SignOut ==
  /\ screen \in {"shown", "denied"}
  /\ ToForm
  /\ cookie' \in {None, cookie}
  /\ UNCHANGED <<account, crossed, matrix, call, left>>

\* A link within the app.
Visit(p) ==
  /\ screen = "shown" /\ p # page
  /\ Render(p)
  /\ UNCHANGED <<account, crossed, browser, matrix, call, left>>

\* An address is typed or the page reloaded: memory is lost, and nobody waits
\* for the answer of a request that is on its way.  People let the guard finish.
Open(p) ==
  /\ screen \in {"form", "shown"}
  /\ Goto(p)
  /\ token' = NoToken
  /\ call' = [call EXCEPT !["here"] = IF @ = Idle THEN Idle ELSE [@ EXCEPT !.leg = 0]]
  /\ UNCHANGED <<account, crossed, cookie, seen, matrix, left>>

----------------------------------------------------------------------------
(* The role access matrix.                                                 *)

\* The administrator's tab with the switches.  Bound: they are used while no
\* request that changes accounts is on its way.
RolesTab ==
  /\ page = "settings" /\ screen = "shown" /\ isAdmin
  /\ \A c \in {"here", "peer"} : call[c] = Idle

\* A switch of the table is on.
On(m, r) == r \in draft[m]

\* handleToggleModuleRole.
ToggleModuleRole(m, r) ==
  /\ RolesTab
  /\ draft' = [draft EXCEPT ![m] = IF On(m, r) THEN @ \ {r} ELSE @ \cup {r}]
  /\ UNCHANGED <<account, crossed, browser, matrix, page, screen, fallback, isAdmin, profile,
                 card, call, left>>

\* handleSaveRoles: the matrix of this browser.
SaveRoles ==
  /\ RolesTab /\ matrix' = draft
  /\ UNCHANGED <<account, crossed, browser, view, call, left>>

\* handleResetRoles.
ResetRoles ==
  /\ RolesTab /\ matrix' = Default /\ draft' = Default
  /\ UNCHANGED <<account, crossed, browser, page, screen, fallback, isAdmin, profile, card,
                 call, left>>

----------------------------------------------------------------------------
(* The forms that change accounts.                                         *)

\* A request leaves with the token its sender has.  leg 1 is followed by the
\* request of saveStaffCompensationToDB, leg 2 is it or stands alone, and for
\* leg 0 nobody waits.
Send(c, t, op, on, r, leg) ==
  /\ call[c] = Idle /\ left > 0 /\ left' = left - 1
  /\ call' = [call EXCEPT ![c] =
       [op |-> op, by |-> t.user, version |-> t.version, on |-> on, role |-> r,
        leg |-> leg, retried |-> FALSE, st |-> "sent", as |-> None, base |-> Gone]]

Submit(op, on, r, leg) ==
  /\ screen = "shown" /\ token # NoToken
  /\ Send("here", token, op, on, r, leg)
  /\ UNCHANGED <<account, crossed, browser, matrix, view>>

\* The profile form of the settings page shows the role and does not edit it.
ProfileForm == page = "settings" /\ profile # None

\* handleUpdateProfile of the settings page: the role goes back as it was loaded.
SaveProfile == ProfileForm /\ Submit("put", token.user, profile, 2)

\* /users/[id]: fetchUserProfile, for administrators, managers and oneself.
LoadCard(u) ==
  /\ page = "users" /\ screen = "shown" /\ Exists(u)
  /\ token # NoToken /\ token = Issued(token.user)
  /\ account[token.user].role \in {"admin", "manager"} \/ u = token.user
  /\ card' = [user |-> u, role |-> account[u].role]
  /\ UNCHANGED <<account, crossed, browser, matrix, page, screen, fallback, isAdmin, draft,
                 profile, call, left>>

Loaded == page = "users" /\ card # Gone
IsSelf == card.user = token.user

\* The roles that the edit form offers: one's own stays what it was loaded as.
Offered == IF IsSelf THEN {card.role} ELSE Role

\* handleUpdateProfile of /users/[id].
SaveCard(r) == Loaded /\ r \in Offered /\ Submit("put", card.user, r, 1)

\* The button "Delete User", and handleDeleteUser behind its confirmation.
DeleteButton == Loaded /\ ~IsSelf
DeleteCard == DeleteButton /\ Submit("delete", card.user, None, 2)

\* The form of /users/register: an account gets an identifier never used before.
RegisterForm(u) == page = "users" /\ account[u] = Gone

\* handleSubmit of /users/register.
Register(u, r) == RegisterForm(u) /\ Submit("register", u, r, 1)

\* The same requests, sent by an administrator at another browser, whose second
\* request is not followed.
PeerSends(u) ==
  /\ account[u].role = "admin"
  /\ \E on \in User \ {u}, r \in Assignable :
       \/ Send("peer", Issued(u), "put", on, r, 2)
       \/ Send("peer", Issued(u), "delete", on, None, 2)
  /\ UNCHANGED <<account, crossed, browser, matrix, view>>

----------------------------------------------------------------------------
(* The account endpoints.  A request is admitted in a database session of  *)
(* its own, loads the account, and commits what it changed of it.          *)

Drop(c) == call' = [call EXCEPT ![c] = Idle]
At(c, st) == call[c] # Idle /\ call[c].st = st
Current(c) == Exists(call[c].by) /\ account[call[c].by].version = call[c].version

\* get_current_user and require_roles: the role is the one in the database.
Admit(c) ==
  /\ At(c, "sent") /\ Current(c)
  /\ LET r == account[call[c].by].role
     IN \/ call[c].op # "put" /\ r # "admin" /\ Drop(c)
        \/ /\ call[c].op = "put" \/ r = "admin"
           /\ call' = [call EXCEPT ![c].st = "admitted", ![c].as = r]
  /\ UNCHANGED <<account, crossed, browser, matrix, view, left>>

Refused401(c) == At(c, "sent") /\ ~Current(c)

\* 401: the interceptor refreshes and sends the request once more, as whoever
\* the cookie names by then.
Retry(c, u) ==
  /\ ~call[c].retried /\ call[c].leg # 0
  /\ call' = [call EXCEPT ![c].by = u, ![c].version = account[u].version,
                          ![c].retried = TRUE]

Resend(c) ==
  /\ Refused401(c)
  /\ \/ c = "peer" /\ Exists(call[c].by) /\ Retry(c, call[c].by)
        /\ UNCHANGED <<token, seen>>
     \/ c = "here" /\ CanRefresh /\ Retry(c, cookie) /\ Refreshed
  /\ UNCHANGED <<account, crossed, cookie, matrix, view, left>>

\* The second 401, or one that nobody hears; without a session to refresh the
\* browser starts over.
Reject(c) ==
  /\ Refused401(c)
  /\ \/ /\ \/ call[c].retried \/ call[c].leg = 0
           \/ c = "peer" /\ ~Exists(call[c].by)
        /\ UNCHANGED <<token, seen, view>>
     \/ c = "here" /\ ~call[c].retried /\ call[c].leg # 0 /\ ~CanRefresh /\ ToForm
  /\ Drop(c)
  /\ UNCHANGED <<account, crossed, cookie, matrix, left>>

\* The checks of update_user.
Forbidden(k) ==
  \/ k.as # "admin" /\ k.by # k.on
  \/ k.by = k.on /\ k.role # account[k.on].role

\* Mutant of Deletable: an administrator may delete every account.
DeletableAny(k) == Exists(k.on)

Deletable(k) == Exists(k.on) /\ k.by # k.on

Loads(k) ==
  \/ k.op = "put" /\ Exists(k.on) /\ ~Forbidden(k)
  \/ k.op = "delete" /\ Deletable(k)
  \/ k.op = "register" /\ ~Exists(k.on)

Load(c) ==
  /\ At(c, "admitted")
  /\ \/ ~Loads(call[c]) /\ Drop(c)
     \/ /\ Loads(call[c])
        /\ call' = [call EXCEPT ![c].st = "loaded", ![c].base = account[call[c].on]]
  /\ UNCHANGED <<account, crossed, browser, matrix, view, left>>

\* Mutant of Updated: a change of role leaves token_version as it was.
UpdatedQuietly(k) ==
  IF k.role = k.base.role THEN account[k.on] ELSE [account[k.on] EXCEPT !.role = k.role]

\* Mutant of Updated: every column is written, changed or not.
UpdatedAll(k) == [role |-> k.role, version |-> k.base.version]

\* The UPDATE names the columns that differ from the row as it was loaded.
Updated(k) ==
  IF k.role = k.base.role THEN account[k.on]
  ELSE [role |-> k.role, version |-> k.base.version + 1]

\* The commit fails when the row has gone, or the address is taken, meanwhile.
Clash(k) == \/ k.op = "put" /\ ~Exists(k.on)
            \/ k.op = "register" /\ Exists(k.on)

\* saveStaffCompensationToDB: the pay goes to the account in a second PUT, which
\* names the role again.
Second(k) == [k EXCEPT !.op = "put", !.leg = 2, !.retried = FALSE, !.st = "sent",
                       !.as = None, !.base = Gone]

\* router.push of handleDeleteUser, wherever the person is by then.
ToSettings ==
  IF page = "settings" THEN UNCHANGED view
  ELSE IF screen \in {"shown", "rendered"} THEN Render("settings") ELSE Goto("settings")

\* What the page does with the answer; it may be lost.
Answered(c) ==
  LET k == call[c]
  IN \/ Drop(c) /\ UNCHANGED view
     \/ /\ k.leg # 0
        /\ call' = [call EXCEPT ![c] = IF k.leg = 1 THEN Second(k) ELSE Idle]
        /\ IF c = "peer" \/ k.op = "register" THEN UNCHANGED view
           ELSE IF k.op = "delete" THEN ToSettings
           ELSE /\ card' = IF card.role # None /\ card.user = k.on
                           THEN [card EXCEPT !.role = k.role] ELSE card
                /\ UNCHANGED <<page, screen, fallback, isAdmin, draft, profile>>

\* Mutant of Surviving: sessions outlive their account.
SurvivingAll(k) == cookie

\* The sessions of a deleted account go with it (ON DELETE CASCADE).
Surviving(k) == IF k.op = "delete" /\ cookie = k.on THEN None ELSE cookie

\* The row was loaded without a lock: a role and a token_version that another commit
\* has written meanwhile are overwritten.
Stale(k) == k.op = "put" /\ k.role # k.base.role /\ k.base # account[k.on]

Written(k) ==
  CASE k.op = "put"      -> Updated(k)
    [] k.op = "delete"   -> [account[k.on] EXCEPT !.role = None]
    [] k.op = "register" -> [role |-> k.role, version |-> 1]

Commit(c) ==
  /\ At(c, "loaded")
  /\ LET k == call[c]
     IN \/ Clash(k) /\ Drop(c) /\ UNCHANGED <<account, crossed, cookie, view>>
        \/ /\ ~Clash(k) /\ Answered(c)
           /\ account' = [account EXCEPT ![k.on] = Written(k)]
           /\ cookie' = Surviving(k)
           /\ crossed' = crossed \cup (IF Stale(k) THEN {k.on} ELSE {})
  /\ UNCHANGED <<token, seen, matrix, left>>

----------------------------------------------------------------------------
Browse ==
  \/ \E u \in User : SignIn(u)
  \/ Resume \/ Verify \/ Redirect \/ SignOut
  \/ \E p \in Page : Visit(p) \/ Open(p)

Configure ==
  \/ \E t \in Toggled : ToggleModuleRole(t[1], t[2])
  \/ SaveRoles \/ ResetRoles

Edit ==
  \/ SaveProfile \/ DeleteCard
  \/ \E r \in Role : SaveCard(r)
  \/ \E u \in User : LoadCard(u) \/ PeerSends(u)
  \/ \E u \in User, r \in Assignable : Register(u, r)

Serve == \E c \in {"here", "peer"} : Admit(c) \/ Resend(c) \/ Reject(c) \/ Load(c) \/ Commit(c)

Next == Browse \/ Configure \/ Edit \/ Serve

Spec == Init /\ [][Next]_vars

\* Pages load, the countdown of two seconds runs, a refresh is answered.
FairSpec == Spec /\ WF_vars(Verify) /\ WF_vars(Redirect) /\ WF_vars(Resume)

----------------------------------------------------------------------------
Call == [op : {"put", "delete", "register"}, by : User, version : Nat, on : User,
         role : Role \cup {None}, leg : 0 .. 2, retried : BOOLEAN,
         st : {"sent", "admitted", "loaded"}, as : Role \cup {None},
         base : [role : Role \cup {None}, version : Nat]]
Matrix  == [Module -> SUBSET Role]
Account == [role : Role \cup {None}, version : Nat]
Token   == [user : User, version : Nat]

\* Accounts, sessions and requests; the refresh cookie never names an account that
\* was deleted (delete_user); no request but a deletion leaves an account without a
\* role, and none follows a deletion.
AccountTypes ==
  /\ account \in [User -> Account]
  /\ cookie = None \/ (cookie \in User /\ Exists(cookie))
  /\ token \in Token \cup {NoToken}
  /\ seen \in Role \cup {None}
  /\ profile \in Role \cup {None}
  /\ card = Gone \/ card \in [user : User, role : Role]
  /\ call \in [{"here", "peer"} -> Call \cup {Idle}]
  /\ \A c \in {"here", "peer"} : /\ call[c].op \in {"put", "register"} => call[c].role # None
                                 /\ call[c].op = "delete" => call[c].leg # 1

MatrixTypes == matrix \in Matrix /\ draft \in Matrix

\* The types.  Memory holds a token only for a signed-in role.
TypeOK ==
  /\ AccountTypes /\ MatrixTypes
  /\ token # NoToken => seen # None
  /\ crossed \subseteq User
  /\ page \in Module \cup {"settings", "login"}
  /\ screen \in {"form", "resuming", "checking", "rendered", "shown", "denied"}
  /\ fallback \in Module \cup {None, "login"} /\ isAdmin \in BOOLEAN
  /\ left \in 0 .. Budget

\* What update_user and delete_user checked still holds of a request that has
\* loaded its account: it leaves its sender's own role alone, and his account.
LoadedChecked ==
  \A c \in {"here", "peer"} :
    At(c, "loaded") /\ call[c].by = call[c].on =>
      call[c].op # "delete" /\ (call[c].op = "put" => call[c].role = call[c].base.role)

\* A page is shown, or rendered, to somebody with a token in memory.
Signed == screen \in {"rendered", "shown"} => token # NoToken

\* An account is registered under an identifier never used before, from this browser.
RegistersNew ==
  /\ call["peer"].op # "register"
  /\ call["here"].op = "register" => account[call["here"].on] = Gone

\* A token is not newer than its account, and as new it came with the role of now,
\* unless two changes of the role have crossed.
TokenKnows ==
  token # NoToken /\ token.user \notin crossed =>
    /\ token.version <= account[token.user].version
    /\ Exists(token.user) /\ token = Issued(token.user) => seen = account[token.user].role

\* The inductive invariants of the proofs: that of the accounts, and with it that
\* of the types, for which a screen that refuses a page knows where to lead.
IInv == AccountTypes /\ LoadedChecked /\ Signed /\ RegistersNew /\ TokenKnows
TInv == TypeOK /\ IInv /\ (screen = "denied" => fallback # None)

Admins == {u \in User : account[u].role = "admin"}
Commits(c) == At(c, "loaded") /\ call'[c] # call[c]

\* However two administrators' requests interleave, the shop loses its last
\* administrator only to a request whose sender was demoted or deleted after
\* the request was admitted: no administrator ends the role alone, whatever a
\* stale form sends (the checks of update_user and delete_user).
LastAdminFallsToACrossing ==
  [][Admins # {} /\ Admins' = {} =>
       \E c \in {"here", "peer"} :
         Commits(c) /\ call[c].on \in Admins /\ call[c].by \notin Admins]_vars

\* Saving one's own profile never changes a role, not even when the form was
\* loaded under an earlier role or another administrator changes the role
\* between the load and the commit (update_user writes what differs).
OwnSaveKeepsRole ==
  [][\A c \in {"here", "peer"} :
       Commits(c) /\ call[c].op = "put" /\ call[c].by = call[c].on =>
         account'[call[c].on].role = account[call[c].on].role]_vars

\* As long as the server honours the access token in memory, the role in localStorage,
\* by which verifySession decides what to show, is the one the server has: whoever
\* changes it raises token_version.  Two changes that cross are excepted: the second
\* computes token_version from a row it read before the first (update_user).
GuardKnowsRole ==
  token # NoToken /\ Exists(token.user) /\ token = Issued(token.user)
    /\ token.user \notin crossed
    => seen = account[token.user].role

\* Too strong: without that exception it fails.
HonouredKnowsRole ==
  token # NoToken /\ Exists(token.user) /\ token = Issued(token.user)
    => seen = account[token.user].role

\* Too strong: verifySession decides about a page before it is rendered.
RefusedUnseen == screen \in {"rendered", "shown"} => Allowed(page, MyRole)

\* A refused page leads to one that may be shown, or to the login form, under
\* every matrix that leaves the role a workspace: the guard, the landing page
\* and the login page agree (ProtectedRoute, getEffectiveLandingPage).
DeniedSettles ==
  screen = "denied" ~>
    \/ screen \in {"shown", "form"}
    \/ seen = None \/ Landing(seen) = None
============================================================================

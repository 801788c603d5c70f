---------------------------- MODULE Staff_proofs ----------------------------
(***************************************************************************)
(* Theorems about Staff, for any accounts, pages, switches and number of   *)
(* requests: how the last administrator may fall, one's own profile form,  *)
(* and by which role the guard of the pages decides.                       *)
(***************************************************************************)
EXTENDS Staff, SequenceTheorems, TLAPS

USE StaffConstants

-----------------------------------------------------------------------------
(* Facts about the data.                                                    *)

LEMMA NoneIsNoRole == None \notin Role
  BY DEF None, Role

LEMMA IssuedType ==
    ASSUME AccountTypes, NEW u \in User
    PROVE  /\ Issued(u) \in Token /\ account[u] \in Account
           /\ account[u].role \in Role \cup {None} /\ account[u].version \in Nat
  BY DEF AccountTypes, Issued, Account, Token

\* A refresh brings a token of a person.
LEMMA RefreshedType ==
    ASSUME AccountTypes, CanRefresh, Refreshed
    PROVE  token' \in Token /\ seen' \in Role \cup {None}
  BY IssuedType DEF AccountTypes, CanRefresh, Refreshed

LEMMA CallType ==
    ASSUME AccountTypes, NEW c \in {"here", "peer"}, call[c] # Idle
    PROVE  /\ call[c] \in Call /\ call[c].by \in User /\ call[c].on \in User
           /\ call[c].role \in Role \cup {None}
           /\ call[c].base \in Account /\ call[c].op \in {"put", "delete", "register"}
           /\ call[c].op # "delete" => call[c].role # None
           /\ call[c].op = "delete" => call[c].leg # 1
  <1>1. call[c] \in Call
    BY DEF AccountTypes
  <1>2. /\ call[c].op \in {"put", "register"} => call[c].role # None
        /\ call[c].op = "delete" => call[c].leg # 1
    BY DEF AccountTypes
  <1>3. /\ call[c].by \in User /\ call[c].on \in User /\ call[c].role \in Role \cup {None}
        /\ call[c].base \in Account /\ call[c].op \in {"put", "delete", "register"}
    BY <1>1 DEF Call, Account
  <1>4. QED
    BY <1>1, <1>2, <1>3

\* The request that follows is one, and it is an update.
LEMMA SecondType ==
    ASSUME NEW k \in Call
    PROVE  /\ Second(k) \in Call /\ Second(k).st = "sent" /\ Second(k).op = "put"
           /\ Second(k).role = k.role
  <1>1. PICK i \in Call : i = [k EXCEPT !.op = "put", !.leg = 2, !.retried = FALSE]
    <2>1. [k EXCEPT !.op = "put"] \in Call
      BY DEF Call
    <2>2. \A j \in Call : [j EXCEPT !.leg = 2] \in Call
      BY DEF Call
    <2>3. \A j \in Call : [j EXCEPT !.retried = FALSE] \in Call
      BY DEF Call
    <2>4. [[[k EXCEPT !.op = "put"] EXCEPT !.leg = 2] EXCEPT !.retried = FALSE] \in Call
      BY <2>1, <2>2, <2>3
    <2>5. QED
      BY <2>4
  <1>2. i.op = "put" /\ i.role = k.role
    BY <1>1 DEF Call
  <1>3. Gone \in [role : Role \cup {None}, version : Nat]
    BY DEF Gone
  <1>4. Second(k) = [i EXCEPT !.st = "sent", !.as = None, !.base = Gone]
    BY <1>1 DEF Second
  <1>5. [i EXCEPT !.st = "sent", !.as = None, !.base = Gone] \in Call
    BY <1>3 DEF Call
  <1>6. /\ [i EXCEPT !.st = "sent", !.as = None, !.base = Gone].st = "sent"
        /\ [i EXCEPT !.st = "sent", !.as = None, !.base = Gone].op = i.op
        /\ [i EXCEPT !.st = "sent", !.as = None, !.base = Gone].role = i.role
    BY DEF Call
  <1>7. QED
    BY <1>2, <1>4, <1>5, <1>6

LEMMA IdleIsNoCall == Idle \notin Call /\ Idle.op = "idle"
  BY DEF Idle, Call

-----------------------------------------------------------------------------
(* The invariant: steps that send or serve no request.                      *)

\* The part of it about accounts and requests.
Core == AccountTypes /\ LoadedChecked

LEMMA InitIInv == Init => IInv
  <1> SUFFICES ASSUME Init PROVE IInv
    OBVIOUS
  <1>1. account \in [User -> Account]
    BY DEF Init, Account
  <1>2. call \in [{"here", "peer"} -> Call \cup {Idle}] /\ \A c \in {"here", "peer"} : call[c] = Idle
    BY DEF Init
  <1>3. AccountTypes /\ LoadedChecked
    BY <1>1, <1>2, IdleIsNoCall DEF Init, AccountTypes, LoadedChecked, At
  <1>4. Signed /\ RegistersNew /\ TokenKnows
    BY <1>2, IdleIsNoCall DEF Init, Signed, RegistersNew, TokenKnows
  <1>5. QED
    BY <1>3, <1>4 DEF IInv

\* The profile form shows a role, whether the answer or localStorage has it.
LEMMA MountType ==
    ASSUME AccountTypes, token # NoToken \/ CanRefresh, Mount
    PROVE  profile' \in Role \cup {None}
  <1>1. Me \in User
    BY DEF AccountTypes, CanRefresh, Me, Token
  <1>2. account[Me].role \in Role \cup {None}
    BY <1>1, IssuedType
  <1>3. MyRole \in Role \cup {None}
    BY IssuedType DEF AccountTypes, CanRefresh, MyRole
  <1>4. QED
    BY <1>2, <1>3 DEF Mount

LEMMA RenderType ==
    ASSUME AccountTypes, token # NoToken, NEW p, Render(p)
    PROVE  profile' \in Role \cup {None} /\ card' = Gone
  BY MountType DEF Render

\* The browser's own variables may take any value of their type while the accounts
\* and the requests stay, but for who waits for the latter.
LEMMA BrowserStep ==
    ASSUME IInv, account' = account,
           \/ call' = call
           \/ call' = [call EXCEPT !["here"] = IF @ = Idle THEN Idle ELSE [@ EXCEPT !.leg = 0]],
           cookie' \in {None, cookie} \/ (cookie' \in User /\ Exists(cookie')),
           token' \in Token \cup {NoToken}, seen' \in Role \cup {None},
           profile' \in Role \cup {None}, card' = Gone \/ card' \in [user : User, role : Role]
    PROVE  Core'
  <1> USE DEF IInv, Core
  <1>1. /\ call' \in [{"here", "peer"} -> Call \cup {Idle}]
        /\ \A c \in {"here", "peer"} :
             \/ call'[c] = call[c]
             \/ /\ call[c] # Idle /\ call'[c] # Idle /\ call'[c].op = call[c].op
                /\ call'[c].by = call[c].by /\ call'[c].on = call[c].on
                /\ call'[c].role = call[c].role /\ call'[c].base = call[c].base
                /\ call'[c].st = call[c].st /\ call'[c].leg \in {0, call[c].leg}
    <2>1. CASE call' = call
      BY <2>1 DEF AccountTypes
    <2>2. CASE /\ call["here"] = Idle
               /\ call' = [call EXCEPT !["here"] = IF @ = Idle THEN Idle ELSE [@ EXCEPT !.leg = 0]]
      BY <2>2 DEF AccountTypes
    <2>3. CASE /\ call["here"] # Idle
               /\ call' = [call EXCEPT !["here"] = IF @ = Idle THEN Idle ELSE [@ EXCEPT !.leg = 0]]
      <3>1. call["here"] \in Call
        BY <2>3, CallType
      <3>2. PICK k \in Call : k = [call["here"] EXCEPT !.leg = 0]
        <4>1. [call["here"] EXCEPT !.leg = 0] \in Call
          BY <3>1 DEF Call
        <4>2. QED
          BY <4>1
      <3>3. /\ k # Idle /\ k.op = call["here"].op /\ k.by = call["here"].by
            /\ k.on = call["here"].on /\ k.role = call["here"].role
            /\ k.base = call["here"].base /\ k.st = call["here"].st /\ k.leg = 0
        <4>1. k # Idle
          BY IdleIsNoCall
        <4>2. QED
          BY <3>1, <3>2, <4>1 DEF Call
      <3>4. call' = [call EXCEPT !["here"] = k]
        BY <2>3, <3>2
      <3>5. /\ call' \in [{"here", "peer"} -> Call \cup {Idle}]
            /\ call'["here"] = k /\ call'["peer"] = call["peer"]
        BY <3>4 DEF AccountTypes
      <3>6. QED
        BY <2>3, <3>3, <3>5
    <2>4. QED
      BY <2>1, <2>2, <2>3
  <1>2. cookie' = None \/ (cookie' \in User /\ account'[cookie'].role # None)
    BY DEF AccountTypes, Exists
  <1>3. \A c \in {"here", "peer"} : /\ call'[c].op \in {"put", "register"} => call'[c].role # None
                                    /\ call'[c].op = "delete" => call'[c].leg # 1
    BY <1>1 DEF AccountTypes
  <1>4. AccountTypes'
    BY <1>1, <1>2, <1>3 DEF AccountTypes, Exists
  <1>5. LoadedChecked'
    BY <1>1 DEF LoadedChecked, At
  <1>6. QED
    BY <1>4, <1>5

LEMMA BrowseStep ==
    ASSUME IInv, Browse
    PROVE  Core'
  <1> USE DEF IInv, Core
  <1>1. account' = account
    BY DEF Browse, SignIn, Resume, Verify, Redirect, SignOut, Visit, Open, browser
  <1>2. \/ call' = call
        \/ call' = [call EXCEPT !["here"] = IF @ = Idle THEN Idle ELSE [@ EXCEPT !.leg = 0]]
    BY DEF Browse, SignIn, Resume, Verify, Redirect, SignOut, Visit, Open
  <1>3. cookie' \in {None, cookie} \/ (cookie' \in User /\ Exists(cookie'))
    BY DEF Browse, SignIn, Resume, Verify, Redirect, SignOut, Visit, Open, browser
  <1>4. /\ token \in Token \cup {NoToken} /\ seen \in Role \cup {None}
        /\ profile \in Role \cup {None} /\ (card = Gone \/ card \in [user : User, role : Role])
    BY DEF AccountTypes
  <1>5. token' \in Token \cup {NoToken} /\ seen' \in Role \cup {None}
    <2>1. ASSUME NEW u \in User, SignIn(u)
          PROVE  token' \in Token \cup {NoToken} /\ seen' \in Role \cup {None}
      BY <2>1, IssuedType DEF SignIn
    <2>2. CASE Resume
      BY <2>2, RefreshedType DEF Resume, ToForm
    <2>3. CASE Verify
      BY <1>4, <2>3, RefreshedType DEF Verify, Show, Deny, Verified, ToForm
    <2>4. CASE SignOut
      BY <2>4 DEF SignOut, ToForm
    <2>5. CASE Redirect \/ \E p \in Page : Visit(p) \/ Open(p)
      BY <1>4, <2>5 DEF Redirect, Visit, Open, browser
    <2>6. QED
      BY <2>1, <2>2, <2>3, <2>4, <2>5 DEF Browse
  <1>6. profile' \in Role \cup {None} /\ (card' = Gone \/ card' \in [user : User, role : Role])
    <2>1. ASSUME Blank
          PROVE  profile' \in Role \cup {None} /\ card' = Gone
      BY <2>1 DEF Blank
    <2>2. CASE Show
      <3>1. card' = card /\ Verified
        BY <2>2 DEF Show
      <3>2. profile' \in Role \cup {None}
        BY <1>4, <2>2, <3>1, MountType DEF Show, Verified
      <3>3. QED
        BY <1>4, <3>1, <3>2
    <2>3. CASE \/ Deny \/ Resume \/ Redirect \/ SignOut \/ ToForm \/ \E p \in Page : Open(p)
      BY <2>1, <2>3 DEF Deny, Resume, Redirect, SignOut, ToForm, Open, Goto
    <2>4. ASSUME NEW u \in User, SignIn(u)
          PROVE  profile' \in Role \cup {None} /\ (card' = Gone \/ card' \in [user : User, role : Role])
      BY <1>4, <2>1, <2>4 DEF SignIn, Goto, view, forms
    <2>5. ASSUME NEW p \in Page, Visit(p)
          PROVE  profile' \in Role \cup {None} /\ card' = Gone
      <3>1. Render(p) /\ token # NoToken
        BY <2>5 DEF Visit, Signed
      <3>2. QED
        BY <3>1, RenderType
    <2>6. QED
      BY <2>2, <2>3, <2>4, <2>5 DEF Browse, Verify
  <1>7. QED
    BY <1>1, <1>2, <1>3, <1>5, <1>6, BrowserStep

LEMMA ConfigureStep ==
    ASSUME IInv, Configure
    PROVE  Core'
  <1>1. UNCHANGED <<account, browser, profile, card, call>>
    BY DEF Configure, ToggleModuleRole, SaveRoles, ResetRoles, view, forms
  <1>2. QED
    BY <1>1, BrowserStep DEF IInv, AccountTypes, browser

-----------------------------------------------------------------------------
(* The invariant: steps that send or serve a request.                       *)

\* One request changes; the accounts stay.
LEMMA RequestStep ==
    ASSUME IInv, NEW c \in {"here", "peer"}, NEW k \in Call \cup {Idle},
           call' = [call EXCEPT ![c] = k],
           k.op \in {"put", "register"} => k.role # None, k.op = "delete" => k.leg # 1,
           k # Idle /\ k.st = "loaded" /\ k.by = k.on =>
             k.op # "delete" /\ (k.op = "put" => k.role = k.base.role),
           UNCHANGED <<account, cookie>>,
           token' \in Token \cup {NoToken}, seen' \in Role \cup {None},
           profile' \in Role \cup {None}, card' = Gone \/ card' \in [user : User, role : Role]
    PROVE  Core'
  <1> USE DEF IInv, Core
  <1>1. /\ call' \in [{"here", "peer"} -> Call \cup {Idle}] /\ call'[c] = k
        /\ \A d \in {"here", "peer"} : d # c => call'[d] = call[d]
    BY DEF AccountTypes
  <1>2. \A d \in {"here", "peer"} : /\ call'[d].op \in {"put", "register"} => call'[d].role # None
                                    /\ call'[d].op = "delete" => call'[d].leg # 1
    BY <1>1 DEF AccountTypes
  <1>3. AccountTypes'
    BY <1>1, <1>2 DEF AccountTypes, Exists
  <1>4. LoadedChecked'
    <2>1. SUFFICES ASSUME NEW d \in {"here", "peer"}, call'[d] # Idle, call'[d].st = "loaded",
                          call'[d].by = call'[d].on
                   PROVE  /\ call'[d].op # "delete"
                          /\ call'[d].op = "put" => call'[d].role = call'[d].base.role
      BY DEF LoadedChecked, At
    <2>2. CASE d = c
      BY <1>1, <2>1, <2>2
    <2>3. CASE d # c
      BY <1>1, <2>1, <2>3 DEF LoadedChecked, At
    <2>4. QED
      BY <2>2, <2>3
  <1>5. QED
    BY <1>3, <1>4

\* A request that is sent has loaded nothing.
LEMMA SendStep ==
    ASSUME IInv, NEW c \in {"here", "peer"}, NEW t \in Token, NEW op \in {"put", "delete", "register"},
           NEW on \in User, NEW r \in Role \cup {None}, op # "delete" => r # None,
           NEW leg \in 0 .. 2, op = "delete" => leg # 1, Send(c, t, op, on, r, leg),
           UNCHANGED <<account, browser, matrix, view>>
    PROVE  Core'
  <1> DEFINE k == [op |-> op, by |-> t.user, version |-> t.version, on |-> on, role |-> r,
                   leg |-> leg, retried |-> FALSE, st |-> "sent", as |-> None, base |-> Gone]
  <1>1. t.user \in User /\ t.version \in Nat /\ Gone \in [role : Role \cup {None}, version : Nat]
    BY DEF Token, Gone
  <1>2. k \in Call
    BY <1>1 DEF Call
  <1>3. call' = [call EXCEPT ![c] = k] /\ k.st = "sent" /\ k.op = op /\ k.role = r /\ k.leg = leg
    BY DEF Send
  <1>4. UNCHANGED <<account, cookie, token, seen, profile, card>>
    BY DEF browser, view, forms
  <1> HIDE DEF k
  <1>5. QED
    BY <1>2, <1>3, <1>4, RequestStep DEF IInv, AccountTypes

LEMMA EditStep ==
    ASSUME IInv, Edit
    PROVE  Core'
  <1> USE DEF IInv, Core
  <1>1. token # NoToken => token \in Token /\ token.user \in User
    BY DEF AccountTypes, Token
  <1>2. ASSUME NEW op \in {"put", "delete", "register"}, NEW on \in User, NEW r \in Role \cup {None},
               op # "delete" => r # None, NEW leg \in 0 .. 2, op = "delete" => leg # 1,
               Submit(op, on, r, leg)
        PROVE  Core'
    BY <1>1, <1>2, SendStep DEF Submit
  <1>3. CASE SaveProfile
    <2>1. profile \in Role \cup {None} /\ profile # None /\ token # NoToken
      BY <1>3 DEF SaveProfile, ProfileForm, AccountTypes, Submit
    <2>2. QED
      BY <1>1, <1>2, <1>3, <2>1 DEF SaveProfile
  <1>4. card # Gone => card.user \in User /\ card.role \in Role
    BY DEF AccountTypes
  <1>5. CASE DeleteCard
    BY <1>2, <1>4, <1>5 DEF DeleteCard, DeleteButton, Loaded
  <1>6. ASSUME NEW r \in Role, SaveCard(r)
        PROVE  Core'
    BY <1>2, <1>4, <1>6, NoneIsNoRole DEF SaveCard, Loaded
  <1>7. ASSUME NEW u \in User, LoadCard(u)
        PROVE  Core'
    <2>1. card' \in [user : User, role : Role]
      BY <1>7, IssuedType DEF LoadCard, Exists
    <2>2. UNCHANGED <<account, browser, profile, call>>
      BY <1>7 DEF LoadCard
    <2>3. QED
      BY <2>1, <2>2, BrowserStep DEF AccountTypes, browser
  <1>8. ASSUME NEW u \in User, PeerSends(u)
        PROVE  Core'
    <2>1. Issued(u) \in Token
      BY IssuedType
    <2>2. PICK on \in User, r \in Assignable :
            \/ Send("peer", Issued(u), "put", on, r, 2)
            \/ Send("peer", Issued(u), "delete", on, None, 2)
      BY <1>8 DEF PeerSends
    <2>3. UNCHANGED <<account, browser, matrix, view>>
      BY <1>8 DEF PeerSends
    <2>4. r \in Role
      OBVIOUS
    <2>5. QED
      BY <2>1, <2>2, <2>3, <2>4, SendStep, NoneIsNoRole
  <1>9. ASSUME NEW u \in User, NEW r \in Assignable, Register(u, r)
        PROVE  Core'
    BY <1>2, <1>9, NoneIsNoRole DEF Register
  <1>10. QED
    BY <1>3, <1>5, <1>6, <1>7, <1>8, <1>9 DEF Edit

LEMMA AdmitStep ==
    ASSUME IInv, NEW c \in {"here", "peer"}, Admit(c)
    PROVE  Core'
  <1> USE DEF IInv, Core
  <1>1. UNCHANGED <<account, cookie, token, seen, profile, card>>
    BY DEF Admit, browser, view, forms
  <1>2. /\ call[c] \in Call /\ call[c].by \in User /\ (call[c].op # "delete" => call[c].role # None)
        /\ call[c].op = "delete" => call[c].leg # 1
    BY CallType DEF Admit, At
  <1>3. account[call[c].by].role \in Role \cup {None}
    BY <1>2, IssuedType
  <1>4. CASE Drop(c)
    BY <1>1, <1>4, RequestStep, IdleIsNoCall DEF Drop, AccountTypes
  <1>5. CASE call' = [call EXCEPT ![c].st = "admitted", ![c].as = account[call[c].by].role]
    <2>1. PICK k \in Call : k = [call[c] EXCEPT !.st = "admitted", !.as = account[call[c].by].role]
      BY <1>2, <1>3 DEF Call
    <2>2. k.st = "admitted" /\ k.op = call[c].op /\ k.role = call[c].role /\ k.leg = call[c].leg
      BY <1>2, <2>1 DEF Call
    <2>3. call' = [call EXCEPT ![c] = k]
      BY <1>5, <2>1 DEF AccountTypes
    <2>4. QED
      BY <1>1, <1>2, <2>2, <2>3, RequestStep DEF AccountTypes
  <1>6. QED
    BY <1>4, <1>5 DEF Admit

LEMMA ResendStep ==
    ASSUME IInv, NEW c \in {"here", "peer"}, Resend(c)
    PROVE  Core'
  <1> USE DEF IInv, Core
  <1>1. UNCHANGED <<account, cookie, profile, card>>
    BY DEF Resend, view, forms
  <1>2. /\ call[c] \in Call /\ call[c].by \in User /\ (call[c].op # "delete" => call[c].role # None)
        /\ call[c].op = "delete" => call[c].leg # 1
        /\ call[c].st = "sent"
    BY CallType DEF Resend, Refused401, At
  <1>3. PICK u \in User : Retry(c, u)
    BY <1>2 DEF Resend, CanRefresh, AccountTypes
  <1>4. token' \in Token \cup {NoToken} /\ seen' \in Role \cup {None}
    BY RefreshedType DEF Resend, AccountTypes
  <1>5. PICK k \in Call :
          k = [call[c] EXCEPT !.by = u, !.version = account[u].version, !.retried = TRUE]
    BY <1>2, IssuedType DEF Call
  <1>6. k.st = "sent" /\ k.op = call[c].op /\ k.role = call[c].role /\ k.leg = call[c].leg
    BY <1>2, <1>5 DEF Call
  <1>7. call' = [call EXCEPT ![c] = k]
    BY <1>3, <1>5 DEF Retry, AccountTypes
  <1>8. QED
    BY <1>1, <1>2, <1>4, <1>6, <1>7, RequestStep DEF AccountTypes

LEMMA RejectStep ==
    ASSUME IInv, NEW c \in {"here", "peer"}, Reject(c)
    PROVE  Core'
  <1> USE DEF IInv, Core
  <1>1. UNCHANGED <<account, cookie>> /\ call' = [call EXCEPT ![c] = Idle]
    BY DEF Reject, Drop
  <1>2. /\ token' \in Token \cup {NoToken} /\ seen' \in Role \cup {None}
        /\ profile' \in Role \cup {None} /\ (card' = Gone \/ card' \in [user : User, role : Role])
    BY DEF Reject, ToForm, Blank, view, forms, AccountTypes
  <1>3. QED
    BY <1>1, <1>2, RequestStep, IdleIsNoCall

LEMMA LoadStep ==
    ASSUME IInv, NEW c \in {"here", "peer"}, Load(c)
    PROVE  Core'
  <1> USE DEF IInv, Core
  <1>1. UNCHANGED <<account, cookie, token, seen, profile, card>>
    BY DEF Load, browser, view, forms
  <1>2. /\ call[c] \in Call /\ call[c].on \in User /\ call[c].op \in {"put", "delete", "register"}
        /\ (call[c].op # "delete" => call[c].role # None) /\ (call[c].op = "delete" => call[c].leg # 1)
    BY CallType DEF Load, At
  <1>3. CASE Drop(c)
    BY <1>1, <1>3, RequestStep, IdleIsNoCall DEF Drop, AccountTypes
  <1>4. CASE /\ Loads(call[c])
             /\ call' = [call EXCEPT ![c].st = "loaded", ![c].base = account[call[c].on]]
    <2>1. account[call[c].on] \in [role : Role \cup {None}, version : Nat]
      BY <1>2, IssuedType DEF Account
    <2>2. PICK k \in Call : k = [call[c] EXCEPT !.st = "loaded", !.base = account[call[c].on]]
      BY <1>2, <2>1 DEF Call
    <2>3. /\ k.op = call[c].op /\ k.role = call[c].role /\ k.by = call[c].by /\ k.on = call[c].on
          /\ k.base = account[call[c].on] /\ k.leg = call[c].leg
      BY <1>2, <2>2 DEF Call
    <2>4. k.by = k.on => k.op # "delete" /\ (k.op = "put" => k.role = k.base.role)
      BY <1>4, <2>3 DEF Loads, Deletable, Forbidden
    <2>5. call' = [call EXCEPT ![c] = k]
      BY <1>4, <2>2 DEF AccountTypes
    <2>6. QED
      BY <1>1, <1>2, <2>3, <2>4, <2>5, RequestStep DEF AccountTypes
  <1>5. QED
    BY <1>3, <1>4 DEF Load

\* The commit changes one account, which keeps its type, and its request.  An
\* update that leaves an account with a role leaves the cookie somebody's.
LEMMA CommitEffect ==
    ASSUME IInv, NEW c \in {"here", "peer"}, Commit(c)
    PROVE  /\ call[c] \in Call /\ call[c].on \in User
           /\ \/ account' = account /\ cookie' = cookie
              \/ /\ ~Clash(call[c])
                 /\ account' = [account EXCEPT ![call[c].on] = Written(call[c])]
                 /\ cookie' = Surviving(call[c])
           /\ Written(call[c]) \in Account
           /\ call[c].op # "delete" /\ ~Clash(call[c]) => Written(call[c]).role # None
           /\ UNCHANGED <<token, seen>> /\ profile' \in Role \cup {None}
           /\ card' = Gone \/ card' \in [user : User, role : Role]
           /\ \/ call' = [call EXCEPT ![c] = Idle]
              \/ call[c].op # "delete" /\ call' = [call EXCEPT ![c] = Second(call[c])]
  <1> USE DEF IInv
  <1> DEFINE k == call[c]
  <1>1. /\ k \in Call /\ k.by \in User /\ k.on \in User /\ k.role \in Role \cup {None}
        /\ k.base \in Account /\ k.op \in {"put", "delete", "register"}
        /\ (k.op # "delete" => k.role # None) /\ (k.op = "delete" => k.leg # 1)
    BY CallType DEF Commit, At
  <1> HIDE DEF k
  <1>2. \/ Drop(c) /\ UNCHANGED <<account, cookie, view>>
        \/ /\ ~Clash(k) /\ Answered(c) /\ account' = [account EXCEPT ![k.on] = Written(k)]
           /\ cookie' = Surviving(k)
    BY DEF Commit, k
  <1>3. Written(k) \in Account /\ (k.op # "delete" /\ ~Clash(k) => Written(k).role # None)
    <2>1. account[k.on] \in Account
      BY <1>1, IssuedType
    <2>2. CASE k.op = "put"
      BY <1>1, <2>1, <2>2 DEF Written, Updated, Account, Clash, Exists
    <2>3. CASE k.op = "delete"
      BY <2>1, <2>3 DEF Written, Account
    <2>4. CASE k.op = "register"
      BY <1>1, <2>4 DEF Written, Account
    <2>5. QED
      BY <1>1, <2>2, <2>3, <2>4
  <1>4. \/ call' = [call EXCEPT ![c] = Idle]
        \/ k.op # "delete" /\ call' = [call EXCEPT ![c] = Second(k)]
    BY <1>1, <1>2 DEF Drop, Answered, k
  <1>5. UNCHANGED <<token, seen>>
    BY DEF Commit
  <1>6. /\ profile' \in Role \cup {None}
        /\ card' = Gone \/ card' \in [user : User, role : Role]
    <2>1. CASE UNCHANGED view
      BY <2>1 DEF view, forms, AccountTypes
    <2>2. CASE ToSettings
      <3>1. CASE UNCHANGED view
        BY <2>1, <3>1
      <3>2. CASE Goto("settings")
        BY <3>2 DEF Goto, Blank
      <3>3. CASE Render("settings") /\ screen \in {"shown", "rendered"}
        BY <3>3, RenderType DEF Signed
      <3>4. QED
        BY <2>2, <3>1, <3>2, <3>3 DEF ToSettings
    <2>3. CASE /\ k.op = "put" /\ profile' = profile
               /\ card' = IF card.role # None /\ card.user = k.on
                          THEN [card EXCEPT !.role = k.role] ELSE card
      <3>1. card.role # None => card \in [user : User, role : Role]
        BY DEF AccountTypes, Gone
      <3>2. k.role \in Role
        BY <1>1, <2>3
      <3>3. QED
        BY <2>3, <3>1, <3>2 DEF AccountTypes
    <2>4. QED
      BY <1>1, <1>2, <2>1, <2>2, <2>3 DEF Answered, k
  <1>7. QED
    BY <1>1, <1>2, <1>3, <1>4, <1>5, <1>6 DEF Drop, k

LEMMA CommitStep ==
    ASSUME IInv, NEW c \in {"here", "peer"}, Commit(c)
    PROVE  Core'
  <1> USE DEF IInv, Core
  <1> DEFINE k == call[c]
  <1>1. /\ k \in Call /\ k.on \in User /\ Written(k) \in Account
        /\ k.op # "delete" /\ ~Clash(k) => Written(k).role # None
        /\ \/ account' = account /\ cookie' = cookie
           \/ /\ ~Clash(k) /\ account' = [account EXCEPT ![k.on] = Written(k)]
              /\ cookie' = Surviving(k)
    BY CommitEffect
  <1>2. /\ UNCHANGED <<token, seen>> /\ profile' \in Role \cup {None}
        /\ card' = Gone \/ card' \in [user : User, role : Role]
    BY CommitEffect
  <1>3. PICK q \in Call \cup {Idle} :
          /\ call' = [call EXCEPT ![c] = q] /\ (q # Idle => q.st = "sent")
          /\ (q.op \in {"put", "register"} => q.role # None) /\ (q.op = "delete" => q.leg # 1)
    <2>1. CASE call' = [call EXCEPT ![c] = Idle]
      BY <2>1, IdleIsNoCall
    <2>2. CASE k.op # "delete" /\ call' = [call EXCEPT ![c] = Second(k)]
      <3>1. k.role # None
        BY <2>2, CallType DEF Commit, At
      <3>2. /\ Second(k) \in Call /\ Second(k).st = "sent" /\ Second(k).op = "put"
            /\ Second(k).role = k.role
        BY <1>1, SecondType
      <3>3. QED
        BY <2>2, <3>1, <3>2
    <2>3. QED
      BY <2>1, <2>2, CommitEffect
  <1> HIDE DEF k
  <1>4. /\ call' \in [{"here", "peer"} -> Call \cup {Idle}] /\ call'[c] = q
        /\ \A d \in {"here", "peer"} : d # c => call'[d] = call[d]
    BY <1>3 DEF AccountTypes
  <1>5. \A d \in {"here", "peer"} : /\ call'[d].op \in {"put", "register"} => call'[d].role # None
                                    /\ call'[d].op = "delete" => call'[d].leg # 1
    BY <1>3, <1>4 DEF AccountTypes
  <1>6. account' \in [User -> Account]
    BY <1>1 DEF AccountTypes
  <1>7. cookie' = None \/ (cookie' \in User /\ account'[cookie'].role # None)
    <2>1. CASE account' = account /\ cookie' = cookie
      BY <2>1 DEF AccountTypes, Exists
    <2>2. CASE /\ ~Clash(k) /\ account' = [account EXCEPT ![k.on] = Written(k)]
               /\ cookie' = Surviving(k)
      <3>1. CASE cookie # None /\ cookie = k.on
        BY <1>1, <2>2, <3>1 DEF Surviving, AccountTypes
      <3>2. CASE cookie = None \/ cookie # k.on
        BY <1>1, <2>2, <3>2 DEF Surviving, AccountTypes, Exists
      <3>3. QED
        BY <3>1, <3>2
    <2>3. QED
      BY <1>1, <2>1, <2>2
  <1>8. AccountTypes'
    BY <1>2, <1>4, <1>5, <1>6, <1>7 DEF AccountTypes, Exists
  <1>9. LoadedChecked'
    <2>1. SUFFICES ASSUME NEW d \in {"here", "peer"}, call'[d] # Idle, call'[d].st = "loaded",
                          call'[d].by = call'[d].on
                   PROVE  /\ call'[d].op # "delete"
                          /\ call'[d].op = "put" => call'[d].role = call'[d].base.role
      BY DEF LoadedChecked, At
    <2>2. d # c
      BY <1>3, <1>4, <2>1
    <2>3. QED
      BY <1>4, <2>1, <2>2 DEF LoadedChecked, At
  <1>10. QED
    BY <1>8, <1>9

LEMMA CoreStep == IInv /\ [Next]_vars => Core'
  <1> SUFFICES ASSUME IInv, [Next]_vars PROVE Core'
    OBVIOUS
  <1>1. CASE Browse
    BY <1>1, BrowseStep
  <1>2. CASE Configure
    BY <1>2, ConfigureStep
  <1>3. CASE Edit
    BY <1>3, EditStep
  <1>4. CASE Serve
    BY <1>4, AdmitStep, ResendStep, RejectStep, LoadStep, CommitStep DEF Serve
  <1>5. CASE UNCHANGED vars
    <2>1. UNCHANGED <<account, cookie, token, seen, profile, card, call>>
      BY <1>5 DEF vars, browser, view, forms
    <2>2. QED
      BY <2>1, BrowserStep DEF IInv, AccountTypes
  <1>6. QED
    BY <1>1, <1>2, <1>3, <1>4, <1>5 DEF Next

-----------------------------------------------------------------------------
(* The invariant: the token in memory.                                      *)

\* Only a commit changes an account, and what is remembered of its writes.
LEMMA AccountsChange ==
    ASSUME Next
    PROVE  UNCHANGED <<account, crossed>> \/ \E c \in {"here", "peer"} : Commit(c)
  BY DEF Next, Browse, SignIn, Resume, Verify, Redirect, SignOut, Visit, Open, Configure,
         ToggleModuleRole, SaveRoles, ResetRoles, Edit, SaveProfile, DeleteCard, SaveCard,
         LoadCard, PeerSends, Register, Submit, Serve, Admit, Resend, Reject, Load

\* A token comes from a login or a refresh, with the role of the account.
LEMMA TokenChange ==
    ASSUME AccountTypes, Next
    PROVE  \/ UNCHANGED <<token, seen>>
           \/ token' = NoToken
           \/ \E u \in User : token' = Issued(u) /\ seen' = account[u].role
  <1> DEFINE Goal == \/ UNCHANGED <<token, seen>>
                     \/ token' = NoToken
                     \/ \E u \in User : token' = Issued(u) /\ seen' = account[u].role
  <1>1. CanRefresh /\ Refreshed => Goal
    BY DEF AccountTypes, CanRefresh, Refreshed
  <1>2. ToForm => Goal
    BY DEF ToForm
  <1>3. CASE Browse
    <2>1. ASSUME NEW u \in User, SignIn(u) PROVE Goal
      BY <2>1 DEF SignIn
    <2>2. CASE Resume \/ Verify
      BY <1>1, <1>2, <2>2 DEF Resume, Verify, Show, Deny, Verified
    <2>3. CASE Redirect \/ SignOut \/ \E p \in Page : Visit(p) \/ Open(p)
      BY <1>2, <2>3 DEF Redirect, SignOut, Visit, Open, browser
    <2>4. QED
      BY <1>3, <2>1, <2>2, <2>3 DEF Browse
  <1>4. CASE Configure \/ Edit
    BY <1>4 DEF browser, Configure, ToggleModuleRole, SaveRoles, ResetRoles, Edit, SaveProfile,
                DeleteCard, SaveCard, LoadCard, PeerSends, Register, Submit
  <1>5. CASE Serve
    BY <1>1, <1>2, <1>5 DEF browser, Serve, Admit, Resend, Reject, Load, Commit
  <1>6. QED
    BY <1>3, <1>4, <1>5 DEF Next

\* Nothing is shown or rendered without a token.
LEMMA SignedStep ==
    ASSUME IInv, [Next]_vars
    PROVE  Signed'
  <1> USE DEF IInv
  <1>u. UNCHANGED <<token, screen>> => Signed'
    BY DEF Signed
  <1>g. \A p : Goto(p) => Signed'
    BY DEF Goto, Signed
  <1>f. ToForm => Signed'
    BY DEF ToForm, Signed
  <1>r. ASSUME CanRefresh, Refreshed PROVE token' # NoToken
    BY <1>r DEF CanRefresh, Refreshed, Issued, NoToken
  <1>1. CASE Browse
    <2>1. ASSUME NEW u \in User, SignIn(u) PROVE Signed'
      <3>1. screen = "form" /\ (UNCHANGED view \/ \E p : Goto(p))
        BY <2>1 DEF SignIn
      <3>2. UNCHANGED view => screen' = "form" \/ screen # "form"
        BY DEF view
      <3>3. QED
        BY <1>g, <3>1, <3>2 DEF Signed
    <2>2. CASE Resume \/ Redirect \/ SignOut
      BY <1>f, <1>g, <2>2 DEF Resume, Redirect, SignOut, Signed
    <2>3. CASE Show
      <3>1. Verified
        BY <2>3 DEF Show
      <3>2. token' # NoToken
        BY <1>r, <3>1 DEF Verified
      <3>3. QED
        BY <3>2 DEF Signed
    <2>4. CASE Deny \/ ToForm
      BY <1>f, <2>4 DEF Deny, Signed
    <2>5. ASSUME NEW p \in Page, Visit(p) PROVE Signed'
      BY <2>5 DEF Visit, browser, Signed
    <2>6. ASSUME NEW p \in Page, Open(p) PROVE Signed'
      BY <1>g, <2>6 DEF Open
    <2>7. QED
      BY <1>1, <2>1, <2>2, <2>3, <2>4, <2>5, <2>6 DEF Browse, Verify
  <1>2. CASE Configure
    BY <1>2, <1>u DEF Configure, ToggleModuleRole, SaveRoles, ResetRoles, browser, view
  <1>3. CASE Edit
    BY <1>3, <1>u DEF Edit, SaveProfile, DeleteCard, SaveCard, LoadCard, PeerSends, Register,
                      Submit, browser, view
  <1>4. ASSUME NEW c \in {"here", "peer"}, Admit(c) \/ Load(c) PROVE Signed'
    BY <1>4, <1>u DEF Admit, Load, browser, view
  <1>5. ASSUME NEW c \in {"here", "peer"}, Resend(c) PROVE Signed'
    BY <1>5, <1>r, <1>u DEF Resend, view, Signed
  <1>6. ASSUME NEW c \in {"here", "peer"}, Reject(c) PROVE Signed'
    BY <1>6, <1>f, <1>u DEF Reject, view
  <1>7. ASSUME NEW c \in {"here", "peer"}, Commit(c) PROVE Signed'
    <2>1. token' = token
      BY <1>7 DEF Commit
    <2>2. \/ screen' = screen \/ Goto("settings")
          \/ screen \in {"shown", "rendered"}
      BY <1>7 DEF Commit, Answered, ToSettings, view
    <2>3. QED
      BY <1>g, <1>u, <2>1, <2>2 DEF Signed
  <1>8. CASE UNCHANGED vars
    BY <1>8, <1>u DEF vars, browser, view
  <1>9. QED
    BY <1>1, <1>2, <1>3, <1>4, <1>5, <1>6, <1>7, <1>8 DEF Next, Serve

\* A registration names an account that is not there yet, until it commits.
LEMMA RegistersStep ==
    ASSUME IInv, [Next]_vars
    PROVE  RegistersNew'
  <1> USE DEF IInv
  <1>0. call \in [{"here", "peer"} -> Call \cup {Idle}]
    BY DEF AccountTypes
  <1>s. ASSUME account' = account, call'["peer"].op \in {call["peer"].op, "idle", "put", "delete"},
               \/ call'["here"].op \in {"idle", "put", "delete"}
               \/ call'["here"].op = call["here"].op /\ call'["here"].on = call["here"].on
        PROVE  RegistersNew'
    BY <1>s DEF RegistersNew
  <1>k. ASSUME account' = account, NEW c \in {"here", "peer"}, NEW k,
               call' = [call EXCEPT ![c] = k],
               k = Idle \/ (k.op = call[c].op /\ k.on = call[c].on)
        PROVE  RegistersNew'
    <2>1. call'[c] = k /\ \A d \in {"here", "peer"} : d # c => call'[d] = call[d]
      BY <1>0, <1>k
    <2>2. QED
      BY <1>k, <1>s, <2>1, IdleIsNoCall
  <1>u. UNCHANGED <<account, call>> => RegistersNew'
    BY <1>s
  <1>1. CASE Browse
    <2>1. ASSUME NEW p \in Page, Open(p) PROVE RegistersNew'
      <3>1. PICK k : /\ call' = [call EXCEPT !["here"] = k]
                     /\ k = Idle \/ (call["here"] # Idle /\ k = [call["here"] EXCEPT !.leg = 0])
        BY <2>1 DEF Open
      <3>2. k = Idle \/ (k.op = call["here"].op /\ k.on = call["here"].on)
        <4>1. call["here"] # Idle => call["here"] \in Call
          BY <1>0
        <4>2. QED
          BY <3>1, <4>1 DEF Call
      <3>3. account' = account
        BY <2>1 DEF Open
      <3>4. QED
        BY <1>k, <3>1, <3>2, <3>3
    <2>2. QED
      BY <1>1, <1>u, <2>1 DEF Browse, SignIn, Resume, Verify, Redirect, SignOut, Visit
  <1>2. CASE Configure
    BY <1>2, <1>u DEF Configure, ToggleModuleRole, SaveRoles, ResetRoles
  <1>3. CASE Edit
    <2>1. ASSUME NEW c \in {"here", "peer"}, NEW t, NEW op, NEW on, NEW v, NEW leg,
                 Send(c, t, op, on, v, leg), account' = account,
                 op \in {"put", "delete"} \/ (c = "here" /\ account[on] = Gone)
          PROVE  RegistersNew'
      <3>1. call'[c].op = op /\ call'[c].on = on
            /\ \A d \in {"here", "peer"} : d # c => call'[d] = call[d]
        BY <1>0, <2>1 DEF Send
      <3>2. QED
        BY <2>1, <3>1 DEF RegistersNew
    <2>2. CASE SaveProfile \/ DeleteCard \/ \E v \in Role : SaveCard(v)
      BY <2>1, <2>2 DEF SaveProfile, DeleteCard, SaveCard, Submit
    <2>3. ASSUME NEW u \in User, LoadCard(u) \/ PeerSends(u) PROVE RegistersNew'
      BY <1>u, <2>1, <2>3 DEF LoadCard, PeerSends
    <2>4. ASSUME NEW u \in User, NEW v \in Assignable, Register(u, v) PROVE RegistersNew'
      BY <2>1, <2>4 DEF Register, RegisterForm, Submit
    <2>5. QED
      BY <1>3, <2>2, <2>3, <2>4 DEF Edit
  <1>4. ASSUME NEW c \in {"here", "peer"}, Admit(c) \/ Resend(c) \/ Reject(c) \/ Load(c)
        PROVE  RegistersNew'
    <2>1. account' = account /\ call[c] \in Call
      BY <1>0, <1>4 DEF Admit, Resend, Reject, Load, Refused401, At
    <2>2. PICK k : call' = [call EXCEPT ![c] = k] /\ (k = Idle \/ (k.op = call[c].op /\ k.on = call[c].on))
      <3>1. Drop(c) => call' = [call EXCEPT ![c] = Idle]
        BY DEF Drop
      <3>2. ASSUME NEW u, Retry(c, u)
            PROVE  \E k : call' = [call EXCEPT ![c] = k] /\ k.op = call[c].op /\ k.on = call[c].on
        <4>1. PICK k : k = [call[c] EXCEPT !.by = u, !.version = account[u].version, !.retried = TRUE]
          OBVIOUS
        <4>2. k.op = call[c].op /\ k.on = call[c].on
          BY <2>1, <4>1 DEF Call
        <4>3. call' = [call EXCEPT ![c] = k]
          BY <1>0, <3>2, <4>1 DEF Retry
        <4>4. QED
          BY <4>2, <4>3
      <3>3. CASE Admit(c)
        <4>1. CASE call' = [call EXCEPT ![c].st = "admitted", ![c].as = account[call[c].by].role]
          <5>1. PICK k : k = [call[c] EXCEPT !.st = "admitted", !.as = account[call[c].by].role]
            OBVIOUS
          <5>2. k.op = call[c].op /\ k.on = call[c].on
            BY <2>1, <5>1 DEF Call
          <5>3. call' = [call EXCEPT ![c] = k]
            BY <1>0, <4>1, <5>1
          <5>4. QED
            BY <5>2, <5>3
        <4>2. QED
          BY <3>1, <3>3, <4>1 DEF Admit
      <3>4. CASE Load(c)
        <4>1. CASE call' = [call EXCEPT ![c].st = "loaded", ![c].base = account[call[c].on]]
          <5>1. PICK k : k = [call[c] EXCEPT !.st = "loaded", !.base = account[call[c].on]]
            OBVIOUS
          <5>2. k.op = call[c].op /\ k.on = call[c].on
            BY <2>1, <5>1 DEF Call
          <5>3. call' = [call EXCEPT ![c] = k]
            BY <1>0, <4>1, <5>1
          <5>4. QED
            BY <5>2, <5>3
        <4>2. QED
          BY <3>1, <3>4, <4>1 DEF Load
      <3>5. QED
        BY <1>4, <3>1, <3>2, <3>3, <3>4 DEF Resend, Reject
    <2>3. QED
      BY <1>k, <2>1, <2>2
  <1>5. ASSUME NEW c \in {"here", "peer"}, Commit(c) PROVE RegistersNew'
    <2>1. /\ call[c] \in Call
          /\ \/ account' = account
             \/ ~Clash(call[c]) /\ account' = [account EXCEPT ![call[c].on] = Written(call[c])]
          /\ call' = [call EXCEPT ![c] = Idle] \/ call' = [call EXCEPT ![c] = Second(call[c])]
      BY <1>5, CommitEffect
    <2>2. call'[c].op # "register" /\ \A d \in {"here", "peer"} : d # c => call'[d] = call[d]
      BY <1>0, <2>1, SecondType, IdleIsNoCall
    <2>3. ASSUME c = "peer", call["here"].op = "register", account' # account,
                 call[c].on = call["here"].on
          PROVE  account'[call["here"].on] = Gone
      <3>1. account[call[c].on] = Gone /\ call[c].op \in {"put", "delete"}
        BY <2>1, <2>3 DEF RegistersNew, Call
      <3>2. call[c].op = "delete"
        BY <2>1, <2>3, <3>1 DEF Clash, Exists, Gone
      <3>3. Written(call[c]) = Gone
        BY <3>1, <3>2 DEF Written, Gone
      <3>4. call[c].on \in User
        BY <2>1 DEF Call
      <3>5. QED
        BY <2>1, <2>3, <3>3, <3>4 DEF AccountTypes
    <2>4. call'["peer"].op # "register"
      BY <2>2 DEF RegistersNew
    <2>5. ASSUME call'["here"].op = "register" PROVE account'[call'["here"].on] = Gone
      <3>1. c = "peer" /\ call'["here"] = call["here"] /\ call["here"].op = "register"
        BY <2>2, <2>5
      <3>2. CASE account' = account \/ call[c].on # call["here"].on
        <4>1. call["here"].on \in User
          BY <3>1, CallType, IdleIsNoCall
        <4>2. CASE account' = account
          BY <3>1, <4>2 DEF RegistersNew
        <4>3. CASE /\ call[c].on # call["here"].on
                   /\ account' = [account EXCEPT ![call[c].on] = Written(call[c])]
          <5>1. account'[call["here"].on] = account[call["here"].on]
            BY <4>1, <4>3 DEF AccountTypes
          <5>2. QED
            BY <3>1, <5>1 DEF RegistersNew
        <4>4. QED
          BY <2>1, <3>2, <4>2, <4>3
      <3>3. CASE account' # account /\ call[c].on = call["here"].on
        <4>1. account'[call["here"].on] = Gone
          BY <2>3, <3>1, <3>3
        <4>2. QED
          BY <3>1, <4>1
      <3>4. QED
        BY <3>2, <3>3
    <2>6. QED
      BY <2>4, <2>5 DEF RegistersNew
  <1>6. CASE UNCHANGED vars
    BY <1>6, <1>u DEF vars
  <1>7. QED
    BY <1>1, <1>2, <1>3, <1>4, <1>5, <1>6 DEF Next, Serve

\* Only a change of the role that crosses another leaves an honoured token with a role
\* that is no longer its account's: any other raises token_version above the token's.
LEMMA TokenStep ==
    ASSUME IInv, [Next]_vars
    PROVE  TokenKnows'
  <1> USE DEF IInv
  <1>u. UNCHANGED <<account, crossed, token, seen>> => TokenKnows'
    BY DEF TokenKnows, Exists, Issued
  <1>1. CASE UNCHANGED <<account, crossed>> /\ Next
    <2>1. CASE token' = NoToken
      BY <2>1 DEF TokenKnows
    <2>2. ASSUME NEW u \in User, token' = Issued(u), seen' = account[u].role
          PROVE  TokenKnows'
      <3>1. token'.user = u /\ token'.version = account'[u].version /\ account[u].version \in Nat
        BY <1>1, <2>2, IssuedType DEF Issued
      <3>2. account'[u].version <= account'[u].version
        BY <1>1, <3>1
      <3>3. QED
        BY <1>1, <2>2, <3>1, <3>2 DEF TokenKnows
    <2>3. QED
      BY <1>1, <1>u, <2>1, <2>2, TokenChange
  <1>2. ASSUME NEW c \in {"here", "peer"}, Commit(c), ~UNCHANGED <<account, crossed>>
        PROVE  TokenKnows'
    <2> DEFINE k == call[c]
               u == token.user
    <2>1. /\ k \in Call /\ k.on \in User
          /\ ~Clash(k) /\ account' = [account EXCEPT ![k.on] = Written(k)]
          /\ crossed' = crossed \cup (IF Stale(k) THEN {k.on} ELSE {})
          /\ UNCHANGED <<token, seen>>
      <3>1. k \in Call /\ k.on \in User
        BY <1>2, CommitEffect
      <3>2. QED
        BY <1>2, <3>1 DEF Commit
    <2> HIDE DEF k
    <2>2. SUFFICES ASSUME token # NoToken, u \notin crossed', u = k.on
                   PROVE  /\ token.version <= account'[u].version
                          /\ account'[u].role # None /\ token = Issued(u)' => seen = account'[u].role
      <3>1. CASE u # k.on
        <4>1. account'[u] = account[u]
          BY <2>1, <3>1 DEF AccountTypes
        <4>2. QED
          BY <2>1, <4>1 DEF TokenKnows, Exists, Issued
      <3>2. QED
        BY <2>1, <2>2, <3>1 DEF TokenKnows, Exists, Issued
    <2>3. /\ u \in User /\ token.version \in Nat /\ account[u] \in Account
          /\ account[u].version \in Nat /\ account'[u] = Written(k)
      <3>1. token \in Token
        BY <2>2 DEF AccountTypes
      <3>2. account'[u] = Written(k)
        BY <2>1, <2>2 DEF AccountTypes
      <3>3. QED
        BY <2>1, <2>2, <3>1, <3>2, IssuedType DEF Token
    <2>4. /\ token.version <= account[u].version
          /\ Exists(u) /\ token = Issued(u) => seen = account[u].role
      BY <2>1, <2>2 DEF TokenKnows
    <2>5. ~Stale(k)
      BY <2>1, <2>2
    <2>6. CASE k.op = "put"
      <3>1. CASE k.role = k.base.role
        <4>1. account'[u] = account[u]
          BY <2>2, <2>3, <2>6, <3>1 DEF Written, Updated
        <4>2. QED
          BY <2>3, <2>4, <4>1 DEF Exists, Issued
      <3>2. CASE k.role # k.base.role
        <4>1. k.base = account[u]
          BY <2>2, <2>5, <2>6, <3>2 DEF Stale
        <4>2. account'[u].version = account[u].version + 1
          BY <2>3, <2>6, <3>2, <4>1 DEF Written, Updated
        <4>3. token.version <= account'[u].version /\ token.version # account'[u].version
          BY <2>3, <2>4, <4>2
        <4>4. QED
          BY <4>3 DEF Issued
      <3>3. QED
        BY <3>1, <3>2
    <2>7. CASE k.op = "delete"
      <3>1. account'[u].role = None /\ account'[u].version = account[u].version
        BY <2>2, <2>3, <2>7 DEF Written, Account
      <3>2. QED
        BY <2>4, <3>1
    <2>8. CASE k.op = "register"
      <3>1. account[u] = Gone
        BY <2>2, <2>8 DEF RegistersNew, k
      <3>2. account'[u].version = 1 /\ account[u].version = 0
        BY <2>3, <2>8, <3>1 DEF Written, Gone
      <3>3. token.version <= account'[u].version /\ token.version # account'[u].version
        BY <2>3, <2>4, <3>2
      <3>4. QED
        BY <3>3 DEF Issued
    <2>9. QED
      BY <2>1, <2>6, <2>7, <2>8 DEF Call
  <1>3. CASE UNCHANGED vars
    BY <1>3, <1>u DEF vars, browser
  <1>4. QED
    BY <1>1, <1>2, <1>3, AccountsChange

LEMMA StepIInv == IInv /\ [Next]_vars => IInv'
  BY CoreStep, SignedStep, RegistersStep, TokenStep DEF IInv, Core

LEMMA IInvHolds == Spec => []IInv
  BY InitIInv, StepIInv, PTL DEF Spec

-----------------------------------------------------------------------------
(* The theorems.                                                            *)

\* A request that commits is answered or dropped, and the other one stays.
LEMMA CommitCalls ==
    ASSUME IInv, NEW c \in {"here", "peer"}, Commit(c)
    PROVE  /\ Commits(c)
           /\ \A d \in {"here", "peer"} : Commits(d) => d = c
  <1>1. /\ call[c] \in Call /\ call[c].st = "loaded"
    BY CommitEffect DEF Commit, At
  <1>2. call' = [call EXCEPT ![c] = Idle] \/ call' = [call EXCEPT ![c] = Second(call[c])]
    BY CommitEffect
  <1>3. Second(call[c]).st = "sent"
    BY <1>1 DEF Second, Call
  <1>4. call'[c] # call[c] /\ \A d \in {"here", "peer"} : d # c => call'[d] = call[d]
    BY <1>1, <1>2, <1>3, IdleIsNoCall DEF IInv, AccountTypes
  <1>5. QED
    BY <1>4 DEF Commits, Commit

\* The shop loses its last administrator only to a request whose sender was
\* demoted or deleted after it was admitted (update_user, delete_user).
THEOREM LastAdminFallsToACrossingHolds == Spec => LastAdminFallsToACrossing
  <1>1. IInv /\ [Next]_vars =>
          [Admins # {} /\ Admins' = {} =>
             \E c \in {"here", "peer"} :
               Commits(c) /\ call[c].on \in Admins /\ call[c].by \notin Admins]_vars
    <2> SUFFICES ASSUME IInv, Next, Admins # {}, Admins' = {}
                 PROVE  \E c \in {"here", "peer"} :
                          Commits(c) /\ call[c].on \in Admins /\ call[c].by \notin Admins
      OBVIOUS
    <2>1. account' # account
      BY DEF Admins
    <2>2. PICK c \in {"here", "peer"} : Commit(c)
      BY <2>1, AccountsChange
    <2> DEFINE k == call[c]
    <2>3. k \in Call /\ k.on \in User /\ account' = [account EXCEPT ![k.on] = Written(k)]
          /\ ~Clash(k)
      BY <2>1, <2>2, CommitEffect DEF IInv
    <2>4. At(c, "loaded") /\ k.op \in {"put", "delete", "register"}
      BY <2>2, <2>3 DEF Commit, Call
    <2> HIDE DEF k
    <2>5. Admins \subseteq {k.on}
      BY <2>3 DEF Admins, IInv, AccountTypes
    <2>6. k.on \in Admins
      BY <2>5
    <2>7. k.by # k.on
      <3> SUFFICES ASSUME k.by = k.on PROVE FALSE
        OBVIOUS
      <3>1. k.op # "delete" /\ (k.op = "put" => k.role = k.base.role)
        BY <2>4 DEF IInv, LoadedChecked, k
      <3>2. CASE k.op = "put"
        BY <2>1, <2>3, <3>1, <3>2 DEF Written, Updated, IInv, AccountTypes
      <3>3. CASE k.op = "register"
        BY <2>3, <2>6, <3>3, NoneIsNoRole DEF Clash, Exists, Admins, None
      <3>4. QED
        BY <2>4, <3>1, <3>2, <3>3
    <2>8. Commits(c)
      BY <2>2, CommitCalls DEF IInv
    <2>9. QED
      BY <2>5, <2>6, <2>7, <2>8 DEF k
  <1>2. QED
    BY IInvHolds, <1>1, PTL DEF Spec, LastAdminFallsToACrossing

\* One's own profile form never changes one's role (update_user).
THEOREM OwnSaveKeepsRoleHolds == Spec => OwnSaveKeepsRole
  <1>1. IInv /\ [Next]_vars =>
          [\A c \in {"here", "peer"} :
             Commits(c) /\ call[c].op = "put" /\ call[c].by = call[c].on =>
               account'[call[c].on].role = account[call[c].on].role]_vars
    <2> SUFFICES ASSUME IInv, Next, NEW c \in {"here", "peer"}, Commits(c),
                        call[c].op = "put", call[c].by = call[c].on
                 PROVE  account'[call[c].on].role = account[call[c].on].role
      OBVIOUS
    <2>1. CASE account' = account
      BY <2>1
    <2>2. ASSUME NEW d \in {"here", "peer"}, Commit(d), account' # account
          PROVE  account'[call[c].on].role = account[call[c].on].role
      <3>1. d = c
        BY <2>2, CommitCalls DEF IInv
      <3>2. /\ call[c].on \in User
            /\ account' = [account EXCEPT ![call[c].on] = Written(call[c])]
        BY <2>2, <3>1, CommitEffect DEF IInv
      <3>3. call[c].role = call[c].base.role
        BY DEF IInv, LoadedChecked, Commits
      <3>4. Written(call[c]) = account[call[c].on]
        BY <3>3 DEF Written, Updated
      <3>5. QED
        BY <3>2, <3>4 DEF IInv, AccountTypes
    <2>3. QED
      BY <2>1, <2>2, AccountsChange
  <1>2. QED
    BY IInvHolds, <1>1, PTL DEF Spec, OwnSaveKeepsRole

\* The guard of the pages decides by the role that the server has, as long as the
\* server honours the token, unless two changes of that role crossed (verifySession,
\* get_current_user, update_user).
THEOREM GuardKnowsRoleHolds == Spec => []GuardKnowsRole
  <1>1. IInv => GuardKnowsRole
    BY DEF IInv, TokenKnows, GuardKnowsRole
  <1>2. QED
    BY IInvHolds, <1>1, PTL

-----------------------------------------------------------------------------
(* The saved matrix.                                                        *)

LEMMA DefaultType == Default \in Matrix
  BY DEF Default, Matrix, Module, Role

LEMMA EffectiveType ==
    ASSUME NEW m \in Matrix
    PROVE  Effective(m) \in Matrix
  BY DEF Effective, Matrix, Module

\* A matrix has a set of roles for every module, whatever switches are used.
LEMMA MatrixStep == MatrixTypes /\ [Next]_vars => MatrixTypes'
  <1> SUFFICES ASSUME MatrixTypes, [Next]_vars PROVE MatrixTypes'
    OBVIOUS
  <1> USE DEF MatrixTypes
  <1>1. ASSUME Blank PROVE draft' \in Matrix
    BY <1>1, DefaultType DEF Blank
  <1>m. ASSUME Mount PROVE draft' \in Matrix
    BY <1>m, DefaultType, EffectiveType DEF Mount
  <1>r. ASSUME NEW p, Render(p) PROVE draft' \in Matrix
    BY <1>m, <1>r, DefaultType DEF Render
  <1>2. CASE Browse
    <2>1. matrix' = matrix
      BY <1>2 DEF Browse, SignIn, Resume, Verify, Redirect, SignOut, Visit, Open
    <2> SUFFICES draft' \in Matrix
      BY <2>1
    <2>2. CASE Show
      BY <1>m, <2>2 DEF Show
    <2>3. CASE Deny
      BY <1>1, <2>3 DEF Deny
    <2>4. CASE ToForm \/ Resume \/ Redirect \/ SignOut \/ \E p \in Page : Visit(p) \/ Open(p)
      BY <1>1, <1>r, <2>4 DEF ToForm, Resume, Redirect, SignOut, Visit, Open, Goto
    <2>5. ASSUME NEW u \in User, SignIn(u) PROVE draft' \in Matrix
      BY <1>1, <2>5 DEF SignIn, Goto, view, forms
    <2>6. QED
      BY <1>2, <2>1, <2>2, <2>3, <2>4, <2>5 DEF Browse, Verify
  <1>3. CASE Configure
    <2>1. ASSUME NEW t \in Toggled, ToggleModuleRole(t[1], t[2]) PROVE MatrixTypes'
      <3>1. t[1] \in Module /\ t[2] \in Role
        OBVIOUS
      <3>2. draft[t[1]] \in SUBSET Role
        BY <3>1 DEF Matrix
      <3>3. draft' \in Matrix
        BY <2>1, <3>1, <3>2 DEF ToggleModuleRole, Matrix
      <3>4. QED
        BY <2>1, <3>3 DEF ToggleModuleRole
    <2>2. CASE SaveRoles \/ ResetRoles
      BY <2>2, DefaultType DEF SaveRoles, ResetRoles, view, forms
    <2>3. QED
      BY <1>3, <2>1, <2>2 DEF Configure
  <1>4. CASE Edit
    BY <1>4 DEF Edit, SaveProfile, DeleteCard, SaveCard, LoadCard, PeerSends, Register, Submit,
                view, forms
  <1>5. CASE Serve
    <2>1. matrix' = matrix
      BY <1>5 DEF Serve, Admit, Resend, Reject, Load, Commit
    <2>2. draft' = draft \/ Blank \/ Render("settings")
      BY <1>5 DEF Serve, Admit, Resend, Reject, Load, Commit, Answered, ToSettings, ToForm, Goto,
                  view, forms
    <2>3. QED
      BY <1>1, <1>r, <2>1, <2>2
  <1>6. CASE UNCHANGED vars
    BY <1>6 DEF vars, view, forms
  <1>7. QED
    BY <1>2, <1>3, <1>4, <1>5, <1>6 DEF Next

-----------------------------------------------------------------------------
(* The types.                                                               *)

\* A role lands on a page of the shop, or nowhere.
LEMMA LandingType ==
    ASSUME NEW r \in Role
    PROVE  Landing(r) \in Module \cup {None}
  <1>1. CASE r = "admin"
    BY <1>1 DEF Landing, Module
  <1>2. CASE r # "admin"
    <2> DEFINE order == Preferred[r] \o Rest
               Leads(n) == /\ Allowed(order[n], r)
                           /\ \A m \in 1 .. n - 1 : ~Allowed(order[m], r)
    <2>1. order \in Seq(Module)
      <3>1. Rest \in Seq(Module)
        BY DEF Rest, Module
      <3>2. Preferred[r] \in Seq(Module)
        <4>1. CASE r = "manager"
          BY <4>1 DEF Preferred, Module
        <4>2. CASE r = "cashier"
          BY <4>2 DEF Preferred, Module
        <4>3. CASE r = "mechanic"
          BY <4>3 DEF Preferred, Module
        <4>4. QED
          BY <1>2, <4>1, <4>2, <4>3 DEF Role
      <3>3. QED
        BY <3>1, <3>2, ConcatProperties
    <2>2. Landing(r) = IF \E n \in DOMAIN order : Leads(n)
                       THEN order[CHOOSE n \in DOMAIN order : Leads(n)] ELSE None
      BY <1>2 DEF Landing
    <2>3. \A n \in DOMAIN order : order[n] \in Module
      BY <2>1, LenProperties, ElementOfSeq
    <2> HIDE DEF order, Leads
    <2>4. ASSUME \E n \in DOMAIN order : Leads(n)
          PROVE  (CHOOSE n \in DOMAIN order : Leads(n)) \in DOMAIN order
      BY <2>4
    <2>5. QED
      BY <2>2, <2>3, <2>4
  <1>3. QED
    BY <1>1, <1>2

\* What the browser shows.
Pages   == Module \cup {"settings", "login"}
Screens == {"form", "resuming", "checking", "rendered", "shown", "denied"}

ViewTypes ==
  /\ token # NoToken => seen # None
  /\ page \in Pages /\ screen \in Screens
  /\ fallback \in Module \cup {None, "login"} /\ isAdmin \in BOOLEAN
  /\ screen = "denied" => fallback # None

LEMMA ViewNow == TInv => ViewTypes /\ IInv /\ MatrixTypes
  BY DEF TInv, TypeOK, ViewTypes, Pages, Screens

LEMMA GotoTypes ==
    ASSUME NEW p \in Pages, Goto(p), token' # NoToken => seen' # None
    PROVE  ViewTypes'
  BY DEF Goto, Blank, ViewTypes, Screens

LEMMA RenderTypes ==
    ASSUME NEW p \in Pages, Render(p), token' # NoToken => seen' # None
    PROVE  ViewTypes'
  <1>1. isAdmin' \in BOOLEAN
    BY DEF Render, Mount
  <1>2. QED
    BY <1>1 DEF Render, ViewTypes, Screens

LEMMA ToFormTypes ==
    ASSUME ToForm
    PROVE  ViewTypes'
  BY DEF ToForm, Blank, ViewTypes, Pages, Screens

\* A token comes with the role of an account.
LEMMA RefreshedRole ==
    ASSUME AccountTypes, CanRefresh
    PROVE  account[cookie].role \in Role /\ (Refreshed => seen' = account[cookie].role)
  BY DEF AccountTypes, CanRefresh, Exists, Account, Refreshed

LEMMA VerifyTypes ==
    ASSUME TInv, Verify
    PROVE  ViewTypes'
  <1>0. ViewTypes /\ AccountTypes
    BY ViewNow DEF IInv
  <1>1. ASSUME Verified
        PROVE  MyRole \in Role /\ (token' # NoToken => seen' # None)
    <2>1. CASE token = NoToken
      BY <1>0, <1>1, <2>1, RefreshedRole, NoneIsNoRole DEF Verified, MyRole
    <2>2. CASE token # NoToken
      BY <1>0, <1>1, <2>2 DEF Verified, MyRole, ViewTypes, AccountTypes
    <2>3. QED
      BY <2>1, <2>2
  <1>2. CASE Show
    <2>1. page' = page /\ screen' = "shown" /\ fallback' = None
      BY <1>2 DEF Show
    <2>2. isAdmin' \in BOOLEAN
      <3>1. CASE Mount
        BY <3>1 DEF Mount
      <3>2. CASE isAdmin' = isAdmin
        BY <1>0, <3>2 DEF ViewTypes
      <3>3. QED
        BY <1>2, <3>1, <3>2 DEF Show
    <2>3. QED
      BY <1>0, <1>1, <1>2, <2>1, <2>2 DEF Show, ViewTypes, Screens
  <1>3. CASE Deny
    <2>1. MyRole \in Role /\ (token' # NoToken => seen' # None)
      BY <1>1, <1>3 DEF Deny
    <2>2. fallback' \in Module \cup {"login"} /\ "login" # None /\ None \notin Module
      BY <1>3, <2>1, LandingType DEF Deny, None, Module
    <2>3. page' = page /\ isAdmin' = FALSE /\ screen' = "denied"
      BY <1>3 DEF Deny, Blank
    <2>4. QED
      BY <1>0, <2>1, <2>2, <2>3 DEF ViewTypes, Screens
  <1>4. QED
    BY <1>2, <1>3, ToFormTypes DEF Verify

LEMMA ViewStep ==
    ASSUME TInv, [Next]_vars
    PROVE  ViewTypes'
  <1>0. ViewTypes /\ AccountTypes
    BY ViewNow DEF IInv
  <1>u. UNCHANGED <<token, seen, view>> => ViewTypes'
    BY <1>0 DEF ViewTypes, view, forms
  <1>k. ASSUME UNCHANGED <<token, seen, page, screen, fallback, isAdmin>> PROVE ViewTypes'
    BY <1>0, <1>k DEF ViewTypes
  <1>l. /\ Module \subseteq Pages /\ "settings" \in Pages /\ "reports" \in Pages
        /\ \A v : Returns(v) \subseteq Pages
    BY DEF Pages, Module, Returns
  <1>1. CASE Browse
    <2>1. ASSUME NEW u \in User, SignIn(u) PROVE ViewTypes'
      <3>1. account[u].role \in Role
        BY <1>0, <2>1 DEF SignIn, Exists, AccountTypes, Account
      <3>2. CASE /\ seen' = account[u].role /\ Landing(account[u].role) # None
                 /\ \E p \in Returns(account[u].role) \cup {Landing(account[u].role)} : Goto(p)
        <4>1. PICK p \in Pages : Goto(p)
          BY <1>l, <3>1, <3>2, LandingType
        <4>2. QED
          BY <3>1, <3>2, <4>1, GotoTypes, NoneIsNoRole
      <3>3. CASE token' = NoToken /\ UNCHANGED view
        BY <1>0, <3>3 DEF ViewTypes, view, forms
      <3>4. QED
        BY <2>1, <3>2, <3>3 DEF SignIn
    <2>2. CASE Resume
      <3>1. CASE CanRefresh
        <4> DEFINE v == account[cookie].role
                   l == IF Landing(v) = None THEN "reports" ELSE Landing(v)
        <4>1. v \in Role /\ seen' = v
          BY <1>0, <2>2, <3>1, RefreshedRole DEF Resume
        <4>2. l \in Pages
          BY <1>l, <4>1, LandingType
        <4>3. \E p \in Returns(v) \cup {l} : Goto(p)
          BY <2>2, <3>1 DEF Resume
        <4> HIDE DEF l, v
        <4>4. PICK p \in Pages : Goto(p)
          BY <1>l, <4>2, <4>3
        <4>5. QED
          BY <4>1, <4>4, GotoTypes, NoneIsNoRole
      <3>2. CASE ~CanRefresh
        BY <2>2, <3>2, ToFormTypes DEF Resume
      <3>3. QED
        BY <3>1, <3>2
    <2>3. CASE Verify
      BY <2>3, VerifyTypes
    <2>4. CASE Redirect
      <3>1. UNCHANGED <<token, seen>> /\ fallback \in Module \cup {"login"}
        BY <1>0, <2>4 DEF Redirect, browser, ViewTypes
      <3>2. CASE fallback = "login"
        BY <1>0, <2>4, <3>1, <3>2 DEF Redirect, Blank, ViewTypes, Pages, Screens
      <3>3. CASE fallback # "login"
        BY <1>0, <1>l, <2>4, <3>1, <3>3, GotoTypes DEF Redirect, ViewTypes
      <3>4. QED
        BY <3>2, <3>3
    <2>5. CASE SignOut
      BY <2>5, ToFormTypes DEF SignOut
    <2>6. ASSUME NEW p \in Page, Visit(p) \/ Open(p) PROVE ViewTypes'
      <3>1. p \in Pages
        BY DEF Pages
      <3>2. token' # NoToken => seen' # None
        BY <1>0, <2>6 DEF Visit, Open, browser, ViewTypes
      <3>3. QED
        BY <2>6, <3>1, <3>2, GotoTypes, RenderTypes DEF Visit, Open
    <2>7. QED
      BY <1>1, <2>1, <2>2, <2>3, <2>4, <2>5, <2>6 DEF Browse
  <1>2. CASE Configure
    BY <1>2, <1>k, <1>u DEF Configure, ToggleModuleRole, SaveRoles, ResetRoles, browser
  <1>3. CASE Edit
    BY <1>3, <1>k, <1>u DEF Edit, SaveProfile, DeleteCard, SaveCard, LoadCard, PeerSends, Register,
                            Submit, browser
  <1>4. ASSUME NEW c \in {"here", "peer"}, Admit(c) \/ Load(c) PROVE ViewTypes'
    BY <1>4, <1>u DEF Admit, Load, browser
  <1>5. ASSUME NEW c \in {"here", "peer"}, Resend(c) PROVE ViewTypes'
    <2>1. UNCHANGED view /\ (UNCHANGED <<token, seen>> \/ (CanRefresh /\ Refreshed))
      BY <1>5 DEF Resend
    <2>2. CanRefresh /\ Refreshed => seen' # None
      BY <1>0, RefreshedRole, NoneIsNoRole
    <2>3. QED
      BY <1>0, <2>1, <2>2 DEF ViewTypes, view, forms
  <1>6. ASSUME NEW c \in {"here", "peer"}, Reject(c) PROVE ViewTypes'
    BY <1>6, <1>u, ToFormTypes DEF Reject
  <1>7. ASSUME NEW c \in {"here", "peer"}, Commit(c) PROVE ViewTypes'
    <2>1. UNCHANGED <<token, seen>>
      BY <1>7 DEF Commit
    <2>2. \/ UNCHANGED view \/ Goto("settings") \/ Render("settings")
          \/ UNCHANGED <<page, screen, fallback, isAdmin>>
      BY <1>7 DEF Commit, Answered, ToSettings
    <2>3. CASE Goto("settings") \/ Render("settings")
      BY <1>0, <1>l, <2>1, <2>3, GotoTypes, RenderTypes DEF ViewTypes
    <2>4. QED
      BY <1>k, <1>u, <2>1, <2>2, <2>3
  <1>8. CASE UNCHANGED vars
    BY <1>8, <1>u DEF vars, browser
  <1>9. QED
    BY <1>1, <1>2, <1>3, <1>4, <1>5, <1>6, <1>7, <1>8 DEF Next, Serve

\* Only a request that is sent counts against the bound.
LEMMA LeftStep ==
    ASSUME left \in 0 .. Budget, [Next]_vars
    PROVE  left' \in 0 .. Budget
  <1>1. left' = left \/ (left > 0 /\ left' = left - 1)
    <2>1. CASE Browse \/ Configure
      BY <2>1 DEF Browse, SignIn, Resume, Verify, Redirect, SignOut, Visit, Open, Configure,
                  ToggleModuleRole, SaveRoles, ResetRoles
    <2>2. CASE Edit
      BY <2>2 DEF Edit, SaveProfile, DeleteCard, SaveCard, LoadCard, PeerSends, Register, Submit, Send
    <2>3. CASE Serve
      BY <2>3 DEF Serve, Admit, Resend, Reject, Load, Commit
    <2>4. QED
      BY <2>1, <2>2, <2>3 DEF Next, vars
  <1>2. QED
    BY <1>1

\* What is remembered is about accounts.
LEMMA CrossedStep ==
    ASSUME IInv, crossed \subseteq User, [Next]_vars
    PROVE  crossed' \subseteq User
  <1>1. ASSUME NEW c \in {"here", "peer"}, Commit(c)
        PROVE  crossed' \subseteq User
    <2>1. call[c].on \in User
      BY <1>1, CommitEffect
    <2>2. crossed' = crossed \/ crossed' = crossed \cup {call[c].on}
      BY <1>1 DEF Commit
    <2>3. QED
      BY <2>1, <2>2
  <1>2. QED
    BY <1>1, AccountsChange DEF vars

LEMMA TInvHolds == Spec => []TInv
  <1>1. Init => TInv
    <2> SUFFICES ASSUME Init PROVE TInv
      OBVIOUS
    <2>1. IInv
      BY InitIInv
    <2>2. MatrixTypes
      BY DefaultType DEF Init, MatrixTypes
    <2>3. /\ token = NoToken /\ crossed = {} /\ page = "login" /\ screen = "form" /\ fallback = None
          /\ isAdmin = FALSE /\ left = Budget
      BY DEF Init
    <2>4. left \in 0 .. Budget
      BY <2>3
    <2>5. TypeOK
      BY <2>1, <2>2, <2>3, <2>4 DEF IInv, TypeOK
    <2>6. QED
      BY <2>1, <2>3, <2>5 DEF IInv, TInv
  <1>2. TInv /\ [Next]_vars => TInv'
    <2> SUFFICES ASSUME TInv, [Next]_vars PROVE TInv'
      OBVIOUS
    <2>1. IInv' /\ MatrixTypes' /\ ViewTypes'
      BY ViewNow, StepIInv, MatrixStep, ViewStep
    <2>2. left' \in 0 .. Budget /\ crossed' \subseteq User
      BY LeftStep, CrossedStep DEF TInv, TypeOK
    <2>3. QED
      BY <2>1, <2>2 DEF IInv, ViewTypes, Pages, Screens, TInv, TypeOK
  <1>3. QED
    BY <1>1, <1>2, PTL DEF Spec

\* Accounts, sessions, requests and the pages of the browser are what they should
\* be, whoever is deleted while signed in or while a request is on its way: the
\* refresh cookie names an account that is there, the token in memory comes with a
\* role, no request but a deletion leaves an account without a role (delete_user,
\* update_user), and a role lands on a page of the shop (getEffectiveLandingPage).
THEOREM StaffTypeCorrect == Spec => []TypeOK
  <1>1. TInv => TypeOK
    BY DEF TInv
  <1>2. QED
    BY <1>1, TInvHolds, PTL
=============================================================================

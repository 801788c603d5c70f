--------------------------- MODULE JobCard_proofs ---------------------------
(***************************************************************************)
(* Proofs about JobCard: what others wrote in a diagnosis log stays, and   *)
(* an order that was paid when its deletion was confirmed keeps its traces *)
(* in the browser unless the answer was lost or an error; for any people,  *)
(* mechanics, texts and PUTs.                                              *)
(***************************************************************************)
EXTENDS JobCard, SequenceTheorems, TLAPS

USE JobCardConstants

-----------------------------------------------------------------------------
(* The entries of the others in a log, when one's own are changed.          *)

LEMMA AppendOwn ==
  ASSUME NEW l \in Seq(Entry), NEW e \in Entry
  PROVE  /\ Append(l, e) \in Seq(Entry)
         /\ EntriesNotBy(Append(l, e), e.by) = EntriesNotBy(l, e.by)
<1> DEFINE m == Append(l, e)
<1>1. /\ m \in Seq(Entry) /\ DOMAIN l = 1 .. Len(l) /\ Len(l) \in Nat
      /\ DOMAIN m = 1 .. Len(l) + 1 /\ m[Len(l) + 1] = e
      /\ \A k \in DOMAIN l : m[k] = l[k]
  BY AppendProperties
<1> HIDE DEF m
<1>2. \A k \in DOMAIN m : m[k].by # e.by => k \in DOMAIN l
  BY <1>1
<1>3. \A k \in DOMAIN l : k \in DOMAIN m
  BY <1>1
<1>4. EntriesNotBy(m, e.by) = EntriesNotBy(l, e.by)
  BY <1>1, <1>2, <1>3 DEF EntriesNotBy
<1> QED
  BY <1>1, <1>4 DEF m

LEMMA EditOwn ==
  ASSUME NEW l \in Seq(Entry), NEW k \in DOMAIN l, NEW t \in Text
  PROVE  /\ [l EXCEPT ![k].text = t] \in Seq(Entry)
         /\ EntriesNotBy([l EXCEPT ![k].text = t], l[k].by) = EntriesNotBy(l, l[k].by)
<1> DEFINE m == [l EXCEPT ![k].text = t]
           e == [l[k] EXCEPT !.text = t]
<1>1. l[k] \in Entry /\ k \in 1 .. Len(l)
  BY ElementOfSeq, LenProperties
<1>2. e \in Entry /\ e.by = l[k].by
  BY <1>1 DEF Entry
<1>3. m = [l EXCEPT ![k] = e]
  OBVIOUS
<1> HIDE DEF e, m
<1>4. m \in Seq(Entry) /\ DOMAIN m = DOMAIN l /\ m[k] = e
      /\ \A i \in DOMAIN l : i # k => m[i] = l[i]
  BY <1>1, <1>2, <1>3, ExceptSeq
<1>5. \A i \in DOMAIN l : m[i].by = l[i].by /\ (l[i].by # l[k].by => m[i] = l[i])
  BY <1>2, <1>4
<1>6. EntriesNotBy(m, l[k].by) = EntriesNotBy(l, l[k].by)
  BY <1>4, <1>5 DEF EntriesNotBy
<1> QED
  BY <1>4, <1>6 DEF m

\* What is left of a sequence of which the element at k is taken out.
LEMMA Removed ==
  ASSUME NEW S, NEW l \in Seq(S), NEW k \in DOMAIN l
  PROVE  /\ RemoveAt(l, k) \in Seq(S) /\ DOMAIN RemoveAt(l, k) = 1 .. Len(l) - 1
         /\ \A i \in 1 .. Len(l) - 1 : RemoveAt(l, k)[i] = IF i < k THEN l[i] ELSE l[i + 1]
<1>1. DOMAIN l = 1 .. Len(l) /\ Len(l) \in Nat /\ k \in 1 .. Len(l)
  BY LenProperties
<1> DEFINE a == SubSeq(l, 1, k - 1)
           b == SubSeq(l, k + 1, Len(l))
<1>2. /\ a \in Seq(S) /\ Len(a) = k - 1 /\ \A i \in 1 .. k - 1 : a[i] = l[i]
  BY <1>1, SubSeqProperties
<1>3. /\ b \in Seq(S) /\ Len(b) = Len(l) - k /\ \A i \in 1 .. Len(l) - k : b[i] = l[k + i]
  BY <1>1, SubSeqProperties
<1>4. RemoveAt(l, k) = a \o b
  BY DEF RemoveAt
<1> HIDE DEF a, b
<1> DEFINE c == a \o b
<1>5. /\ c \in Seq(S) /\ Len(c) = Len(l) - 1
      /\ \A i \in 1 .. Len(l) - 1 : c[i] = IF i <= k - 1 THEN a[i] ELSE b[i - (k - 1)]
  <2>1. /\ c \in Seq(S) /\ Len(c) = Len(a) + Len(b)
        /\ \A i \in 1 .. Len(a) + Len(b) : c[i] = IF i <= Len(a) THEN a[i] ELSE b[i - Len(a)]
    BY <1>2, <1>3, ConcatProperties
  <2> HIDE DEF c
  <2>2. Len(a) + Len(b) = Len(l) - 1
    BY <1>1, <1>2, <1>3
  <2> QED
    BY <1>2, <2>1, <2>2
<1> HIDE DEF c
<1>6. DOMAIN c = 1 .. Len(l) - 1
  BY <1>5, LenProperties
<1>7. ASSUME NEW i \in 1 .. Len(l) - 1
      PROVE  c[i] = IF i < k THEN l[i] ELSE l[i + 1]
  <2>1. CASE i < k
    <3>1. i <= k - 1 /\ i \in 1 .. k - 1
      BY <1>1, <2>1
    <3> QED
      BY <1>2, <1>5, <2>1, <3>1
  <2>2. CASE ~(i < k)
    <3>1. i - (k - 1) \in 1 .. Len(l) - k /\ k + (i - (k - 1)) = i + 1 /\ ~(i <= k - 1)
      BY <1>1, <2>2
    <3> QED
      BY <1>3, <1>5, <2>2, <3>1
  <2> QED
    BY <2>1, <2>2
<1>8. RemoveAt(l, k) = c
  BY <1>4 DEF c
<1> QED
  BY <1>5, <1>6, <1>7, <1>8

LEMMA RemoveOwn ==
  ASSUME NEW l \in Seq(Entry), NEW k \in DOMAIN l
  PROVE  EntriesNotBy(RemoveAt(l, k), l[k].by) = EntriesNotBy(l, l[k].by)
<1> DEFINE m == RemoveAt(l, k)
<1>1. /\ DOMAIN m = 1 .. Len(l) - 1
      /\ \A i \in 1 .. Len(l) - 1 : m[i] = IF i < k THEN l[i] ELSE l[i + 1]
  BY Removed
<1>2. DOMAIN l = 1 .. Len(l) /\ Len(l) \in Nat /\ k \in 1 .. Len(l)
  BY LenProperties
<1> HIDE DEF m
<1>3. \A i \in DOMAIN m : \E j \in DOMAIN l : m[i] = l[j]
  BY <1>1, <1>2
<1>4. ASSUME NEW j \in DOMAIN l, l[j].by # l[k].by PROVE \E i \in DOMAIN m : m[i] = l[j]
  <2>1. CASE j < k
    BY <1>1, <1>2, <2>1
  <2>2. CASE j > k
    <3>1. j - 1 \in DOMAIN m /\ ~(j - 1 < k) /\ (j - 1) + 1 = j
      BY <1>1, <1>2, <2>2
    <3> QED
      BY <1>1, <3>1
  <2> QED
    BY <1>2, <1>4, <2>1, <2>2
<1> QED
  BY <1>3, <1>4 DEF EntriesNotBy, m

-----------------------------------------------------------------------------
(* The page.                                                                *)

CardType == [log : Seq(Entry), mech : Mechanic \cup {Nobody}, paid : BOOLEAN, who : Author,
             edit : Nat, drop : Nat, saving : 0 .. MaxPut, asks : BOOLEAN]

CardShape == {"log", "mech", "paid", "who", "edit", "drop", "saving", "asks"}

\* What may be open on a page that shows the card c.
OpenOn(c, pg) ==
  /\ pg # "ready" => c.edit = 0 /\ c.drop = 0
  /\ c.edit # 0 => c.edit \in DOMAIN c.log /\ c.log[c.edit].by = c.who
  /\ c.drop # 0 => c.drop \in DOMAIN c.log /\ c.log[c.drop].by = c.who /\ c.drop # c.edit

CardFits(c, pg) == c \in CardType /\ OpenOn(c, pg) /\ (pg = "ready" => c.mech \in Mechanic)

LEMMA CardNow ==
  ASSUME IInv
  PROVE  CardFits(card, page)
BY DEF IInv, TypeOK, Opened, Own, Chosen, CardFits, CardType, OpenOn

LEMMA BlankFits ==
  /\ CardFits(Blank, "away")
  /\ \A u \in Person : CardFits([Blank EXCEPT !.who = u], "loading")
<1>1. <<>> \in Seq(Entry)
  OBVIOUS
<1>2. Blank \in CardType
  BY <1>1 DEF Blank, CardType, Author
<1>3. \A u \in Person : [Blank EXCEPT !.who = u] \in CardType
  BY <1>2 DEF CardType, Author
<1> QED
  BY <1>2, <1>3 DEF CardFits, OpenOn, Blank

\* A change of the card that leaves the log, its reader, and what is open alone.
LEMMA CardAlone ==
  ASSUME NEW pg, NEW c, CardFits(c, pg), NEW d \in CardType, pg = "ready" => d.mech \in Mechanic,
         d.log = c.log, d.who = c.who, d.edit = c.edit, d.drop = c.drop
  PROVE  CardFits(d, pg)
BY DEF CardFits, OpenOn

\* What the three handlers that rewrite the log have in common: only the entries
\* of the one who is signed in change, and what is open still names the same entry.
Rewritten(l) ==
  /\ Persist(l) /\ l \in Seq(Entry) /\ page = "ready" /\ card'.log = l
  /\ EntriesNotBy(l, card.who) = EntriesNotBy(card.log, card.who)
  /\ CardFits(card', "ready") /\ texts' \in Text /\ Quiet

LEMMA AddRewrites ==
  ASSUME IInv, AddDiagnosis
  PROVE  \E l : Rewritten(l)
<1> DEFINE e == [by |-> card.who, text |-> texts + 1]
           l == Append(card.log, e)
<1>0. CardFits(card, "ready") /\ card.log \in Seq(Entry) /\ card.who \in Author /\ page = "ready"
      /\ card.drop = 0
  BY CardNow DEF AddDiagnosis, Ready, CardFits, CardType
<1>1. texts + 1 \in Text
  BY DEF AddDiagnosis, IInv, TypeOK, Text
<1>2. e \in Entry /\ e.by = card.who
  BY <1>0, <1>1 DEF Entry
<1> HIDE DEF e
<1>3. /\ l \in Seq(Entry) /\ EntriesNotBy(l, card.who) = EntriesNotBy(card.log, card.who)
      /\ \A k \in DOMAIN card.log : k \in DOMAIN l /\ l[k] = card.log[k]
  <2>1. l \in Seq(Entry) /\ EntriesNotBy(l, card.who) = EntriesNotBy(card.log, card.who)
    BY <1>0, <1>2, AppendOwn
  <2>2. /\ DOMAIN card.log = 1 .. Len(card.log) /\ Len(card.log) \in Nat
        /\ DOMAIN l = 1 .. Len(card.log) + 1
        /\ \A k \in 1 .. Len(card.log) : l[k] = card.log[k]
    BY <1>0, <1>2, AppendProperties
  <2> QED
    BY <2>1, <2>2
<1>4. Persist(l) /\ card' = [card EXCEPT !.log = l] /\ texts' = texts + 1 /\ Quiet
  BY DEF AddDiagnosis, e
<1> HIDE DEF l
<1>5. card' \in CardType /\ card'.log = l /\ card'.edit = card.edit /\ card'.drop = 0
      /\ card'.who = card.who /\ card'.mech = card.mech
  BY <1>0, <1>3, <1>4 DEF CardFits, CardType
<1>6. CardFits(card', "ready")
  BY <1>0, <1>3, <1>5 DEF CardFits, OpenOn
<1> QED
  BY <1>0, <1>1, <1>3, <1>4, <1>5, <1>6 DEF Rewritten

LEMMA EditRewrites ==
  ASSUME IInv, EditDiagnosis
  PROVE  \E l : Rewritten(l)
<1> DEFINE l == [card.log EXCEPT ![card.edit].text = texts + 1]
<1>0. /\ CardFits(card, "ready") /\ card.log \in Seq(Entry) /\ page = "ready" /\ card.drop = 0
      /\ card.edit \in DOMAIN card.log /\ card.log[card.edit].by = card.who
  BY CardNow DEF EditDiagnosis, Ready, CardFits, OpenOn, CardType
<1>1. texts + 1 \in Text
  BY DEF EditDiagnosis, IInv, TypeOK, Text
<1>2. l \in Seq(Entry) /\ EntriesNotBy(l, card.who) = EntriesNotBy(card.log, card.who)
  BY <1>0, <1>1, EditOwn
<1>4. Persist(l) /\ card' = [card EXCEPT !.log = l, !.edit = 0] /\ texts' = texts + 1 /\ Quiet
  BY DEF EditDiagnosis
<1> HIDE DEF l
<1>5. card' \in CardType /\ card'.log = l /\ card'.edit = 0 /\ card'.drop = 0
      /\ card'.mech = card.mech
  BY <1>0, <1>2, <1>4 DEF CardFits, CardType
<1>6. CardFits(card', "ready")
  BY <1>0, <1>5 DEF CardFits, OpenOn
<1> QED
  BY <1>0, <1>1, <1>2, <1>4, <1>5, <1>6 DEF Rewritten

\* The entry that is being edited may move up by one place.
LEMMA DeleteRewrites ==
  ASSUME IInv, DeleteDiagnosis
  PROVE  \E l : Rewritten(l)
<1> DEFINE k == card.drop
           l == RemoveAt(card.log, k)
           e == IF card.edit > k THEN card.edit - 1 ELSE card.edit
<1>0. /\ CardFits(card, "ready") /\ card.log \in Seq(Entry) /\ page = "ready"
      /\ k \in DOMAIN card.log /\ card.log[k].by = card.who
      /\ card.edit \in Nat /\ card.edit # k
      /\ card.edit # 0 => card.edit \in DOMAIN card.log /\ card.log[card.edit].by = card.who
  BY CardNow DEF DeleteDiagnosis, CardFits, OpenOn, CardType
<1>1. /\ l \in Seq(Entry) /\ DOMAIN l = 1 .. Len(card.log) - 1
      /\ \A i \in 1 .. Len(card.log) - 1 : l[i] = IF i < k THEN card.log[i] ELSE card.log[i + 1]
  BY <1>0, Removed
<1>2. EntriesNotBy(l, card.who) = EntriesNotBy(card.log, card.who)
  BY <1>0, RemoveOwn
<1>3. Persist(l) /\ card' = [card EXCEPT !.log = l, !.drop = 0, !.edit = e] /\ UNCHANGED texts /\ Quiet
  BY DEF DeleteDiagnosis
<1>4. DOMAIN card.log = 1 .. Len(card.log) /\ Len(card.log) \in Nat
  BY <1>0, LenProperties
<1>k. k \in Nat /\ k >= 1 /\ k <= Len(card.log)
  BY <1>0, <1>4
<1> HIDE DEF l, k
<1>5. e \in Nat /\ (e # 0 => e \in DOMAIN l /\ l[e] = card.log[card.edit] /\ card.edit # 0)
  <2>1. CASE card.edit > k
    <3>1. e = card.edit - 1 /\ card.edit \in 1 .. Len(card.log) /\ ~(e < k) /\ e + 1 = card.edit
      BY <1>0, <1>4, <1>k, <2>1
    <3>2. e \in 1 .. Len(card.log) - 1
      BY <1>0, <1>4, <1>k, <2>1, <3>1
    <3> QED
      BY <1>1, <3>1, <3>2
  <2>2. CASE ~(card.edit > k)
    <3>1. e = card.edit /\ e < k
      BY <1>0, <1>k, <2>2
    <3>2. e # 0 => e \in 1 .. Len(card.log) - 1
      BY <1>0, <1>4, <1>k, <3>1
    <3> QED
      BY <1>0, <1>1, <3>1, <3>2
  <2> QED
    BY <2>1, <2>2
<1> HIDE DEF e
<1>6. card' \in CardType /\ card'.log = l /\ card'.edit = e /\ card'.drop = 0
      /\ card'.who = card.who /\ card'.mech = card.mech
  BY <1>0, <1>1, <1>3, <1>5 DEF CardFits, CardType
<1>7. CardFits(card', "ready")
  BY <1>0, <1>5, <1>6 DEF CardFits, OpenOn
<1>8. texts' \in Text
  BY <1>3 DEF IInv, TypeOK
<1> QED
  BY <1>0, <1>1, <1>2, <1>3, <1>6, <1>7, <1>8 DEF Rewritten

\* The steps that touch neither the card nor the page, those that open or close
\* something on a page that is ready, and the rest.
Opens ==
  \/ CancelEdit \/ KeepDiagnosis \/ SaveMechanic \/ AskDelete \/ KeepOrder
  \/ \E k \in DOMAIN card.log : StartEdit(k) \/ AskDeleteDiagnosis(k)
  \/ \E m \in Mechanic : SelectMechanic(m)

Rewrites == AddDiagnosis \/ EditDiagnosis \/ DeleteDiagnosis

LEMMA RewritesLog ==
  ASSUME IInv, Rewrites
  PROVE  \E l : Rewritten(l)
BY AddRewrites, EditRewrites, DeleteRewrites DEF Rewrites

LEMMA WorkingCases ==
  ASSUME Working
  PROVE  Opens \/ Rewrites \/ OpenCard \/ Leave \/ ConfirmDelete
BY DEF Working, Opens, Rewrites

LEMMA OpensCard ==
  ASSUME IInv, Opens
  PROVE  CardFits(card', "ready") /\ page = "ready" /\ page' = page
         /\ card'.log = card.log /\ card'.who = card.who
<1> DEFINE Goal == CardFits(card', "ready") /\ page = "ready" /\ page' = page
                   /\ card'.log = card.log /\ card'.who = card.who
<1>0. page = "ready" => CardFits(card, "ready")
  BY CardNow
<1>1. CASE CancelEdit
  <2>1. page = "ready" /\ page' = page /\ card.drop = 0 /\ card' = [card EXCEPT !.edit = 0]
    BY <1>1 DEF CancelEdit, Ready
  <2> QED
    BY <1>0, <2>1 DEF CardFits, CardType, OpenOn
<1>2. CASE KeepDiagnosis
  <2>1. page = "ready" /\ page' = page /\ card' = [card EXCEPT !.drop = 0]
    BY <1>2 DEF KeepDiagnosis
  <2> QED
    BY <1>0, <2>1 DEF CardFits, CardType, OpenOn
<1>3. CASE SaveMechanic
  <2>1. PICK p \in Slot : card' = [card EXCEPT !.saving = p]
    BY <1>3 DEF SaveMechanic
  <2>2. page = "ready" /\ page' = page /\ p \in 0 .. MaxPut
    BY <1>3 DEF SaveMechanic, Ready, Slot
  <2> QED
    BY <1>0, <2>1, <2>2 DEF CardFits, CardType, OpenOn
<1>4. CASE AskDelete \/ KeepOrder
  <2>1. PICK b \in BOOLEAN : card' = [card EXCEPT !.asks = b]
    BY <1>4 DEF AskDelete, KeepOrder
  <2>2. page = "ready" /\ page' = page
    BY <1>4 DEF AskDelete, KeepOrder, DeleteOffered, Ready
  <2> QED
    BY <1>0, <2>1, <2>2 DEF CardFits, CardType, OpenOn
<1>5. ASSUME NEW k \in DOMAIN card.log, StartEdit(k) PROVE Goal
  <2>1. page = "ready" /\ page' = page /\ card.drop = 0 /\ card.log[k].by = card.who
        /\ card' = [card EXCEPT !.edit = k]
    BY <1>5 DEF StartEdit, Ready, Own
  <2>2. k \in Nat
    BY <1>0, <2>1, LenProperties DEF CardFits, CardType
  <2> QED
    BY <1>0, <2>1, <2>2 DEF CardFits, CardType, OpenOn
<1>6. ASSUME NEW k \in DOMAIN card.log, AskDeleteDiagnosis(k) PROVE Goal
  <2>1. page = "ready" /\ page' = page /\ k # card.edit /\ card.log[k].by = card.who
        /\ card' = [card EXCEPT !.drop = k]
    BY <1>6 DEF AskDeleteDiagnosis, Ready, Own
  <2>2. k \in Nat
    BY <1>0, <2>1, LenProperties DEF CardFits, CardType
  <2> QED
    BY <1>0, <2>1, <2>2 DEF CardFits, CardType, OpenOn
<1>7. ASSUME NEW m \in Mechanic, SelectMechanic(m) PROVE Goal
  <2>1. page = "ready" /\ page' = page /\ card' = [card EXCEPT !.mech = m]
    BY <1>7 DEF SelectMechanic, Ready
  <2> QED
    BY <1>0, <2>1 DEF CardFits, CardType, OpenOn
<1> QED
  BY <1>1, <1>2, <1>3, <1>4, <1>5, <1>6, <1>7 DEF Opens

LEMMA LoadedFits ==
  ASSUME IInv, NEW n \in Text
  PROVE  Loaded(n) \in Seq(Entry) /\ (Loaded(n) = <<>> => log = <<>>)
<1>1. log \in Seq(Entry) /\ note \in Text
  BY DEF IInv, TypeOK
<1>2. \A t \in Text : <<[by |-> Shop, text |-> t]>> \in Seq(Entry)
                      /\ <<[by |-> Shop, text |-> t]>> # <<>>
  <2>1. \A t \in Text : [by |-> Shop, text |-> t] \in Entry
    BY DEF Entry, Author
  <2> QED
    BY <2>1
<1> QED
  BY <1>1, <1>2 DEF Loaded

LEMMA ShowsLog ==
  ASSUME IInv, page = "loading", NEW n \in Text, NEW m \in Mechanic, NEW b \in BOOLEAN,
         Show(n, m, b)
  PROVE  /\ CardFits(card', "ready") /\ page' = "ready"
         /\ log' \in Seq(Entry) /\ card'.log = log'
<1>0. CardFits(card, "loading")
  BY CardNow
<1>1. /\ page' = "ready"
      /\ card' = [card EXCEPT !.log = Loaded(n), !.mech = m, !.paid = b \/ mark]
      /\ log' = IF Loaded(n) = <<>> THEN log ELSE Loaded(n)
  BY DEF Show
<1>2. Loaded(n) \in Seq(Entry) /\ log' = Loaded(n)
  BY <1>1, LoadedFits
<1>3. b \/ mark \in BOOLEAN
  BY DEF IInv, TypeOK
<1> HIDE DEF Show
<1>4. /\ card' \in CardType /\ card'.log = Loaded(n) /\ card'.mech = m
      /\ card'.edit = 0 /\ card'.drop = 0
  BY <1>0, <1>1, <1>2, <1>3 DEF CardFits, OpenOn, CardType
<1> QED
  BY <1>1, <1>2, <1>4 DEF CardFits, OpenOn

LEMMA LoadCases ==
  ASSUME IInv, LoadFromServer \/ LoadFromCache
  PROVE  \/ \E n \in Text, m \in Mechanic, b \in BOOLEAN : Show(n, m, b) /\ page = "loading"
         \/ page = "loading" /\ page' = "missing" /\ UNCHANGED <<row, disk, card, puts, del, texts>>
<1>1. row.note \in Text /\ row.mech \in Mechanic /\ row.paid \in BOOLEAN
      /\ cache.note \in Text /\ cache.mech \in Mechanic
  BY DEF IInv, TypeOK
<1> QED
  BY <1>1 DEF LoadFromServer, LoadFromCache

\* A card whose PUT has come back, and which may have been paid in the meantime.
LEMMA CardSaved ==
  ASSUME NEW c \in CardType, NEW b \in BOOLEAN
  PROVE  LET d == [c EXCEPT !.saving = 0, !.paid = b]
         IN  /\ d \in CardType /\ d.mech = c.mech /\ d.log = c.log
             /\ d.who = c.who /\ d.edit = c.edit /\ d.drop = c.drop
<1> DEFINE d == [c EXCEPT !.saving = 0, !.paid = b]
<1>1. 0 \in 0 .. MaxPut
  OBVIOUS
<1>2. d \in CardType
  BY <1>1 DEF CardType
<1>3. /\ d.mech = c.mech /\ d.log = c.log
      /\ d.who = c.who /\ d.edit = c.edit /\ d.drop = c.drop
  BY DEF CardType
<1> QED
  BY <1>2, <1>3

LEMMA CardStep ==
  ASSUME IInv, [Next]_vars
  PROVE  CardFits(card', page') /\ page' \in {"away", "loading", "missing", "ready"}
<1> DEFINE Goal == CardFits(card', page') /\ page' \in {"away", "loading", "missing", "ready"}
<1>0. CardFits(card, page) /\ page \in {"away", "loading", "missing", "ready"}
  BY CardNow DEF IInv, TypeOK
<1>u. UNCHANGED <<card, page>> => Goal
  BY <1>0
<1>b. card' = Blank /\ page' = "away" => Goal
  BY BlankFits
<1>1. CASE Working
  <2>1. CASE Opens
    BY <2>1, OpensCard
  <2>2. CASE Rewrites
    BY <2>2, RewritesLog DEF Rewritten, Persist
  <2>3. CASE OpenCard
    BY <2>3, BlankFits DEF OpenCard
  <2>4. CASE Leave \/ ConfirmDelete
    BY <1>b, <1>u, <2>4 DEF Leave, ConfirmDelete
  <2> QED
    BY <1>1, <2>1, <2>2, <2>3, <2>4, WorkingCases
<1>2. CASE LoadFromServer \/ LoadFromCache
  <2>1. card' = card /\ page = "loading" /\ page' = "missing" => Goal
    BY <1>0 DEF CardFits, OpenOn
  <2> QED
    BY <1>2, <2>1, LoadCases, ShowsLog
<1>3. CASE CheckDelete \/ CommitDelete \/ FailDelete \/ LoseDelete \/ EditOnTheBoard \/ EditElsewhere \/ Pay
  BY <1>3, <1>u DEF CheckDelete, CommitDelete, FailDelete, LoseDelete, EditOnTheBoard, EditElsewhere,
                  Pay
<1>4. CASE FinishDelete
  BY <1>4, <1>b, <1>u DEF FinishDelete
<1>5. ASSUME NEW p \in Slot, ServePut(p) \/ LosePut(p) \/ FinishPut(p) PROVE Goal
  <2>1. CASE card' = card /\ page' = page
    BY <2>1, <1>u
  <2>2. CASE card' = [card EXCEPT !.saving = 0, !.paid = @ \/ mark] /\ page' = page
    <3>1. /\ card' \in CardType /\ card'.mech = card.mech /\ card'.log = card.log
          /\ card'.who = card.who /\ card'.edit = card.edit /\ card'.drop = card.drop
      <4> DEFINE b == card.paid \/ mark
      <4>1. card' = [card EXCEPT !.saving = 0, !.paid = b] /\ b \in BOOLEAN
        BY <2>2
      <4> HIDE DEF b
      <4>2. card \in CardType
        BY <1>0 DEF CardFits
      <4> QED
        BY <4>1, <4>2, CardSaved
    <3> QED
      BY <1>0, <2>2, <3>1 DEF CardFits, OpenOn
  <2> QED
    BY <1>5, <2>1, <2>2 DEF ServePut, LosePut, FinishPut
<1>6. CASE UNCHANGED vars
  BY <1>6, <1>u DEF vars
<1> QED
  BY <1>1, <1>2, <1>3, <1>4, <1>5, <1>6 DEF Next, Answers

-----------------------------------------------------------------------------
(* The PUTs.                                                                *)

PutType == [st : {"free", "sent", "served"}, note : Text, mech : Mechanic \cup {Nobody},
            save : BOOLEAN, here : BOOLEAN]

PutFits(p) == p \in PutType /\ (p.st # "free" => p.mech \in Mechanic)

PutsFit(s) == DOMAIN s = Slot /\ s = [p \in Slot |-> s[p]] /\ \A p \in Slot : PutFits(s[p])

LEMMA PutsNow ==
  ASSUME IInv
  PROVE  PutsFit(puts)
<1>1. puts \in [Slot -> PutType]
  BY DEF IInv, TypeOK, PutType
<1> QED
  BY <1>1 DEF IInv, Chosen, PutsFit, PutFits

LEMMA LastTextFits ==
  ASSUME NEW l \in Seq(Entry)
  PROVE  LastText(l) \in Text
<1>1. CASE l = <<>>
  BY <1>1 DEF LastText, Text
<1>2. CASE l # <<>>
  <2>1. l[Len(l)] \in Entry
    BY <1>2, LenProperties, ElementOfSeq, EmptySeq
  <2> QED
    BY <1>2, <2>1 DEF LastText, Last, Entry
<1> QED
  BY <1>1, <1>2

LEMMA PutAddsOne ==
  ASSUME PutsFit(puts), NEW n \in Text, NEW m \in Mechanic, NEW b \in BOOLEAN, Put(n, m, b)
  PROVE  PutsFit(puts')
<1>1. PICK p \in Slot : puts' = [puts EXCEPT ![p] = [st |-> "sent", note |-> n, mech |-> m,
                                                     save |-> b, here |-> TRUE]]
  BY DEF Put
<1>2. PutFits([st |-> "sent", note |-> n, mech |-> m, save |-> b, here |-> TRUE])
  BY DEF PutFits, PutType
<1> QED
  BY <1>1, <1>2 DEF PutsFit

LEMMA PutsStep ==
  ASSUME IInv, [Next]_vars
  PROVE  PutsFit(puts')
<1>0. PutsFit(puts) /\ CardFits(card, page)
  BY PutsNow, CardNow
<1>u. puts' = puts => PutsFit(puts')
  BY <1>0
<1>h. ASSUME puts' = [p \in Slot |-> [puts[p] EXCEPT !.here = FALSE]] PROVE PutsFit(puts')
  <2>1. \A p \in Slot : PutFits([puts[p] EXCEPT !.here = FALSE])
    <3>1. \A p \in Slot : PutFits(puts[p])
      BY <1>0 DEF PutsFit
    <3> QED
      BY <3>1 DEF PutFits, PutType
  <2> QED
    BY <1>h, <2>1 DEF PutsFit
<1>1. CASE Working
  <2>1. CASE SaveMechanic
    <3>1. Put(LastText(card.log), card.mech, TRUE) /\ page = "ready"
      BY <2>1 DEF SaveMechanic, Ready
    <3>2. LastText(card.log) \in Text /\ card.mech \in Mechanic
      BY <1>0, <3>1, LastTextFits DEF CardFits, CardType
    <3> QED
      BY <1>0, <3>1, <3>2, PutAddsOne
  <2>2. CASE Rewrites
    <3>1. PICK l : Rewritten(l)
      BY <2>2, RewritesLog
    <3>2. Put(LastText(l), card.mech, FALSE) /\ l \in Seq(Entry) /\ card.mech \in Mechanic
      BY <1>0, <3>1 DEF Rewritten, Persist, CardFits
    <3> QED
      BY <1>0, <3>2, LastTextFits, PutAddsOne
  <2>3. CASE Opens /\ ~SaveMechanic
    BY <1>u, <2>3 DEF Opens, CancelEdit, KeepDiagnosis, AskDelete, KeepOrder, StartEdit,
                      AskDeleteDiagnosis, SelectMechanic
  <2>4. CASE OpenCard \/ Leave \/ ConfirmDelete
    BY <1>u, <1>h, <2>4 DEF OpenCard, Leave, ConfirmDelete
  <2> QED
    BY <1>1, <2>1, <2>2, <2>3, <2>4, WorkingCases
<1>2. CASE LoadFromServer \/ LoadFromCache
  BY <1>2, <1>u, LoadCases DEF Show
<1>3. CASE CheckDelete \/ CommitDelete \/ FailDelete \/ LoseDelete \/ EditOnTheBoard \/ EditElsewhere \/ Pay
  BY <1>3, <1>u DEF CheckDelete, CommitDelete, FailDelete, LoseDelete, EditOnTheBoard, EditElsewhere,
                  Pay
<1>4. CASE FinishDelete
  BY <1>4, <1>h, <1>u DEF FinishDelete
<1>5. ASSUME NEW p \in Slot, ServePut(p) \/ LosePut(p) PROVE PutsFit(puts')
  <2>1. puts' = [puts EXCEPT ![p].st = "served"] /\ puts[p].st = "sent"
    BY <1>5 DEF ServePut, LosePut
  <2> QED
    BY <1>0, <2>1 DEF PutsFit, PutFits, PutType
<1>6. ASSUME NEW p \in Slot, FinishPut(p) PROVE PutsFit(puts')
  <2>1. puts' = [puts EXCEPT ![p] = NoPut]
    BY <1>6 DEF FinishPut
  <2>2. PutFits(NoPut)
    BY DEF PutFits, PutType, NoPut, Text
  <2> QED
    BY <1>0, <2>1, <2>2 DEF PutsFit
<1>7. CASE UNCHANGED vars
  BY <1>7, <1>u DEF vars
<1> QED
  BY <1>1, <1>2, <1>3, <1>4, <1>5, <1>6, <1>7 DEF Next, Answers

-----------------------------------------------------------------------------
(* The order on the server and its deletion.                                *)

RowType == [live : BOOLEAN, paid : BOOLEAN, note : Text, mech : Mechanic]
DelType == [st : {"none", "sent", "cleared", "ok", "refused", "failed", "lost"},
            here : BOOLEAN, paid : BOOLEAN]

OrderFits(r, d) ==
  /\ r \in RowType /\ d \in DelType
  /\ d.paid => r.paid
  /\ d.st \in {"cleared", "ok"} => ~d.paid

LEMMA OrderNow ==
  ASSUME IInv
  PROVE  OrderFits(row, del)
BY DEF IInv, TypeOK, PaidStopped, OrderFits, RowType, DelType

\* A row whose note and mechanic are replaced.
LEMMA OrderNoted ==
  ASSUME NEW r, NEW d, OrderFits(r, d), NEW n \in Text, NEW m \in Mechanic
  PROVE  OrderFits([r EXCEPT !.note = n, !.mech = m], d)
BY DEF OrderFits, RowType

LEMMA OrderStep ==
  ASSUME IInv, [Next]_vars
  PROVE  OrderFits(row', del')
<1>0. OrderFits(row, del)
  BY OrderNow
<1>u. UNCHANGED <<row, del>> => OrderFits(row', del')
  BY <1>0
<1>h. UNCHANGED row /\ del' = [del EXCEPT !.here = FALSE] => OrderFits(row', del')
  BY <1>0 DEF OrderFits, DelType
<1>1. CASE Working
  <2>1. CASE Rewrites
    BY <1>u, <2>1, RewritesLog DEF Rewritten, Persist
  <2>2. CASE Opens
    BY <1>u, <2>2 DEF Opens, CancelEdit, KeepDiagnosis, SaveMechanic, AskDelete, KeepOrder,
                      StartEdit, AskDeleteDiagnosis, SelectMechanic
  <2>3. CASE OpenCard \/ Leave
    BY <1>u, <1>h, <2>3 DEF OpenCard, Leave
  <2>4. CASE ConfirmDelete
    <3>1. row' = row /\ del' = [st |-> "sent", here |-> TRUE, paid |-> row.paid]
      BY <2>4 DEF ConfirmDelete
    <3>2. row \in RowType /\ row.paid \in BOOLEAN
      BY <1>0 DEF OrderFits, RowType
    <3>3. del' \in DelType /\ del'.paid = row.paid /\ del'.st = "sent"
      BY <3>1, <3>2 DEF DelType
    <3> QED
      BY <3>1, <3>2, <3>3 DEF OrderFits
  <2> QED
    BY <1>1, <2>1, <2>2, <2>3, <2>4, WorkingCases
<1>2. CASE LoadFromServer \/ LoadFromCache
  BY <1>2, <1>u, LoadCases DEF Show
<1>3. CASE CheckDelete
  <2>1. CASE Refused
    <3>1. row' = row /\ del' = [del EXCEPT !.st = "refused"]
      BY <1>3, <2>1 DEF CheckDelete
    <3> QED
      BY <1>0, <3>1 DEF OrderFits, DelType
  <2>2. CASE ~Refused /\ row.live
    <3>1. row' = row /\ del' = [del EXCEPT !.st = "cleared"] /\ ~row.paid
      BY <1>3, <2>2 DEF CheckDelete, Refused
    <3> QED
      BY <1>0, <3>1 DEF OrderFits, DelType
  <2>3. CASE ~Refused /\ ~row.live
    <3>1. row' = row /\ del' = [del EXCEPT !.st = "failed"]
      BY <1>3, <2>3 DEF CheckDelete
    <3> QED
      BY <1>0, <3>1 DEF OrderFits, DelType
  <2> QED
    BY <2>1, <2>2, <2>3
<1>4. CASE CommitDelete
  <2>1. row' = [row EXCEPT !.live = FALSE] /\ del' = [del EXCEPT !.st = "ok"]
        /\ del.st = "cleared"
    BY <1>4 DEF CommitDelete
  <2> QED
    BY <1>0, <2>1 DEF OrderFits, DelType, RowType
<1>10. CASE FailDelete \/ LoseDelete
  BY <1>0, <1>10 DEF FailDelete, LoseDelete, OrderFits, DelType
<1>5. CASE FinishDelete
  BY <1>0, <1>5 DEF FinishDelete, NoDel, OrderFits, DelType
<1>6. ASSUME NEW p \in Slot, ServePut(p) \/ LosePut(p) \/ FinishPut(p)
      PROVE  OrderFits(row', del')
  <2>1. CASE ServePut(p)
    <3>1. puts[p].note \in Text /\ puts[p].mech \in Mechanic
      BY <2>1, PutsNow DEF ServePut, PutsFit, PutFits, PutType
    <3> QED
      BY <1>0, <2>1, <3>1, OrderNoted DEF ServePut
  <2> QED
    BY <1>6, <1>u, <2>1 DEF LosePut, FinishPut
<1>7. CASE EditOnTheBoard \/ EditElsewhere
  <2>1. texts + 1 \in Text
    <3>1. texts < MaxText /\ texts \in 0 .. MaxText
      BY <1>7 DEF EditOnTheBoard, EditElsewhere, IInv, TypeOK, Text
    <3> QED
      BY <3>1 DEF Text
  <2>2. PICK m \in Mechanic : row' = row \/ row' = [row EXCEPT !.note = texts + 1, !.mech = m]
    BY <1>7 DEF EditOnTheBoard, EditElsewhere
  <2>3. del' = del
    BY <1>7 DEF EditOnTheBoard, EditElsewhere
  <2>4. OrderFits([row EXCEPT !.note = texts + 1, !.mech = m], del)
    BY <1>0, <2>1, OrderNoted
  <2> QED
    BY <1>0, <2>2, <2>3, <2>4
<1>8. CASE Pay
  BY <1>0, <1>8 DEF Pay, OrderFits, RowType
<1>9. CASE UNCHANGED vars
  BY <1>9, <1>u DEF vars
<1> QED
  BY <1>1, <1>2, <1>3, <1>4, <1>5, <1>6, <1>7, <1>8, <1>9, <1>10 DEF Next, Answers

-----------------------------------------------------------------------------
(* The log, and what else this browser keeps.                               *)

CacheType == [held : BOOLEAN, note : Text, mech : Mechanic]

\* The log is the one the page shows, and nobody else's entry has changed.
LogFits ==
  /\ log' \in Seq(Entry) /\ LogShown'
  /\ page = "ready" /\ page' = "ready" /\ ~hidden'
       => EntriesNotBy(log', card.who) = EntriesNotBy(log, card.who)

LEMMA LogStep ==
  ASSUME IInv, [Next]_vars
  PROVE  LogFits
<1>0. log \in Seq(Entry) /\ LogShown
  BY DEF IInv, TypeOK
<1>u. UNCHANGED <<log, hidden, page, card>> => LogFits
  BY <1>0 DEF LogFits, LogShown
<1>k. ASSUME UNCHANGED <<log, hidden>>, card'.log = card.log, page' # "ready" \/ page' = page
      PROVE  LogFits
  BY <1>0, <1>k DEF LogFits, LogShown
<1>1. CASE Working
  <2>1. CASE Rewrites
    <3>1. PICK l : Rewritten(l)
      BY <2>1, RewritesLog
    <3>2. /\ log' = l /\ hidden' = hidden /\ l \in Seq(Entry) /\ card'.log = l /\ page = "ready"
          /\ EntriesNotBy(l, card.who) = EntriesNotBy(card.log, card.who)
      BY <3>1 DEF Rewritten, Persist
    <3> QED
      BY <1>0, <3>2 DEF LogFits, LogShown
  <2>2. CASE Opens
    <3>1. UNCHANGED <<log, hidden>>
      BY <2>2 DEF Opens, CancelEdit, KeepDiagnosis, SaveMechanic, AskDelete, KeepOrder,
                  StartEdit, AskDeleteDiagnosis, SelectMechanic, disk
    <3> QED
      BY <1>k, <2>2, <3>1, OpensCard
  <2>3. CASE OpenCard \/ Leave
    <3>1. UNCHANGED <<log, hidden>> /\ page' # "ready"
      BY <2>3 DEF OpenCard, Leave, disk
    <3> QED
      BY <1>0, <3>1 DEF LogFits, LogShown
  <2>4. CASE ConfirmDelete
    BY <1>u, <2>4 DEF ConfirmDelete, disk
  <2> QED
    BY <1>1, <2>1, <2>2, <2>3, <2>4, WorkingCases
<1>2. CASE LoadFromServer \/ LoadFromCache
  <2>1. ASSUME NEW n \in Text, NEW m \in Mechanic, NEW b \in BOOLEAN, Show(n, m, b),
               page = "loading"
        PROVE  LogFits
    <3>1. log' \in Seq(Entry) /\ card'.log = log'
      BY <2>1, ShowsLog
    <3> QED
      BY <2>1, <3>1 DEF LogFits, LogShown
  <2>2. CASE page = "loading" /\ page' = "missing" /\ UNCHANGED disk
    BY <1>0, <2>2 DEF disk, LogFits, LogShown
  <2> QED
    BY <1>2, <2>1, <2>2, LoadCases
<1>3. CASE CheckDelete \/ CommitDelete \/ FailDelete \/ LoseDelete
  BY <1>3, <1>u DEF CheckDelete, CommitDelete, FailDelete, LoseDelete, disk
<1>4. CASE EditOnTheBoard \/ EditElsewhere \/ Pay
  BY <1>4, <1>u DEF EditOnTheBoard, EditElsewhere, Pay, disk
<1>5. CASE FinishDelete
  <2>1. CASE del.st = "refused"
    BY <1>5, <1>u, <2>1 DEF FinishDelete, disk
  <2>2. CASE del.st # "refused"
    <3>1. log' = <<>> /\ hidden' = TRUE
      BY <1>5, <2>2 DEF FinishDelete
    <3> QED
      BY <3>1 DEF LogFits, LogShown
  <2> QED
    BY <2>1, <2>2
<1>6. ASSUME NEW p \in Slot, ServePut(p) \/ LosePut(p) PROVE LogFits
  BY <1>6, <1>u DEF ServePut, LosePut, disk
<1>7. ASSUME NEW p \in Slot, FinishPut(p) PROVE LogFits
  <2>1. UNCHANGED <<log, hidden, page>> /\ card' \in {card, [card EXCEPT !.saving = 0, !.paid = @ \/ mark]}
    BY <1>7 DEF FinishPut
  <2>2. card'.log = card.log
    BY <2>1, CardNow DEF CardFits, CardType
  <2> QED
    BY <1>k, <2>1, <2>2
<1>8. CASE UNCHANGED vars
  BY <1>8, <1>u DEF vars, disk
<1> QED
  BY <1>1, <1>2, <1>3, <1>4, <1>5, <1>6, <1>7, <1>8 DEF Next, Answers

\* The preview, the cached order, the marks, and the bounds.
Kept ==
  /\ note' \in Text /\ cache' \in CacheType /\ mark' \in BOOLEAN /\ hidden' \in BOOLEAN
  /\ texts' \in Text /\ budget' \in 0 .. Budget

LEMMA KeptStep ==
  ASSUME IInv, [Next]_vars
  PROVE  Kept
<1>0. /\ note \in Text /\ cache \in CacheType /\ mark \in BOOLEAN /\ hidden \in BOOLEAN
      /\ texts \in Text /\ budget \in 0 .. Budget
  BY DEF IInv, TypeOK, CacheType
<1>b. Spend \/ Quiet => budget' \in 0 .. Budget
  <2>1. budget \in Int /\ Budget \in Int /\ 0 <= budget /\ budget <= Budget
    BY <1>0
  <2> QED
    BY <2>1 DEF Spend, Quiet
<1>u. UNCHANGED <<note, cache, mark, hidden, texts>> /\ (Spend \/ Quiet) => Kept
  BY <1>0, <1>b DEF Kept
<1>t. texts < MaxText => texts + 1 \in Text
  BY <1>0 DEF Text
<1>1. CASE Working
  <2>1. CASE Rewrites
    <3>1. PICK l : Rewritten(l)
      BY <2>1, RewritesLog
    <3>2. /\ UNCHANGED <<mark, hidden>> /\ texts' \in Text /\ Quiet /\ note' = LastText(l)
          /\ cache' \in {cache, [cache EXCEPT !.note = LastText(l)]} /\ l \in Seq(Entry)
      BY <3>1 DEF Rewritten, Persist
    <3>3. LastText(l) \in Text
      BY <3>2, LastTextFits
    <3>4. cache' \in CacheType
      BY <1>0, <3>2, <3>3 DEF CacheType
    <3> QED
      BY <1>0, <1>b, <3>2, <3>3, <3>4 DEF Kept
  <2>2. CASE Opens
    BY <1>u, <2>2 DEF Opens, CancelEdit, KeepDiagnosis, SaveMechanic, AskDelete, KeepOrder,
                      StartEdit, AskDeleteDiagnosis, SelectMechanic, disk
  <2>3. CASE OpenCard \/ Leave \/ ConfirmDelete
    BY <1>u, <2>3 DEF OpenCard, Leave, ConfirmDelete, disk
  <2> QED
    BY <1>1, <2>1, <2>2, <2>3, WorkingCases
<1>2. CASE LoadFromServer \/ LoadFromCache
  <2>1. Spend \/ Quiet
    BY <1>2 DEF LoadFromServer, LoadFromCache
  <2>2. UNCHANGED <<note, cache, mark, hidden, texts>>
    BY <1>2, LoadCases DEF Show, disk
  <2> QED
    BY <1>u, <2>1, <2>2
<1>3. CASE CheckDelete \/ CommitDelete \/ FailDelete \/ LoseDelete
  BY <1>3, <1>u DEF CheckDelete, CommitDelete, FailDelete, LoseDelete, disk
<1>4. CASE FinishDelete
  <2>1. /\ Quiet /\ texts' = texts
        /\ note' \in {note, 0} /\ cache' \in {cache, [cache EXCEPT !.held = FALSE]}
        /\ mark' \in {mark, FALSE} /\ hidden' \in {hidden, TRUE}
    BY <1>4 DEF FinishDelete, disk
  <2>2. cache' \in CacheType
    BY <1>0, <2>1 DEF CacheType
  <2>3. 0 \in Text
    BY DEF Text
  <2> QED
    BY <1>0, <1>b, <2>1, <2>2, <2>3 DEF Kept
<1>5. ASSUME NEW p \in Slot, ServePut(p) \/ LosePut(p) PROVE Kept
  BY <1>5, <1>u DEF ServePut, LosePut, disk
<1>6. ASSUME NEW p \in Slot, FinishPut(p) PROVE Kept
  <2>1. /\ Quiet /\ UNCHANGED <<note, mark, hidden, texts>>
        /\ cache' \in {cache, [cache EXCEPT !.mech = puts[p].mech]}
        /\ puts[p].mech \in Mechanic
    BY <1>6, PutsNow DEF FinishPut, PutsFit, PutFits
  <2>2. cache' \in CacheType
    BY <1>0, <2>1 DEF CacheType
  <2> QED
    BY <1>0, <1>b, <2>1, <2>2 DEF Kept
<1>7. CASE EditOnTheBoard
  <2>1. PICK m \in Mechanic : cache' \in {cache, [cache EXCEPT !.note = texts + 1, !.mech = m]}
    BY <1>7 DEF EditOnTheBoard
  <2>2. Spend /\ texts' = texts + 1 /\ note' = texts + 1 /\ UNCHANGED <<mark, hidden>>
        /\ texts + 1 \in Text
    BY <1>7, <1>t DEF EditOnTheBoard
  <2>3. cache' \in CacheType
    BY <1>0, <2>1, <2>2 DEF CacheType
  <2> QED
    BY <1>0, <1>b, <2>2, <2>3 DEF Kept
<1>8. CASE EditElsewhere
  <2>1. Spend /\ texts' = texts + 1 /\ texts + 1 \in Text /\ UNCHANGED <<note, cache, mark, hidden>>
    BY <1>8, <1>t DEF EditElsewhere, disk
  <2> QED
    BY <1>0, <1>b, <2>1 DEF Kept
<1>9. CASE Pay
  BY <1>0, <1>9, <1>b DEF Pay, Kept
<1>10. CASE UNCHANGED vars
  BY <1>10, <1>u DEF vars, disk, Quiet
<1> QED
  BY <1>1, <1>2, <1>3, <1>4, <1>5, <1>6, <1>7, <1>8, <1>9, <1>10 DEF Next, Answers

-----------------------------------------------------------------------------
(* The invariant, and what follows from it.                                 *)

LEMMA InitIInv == Init => IInv
<1> SUFFICES ASSUME Init PROVE IInv
  OBVIOUS
<1>1. PICK m \in Mechanic : /\ row = [live |-> TRUE, paid |-> FALSE, note |-> 0, mech |-> m]
                            /\ cache = [held |-> TRUE, note |-> 0, mech |-> m]
  BY DEF Init
<1>2. /\ log = <<>> /\ note = 0 /\ mark = FALSE /\ hidden = FALSE
      /\ page = "away" /\ card = Blank /\ puts = [p \in Slot |-> NoPut] /\ del = NoDel
      /\ texts = 0 /\ budget = Budget
  BY DEF Init
<1>3. Blank \in CardType /\ NoPut \in PutType /\ NoDel \in DelType /\ 0 \in Text
      /\ <<>> \in Seq(Entry)
  BY BlankFits DEF CardFits, NoPut, PutType, NoDel, DelType, Text
<1>4. row \in RowType /\ cache \in CacheType
  BY <1>1, <1>3 DEF RowType, CacheType
<1>5. TypeOK
  <2>1. puts \in [Slot -> PutType] /\ budget \in 0 .. Budget
    BY <1>2, <1>3
  <2> QED
    BY <1>2, <1>3, <1>4, <2>1 DEF TypeOK, CardType, PutType, DelType, RowType, CacheType
<1>6. LogShown /\ Opened /\ PaidStopped /\ Chosen
  BY <1>1, <1>2 DEF LogShown, Opened, PaidStopped, Chosen, Blank, NoPut, NoDel
<1> QED
  BY <1>5, <1>6 DEF IInv

LEMMA StepIInv == IInv /\ [Next]_vars => IInv'
<1> SUFFICES ASSUME IInv, [Next]_vars PROVE IInv'
  OBVIOUS
<1>1. CardFits(card', page') /\ page' \in {"away", "loading", "missing", "ready"}
  BY CardStep
<1>2. PutsFit(puts')
  BY PutsStep
<1>3. OrderFits(row', del') /\ LogFits /\ Kept
  BY OrderStep, LogStep, KeptStep
<1>4. TypeOK'
  <2>1. puts' \in [Slot -> PutType]
    BY <1>2 DEF PutsFit, PutFits
  <2>2. card' \in CardType /\ row' \in RowType /\ del' \in DelType
    BY <1>1, <1>3 DEF CardFits, OrderFits
  <2> QED
    BY <1>1, <1>3, <2>1, <2>2 DEF TypeOK, CardType, PutType, RowType, DelType, CacheType, LogFits,
                                  Kept
<1>5. LogShown'
  BY <1>3 DEF LogFits
<1>6. Opened'
  BY <1>1 DEF CardFits, OpenOn, Opened, Own
<1>7. PaidStopped'
  BY <1>3 DEF OrderFits, PaidStopped
<1>8. Chosen'
  BY <1>1, <1>2 DEF CardFits, PutsFit, PutFits, Chosen
<1> QED
  BY <1>4, <1>5, <1>6, <1>7, <1>8 DEF IInv

LEMMA Safety == Spec => []IInv
<1>1. Init => IInv
  BY InitIInv
<1>2. IInv /\ [Next]_vars => IInv'
  BY StepIInv
<1> QED
  BY <1>1, <1>2, PTL DEF Spec

\* The log, the note sent with every PUT, and the page keep their types; above
\* all the entry that is edited and the one that is to be deleted are entries of
\* the log that the reader wrote, after any entries before them are gone.
THEOREM JobCardTypeCorrect == Spec => [](TypeOK /\ Opened)
<1>1. IInv => TypeOK /\ Opened
  BY DEF IInv
<1> QED
  BY <1>1, Safety, PTL

\* While the page is open and the order not deleted, no step changes, removes or
\* adds an entry that another person wrote.
THEOREM OthersNotesStay == Spec => OthersNotesKept
<1>1. IInv /\ [Next]_vars
        => [page = "ready" /\ page' = "ready" /\ ~hidden'
              => OthersEntries(log') = OthersEntries(log)]_vars
  BY LogStep DEF LogFits, OthersEntries
<1> QED
  BY <1>1, Safety, PTL DEF Spec, OthersNotesKept

\* An order that was already paid when its deletion was confirmed is forgotten by this
\* browser only after an answer that was lost or an error: the server's check, late as
\* it is, refuses it, whatever the page knew of the payment.
THEOREM PaidTracesStay == Spec => PaidNotPurged
<1>1. IInv /\ [Next]_vars
        => [hidden' /\ ~hidden /\ del.paid => del.st \in {"failed", "lost"}]_vars
  <2> SUFFICES ASSUME IInv, Next, del.paid, hidden', ~hidden PROVE del.st \in {"failed", "lost"}
    OBVIOUS
  <2>1. del.st \notin {"cleared", "ok"}
    BY DEF IInv, PaidStopped
  <2>2. hidden' # hidden
    OBVIOUS
  <2>3. CASE Working
    <3>1. Rewrites => hidden' = hidden
      BY RewritesLog DEF Rewritten, Persist
    <3>2. Opens => hidden' = hidden
      BY DEF Opens, CancelEdit, KeepDiagnosis, SaveMechanic, AskDelete, KeepOrder, StartEdit,
             AskDeleteDiagnosis, SelectMechanic, disk
    <3>3. OpenCard \/ Leave \/ ConfirmDelete => hidden' = hidden
      BY DEF OpenCard, Leave, ConfirmDelete, disk
    <3> QED
      BY <2>2, <2>3, <3>1, <3>2, <3>3, WorkingCases
  <2>4. CASE Answers
    <3>1. LoadFromServer \/ LoadFromCache => hidden' = hidden
      BY LoadCases DEF Show, disk
    <3>2. CheckDelete \/ CommitDelete \/ FailDelete \/ LoseDelete => hidden' = hidden
      BY DEF CheckDelete, CommitDelete, FailDelete, LoseDelete, disk
    <3>3. \A p \in Slot : ServePut(p) \/ LosePut(p) \/ FinishPut(p) => hidden' = hidden
      BY DEF ServePut, LosePut, FinishPut, disk
    <3>4. FinishDelete => del.st \in {"failed", "lost"}
      BY <2>1, <2>2 DEF FinishDelete, disk
    <3> QED
      BY <2>2, <2>4, <3>1, <3>2, <3>3, <3>4 DEF Answers
  <2>5. EditOnTheBoard \/ EditElsewhere \/ Pay => hidden' = hidden
    BY DEF EditOnTheBoard, EditElsewhere, Pay, disk
  <2> QED
    BY <2>2, <2>3, <2>4, <2>5 DEF Next
<1> QED
  BY <1>1, Safety, PTL DEF Spec, PaidNotPurged
=============================================================================

------------------------------ MODULE PagesProof ------------------------------
(***************************************************************************)
(* What the runs check of the pages of the web UI, proved for every number of    *)
(* files, requests, ports and entities.  Each part has an inductive invariant     *)
(* of its own, the section of its name; at the end of a section a lemma says      *)
(* that a step of the part keeps it.                                              *)
(***************************************************************************)
EXTENDS UiPages, FiniteSetTheorems, SequenceTheorems, TLAPS

-----------------------------------------------------------------------------
(* Lists of files.                                                          *)

\* A list of `shown`, made when there had been `upto` files: nothing in it is
\* gone, and what it lacks was saved since.
Current(shownFiles, upto) == /\ shownFiles \subseteq files
                             /\ files \ shownFiles \subseteq upto + 1 .. added

\* A later fetch is out, which has read nothing yet or what is current.
ToldAfter(id) == \E q \in listings : /\ q.asks = "list" /\ q.id > id
                                     /\ q.read = Listed!Unread \/ Current(q.read, q.upto)

Listing == [id : Nat, asks : {"list", "delete", "cleanup"}, file : Int,
            after : {"none", "delete", "cleanup"}, read : SUBSET Int, upto : Nat]

FilesTyped ==
  /\ added \in Nat /\ listed \in Nat /\ files \subseteq 1 .. added /\ list \subseteq Int
  /\ working \in BOOLEAN /\ overtaken \in BOOLEAN /\ unlisted \in BOOLEAN
  /\ applied \in [id : Nat, upto : Nat] /\ applied.id <= listed /\ applied.upto <= added
  /\ listings \subseteq Listing
  /\ \A r \in listings : /\ r.id <= listed /\ r.upto <= added
                         /\ r.asks # "list" => r.after = "none"

\* A button that is held down waits for a request.
ButtonsWait ==
  /\ deleting # 0 => \E r \in listings : "delete" \in {r.asks, r.after}
  /\ working => \E r \in listings : "cleanup" \in {r.asks, r.after}

\* What is shown, and what a fetch would show, is current or will be put right.
ListsAreTold ==
  ~overtaken /\ ~unlisted =>
    /\ Current(list, applied.upto) \/ ToldAfter(applied.id)
    /\ \A p \in listings :
         p.asks = "list" /\ p.read # Listed!Unread /\ p.id >= applied.id =>
           Current(p.read, p.upto) \/ ToldAfter(p.id)

FilesInv == FilesTyped /\ ButtonsWait /\ ListsAreTold

LEMMA FilesSettle == FilesInv => Listed!FileListsSettle
BY DEF FilesInv, FilesTyped, ButtonsWait, ListsAreTold, ToldAfter, Current, Listed!FileListsSettle

LEMMA ANewListing ==
  ASSUME FilesTyped, NEW asks \in {"list", "delete", "cleanup"}, NEW f \in Int,
         NEW after \in {"none", "delete", "cleanup"}
  PROVE  LET q == Listed!Request(asks, f, after)
         IN /\ q \in Listing /\ q.id = listed + 1 /\ q.asks = asks /\ q.after = after
            /\ q.read = Listed!Unread /\ q.upto = 0
BY DEF FilesTyped, Listing, Listed!Request, Listed!Unread

LEMMA FilesInitially == UiInit => FilesInv
<1> SUFFICES ASSUME UiInit PROVE FilesInv
  OBVIOUS
<1> DEFINE q == [Listed!Fetch("none") EXCEPT !.id = 1]
<1>1. /\ added \in 0 .. MaxFiles - 1 /\ files = 1 .. added /\ list = {} /\ deleting = 0
      /\ working = FALSE /\ listed = 1 /\ listings = {q} /\ applied = [id |-> 0, upto |-> 0]
      /\ overtaken = FALSE /\ unlisted = FALSE
  BY DEF UiInit, Listed!Init
<1>2. q = [id |-> 1, asks |-> "list", file |-> 0, after |-> "none", read |-> {0}, upto |-> 0]
  BY DEF Listed!Fetch, Listed!Request, Listed!Unread
<1>3. q \in Listing /\ q.id = 1 /\ q.asks = "list" /\ q.read = {0} /\ q.upto = 0
  BY <1>2 DEF Listing
<1> HIDE DEF q
<1>4. FilesTyped
  <2>1. added \in Nat
    BY <1>1, UiAssumption
  <2>2. applied \in [id : Nat, upto : Nat] /\ applied.id = 0 /\ applied.upto = 0
    BY <1>1
  <2>3. listings \subseteq Listing /\ \A r \in listings : r.id = 1 /\ r.upto = 0 /\ r.asks = "list"
    BY <1>1, <1>3
  <2>4. /\ listed \in Nat /\ applied.id <= listed /\ applied.upto <= added
        /\ \A r \in listings : r.id <= listed /\ r.upto <= added
    BY <1>1, <2>1, <2>2, <2>3
  <2>5. files \subseteq 1 .. added /\ list \subseteq Int /\ working = FALSE
        /\ overtaken = FALSE /\ unlisted = FALSE
    BY <1>1
  <2>6. QED
    BY <2>1, <2>2, <2>3, <2>4, <2>5 DEF FilesTyped
<1>5. Current(list, 0)
  BY <1>1, UiAssumption DEF Current
<1>6. ListsAreTold /\ ButtonsWait
  BY <1>1, <1>3, <1>5 DEF ListsAreTold, ButtonsWait, Listed!Unread
<1>7. QED
  BY <1>4, <1>6 DEF FilesInv

LEMMA FilesAlike == FilesInv /\ UNCHANGED listedVars => FilesInv'
BY DEF FilesInv, FilesTyped, ButtonsWait, ListsAreTold, ToldAfter, Current, listedVars

\* A request that is new has the highest number; while it has read nothing, every
\* list is going to be put right.
LEMMA NewFetchTells ==
  ASSUME FilesTyped, FilesTyped', NEW q \in listings', q.asks = "list", q.read = Listed!Unread,
         q.id = listed + 1, applied' = applied,
         \A p \in listings' : p # q => p \in listings
  PROVE  ListsAreTold'
<1>1. ToldAfter(applied.id)'
  BY DEF FilesTyped, ToldAfter, Listing
<1>2. ASSUME NEW p \in listings', p.read # Listed!Unread PROVE ToldAfter(p.id)'
  BY <1>2 DEF FilesTyped, ToldAfter, Listing
<1>3. QED
  BY <1>1, <1>2 DEF ListsAreTold, ToldAfter, Current

LEMMA FilesKept == FilesInv /\ Listed!Next => FilesInv'
<1> SUFFICES ASSUME FilesInv, Listed!Next PROVE FilesInv'
  OBVIOUS
<1> USE DEF FilesInv
<1>1. CASE Listed!Save
  <2>1. FilesTyped' /\ ButtonsWait'
    <3>1. /\ added' = added + 1 /\ files' = files \cup {added + 1} /\ listings' = listings
          /\ UNCHANGED <<list, deleting, working, listed, applied, overtaken, unlisted>>
      BY <1>1 DEF Listed!Save
    <3>2. \A r \in listings : r.upto \in Nat
      BY DEF FilesTyped, Listing
    <3>3. FilesTyped'
      BY <3>1, <3>2 DEF FilesTyped
    <3>4. ButtonsWait'
      BY <3>1 DEF ButtonsWait
    <3>5. QED
      BY <3>3, <3>4
  <2>2. ASSUME NEW R, NEW u \in Nat, u <= added, Current(R, u) PROVE Current(R, u)'
    BY <1>1, <2>2 DEF Listed!Save, FilesTyped, Current
  <2>3. ASSUME NEW id, ToldAfter(id) PROVE ToldAfter(id)'
    <3>1. PICK q \in listings : /\ q.asks = "list" /\ q.id > id
                                /\ q.read = Listed!Unread \/ Current(q.read, q.upto)
      BY <2>3 DEF ToldAfter
    <3>2. q.upto \in Nat /\ q.upto <= added /\ q \in listings'
      BY <1>1 DEF Listed!Save, FilesTyped, Listing
    <3>3. q.read = Listed!Unread \/ Current(q.read, q.upto)'
      BY <2>2, <3>1, <3>2
    <3>4. QED
      BY <1>1, <3>1, <3>2, <3>3 DEF ToldAfter, Listed!Save
  <2>4. ListsAreTold'
    <3> SUFFICES ASSUME ~overtaken, ~unlisted PROVE ListsAreTold'
      BY <1>1 DEF Listed!Save, ListsAreTold
    <3>1. /\ applied' = applied /\ listings' = listings /\ list' = list
          /\ applied.upto \in Nat /\ applied.upto <= added
      BY <1>1 DEF Listed!Save, FilesTyped
    <3>2. Current(list, applied.upto)' \/ ToldAfter(applied.id)'
      BY <3>1, <2>2, <2>3 DEF ListsAreTold, Current, ToldAfter
    <3>3. ASSUME NEW p \in listings, p.asks = "list", p.read # Listed!Unread, p.id >= applied.id
          PROVE Current(p.read, p.upto)' \/ ToldAfter(p.id)'
      <4>1. p.upto \in Nat /\ p.upto <= added
        BY DEF FilesTyped, Listing
      <4>2. Current(p.read, p.upto) \/ ToldAfter(p.id)
        BY <3>3 DEF ListsAreTold
      <4>3. QED
        BY <4>1, <4>2, <2>2, <2>3
    <3>4. QED
      BY <3>1, <3>2, <3>3 DEF ListsAreTold, ToldAfter, Current
  <2>5. QED
    BY <2>1, <2>4
<1>2. CASE Listed!SaveByHand
  <2> DEFINE q == Listed!Request("list", 0, "none")
  <2>1. /\ listings' = listings \cup {q} /\ listed' = listed + 1
        /\ added' = added + 1 /\ files' = files \cup {added + 1}
        /\ UNCHANGED <<list, deleting, working, applied, overtaken, unlisted>>
    BY <1>2 DEF Listed!SaveByHand, Listed!Ask, Listed!Fetch
  <2>2. /\ q \in Listing /\ q.asks = "list" /\ q.after = "none" /\ q.read = Listed!Unread
        /\ q.id = listed + 1 /\ q.upto = 0
    BY ANewListing
  <2> HIDE DEF q
  <2>3. \A r \in listings : r.upto \in Nat /\ r.id \in Nat
    BY DEF FilesTyped, Listing
  <2>4. FilesTyped'
    BY <2>1, <2>2, <2>3 DEF FilesTyped
  <2>5. ButtonsWait'
    BY <2>1 DEF ButtonsWait
  <2>6. ListsAreTold'
    BY <2>1, <2>2, <2>4, NewFetchTells
  <2>7. QED
    BY <2>4, <2>5, <2>6
<1>3. ASSUME NEW r, listings' = listings \cup {r}, r.asks # "list", ListsAreTold,
             UNCHANGED <<files, added, list, applied, overtaken, unlisted>>
      PROVE  ListsAreTold'
  BY <1>3 DEF ListsAreTold, ToldAfter, Current
<1>4. ASSUME NEW f \in list, Listed!DeleteFile(f) PROVE FilesInv'
  <2> DEFINE q == Listed!Request("delete", f, "none")
  <2>1. /\ listings' = listings \cup {q} /\ listed' = listed + 1 /\ deleting' = f
        /\ working' = working
        /\ UNCHANGED <<files, added, list, applied, overtaken, unlisted>>
    BY <1>4 DEF Listed!DeleteFile, Listed!Ask
  <2>2. f \in Int
    BY UiAssumption DEF FilesTyped
  <2>3. /\ q \in Listing /\ q.asks = "delete" /\ q.after = "none" /\ q.id = listed + 1 /\ q.upto = 0
    BY <2>2, ANewListing
  <2> HIDE DEF q
  <2>4. \A r \in listings : r.id \in Nat
    BY DEF FilesTyped, Listing
  <2>5. FilesTyped'
    BY <2>1, <2>3, <2>4 DEF FilesTyped
  <2>6. ButtonsWait'
    BY <2>1, <2>3 DEF ButtonsWait
  <2>7. ListsAreTold'
    BY <1>3, <2>1, <2>3
  <2>8. QED
    BY <2>5, <2>6, <2>7
<1>5. ASSUME NEW keep \in {0, KeepCount}, Listed!CleanUp(keep) PROVE FilesInv'
  <2> DEFINE q == Listed!Request("cleanup", keep, "none")
  <2>1. /\ listings' = listings \cup {q} /\ listed' = listed + 1 /\ working' = TRUE
        /\ deleting' = deleting
        /\ UNCHANGED <<files, added, list, applied, overtaken, unlisted>>
    BY <1>5 DEF Listed!CleanUp, Listed!Ask
  <2>2. keep \in Int
    BY UiAssumption DEF FilesTyped
  <2>3. /\ q \in Listing /\ q.asks = "cleanup" /\ q.after = "none" /\ q.id = listed + 1
        /\ q.upto = 0
    BY <2>2, ANewListing
  <2> HIDE DEF q
  <2>4. \A r \in listings : r.id \in Nat
    BY DEF FilesTyped, Listing
  <2>5. FilesTyped'
    BY <2>1, <2>3, <2>4 DEF FilesTyped
  <2>6. ButtonsWait'
    BY <2>1, <2>3 DEF ButtonsWait
  <2>7. ListsAreTold'
    BY <1>3, <2>1, <2>3
  <2>8. QED
    BY <2>5, <2>6, <2>7
<1>6. ASSUME NEW r \in listings, NEW ok \in BOOLEAN, Listed!Removed(r, ok) PROVE FilesInv'
  <2>1. files' \subseteq files
    BY <1>6 DEF Listed!Removed, Listed!Recent
  <2>2. FilesTyped'
    <3> DEFINE q == Listed!Request("list", 0, r.asks)
    <3>1. /\ listings' = (listings \ {r}) \cup (IF ok THEN {q} ELSE {})
          /\ listed' = (IF ok THEN listed + 1 ELSE listed)
          /\ working' = (working /\ (ok \/ r.asks = "delete"))
          /\ UNCHANGED <<added, list, applied, overtaken, unlisted>>
      BY <1>6 DEF Listed!Removed, Listed!Fetch
    <3>2. r.asks \in {"delete", "cleanup"}
      BY <1>6 DEF Listed!Removed, FilesTyped, Listing
    <3>3. /\ q \in Listing /\ q.asks = "list" /\ q.id = listed + 1 /\ q.upto = 0
      BY <3>2, ANewListing
    <3> HIDE DEF q
    <3>4. \A p \in listings : p.id \in Nat
      BY DEF FilesTyped, Listing
    <3>5. QED
      BY <2>1, <3>1, <3>3, <3>4 DEF FilesTyped
  <2>3. ButtonsWait'
    <3>1. r.asks \in {"delete", "cleanup"} /\ r.after = "none"
      BY <1>6 DEF Listed!Removed, FilesTyped, Listing
    <3>2. CASE ok
      <4> DEFINE q == Listed!Fetch(r.asks)
      <4>1. q \in listings' /\ q.after = r.asks /\ listings' = (listings \ {r}) \cup {q}
        BY <1>6, <3>2 DEF Listed!Removed, Listed!Fetch, Listed!Request
      <4> HIDE DEF q
      <4>2. QED
        BY <1>6, <3>1, <3>2, <4>1 DEF Listed!Removed, ButtonsWait, FilesTyped
    <3>3. CASE ~ok
      BY <1>6, <3>1, <3>3 DEF Listed!Removed, ButtonsWait, FilesTyped
    <3>4. QED
      BY <3>2, <3>3
  <2>4. ListsAreTold'
    <3>1. CASE ok
      <4> DEFINE q == Listed!Fetch(r.asks)
      <4>1. /\ q \in listings' /\ q.asks = "list" /\ q.read = Listed!Unread /\ q.id = listed + 1
            /\ listings' = (listings \ {r}) \cup {q} /\ applied' = applied
        BY <1>6, <3>1 DEF Listed!Removed, Listed!Fetch, Listed!Request
      <4> HIDE DEF q
      <4>2. QED
        BY <2>2, <4>1, NewFetchTells
    <3>2. CASE ~ok
      <4>1. /\ listings' = listings \ {r} /\ r.asks # "list"
            /\ UNCHANGED <<files, added, list, applied, overtaken, unlisted>>
        BY <1>6, <3>2 DEF Listed!Removed
      <4>2. QED
        BY <4>1 DEF ListsAreTold, ToldAfter, Current
    <3>3. QED
      BY <3>1, <3>2
  <2>5. QED
    BY <2>2, <2>3, <2>4
<1>7. ASSUME NEW r \in listings, Listed!Read(r) PROVE FilesInv'
  <2> DEFINE q == [r EXCEPT !.read = files, !.upto = added]
  <2>1. /\ listings' = (listings \ {r}) \cup {q} /\ r.asks = "list" /\ r.read = Listed!Unread
        /\ UNCHANGED <<files, added, list, deleting, working, listed, applied, overtaken, unlisted>>
    BY <1>7 DEF Listed!Read
  <2>2. /\ q \in Listing /\ q.id = r.id /\ q.asks = r.asks /\ q.after = r.after
        /\ q.read = files /\ q.upto = added
    <3>1. r \in Listing /\ files \in SUBSET Int /\ added \in Nat
      BY DEF FilesTyped
    <3>2. QED
      BY <3>1 DEF Listing
  <2>3. Current(q.read, q.upto)
    BY <2>2 DEF Current
  <2> HIDE DEF q
  <2>4. FilesTyped'
    BY <2>1, <2>2 DEF FilesTyped
  <2>5. ButtonsWait'
    BY <2>1, <2>2 DEF ButtonsWait
  <2>6. ListsAreTold'
    <3>1. ASSUME NEW id, ToldAfter(id) PROVE ToldAfter(id)'
      BY <2>1, <2>2, <2>3, <3>1 DEF ToldAfter, Current
    <3>2. QED
      BY <2>1, <2>2, <2>3, <3>1 DEF ListsAreTold, Current
  <2>7. QED
    BY <2>4, <2>5, <2>6
<1>8. ASSUME NEW r \in listings, NEW ok \in BOOLEAN, Listed!Listed(r, ok) PROVE FilesInv'
  <2>1. FilesTyped'
    BY <1>8 DEF Listed!Listed, FilesTyped, Listing
  <2>2. ButtonsWait'
    BY <1>8 DEF Listed!Listed, FilesTyped, ButtonsWait, Listing
  <2>3. ListsAreTold'
    <3> SUFFICES ASSUME ~overtaken', ~unlisted' PROVE ListsAreTold'
      BY DEF ListsAreTold
    <3>1. /\ ok /\ ~overtaken /\ ~unlisted /\ r.id >= applied.id /\ r.read # Listed!Unread
          /\ r.asks = "list" /\ r.id \in Nat /\ applied.id \in Nat
          /\ list' = r.read /\ applied' = [id |-> r.id, upto |-> r.upto]
          /\ listings' = listings \ {r} /\ UNCHANGED <<files, added>>
      <4>1. r \in Listing
        BY DEF FilesTyped
      <4>2. ~(overtaken \/ (ok /\ r.id < applied.id)) /\ ~(unlisted \/ ~ok)
        BY <1>8 DEF Listed!Listed
      <4>3. r.id \in Nat /\ applied.id \in Nat
        BY <4>1 DEF FilesTyped, Listing
      <4>4. QED
        BY <1>8, <4>2, <4>3 DEF Listed!Listed
    <3>2. ASSUME NEW id \in Nat, id >= r.id, ToldAfter(id) PROVE ToldAfter(id)'
      <4>1. PICK q \in listings : /\ q.asks = "list" /\ q.id > id
                                  /\ q.read = Listed!Unread \/ Current(q.read, q.upto)
        BY <3>2 DEF ToldAfter
      <4>2. q # r
        BY <3>1, <3>2, <4>1
      <4>3. QED
        BY <3>1, <4>1, <4>2 DEF ToldAfter, Current
    <3>3. Current(list, applied.upto)' \/ ToldAfter(applied.id)'
      BY <3>1, <3>2 DEF ListsAreTold, Current, ToldAfter
    <3>4. ASSUME NEW p \in listings', p.asks = "list", p.read # Listed!Unread, p.id >= applied'.id
          PROVE  Current(p.read, p.upto)' \/ ToldAfter(p.id)'
      <4>1. p \in listings /\ p.id \in Nat /\ p.id >= r.id /\ p.id >= applied.id
        BY <3>1, <3>4 DEF FilesTyped, Listing
      <4>2. Current(p.read, p.upto) \/ ToldAfter(p.id)
        BY <3>1, <3>4, <4>1 DEF ListsAreTold
      <4>3. QED
        BY <3>1, <3>2, <4>1, <4>2 DEF Current
    <3>5. QED
      BY <3>3, <3>4 DEF ListsAreTold, ToldAfter, Current
  <2>4. QED
    BY <2>1, <2>2, <2>3
<1>9. QED
  BY <1>1, <1>2, <1>4, <1>5, <1>6, <1>7, <1>8 DEF Listed!Next

-----------------------------------------------------------------------------
(* The consent to share logs.                                               *)

Consenting == [id : Nat, asks : {"yes", "no", "status"}, from : {"page", "modal"},
               answer : {"none", "refused", "yes", "no"}]

SharingTyped ==
  /\ sent \in Nat /\ settled \in Nat /\ settled <= sent /\ consented \in {"yes", "no"}
  /\ consents \subseteq Consenting
  /\ \A r \in consents : 1 <= r.id /\ r.id <= sent
  /\ \A p, r \in consents : p.id = r.id => p = r

\* A later request is out whose answer is the consent there is, is still to come,
\* or will make the page ask again.
HeardAfter(id) == \E q \in consents : /\ q.id > id
                                      /\ q.from = "modal" \/ q.answer \in {"none", "refused", consented}

Spoken(p) == p.answer \in {"yes", "no"}

\* The service answers in the order of the questions, the page applies the
\* answers in that order, and what is out of date has a later answer coming.
ConsentIsHeard ==
  astray = {} =>
    /\ \A q \in consents : q.answer = "none" =>
         settled < q.id /\ \A p \in consents : Spoken(p) => p.id < q.id
    /\ logSharingStatus = consented \/ HeardAfter(settled)
    /\ \A p \in consents : p.from = "page" /\ Spoken(p) /\ p.id >= settled =>
         p.answer = consented \/ HeardAfter(p.id)

SharingInv == SharingTyped /\ ConsentIsHeard

LEMMA SharingSettles == SharingInv => Sharing!ConsentIsShown
BY DEF SharingInv, ConsentIsHeard, HeardAfter, Sharing!ConsentIsShown

LEMMA SharingInitially == UiInit => SharingInv
<1> SUFFICES ASSUME UiInit PROVE SharingInv
  OBVIOUS
<1> DEFINE q == [id |-> 1, asks |-> "status", from |-> "page", answer |-> "none"]
<1>1. consents = {q} /\ sent = 1 /\ settled = 0 /\ consented \in {"yes", "no"}
  BY DEF UiInit, Sharing!Init
<1>2. q \in Consenting /\ q.id = 1 /\ q.answer = "none"
  BY DEF Consenting
<1> HIDE DEF q
<1>3. QED
  BY <1>1, <1>2 DEF SharingInv, SharingTyped, ConsentIsHeard, HeardAfter, Spoken

LEMMA SharingAlike == SharingInv /\ UNCHANGED sharingVars => SharingInv'
BY DEF SharingInv, SharingTyped, ConsentIsHeard, HeardAfter, Spoken, sharingVars

\* A question that is new has the highest number, and its answer is to come.
LEMMA NewQuestionIsHeard ==
  ASSUME SharingInv, NEW asks \in {"yes", "no", "status"}, NEW from \in {"page", "modal"}, NEW r,
         consents' = (consents \ {r}) \cup {Sharing!Request(asks, from)},
         sent' = sent + 1, UNCHANGED <<consented, settled, astray>>
  PROVE  SharingInv'
<1> DEFINE q == Sharing!Request(asks, from)
<1>1. q \in Consenting /\ q.id = sent + 1 /\ q.answer = "none"
  BY DEF SharingInv, SharingTyped, Consenting, Sharing!Request
<1>2. \A p \in consents : p.id \in Nat
  BY DEF SharingInv, SharingTyped, Consenting
<1>3. consents' = (consents \ {r}) \cup {q}
  OBVIOUS
<1> HIDE DEF q
<1>4. SharingTyped'
  <2>1. \A p \in consents : p.id # q.id
    BY <1>1, <1>2 DEF SharingInv, SharingTyped
  <2>2. QED
    BY <1>1, <1>2, <1>3, <2>1 DEF SharingInv, SharingTyped
<1>5. \A id \in Nat : id <= sent => HeardAfter(id)'
  BY <1>1, <1>3 DEF HeardAfter, SharingInv, SharingTyped
<1>6. ConsentIsHeard'
  BY <1>1, <1>2, <1>3, <1>5 DEF SharingInv, SharingTyped, ConsentIsHeard, Spoken
<1>7. QED
  BY <1>4, <1>6 DEF SharingInv

LEMMA SharingKept == SharingInv /\ Sharing!Next => SharingInv'
<1> SUFFICES ASSUME SharingInv, Sharing!Next PROVE SharingInv'
  OBVIOUS
<1>1. CASE Sharing!ToggleOn
  BY <1>1 DEF Sharing!ToggleOn, SharingInv, SharingTyped, ConsentIsHeard, HeardAfter, Spoken
<1>2. ASSUME NEW asks \in {"yes", "no", "status"}, NEW from \in {"page", "modal"},
             Sharing!Send(asks, from), UNCHANGED <<consented, settled, astray>>
      PROVE  SharingInv'
  <2>1. consents' = (consents \ {Sharing!Request(asks, from)}) \cup {Sharing!Request(asks, from)}
    BY <1>2 DEF Sharing!Send
  <2>2. QED
    BY <1>2, <2>1, NewQuestionIsHeard DEF Sharing!Send
<1>3. CASE Sharing!ToggleOff
  BY <1>2, <1>3 DEF Sharing!ToggleOff
<1>4. ASSUME NEW consent \in {"yes", "no"}, Sharing!Decide(consent) PROVE SharingInv'
  BY <1>2, <1>4 DEF Sharing!Decide
<1>5. CASE Sharing!CloseModal
  BY <1>2, <1>5 DEF Sharing!CloseModal
<1>6. ASSUME NEW r \in consents, Sharing!Serve(r) PROVE SharingInv'
  <2> DEFINE q == [r EXCEPT !.answer = consented']
  <2>1. /\ r.answer = "none" /\ consents' = (consents \ {r}) \cup {q}
        /\ consented' \in {"yes", "no"}
        /\ UNCHANGED <<logSharingStatus, sent, settled>>
    <3>1. r \in Consenting
      BY DEF SharingInv, SharingTyped
    <3>2. r.asks \in {"yes", "no", "status"} /\ consented \in {"yes", "no"}
      BY <3>1 DEF SharingInv, SharingTyped, Consenting
    <3>3. QED
      BY <1>6, <3>2 DEF Sharing!Serve
  <2>2. /\ q \in Consenting /\ q.id = r.id /\ q.from = r.from /\ q.answer = consented'
        /\ r.id \in Nat
    <3>1. r \in Consenting
      BY DEF SharingInv, SharingTyped
    <3>2. QED
      BY <2>1, <3>1 DEF Consenting
  <2>3. \A p \in consents : p.id \in Nat
    BY DEF SharingInv, SharingTyped, Consenting
  <2> HIDE DEF q
  <2>4. SharingTyped'
    BY <2>1, <2>2, <2>3 DEF SharingInv, SharingTyped
  <2>5. ConsentIsHeard'
    <3> SUFFICES ASSUME astray' = {} PROVE ConsentIsHeard'
      BY DEF ConsentIsHeard
    <3>1. astray = {} /\ \A p \in consents : p.answer = "none" => ~(p.id < r.id)
      BY <1>6 DEF Sharing!Serve
    <3>2. /\ settled < r.id
          /\ \A p \in consents : Spoken(p) => p.id < r.id
          /\ \A p \in consents : p.answer = "none" /\ p # r => r.id < p.id
      <4>1. settled < r.id /\ \A p \in consents : Spoken(p) => p.id < r.id
        BY <2>1, <3>1 DEF SharingInv, ConsentIsHeard
      <4>2. ASSUME NEW p \in consents, p.answer = "none", p # r PROVE r.id < p.id
        <5>1. ~(p.id < r.id) /\ p.id # r.id /\ p.id \in Nat
          BY <2>3, <3>1, <4>2 DEF SharingInv, SharingTyped
        <5>2. QED
          BY <2>2, <5>1
      <4>3. QED
        BY <4>1, <4>2
    <3>3. \A id \in Nat : id < r.id => HeardAfter(id)'
      BY <2>1, <2>2 DEF HeardAfter
    <3>4. HeardAfter(settled)'
      BY <2>1, <3>2, <3>3 DEF SharingInv, SharingTyped
    <3>5. ASSUME NEW o \in consents', o.answer = "none"
          PROVE  settled' < o.id /\ \A p \in consents' : Spoken(p) => p.id < o.id
      <4>1. o \in consents /\ o # r
        BY <2>1, <2>2, <3>5
      <4>2. r.id < o.id /\ settled < o.id
        BY <2>3, <3>1, <3>2, <3>5, <4>1 DEF SharingInv, ConsentIsHeard
      <4>3. ASSUME NEW p \in consents', Spoken(p) PROVE p.id < o.id
        <5>1. CASE p = q
          BY <2>2, <4>2, <5>1
        <5>2. CASE p \in consents
          BY <3>1, <3>5, <4>1, <4>3, <5>2 DEF SharingInv, ConsentIsHeard
        <5>3. QED
          BY <2>1, <5>1, <5>2
      <4>4. QED
        BY <2>1, <4>2, <4>3
    <3>6. ASSUME NEW p \in consents', Spoken(p) PROVE p.answer = consented' \/ HeardAfter(p.id)'
      <4>1. CASE p = q
        BY <2>2, <4>1
      <4>2. CASE p \in consents
        BY <2>3, <3>2, <3>3, <3>6, <4>2
      <4>3. QED
        BY <2>1, <4>1, <4>2
    <3>7. QED
      BY <3>4, <3>5, <3>6 DEF ConsentIsHeard, Spoken
  <2>6. QED
    BY <2>4, <2>5 DEF SharingInv
<1>7. ASSUME NEW r \in consents, Sharing!Refuse(r) PROVE SharingInv'
  <2> DEFINE q == [r EXCEPT !.answer = "refused"]
  <2>1. /\ r.answer = "none" /\ consents' = (consents \ {r}) \cup {q}
        /\ UNCHANGED <<consented, logSharingStatus, sent, settled, astray>>
    BY <1>7 DEF Sharing!Refuse
  <2>2. q \in Consenting /\ q.id = r.id /\ q.from = r.from /\ q.answer = "refused"
    <3>1. r \in Consenting
      BY DEF SharingInv, SharingTyped
    <3>2. QED
      BY <3>1 DEF Consenting
  <2> HIDE DEF q
  <2>3. SharingTyped'
    BY <2>1, <2>2 DEF SharingInv, SharingTyped
  <2>4. \A id : HeardAfter(id) => HeardAfter(id)'
    BY <2>1, <2>2 DEF HeardAfter
  <2>5. ~Spoken(q)
    BY <2>2 DEF Spoken
  <2>6. ConsentIsHeard'
    <3> SUFFICES ASSUME astray = {} PROVE ConsentIsHeard'
      BY <2>1 DEF ConsentIsHeard
    <3>1. \A p \in consents' : p \in consents \/ p = q
      BY <2>1
    <3>2. QED
      BY <2>1, <2>2, <2>4, <2>5, <3>1 DEF SharingInv, ConsentIsHeard, Spoken
  <2>7. QED
    BY <2>3, <2>6 DEF SharingInv
<1>8. ASSUME NEW r \in consents, Sharing!ModalAnswered(r) PROVE SharingInv'
  BY <1>8, NewQuestionIsHeard DEF Sharing!ModalAnswered
<1>9. ASSUME NEW r \in consents, Sharing!PageAnswered(r) PROVE SharingInv'
  <2>1. /\ r.from = "page" /\ r.answer # "none" /\ consents' = consents \ {r}
        /\ logSharingStatus' = (IF r.answer = "refused" THEN logSharingStatus ELSE r.answer)
        /\ settled' = (IF r.id > settled THEN r.id ELSE settled)
        /\ UNCHANGED <<consented, sent>>
        /\ astray' = {} => astray = {} /\ ~(r.id < settled) /\ r.answer # "refused"
    BY <1>9 DEF Sharing!PageAnswered
  <2>2. r \in Consenting /\ r.id \in Nat /\ r.answer \in {"none", "refused", "yes", "no"}
    BY DEF SharingInv, SharingTyped, Consenting
  <2>3. \A p \in consents : p.id \in Nat
    BY DEF SharingInv, SharingTyped, Consenting
  <2>4. SharingTyped'
    BY <2>1, <2>2 DEF SharingInv, SharingTyped
  <2>5. ConsentIsHeard'
    <3> SUFFICES ASSUME astray' = {} PROVE ConsentIsHeard'
      BY DEF ConsentIsHeard
    <3>1. /\ astray = {} /\ r.id >= settled /\ settled' = r.id /\ Spoken(r)
          /\ logSharingStatus' = r.answer
      BY <2>1, <2>2 DEF Spoken, SharingInv, SharingTyped
    <3>2. ASSUME NEW id \in Nat, id >= r.id, HeardAfter(id) PROVE HeardAfter(id)'
      <4>1. PICK q \in consents : q.id > id /\ (q.from = "modal" \/ q.answer \in {"none", "refused", consented})
        BY <3>2 DEF HeardAfter
      <4>2. q # r
        BY <2>2, <2>3, <3>2, <4>1
      <4>3. QED
        BY <2>1, <4>1, <4>2 DEF HeardAfter
    <3>3. logSharingStatus' = consented' \/ HeardAfter(settled)'
      BY <2>1, <2>2, <3>1, <3>2 DEF SharingInv, ConsentIsHeard, HeardAfter
    <3>4. ASSUME NEW p \in consents', p.from = "page", Spoken(p), p.id >= settled'
          PROVE  p.answer = consented' \/ HeardAfter(p.id)'
      <4>1. p \in consents /\ p.id \in Nat /\ p.id >= r.id /\ p.id >= settled
        BY <2>1, <2>2, <2>3, <3>1, <3>4 DEF SharingInv, SharingTyped
      <4>2. p.answer = consented \/ HeardAfter(p.id)
        BY <3>1, <3>4, <4>1 DEF SharingInv, ConsentIsHeard
      <4>3. QED
        BY <2>1, <3>2, <4>1, <4>2
    <3>5. ASSUME NEW q \in consents', q.answer = "none"
          PROVE  settled' < q.id /\ \A p \in consents' : Spoken(p) => p.id < q.id
      BY <2>1, <3>1, <3>5 DEF SharingInv, ConsentIsHeard
    <3>6. QED
      BY <3>3, <3>4, <3>5 DEF ConsentIsHeard, Spoken
  <2>6. QED
    BY <2>4, <2>5 DEF SharingInv
<1>10. ASSUME NEW r \in consents, Sharing!Lost(r) PROVE SharingInv'
  <2>1. consents' = consents \ {r} /\ UNCHANGED <<consented, sent, settled>> /\ astray' # {}
    BY <1>10 DEF Sharing!Lost
  <2>2. SharingTyped'
    BY <2>1 DEF SharingInv, SharingTyped
  <2>3. QED
    BY <2>1, <2>2 DEF SharingInv, ConsentIsHeard
<1>11. QED
  BY <1>1, <1>3, <1>4, <1>5, <1>6, <1>7, <1>8, <1>9, <1>10 DEF Sharing!Next

-----------------------------------------------------------------------------
(* The dashboard.                                                           *)

Drafts == Board!Categories \cup EntityTypes \cup {Nothing}
Questions == [open : BOOLEAN, loading : BOOLEAN, showCancel : BOOLEAN,
              kind : {"none", "add", "restart"}, about : Drafts,
              port : DashboardPorts \cup {Nothing}, left : BOOLEAN]
Additions == [key : Drafts \cup {"light"}, draft : Drafts, port : DashboardPorts \cup {Nothing},
              shown : Questions, stage : {"sent", "added", "failed"}]

BoardTyped ==
  /\ dashboardPort \in DashboardPorts \cup {Nothing}
  /\ yamlDraft \in Drafts /\ selectedCategory \in Drafts
  /\ selectedEntityType \in EntityTypes \cup {Nothing}
  /\ addDialog \in Questions /\ adds \subseteq Additions

AsShown(r) == /\ r.key = r.draft /\ r.draft = r.shown.about
              /\ (r.shown.left \/ r.port = r.shown.port)

\* A draft goes under the key of its kind, and the dialog that asks is about it.
DraftIsShown ==
  /\ addStep = "edit-yaml" => Board!RootKey = yamlDraft
  /\ addDialog.open /\ addDialog.kind = "add" /\ ~addDialog.loading =>
       /\ addStep = "edit-yaml" /\ addDialog.about = yamlDraft
       /\ addDialog.left \/ addDialog.port = dashboardPort
  /\ \A r \in adds : AsShown(r)

\* What waits, waits for an answer or for the page to be loaded anew.
BoardWaits ==
  /\ isAdding => adds # {}
  /\ dashboardRestarting => restarts # {} \/ restartFailed \/ dashboardReloadDue
  /\ addDialog.open /\ addDialog.loading =>
       adds # {} \/ restarts # {} \/ restartFailed \/ dashboardReloadDue

BoardInv == BoardTyped /\ DraftIsShown /\ BoardWaits

LEMMA BoardSettles == BoardInv => Board!DashboardSettles
BY DEF BoardInv, DraftIsShown, BoardWaits, AsShown, Board!DashboardSettles

LEMMA NoQuestionAsked ==
  /\ Board!NoQuestion \in Questions
  /\ ~Board!NoQuestion.open
BY DEF Board!NoQuestion, Questions, Drafts

LEMMA AQuestion ==
  ASSUME NEW kind \in {"add", "restart"}, NEW about \in Drafts, NEW port \in DashboardPorts \cup {Nothing}
  PROVE  LET q == Board!Question(kind, about, port)
         IN /\ q \in Questions /\ q.open /\ ~q.loading /\ q.kind = kind
            /\ q.about = about /\ q.port = port
BY DEF Board!Question, Board!NoQuestion, Questions, Drafts

LEMMA BoardInitially == UiInit => BoardInv
BY NoQuestionAsked
   DEF UiInit, Board!Init, BoardInv, BoardTyped, DraftIsShown, BoardWaits, Drafts

LEMMA BoardAlike == BoardInv /\ UNCHANGED boardVars => BoardInv'
BY DEF BoardInv, BoardTyped, DraftIsShown, BoardWaits, AsShown, Board!RootKey, boardVars

LEMMA RestartWaits ==
  ASSUME BoardTyped, addDialog' = Board!Restarting
  PROVE  addDialog' \in Questions /\ addDialog'.loading
BY DEF BoardTyped, Questions, Board!Restarting

\* The modal moves only while no dialog is open.
LEMMA ModalMoves ==
  ASSUME BoardInv, ~addDialog.open, UNCHANGED Board!Elsewhere,
         yamlDraft' \in Drafts, selectedCategory' \in Drafts, selectedEntityType' \in EntityTypes \cup {Nothing},
         addStep' = "edit-yaml" => Board!RootKey' = yamlDraft'
  PROVE  BoardInv'
BY DEF BoardInv, BoardTyped, DraftIsShown, BoardWaits, AsShown, Board!Elsewhere, Board!shownInfo

LEMMA BoardKept == BoardInv /\ Board!Next => BoardInv'
<1> SUFFICES ASSUME BoardInv, Board!Next PROVE BoardInv'
  OBVIOUS
<1>0. BoardTyped /\ DraftIsShown /\ BoardWaits
  BY DEF BoardInv
<1>1. CASE Board!OpenAddModal
  BY <1>0, <1>1, ModalMoves DEF Board!OpenAddModal, Board!ClearedModal, Drafts
<1>2. CASE Board!CloseAddModal
  BY <1>0, <1>2, ModalMoves DEF Board!CloseAddModal, BoardTyped, DraftIsShown, Board!RootKey
<1>3. CASE Board!HandleAddStepBack
  BY <1>0, <1>3, ModalMoves DEF Board!HandleAddStepBack, BoardTyped
<1>4. ASSUME NEW category \in Board!Categories, Board!HandleCategorySelect(category) PROVE BoardInv'
  BY <1>0, <1>4, ModalMoves
     DEF Board!HandleCategorySelect, Board!InModal, Board!Categories, BoardTyped, Drafts, Board!RootKey
<1>5. ASSUME NEW type \in EntityTypes, Board!HandleEntityTypeSelect(type) PROVE BoardInv'
  BY <1>0, <1>5, ModalMoves, UiAssumption
     DEF Board!HandleEntityTypeSelect, Board!InModal, Board!Categories, BoardTyped, Drafts, Board!RootKey
<1>6. CASE Board!GoToConfirmation
  <2>1. /\ addDialog' = Board!Question("add", yamlDraft, dashboardPort) /\ addStep = "edit-yaml"
        /\ UNCHANGED <<dashboardPort, yamlDraft, selectedCategory, selectedEntityType, addStep,
                       adds,
                       isAdding, dashboardRestarting, restarts, restartFailed, dashboardReloadDue>>
    BY <1>6 DEF Board!GoToConfirmation, Board!InModal, Board!shownInfo, Board!modal
  <2>2. /\ addDialog' \in Questions /\ ~addDialog'.loading
        /\ addDialog'.about = yamlDraft /\ addDialog'.port = dashboardPort
    BY <1>0, <2>1, AQuestion DEF BoardTyped
  <2>3. QED
    BY <1>0, <2>1, <2>2 DEF BoardInv, BoardTyped, DraftIsShown, BoardWaits, AsShown, Board!RootKey
<1>7. CASE Board!CloseDialog
  BY <1>0, <1>7, NoQuestionAsked
     DEF Board!CloseDialog, Board!shownInfo, Board!modal, BoardInv, BoardTyped, DraftIsShown, BoardWaits,
         AsShown, Board!RootKey
<1>8. CASE Board!ConfirmAdd
  <2>1. /\ addDialog.open /\ addDialog.kind = "add" /\ ~addDialog.loading
        /\ UNCHANGED <<dashboardPort, yamlDraft, selectedCategory, selectedEntityType, addStep,
                       dashboardRestarting, restarts, restartFailed, dashboardReloadDue>>
    BY <1>8 DEF Board!ConfirmAdd, Board!shownInfo, Board!modal
  <2>2. CASE addDialog' = Board!NoQuestion /\ UNCHANGED <<adds, isAdding>>
    BY <1>0, <2>1, <2>2, NoQuestionAsked
       DEF BoardInv, BoardTyped, DraftIsShown, BoardWaits, AsShown, Board!RootKey
  <2> DEFINE r == [key |-> Board!RootKey, draft |-> yamlDraft, port |-> dashboardPort,
                   shown |-> addDialog, stage |-> "sent"]
  <2>3. CASE addDialog' = [addDialog EXCEPT !.loading = TRUE] /\ adds' = adds \cup {r} /\ isAdding' = TRUE
    <3>1. r \in Additions /\ AsShown(r)
      BY <1>0, <2>1 DEF BoardTyped, DraftIsShown, AsShown, Additions, Drafts
    <3>2. addDialog' \in Questions /\ addDialog'.loading
      BY <1>0, <2>3 DEF BoardTyped, Questions
    <3> HIDE DEF r
    <3>3. QED
      BY <1>0, <2>1, <2>3, <3>1, <3>2
         DEF BoardInv, BoardTyped, DraftIsShown, BoardWaits, AsShown, Board!RootKey
  <2>4. QED
    BY <1>8, <2>2, <2>3 DEF Board!ConfirmAdd
<1>9. CASE Board!HandleRestart
  <2>1. /\ addDialog' = Board!Question("restart", Nothing, Nothing)
        /\ UNCHANGED <<dashboardPort, yamlDraft, selectedCategory, selectedEntityType, addStep,
                       adds,
                       isAdding, dashboardRestarting, restarts, restartFailed, dashboardReloadDue>>
    BY <1>9 DEF Board!HandleRestart, Board!shownInfo, Board!modal
  <2>2. Nothing \in Drafts
    BY DEF Drafts
  <2>3. addDialog' \in Questions /\ ~addDialog'.loading /\ addDialog'.kind = "restart"
    BY <2>1, <2>2, AQuestion
  <2>4. QED
    BY <1>0, <2>1, <2>3 DEF BoardInv, BoardTyped, DraftIsShown, BoardWaits, AsShown, Board!RootKey
<1>10. CASE Board!ConfirmRestart
  BY <1>0, <1>10, RestartWaits
     DEF Board!ConfirmRestart, Board!BeginRestart, Board!shownInfo, Board!modal, BoardInv, BoardTyped,
         DraftIsShown, BoardWaits, AsShown, Board!RootKey
<1>11. ASSUME NEW r \in adds, Board!AddServed(r) PROVE BoardInv'
  <2>1. PICK stage \in {"added", "failed"} : adds' = (adds \ {r}) \cup {[r EXCEPT !.stage = stage]}
    BY <1>11 DEF Board!AddServed
  <2> DEFINE q == [r EXCEPT !.stage = stage]
  <2>2. q \in Additions /\ AsShown(q)
    <3>1. r \in Additions /\ AsShown(r)
      BY <1>0 DEF BoardTyped, DraftIsShown
    <3>2. QED
      BY <3>1 DEF AsShown, Additions
  <2> HIDE DEF q
  <2>3. UNCHANGED <<dashboardPort, yamlDraft, selectedCategory, selectedEntityType, addStep,
                    addDialog,
                    isAdding, dashboardRestarting, restarts, restartFailed, dashboardReloadDue>>
    BY <1>11 DEF Board!AddServed, Board!shownInfo, Board!modal
  <2>4. adds' = (adds \ {r}) \cup {q}
    BY <2>1 DEF q
  <2>5. QED
    BY <1>0, <2>2, <2>3, <2>4 DEF BoardInv, BoardTyped, DraftIsShown, BoardWaits, AsShown,
       Board!RootKey
<1>12. ASSUME NEW r \in adds, Board!ItemAdded(r) PROVE BoardInv'
  <2>1. /\ adds' = adds \ {r} /\ isAdding' = FALSE /\ restarts' # {}
        /\ addDialog' = Board!Restarting
        /\ UNCHANGED <<dashboardPort, yamlDraft, selectedCategory, selectedEntityType, addStep>>
    BY <1>12 DEF Board!ItemAdded, Board!BeginRestart, Board!shownInfo
  <2>2. QED
    BY <1>0, <2>1, RestartWaits DEF BoardInv, BoardTyped, DraftIsShown, BoardWaits, AsShown,
       Board!RootKey
<1>13. ASSUME NEW r \in adds, Board!AddFailed(r) PROVE BoardInv'
  BY <1>0, <1>13, NoQuestionAsked
     DEF Board!AddFailed, Board!shownInfo, Board!modal, BoardInv, BoardTyped, DraftIsShown, BoardWaits,
         AsShown, Board!RootKey
<1>14. ASSUME NEW by \in restarts, Board!RestartAccepted(by) PROVE BoardInv'
  BY <1>0, <1>14
     DEF Board!RestartAccepted, Board!shownInfo, Board!modal, BoardInv, BoardTyped, DraftIsShown, BoardWaits,
         AsShown, Board!RootKey
<1>15. ASSUME NEW by \in restarts, Board!RestartRefused(by) PROVE BoardInv'
  BY <1>0, <1>15, NoQuestionAsked
     DEF Board!RestartRefused, Board!shownInfo, Board!modal, BoardInv, BoardTyped, DraftIsShown, BoardWaits,
         AsShown, Board!RootKey
<1>16. CASE Board!BridgeInfoLoaded
  <2>1. /\ dashboardPort' \in DashboardPorts \cup {Nothing}
        /\ addDialog' = [addDialog EXCEPT
                           !.left = @ \/ (addDialog.open /\ dashboardPort' # dashboardPort)]
        /\ UNCHANGED <<yamlDraft, selectedCategory, selectedEntityType, addStep, adds,
                       isAdding, dashboardRestarting, restarts, restartFailed, dashboardReloadDue>>
    BY <1>16 DEF Board!BridgeInfoLoaded, Board!modal
  <2>2. /\ addDialog' \in Questions /\ addDialog'.open = addDialog.open
        /\ addDialog'.kind = addDialog.kind
        /\ addDialog'.loading = addDialog.loading /\ addDialog'.about = addDialog.about
        /\ addDialog'.port = addDialog.port
        /\ addDialog'.left = (addDialog.left \/ (addDialog.open /\ dashboardPort' # dashboardPort))
    BY <1>0, <2>1 DEF BoardTyped, Questions
  <2>3. QED
    BY <1>0, <2>1, <2>2 DEF BoardInv, BoardTyped, DraftIsShown, BoardWaits, AsShown, Board!RootKey
<1>17. CASE Board!Reload
  BY <1>0, <1>17, NoQuestionAsked
     DEF Board!Reload, Board!shownInfo, Board!ClearedModal, BoardInv, BoardTyped, DraftIsShown, BoardWaits,
         Drafts
<1>18. QED
  BY <1>1, <1>2, <1>3, <1>4, <1>5, <1>6, <1>7, <1>8, <1>9, <1>10, <1>11, <1>12, <1>13, <1>14,
     <1>15,
     <1>16, <1>17
     DEF Board!Next

-----------------------------------------------------------------------------
(* The page of settings.                                                    *)

Arguments == LogFiles \cup Configs \cup {NoArg}
Dialogs == [open : BOOLEAN, loading : BOOLEAN, showCancel : BOOLEAN,
            kind : {"none", "alert", "restart", "mqtt", "file", "config"}, arg : Arguments]
Actions == [id : Nat, kind : {"none", "restart", "mqtt", "file", "config", "edit"}, arg : Arguments,
            stage : {"first", "list", "token", "restart"}, editor : Nat]

\* The way an action goes, and what it is about.
GoesItsWay(r) ==
  /\ r.kind = "mqtt" => r.stage = "first"
  /\ r.kind = "file" => r.stage \in {"first", "list"}
  /\ r.stage = "list" => r.kind = "file"
  /\ r.kind = "edit" => r.editor # 0 /\ r.arg = NoArg
  /\ r.editor # 0 => r.kind = "edit"

PageTyped ==
  /\ dialogs \in Nat /\ editor \in Nat /\ configFiles \subseteq Configs
  /\ dialog \in Dialogs /\ actions \subseteq Actions
  /\ \A r \in actions : GoesItsWay(r)

\* What a button, a list or the dialog waits for.
Underway(stages) == \E r \in actions : r.stage \in stages
ThePageWaits ==
  /\ dialog.open /\ dialog.loading =>
       "dialog" \in stranded \/ reloadDue \/ \E r \in actions : r.editor = 0 \/ r.stage # "first"
  /\ isRestarting => "restart failed" \in stranded \/ reloadDue \/ Underway({"token", "restart"})
  /\ isClearingMqtt => "mqtt" \in stranded \/ reloadDue \/ \E r \in actions : r.kind = "mqtt"
  /\ deletingFile # NoArg => "deletion failed" \in stranded \/ \E r \in actions : r.kind = "file"
  /\ cacheFiles = savedFiles \/ "list" \in stranded \/ Underway({"list"})

\* Nothing is gone, or about to go, that was not confirmed.
NothingUnasked ==
  /\ LogFiles \ savedFiles \subseteq confirmed /\ Configs \ configFiles \subseteq confirmed
  /\ \A r \in actions : r.kind # "edit" => r.arg \in confirmed

PageInv == PageTyped /\ ThePageWaits /\ NothingUnasked

LEMMA PageSettles == PageInv => Page!SettingsPageSettles
BY DEF PageInv, ThePageWaits, NothingUnasked, Underway, Page!SettingsPageSettles, Page!AtRest

LEMMA PageInitially == UiInit => PageInv
BY DEF UiInit, Page!Init, Page!Closed, PageInv, PageTyped, ThePageWaits, NothingUnasked, Underway,
       Dialogs, Arguments

LEMMA PageAlike == PageInv /\ UNCHANGED pageVars => PageInv'
<1> SUFFICES ASSUME PageInv, UNCHANGED pageVars PROVE PageInv'
  OBVIOUS
<1>1. PageTyped'
  BY DEF PageInv, PageTyped, GoesItsWay, pageVars
<1>2. ThePageWaits' /\ NothingUnasked'
  BY DEF PageInv, ThePageWaits, NothingUnasked, Underway, pageVars
<1>3. QED
  BY <1>1, <1>2 DEF PageInv

LEMMA TheDialogIs ==
  ASSUME PageTyped, NEW open \in BOOLEAN, NEW waits \in BOOLEAN, NEW showCancel \in BOOLEAN
  PROVE  LET d == [dialog EXCEPT !.open = open, !.loading = waits, !.showCancel = showCancel]
             s == [dialog EXCEPT !.open = open, !.loading = waits]
             o == [dialog EXCEPT !.open = open]
             l == [dialog EXCEPT !.loading = waits, !.open = open]
             w == [dialog EXCEPT !.loading = waits]
         IN /\ d \in Dialogs /\ d.open = open /\ d.loading = waits
            /\ s \in Dialogs /\ s.open = open /\ s.loading = waits
            /\ l \in Dialogs /\ l.open = open /\ l.loading = waits
            /\ o \in Dialogs /\ o.open = open /\ o.loading = dialog.loading
            /\ w \in Dialogs /\ w.open = dialog.open /\ w.loading = waits
<1>1. dialog \in Dialogs
  BY DEF PageTyped
<1>2. QED
  BY <1>1 DEF Dialogs

\* An action that is in its next stage is the same otherwise.
LEMMA ItsNextStage ==
  ASSUME PageTyped, NEW r \in actions, NEW stage \in {"list", "token", "restart"}
  PROVE  LET q == [r EXCEPT !.stage = stage]
         IN /\ q \in Actions /\ q.stage = stage /\ q.kind = r.kind
            /\ q.arg = r.arg /\ q.editor = r.editor
<1>1. r \in Actions
  BY DEF PageTyped
<1>2. QED
  BY <1>1 DEF Actions

LEMMA PageKept == PageInv /\ Page!Next => PageInv'
<1> SUFFICES ASSUME PageInv, Page!Next PROVE PageInv'
  OBVIOUS
<1>0. PageTyped /\ ThePageWaits /\ NothingUnasked
  BY DEF PageInv
<1> DEFINE theRest == <<savedFiles, configFiles, cacheFiles, actions, isRestarting, isClearingMqtt,
                        deletingFile, reloadDue, confirmed, stranded>>
<1>1. ASSUME dialog' \in Dialogs, dialog'.open /\ dialog'.loading => dialog.open /\ dialog.loading,
             dialogs' \in Nat, editor' \in Nat, UNCHANGED theRest
      PROVE  PageInv'
  BY <1>0, <1>1 DEF PageInv, PageTyped, GoesItsWay, ThePageWaits, NothingUnasked, Underway
<1>2. ASSUME NEW k \in Page!Kinds, Page!Ask(k[1], k[2]) PROVE PageInv'
  <2>1. k[1] \in {"restart", "mqtt", "file", "config"} /\ k[2] \in Arguments
    BY <1>0, <1>2 DEF Page!Kinds, Arguments, PageTyped
  <2>2. dialog' \in Dialogs /\ ~dialog'.loading
    BY <1>2, <2>1 DEF Page!Ask, Page!Closed, Dialogs
  <2>3. dialogs' \in Nat /\ UNCHANGED <<theRest, editor>>
    BY <1>0, <1>2 DEF Page!Ask, Page!serviceVars, Page!flags, PageTyped
  <2>4. QED
    BY <1>0, <1>1, <2>2, <2>3 DEF PageTyped
<1>3. CASE Page!Cancel
  BY <1>0, <1>1, <1>3, TheDialogIs DEF Page!Cancel, Page!serviceVars, Page!flags, PageTyped
<1>4. CASE Page!Confirm
  <2>1. CASE dialog.kind = "alert"
    BY <1>0, <1>1, <1>4, <2>1, TheDialogIs DEF Page!Confirm, Page!serviceVars, Page!flags,
       PageTyped
  <2>2. CASE dialog.kind # "alert"
    <3> DEFINE q == [id |-> dialogs, kind |-> dialog.kind, arg |-> dialog.arg, editor |-> 0,
                     stage |-> IF dialog.kind = "restart" THEN "token" ELSE "first"]
    <3>1. q \in Actions /\ GoesItsWay(q) /\ q.kind = dialog.kind /\ q.editor = 0 /\ q.arg = dialog.arg
          /\ q.stage = (IF dialog.kind = "restart" THEN "token" ELSE "first")
      BY <1>0, <2>2 DEF PageTyped, Dialogs, Actions, GoesItsWay
    <3>2. /\ actions' = actions \cup {q} /\ confirmed' = confirmed \cup {dialog.arg}
          /\ isRestarting' = (IF dialog.kind = "restart" THEN TRUE ELSE isRestarting)
          /\ isClearingMqtt' = (isClearingMqtt \/ dialog.kind = "mqtt")
          /\ deletingFile' = (IF dialog.kind = "file" THEN dialog.arg ELSE deletingFile)
          /\ UNCHANGED <<savedFiles, configFiles, cacheFiles, reloadDue, editor, dialogs, stranded>>
      BY <1>4, <2>2 DEF Page!Confirm, Page!ShowRestarting, Page!serviceVars
    <3>3. dialog' \in Dialogs
      BY <1>0, <1>4, <2>2, TheDialogIs DEF Page!Confirm, Page!ShowRestarting
    <3> HIDE DEF q
    <3>4. PageTyped'
      BY <1>0, <3>1, <3>2, <3>3 DEF PageTyped, GoesItsWay
    <3>5. ThePageWaits'
      BY <1>0, <3>1, <3>2 DEF ThePageWaits, Underway
    <3>6. NothingUnasked'
      BY <1>0, <3>1, <3>2 DEF NothingUnasked
    <3>7. QED
      BY <3>4, <3>5, <3>6 DEF PageInv
  <2>3. QED
    BY <2>1, <2>2
<1>5. CASE Page!OpenEditor \/ Page!CloseEditor
  BY <1>0, <1>1, <1>5 DEF Page!OpenEditor, Page!CloseEditor, Page!serviceVars, Page!flags,
     PageTyped
<1>6. CASE Page!SaveAndRestart
  <2> DEFINE q == [id |-> editor, kind |-> "edit", arg |-> NoArg, editor |-> editor, stage |-> "first"]
  <2>1. q \in Actions /\ GoesItsWay(q) /\ q.kind = "edit"
    BY <1>0, <1>6 DEF Page!SaveAndRestart, PageTyped, Actions, Arguments, GoesItsWay
  <2>2. /\ actions' = actions \cup {q}
        /\ UNCHANGED <<savedFiles, configFiles, cacheFiles, dialog, isRestarting, isClearingMqtt,
                       deletingFile, reloadDue, editor, dialogs, confirmed, stranded>>
    BY <1>6 DEF Page!SaveAndRestart, Page!serviceVars, Page!flags
  <2> HIDE DEF q
  <2>3. PageTyped' /\ ThePageWaits' /\ NothingUnasked'
    BY <1>0, <2>1, <2>2 DEF PageTyped, GoesItsWay, ThePageWaits, NothingUnasked, Underway
  <2>4. QED
    BY <2>3 DEF PageInv
\* An action fails in a stage that is its first, or the token or the restart.
<1>7. ASSUME NEW r \in actions, r.stage # "list", r.kind # "mqtt", Page!Fails(r),
             UNCHANGED <<savedFiles, configFiles, cacheFiles, isRestarting, isClearingMqtt,
                         deletingFile, reloadDue, editor, dialogs, confirmed>>
      PROVE  PageInv'
  <2>1. /\ actions' = actions \ {r} /\ r \in Actions /\ GoesItsWay(r)
        /\ stranded' = stranded
             \cup (IF r.stage \in {"token", "restart"} THEN {"restart failed"} ELSE {})
             \cup (IF r.editor # 0 /\ r.stage # "first" THEN {"dialog"} ELSE {})
             \cup (IF r.kind = "file" THEN {"deletion failed"} ELSE {})
    BY <1>0, <1>7 DEF Page!Fails, Page!Ends, PageTyped
  <2>2. CASE r.editor = 0
    <3>1. dialog' \in Dialogs /\ ~dialog'.open
      BY <1>0, <1>7, <2>2, TheDialogIs DEF Page!Fails
    <3>2. PageTyped' /\ ThePageWaits' /\ NothingUnasked'
      BY <1>0, <1>7, <2>1, <3>1 DEF PageTyped, GoesItsWay, ThePageWaits, NothingUnasked, Underway
    <3>3. QED
      BY <3>2 DEF PageInv
  <2>3. CASE r.editor # 0
    <3>1. dialog' = dialog
      BY <1>7, <2>3 DEF Page!Fails
    <3>2. PageTyped' /\ ThePageWaits' /\ NothingUnasked'
      BY <1>0, <1>7, <2>1, <2>3, <3>1 DEF PageTyped, GoesItsWay, ThePageWaits, NothingUnasked,
         Underway
    <3>3. QED
      BY <3>2 DEF PageInv
  <2>4. QED
    BY <2>2, <2>3
<1>8. ASSUME NEW r \in actions, NEW outcome, Page!DeleteFile(r, outcome) PROVE PageInv'
  <2>1. CASE outcome = "ok" /\ r.arg \in savedFiles
    <3> DEFINE q == [r EXCEPT !.stage = "list"]
    <3>1. /\ savedFiles' = savedFiles \ {r.arg} /\ actions' = (actions \ {r}) \cup {q}
          /\ r.kind = "file" /\ r.stage = "first"
          /\ UNCHANGED <<configFiles, cacheFiles, dialog, isRestarting, isClearingMqtt,
                         deletingFile,
                         reloadDue, editor, dialogs, confirmed, stranded>>
      BY <1>8, <2>1 DEF Page!DeleteFile, Page!Goes, Page!flags
    <3>2. /\ q \in Actions /\ q.stage = "list" /\ q.kind = "file" /\ q.arg = r.arg
          /\ q.editor = r.editor
      BY <1>0, <3>1, ItsNextStage
    <3>3. GoesItsWay(r) /\ r.arg \in confirmed
      BY <1>0, <3>1 DEF PageTyped, NothingUnasked
    <3>4. GoesItsWay(q)
      BY <3>1, <3>2, <3>3 DEF GoesItsWay
    <3> HIDE DEF q
    <3>5. PageTyped' /\ ThePageWaits' /\ NothingUnasked'
      BY <1>0, <3>1, <3>2, <3>3, <3>4
         DEF PageTyped, GoesItsWay, ThePageWaits, NothingUnasked, Underway
    <3>6. QED
      BY <3>5 DEF PageInv
  <2>2. CASE ~(outcome = "ok" /\ r.arg \in savedFiles)
    BY <1>7, <1>8, <2>2 DEF Page!DeleteFile, Page!flags
  <2>3. QED
    BY <2>1, <2>2
<1>9. ASSUME NEW r \in actions, NEW outcome, Page!ListFiles(r, outcome) PROVE PageInv'
  <2>1. /\ r.kind = "file" /\ r.stage = "list" /\ actions' = actions \ {r}
        /\ cacheFiles' = (IF outcome = "ok" THEN savedFiles ELSE cacheFiles)
        /\ deletingFile' = NoArg
        /\ stranded' = stranded \cup (IF dialog.open /\ dialog.loading THEN {"dialog"} ELSE {})
                              \cup (IF outcome = "ok" THEN {} ELSE {"list"})
        /\ UNCHANGED <<savedFiles, configFiles, dialog, isRestarting, isClearingMqtt, reloadDue,
                       editor,
                       dialogs, confirmed>>
    BY <1>9 DEF Page!ListFiles, Page!Ends, Page!serviceVars
  <2>2. PageTyped' /\ ThePageWaits' /\ NothingUnasked'
    BY <1>0, <2>1 DEF PageTyped, GoesItsWay, ThePageWaits, NothingUnasked, Underway
  <2>3. QED
    BY <2>2 DEF PageInv
<1>10. ASSUME NEW r \in actions, NEW outcome, Page!ClearMqtt(r, outcome) PROVE PageInv'
  <2>1. r.kind = "mqtt" /\ r.stage = "first" /\ actions' = actions \ {r} /\ r.editor = 0
    BY <1>0, <1>10 DEF Page!ClearMqtt, Page!Restarts, Page!Ends, PageTyped, GoesItsWay
  <2>2. /\ isClearingMqtt' = (outcome = "unreachable") /\ dialog' \in Dialogs
        /\ UNCHANGED <<savedFiles, configFiles, cacheFiles, isRestarting, deletingFile, editor,
                       dialogs,
                       confirmed>>
    BY <1>0, <1>10, <2>1, TheDialogIs DEF Page!ClearMqtt, Page!Restarts
  <2>3. \/ outcome = "ok" /\ reloadDue' /\ stranded' = stranded
        \/ /\ outcome # "ok" /\ reloadDue' = reloadDue /\ ~dialog'.open
           /\ stranded' = IF outcome = "unreachable" THEN stranded \cup {"mqtt"} ELSE stranded
    BY <1>0, <1>10, TheDialogIs DEF Page!ClearMqtt, Page!Restarts
  <2>4. PageTyped' /\ ThePageWaits' /\ NothingUnasked'
    BY <1>0, <2>1, <2>2, <2>3 DEF PageTyped, GoesItsWay, ThePageWaits, NothingUnasked, Underway
  <2>5. QED
    BY <2>4 DEF PageInv
\* An action that goes on to the token or the restart keeps the dialog waiting.
<1>11. ASSUME NEW r \in actions, NEW stage \in {"token", "restart"}, Page!Goes(r, stage),
              r.kind \notin {"mqtt", "file"}, r.stage = "token" => stage = "restart",
              isRestarting' = isRestarting \/ stage = "token",
              dialog' \in Dialogs, configFiles' \subseteq Configs, Configs \ configFiles' \subseteq confirmed,
              UNCHANGED <<savedFiles, cacheFiles, isClearingMqtt, deletingFile, reloadDue, editor,
                          dialogs, confirmed, stranded>>
       PROVE  PageInv'
  <2> DEFINE q == [r EXCEPT !.stage = stage]
  <2>1. actions' = (actions \ {r}) \cup {q}
    BY <1>11 DEF Page!Goes
  <2>2. q \in Actions /\ q.stage = stage /\ q.kind = r.kind /\ q.arg = r.arg /\ q.editor = r.editor
    BY <1>0, ItsNextStage
  <2>3. GoesItsWay(r) /\ (r.kind # "edit" => r.arg \in confirmed)
    BY <1>0 DEF PageTyped, NothingUnasked
  <2>4. GoesItsWay(q)
    BY <1>11, <2>2, <2>3 DEF GoesItsWay
  <2> HIDE DEF q
  <2>5. PageTyped' /\ ThePageWaits' /\ NothingUnasked'
    BY <1>0, <1>11, <2>1, <2>2, <2>3, <2>4
       DEF PageTyped, GoesItsWay, ThePageWaits, NothingUnasked, Underway
  <2>6. QED
    BY <2>5 DEF PageInv
<1>12. ASSUME NEW r \in actions, NEW outcome, Page!ChangeConfig(r, outcome) PROVE PageInv'
  <2>1. /\ r.kind \in {"config", "edit"} /\ r.stage = "first"
        /\ UNCHANGED <<savedFiles, cacheFiles, isClearingMqtt, deletingFile, reloadDue, editor,
                       dialogs,
                       confirmed>>
    BY <1>12 DEF Page!ChangeConfig
  <2>2. CASE outcome = "ok" /\ (r.kind = "config" => r.arg \in configFiles)
    <3>1. /\ configFiles' = configFiles \ {r.arg} /\ Page!Goes(r, "token") /\ isRestarting' = TRUE
          /\ stranded' = stranded
      BY <1>12, <2>2 DEF Page!ChangeConfig, Page!ShowRestarting
    <3>2. dialog' \in Dialogs
      BY <1>0, <1>12, <2>2, TheDialogIs DEF Page!ChangeConfig, Page!ShowRestarting
    <3>3. r.arg \in confirmed \/ r.arg \notin Configs
      BY <1>0, <2>1, UiAssumption DEF NothingUnasked, PageTyped, GoesItsWay
    <3>4. configFiles' \subseteq Configs /\ Configs \ configFiles' \subseteq confirmed
      BY <1>0, <3>1, <3>3 DEF PageTyped, NothingUnasked
    <3>5. QED
      BY <1>11, <2>1, <3>1, <3>2, <3>4
  <2>3. CASE ~(outcome = "ok" /\ (r.kind = "config" => r.arg \in configFiles))
    BY <1>7, <1>12, <2>1, <2>3 DEF Page!ChangeConfig
  <2>4. QED
    BY <2>2, <2>3
<1>13. ASSUME NEW r \in actions, NEW outcome, Page!Token(r, outcome) PROVE PageInv'
  <2>1. /\ r.stage = "token" /\ r.kind \notin {"mqtt", "file"}
        /\ UNCHANGED <<savedFiles, configFiles, cacheFiles, isRestarting, isClearingMqtt,
                       deletingFile,
                       reloadDue, editor, dialogs, confirmed>>
    BY <1>0, <1>13 DEF Page!Token, Page!flags, PageTyped, GoesItsWay
  <2>2. CASE outcome = "ok"
    BY <1>0, <1>11, <1>13, <2>1, <2>2 DEF Page!Token, PageTyped, NothingUnasked
  <2>3. CASE outcome # "ok"
    BY <1>7, <1>13, <2>1, <2>3 DEF Page!Token
  <2>4. QED
    BY <2>2, <2>3
<1>14. ASSUME NEW r \in actions, NEW outcome, Page!Restart(r, outcome) PROVE PageInv'
  <2>1. /\ r.stage = "restart" /\ r.kind \notin {"mqtt", "file"}
        /\ UNCHANGED <<savedFiles, configFiles, cacheFiles, isRestarting, isClearingMqtt,
                       deletingFile,
                       editor, dialogs, confirmed>>
    BY <1>0, <1>14 DEF Page!Restart, Page!flags, PageTyped, GoesItsWay
  <2>2. CASE outcome = "ok" /\ r.id \in restartTokens
    <3>1. actions' = actions \ {r} /\ reloadDue' = TRUE /\ stranded' = stranded
      BY <1>14, <2>2 DEF Page!Restart, Page!Restarts, Page!Ends
    <3>2. dialog' \in Dialogs
      BY <1>0, <1>14, <2>2, TheDialogIs DEF Page!Restart, Page!Restarts, PageTyped
    <3>3. PageTyped' /\ ThePageWaits' /\ NothingUnasked'
      BY <1>0, <2>1, <3>1, <3>2 DEF PageTyped, GoesItsWay, ThePageWaits, NothingUnasked, Underway
    <3>4. QED
      BY <3>3 DEF PageInv
  <2>3. CASE ~(outcome = "ok" /\ r.id \in restartTokens)
    BY <1>7, <1>14, <2>1, <2>3 DEF Page!Restart
  <2>4. QED
    BY <2>2, <2>3
<1>15. CASE Page!Alert
  BY <1>0, <1>1, <1>15
     DEF Page!Alert, Page!Closed, Page!serviceVars, Page!flags, PageTyped, Dialogs, Arguments
<1>16. CASE Page!Reload
  BY <1>0, <1>16
     DEF Page!Reload, Page!Closed, Page!serviceVars, PageInv, PageTyped, ThePageWaits, NothingUnasked,
         Dialogs, Arguments
<1>17. CASE Page!Exit \/ Page!Start \/ \E t \in restartTokens : Page!ExpireToken(t)
  BY <1>0, <1>1, <1>17 DEF Page!Exit, Page!Start, Page!ExpireToken, Page!flags, PageTyped
<1>18. QED
  BY <1>2, <1>3, <1>4, <1>5, <1>6, <1>8, <1>9, <1>10, <1>12, <1>13, <1>14, <1>15, <1>16, <1>17
     DEF Page!Next

-----------------------------------------------------------------------------
(* Recordings.                                                              *)

LogDialogs == [open : BOOLEAN, loading : BOOLEAN, kind : {"none", "alert", "delete"}, about : Int]
LogRequest(r) == r \in [id : {r.id}, kind : {"status", "start", "stop", "delete"}, file : Int,
                        stage : {"sent", "unheard", "served"}, result : Int, own : BOOLEAN]

\* A file that was recorded to is not recorded to again.
Retired(f) == f <= newest /\ f \notin {0, logging}

RecordTyped ==
  /\ newest \in Nat /\ logging \in {0, newest} /\ (logging # 0 => logging \in logs)
  /\ recordedFile \in Int /\ (recordedFile # 0 => Retired(recordedFile))
  /\ isRecording \in BOOLEAN /\ logAstray \in BOOLEAN /\ misdeleted \in BOOLEAN /\ shown \in BOOLEAN
  /\ logDialog \in LogDialogs
  /\ logDialog.open \/ logAlertDue # "none" => shown
  /\ \A r \in logRequests :
       /\ LogRequest(r)
       /\ r.own => shown
       /\ r.kind = "delete" => Retired(r.file)
       /\ r.kind = "stop" /\ r.stage = "served" /\ r.result > 0 => Retired(r.result)

\* The page shows what the recorder does, and the last file.
Right == /\ isRecording <=> logging # 0
         /\ recordedFile # 0 => recordedFile = newest /\ recordedFile \in logs /\ ~isRecording
AsksToDelete == logDialog.open /\ logDialog.kind = "delete"
NothingAsked == ~logDialog.loading /\ ~AsksToDelete

\* The page while nothing is out, while it learns how things are, and while one
\* request is.
Quiet == /\ logRequests = {} /\ Right /\ ~logDialog.loading
         /\ AsksToDelete => logDialog.about = recordedFile /\ recordedFile # 0
Learning == /\ logRequests # {} /\ recordedFile = 0 /\ NothingAsked
            /\ \A r \in logRequests : /\ r.kind = "status"
                                      /\ r.stage = "sent" \/ (r.stage = "served" /\ r.result = logging)
Beginning(r) == /\ r.kind = "start" /\ NothingAsked
                /\ \/ Right /\ (r.stage = "sent" \/ (r.stage = "served" /\ r.result < 0))
                   \/ r.stage = "served" /\ r.result >= 0 /\ logging # 0
Ending(r) == /\ r.kind = "stop" /\ NothingAsked /\ recordedFile = 0
             /\ \/ r.stage = "sent" /\ logging # 0
                \/ r.stage = "served" /\ logging = 0 /\ r.result = newest /\ newest # 0 /\ newest \in logs
Removing(r) == /\ r.kind = "delete" /\ r.file = recordedFile /\ recordedFile # 0
               /\ recordedFile = newest /\ ~isRecording /\ logging = 0
               /\ (logDialog.loading => r.own) /\ (AsksToDelete => logDialog.loading)
               /\ \/ recordedFile \in logs /\ (r.stage = "sent" \/ (r.stage = "served" /\ r.result < 0))
                  \/ r.stage = "served" /\ r.result > 0
Calm == \/ Quiet \/ Learning
        \/ \E r \in logRequests : logRequests = {r} /\ (Beginning(r) \/ Ending(r) \/ Removing(r))

RecordInv == RecordTyped /\ (~logAstray => ~misdeleted /\ Calm)

LEMMA RecordSettles == RecordInv => Record!RecordingIsShown
BY DEF RecordInv, Calm, Quiet, Learning, Right, Record!RecordingIsShown

LEMMA ALogRequest ==
  ASSUME NEW id, NEW kind \in {"status", "start", "stop", "delete"}, NEW f \in Int, shown \in BOOLEAN
  PROVE  LET q == Record!Request(id, kind, f)
         IN /\ LogRequest(q) /\ q.kind = kind /\ q.file = f /\ q.stage = "sent" /\ q.own = shown
BY DEF Record!Request, LogRequest

LEMMA TheLogRequest ==
  ASSUME NEW r, LogRequest(r), NEW n \in Int, NEW stage \in {"unheard", "served"}
  PROVE  LET q == [r EXCEPT !.stage = "served", !.result = n]
             s == [r EXCEPT !.stage = stage]
             o == [r EXCEPT !.own = FALSE]
         IN /\ LogRequest(q) /\ q.kind = r.kind /\ q.file = r.file /\ q.own = r.own
            /\ q.stage = "served" /\ q.result = n
            /\ LogRequest(s) /\ s.kind = r.kind /\ s.file = r.file /\ s.own = r.own
            /\ s.stage = stage /\ s.result = r.result
            /\ LogRequest(o) /\ o.kind = r.kind /\ o.file = r.file /\ ~o.own
            /\ o.stage = r.stage /\ o.result = r.result
BY DEF LogRequest

LEMMA TheLogDialog ==
  ASSUME logDialog \in LogDialogs
  PROVE  /\ Record!NoDialog \in LogDialogs /\ ~Record!NoDialog.open /\ ~Record!NoDialog.loading
         /\ Record!Alert \in LogDialogs /\ ~Record!Alert.loading /\ Record!Alert.kind = "alert"
         /\ Record!Closed \in LogDialogs /\ ~Record!Closed.open /\ ~Record!Closed.loading
         /\ LET d == [logDialog EXCEPT !.loading = TRUE]
                c == [logDialog EXCEPT !.open = FALSE]
            IN /\ d \in LogDialogs /\ d.loading /\ d.open = logDialog.open /\ d.kind = logDialog.kind
               /\ c \in LogDialogs /\ ~c.open /\ c.loading = logDialog.loading
<1>1. /\ Record!NoDialog = [open |-> FALSE, loading |-> FALSE, kind |-> "none", about |-> 0]
      /\ Record!Alert = [open |-> TRUE, loading |-> FALSE, kind |-> "alert", about |-> 0]
  <2>1. Record!NoDialog = [open |-> FALSE, loading |-> FALSE, kind |-> "none", about |-> 0]
    BY DEF Record!NoDialog
  <2>2. Record!Alert = [Record!NoDialog EXCEPT !.open = TRUE, !.kind = "alert"]
    BY DEF Record!Alert
  <2>3. QED
    BY <2>1, <2>2
<1>2. /\ Record!NoDialog \in LogDialogs /\ ~Record!NoDialog.open /\ ~Record!NoDialog.loading
      /\ Record!Alert \in LogDialogs /\ ~Record!Alert.loading /\ Record!Alert.kind = "alert"
  BY <1>1 DEF LogDialogs
<1>3. Record!Closed \in LogDialogs /\ ~Record!Closed.open /\ ~Record!Closed.loading
  BY DEF LogDialogs, Record!Closed
<1>4. LET d == [logDialog EXCEPT !.loading = TRUE]
          c == [logDialog EXCEPT !.open = FALSE]
      IN /\ d \in LogDialogs /\ d.loading /\ d.open = logDialog.open /\ d.kind = logDialog.kind
         /\ c \in LogDialogs /\ ~c.open /\ c.loading = logDialog.loading
  BY DEF LogDialogs
<1>5. QED
  BY <1>2, <1>3, <1>4

\* The application asks twice how things are.
LEMMA StatusIsAsked ==
  ASSUME NEW out, \A r \in out : LogRequest(r), shown \in BOOLEAN
  PROVE  /\ out \subseteq Record!AskTwice(out) /\ Record!AskTwice(out) # {}
         /\ \A r \in Record!AskTwice(out) :
              LogRequest(r) /\ (r \notin out => r.kind = "status" /\ r.stage = "sent" /\ r.own = shown)
<1>1. PICK a, b : Record!AskTwice(out) = out \cup {Record!Request(a, "status", 0)}
                                           \cup {Record!Request(b, "status", 0)}
  BY DEF Record!AskTwice
<1>2. QED
  BY <1>1, ALogRequest

LEMMA RecordInitially == UiInit => RecordInv
<1> SUFFICES ASSUME UiInit PROVE RecordInv
  OBVIOUS
<1>1. /\ logging \in {0, 1} /\ newest = logging /\ logs = {logging} \ {0}
      /\ isRecording = FALSE /\ recordedFile = 0 /\ shown = FALSE
      /\ logDialog = Record!NoDialog /\ logAlertDue = "none"
      /\ logRequests = Record!AskTwice({}) /\ misdeleted = FALSE /\ logAstray = FALSE
  BY DEF UiInit, Record!Init
<1>2. /\ logRequests # {}
      /\ \A r \in logRequests : LogRequest(r) /\ r.kind = "status" /\ r.stage = "sent" /\ ~r.own
  <2>1. shown \in BOOLEAN /\ \A r \in {} : LogRequest(r)
    BY <1>1
  <2>2. /\ Record!AskTwice({}) # {}
        /\ \A r \in Record!AskTwice({}) :
             LogRequest(r) /\ r.kind = "status" /\ r.stage = "sent" /\ r.own = shown
    BY <2>1, StatusIsAsked
  <2>3. QED
    BY <1>1, <2>2
<1>3. logDialog \in LogDialogs /\ ~logDialog.open /\ ~logDialog.loading
  BY <1>1 DEF Record!NoDialog, LogDialogs
<1>4. RecordTyped
  <2>1. newest \in Nat /\ logging \in {0, newest} /\ (logging # 0 => logging \in logs)
    BY <1>1
  <2>2. /\ recordedFile \in Int /\ recordedFile = 0 /\ isRecording = FALSE /\ logAstray = FALSE
        /\ misdeleted = FALSE /\ shown = FALSE /\ logAlertDue = "none"
    BY <1>1
  <2>3. QED
    BY <1>2, <1>3, <2>1, <2>2 DEF RecordTyped
<1>5. Learning
  BY <1>1, <1>2, <1>3 DEF Learning, NothingAsked, AsksToDelete
<1>6. QED
  BY <1>1, <1>4, <1>5 DEF RecordInv, Calm

LEMMA RecordAlike == RecordInv /\ UNCHANGED recordVars => RecordInv'
<1> SUFFICES ASSUME RecordInv, UNCHANGED recordVars PROVE RecordInv'
  OBVIOUS
<1>1. RecordTyped'
  BY DEF RecordInv, RecordTyped, Retired, recordVars
<1>2. Calm' = Calm
  BY DEF Calm, Quiet, Learning, Beginning, Ending, Removing, Right, NothingAsked, AsksToDelete,
     recordVars
<1>3. QED
  BY <1>1, <1>2 DEF RecordInv, recordVars

-----------------------------------------------------------------------------
(* A request is made, served and answered.                                  *)

\* A page with nothing out makes one request; another that is out leads astray.
LEMMA RecordAsks ==
  ASSUME RecordInv, NEW kind \in {"start", "stop", "delete"}, NEW f \in Int,
         Record!Ask(kind, f), kind = "delete" => Retired(f),
         logDialog' \in LogDialogs, logDialog'.open => shown, misdeleted' \in BOOLEAN,
         UNCHANGED <<logging, newest, logs, isRecording, recordedFile, shown, logAlertDue>>,
         Quiet /\ ~misdeleted =>
           /\ ~misdeleted'
           /\ kind = "start" => NothingAsked'
           /\ kind = "stop" => isRecording /\ NothingAsked'
           /\ kind = "delete" => /\ f = recordedFile /\ recordedFile # 0 /\ shown
                                 /\ AsksToDelete' => logDialog'.loading
  PROVE  RecordInv'
<1>1. PICK id : logRequests' = logRequests \cup {Record!Request(id, kind, f)}
  BY DEF Record!Ask
<1> DEFINE q == Record!Request(id, kind, f)
<1>2. LogRequest(q) /\ q.kind = kind /\ q.file = f /\ q.stage = "sent" /\ q.own = shown
  BY ALogRequest DEF RecordInv, RecordTyped
<1>3. logAstray' = (logAstray \/ logRequests # {})
  BY DEF Record!Ask
<1> HIDE DEF q
<1>4. RecordTyped'
  BY <1>1, <1>2, <1>3 DEF RecordInv, RecordTyped, Retired, q
<1>5. ASSUME ~logAstray' PROVE ~misdeleted' /\ Calm'
  <2>1. Quiet /\ ~misdeleted
    BY <1>3, <1>5 DEF RecordInv, RecordTyped, Calm, Quiet, Learning
  <2>2. logRequests' = {q}
    BY <1>1, <2>1 DEF Quiet, q
  <2>3. CASE kind = "start"
    BY <1>2, <2>1, <2>2, <2>3 DEF Quiet, Right, Calm, Beginning
  <2>4. CASE kind = "stop"
    BY <1>2, <2>1, <2>2, <2>4 DEF Quiet, Right, Calm, Ending
  <2>5. CASE kind = "delete"
    BY <1>2, <2>1, <2>2, <2>5 DEF Quiet, Right, Calm, Removing, RecordInv, RecordTyped
  <2>6. QED
    BY <2>3, <2>4, <2>5
<1>6. QED
  BY <1>4, <1>5 DEF RecordInv

\* The dialog changes, and what is out stays.
LEMMA TheDialogMoves ==
  ASSUME RecordInv, logDialog' \in LogDialogs, logDialog'.open => shown, logAlertDue' # "none" => shown,
         UNCHANGED <<logging, newest, logs, isRecording, recordedFile, shown, logRequests,
                     misdeleted>>,
         logAstray' \in BOOLEAN, ~logAstray' => ~logAstray,
         ~logAstray' => ~logDialog'.loading \/ logDialog' = logDialog,
         ~logAstray' /\ AsksToDelete' =>
           logRequests = {} /\ logDialog'.about = recordedFile /\ recordedFile # 0
  PROVE  RecordInv'
<1>1. RecordTyped'
  BY DEF RecordInv, RecordTyped, Retired
<1>2. ASSUME ~logAstray' PROVE Calm'
  <2>1. Calm /\ (~logDialog'.loading \/ logDialog' = logDialog)
    BY <1>2 DEF RecordInv
  <2>2. CASE Quiet
    BY <1>2, <2>1, <2>2 DEF Quiet, Right, Calm, AsksToDelete
  <2>3. CASE Learning
    BY <1>2, <2>1, <2>3 DEF Learning, NothingAsked, Calm, AsksToDelete
  <2>4. ASSUME NEW r \in logRequests, logRequests = {r}, Beginning(r) \/ Ending(r) \/ Removing(r)
        PROVE  Calm'
    <3>1. ~AsksToDelete'
      BY <1>2, <2>4
    <3>2. Beginning(r) => Beginning(r)'
      BY <2>1, <3>1 DEF Beginning, NothingAsked, Right
    <3>3. Ending(r) => Ending(r)'
      BY <2>1, <3>1 DEF Ending, NothingAsked
    <3>4. Removing(r) => Removing(r)'
      BY <2>1, <3>1 DEF Removing
    <3>5. QED
      BY <2>4, <3>2, <3>3, <3>4 DEF Calm
  <2>5. QED
    BY <2>1, <2>2, <2>3, <2>4 DEF Calm
<1>3. QED
  BY <1>1, <1>2 DEF RecordInv

LEMMA RecordServed ==
  ASSUME RecordInv, NEW r \in logRequests, Record!Serve(r)
  PROVE  RecordInv'
<1>1. RecordTyped /\ LogRequest(r) /\ r.stage \in {"sent", "unheard"}
  BY DEF RecordInv, RecordTyped, Record!Serve
<1>2. ASSUME NEW n \in Int, Record!Reply(r, n)
      PROVE  /\ UNCHANGED <<isRecording, recordedFile, shown, logDialog, logAlertDue, misdeleted>>
             /\ \A p \in logRequests' : p \notin logRequests =>
                  /\ LogRequest(p) /\ p.kind = r.kind /\ p.file = r.file /\ p.own = r.own
                  /\ p.stage = "served" /\ p.result = n
             /\ r.stage = "sent" => \E p \in logRequests' :
                  /\ logRequests' = (logRequests \ {r}) \cup {p}
                  /\ p.kind = r.kind /\ p.file = r.file /\ p.own = r.own /\ p.stage = "served"
                  /\ p.result = n
  <2>1. /\ UNCHANGED <<isRecording, recordedFile, shown, logDialog, logAlertDue, misdeleted>>
        /\ logRequests' = (logRequests \ {r}) \cup
               (IF r.stage = "unheard" THEN {} ELSE {[r EXCEPT !.stage = "served", !.result = n]})
    BY <1>2 DEF Record!Reply, Record!pageLocal
  <2> DEFINE q == [r EXCEPT !.stage = "served", !.result = n]
  <2>2. /\ LogRequest(q) /\ q.kind = r.kind /\ q.file = r.file /\ q.own = r.own
        /\ q.stage = "served" /\ q.result = n
    <3>1. "served" \in {"unheard", "served"} /\ n \in Int /\ LogRequest(r)
      BY <1>1, <1>2
    <3>2. QED
      BY <3>1 DEF LogRequest
  <2> HIDE DEF q
  <2>3. QED
    BY <2>1, <2>2 DEF q
<1>3. ASSUME ~logAstray PROVE r.stage = "sent" /\ ~misdeleted
  BY <1>1, <1>3 DEF RecordInv, Calm, Quiet, Learning, Beginning, Ending, Removing
<1>4. CASE Record!Started(r)
  <2>1. /\ r.kind = "start" /\ Record!Reply(r, logging') /\ logging' = newest' /\ newest' # 0
        /\ logs' = logs \cup {newest'}
        /\ newest' \in Nat /\ newest <= newest' /\ (logging = 0 => newest' = newest + 1)
        /\ (logging # 0 => newest' = newest) /\ logAstray' = logAstray
    BY <1>1, <1>4 DEF Record!Started, RecordTyped
  <2>2. \A f \in Int : Retired(f) => Retired(f)'
    BY <1>1, <2>1 DEF Retired, RecordTyped
  <2>3. \A p \in logRequests : LogRequest(p) => p.file \in Int /\ p.result \in Int
    BY DEF LogRequest
  <2>4. RecordTyped'
    BY <1>1, <1>2, <2>1, <2>2, <2>3 DEF RecordTyped
  <2>5. ASSUME ~logAstray PROVE Calm'
    <3>1. logRequests = {r} /\ NothingAsked
      BY <1>3, <2>1, <2>5 DEF RecordInv, Calm, Quiet, Learning, Beginning, Ending, Removing
    <3>2. PICK p \in logRequests' : /\ logRequests' = (logRequests \ {r}) \cup {p}
             /\ p.kind = r.kind /\ p.stage = "served" /\ p.result = logging'
      BY <1>2, <1>3, <2>1, <2>5
    <3>3. logRequests' = {p} /\ NothingAsked'
      BY <1>2, <2>1, <3>1, <3>2 DEF NothingAsked, AsksToDelete
    <3>4. Beginning(p)'
      BY <2>1, <3>2, <3>3 DEF Beginning
    <3>5. QED
      BY <3>3, <3>4 DEF Calm
  <2>6. misdeleted' = misdeleted
    BY <1>2, <2>1
  <2>7. QED
    BY <1>3, <2>1, <2>4, <2>5, <2>6 DEF RecordInv
\* What the recorder holds stays.
<1>5. ASSUME NEW n \in Int, Record!Reply(r, n), UNCHANGED <<logging, newest, logs>>,
                                                            logAstray' \in BOOLEAN,
             ~logAstray' => ~logAstray, r.kind = "stop" => n <= 0,
             ~logAstray' => \/ r.kind = "status" /\ n = logging
                            \/ r.kind \in {"start", "delete"} /\ n < 0
      PROVE  RecordInv'
  <2>1. RecordTyped'
    BY <1>1, <1>2, <1>5 DEF RecordTyped, Retired
  <2>2. ASSUME ~logAstray' PROVE ~misdeleted' /\ Calm'
    <3>1. Calm /\ r.stage = "sent" /\ ~misdeleted
      BY <1>3, <1>5, <2>2 DEF RecordInv
    <3>2. PICK p \in logRequests' : /\ logRequests' = (logRequests \ {r}) \cup {p}
             /\ p.kind = r.kind /\ p.file = r.file /\ p.own = r.own /\ p.stage = "served"
             /\ p.result = n
      BY <1>2, <1>5, <3>1
    <3>3. UNCHANGED <<isRecording, recordedFile, shown, logDialog, misdeleted>>
      BY <1>2, <1>5
    <3>4. CASE Learning
      <4>1. r.kind = "status" /\ n = logging /\ logRequests' # {}
        BY <1>5, <2>2, <3>2, <3>4 DEF Learning
      <4>2. Learning'
        BY <1>5, <3>2, <3>3, <3>4, <4>1 DEF Learning, NothingAsked, AsksToDelete
      <4>3. QED
        BY <3>1, <3>3, <4>2 DEF Calm
    <3>5. CASE logRequests = {r} /\ (Beginning(r) \/ Ending(r) \/ Removing(r))
      <4>1. logRequests' = {p}
        BY <3>2, <3>5
      <4>2. r.kind \in {"start", "delete"} /\ n < 0
        BY <1>5, <2>2, <3>5 DEF Beginning, Ending, Removing
      <4>3. Beginning(r) => Beginning(p)'
        BY <1>5, <3>1, <3>2, <3>3, <4>2 DEF Beginning, NothingAsked, AsksToDelete, Right
      <4>4. Removing(r) => Removing(p)'
        BY <1>5, <3>1, <3>2, <3>3, <4>2 DEF Removing, AsksToDelete
      <4>5. ~Ending(r)
        BY <4>2 DEF Ending
      <4>6. QED
        BY <3>1, <3>3, <3>5, <4>1, <4>3, <4>4, <4>5 DEF Calm
    <3>6. QED
      BY <3>1, <3>3, <3>4, <3>5 DEF Calm, Quiet
  <2>3. QED
    BY <2>1, <2>2 DEF RecordInv
<1>6. CASE Record!StartedNothing(r)
  <2>1. /\ newest + 1 \in Int /\ Record!Reply(r, newest + 1) /\ logAstray' = TRUE
        /\ r.kind = "start"
        /\ UNCHANGED <<logging, newest, logs>>
    BY <1>1, <1>6 DEF Record!StartedNothing, Record!recorder, RecordTyped
  <2>2. QED
    BY <1>5, <2>1
<1>7. CASE Record!Stopped(r)
  <2>1. /\ r.kind = "stop" /\ Record!Reply(r, logging) /\ logging' = 0 /\ logging \in Int
        /\ UNCHANGED <<newest, logs, logAstray>>
    BY <1>1, <1>7 DEF Record!Stopped, RecordTyped
  <2>2. \A p \in logRequests : LogRequest(p) => p.file \in Int /\ p.result \in Int
    BY DEF LogRequest
  <2>3. RecordTyped'
    <3>1. (recordedFile # 0 => Retired(recordedFile))'
      BY <1>1, <1>2, <2>1 DEF RecordTyped, Retired
    <3>2. ASSUME NEW p \in logRequests'
          PROVE  /\ LogRequest(p) /\ (p.own => shown')
                 /\ p.kind = "delete" => Retired(p.file)'
                 /\ p.kind = "stop" /\ p.stage = "served" /\ p.result > 0 => Retired(p.result)'
      <4>1. CASE p \in logRequests
        <5>1. /\ LogRequest(p) /\ (p.own => shown) /\ (p.kind = "delete" => Retired(p.file))
              /\ p.kind = "stop" /\ p.stage = "served" /\ p.result > 0 => Retired(p.result)
          BY <1>1, <4>1 DEF RecordTyped
        <5>2. \A f : Retired(f) => Retired(f)'
          BY <2>1 DEF Retired
        <5>3. QED
          BY <1>2, <2>1, <5>1, <5>2
      <4>2. CASE p \notin logRequests
        BY <1>1, <1>2, <2>1, <3>2, <4>2 DEF Retired, RecordTyped
      <4>3. QED
        BY <4>1, <4>2
    <3>3. QED
      BY <1>1, <1>2, <2>1, <3>1, <3>2 DEF RecordTyped
  <2>4. ASSUME ~logAstray PROVE Calm'
    <3>1. logRequests = {r} /\ Ending(r)
      BY <1>3, <2>1, <2>4 DEF RecordInv, Calm, Quiet, Learning, Beginning, Removing
    <3>2. PICK p \in logRequests' : /\ logRequests' = (logRequests \ {r}) \cup {p}
             /\ p.kind = r.kind /\ p.stage = "served" /\ p.result = logging
      BY <1>2, <1>3, <2>1, <2>4
    <3>3. logRequests' = {p}
      BY <3>1, <3>2
    <3>4. Ending(p)'
      BY <1>1, <1>2, <1>3, <2>1, <2>4, <3>1, <3>2 DEF Ending, NothingAsked, AsksToDelete,
         RecordTyped
    <3>5. QED
      BY <3>3, <3>4 DEF Calm
  <2>5. misdeleted' = misdeleted
    BY <1>2, <2>1
  <2>6. QED
    BY <1>3, <2>1, <2>3, <2>4, <2>5 DEF RecordInv
<1>8. CASE Record!Deleted(r)
  <2>1. /\ r.kind = "delete" /\ r.file \in logs /\ logs' = logs \ {r.file}
        /\ Record!Reply(r, r.file)
        /\ r.file \in Int /\ UNCHANGED <<logging, newest, logAstray>> /\ Retired(r.file)
    BY <1>1, <1>8 DEF Record!Deleted, RecordTyped, LogRequest
  <2>2. RecordTyped'
    BY <1>1, <1>2, <2>1 DEF RecordTyped, Retired
  <2>3. ASSUME ~logAstray PROVE Calm'
    <3>1. logRequests = {r} /\ Removing(r)
      BY <1>3, <2>1, <2>3 DEF RecordInv, Calm, Quiet, Learning, Beginning, Ending
    <3>2. PICK p \in logRequests' : /\ logRequests' = (logRequests \ {r}) \cup {p}
             /\ p.kind = r.kind /\ p.file = r.file /\ p.own = r.own /\ p.stage = "served"
             /\ p.result = r.file
      BY <1>2, <1>3, <2>1, <2>3
    <3>3. logRequests' = {p}
      BY <3>1, <3>2
    <3>4. Removing(p)'
      BY <1>1, <1>2, <1>3, <2>1, <2>3, <3>1, <3>2 DEF Removing, AsksToDelete, RecordTyped
    <3>5. QED
      BY <3>3, <3>4 DEF Calm
  <2>4. misdeleted' = misdeleted
    BY <1>2, <2>1
  <2>5. QED
    BY <1>3, <2>1, <2>2, <2>3, <2>4 DEF RecordInv
<1>9. CASE Record!StatusGiven(r)
  <2>1. /\ r.kind = "status" /\ Record!Reply(r, logging) /\ logging \in Int
        /\ UNCHANGED <<logging, newest, logs, logAstray>>
    BY <1>1, <1>9 DEF Record!StatusGiven, Record!recorder, RecordTyped
  <2>2. QED
    BY <1>1, <1>5, <2>1 DEF RecordTyped
<1>10. CASE Record!Refused(r)
  <2>1. /\ Record!Reply(r, -1) /\ UNCHANGED <<logging, newest, logs>>
        /\ logAstray' = (logAstray \/ r.kind \in {"stop", "status"})
        /\ r.kind \in {"status", "start", "stop", "delete"}
    BY <1>1, <1>10 DEF Record!Refused, Record!recorder, LogRequest
  <2>2. logAstray' \in BOOLEAN /\ (~logAstray' => ~logAstray /\ r.kind \in {"start", "delete"})
    BY <1>1, <2>1 DEF RecordTyped
  <2>3. -1 \in Int /\ -1 < 0
    OBVIOUS
  <2>4. QED
    BY <1>5, <2>1, <2>2, <2>3
<1>11. QED
  BY <1>4, <1>6, <1>7, <1>8, <1>9, <1>10 DEF Record!Serve

LEMMA RecordAnswered ==
  ASSUME RecordInv, NEW r \in logRequests, Record!Answer(r)
  PROVE  RecordInv'
<1>1. /\ RecordTyped /\ LogRequest(r) /\ r.stage = "served" /\ (r.own => shown)
      /\ r.result \in Int
  BY DEF RecordInv, RecordTyped, LogRequest, Record!Answer
<1>2. ASSUME Record!Settle(r), logAstray' = logAstray,
             recordedFile' \in Int, recordedFile' # 0 => Retired(recordedFile'), isRecording' \in BOOLEAN,
             logDialog' \in LogDialogs, logDialog'.open \/ logAlertDue' # "none" => shown,
             Learning => isRecording' = (logging # 0) /\ recordedFile' = 0 /\ logDialog' = logDialog,
             logRequests = {r} /\ (Beginning(r) \/ Ending(r) \/ Removing(r)) => Right' /\ NothingAsked'
      PROVE  RecordInv'
  <2>1. /\ logRequests' = logRequests \ {r} /\ UNCHANGED <<logging, newest, logs, shown,
                                                           misdeleted>>
    BY <1>2 DEF Record!Settle, Record!recorder
  <2>2. RecordTyped'
    BY <1>1, <1>2, <2>1 DEF RecordTyped, Retired
  <2>3. ASSUME ~logAstray PROVE Calm'
    <3>1. Calm
      BY <2>3 DEF RecordInv
    <3>2. CASE Learning
      <4>1. CASE logRequests' = {}
        BY <1>2, <2>1, <3>2, <4>1 DEF Calm, Learning, NothingAsked, AsksToDelete, Quiet, Right
      <4>2. CASE logRequests' # {}
        BY <1>2, <2>1, <3>2, <4>2 DEF Calm, Learning, NothingAsked, AsksToDelete
      <4>3. QED
        BY <4>1, <4>2
    <3>3. CASE logRequests = {r} /\ (Beginning(r) \/ Ending(r) \/ Removing(r))
      BY <1>2, <2>1, <3>3 DEF Calm, Quiet, NothingAsked
    <3>4. QED
      BY <3>1, <3>2, <3>3 DEF Calm, Quiet
  <2>4. QED
    BY <1>2, <2>1, <2>2, <2>3 DEF RecordInv
<1>3. logDialog \in LogDialogs /\ isRecording \in BOOLEAN /\ recordedFile \in Int
  BY <1>1 DEF RecordTyped
<1>4. Learning => r.kind = "status" /\ r.result = logging /\ recordedFile = 0
  BY <1>1 DEF Learning
<1>5. CASE Record!StartAnswered(r)
  <2>1. /\ r.kind = "start" /\ Record!Settle(r) /\ UNCHANGED <<logAlertDue, logAstray>>
        /\ IF r.result >= 0
           THEN isRecording' = TRUE /\ recordedFile' = 0 /\ logDialog' = logDialog
           ELSE /\ logDialog' = (IF r.own THEN Record!Alert ELSE logDialog)
                /\ UNCHANGED <<isRecording, recordedFile>>
    BY <1>5 DEF Record!StartAnswered
  <2>2. logDialog' \in LogDialogs /\ (logDialog'.open \/ logAlertDue' # "none" => shown)
    BY <1>1, <1>3, <2>1, TheLogDialog DEF RecordTyped
  <2>3. ASSUME Beginning(r) PROVE Right' /\ NothingAsked'
    <3>1. UNCHANGED <<logging, newest, logs>>
      BY <2>1 DEF Record!Settle, Record!recorder
    <3>2. CASE r.result >= 0
      BY <1>1, <2>1, <2>3, <3>1, <3>2 DEF Beginning, Right, NothingAsked, AsksToDelete
    <3>3. CASE ~(r.result >= 0)
      <4>1. Right
        BY <1>1, <2>3, <3>3 DEF Beginning
      <4>2. Right'
        BY <2>1, <3>1, <3>3, <4>1 DEF Right
      <4>3. NothingAsked'
        BY <1>3, <2>1, <2>3, <3>3, TheLogDialog DEF Beginning, NothingAsked, AsksToDelete
      <4>4. QED
        BY <4>2, <4>3
    <3>4. QED
      BY <3>2, <3>3
  <2>4. ~Ending(r) /\ ~Removing(r) /\ ~Learning
    BY <1>4, <2>1 DEF Ending, Removing
  <2>5. (isRecording' /\ recordedFile' = 0) \/ UNCHANGED <<isRecording, recordedFile>>
    BY <2>1
  <2>6. /\ recordedFile' \in Int /\ (recordedFile' # 0 => Retired(recordedFile'))
        /\ isRecording' \in BOOLEAN
    <3>1. recordedFile # 0 => Retired(recordedFile)
      BY <1>1 DEF RecordTyped
    <3>2. recordedFile' \in Int /\ (recordedFile' # 0 => Retired(recordedFile'))
      <4>1. CASE recordedFile' = 0
        BY <4>1
      <4>2. CASE recordedFile' = recordedFile
        BY <1>3, <3>1, <4>2
      <4>3. QED
        BY <2>5, <4>1, <4>2
    <3>3. isRecording' \in BOOLEAN
      BY <1>3, <2>1
    <3>4. QED
      BY <3>2, <3>3
  <2>7. QED
    BY <1>2, <2>1, <2>2, <2>3, <2>4, <2>6
<1>6. CASE Record!StopAnswered(r)
  <2>1. /\ r.kind = "stop" /\ Record!Settle(r) /\ UNCHANGED <<logAlertDue, logAstray>>
        /\ isRecording' = FALSE /\ recordedFile' = (IF r.result > 0 THEN r.result ELSE recordedFile)
        /\ logDialog' = IF r.own /\ autoStopped THEN Record!Alert ELSE logDialog
    BY <1>6 DEF Record!StopAnswered
  <2>2. logDialog' \in LogDialogs /\ (logDialog'.open \/ logAlertDue' # "none" => shown)
    BY <1>1, <1>3, <2>1, TheLogDialog DEF RecordTyped
  <2>3. ASSUME Ending(r) PROVE Right' /\ NothingAsked'
    <3>1. UNCHANGED <<logging, newest, logs>>
      BY <2>1 DEF Record!Settle, Record!recorder
    <3>2. Right'
      BY <1>1, <2>1, <2>3, <3>1 DEF Ending, Right, RecordTyped
    <3>3. NothingAsked'
      BY <1>3, <2>1, <2>3, TheLogDialog DEF Ending, NothingAsked, AsksToDelete
    <3>4. QED
      BY <3>2, <3>3
  <2>4. ~Beginning(r) /\ ~Removing(r) /\ ~Learning
    BY <1>4, <2>1 DEF Beginning, Removing
  <2>5. recordedFile' \in Int /\ (recordedFile' # 0 => Retired(recordedFile'))
    BY <1>1, <2>1 DEF RecordTyped
  <2>6. QED
    BY <1>2, <2>1, <2>2, <2>3, <2>4, <2>5
<1>7. CASE Record!DeleteAnswered(r)
  <2>1. /\ r.kind = "delete" /\ Record!Settle(r) /\ UNCHANGED <<isRecording, logAstray>>
        /\ recordedFile' = IF r.result > 0 THEN 0 ELSE recordedFile
        /\ r.own => logDialog' = Record!Closed
        /\ ~r.own => UNCHANGED <<logDialog, logAlertDue>>
    BY <1>7 DEF Record!DeleteAnswered
  <2>2. logDialog' \in LogDialogs /\ (logDialog'.open \/ logAlertDue' # "none" => shown)
    BY <1>1, <1>3, <2>1, TheLogDialog DEF RecordTyped
  <2>3. ASSUME Removing(r) PROVE Right' /\ NothingAsked'
    <3>1. UNCHANGED <<logging, newest, logs>>
      BY <2>1 DEF Record!Settle, Record!recorder
    <3>2. Right'
      BY <1>1, <2>1, <2>3, <3>1 DEF Removing, Right
    <3>3. NothingAsked'
      BY <1>3, <2>1, <2>3, TheLogDialog DEF Removing, NothingAsked, AsksToDelete
    <3>4. QED
      BY <3>2, <3>3
  <2>4. ~Beginning(r) /\ ~Ending(r) /\ ~Learning
    BY <1>4, <2>1 DEF Beginning, Ending
  <2>5. recordedFile' \in Int /\ (recordedFile' # 0 => Retired(recordedFile'))
    BY <1>1, <2>1 DEF RecordTyped
  <2>6. QED
    BY <1>2, <1>3, <2>1, <2>2, <2>3, <2>4, <2>5
<1>8. CASE Record!StatusAnswered(r)
  <2>1. /\ r.kind = "status" /\ Record!Settle(r)
        /\ isRecording' = (IF r.result >= 0 THEN r.result # 0 ELSE isRecording)
        /\ UNCHANGED <<recordedFile, logDialog, logAlertDue, logAstray>>
    BY <1>8 DEF Record!StatusAnswered, Record!pageLocal
  <2>2. ~Beginning(r) /\ ~Ending(r) /\ ~Removing(r)
    BY <2>1 DEF Beginning, Ending, Removing
  <2>3. Learning => isRecording' = (logging # 0) /\ recordedFile' = 0
    BY <1>1, <1>4, <2>1 DEF RecordTyped
  <2>4. /\ logDialog' \in LogDialogs /\ (logDialog'.open \/ logAlertDue' # "none" => shown)
        /\ recordedFile' \in Int /\ (recordedFile' # 0 => Retired(recordedFile'))
        /\ isRecording' \in BOOLEAN
    BY <1>1, <2>1 DEF RecordTyped
  <2>5. QED
    BY <1>2, <2>1, <2>2, <2>3, <2>4
<1>9. QED
  BY <1>5, <1>6, <1>7, <1>8 DEF Record!Answer

LEMMA RecordKept == RecordInv /\ Record!Next => RecordInv'
<1> SUFFICES ASSUME RecordInv, Record!Next PROVE RecordInv'
  OBVIOUS
<1>0. /\ RecordTyped /\ logDialog \in LogDialogs /\ (logDialog.open => shown)
      /\ (~logAstray => ~misdeleted /\ Calm)
  BY DEF RecordInv, RecordTyped
<1>1. CASE Record!ShowView
  <2>1. /\ logDialog' = Record!NoDialog /\ logAlertDue' = "none" /\ shown' = ~shown
        /\ logRequests' = {[r EXCEPT !.own = FALSE] : r \in logRequests}
        /\ UNCHANGED <<logging, newest, logs, isRecording, recordedFile, misdeleted, logAstray>>
    BY <1>1 DEF Record!ShowView, Record!recorder
  <2>2. logDialog' \in LogDialogs /\ ~logDialog'.open /\ ~logDialog'.loading
    BY <1>0, <2>1, TheLogDialog
  <2>3. ASSUME NEW p \in logRequests'
        PROVE  \E r \in logRequests :
                 /\ LogRequest(p) /\ p.kind = r.kind /\ p.file = r.file /\ ~p.own
                 /\ p.stage = r.stage /\ p.result = r.result
    <3>1. PICK r \in logRequests : p = [r EXCEPT !.own = FALSE]
      BY <2>1
    <3>2. LogRequest(r) /\ 0 \in Int /\ "served" \in {"unheard", "served"}
      BY <1>0 DEF RecordTyped
    <3>3. /\ LogRequest(p) /\ p.kind = r.kind /\ p.file = r.file /\ ~p.own
          /\ p.stage = r.stage /\ p.result = r.result
      BY <3>1, <3>2, TheLogRequest
    <3>4. QED
      BY <3>3
  <2>4. RecordTyped'
    <3>1. \A f : Retired(f) => Retired(f)'
      BY <2>1 DEF Retired
    <3>2. ASSUME NEW p \in logRequests'
          PROVE  /\ LogRequest(p) /\ ~p.own /\ (p.kind = "delete" => Retired(p.file))
                 /\ p.kind = "stop" /\ p.stage = "served" /\ p.result > 0 => Retired(p.result)
      <4>1. PICK r \in logRequests : /\ LogRequest(p) /\ p.kind = r.kind /\ p.file = r.file /\ ~p.own
                                     /\ p.stage = r.stage /\ p.result = r.result
        BY <2>3
      <4>2. /\ r.kind = "delete" => Retired(r.file)
            /\ r.kind = "stop" /\ r.stage = "served" /\ r.result > 0 => Retired(r.result)
        BY <1>0 DEF RecordTyped
      <4>3. QED
        BY <4>1, <4>2
    <3>3. /\ shown' \in BOOLEAN /\ ~logDialog'.open /\ logDialog' \in LogDialogs
          /\ logAlertDue' = "none"
      BY <1>0, <2>1, <2>2 DEF RecordTyped
    <3>4. QED
      BY <1>0, <2>1, <3>1, <3>2, <3>3 DEF RecordTyped
  <2>5. NothingAsked' /\ ~AsksToDelete' /\ (Right => Right')
    BY <2>1, <2>2 DEF NothingAsked, AsksToDelete, Right
  <2>6. ASSUME Calm PROVE Calm'
    <3>1. CASE Quiet
      BY <2>1, <2>2, <2>5, <3>1 DEF Calm, Quiet
    <3>2. CASE Learning
      <4>1. logRequests' # {}
        BY <2>1, <3>2 DEF Learning
      <4>2. \A p \in logRequests' : /\ p.kind = "status"
                                    /\ p.stage = "sent" \/ (p.stage = "served" /\ p.result = logging)
        BY <2>3, <3>2 DEF Learning
      <4>3. logging' = logging /\ recordedFile' = 0
        BY <2>1, <3>2 DEF Learning
      <4>4. Learning'
        BY <2>5, <4>1, <4>2, <4>3 DEF Learning
      <4>5. QED
        BY <4>4 DEF Calm
    <3>3. ASSUME NEW r \in logRequests, logRequests = {r}, Beginning(r) \/ Ending(r) \/ Removing(r)
          PROVE  Calm'
      <4> DEFINE o == [r EXCEPT !.own = FALSE]
      <4>1. logRequests' = {o}
        BY <2>1, <3>3
      <4>2. /\ o.kind = r.kind /\ o.file = r.file /\ o.stage = r.stage /\ o.result = r.result
        BY <2>3, <3>3, <4>1
      <4> HIDE DEF o
      <4>3. /\ (Beginning(r) => Beginning(o)') /\ (Ending(r) => Ending(o)')
            /\ (Removing(r) => Removing(o)')
        BY <2>1, <2>2, <2>5, <4>2 DEF Beginning, Ending, Removing
      <4>4. QED
        BY <3>3, <4>1, <4>3 DEF Calm
    <3>4. QED
      BY <2>6, <3>1, <3>2, <3>3 DEF Calm
  <2>7. QED
    BY <1>0, <2>1, <2>4, <2>6 DEF RecordInv
<1>2. CASE Record!ToggleRecording
  <2>1. /\ ~logDialog.open /\ Record!Ask(IF isRecording THEN "stop" ELSE "start", 0)
        /\ UNCHANGED <<logging, newest, logs, isRecording, recordedFile, shown, logDialog,
                       logAlertDue,
                       misdeleted>>
    BY <1>2 DEF Record!ToggleRecording, Record!recorder
  <2>2. Quiet => NothingAsked'
    BY <2>1 DEF Quiet, NothingAsked, AsksToDelete
  <2>3. misdeleted' \in BOOLEAN /\ 0 \in Int
    BY <1>0, <2>1 DEF RecordTyped
  <2>4. CASE isRecording
    BY <1>0, <2>1, <2>2, <2>3, <2>4, RecordAsks
  <2>5. CASE ~isRecording
    BY <1>0, <2>1, <2>2, <2>3, <2>5, RecordAsks
  <2>6. QED
    BY <2>4, <2>5
<1>3. CASE Record!LimitReached
  <2>1. /\ isRecording /\ Record!Ask("stop", 0)
        /\ UNCHANGED <<logging, newest, logs, isRecording, recordedFile, shown, logDialog,
                       logAlertDue,
                       misdeleted>>
    BY <1>3 DEF Record!LimitReached, Record!recorder
  <2>2. Quiet => NothingAsked'
    BY <2>1 DEF Quiet, Right, NothingAsked, AsksToDelete
  <2>3. misdeleted' \in BOOLEAN /\ 0 \in Int
    BY <1>0, <2>1 DEF RecordTyped
  <2>4. QED
    BY <1>0, <2>1, <2>2, <2>3, RecordAsks
<1>4. CASE Record!DeleteLog
  <2>1. /\ logDialog' = [Record!NoDialog EXCEPT !.open = TRUE, !.kind = "delete", !.about = recordedFile]
        /\ shown /\ recordedFile # 0 /\ logAstray' = (logAstray \/ logRequests # {})
        /\ UNCHANGED <<logging, newest, logs, isRecording, recordedFile, shown, logRequests,
                       misdeleted,
                       logAlertDue>>
    BY <1>4 DEF Record!DeleteLog, Record!recorder
  <2>2. logDialog' = [open |-> TRUE, loading |-> FALSE, kind |-> "delete", about |-> recordedFile]
    BY <2>1 DEF Record!NoDialog
  <2>3. logDialog' \in LogDialogs /\ ~logDialog'.loading /\ logDialog'.about = recordedFile
    BY <1>0, <2>2 DEF LogDialogs, RecordTyped
  <2>4. /\ logAstray' \in BOOLEAN /\ (~logAstray' => ~logAstray /\ logRequests = {})
        /\ (logAlertDue' # "none" => shown)
    BY <1>0, <2>1 DEF RecordTyped
  <2>5. QED
    BY <1>0, <2>1, <2>3, <2>4, TheDialogMoves
<1>5. CASE Record!ConfirmDelete
  <2>1. /\ logDialog.open /\ logDialog.kind = "delete" /\ ~logDialog.loading
        /\ UNCHANGED <<logging, newest, logs, isRecording, recordedFile, shown>>
    BY <1>5 DEF Record!ConfirmDelete, Record!recorder
  <2>2. CASE recordedFile # 0
    <3>1. /\ Record!Ask("delete", recordedFile) /\ logDialog' = [logDialog EXCEPT !.loading = TRUE]
          /\ misdeleted' = (misdeleted \/ recordedFile # logDialog.about)
          /\ logAlertDue' = logAlertDue
      BY <1>5, <2>2 DEF Record!ConfirmDelete
    <3>2. /\ logDialog' \in LogDialogs /\ logDialog'.loading /\ misdeleted' \in BOOLEAN
          /\ Retired(recordedFile) /\ shown /\ recordedFile \in Int
      BY <1>0, <2>1, <2>2, <3>1, TheLogDialog DEF RecordTyped
    <3>3. Quiet => logDialog.about = recordedFile
      BY <2>1 DEF Quiet, AsksToDelete
    <3>4. QED
      BY <1>0, <2>1, <2>2, <3>1, <3>2, <3>3, RecordAsks
  <2>3. CASE recordedFile = 0
    <3>1. logDialog' = Record!Closed /\ UNCHANGED <<logRequests, logAstray, misdeleted>>
      BY <1>5, <2>3 DEF Record!ConfirmDelete
    <3>2. logDialog' \in LogDialogs /\ ~logDialog'.open /\ ~logDialog'.loading
      BY <1>0, <3>1, TheLogDialog
    <3>3. shown /\ logAstray' \in BOOLEAN /\ ~AsksToDelete'
      BY <1>0, <2>1, <3>1, <3>2 DEF RecordTyped, AsksToDelete
    <3>4. QED
      BY <2>1, <3>1, <3>2, <3>3, TheDialogMoves
  <2>4. QED
    BY <2>2, <2>3
<1>6. CASE Record!CloseConfirmDialog
  <2>1. /\ logDialog' = [logDialog EXCEPT !.open = FALSE]
        /\ logAstray' = (logAstray \/ logDialog.loading)
        /\ UNCHANGED <<logging, newest, logs, isRecording, recordedFile, shown, logRequests,
                       misdeleted,
                       logAlertDue>>
    BY <1>6 DEF Record!CloseConfirmDialog, Record!recorder
  <2>2. logDialog' \in LogDialogs /\ ~logDialog'.open /\ logDialog'.loading = logDialog.loading
    BY <1>0, <2>1, TheLogDialog
  <2>3. /\ logAstray' \in BOOLEAN /\ (~logAstray' => ~logAstray /\ ~logDialog'.loading)
        /\ ~AsksToDelete'
        /\ (logAlertDue' # "none" => shown)
    BY <1>0, <2>1, <2>2 DEF RecordTyped, AsksToDelete, LogDialogs
  <2>4. QED
    BY <2>1, <2>2, <2>3, TheDialogMoves
<1>7. CASE Record!CloseSaveDialog
  <2>1. UNCHANGED <<logging, newest, logs, isRecording, recordedFile, shown, logRequests,
                    misdeleted, logAlertDue, logDialog, logAstray>>
    BY <1>7 DEF Record!CloseSaveDialog, Record!recorder
  <2>2. RecordTyped'
    BY <1>0, <2>1 DEF RecordTyped, Retired
  <2>3. Calm' = Calm
    BY <2>1 DEF Calm, Quiet, Learning, Beginning, Ending, Removing, Right, NothingAsked,
       AsksToDelete
  <2>4. QED
    BY <1>0, <2>1, <2>2, <2>3 DEF RecordInv
<1>8. CASE Record!AlertShown
  <2>1. /\ logDialog' = Record!Alert /\ logAlertDue # "none" /\ logAlertDue' = "none"
        /\ UNCHANGED <<logging, newest, logs, isRecording, recordedFile, shown, logRequests,
                       misdeleted,
                       logAstray>>
    BY <1>8 DEF Record!AlertShown, Record!recorder
  <2>2. /\ logDialog' \in LogDialogs /\ ~logDialog'.loading /\ ~AsksToDelete' /\ shown
        /\ logAstray' \in BOOLEAN
    BY <1>0, <2>1, TheLogDialog DEF RecordTyped, AsksToDelete
  <2>3. QED
    BY <2>1, <2>2, TheDialogMoves
<1>9. CASE Record!Reload
  <2> DEFINE out == Record!AskTwice(Record!OnTheirWay)
  <2>1. /\ logRequests' = {[r EXCEPT !.own = FALSE] : r \in out}
        /\ isRecording' = FALSE /\ recordedFile' = 0 /\ shown' = FALSE /\ misdeleted' = FALSE
        /\ logDialog' = Record!NoDialog /\ logAlertDue' = "none" /\ logAstray' = (logRequests # {})
        /\ UNCHANGED <<logging, newest, logs>>
    BY <1>9 DEF Record!Reload, Record!recorder
  <2>2. ASSUME NEW p \in Record!OnTheirWay
        PROVE  /\ LogRequest(p) /\ p.stage = "unheard" /\ (p.kind = "delete" => Retired(p.file))
               /\ logRequests # {}
    <3>1. PICK r \in logRequests : p = [r EXCEPT !.stage = "unheard"]
      BY DEF Record!OnTheirWay
    <3>2. /\ LogRequest(r) /\ (r.kind = "delete" => Retired(r.file)) /\ 0 \in Int
          /\ "unheard" \in {"unheard", "served"}
      BY <1>0 DEF RecordTyped
    <3>3. QED
      BY <3>1, <3>2, TheLogRequest
  <2>3. /\ out # {}
        /\ \A r \in out : /\ LogRequest(r)
                          /\ r \notin Record!OnTheirWay => r.kind = "status" /\ r.stage = "sent"
    <3>1. shown \in BOOLEAN /\ \A r \in Record!OnTheirWay : LogRequest(r)
      BY <1>0, <2>2 DEF RecordTyped
    <3>2. QED
      BY <3>1, StatusIsAsked
  <2> HIDE DEF out
  <2>4. ASSUME NEW p \in logRequests'
        PROVE  \E r \in out : /\ LogRequest(p) /\ p.kind = r.kind /\ p.file = r.file /\ ~p.own
                              /\ p.stage = r.stage /\ p.result = r.result
    <3>1. PICK r \in out : p = [r EXCEPT !.own = FALSE]
      BY <2>1
    <3>2. LogRequest(r) /\ 0 \in Int /\ "served" \in {"unheard", "served"}
      BY <2>3
    <3>3. QED
      BY <3>1, <3>2, TheLogRequest
  <2>5. logDialog' \in LogDialogs /\ ~logDialog'.open /\ ~logDialog'.loading
    BY <1>0, <2>1, TheLogDialog
  <2>6. RecordTyped'
    <3>1. /\ newest' \in Nat /\ logging' \in {0, newest'} /\ (logging' # 0 => logging' \in logs')
          /\ recordedFile' \in Int /\ recordedFile' = 0 /\ isRecording' = FALSE
          /\ misdeleted' = FALSE
          /\ shown' = FALSE /\ logAstray' \in BOOLEAN /\ logAlertDue' = "none"
      BY <1>0, <2>1 DEF RecordTyped
    <3>2. ASSUME NEW p \in logRequests'
          PROVE  /\ LogRequest(p) /\ ~p.own /\ (p.kind = "delete" => Retired(p.file))
                 /\ p.stage # "served"
      BY <2>2, <2>3, <2>4
    <3>3. \A f : Retired(f) => Retired(f)'
      BY <2>1 DEF Retired
    <3>4. QED
      BY <2>5, <3>1, <3>2, <3>3 DEF RecordTyped
  <2>7. ASSUME ~logAstray' PROVE Calm'
    <3>1. \A r \in out : r.kind = "status" /\ r.stage = "sent"
      BY <2>1, <2>2, <2>3, <2>7
    <3>2. logRequests' # {}
      BY <2>1, <2>3
    <3>3. QED
      BY <2>1, <2>4, <2>5, <3>1, <3>2 DEF Calm, Learning, NothingAsked, AsksToDelete
  <2>8. QED
    BY <2>1, <2>6, <2>7 DEF RecordInv
<1>10. CASE Record!ServiceEnds
  <2>1. /\ logging' = 0 /\ logAstray' = TRUE
        /\ UNCHANGED <<newest, logs, isRecording, recordedFile, shown, logDialog, logAlertDue,
                       logRequests,
                       misdeleted>>
    BY <1>10 DEF Record!ServiceEnds, Record!pageLocal
  <2>2. \A f : Retired(f) => Retired(f)'
    BY <2>1 DEF Retired
  <2>3. QED
    BY <1>0, <2>1, <2>2 DEF RecordInv, RecordTyped
<1>11. QED
  BY <1>1, <1>2, <1>3, <1>4, <1>5, <1>6, <1>7, <1>8, <1>9, <1>10, RecordServed, RecordAnswered
     DEF Record!Next
-----------------------------------------------------------------------------
(* The five pages together.                                                 *)

PagesInv == FilesInv /\ SharingInv /\ BoardInv /\ PageInv /\ RecordInv

LEMMA PagesKept == PagesInv /\ [UiNext]_uiVars => PagesInv'
<1> SUFFICES ASSUME PagesInv, [UiNext]_uiVars PROVE PagesInv'
  OBVIOUS
<1>0. FilesInv /\ SharingInv /\ BoardInv /\ PageInv /\ RecordInv
  BY DEF PagesInv
<1>1. Listed!Next \/ UNCHANGED listedVars
  BY DEF UiNext, uiVars, ViewStep, WizardStep, StoredStep, PageStep, SharingStep, ListedStep,
     DetailStep,
     RecordStep, BoardStep, PreviewStep
<1>2. Sharing!Next \/ UNCHANGED sharingVars
  BY DEF UiNext, uiVars, ViewStep, WizardStep, StoredStep, PageStep, SharingStep, ListedStep,
     DetailStep,
     RecordStep, BoardStep, PreviewStep
<1>3. Board!Next \/ UNCHANGED boardVars
  BY DEF UiNext, uiVars, ViewStep, WizardStep, StoredStep, PageStep, SharingStep, ListedStep,
     DetailStep,
     RecordStep, BoardStep, PreviewStep
<1>4. Page!Next \/ UNCHANGED pageVars
  BY DEF UiNext, uiVars, ViewStep, WizardStep, StoredStep, PageStep, SharingStep, ListedStep,
     DetailStep,
     RecordStep, BoardStep, PreviewStep
<1>5. Record!Next \/ UNCHANGED recordVars
  BY DEF UiNext, uiVars, ViewStep, WizardStep, StoredStep, PageStep, SharingStep, ListedStep,
     DetailStep,
     RecordStep, BoardStep, PreviewStep
<1>6. FilesInv' /\ SharingInv' /\ BoardInv' /\ PageInv' /\ RecordInv'
  BY <1>0, <1>1, <1>2, <1>3, <1>4, <1>5, FilesKept, FilesAlike, SharingKept, SharingAlike,
     BoardKept,
     BoardAlike, PageKept, PageAlike, RecordKept, RecordAlike
<1>7. QED
  BY <1>6 DEF PagesInv

\* Whatever its user does and in whichever order the answers come: the lists of
\* files are those of the service when the last fetch is in (FileLists, of
\* Settings.svelte), the consent shown is the one stored (LogSharing), the settings
\* page and the dashboard come back from every action (SettingsPage,
\* DashboardPage), and a recording is shown as it is (Recording, of
\* RawPacketLog.svelte and App.svelte), for any number of files, requests and ports.
THEOREM PagesSettleCorrect == UiSpec => []PagesSettle
<1>1. UiInit => PagesInv
  BY FilesInitially, SharingInitially, BoardInitially, PageInitially, RecordInitially DEF PagesInv
<1>2. PagesInv => PagesSettle
  BY FilesSettle, SharingSettles, BoardSettles, PageSettles, RecordSettles DEF PagesInv,
     PagesSettle
<1>3. QED
  BY <1>1, <1>2, PagesKept, PTL DEF UiSpec
-----------------------------------------------------------------------------
(* The page of an entity.                                                   *)

Entry == [name : Names, on : BOOLEAN]
Texts == [name : Names, on : BOOLEAN, of : Detail!Entities]
EntityRequests == {"rename", "commands", "entities", "toggle", "load", "save", "execute", "delete", "revoke",
                   "restart"}
EntityRequest(r) ==
  /\ r \in [id : {r.id}, is : EntityRequests, of : Detail!Entities, by : {r.by}, value : {r.value},
            stage : {"sent", "done", "refused", "fetch"}]
  /\ r.is = "rename" => r.of \in Devices /\ r.value \in Names
  /\ r.is = "toggle" => r.value \in BOOLEAN
  /\ r.is = "save" => r.value \in Entry
  /\ r.is = "load" /\ r.stage = "done" => r.value \in Texts
EntityDialogs == {d \in [open : BOOLEAN, loading : BOOLEAN, showCancel : BOOLEAN,
                         kind : {"none", "alert", "delete", "revoke", "restart"}, leaves : BOOLEAN] :
                    d.open => d.kind # "none"}

Entries(table) == table \in [DOMAIN table -> Entry] /\ DOMAIN table \subseteq Detail!Entities
DetailTyped ==
  /\ Entries(entityFile) /\ Entries(configuredEntities) /\ Entries(availableCommands)
  /\ DOMAIN entityFile \cap Automations \subseteq DOMAIN configuredEntities
  /\ selected \in Detail!Entities \cup {Nothing}
  /\ editingConfig \in Texts \cup {Nothing, Detail!NoText}
  /\ entityDialog \in EntityDialogs
  /\ \A r \in entityAsked : EntityRequest(r)

\* The opening of the page that is shown waits for one of these.
Awaits(kinds) == \E r \in entityAsked : r.is \in kinds /\ r.by = opening
Renaming == \E r \in entityAsked : r.is \in {"rename", "commands", "entities"}

ThePageComesBack ==
  /\ selected # Nothing =>
       /\ configLoading => Awaits({"load"})
       /\ isSaving => Awaits({"save"})
       /\ isToggling => Awaits({"toggle"})
       /\ isExecuting => Awaits({"execute"})
       /\ entityDialog.open /\ entityDialog.loading =>
            Awaits({"delete", "revoke", "restart"}) \/ entityReloadDue
  /\ renamingEntityId # Nothing => Renaming
  /\ "error" \notin misled => renameError \in {Nothing, selected}

\* What a table lacks of the file is on its way.
Switched(e) == \E r \in entityAsked : r.is = "toggle" /\ r.stage = "done" /\ r.of = e
NewNames    == \E r \in entityAsked : r.is = "commands" \/ (r.is = "rename" /\ r.stage = "done")
FollowsFile(table) == /\ DOMAIN table \subseteq DOMAIN entityFile
                     /\ \A e \in DOMAIN table : table[e].on = entityFile[e].on \/ Switched(e)
ListsFollow ==
  /\ \A r \in entityAsked : r.is = "toggle" /\ r.stage = "done" =>
                              r.of \in DOMAIN entityFile /\ r.value = entityFile[r.of].on
  /\ FollowsFile(configuredEntities) /\ FollowsFile(availableCommands)
  /\ \A e \in DOMAIN availableCommands : availableCommands[e].name = entityFile[e].name \/ NewNames
  /\ \A e \in DOMAIN configuredEntities :
       \/ configuredEntities[e].name = entityFile[e].name
       \/ e \in Devices /\ (NewNames \/ \E r \in entityAsked : r.is = "entities")

DetailInv == DetailTyped /\ ThePageComesBack /\ (misled \subseteq {"error"} => ListsFollow)

\* The requests of the opening that is shown are about the entity that is shown; what
\* was loaded has the id of the entity it was asked for, and so has the text.
NoText == {Nothing, Detail!NoText}
TextIsOwn ==
  /\ opening \in Nat
  /\ \A r \in entityAsked :
       /\ r.by \in Nat /\ r.by <= opening
       /\ r.by = opening /\ selected # Nothing => r.of = selected
       /\ r.is = "load" /\ r.stage = "done" => r.value.of \in Detail!Namesakes(r.of)
  /\ selected # Nothing /\ editingConfig \notin NoText =>
       editingConfig.of \in Detail!Namesakes(selected)

LEMMA DetailSettles == DetailInv /\ TextIsOwn => Detail!EntityPageSettles
<1> SUFFICES ASSUME DetailInv, entityAsked = {}, entityAlertDue = 0, ~entityReloadDue
             PROVE  /\ selected # Nothing =>
                         /\ ~configLoading /\ ~isSaving /\ ~isToggling /\ ~isExecuting
                         /\ renamingEntityId = Nothing
                         /\ ~entityDialog.loading \/ ~entityDialog.open
                    /\ "error" \notin misled => renameError \in {Nothing, selected}
                    /\ misled \subseteq {"error"} =>
                         \A e \in Detail!Known(configuredEntities, availableCommands) :
                            /\ Detail!On(configuredEntities, availableCommands, e) = entityFile[e].on
                            /\ Detail!Name(e) = entityFile[e].name
  BY DEF Detail!EntityPageSettles, TextIsOwn, NoText
<1>1. /\ selected # Nothing =>
           /\ ~configLoading /\ ~isSaving /\ ~isToggling /\ ~isExecuting
           /\ renamingEntityId = Nothing
           /\ ~entityDialog.loading \/ ~entityDialog.open
      /\ "error" \notin misled => renameError \in {Nothing, selected}
  BY DEF DetailInv, ThePageComesBack, Awaits, Renaming
<1>2. ASSUME misled \subseteq {"error"}, NEW e \in Detail!Known(configuredEntities, availableCommands)
      PROVE  /\ Detail!On(configuredEntities, availableCommands, e) = entityFile[e].on
             /\ Detail!Name(e) = entityFile[e].name
  <2>1. /\ e \in DOMAIN configuredEntities \/ e \in DOMAIN availableCommands
        /\ e \in DOMAIN configuredEntities => configuredEntities[e].on = entityFile[e].on
        /\ e \in DOMAIN availableCommands => availableCommands[e].on = entityFile[e].on
        /\ e \in DOMAIN configuredEntities => configuredEntities[e].name = entityFile[e].name
        /\ e \in DOMAIN availableCommands => availableCommands[e].name = entityFile[e].name
        /\ e \in DOMAIN entityFile
    BY <1>2 DEF DetailInv, ListsFollow, FollowsFile, Switched, NewNames, Detail!Known
  <2>2. entityFile[e].on \in BOOLEAN
    BY <2>1 DEF DetailInv, DetailTyped, Entries, Entry
  <2>3. QED
    BY <2>1, <2>2 DEF Detail!On, Detail!Name
<1>3. QED
  BY <1>1, <1>2

LEMMA ServedIsRight ==
  ASSUME NEW table, Entries(table)
  PROVE  /\ Entries(Detail!ServedCommands(table))
         /\ DOMAIN Detail!ServedCommands(table) \subseteq DOMAIN table
         /\ \A e \in DOMAIN Detail!ServedCommands(table) : Detail!ServedCommands(table)[e] = table[e]
BY DEF Entries, Detail!ServedCommands

LEMMA TheDialogs ==
  ASSUME entityDialog \in EntityDialogs
  PROVE  /\ Detail!NoDialog \in EntityDialogs /\ ~Detail!NoDialog.open
         /\ LET c == [entityDialog EXCEPT !.open = FALSE]
                o == [entityDialog EXCEPT !.open = FALSE, !.leaves = FALSE]
                l == [entityDialog EXCEPT !.leaves = FALSE]
            IN /\ c \in EntityDialogs /\ ~c.open
               /\ o \in EntityDialogs /\ ~o.open
               /\ l \in EntityDialogs
         /\ \A s \in BOOLEAN : [entityDialog EXCEPT !.loading = TRUE, !.showCancel = s] \in EntityDialogs
BY DEF EntityDialogs, Detail!NoDialog

LEMMA ADialog ==
  ASSUME NEW kind \in {"alert", "delete", "revoke", "restart"}, NEW leaves \in BOOLEAN
  PROVE  LET d == [Detail!NoDialog EXCEPT !.open = TRUE, !.kind = kind]
             p == [Detail!NoDialog EXCEPT !.open = TRUE, !.kind = kind, !.leaves = leaves]
             a == [Detail!NoDialog EXCEPT !.open = TRUE, !.showCancel = FALSE, !.kind = kind]
         IN /\ d \in EntityDialogs /\ ~d.loading
            /\ p \in EntityDialogs /\ ~p.loading
            /\ a \in EntityDialogs /\ ~a.loading
BY DEF EntityDialogs, Detail!NoDialog

LEMMA DetailInitially == UiInit => DetailInv
<1> SUFFICES ASSUME UiInit PROVE DetailInv
  OBVIOUS
<1>1. /\ entityFile \in [Detail!Entities -> [name : {CHOOSE n \in Names : TRUE}, on : BOOLEAN]]
      /\ configuredEntities = entityFile /\ availableCommands = Detail!ServedCommands(entityFile)
      /\ selected = Nothing /\ renamingEntityId = Nothing /\ renameError = Nothing
      /\ editingConfig = Nothing /\ entityDialog = Detail!NoDialog /\ entityAsked = {}
      /\ misled = {}
  BY DEF UiInit, Detail!Init
<1>2. Entries(entityFile)
  <2>1. (CHOOSE n \in Names : TRUE) \in Names
    BY UiAssumption
  <2>2. QED
    BY <1>1, <2>1 DEF Entries, Entry
<1>3. DetailTyped
  BY <1>1, <1>2, ServedIsRight DEF DetailTyped, Detail!NoDialog, EntityDialogs
<1>4. ListsFollow
  BY <1>1, <1>2, ServedIsRight DEF ListsFollow, FollowsFile
<1>5. QED
  BY <1>1, <1>3, <1>4 DEF DetailInv, ThePageComesBack

LEMMA DetailAlike == DetailInv /\ UNCHANGED detailVars => DetailInv'
<1> SUFFICES ASSUME DetailInv, UNCHANGED detailVars PROVE DetailInv'
  OBVIOUS
<1>1. DetailTyped'
  BY DEF DetailInv, DetailTyped, Entries, detailVars
<1>2. ThePageComesBack'
  BY DEF DetailInv, ThePageComesBack, Awaits, Renaming, detailVars
<1>3. misled' \subseteq {"error"} => ListsFollow'
  BY DEF DetailInv, ListsFollow, FollowsFile, Switched, NewNames, detailVars
<1>4. QED
  BY <1>1, <1>2, <1>3 DEF DetailInv

\* Nothing the lists wait for is lost, and nothing new is done.
LEMMA ListsStill ==
  ASSUME DetailInv, UNCHANGED <<entityFile, configuredEntities, availableCommands, misled>>,
         \A r \in entityAsked : \/ r \in entityAsked'
                                \/ r.stage # "done" /\ r.is \notin {"commands", "entities"}
                                \/ r.is \notin {"rename", "toggle", "commands", "entities"},
         \A r \in entityAsked' \ entityAsked : r.is = "toggle" => r.stage # "done"
  PROVE  misled' \subseteq {"error"} => ListsFollow'
BY DEF DetailInv, ListsFollow, FollowsFile, Switched, NewNames

\* A request of the page that is open.
LEMMA AnEntityRequest ==
  ASSUME selected \in Detail!Entities, NEW is \in EntityRequests \ {"rename", "toggle", "save"}, NEW value
  PROVE  LET q == Detail!Request(is, value)
         IN EntityRequest(q) /\ q.is = is /\ q.by = opening /\ q.stage = "sent"
BY DEF Detail!Request, EntityRequest

LEMMA AChange ==
  ASSUME selected \in Detail!Entities, NEW is \in {"rename", "toggle", "save"}, NEW value,
         is = "rename" => selected \in Devices /\ value \in Names,
         is = "toggle" => value \in BOOLEAN,
         is = "save" => value \in Entry
  PROVE  LET q == Detail!Request(is, value)
         IN EntityRequest(q) /\ q.is = is /\ q.by = opening /\ q.stage = "sent"
BY DEF Detail!Request, EntityRequest, EntityRequests

LEMMA StillAwaits ==
  ASSUME NEW r, entityAsked \ {r} \subseteq entityAsked', opening' = opening, NEW kinds, Awaits(kinds),
         r \in entityAsked /\ r.is \in kinds /\ r.by = opening => \E q \in entityAsked' : q.is = r.is /\ q.by = r.by
  PROVE  Awaits(kinds)'
BY DEF Awaits

\* A request is added, and a button may wait for it.
LEMMA DetailRequests ==
  ASSUME DetailInv, selected # Nothing, NEW q, EntityRequest(q), q.stage = "sent", q.by = opening,
         entityAsked' = entityAsked \cup {q},
         UNCHANGED <<entityFile, configuredEntities, availableCommands, selected, opening,
                     editingConfig, misled,
                     entityReloadDue>>,
         entityDialog' \in EntityDialogs,
         configLoading' => configLoading \/ q.is = "load",
         isSaving' => isSaving \/ q.is = "save",
         isToggling' => isToggling \/ q.is = "toggle",
         isExecuting' => isExecuting \/ q.is = "execute",
         entityDialog' = entityDialog \/ q.is \in {"delete", "revoke", "restart"},
         renamingEntityId' = renamingEntityId \/ q.is = "rename",
         renameError' \in {renameError, Nothing}
  PROVE  DetailInv'
<1>1. DetailTyped'
  BY DEF DetailInv, DetailTyped, Entries
<1>2. ThePageComesBack'
  <2>1. ASSUME NEW kinds, Awaits(kinds) \/ q.is \in kinds PROVE Awaits(kinds)'
    BY <2>1 DEF Awaits
  <2>2. Renaming \/ q.is = "rename" => Renaming'
    BY DEF Renaming
  <2>3. /\ configLoading => Awaits({"load"})
        /\ isSaving => Awaits({"save"})
        /\ isToggling => Awaits({"toggle"})
        /\ isExecuting => Awaits({"execute"})
        /\ entityDialog.open /\ entityDialog.loading => Awaits({"delete", "revoke", "restart"}) \/ entityReloadDue
        /\ renamingEntityId # Nothing => Renaming
        /\ "error" \notin misled => renameError \in {Nothing, selected}
    BY DEF DetailInv, ThePageComesBack
  <2>4. /\ configLoading' => Awaits({"load"})'
        /\ isSaving' => Awaits({"save"})'
        /\ isToggling' => Awaits({"toggle"})'
        /\ isExecuting' => Awaits({"execute"})'
    BY <2>1, <2>3
  <2>5. entityDialog'.open /\ entityDialog'.loading =>
          Awaits({"delete", "revoke", "restart"})' \/ entityReloadDue'
    BY <2>1, <2>3
  <2>6. /\ renamingEntityId' # Nothing => Renaming'
        /\ "error" \notin misled' => renameError' \in {Nothing, selected'}
    BY <2>2, <2>3
  <2>7. QED
    BY <2>4, <2>5, <2>6 DEF ThePageComesBack
<1>3. misled' \subseteq {"error"} => ListsFollow'
  BY ListsStill
<1>4. QED
  BY <1>1, <1>2, <1>3 DEF DetailInv

\* An answer, or none: no table changes.
LEMMA DetailMoves ==
  ASSUME DetailInv, NEW r, entityAsked' = entityAsked \ {r},
         r \in entityAsked => \/ r.is \notin {"rename", "toggle", "commands", "entities"}
                              \/ r.is = "toggle" /\ r.stage = "refused",
         UNCHANGED <<entityFile, configuredEntities, availableCommands, opening, misled>>,
         selected' \in {selected, Nothing},
         editingConfig' \in Texts \cup {Nothing, Detail!NoText}, entityDialog' \in EntityDialogs,
         selected' # Nothing =>
           /\ configLoading' => configLoading /\ (r \in entityAsked => r.is # "load" \/ r.by # opening)
           /\ isSaving' => isSaving /\ (r \in entityAsked => r.is # "save" \/ r.by # opening)
           /\ isToggling' => isToggling /\ (r \in entityAsked => r.is # "toggle" \/ r.by # opening)
           /\ isExecuting' => isExecuting /\ (r \in entityAsked => r.is # "execute" \/ r.by # opening)
           /\ \/ ~entityDialog'.open \/ ~entityDialog'.loading \/ entityReloadDue'
              \/ /\ entityDialog' = entityDialog /\ entityReloadDue' = entityReloadDue
                 /\ r \in entityAsked => r.is \notin {"delete", "revoke", "restart"} \/ r.by # opening,
         renamingEntityId' \in {renamingEntityId, Nothing},
         renameError' \in {renameError, Nothing}, selected' # selected => renameError' = Nothing
  PROVE  DetailInv'
<1>1. DetailTyped'
  BY DEF DetailInv, DetailTyped, Entries
<1>2. ThePageComesBack'
  <2>1. ASSUME NEW kinds, Awaits(kinds), r \in entityAsked => r.is \notin kinds \/ r.by # opening
        PROVE  Awaits(kinds)'
    BY <2>1 DEF Awaits
  <2>2. Renaming => Renaming'
    BY DEF Renaming
  <2>3. /\ selected # Nothing =>
             /\ configLoading => Awaits({"load"})
             /\ isSaving => Awaits({"save"})
             /\ isToggling => Awaits({"toggle"})
             /\ isExecuting => Awaits({"execute"})
             /\ entityDialog.open /\ entityDialog.loading =>
                  Awaits({"delete", "revoke", "restart"}) \/ entityReloadDue
        /\ renamingEntityId # Nothing => Renaming
        /\ "error" \notin misled => renameError \in {Nothing, selected}
    BY DEF DetailInv, ThePageComesBack
  <2>4. ASSUME selected' # Nothing
        PROVE  /\ configLoading' => Awaits({"load"})'
               /\ isSaving' => Awaits({"save"})'
               /\ isToggling' => Awaits({"toggle"})'
               /\ isExecuting' => Awaits({"execute"})'
    BY <2>1, <2>3, <2>4
  <2>5. selected' # Nothing /\ entityDialog'.open /\ entityDialog'.loading =>
          Awaits({"delete", "revoke", "restart"})' \/ entityReloadDue'
    BY <2>1, <2>3
  <2>6. /\ renamingEntityId' # Nothing => Renaming'
        /\ "error" \notin misled' => renameError' \in {Nothing, selected'}
    BY <2>2, <2>3
  <2>7. QED
    BY <2>4, <2>5, <2>6 DEF ThePageComesBack
<1>3. misled' \subseteq {"error"} => ListsFollow'
  BY ListsStill
<1>4. QED
  BY <1>1, <1>2, <1>3 DEF DetailInv

\* How a request is served, on which entity, and what becomes of it.
Served(r, ok, e, q) ==
  /\ entityAsked' = (entityAsked \ {r}) \cup {q}
  /\ EntityRequest(q) /\ q.is = r.is /\ q.by = r.by /\ q.of = r.of
  /\ q.stage = (IF ok THEN "done" ELSE "refused")
  /\ r.is = "toggle" => q.value = r.value
  /\ ok /\ r.is = "load" => q.value.of \in Detail!Namesakes(r.of)
  /\ ok /\ r.is # "restart" => e \in DOMAIN entityFile
  /\ ok /\ r.is = "rename" => e = r.of
  /\ entityFile' = IF ~ok THEN entityFile
                   ELSE CASE r.is = "rename" -> [entityFile EXCEPT ![e].name = r.value]
                          [] r.is = "toggle" -> [entityFile EXCEPT ![e].on = r.value]
                          [] r.is = "save"   -> [entityFile EXCEPT ![e] = r.value]
                          [] r.is = "delete" -> [f \in DOMAIN entityFile \ {e} |-> entityFile[f]]
                          [] OTHER           -> entityFile
  /\ misled \subseteq misled' /\ ("error" \in misled' => "error" \in misled)
  /\ ok /\ r.is # "restart" /\ Detail!Overlaps(r) => "overlap" \in misled'
  /\ ok /\ r.is \in {"save", "delete"} => "restart" \in misled'
  /\ ok /\ r.is = "toggle" /\ e # r.of => "port" \in misled'

LEMMA ServedSomehow ==
  ASSUME NEW r \in entityAsked, EntityRequest(r), r.stage = "sent", Entries(entityFile), Detail!Serve(r)
  PROVE  \E ok \in BOOLEAN, e \in Detail!Entities : \E q : Served(r, ok, e, q)
<1>1. /\ r.of \in Detail!Entities /\ r.is \in EntityRequests
      /\ r \in [id : {r.id}, is : EntityRequests, of : Detail!Entities, by : {r.by}, value : {r.value},
                stage : {"sent", "done", "refused", "fetch"}]
      /\ r.is = "rename" => r.of \in Devices
  BY DEF EntityRequest
<1>2. ASSUME NEW e \in Detail!Targets(r), r.is # "restart", Detail!ServeAt(r, e)
      PROVE  \E q : Served(r, TRUE, e, q) /\ e \in Detail!Entities
  <2>1. /\ e \in DOMAIN entityFile /\ e \in Detail!Entities
        /\ r.is = "rename" => e = r.of
        /\ r.is = "load" => e \in Detail!Namesakes(r.of)
    BY <1>1, <1>2 DEF Detail!Targets, Detail!First, Detail!Namesakes, Entries
  <2> DEFINE value == IF r.is = "load" THEN Detail!Text(e) ELSE r.value
             q == [r EXCEPT !.stage = "done", !.value = value]
  <2>2. Detail!Text(e) \in Texts /\ Detail!Text(e).of = e
    BY <2>1 DEF Detail!Text, Texts, Entries, Entry
  <2>3. r.is # "load" => value = r.value
    OBVIOUS
  <2>4. r.is = "load" => value \in Texts /\ value.of = e
    BY <2>2
  <2>5. entityAsked' = (entityAsked \ {r}) \cup {q}
    BY <1>2 DEF Detail!ServeAt, Detail!Done
  <2> HIDE DEF value
  <2>6. /\ q.is = r.is /\ q.by = r.by /\ q.of = r.of /\ q.stage = "done" /\ q.value = value
        /\ q \in [id : {q.id}, is : EntityRequests, of : Detail!Entities, by : {q.by}, value : {q.value},
                  stage : {"sent", "done", "refused", "fetch"}]
    BY <1>1
  <2> HIDE DEF q
  <2>7. EntityRequest(q)
    BY <2>3, <2>4, <2>6 DEF EntityRequest
  <2>8. /\ entityFile' = CASE r.is = "rename" -> [entityFile EXCEPT ![e].name = r.value]
                          [] r.is = "toggle" -> [entityFile EXCEPT ![e].on = r.value]
                          [] r.is = "save"   -> [entityFile EXCEPT ![e] = r.value]
                          [] r.is = "delete" -> [f \in DOMAIN entityFile \ {e} |-> entityFile[f]]
                          [] OTHER           -> entityFile
        /\ misled' = misled \cup (IF Detail!Overlaps(r) THEN {"overlap"} ELSE {})
                            \cup (IF r.is \in {"save", "delete"} THEN {"restart"} ELSE {})
                            \cup (IF r.is = "toggle" /\ e # r.of THEN {"port"} ELSE {})
    BY <1>2 DEF Detail!ServeAt
  <2>9. /\ misled \subseteq misled' /\ ("error" \in misled' => "error" \in misled)
        /\ Detail!Overlaps(r) => "overlap" \in misled'
        /\ r.is \in {"save", "delete"} => "restart" \in misled'
        /\ r.is = "toggle" /\ e # r.of => "port" \in misled'
    BY <2>8
  <2>10. QED
    BY <2>1, <2>3, <2>4, <2>5, <2>6, <2>7, <2>8, <2>9 DEF Served
<1>3. ASSUME r.is = "restart", Detail!Done(r, r.value), UNCHANGED <<entityFile, misled>>
      PROVE  \E q : Served(r, TRUE, r.of, q)
  <2> DEFINE q == [r EXCEPT !.stage = "done", !.value = r.value]
  <2>1. /\ q.is = r.is /\ q.by = r.by /\ q.of = r.of /\ q.stage = "done" /\ q.value = r.value
        /\ q \in [id : {q.id}, is : EntityRequests, of : Detail!Entities, by : {q.by}, value : {q.value},
                  stage : {"sent", "done", "refused", "fetch"}]
    BY <1>1
  <2>2. entityAsked' = (entityAsked \ {r}) \cup {q}
    BY <1>3 DEF Detail!Done
  <2> HIDE DEF q
  <2>3. EntityRequest(q)
    BY <1>3, <2>1 DEF EntityRequest
  <2>4. QED
    BY <1>1, <1>3, <2>1, <2>2, <2>3 DEF Served
<1>4. ASSUME entityAsked' = (entityAsked \ {r}) \cup {[r EXCEPT !.stage = "refused"]},
             UNCHANGED <<entityFile, misled>>
      PROVE  \E q : Served(r, FALSE, r.of, q)
  <2> DEFINE q == [r EXCEPT !.stage = "refused"]
  <2>1. /\ q.is = r.is /\ q.by = r.by /\ q.of = r.of /\ q.stage = "refused" /\ q.value = r.value
        /\ q \in [id : {q.id}, is : EntityRequests, of : Detail!Entities, by : {q.by}, value : {q.value},
                  stage : {"sent", "done", "refused", "fetch"}]
    BY <1>1
  <2>2. entityAsked' = (entityAsked \ {r}) \cup {q}
    BY <1>4
  <2> HIDE DEF q
  <2>3. EntityRequest(q)
    BY <2>1 DEF EntityRequest
  <2>4. QED
    BY <1>1, <1>4, <2>1, <2>2, <2>3 DEF Served
<1>5. QED
  BY <1>1, <1>2, <1>3, <1>4 DEF Detail!Serve

LEMMA DetailServed ==
  ASSUME DetailInv, NEW r \in entityAsked, Detail!Serve(r)
  PROVE  DetailInv'
<1>1. EntityRequest(r) /\ r.stage = "sent" /\ DetailTyped /\ Entries(entityFile)
  BY DEF DetailInv, DetailTyped, Detail!Serve
<1>a. PICK ok \in BOOLEAN, e \in Detail!Entities : \E q : Served(r, ok, e, q)
  BY <1>1, ServedSomehow
<1>2. PICK q : Served(r, ok, e, q)
  BY <1>a
<1>3. UNCHANGED <<configuredEntities, availableCommands, showInactiveEntities, selected, opening,
                  renamingEntityId, renameError, configLoading, editingConfig, isSaving, isToggling,
                  isExecuting, entityDialog, entityAlertDue, entityReloadDue, requested>>
  BY DEF Detail!Serve, Detail!listVars, Detail!buttons
<1>4. /\ q \in entityAsked' /\ entityAsked' = (entityAsked \ {r}) \cup {q}
      /\ EntityRequest(q) /\ q.is = r.is /\ q.by = r.by /\ q.of = r.of
      /\ q.stage = (IF ok THEN "done" ELSE "refused")
      /\ r.is = "toggle" => q.value = r.value
  BY <1>2 DEF Served
<1>5. /\ Entries(entityFile') /\ DOMAIN entityFile' \subseteq DOMAIN entityFile
      /\ misled' \subseteq {"error"} =>
           /\ DOMAIN entityFile' = DOMAIN entityFile
           /\ r.is = "toggle" /\ ok => e = r.of /\ e \in DOMAIN entityFile
           /\ \A f \in DOMAIN entityFile : f # r.of => entityFile'[f] = entityFile[f]
           /\ r.is # "rename" \/ ~ok => \A f \in DOMAIN entityFile : entityFile'[f].name = entityFile[f].name
           /\ r.is # "toggle" \/ ~ok => \A f \in DOMAIN entityFile : entityFile'[f].on = entityFile[f].on
           /\ r.is = "toggle" /\ ok => entityFile'[r.of].on = r.value
           /\ \A f \in Automations \cap DOMAIN entityFile : entityFile'[f].name = entityFile[f].name
  <2>1. CASE ~ok \/ r.is \notin {"rename", "toggle", "save", "delete"}
    <3>1. entityFile' = entityFile
      BY <1>2, <2>1 DEF Served
    <3>2. QED
      BY <1>1, <2>1, <3>1
  <2>2. CASE ok /\ r.is = "rename"
    <3>1. /\ entityFile' = [entityFile EXCEPT ![r.of].name = r.value] /\ r.of \in DOMAIN entityFile
          /\ r.of \in Devices /\ r.value \in Names /\ r.of \notin Automations
      BY <1>1, <1>2, <2>2, UiAssumption DEF EntityRequest, Served
    <3>2. /\ DOMAIN entityFile' = DOMAIN entityFile /\ DOMAIN entityFile \subseteq Detail!Entities
          /\ \A f \in DOMAIN entityFile : f # r.of => entityFile'[f] = entityFile[f]
          /\ entityFile'[r.of] = [entityFile[r.of] EXCEPT !.name = r.value]
          /\ \A f \in DOMAIN entityFile : entityFile[f] \in Entry
      BY <1>1, <3>1 DEF Entries
    <3>3. \A f \in DOMAIN entityFile' : entityFile'[f] \in Entry /\ entityFile'[f].on = entityFile[f].on
      BY <3>1, <3>2 DEF Entry
    <3>4. QED
      BY <2>2, <3>1, <3>2, <3>3 DEF Entries
  <2>3. CASE ok /\ r.is = "toggle"
    <3>1. /\ entityFile' = [entityFile EXCEPT ![e].on = r.value] /\ e \in DOMAIN entityFile
          /\ r.value \in BOOLEAN /\ (misled' \subseteq {"error"} => e = r.of)
      BY <1>1, <1>2, <2>3 DEF EntityRequest, Served
    <3>2. /\ DOMAIN entityFile' = DOMAIN entityFile /\ DOMAIN entityFile \subseteq Detail!Entities
          /\ \A f \in DOMAIN entityFile : f # e => entityFile'[f] = entityFile[f]
          /\ entityFile'[e] = [entityFile[e] EXCEPT !.on = r.value]
          /\ \A f \in DOMAIN entityFile : entityFile[f] \in Entry
      BY <1>1, <3>1 DEF Entries
    <3>3. /\ \A f \in DOMAIN entityFile' : entityFile'[f] \in Entry /\ entityFile'[f].name = entityFile[f].name
          /\ entityFile'[e].on = r.value
      BY <3>1, <3>2 DEF Entry
    <3>4. QED
      BY <2>3, <3>1, <3>2, <3>3 DEF Entries
  <2>4. CASE ok /\ r.is \in {"save", "delete"}
    <3>1. ~(misled' \subseteq {"error"}) /\ e \in DOMAIN entityFile
      BY <1>2, <2>4 DEF Served
    <3>2. CASE r.is = "save"
      <4>1. entityFile' = [entityFile EXCEPT ![e] = r.value] /\ r.value \in Entry
        BY <1>1, <1>2, <2>4, <3>2 DEF Served, EntityRequest
      <4>2. QED
        BY <1>1, <3>1, <4>1 DEF Entries
    <3>3. CASE r.is = "delete"
      <4>1. entityFile' = [f \in DOMAIN entityFile \ {e} |-> entityFile[f]]
        BY <1>2, <2>4, <3>3 DEF Served
      <4>2. QED
        BY <1>1, <3>1, <4>1 DEF Entries
    <3>4. QED
      BY <2>4, <3>2, <3>3
  <2>5. QED
    BY <2>1, <2>2, <2>3, <2>4
<1>6. DetailTyped'
  BY <1>1, <1>3, <1>4, <1>5 DEF DetailTyped, Entries
<1>7. ThePageComesBack'
  <2>1. ASSUME NEW kinds, Awaits(kinds) PROVE Awaits(kinds)'
    BY <1>3, <1>4, <2>1 DEF Awaits
  <2>2. Renaming => Renaming'
    BY <1>4 DEF Renaming
  <2>3. "error" \notin misled' => "error" \notin misled
    BY <1>2 DEF Served
  <2>4. QED
    BY <1>3, <2>1, <2>2, <2>3 DEF DetailInv, ThePageComesBack
<1>8. ASSUME misled' \subseteq {"error"} PROVE ListsFollow'
  <2>1. /\ misled \subseteq {"error"} /\ ListsFollow
        /\ ok /\ r.is # "restart" => ~Detail!Overlaps(r)
    BY <1>2, <1>8 DEF DetailInv, Served
  <2>2. \A f : f # r.of => (Switched(f) => Switched(f)')
    BY <1>4 DEF Switched
  <2>3. (NewNames => NewNames') /\ (r.is = "rename" /\ ok => NewNames')
    BY <1>1, <1>4 DEF NewNames
  <2>4. r.is = "toggle" /\ ok => Switched(r.of)'
    BY <1>4 DEF Switched
  <2>5. Switched(r.of) => Switched(r.of)'
    BY <1>1, <1>4 DEF Switched
  <2>6. \A p \in entityAsked' : p.is = "toggle" /\ p.stage = "done" =>
                                 p.of \in DOMAIN entityFile' /\ p.value = entityFile'[p.of].on
    <3>1. SUFFICES ASSUME NEW p \in entityAsked', p.is = "toggle", p.stage = "done"
                   PROVE  p.of \in DOMAIN entityFile' /\ p.value = entityFile'[p.of].on
      OBVIOUS
    <3>2. CASE p = q
      BY <1>4, <1>5, <1>8, <3>1, <3>2
    <3>3. CASE p # q
      <4>1. p \in entityAsked \ {r} /\ p.of \in DOMAIN entityFile /\ p.value = entityFile[p.of].on
        BY <1>4, <2>1, <3>1, <3>3 DEF ListsFollow
      <4>2. ok /\ r.is # "restart" => p.of # r.of
        BY <2>1, <3>1, <4>1 DEF Detail!Overlaps
      <4>3. QED
        BY <1>5, <1>8, <4>1, <4>2
    <3>4. QED
      BY <3>2, <3>3
  <2>7. \A table \in {configuredEntities, availableCommands} :
          /\ DOMAIN table \subseteq DOMAIN entityFile'
          /\ \A f \in DOMAIN table : table[f].on = entityFile'[f].on \/ Switched(f)'
    BY <1>5, <1>8, <2>1, <2>2, <2>4, <2>5 DEF ListsFollow, FollowsFile
  <2>8. \A f \in DOMAIN availableCommands : availableCommands[f].name = entityFile'[f].name \/ NewNames'
    BY <1>5, <1>8, <2>1, <2>3 DEF ListsFollow, FollowsFile
  <2>9. \A f \in DOMAIN configuredEntities :
           \/ configuredEntities[f].name = entityFile'[f].name
           \/ f \in Devices /\ (NewNames' \/ \E p \in entityAsked' : p.is = "entities")
    <3>1. (\E p \in entityAsked : p.is = "entities") => \E p \in entityAsked' : p.is = "entities"
      BY <1>4
    <3>2. DOMAIN configuredEntities \subseteq DOMAIN entityFile
          /\ DOMAIN configuredEntities \subseteq Devices \cup Automations
      BY <1>1, <2>1 DEF ListsFollow, FollowsFile, DetailTyped, Entries, Detail!Entities
    <3>3. QED
      BY <1>5, <1>8, <2>1, <2>3, <3>1, <3>2 DEF ListsFollow
  <2>10. QED
    BY <1>3, <2>6, <2>7, <2>8, <2>9 DEF ListsFollow, FollowsFile
<1>9. QED
  BY <1>6, <1>7, <1>8 DEF DetailInv

\* The lists are given; what is shown may not be among them any more.
LEMMA ListsGiven ==
  ASSUME NEW conf, NEW comm, Detail!Lists(conf, comm)
  PROVE  configuredEntities' = conf /\ availableCommands' = comm /\ selected' \in {selected, Nothing}
BY DEF Detail!Lists

\* The page that is shown is the same, or none is.
LEMMA StillComesBack ==
  ASSUME DetailInv, selected' \in {selected, Nothing}, opening' = opening,
         UNCHANGED <<configLoading, isSaving, isExecuting, entityReloadDue>>,
         isToggling' => isToggling, misled \subseteq misled', renameError' \in {renameError, Nothing},
         selected' # selected => renameError' = Nothing,
         \A kinds \in {{"load"}, {"save"}, {"execute"}} : Awaits(kinds) => Awaits(kinds)',
         Awaits({"toggle"}) /\ isToggling' => Awaits({"toggle"})',
         entityDialog'.open /\ entityDialog'.loading =>
            entityDialog' = entityDialog
            /\ (Awaits({"delete", "revoke", "restart"}) => Awaits({"delete", "revoke", "restart"})'),
         renamingEntityId' # Nothing => renamingEntityId' = renamingEntityId /\ (Renaming => Renaming')
  PROVE  ThePageComesBack'
<1>1. /\ selected # Nothing =>
           /\ configLoading => Awaits({"load"})
           /\ isSaving => Awaits({"save"})
           /\ isToggling => Awaits({"toggle"})
           /\ isExecuting => Awaits({"execute"})
           /\ entityDialog.open /\ entityDialog.loading =>
                Awaits({"delete", "revoke", "restart"}) \/ entityReloadDue
      /\ renamingEntityId # Nothing => Renaming
      /\ "error" \notin misled => renameError \in {Nothing, selected}
  BY DEF DetailInv, ThePageComesBack
<1>2. selected' # Nothing =>
           /\ configLoading' => Awaits({"load"})'
           /\ isSaving' => Awaits({"save"})'
           /\ isToggling' => Awaits({"toggle"})'
           /\ isExecuting' => Awaits({"execute"})'
  BY <1>1
<1>3. selected' # Nothing =>
           (entityDialog'.open /\ entityDialog'.loading =>
              Awaits({"delete", "revoke", "restart"})' \/ entityReloadDue')
  BY <1>1
<1>4. /\ renamingEntityId' # Nothing => Renaming'
      /\ "error" \notin misled' => renameError' \in {Nothing, selected'}
  BY <1>1
<1>5. QED
  BY <1>2, <1>3, <1>4 DEF ThePageComesBack

LEMMA NamesAreGiven ==
  ASSUME NEW table, Entries(table), NEW n \in Names, NEW id
  PROVE  LET given == [e \in DOMAIN table |-> IF e[1] = id THEN [table[e] EXCEPT !.name = n] ELSE table[e]]
         IN Entries(given) /\ DOMAIN given = DOMAIN table /\ \A e \in DOMAIN table : given[e].on = table[e].on
<1> DEFINE given == [e \in DOMAIN table |-> IF e[1] = id THEN [table[e] EXCEPT !.name = n] ELSE table[e]]
<1>1. DOMAIN given = DOMAIN table /\ \A e \in DOMAIN table : table[e] \in Entry
  BY DEF Entries
<1>2. ASSUME NEW e \in DOMAIN table PROVE given[e] \in Entry /\ given[e].on = table[e].on
  <2>1. /\ given[e] = (IF e[1] = id THEN [table[e] EXCEPT !.name = n] ELSE table[e])
        /\ table[e] \in Entry
    BY <1>1
  <2> HIDE DEF given
  <2>2. QED
    BY <2>1 DEF Entry
<1>3. given = [e \in DOMAIN given |-> given[e]]
  OBVIOUS
<1> HIDE DEF given
<1>4. Entries(given) /\ DOMAIN given = DOMAIN table /\ \A e \in DOMAIN table : given[e].on = table[e].on
  BY <1>1, <1>2, <1>3 DEF Entries
<1>5. QED
  BY <1>4 DEF given

LEMMA DetailRenamed ==
  ASSUME DetailInv, NEW r \in entityAsked, Detail!Renamed(r)
  PROVE  DetailInv'
<1>1. /\ EntityRequest(r) /\ r.is = "rename" /\ r.value \in Names /\ r.of \in Devices /\ DetailTyped
      /\ UNCHANGED <<entityFile, configuredEntities, selected, opening, configLoading, isSaving,
                     isToggling,
                     isExecuting, editingConfig, entityDialog, entityReloadDue>>
  BY DEF DetailInv, DetailTyped, EntityRequest, Detail!Renamed, Detail!Answered, Detail!buttons
<1>2. ASSUME NEW kinds, "rename" \notin kinds, Awaits(kinds), entityAsked \ {r} \subseteq entityAsked'
      PROVE  Awaits(kinds)'
  BY <1>1, <1>2 DEF Awaits
<1>3. CASE r.stage = "done"
  <2> DEFINE q == [r EXCEPT !.is = "commands", !.stage = "fetch"]
  <2>1. /\ entityAsked' = (entityAsked \ {r}) \cup {q}
        /\ availableCommands' = [e \in DOMAIN availableCommands |->
                IF e[1] = r.of[1] THEN [availableCommands[e] EXCEPT !.name = r.value]
                ELSE availableCommands[e]]
        /\ UNCHANGED <<renamingEntityId, renameError, misled>>
    BY <1>3 DEF Detail!Renamed
  <2>2. q.is = "commands" /\ q.stage = "fetch" /\ EntityRequest(q)
    BY <1>1 DEF EntityRequest, EntityRequests
  <2> HIDE DEF q
  <2>3. /\ Entries(availableCommands') /\ DOMAIN availableCommands' = DOMAIN availableCommands
        /\ \A e \in DOMAIN availableCommands : availableCommands'[e].on = availableCommands[e].on
    <3>1. Entries(availableCommands) /\ r.value \in Names
      BY <1>1 DEF DetailTyped
    <3> DEFINE given == [e \in DOMAIN availableCommands |->
                            IF e[1] = r.of[1] THEN [availableCommands[e] EXCEPT !.name = r.value]
                            ELSE availableCommands[e]]
    <3>2. /\ Entries(given) /\ DOMAIN given = DOMAIN availableCommands
          /\ \A e \in DOMAIN availableCommands : given[e].on = availableCommands[e].on
      BY <3>1, NamesAreGiven
    <3>3. availableCommands' = given
      BY <2>1
    <3> HIDE DEF given
    <3>4. QED
      BY <3>2, <3>3
  <2>4. DetailTyped'
    BY <1>1, <2>1, <2>2, <2>3 DEF DetailTyped, Entries
  <2>5. NewNames' /\ Renaming'
    BY <2>1, <2>2 DEF NewNames, Renaming
  <2>6. ThePageComesBack'
    BY <1>1, <1>2, <2>1, <2>5, StillComesBack
  <2>7. ASSUME misled' \subseteq {"error"} PROVE ListsFollow'
    <3>1. ListsFollow
      BY <2>1, <2>7 DEF DetailInv
    <3>2. \A e : Switched(e) => Switched(e)'
      BY <1>1, <2>1 DEF Switched
    <3>3. \A p \in entityAsked' : p.is = "toggle" => p \in entityAsked
      BY <2>1, <2>2
    <3>4. FollowsFile(configuredEntities)' /\ FollowsFile(availableCommands)'
      BY <1>1, <2>3, <3>1, <3>2 DEF ListsFollow, FollowsFile
    <3>5. \A e \in DOMAIN configuredEntities' : configuredEntities'[e].name = entityFile'[e].name \/ e \in Devices
      BY <1>1, <3>1 DEF ListsFollow
    <3>6. QED
      BY <1>1, <2>5, <3>1, <3>3, <3>4, <3>5 DEF ListsFollow
  <2>8. QED
    BY <2>4, <2>6, <2>7 DEF DetailInv
<1>4. CASE r.stage # "done"
  <2>1. /\ entityAsked' = entityAsked \ {r} /\ renameError' = r.of /\ renamingEntityId' = Nothing
        /\ misled' = misled \cup (IF selected = r.of THEN {} ELSE {"error"})
        /\ availableCommands' = availableCommands
    BY <1>4 DEF Detail!Renamed, Detail!Over
  <2>2. DetailTyped'
    BY <1>1, <2>1 DEF DetailTyped, Entries
  <2>3. ThePageComesBack'
    <3>1. /\ selected # Nothing =>
               /\ configLoading => Awaits({"load"})
               /\ isSaving => Awaits({"save"})
               /\ isToggling => Awaits({"toggle"})
               /\ isExecuting => Awaits({"execute"})
               /\ entityDialog.open /\ entityDialog.loading =>
                    Awaits({"delete", "revoke", "restart"}) \/ entityReloadDue
      BY DEF DetailInv, ThePageComesBack
    <3>2. /\ renamingEntityId' = Nothing
          /\ "error" \notin misled' => renameError' = selected
      BY <2>1
    <3>3. QED
      BY <1>1, <1>2, <2>1, <3>1, <3>2 DEF ThePageComesBack
  <2>4. ASSUME misled' \subseteq {"error"} PROVE ListsFollow'
    <3>1. ListsFollow
      BY <2>1, <2>4 DEF DetailInv
    <3>2. (\A e : Switched(e) => Switched(e)') /\ (NewNames => NewNames')
      BY <1>1, <1>4, <2>1 DEF Switched, NewNames
    <3>3. entityAsked' \subseteq entityAsked
          /\ \A p \in entityAsked : p.is = "entities" => p \in entityAsked'
      BY <1>1, <2>1
    <3>4. QED
      BY <1>1, <2>1, <3>1, <3>2, <3>3 DEF ListsFollow, FollowsFile
  <2>5. QED
    BY <2>2, <2>3, <2>4 DEF DetailInv
<1>5. QED
  BY <1>3, <1>4

LEMMA DetailCommandsLoaded ==
  ASSUME DetailInv, NEW r \in entityAsked, Detail!LoadCommands(r)
  PROVE  DetailInv'
<1>1. /\ EntityRequest(r) /\ r.is = "commands" /\ DetailTyped /\ Entries(entityFile)
      /\ UNCHANGED <<entityFile, opening, configLoading, isSaving, isToggling,
                     isExecuting, editingConfig, entityDialog, entityReloadDue>>
  BY DEF DetailInv, DetailTyped, Detail!LoadCommands, Detail!buttons
<1>2. /\ \/ /\ configuredEntities' = configuredEntities
            /\ availableCommands' = Detail!ServedCommands(entityFile)
            /\ selected' \in {selected, Nothing} /\ misled' = misled
         \/ /\ misled' = misled \cup {"lists"}
            /\ UNCHANGED <<configuredEntities, availableCommands, selected>>
      /\ renameError' = IF selected' = Nothing THEN Nothing ELSE renameError
      /\ renamingEntityId' = IF selected' = Nothing THEN Nothing ELSE renamingEntityId
  BY ListsGiven DEF Detail!LoadCommands, Detail!listVars
<1>3. PICK q \in entityAsked' : /\ entityAsked' = (entityAsked \ {r}) \cup {q}
                                /\ EntityRequest(q) /\ q.is = "entities"
  <2> DEFINE q == [r EXCEPT !.is = "entities"]
  <2>1. q.is = "entities" /\ EntityRequest(q)
    BY <1>1 DEF EntityRequest, EntityRequests
  <2>2. entityAsked' = (entityAsked \ {r}) \cup {q}
    BY DEF Detail!LoadCommands
  <2> HIDE DEF q
  <2>3. QED
    BY <2>1, <2>2
<1>4. /\ Entries(Detail!ServedCommands(entityFile))
      /\ DOMAIN Detail!ServedCommands(entityFile) \subseteq DOMAIN entityFile
      /\ \A e \in DOMAIN Detail!ServedCommands(entityFile) :
           Detail!ServedCommands(entityFile)[e] = entityFile[e]
  BY <1>1, ServedIsRight
<1>5. DetailTyped'
  BY <1>1, <1>2, <1>3, <1>4 DEF DetailTyped, Entries
<1>6. ThePageComesBack'
  <2>1. ASSUME NEW kinds, "commands" \notin kinds, Awaits(kinds) PROVE Awaits(kinds)'
    BY <1>1, <1>3, <2>1 DEF Awaits
  <2>2. Renaming'
    BY <1>3 DEF Renaming
  <2>3. /\ selected' \in {selected, Nothing} /\ misled \subseteq misled'
        /\ renameError' \in {renameError, Nothing}
        /\ selected' # selected => renameError' = Nothing
        /\ renamingEntityId' # Nothing => renamingEntityId' = renamingEntityId
    BY <1>2
  <2>4. QED
    BY <1>1, <2>1, <2>2, <2>3, StillComesBack
<1>7. ASSUME misled' \subseteq {"error"} PROVE ListsFollow'
  <2>1. ListsFollow /\ configuredEntities' = configuredEntities
        /\ availableCommands' = Detail!ServedCommands(entityFile)
    <3>1. /\ misled' = misled /\ configuredEntities' = configuredEntities
          /\ availableCommands' = Detail!ServedCommands(entityFile)
      BY <1>2, <1>7
    <3>2. QED
      BY <1>7, <3>1 DEF DetailInv
  <2>2. \A e : Switched(e) => Switched(e)'
    BY <1>1, <1>3 DEF Switched
  <2>3. \A p \in entityAsked' : p.is = "toggle" => p \in entityAsked
    BY <1>3
  <2>4. \E p \in entityAsked' : p.is = "entities"
    BY <1>3
  <2>5. FollowsFile(configuredEntities)'
    BY <1>1, <2>1, <2>2 DEF ListsFollow, FollowsFile
  <2>6. /\ FollowsFile(availableCommands)'
        /\ \A e \in DOMAIN availableCommands' : availableCommands'[e].name = entityFile'[e].name
    BY <1>1, <1>4, <2>1 DEF FollowsFile
  <2>7. \A e \in DOMAIN configuredEntities' : configuredEntities'[e].name = entityFile'[e].name \/ e \in Devices
    BY <1>1, <2>1 DEF ListsFollow
  <2>8. \A p \in entityAsked' : p.is = "toggle" /\ p.stage = "done" =>
                                 p.of \in DOMAIN entityFile' /\ p.value = entityFile'[p.of].on
    BY <1>1, <2>1, <2>3 DEF ListsFollow
  <2>9. QED
    BY <2>4, <2>5, <2>6, <2>7, <2>8 DEF ListsFollow
<1>8. QED
  BY <1>5, <1>6, <1>7 DEF DetailInv

LEMMA DetailEntitiesLoaded ==
  ASSUME DetailInv, NEW r \in entityAsked, Detail!LoadConfiguredEntities(r)
  PROVE  DetailInv'
<1> DEFINE loaded == [e \in DOMAIN entityFile \cup (DOMAIN configuredEntities \cap Automations) |->
                         IF e \in Automations THEN configuredEntities[e] ELSE entityFile[e]]
           emptied == [e \in DOMAIN configuredEntities \cap Automations |-> configuredEntities[e]]
<1>1. /\ EntityRequest(r) /\ r.is = "entities" /\ DetailTyped
      /\ Entries(entityFile) /\ Entries(configuredEntities)
      /\ entityAsked' = entityAsked \ {r} /\ renamingEntityId' = Nothing
      /\ UNCHANGED <<entityFile, opening, configLoading, isSaving, isToggling,
                     isExecuting, editingConfig, entityDialog, entityReloadDue>>
  BY DEF DetailInv, DetailTyped, Detail!LoadConfiguredEntities, Detail!buttons, Detail!Over
<1>2. /\ \/ configuredEntities' = loaded /\ misled' = misled
         \/ configuredEntities' = emptied /\ misled' = misled \cup {"lists"}
      /\ availableCommands' = availableCommands /\ selected' \in {selected, Nothing}
      /\ renameError' = IF selected' = Nothing THEN Nothing ELSE renameError
  BY ListsGiven DEF Detail!LoadConfiguredEntities
<1>3. /\ Entries(emptied) /\ DOMAIN entityFile \cap Automations \subseteq DOMAIN emptied
      /\ Entries(loaded) /\ DOMAIN entityFile \cap Automations \subseteq DOMAIN loaded
  <2>1. /\ DOMAIN entityFile \subseteq Detail!Entities
        /\ DOMAIN configuredEntities \subseteq Detail!Entities
        /\ DOMAIN entityFile \cap Automations \subseteq DOMAIN configuredEntities
        /\ \A e \in DOMAIN entityFile : entityFile[e] \in Entry
        /\ \A e \in DOMAIN configuredEntities : configuredEntities[e] \in Entry
    BY <1>1 DEF Entries, DetailTyped
  <2>2. QED
    BY <2>1 DEF Entries
<1>4. /\ DOMAIN loaded = DOMAIN entityFile \cup (DOMAIN configuredEntities \cap Automations)
      /\ \A e \in DOMAIN loaded : loaded[e] = (IF e \in Automations THEN configuredEntities[e] ELSE entityFile[e])
  OBVIOUS
<1> HIDE DEF loaded, emptied
<1>5. DetailTyped'
  BY <1>1, <1>2, <1>3 DEF DetailTyped, Entries
<1>6. ThePageComesBack'
  <2>1. ASSUME NEW kinds, "entities" \notin kinds, Awaits(kinds) PROVE Awaits(kinds)'
    BY <1>1, <2>1 DEF Awaits
  <2>2. /\ selected' \in {selected, Nothing} /\ misled \subseteq misled'
        /\ renameError' \in {renameError, Nothing}
        /\ selected' # selected => renameError' = Nothing
    BY <1>2
  <2>3. QED
    BY <1>1, <2>1, <2>2, StillComesBack
<1>7. ASSUME misled' \subseteq {"error"} PROVE ListsFollow'
  <2>1. misled' = misled /\ configuredEntities' = loaded /\ availableCommands' = availableCommands
    BY <1>2, <1>7
  <2>2. ListsFollow
    BY <1>7, <2>1 DEF DetailInv
  <2>3. (\A e : Switched(e) => Switched(e)') /\ (NewNames => NewNames')
    BY <1>1 DEF Switched, NewNames
  <2>4. FollowsFile(configuredEntities)'
    <3>1. \A e \in DOMAIN loaded : e \in Automations => e \in DOMAIN configuredEntities
      BY <1>1, <1>4 DEF DetailTyped
    <3>2. DOMAIN configuredEntities \subseteq DOMAIN entityFile
          /\ \A e \in DOMAIN configuredEntities :
               configuredEntities[e].on = entityFile[e].on \/ Switched(e)
      BY <2>2 DEF ListsFollow, FollowsFile
    <3>3. DOMAIN loaded \subseteq DOMAIN entityFile
          /\ \A e \in DOMAIN loaded : loaded[e].on = entityFile[e].on \/ Switched(e)
      BY <1>4, <3>1, <3>2
    <3>4. QED
      BY <1>1, <2>1, <2>3, <3>3 DEF FollowsFile
  <2>5. \A e \in DOMAIN configuredEntities' : configuredEntities'[e].name = entityFile'[e].name
    <3>1. SUFFICES ASSUME NEW e \in DOMAIN loaded PROVE loaded[e].name = entityFile[e].name
      BY <1>1, <2>1
    <3>2. e \in Automations => e \notin Devices /\ e \in DOMAIN configuredEntities
      BY <1>1, <1>4, UiAssumption DEF DetailTyped
    <3>3. QED
      BY <1>4, <2>2, <3>2 DEF ListsFollow
  <2>6. /\ FollowsFile(availableCommands)'
        /\ \A e \in DOMAIN availableCommands' : availableCommands'[e].name = entityFile'[e].name \/ NewNames'
    BY <1>1, <2>1, <2>2, <2>3 DEF ListsFollow, FollowsFile
  <2>7. \A p \in entityAsked' : p.is = "toggle" /\ p.stage = "done" =>
                                 p.of \in DOMAIN entityFile' /\ p.value = entityFile'[p.of].on
    BY <1>1, <2>2 DEF ListsFollow
  <2>8. QED
    BY <2>4, <2>5, <2>6, <2>7 DEF ListsFollow
<1>8. QED
  BY <1>5, <1>6, <1>7 DEF DetailInv

LEMMA SwitchesAreGiven ==
  ASSUME NEW table, Entries(table), NEW on \in BOOLEAN, NEW which
  PROVE  LET given == [e \in DOMAIN table |-> IF e \in which THEN [table[e] EXCEPT !.on = on] ELSE table[e]]
         IN /\ Entries(given) /\ DOMAIN given = DOMAIN table
            /\ \A e \in DOMAIN table : /\ given[e].name = table[e].name
                                      /\ given[e].on = IF e \in which THEN on ELSE table[e].on
<1> DEFINE given == [e \in DOMAIN table |-> IF e \in which THEN [table[e] EXCEPT !.on = on] ELSE table[e]]
<1>1. DOMAIN given = DOMAIN table /\ \A e \in DOMAIN table : table[e] \in Entry
  BY DEF Entries
<1>2. ASSUME NEW e \in DOMAIN table
      PROVE  /\ given[e] \in Entry /\ given[e].name = table[e].name
             /\ given[e].on = IF e \in which THEN on ELSE table[e].on
  <2>1. /\ given[e] = (IF e \in which THEN [table[e] EXCEPT !.on = on] ELSE table[e])
        /\ table[e] \in Entry
    BY <1>1
  <2> HIDE DEF given
  <2>2. QED
    BY <2>1 DEF Entry
<1>3. given = [e \in DOMAIN given |-> given[e]]
  OBVIOUS
<1> HIDE DEF given
<1>4. /\ Entries(given) /\ DOMAIN given = DOMAIN table
      /\ \A e \in DOMAIN table : given[e].name = table[e].name /\ given[e].on = IF e \in which THEN on ELSE table[e].on
  BY <1>1, <1>2, <1>3 DEF Entries
<1>5. QED
  BY <1>4 DEF given

LEMMA DetailToggled ==
  ASSUME DetailInv, NEW r \in entityAsked, Detail!Toggled(r)
  PROVE  DetailInv'
<1>1. /\ EntityRequest(r) /\ r.is = "toggle" /\ r.value \in BOOLEAN /\ DetailTyped
      /\ Entries(entityFile) /\ Entries(configuredEntities) /\ Entries(availableCommands)
      /\ entityAsked' = entityAsked \ {r}
      /\ r.stage \in {"done", "refused"}
      /\ UNCHANGED <<entityFile, opening, configLoading, isSaving, isExecuting, editingConfig,
                     entityReloadDue>>
      /\ isToggling' = (isToggling /\ ~Detail!IsHere(r))
  BY DEF DetailInv, DetailTyped, EntityRequest, Detail!Toggled, Detail!Answered, Detail!Over
<1>2. entityDialog' \in EntityDialogs /\ (entityDialog' = entityDialog \/ ~entityDialog'.loading)
  <2>1. entityDialog' = entityDialog \/ Detail!Prompt(FALSE)
    BY DEF Detail!Toggled
  <2>2. CASE Detail!Prompt(FALSE)
    BY <2>2, ADialog DEF Detail!Prompt
  <2>3. QED
    BY <1>1, <2>1, <2>2 DEF DetailTyped
<1>3. /\ misled' = misled
           \cup (IF r.stage = "done" /\ selected # r.of THEN {"moved"} ELSE {})
           \cup (IF r.stage = "done" /\ \E e \in Devices \ {r.of} : e[1] = r.of[1] THEN {"port"} ELSE {})
           \cup (IF r.of \in Automations THEN {"restart"} ELSE {})
  BY DEF Detail!Toggled
<1> DEFINE those == {e \in Devices : e[1] = selected[1]}
           conf == [e \in DOMAIN configuredEntities |->
                       IF e \in those THEN [configuredEntities[e] EXCEPT !.on = r.value]
                       ELSE configuredEntities[e]]
           comm == [e \in DOMAIN availableCommands |->
                       IF e \in {selected} THEN [availableCommands[e] EXCEPT !.on = r.value]
                       ELSE availableCommands[e]]
<1>4. \/ /\ r.stage = "refused" \/ r.of \in Automations \/ selected = Nothing
         /\ UNCHANGED <<configuredEntities, availableCommands, selected, renameError,
                        renamingEntityId>>
      \/ /\ ~(r.stage = "refused" \/ r.of \in Automations \/ selected = Nothing)
         /\ configuredEntities' = conf /\ availableCommands' = comm
         /\ selected' \in {selected, Nothing}
         /\ renameError' = IF selected' = Nothing THEN Nothing ELSE renameError
         /\ renamingEntityId' = IF selected' = Nothing THEN Nothing ELSE renamingEntityId
  <2>1. CASE r.stage = "refused" \/ r.of \in Automations \/ selected = Nothing
    BY <2>1 DEF Detail!Toggled, Detail!listVars
  <2>2. CASE ~(r.stage = "refused" \/ r.of \in Automations \/ selected = Nothing)
    <3>1. /\ Detail!Lists([e \in DOMAIN configuredEntities |->
                              IF e[1] = selected[1] /\ e \in Devices
                              THEN [configuredEntities[e] EXCEPT !.on = r.value]
                              ELSE configuredEntities[e]],
                          [e \in DOMAIN availableCommands |->
                              IF e = selected THEN [availableCommands[e] EXCEPT !.on = r.value]
                              ELSE availableCommands[e]])
          /\ renameError' = IF selected' = Nothing THEN Nothing ELSE renameError
          /\ renamingEntityId' = IF selected' = Nothing THEN Nothing ELSE renamingEntityId
      BY <2>2 DEF Detail!Toggled
    <3>2. /\ conf = [e \in DOMAIN configuredEntities |->
                              IF e[1] = selected[1] /\ e \in Devices
                              THEN [configuredEntities[e] EXCEPT !.on = r.value]
                              ELSE configuredEntities[e]]
          /\ comm = [e \in DOMAIN availableCommands |->
                              IF e = selected THEN [availableCommands[e] EXCEPT !.on = r.value]
                              ELSE availableCommands[e]]
      OBVIOUS
    <3> HIDE DEF conf, comm
    <3>3. QED
      BY <2>2, <3>1, <3>2, ListsGiven
  <2>3. QED
    BY <2>1, <2>2
<1>5. /\ Entries(conf) /\ DOMAIN conf = DOMAIN configuredEntities
      /\ \A e \in DOMAIN configuredEntities :
           /\ conf[e].name = configuredEntities[e].name
           /\ conf[e].on = IF e \in those THEN r.value ELSE configuredEntities[e].on
  <2> HIDE DEF those
  <2>1. QED
    BY <1>1, SwitchesAreGiven
<1>6. /\ Entries(comm) /\ DOMAIN comm = DOMAIN availableCommands
      /\ \A e \in DOMAIN availableCommands :
           /\ comm[e].name = availableCommands[e].name
           /\ comm[e].on = IF e \in {selected} THEN r.value ELSE availableCommands[e].on
  <2> DEFINE which == {selected}
  <2> HIDE DEF which
  <2>1. /\ LET given == [e \in DOMAIN availableCommands |->
                            IF e \in which THEN [availableCommands[e] EXCEPT !.on = r.value]
                            ELSE availableCommands[e]]
           IN /\ Entries(given) /\ DOMAIN given = DOMAIN availableCommands
              /\ \A e \in DOMAIN availableCommands :
                    /\ given[e].name = availableCommands[e].name
                    /\ given[e].on = IF e \in which THEN r.value ELSE availableCommands[e].on
    BY <1>1, SwitchesAreGiven
  <2>2. QED
    BY <2>1 DEF which
<1> HIDE DEF conf, comm
<1>7. DetailTyped'
  BY <1>1, <1>2, <1>4, <1>5, <1>6 DEF DetailTyped, Entries
<1>8. ThePageComesBack'
  <2>1. ASSUME NEW kinds, "toggle" \notin kinds, Awaits(kinds) PROVE Awaits(kinds)'
    BY <1>1, <2>1 DEF Awaits
  <2>2. Renaming => Renaming'
    BY <1>1 DEF Renaming
  <2>3. Awaits({"toggle"}) /\ isToggling' => Awaits({"toggle"})' \/ selected = Nothing
    BY <1>1 DEF Awaits, Detail!IsHere
  <2>4. /\ selected' \in {selected, Nothing} /\ misled \subseteq misled'
        /\ renameError' \in {renameError, Nothing}
        /\ selected' # selected => renameError' = Nothing
        /\ renamingEntityId' # Nothing => renamingEntityId' = renamingEntityId
    BY <1>3, <1>4
  <2>5. /\ selected # Nothing =>
           /\ configLoading => Awaits({"load"})
           /\ isSaving => Awaits({"save"})
           /\ isToggling => Awaits({"toggle"})
           /\ isExecuting => Awaits({"execute"})
           /\ entityDialog.open /\ entityDialog.loading =>
                Awaits({"delete", "revoke", "restart"}) \/ entityReloadDue
        /\ renamingEntityId # Nothing => Renaming
        /\ "error" \notin misled => renameError \in {Nothing, selected}
    BY DEF DetailInv, ThePageComesBack
  <2>6. ASSUME selected' # Nothing
        PROVE  /\ configLoading' => Awaits({"load"})'
               /\ isSaving' => Awaits({"save"})'
               /\ isToggling' => Awaits({"toggle"})'
               /\ isExecuting' => Awaits({"execute"})'
               /\ entityDialog'.open /\ entityDialog'.loading =>
                    Awaits({"delete", "revoke", "restart"})' \/ entityReloadDue'
    <3>1. selected = selected' /\ selected # Nothing
      BY <2>4, <2>6
    <3>2. (configLoading' => Awaits({"load"})') /\ (isSaving' => Awaits({"save"})')
          /\ (isExecuting' => Awaits({"execute"})')
      BY <1>1, <2>1, <2>5, <3>1
    <3>3. isToggling' => Awaits({"toggle"})'
      BY <1>1, <2>3, <2>5, <3>1
    <3>4. entityDialog'.open /\ entityDialog'.loading =>
             Awaits({"delete", "revoke", "restart"})' \/ entityReloadDue'
      BY <1>1, <1>2, <2>1, <2>5, <3>1
    <3>5. QED
      BY <3>2, <3>3, <3>4
  <2>7. /\ renamingEntityId' # Nothing => Renaming'
        /\ "error" \notin misled' => renameError' \in {Nothing, selected'}
    BY <2>2, <2>4, <2>5
  <2>8. QED
    BY <2>6, <2>7 DEF ThePageComesBack
<1>9. ASSUME misled' \subseteq {"error"} PROVE ListsFollow'
  <2>1. /\ ListsFollow /\ r.of \notin Automations
        /\ r.stage = "done" => selected = r.of /\ \A e \in Devices \ {r.of} : e[1] # r.of[1]
    BY <1>3, <1>9 DEF DetailInv
  <2>2. /\ NewNames => NewNames'
        /\ \A e : Switched(e) => Switched(e)' \/ (e = r.of /\ r.stage = "done")
    BY <1>1 DEF Switched, NewNames
  <2>3. r.of \in Devices /\ r.of # Nothing
    BY <1>1, <2>1, UiAssumption DEF EntityRequest, Detail!Entities
  <2>4. r.stage = "done" => /\ r.value = entityFile[r.of].on /\ those = {r.of} /\ selected # Nothing
    <3>1. r.stage = "done" => r.value = entityFile[r.of].on /\ selected # Nothing
      BY <1>1, <2>1, <2>3 DEF ListsFollow
    <3>2. r.stage = "done" => those = {r.of}
      BY <2>1, <2>3
    <3>3. QED
      BY <3>1, <3>2
  <2> HIDE DEF those
  <2>5. /\ \A p \in entityAsked' : p.is = "toggle" /\ p.stage = "done" =>
                                   p.of \in DOMAIN entityFile' /\ p.value = entityFile'[p.of].on
        /\ \A p \in entityAsked : p.is = "entities" => p \in entityAsked'
    BY <1>1, <2>1 DEF ListsFollow
  <2>6. CASE r.stage = "refused"
    <3>1. UNCHANGED <<configuredEntities, availableCommands>>
      BY <1>4, <2>6
    <3>2. FollowsFile(configuredEntities)' /\ FollowsFile(availableCommands)'
      BY <1>1, <2>1, <2>2, <2>6, <3>1 DEF ListsFollow, FollowsFile
    <3>3. QED
      BY <1>1, <2>1, <2>2, <2>5, <3>1, <3>2 DEF ListsFollow
  <2>7. CASE r.stage = "done"
    <3>1. configuredEntities' = conf /\ availableCommands' = comm
      BY <1>4, <2>1, <2>4, <2>7
    <3>2. FollowsFile(configuredEntities)'
      BY <1>1, <1>5, <2>1, <2>2, <2>4, <2>7, <3>1 DEF ListsFollow, FollowsFile
    <3>3. FollowsFile(availableCommands)'
      BY <1>1, <1>6, <2>1, <2>2, <2>4, <2>7, <3>1 DEF ListsFollow, FollowsFile
    <3>4. QED
      BY <1>1, <1>5, <1>6, <2>1, <2>2, <2>5, <3>1, <3>2, <3>3 DEF ListsFollow
  <2>8. QED
    BY <1>1, <2>6, <2>7
<1>10. QED
  BY <1>7, <1>8, <1>9 DEF DetailInv

\* The page is opened, or the whole UI is loaded.
LEMMA DetailOpened ==
  ASSUME DetailInv, Detail!Reload \/ \E e \in Detail!Entities : Detail!Open(e)
  PROVE  DetailInv'
<1>1. DetailTyped /\ Entries(entityFile)
  BY DEF DetailInv, DetailTyped
<1>2. /\ configLoading' = FALSE /\ editingConfig' = Nothing /\ isSaving' = FALSE
      /\ isToggling' = FALSE /\ isExecuting' = FALSE
      /\ entityDialog' = Detail!NoDialog /\ entityFile' = entityFile
  BY DEF Detail!Reload, Detail!Open, Detail!FreshButtons
<1>3. entityDialog' \in EntityDialogs /\ ~entityDialog'.open
  BY <1>1, <1>2, TheDialogs DEF DetailTyped
<1>4. CASE Detail!Reload
  <2>1. /\ configuredEntities' = entityFile
        /\ availableCommands' = Detail!ServedCommands(entityFile)
        /\ selected' = Nothing /\ renameError' = Nothing /\ renamingEntityId' = Nothing
        /\ entityAsked' = {}
    BY <1>4 DEF Detail!Reload, Detail!Closes
  <2>2. /\ Entries(availableCommands') /\ DOMAIN availableCommands' \subseteq DOMAIN entityFile
        /\ \A e \in DOMAIN availableCommands' : availableCommands'[e] = entityFile[e]
    BY <1>1, <2>1, ServedIsRight
  <2>3. DetailTyped'
    BY <1>1, <1>2, <1>3, <2>1, <2>2 DEF DetailTyped, Entries
  <2>4. ListsFollow'
    BY <1>2, <2>1, <2>2 DEF ListsFollow, FollowsFile
  <2>5. QED
    BY <2>1, <2>3, <2>4 DEF DetailInv, ThePageComesBack
<1>5. ASSUME NEW e \in Detail!Entities, Detail!Open(e) PROVE DetailInv'
  <2>1. /\ selected = Nothing /\ selected' = e
        /\ UNCHANGED <<configuredEntities, availableCommands, renamingEntityId, renameError,
                       entityAsked,
                       misled>>
    BY <1>5 DEF Detail!Open, Detail!listVars
  <2>2. DetailTyped'
    BY <1>1, <1>2, <1>3, <2>1 DEF DetailTyped, Entries
  <2>3. ThePageComesBack'
    BY <1>2, <1>3, <2>1 DEF DetailInv, ThePageComesBack, Renaming
  <2>4. misled' \subseteq {"error"} => ListsFollow'
    BY <1>2, <2>1, ListsStill
  <2>5. QED
    BY <2>2, <2>3, <2>4 DEF DetailInv
<1>6. QED
  BY <1>4, <1>5

LEMMA DetailDialogAnswered ==
  ASSUME DetailInv, NEW r \in entityAsked, Detail!DialogAnswered(r)
  PROVE  DetailInv'
<1>1. /\ r.is \in {"delete", "revoke", "restart"} /\ r.stage \in {"done", "refused"}
      /\ entityAsked' = entityAsked \ {r} /\ entityDialog \in EntityDialogs
      /\ UNCHANGED <<entityFile, configuredEntities, availableCommands, opening, configLoading,
                     editingConfig,
                     isSaving, isToggling, isExecuting, misled>>
      /\ editingConfig' \in Texts \cup {Nothing, Detail!NoText}
  BY DEF DetailInv, DetailTyped, Detail!DialogAnswered, Detail!Over, Detail!listVars,
     Detail!buttons
<1>2. CASE r.stage = "refused"
  <2>1. /\ UNCHANGED <<selected, renameError, renamingEntityId, entityReloadDue>>
        /\ IF Detail!IsHere(r) THEN entityDialog' = [entityDialog EXCEPT !.open = FALSE, !.leaves = FALSE]
           ELSE entityDialog' = entityDialog
    BY <1>2 DEF Detail!DialogAnswered
  <2>2. /\ entityDialog' \in EntityDialogs
        /\ selected' # Nothing => ~entityDialog'.open \/ (entityDialog' = entityDialog /\ r.by # opening)
    BY <1>1, <2>1, TheDialogs DEF Detail!IsHere
  <2>3. QED
    BY <1>1, <2>1, <2>2, DetailMoves
<1>3. CASE r.stage = "done" /\ r.is = "restart"
  <2>1. /\ entityReloadDue' = TRUE /\ entityDialog' = [entityDialog EXCEPT !.leaves = FALSE]
        /\ UNCHANGED <<selected, renameError, renamingEntityId>>
    BY <1>3 DEF Detail!DialogAnswered
  <2>2. entityDialog' \in EntityDialogs
    BY <1>1, <2>1, TheDialogs
  <2>3. QED
    BY <1>1, <2>1, <2>2, DetailMoves
<1>4. CASE r.stage = "done" /\ r.is = "delete" /\ r.of \in Automations
  <2>1. /\ entityReloadDue' = TRUE /\ entityDialog' = entityDialog
        /\ selected' = Nothing /\ renameError' = Nothing /\ renamingEntityId' = Nothing
    BY <1>4 DEF Detail!DialogAnswered, Detail!Closes
  <2>2. QED
    BY <1>1, <2>1, DetailMoves
<1>5. CASE r.stage = "done" /\ r.is # "restart" /\ ~(r.is = "delete" /\ r.of \in Automations)
  <2>1. /\ UNCHANGED <<selected, renameError, renamingEntityId, entityReloadDue>>
        /\ IF ~Detail!IsHere(r) THEN entityDialog' = entityDialog
           ELSE IF r.is = "delete" THEN Detail!Prompt(TRUE)
           ELSE entityDialog' = [Detail!NoDialog EXCEPT !.open = TRUE, !.showCancel = FALSE, !.kind = "alert"]
    BY <1>5 DEF Detail!DialogAnswered
  <2>2. /\ entityDialog' \in EntityDialogs
        /\ selected' # Nothing => ~entityDialog'.loading \/ (entityDialog' = entityDialog /\ r.by # opening)
    <3>1. CASE ~Detail!IsHere(r)
      BY <1>1, <2>1, <3>1 DEF Detail!IsHere
    <3>2. CASE Detail!IsHere(r)
      BY <2>1, <3>2, ADialog DEF Detail!Prompt
    <3>3. QED
      BY <3>1, <3>2
  <2>3. QED
    BY <1>1, <2>1, <2>2, DetailMoves
<1>6. QED
  BY <1>1, <1>2, <1>3, <1>4, <1>5

LEMMA DetailAnswered ==
  ASSUME DetailInv, NEW r \in entityAsked,
         Detail!RawConfigLoaded(r) \/ Detail!ConfigSaved(r) \/ Detail!Executed(r)
  PROVE  DetailInv'
<1>1. /\ EntityRequest(r) /\ r.stage \in {"done", "refused"}
      /\ entityAsked' = entityAsked \ {r} /\ entityDialog \in EntityDialogs
      /\ editingConfig \in Texts \cup {Nothing, Detail!NoText}
      /\ UNCHANGED <<entityFile, configuredEntities, availableCommands, selected, opening,
                     renamingEntityId,
                     renameError, entityReloadDue, misled>>
  BY DEF DetailInv, DetailTyped, Detail!RawConfigLoaded, Detail!ConfigSaved, Detail!Executed,
     Detail!Answered,
         Detail!Over, Detail!listVars
<1>2. CASE Detail!RawConfigLoaded(r)
  <2>1. /\ r.is = "load" /\ UNCHANGED <<isSaving, isToggling, isExecuting, entityDialog>>
        /\ IF Detail!IsHere(r)
           THEN /\ configLoading' = FALSE
                /\ editingConfig' = IF r.stage = "done" THEN r.value ELSE Detail!NoText
           ELSE UNCHANGED <<configLoading, editingConfig>>
    BY <1>2 DEF Detail!RawConfigLoaded, Detail!Answered
  <2>2. /\ editingConfig' \in Texts \cup {Nothing, Detail!NoText}
        /\ selected' # Nothing => (configLoading' => configLoading /\ r.by # opening)
    BY <1>1, <2>1 DEF EntityRequest, Detail!IsHere
  <2>3. QED
    BY <1>1, <2>1, <2>2, DetailMoves
<1>3. CASE Detail!ConfigSaved(r)
  <2>1. /\ r.is = "save" /\ UNCHANGED <<configLoading, editingConfig, isToggling, isExecuting>>
        /\ isSaving' = (isSaving /\ ~Detail!IsHere(r))
        /\ entityDialog' = entityDialog \/ Detail!Prompt(FALSE)
    BY <1>3 DEF Detail!ConfigSaved, Detail!Answered
  <2>2. /\ entityDialog' \in EntityDialogs
        /\ (entityDialog' = entityDialog \/ ~entityDialog'.loading)
        /\ selected' # Nothing => (isSaving' => isSaving /\ r.by # opening)
    BY <1>1, <2>1, ADialog DEF Detail!Prompt, Detail!IsHere
  <2>3. QED
    BY <1>1, <2>1, <2>2, DetailMoves
<1>4. CASE Detail!Executed(r)
  <2>1. /\ r.is = "execute" /\ UNCHANGED <<configLoading, editingConfig, isSaving, isToggling,
                                           entityDialog>>
        /\ isExecuting' = (isExecuting /\ ~Detail!IsHere(r))
    BY <1>4 DEF Detail!Executed, Detail!Answered
  <2>2. selected' # Nothing => (isExecuting' => isExecuting /\ r.by # opening)
    BY <1>1, <2>1 DEF Detail!IsHere
  <2>3. QED
    BY <1>1, <2>1, <2>2, DetailMoves
<1>5. QED
  BY <1>2, <1>3, <1>4

\* There is always something that is not among them.
LEMMA NoneOfThem == \E r : r \notin entityAsked
<1> DEFINE apart == {x \in entityAsked : x \notin x}
<1>1. apart \in entityAsked => (apart \in apart <=> apart \notin apart)
  OBVIOUS
<1>2. apart \notin entityAsked
  BY <1>1
<1>3. QED
  BY <1>2

\* What the user does.
LEMMA DetailUsed ==
  ASSUME DetailInv,
         \/ \E n \in Names : Detail!Rename(n)
         \/ Detail!Close \/ Detail!Toggle \/ Detail!LoadRawConfig \/ Detail!SaveConfig \/ Detail!Execute
         \/ Detail!CancelDialog \/ Detail!Confirm
         \/ \E kind \in {"delete", "revoke"} : Detail!AskTo(kind)
  PROVE  DetailInv'
<1>0. /\ DetailTyped /\ entityDialog \in EntityDialogs
      /\ selected \in Detail!Entities \cup {Nothing}
      /\ editingConfig \in Texts \cup {Nothing, Detail!NoText}
  BY DEF DetailInv, DetailTyped
<1>1. ASSUME NEW n \in Names, Detail!Rename(n) PROVE DetailInv'
  <2> DEFINE q == Detail!Request("rename", n)
  <2>1. /\ selected \in Devices /\ selected # Nothing /\ entityAsked' = entityAsked \cup {q}
        /\ renameError' = Nothing
        /\ UNCHANGED <<entityFile, configuredEntities, availableCommands, selected, opening, misled,
                       entityReloadDue, configLoading, editingConfig, isSaving, isToggling,
                       isExecuting,
                       entityDialog>>
    BY <1>1 DEF Detail!Rename, Detail!Press, Detail!listVars, Detail!buttons
  <2>2. EntityRequest(q) /\ q.is = "rename" /\ q.by = opening /\ q.stage = "sent"
    BY <1>0, <2>1, AChange
  <2> HIDE DEF q
  <2>3. QED
    BY <1>0, <2>1, <2>2, DetailRequests
<1>2. CASE Detail!Close
  <2>1. /\ selected' = Nothing /\ renameError' = Nothing /\ renamingEntityId' = Nothing
        /\ UNCHANGED <<entityFile, configuredEntities, availableCommands, opening, misled,
                       entityAsked,
                       entityReloadDue, configLoading, editingConfig, isSaving, isToggling,
                       isExecuting,
                       entityDialog>>
    BY <1>2 DEF Detail!Close, Detail!Closes, Detail!listVars, Detail!buttons
  <2>2. PICK r : r \notin entityAsked
    BY NoneOfThem
  <2>3. entityAsked' = entityAsked \ {r}
    BY <2>1, <2>2
  <2>4. QED
    BY <1>0, <2>1, <2>2, <2>3, DetailMoves
<1>3. CASE Detail!Toggle
  <2> DEFINE on == Detail!On(configuredEntities, availableCommands, selected)
             q == Detail!Request("toggle", ~on)
  <2>1. /\ selected # Nothing /\ entityAsked' = entityAsked \cup {q}
        /\ UNCHANGED <<entityFile, configuredEntities, availableCommands, selected, opening, misled,
                       entityReloadDue, configLoading, editingConfig, isSaving, renamingEntityId,
                       renameError,
                       isExecuting, entityDialog>>
    BY <1>3 DEF Detail!Toggle, Detail!Press, Detail!listVars
  <2>2. (~on) \in BOOLEAN
    OBVIOUS
  <2>3. EntityRequest(q) /\ q.is = "toggle" /\ q.by = opening /\ q.stage = "sent"
    <3> HIDE DEF on
    <3>1. QED
      BY <1>0, <2>1, <2>2, AChange
  <2> HIDE DEF q
  <2>4. QED
    BY <1>0, <2>1, <2>3, DetailRequests
<1>4. CASE Detail!LoadRawConfig
  <2> DEFINE q == Detail!Request("load", Nothing)
  <2>1. /\ selected # Nothing /\ entityAsked' = entityAsked \cup {q}
        /\ UNCHANGED <<entityFile, configuredEntities, availableCommands, selected, opening, misled,
                       entityReloadDue, isToggling, editingConfig, isSaving, renamingEntityId,
                       renameError,
                       isExecuting, entityDialog>>
    BY <1>4 DEF Detail!LoadRawConfig, Detail!Press, Detail!listVars
  <2>2. "load" \in EntityRequests \ {"rename", "toggle", "save"}
    BY DEF EntityRequests
  <2>3. EntityRequest(q) /\ q.is = "load" /\ q.by = opening /\ q.stage = "sent"
    BY <1>0, <2>1, <2>2, AnEntityRequest
  <2> HIDE DEF q
  <2>4. QED
    BY <1>0, <2>1, <2>3, DetailRequests
<1>5. CASE Detail!SaveConfig
  <2>1. PICK on \in BOOLEAN : Detail!Press("save", [name |-> editingConfig.name, on |-> on])
    BY <1>5 DEF Detail!SaveConfig
  <2> DEFINE value == [name |-> editingConfig.name, on |-> on]
             q == Detail!Request("save", value)
  <2>2. /\ selected # Nothing /\ entityAsked' = entityAsked \cup {q}
        /\ UNCHANGED <<entityFile, configuredEntities, availableCommands, selected, opening, misled,
                       entityReloadDue, configLoading, isToggling, editingConfig,
                       renamingEntityId, renameError,
                       isExecuting, entityDialog>>
    BY <1>5, <2>1 DEF Detail!SaveConfig, Detail!Press, Detail!listVars
  <2>3. value \in Entry
    BY <1>0, <1>5 DEF Detail!SaveConfig, Entry, Texts
  <2>4. EntityRequest(q) /\ q.is = "save" /\ q.by = opening /\ q.stage = "sent"
    <3> HIDE DEF value
    <3>1. QED
      BY <1>0, <2>2, <2>3, AChange
  <2> HIDE DEF q
  <2>5. QED
    BY <1>0, <2>2, <2>4, DetailRequests
<1>6. CASE Detail!Execute
  <2> DEFINE q == Detail!Request("execute", Nothing)
  <2>1. /\ selected # Nothing /\ entityAsked' = entityAsked \cup {q}
        /\ UNCHANGED <<entityFile, configuredEntities, availableCommands, selected, opening, misled,
                       entityReloadDue, isToggling, editingConfig, isSaving, renamingEntityId,
                       renameError,
                       configLoading, entityDialog>>
    BY <1>6 DEF Detail!Execute, Detail!Press, Detail!listVars
  <2>2. "execute" \in EntityRequests \ {"rename", "toggle", "save"}
    BY DEF EntityRequests
  <2>3. EntityRequest(q) /\ q.is = "execute" /\ q.by = opening /\ q.stage = "sent"
    BY <1>0, <2>1, <2>2, AnEntityRequest
  <2> HIDE DEF q
  <2>4. QED
    BY <1>0, <2>1, <2>3, DetailRequests
<1>7. CASE Detail!CancelDialog
  <2>1. /\ entityDialog' = [entityDialog EXCEPT !.open = FALSE]
        /\ \/ selected' = Nothing /\ renameError' = Nothing /\ renamingEntityId' = Nothing
           \/ UNCHANGED <<selected, renameError, renamingEntityId>>
        /\ UNCHANGED <<entityFile, configuredEntities, availableCommands, opening, misled,
                       entityAsked,
                       entityReloadDue, configLoading, editingConfig, isSaving, isToggling,
                       isExecuting>>
    BY <1>7 DEF Detail!CancelDialog, Detail!Closes, Detail!listVars, Detail!buttons
  <2>2. entityDialog' \in EntityDialogs /\ ~entityDialog'.open
    BY <1>0, <2>1, TheDialogs
  <2>3. PICK r : r \notin entityAsked
    BY NoneOfThem
  <2>4. entityAsked' = entityAsked \ {r}
    BY <2>1, <2>3
  <2>5. QED
    BY <1>0, <2>1, <2>2, <2>3, <2>4, DetailMoves
<1>8. CASE Detail!Confirm
  <2>1. /\ selected # Nothing
        /\ UNCHANGED <<entityFile, configuredEntities, availableCommands, selected, opening, misled,
                       renamingEntityId, renameError, entityReloadDue, configLoading,
                       editingConfig, isSaving,
                       isToggling, isExecuting>>
    BY <1>8 DEF Detail!Confirm, Detail!listVars, Detail!buttons
  <2>2. CASE entityDialog.kind = "alert"
    <3>1. entityDialog' = [entityDialog EXCEPT !.open = FALSE] /\ entityAsked' = entityAsked
      BY <1>8, <2>2 DEF Detail!Confirm
    <3>2. entityDialog' \in EntityDialogs /\ ~entityDialog'.open
      BY <1>0, <3>1, TheDialogs
    <3>3. PICK r : r \notin entityAsked
      BY NoneOfThem
    <3>4. entityAsked' = entityAsked \ {r}
      BY <3>1, <3>3
    <3>5. QED
      BY <1>0, <2>1, <3>2, <3>3, <3>4, DetailMoves
  <2>3. CASE entityDialog.kind # "alert"
    <3> DEFINE q == Detail!Request(entityDialog.kind, Nothing)
    <3>1. /\ entityAsked' = entityAsked \cup {q}
          /\ entityDialog' = [entityDialog EXCEPT !.loading = TRUE, !.showCancel = entityDialog.kind # "restart"]
      BY <1>8, <2>3 DEF Detail!Confirm
    <3>2. entityDialog' \in EntityDialogs
      BY <1>0, <3>1, TheDialogs
    <3>3. entityDialog.kind \in {"delete", "revoke", "restart"}
      BY <1>0, <1>8, <2>3 DEF Detail!Confirm, EntityDialogs
    <3>4. EntityRequest(q) /\ q.is = entityDialog.kind /\ q.by = opening /\ q.stage = "sent"
      <4>1. entityDialog.kind \in EntityRequests \ {"rename", "toggle", "save"}
        BY <3>3 DEF EntityRequests
      <4>2. QED
        BY <1>0, <2>1, <4>1, AnEntityRequest
    <3> HIDE DEF q
    <3>5. QED
      BY <1>0, <2>1, <3>1, <3>2, <3>3, <3>4, DetailRequests
  <2>4. QED
    BY <2>2, <2>3
<1>9. ASSUME NEW kind \in {"delete", "revoke"}, Detail!AskTo(kind) PROVE DetailInv'
  <2>1. /\ entityDialog' = [Detail!NoDialog EXCEPT !.open = TRUE, !.kind = kind]
        /\ UNCHANGED <<entityFile, configuredEntities, availableCommands, selected, opening,
                       misled, entityAsked,
                       renamingEntityId, renameError, entityReloadDue, configLoading,
                       editingConfig, isSaving,
                       isToggling, isExecuting>>
    BY <1>9 DEF Detail!AskTo, Detail!listVars, Detail!buttons
  <2>2. entityDialog' \in EntityDialogs /\ ~entityDialog'.loading
    BY <2>1, ADialog
  <2>3. PICK r : r \notin entityAsked
    BY NoneOfThem
  <2>4. entityAsked' = entityAsked \ {r}
    BY <2>1, <2>3
  <2>5. QED
    BY <1>0, <2>1, <2>2, <2>3, <2>4, DetailMoves
<1>10. QED
  BY <1>1, <1>2, <1>3, <1>4, <1>5, <1>6, <1>7, <1>8, <1>9

LEMMA DetailKept == DetailInv /\ Detail!Next => DetailInv'
<1> SUFFICES ASSUME DetailInv, Detail!Next PROVE DetailInv'
  OBVIOUS
<1>1. CASE Detail!Alert
  <2>1. /\ entityDialog' = IF selected # Nothing /\ entityAlertDue = opening
                           THEN [Detail!NoDialog EXCEPT !.open = TRUE, !.showCancel = FALSE, !.kind = "alert"]
                           ELSE entityDialog
        /\ UNCHANGED <<entityFile, configuredEntities, availableCommands, selected, opening,
                       misled, entityAsked,
                       renamingEntityId, renameError, entityReloadDue, configLoading,
                       editingConfig, isSaving,
                       isToggling, isExecuting>>
    BY <1>1 DEF Detail!Alert, Detail!listVars, Detail!buttons
  <2>2. entityDialog' \in EntityDialogs /\ (entityDialog' = entityDialog \/ ~entityDialog'.loading)
    BY <2>1, ADialog DEF DetailInv, DetailTyped
  <2>3. PICK r : r \notin entityAsked
    BY NoneOfThem
  <2>4. entityAsked' = entityAsked \ {r} /\ editingConfig' \in Texts \cup {Nothing, Detail!NoText}
    BY <2>1, <2>3 DEF DetailInv, DetailTyped
  <2>5. QED
    BY <2>1, <2>2, <2>3, <2>4, DetailMoves
<1>2. CASE Detail!Reload \/ \E e \in Detail!Entities : Detail!Open(e)
  BY <1>2, DetailOpened
<1>3. CASE \/ \E n \in Names : Detail!Rename(n)
           \/ Detail!Close \/ Detail!Toggle \/ Detail!LoadRawConfig \/ Detail!SaveConfig \/ Detail!Execute
           \/ Detail!CancelDialog \/ Detail!Confirm
           \/ \E kind \in {"delete", "revoke"} : Detail!AskTo(kind)
  BY <1>3, DetailUsed
<1>4. ASSUME NEW r \in entityAsked,
             \/ Detail!Serve(r) \/ Detail!Renamed(r) \/ Detail!LoadCommands(r)
             \/ Detail!LoadConfiguredEntities(r) \/ Detail!Toggled(r) \/ Detail!RawConfigLoaded(r)
             \/ Detail!ConfigSaved(r) \/ Detail!Executed(r) \/ Detail!DialogAnswered(r)
      PROVE  DetailInv'
  BY <1>4, DetailServed, DetailRenamed, DetailCommandsLoaded, DetailEntitiesLoaded,
     DetailToggled, DetailAnswered,
     DetailDialogAnswered
<1>5. QED
  BY <1>1, <1>2, <1>3, <1>4 DEF Detail!Next

\* Requests of the page are added, others move on, and a text is shown that is right.
LEMMA TextStays ==
  ASSUME TextIsOwn, opening' = opening, selected' \in {selected, Nothing},
         \A q \in entityAsked' :
            \/ q.by = opening /\ q.of = selected /\ q.stage = "sent"
            \/ \E p \in entityAsked :
                 /\ q.by = p.by /\ q.of = p.of
                 /\ q.is = "load" /\ q.stage = "done" => q = p \/ q.value.of \in Detail!Namesakes(q.of),
         \/ editingConfig' = editingConfig
         \/ editingConfig' \in NoText
         \/ editingConfig'.of \in Detail!Namesakes(selected)
  PROVE  TextIsOwn'
BY DEF TextIsOwn, NoText, Detail!Namesakes

LEMMA TextInitially == UiInit => TextIsOwn
BY DEF UiInit, Detail!Init, TextIsOwn, NoText

\* The user: at most one request is added.
LEMMA TextOfTheUser ==
  ASSUME TextIsOwn,
         \/ \E n \in Names : Detail!Rename(n)
         \/ Detail!Close \/ Detail!Toggle \/ Detail!LoadRawConfig \/ Detail!SaveConfig \/ Detail!Execute
         \/ Detail!CancelDialog \/ Detail!Confirm \/ Detail!Alert
         \/ \E kind \in {"delete", "revoke"} : Detail!AskTo(kind)
  PROVE  TextIsOwn'
<1> DEFINE Pressed == \/ entityAsked' = entityAsked
                      \/ \E is, value : entityAsked' = entityAsked \cup {Detail!Request(is, value)}
<1>1. ASSUME NEW is, NEW value
      PROVE  LET q == Detail!Request(is, value)
             IN q.by = opening /\ q.of = selected /\ q.stage = "sent"
  BY DEF Detail!Request
<1>2. opening' = opening /\ editingConfig' = editingConfig /\ selected' \in {selected, Nothing}
  BY DEF Detail!Rename, Detail!Close, Detail!Toggle, Detail!LoadRawConfig, Detail!SaveConfig,
     Detail!Execute, Detail!CancelDialog, Detail!Confirm, Detail!Alert, Detail!AskTo,
     Detail!Closes, Detail!buttons
<1>3. Pressed
  BY DEF Detail!Rename, Detail!Close, Detail!Toggle, Detail!LoadRawConfig, Detail!SaveConfig,
     Detail!Execute, Detail!CancelDialog, Detail!Confirm, Detail!Alert, Detail!AskTo, Detail!Press
<1>4. \A q \in entityAsked' :
         q \in entityAsked \/ (q.by = opening /\ q.of = selected /\ q.stage = "sent")
  BY <1>1, <1>3
<1>5. QED
  BY <1>2, <1>4, TextStays

\* The answers: the text of a request is taken by the opening that asked for it.
LEMMA TextOfAnswers ==
  ASSUME DetailInv, TextIsOwn, NEW r \in entityAsked,
         \/ Detail!Serve(r) \/ Detail!Renamed(r) \/ Detail!LoadCommands(r)
         \/ Detail!LoadConfiguredEntities(r) \/ Detail!Toggled(r) \/ Detail!RawConfigLoaded(r)
         \/ Detail!ConfigSaved(r) \/ Detail!Executed(r) \/ Detail!DialogAnswered(r)
  PROVE  TextIsOwn'
<1>1. EntityRequest(r) /\ Entries(entityFile)
  BY DEF DetailInv, DetailTyped
<1>2. CASE Detail!Serve(r)
  <2>a. PICK ok \in BOOLEAN, e \in Detail!Entities : \E q : Served(r, ok, e, q)
    BY <1>1, <1>2, ServedSomehow DEF Detail!Serve
  <2>1. PICK q : Served(r, ok, e, q)
    BY <2>a
  <2>2. /\ entityAsked' = (entityAsked \ {r}) \cup {q} /\ q.by = r.by /\ q.of = r.of
        /\ q.is = "load" /\ q.stage = "done" => q.value.of \in Detail!Namesakes(q.of)
    BY <2>1 DEF Served
  <2>3. opening' = opening /\ editingConfig' = editingConfig /\ selected' = selected
    BY <1>2 DEF Detail!Serve, Detail!buttons
  <2>4. QED
    BY <2>2, <2>3, TextStays
<1>3. CASE Detail!Renamed(r) \/ Detail!LoadCommands(r)
  <2>1. /\ opening' = opening /\ editingConfig' = editingConfig /\ selected' \in {selected, Nothing}
    BY <1>3 DEF Detail!Renamed, Detail!LoadCommands, Detail!Lists, Detail!buttons
  <2>2. ASSUME NEW is \in {"commands", "entities"}, NEW stage
        PROVE  LET q == [r EXCEPT !.is = is, !.stage = stage]
               IN q.by = r.by /\ q.of = r.of /\ q.is # "load"
    BY <1>1 DEF EntityRequest
  <2>3. CASE Detail!Renamed(r)
    <3>1. \/ entityAsked' = entityAsked \ {r}
          \/ entityAsked' = (entityAsked \ {r}) \cup {[r EXCEPT !.is = "commands", !.stage = "fetch"]}
      BY <2>3 DEF Detail!Renamed, Detail!Over
    <3>2. LET q == [r EXCEPT !.is = "commands", !.stage = "fetch"]
          IN q.by = r.by /\ q.of = r.of /\ q.is # "load"
      BY <2>2
    <3>3. \A q \in entityAsked' : q \in entityAsked \/ (q.by = r.by /\ q.of = r.of /\ q.is # "load")
      BY <3>1, <3>2
    <3>4. QED
      BY <2>1, <3>3, TextStays
  <2>4. CASE Detail!LoadCommands(r)
    <3>1. entityAsked' = (entityAsked \ {r}) \cup {[r EXCEPT !.is = "entities"]}
      BY <2>4 DEF Detail!LoadCommands
    <3>2. LET q == [r EXCEPT !.is = "entities"]
          IN q.by = r.by /\ q.of = r.of /\ q.is # "load"
      BY <1>1 DEF EntityRequest
    <3>3. \A q \in entityAsked' : q \in entityAsked \/ (q.by = r.by /\ q.of = r.of /\ q.is # "load")
      BY <3>1, <3>2
    <3>4. QED
      BY <2>1, <3>3, TextStays
  <2>5. QED
    BY <1>3, <2>3, <2>4
<1>4. CASE \/ Detail!LoadConfiguredEntities(r) \/ Detail!Toggled(r) \/ Detail!ConfigSaved(r)
           \/ Detail!Executed(r) \/ Detail!DialogAnswered(r)
  <2>1. opening' = opening /\ editingConfig' = editingConfig /\ entityAsked' = entityAsked \ {r}
    BY <1>4 DEF Detail!LoadConfiguredEntities, Detail!Toggled, Detail!ConfigSaved,
       Detail!Executed, Detail!DialogAnswered, Detail!Over, Detail!buttons
  <2>2. selected' \in {selected, Nothing}
    BY <1>4 DEF Detail!LoadConfiguredEntities, Detail!Toggled, Detail!ConfigSaved,
       Detail!Executed, Detail!DialogAnswered, Detail!Lists, Detail!Closes
  <2>3. QED
    BY <2>1, <2>2, TextStays
<1>5. CASE Detail!RawConfigLoaded(r)
  <2>1. /\ opening' = opening /\ selected' = selected /\ entityAsked' = entityAsked \ {r}
        /\ r.is = "load" /\ r.stage \in {"done", "refused"}
        /\ IF Detail!IsHere(r)
           THEN editingConfig' = IF r.stage = "done" THEN r.value ELSE Detail!NoText
           ELSE editingConfig' = editingConfig
    BY <1>5 DEF Detail!RawConfigLoaded, Detail!Answered, Detail!Over
  <2>2. Detail!IsHere(r) /\ r.stage = "done" => r.value.of \in Detail!Namesakes(selected)
    BY <2>1 DEF TextIsOwn, Detail!IsHere
  <2>3. \/ editingConfig' = editingConfig
        \/ editingConfig' \in NoText
        \/ editingConfig'.of \in Detail!Namesakes(selected)
    BY <2>1, <2>2 DEF NoText
  <2>4. QED
    BY <2>1, <2>3, TextStays
<1>6. QED
  BY <1>2, <1>3, <1>4, <1>5

LEMMA TextKept == DetailInv /\ TextIsOwn /\ Detail!Next => TextIsOwn'
<1> SUFFICES ASSUME DetailInv, TextIsOwn, Detail!Next PROVE TextIsOwn'
  OBVIOUS
<1>1. ASSUME NEW e \in Detail!Entities, Detail!Open(e) PROVE TextIsOwn'
  BY <1>1 DEF Detail!Open, Detail!FreshButtons, TextIsOwn, NoText
<1>2. CASE Detail!Reload
  BY <1>2 DEF Detail!Reload, Detail!Closes, TextIsOwn
<1>3. QED
  BY <1>1, <1>2, TextOfTheUser, TextOfAnswers DEF Detail!Next

\* Whatever its user asks for and in whichever order the answers come: when nothing
\* is on its way, the page of an entity is ready for the next action, the dialog is
\* closed or waits for its user alone, and the lists show what the server holds
\* (EntityDetail.svelte and App.svelte onUpdate), and at no time is a text edited that
\* is of another id, for any devices, automations and number of requests.
THEOREM EntityPageSettlesCorrect == UiSpec => []EntityPageSettles
<1>1. UiInit => DetailInv /\ TextIsOwn
  BY DetailInitially, TextInitially
<1>2. DetailInv /\ TextIsOwn /\ [UiNext]_uiVars => (DetailInv /\ TextIsOwn)'
  <2> SUFFICES ASSUME DetailInv, TextIsOwn, [UiNext]_uiVars PROVE (DetailInv /\ TextIsOwn)'
    OBVIOUS
  <2>1. Detail!Next \/ UNCHANGED detailVars
    BY DEF UiNext, uiVars, ViewStep, WizardStep, StoredStep, PageStep, SharingStep, ListedStep,
       DetailStep,
       RecordStep, BoardStep, PreviewStep
  <2>2. UNCHANGED detailVars => TextIsOwn'
    BY DEF TextIsOwn, NoText, detailVars
  <2>3. QED
    BY <2>1, <2>2, DetailKept, DetailAlike, TextKept
<1>3. DetailInv /\ TextIsOwn => EntityPageSettles
  BY DetailSettles DEF EntityPageSettles
<1>4. QED
  BY <1>1, <1>2, <1>3, PTL DEF UiSpec
-----------------------------------------------------------------------------
(* The settings.                                                            *)

\* Settings as the service writes them: nothing is left out but the locale.
Whole(f) == f = Stored!Given(f.editor, "unset", f.on) /\ f.editor # "unset" /\ f.on # "unset"
\* A request, and what the page shows when it fails.
IsPut(r)   == r = [stage |-> r.stage, next |-> r.next, previous |-> r.previous]
IsCache(r) == r = [stage |-> r.stage, on |-> r.on, read |-> r.read] /\ (r.stage # "none" => r.on # "unset")
Showing(p) == IF put[p] = Stored!NoPut THEN frontendSettings[p] ELSE put[p].previous

Settling(p) == cachePut[p].stage \in {"changed", "read", "writing"}
StoredTyped ==
  /\ settingsFile \in {Stored!Missing, Stored!Torn, Stored!Defaults} \/ Whole(settingsFile)
  /\ logRetention # "unset"
  /\ put = [p \in OpenPages |-> put[p]] /\ cachePut = [p \in OpenPages |-> cachePut[p]]
  /\ frontendSettings = [p \in OpenPages |-> frontendSettings[p]]
  /\ settingsLoading = [p \in OpenPages |-> settingsLoading[p]]
  /\ \A p \in OpenPages : /\ IsPut(put[p]) /\ IsCache(cachePut[p])
                          /\ put[p].stage = "writing" \/ Settling(p) => up
                          /\ cachePut[p].stage \in {"read", "writing"} => Whole(cachePut[p].read)
  /\ up => settingsFile # Stored!Missing
  /\ settingsFile \in {Stored!Missing, Stored!Defaults} => saver = [page |-> "unset", next |-> Stored!PageDefaults]
  /\ saver.page # "unset" => /\ saver.page \in OpenPages /\ ~settingsLoading[saver.page]
                             /\ Showing(saver.page).on # "unset"

Writes(p) == put[p].stage = "writing" \/ cachePut[p].stage = "writing"
NoneWrites == \A p \in OpenPages : ~Writes(p)
\* Two requests write, or one writes what another has ended.
Overlapping ==
  \/ \E p, q \in OpenPages : p # q /\ Writes(p) /\ Writes(q)
  \/ \E p \in OpenPages : put[p].stage = "writing" /\ cachePut[p].stage = "writing"
  \/ Stored!Readable /\ ~NoneWrites

\* It says what was saved last.
Says(f) == /\ saver.next.editor \in {"unset", f.editor}
           /\ saver.page # "unset" => Showing(saver.page) = [f EXCEPT !.on = Showing(saver.page).on]

FileIsRight ==
  /\ NoneWrites => settingsFile # Stored!Torn
  /\ up /\ Stored!Readable /\ (\A p \in OpenPages : ~Settling(p)) => settingsFile.on = logRetention
  /\ NoneWrites /\ Stored!Readable => Says(settingsFile)
  /\ \A p \in OpenPages : cachePut[p].stage = "writing" /\ ~Overlapping => Says(cachePut[p].read)

StoredInv == StoredTyped /\ (causes = {} => FileIsRight)

LEMMA WholeIsNormal ==
  ASSUME NEW f, Whole(f)
  PROVE  f \notin {Stored!Missing, Stored!Torn, Stored!Defaults} /\ Stored!Normalized(f) = f
BY DEF Whole, Stored!Missing, Stored!Torn, Stored!Defaults, Stored!Given, Stored!Normalized,
   Stored!Unset

LEMMA NormalIsWhole ==
  ASSUME NEW f
  PROVE  /\ Whole(Stored!Normalized(f)) /\ f.editor \in {"unset", Stored!Normalized(f).editor}
         /\ Stored!Normalized(f) = [Stored!Normalized(f) EXCEPT !.on = Stored!Normalized(f).on]
BY DEF Whole, Stored!Given, Stored!Normalized, Stored!Unset, Stored!Defaults

LEMMA WholeWith ==
  ASSUME NEW f, Whole(f), NEW on, on # "unset"
  PROVE  LET g == [f EXCEPT !.on = on]
         IN Whole(g) /\ g.editor = f.editor /\ g.on = on /\ \A x : [g EXCEPT !.on = x] = [f EXCEPT !.on = x]
<1> DEFINE g == [f EXCEPT !.on = on]
<1>1. f = [editor |-> f.editor, locale |-> "unset", on |-> f.on] /\ f.editor # "unset"
  BY DEF Whole, Stored!Given
<1>2. g = [editor |-> f.editor, locale |-> "unset", on |-> on]
  BY <1>1
<1>3. ASSUME NEW x PROVE [g EXCEPT !.on = x] = [f EXCEPT !.on = x]
  <2>1. PICK a, b : f = [editor |-> a, locale |-> "unset", on |-> b]
    BY <1>1
  <2>2. [f EXCEPT !.on = x] = [editor |-> a, locale |-> "unset", on |-> x] /\ f.editor = a
    BY <2>1
  <2>3. g = [editor |-> a, locale |-> "unset", on |-> on]
    BY <1>2, <2>2
  <2> HIDE DEF g
  <2>4. [g EXCEPT !.on = x] = [editor |-> a, locale |-> "unset", on |-> x]
    BY <2>3
  <2>5. QED
    BY <2>2, <2>4
<1> HIDE DEF g
<1>4. Whole(g) /\ g.editor = f.editor /\ g.on = on
  BY <1>1, <1>2 DEF Whole, Stored!Given
<1>5. QED
  BY <1>3, <1>4 DEF g

LEMMA StoredConstants ==
  /\ Stored!NoPut.stage = "none" /\ IsPut(Stored!NoPut)
  /\ Stored!NoCache.stage = "none" /\ IsCache(Stored!NoCache)
  /\ Stored!Missing # Stored!Torn /\ Stored!Defaults \notin {Stored!Missing, Stored!Torn}
  /\ Stored!Normalized(Stored!Defaults).on = Stored!Defaults.on /\ Stored!Defaults.on # "unset"
  /\ Stored!PageDefaults.editor = "unset" /\ Stored!Unset = "unset" /\ Stored!Unloaded.on = "unset"
<1>1. /\ Stored!NoPut.stage = "none" /\ IsPut(Stored!NoPut)
      /\ Stored!NoCache.stage = "none" /\ IsCache(Stored!NoCache)
  BY DEF Stored!NoPut, Stored!NoCache, IsPut, IsCache
<1>2. /\ Stored!Missing # Stored!Torn /\ Stored!Defaults \notin {Stored!Missing, Stored!Torn}
      /\ Stored!Normalized(Stored!Defaults).on = Stored!Defaults.on /\ Stored!Defaults.on # "unset"
      /\ Stored!PageDefaults.editor = "unset" /\ Stored!Unset = "unset"
      /\ Stored!Unloaded.on = "unset"
  BY DEF Stored!Missing, Stored!Torn, Stored!Defaults, Stored!PageDefaults, Stored!Given,
     Stored!Unset,
         Stored!Unloaded, Stored!Normalized
<1>3. QED
  BY <1>1, <1>2

LEMMA StoredSettles == StoredInv => Stored!SettingsAgree
<1> SUFFICES ASSUME StoredInv, Stored!AtRest, causes = {}
             PROVE  /\ Stored!Readable /\ Stored!Normalized(settingsFile).on = logRetention
                    /\ saver.next.editor \in {Stored!Unset, settingsFile.editor}
                    /\ saver.page # Stored!Unset =>
                         frontendSettings[saver.page] =
                           [settingsFile EXCEPT !.on = frontendSettings[saver.page].on]
  BY DEF Stored!SettingsAgree
<1>1. up /\ \A p \in OpenPages : /\ put[p] = Stored!NoPut /\ put[p].stage = "none"
                                 /\ cachePut[p].stage = "none"
  BY StoredConstants DEF Stored!AtRest
<1>2. NoneWrites /\ \A p \in OpenPages : ~Settling(p)
  BY <1>1 DEF NoneWrites, Writes, Settling
<1>3. Stored!Readable /\ Stored!Normalized(settingsFile).on = settingsFile.on
  BY <1>1, <1>2, WholeIsNormal, StoredConstants DEF StoredInv, StoredTyped, FileIsRight,
     Stored!Readable
<1>4. settingsFile.on = logRetention /\ Says(settingsFile)
  BY <1>1, <1>2, <1>3 DEF StoredInv, FileIsRight
<1>5. saver.page # "unset" => Showing(saver.page) = frontendSettings[saver.page]
  BY <1>1 DEF StoredInv, StoredTyped, Showing
<1>6. QED
  BY <1>3, <1>4, <1>5, StoredConstants DEF Says

LEMMA StoredInitially == UiInit => StoredInv
<1> SUFFICES ASSUME UiInit PROVE StoredInv
  OBVIOUS
<1>1. /\ settingsFile \in {Stored!Missing} \cup
            {Stored!Given(e, "unset", on) : e \in Editors, on \in {"on", "off"}}
      /\ up = FALSE /\ logRetention = "on"
      /\ frontendSettings = [p \in OpenPages |-> Stored!Unloaded]
      /\ settingsLoading = [p \in OpenPages |-> TRUE]
      /\ put = [p \in OpenPages |-> Stored!NoPut] /\ cachePut = [p \in OpenPages |-> Stored!NoCache]
      /\ saver = [page |-> "unset", next |-> Stored!PageDefaults] /\ causes = {}
  BY DEF UiInit, Stored!Init, Stored!Unset
<1>2. settingsFile = Stored!Missing \/ Whole(settingsFile)
  BY <1>1, UiAssumption DEF Whole, Stored!Given
<1>3. \A p \in OpenPages : put[p] = Stored!NoPut /\ cachePut[p] = Stored!NoCache
  BY <1>1
<1>4. /\ \A p \in OpenPages : /\ IsPut(put[p]) /\ IsCache(cachePut[p])
                              /\ put[p].stage = "none" /\ cachePut[p].stage = "none"
      /\ saver.next.editor = "unset" /\ saver.page = "unset"
  BY <1>1, <1>3, StoredConstants
<1>5. StoredTyped
  BY <1>1, <1>2, <1>4 DEF StoredTyped, Settling
<1>6. FileIsRight
  BY <1>1, <1>2, <1>4, WholeIsNormal, StoredConstants DEF FileIsRight, Says, Settling
<1>7. QED
  BY <1>5, <1>6 DEF StoredInv

LEMMA StoredAlike == StoredInv /\ UNCHANGED storedVars => StoredInv'
<1> SUFFICES ASSUME StoredInv, UNCHANGED storedVars PROVE StoredInv'
  OBVIOUS
<1>1. /\ UNCHANGED <<settingsFile, up, logRetention, frontendSettings, settingsLoading, put,
                     cachePut, saver,
                     causes>>
  BY DEF storedVars
<1>2. (\A p : Showing(p)' = Showing(p) /\ Settling(p)' = Settling(p) /\ Writes(p)' = Writes(p))
      /\ NoneWrites' = NoneWrites /\ Stored!Readable' = Stored!Readable
      /\ Overlapping' = Overlapping
  BY <1>1 DEF Showing, Settling, NoneWrites, Writes, Stored!Readable, Overlapping
<1>3. StoredTyped'
  BY <1>1, <1>2 DEF StoredInv, StoredTyped
<1>4. FileIsRight' = FileIsRight
  BY <1>1, <1>2 DEF FileIsRight, Says
<1>5. QED
  BY <1>1, <1>3, <1>4 DEF StoredInv

LEMMA PutMoves ==
  ASSUME NEW r, IsPut(r), NEW stage, stage # "none"
  PROVE  LET q == [r EXCEPT !.stage = stage]
         IN IsPut(q) /\ q.stage = stage /\ q.next = r.next /\ q.previous = r.previous /\ q # Stored!NoPut
BY DEF IsPut, Stored!NoPut

LEMMA CacheMoves ==
  ASSUME NEW r, IsCache(r), r.stage # "none", NEW stage
  PROVE  LET q == [r EXCEPT !.stage = stage]
         IN IsCache(q) /\ q.stage = stage /\ q.on = r.on /\ q.read = r.read /\ r.on # "unset"
<1>1. PICK a, b, c : r = [stage |-> a, on |-> b, read |-> c] /\ b # "unset"
  BY DEF IsCache
<1>2. [r EXCEPT !.stage = stage] = [stage |-> stage, on |-> b, read |-> c]
  BY <1>1
<1>3. QED
  BY <1>1, <1>2 DEF IsCache

\* The requests of one page change.
LEMMA OnePageMoves ==
  ASSUME StoredTyped, NEW p \in OpenPages, NEW q, NEW c, NEW f
  PROVE  LET puts == [put EXCEPT ![p] = q]
             caches == [cachePut EXCEPT ![p] = c]
             shows == [frontendSettings EXCEPT ![p] = f]
         IN /\ puts = [x \in OpenPages |-> puts[x]] /\ puts[p] = q
            /\ \A x \in OpenPages : x # p => puts[x] = put[x]
            /\ caches = [x \in OpenPages |-> caches[x]] /\ caches[p] = c
            /\ \A x \in OpenPages : x # p => caches[x] = cachePut[x]
            /\ shows = [x \in OpenPages |-> shows[x]] /\ shows[p] = f
            /\ \A x \in OpenPages : x # p => shows[x] = frontendSettings[x]
BY DEF StoredTyped

\* Neither the file nor what is written to it changes, nor what was saved.
LEMMA FileStays ==
  ASSUME StoredInv, UNCHANGED <<settingsFile, up, logRetention, saver, causes>>,
         \A x \in OpenPages : /\ put'[x].stage = "writing" <=> put[x].stage = "writing"
                              /\ cachePut'[x].stage = "writing" <=> cachePut[x].stage = "writing"
                              /\ cachePut[x].stage = "writing" => cachePut'[x] = cachePut[x]
                              /\ Settling(x) => Settling(x)',
         saver.page # "unset" => Showing(saver.page)' = Showing(saver.page)
  PROVE  causes' = {} => FileIsRight'
<1> SUFFICES ASSUME causes' = {} PROVE FileIsRight'
  OBVIOUS
<1>1. FileIsRight
  BY DEF StoredInv
<1>2. /\ NoneWrites' = NoneWrites /\ Overlapping' = Overlapping
      /\ Stored!Readable' = Stored!Readable
  BY DEF NoneWrites, Overlapping, Writes, Stored!Readable
<1>3. \A f : Says(f) => /\ saver'.next.editor \in {"unset", f.editor}
                        /\ saver'.page # "unset" =>
                             Showing(saver.page)' = [f EXCEPT !.on = Showing(saver.page)'.on]
  BY DEF Says
<1>4. NoneWrites' /\ Stored!Readable' => Says(settingsFile)'
  BY <1>1, <1>2, <1>3 DEF FileIsRight, Says
<1>5. \A x \in OpenPages : cachePut'[x].stage = "writing" /\ ~Overlapping' => Says(cachePut[x].read)'
  BY <1>1, <1>2, <1>3 DEF FileIsRight, Says
<1>6. QED
  BY <1>1, <1>2, <1>4, <1>5 DEF FileIsRight

\* The service starts and stops.
LEMMA StoredStarts ==
  ASSUME StoredInv, Stored!Start PROVE StoredInv'
<1>1. /\ ~up /\ up' = TRUE
      /\ settingsFile' = IF settingsFile = Stored!Missing THEN Stored!Defaults ELSE settingsFile
      /\ logRetention' = IF settingsFile \in {Stored!Missing, Stored!Torn} THEN Stored!Defaults.on
                         ELSE Stored!Normalized(settingsFile).on
      /\ UNCHANGED <<frontendSettings, settingsLoading, put, cachePut, saver, causes>>
  BY DEF Stored!Start, Stored!pageVars
<1>2. /\ \A p : Showing(p)' = Showing(p) /\ Settling(p)' = Settling(p) /\ Writes(p)' = Writes(p)
      /\ NoneWrites' = NoneWrites
  BY <1>1 DEF Showing, Settling, Writes, NoneWrites
<1>3. NoneWrites /\ \A p \in OpenPages : ~Settling(p) /\ ~Writes(p)
  BY <1>1 DEF StoredInv, StoredTyped, NoneWrites, Writes, Settling
<1>4. /\ settingsFile' \notin {Stored!Missing}
      /\ (settingsFile' = Stored!Torn <=> settingsFile = Stored!Torn)
      /\ logRetention' # "unset"
      /\ settingsFile' # Stored!Torn => logRetention' = settingsFile'.on
  <2>1. Whole(settingsFile) => /\ settingsFile \notin {Stored!Missing, Stored!Torn}
                               /\ Stored!Normalized(settingsFile) = settingsFile
                               /\ settingsFile.on # "unset"
    BY WholeIsNormal DEF Whole
  <2>2. QED
    BY <1>1, <2>1, StoredConstants DEF StoredInv, StoredTyped
<1>5. StoredTyped'
  BY <1>1, <1>2, <1>4 DEF StoredInv, StoredTyped
<1>6. ASSUME causes' = {} PROVE FileIsRight'
  <2>1. FileIsRight
    BY <1>1, <1>6 DEF StoredInv
  <2>2. Says(settingsFile)'
    <3>1. CASE settingsFile = Stored!Missing
      <4>1. saver = [page |-> "unset", next |-> Stored!PageDefaults]
        BY <3>1 DEF StoredInv, StoredTyped
      <4>2. saver.page = "unset" /\ saver.next.editor = "unset"
        BY <4>1, StoredConstants
      <4>3. QED
        BY <1>1, <4>2 DEF Says
    <3>2. CASE settingsFile # Stored!Missing
      <4>1. Stored!Readable /\ settingsFile' = settingsFile
        BY <1>1, <1>3, <2>1, <3>2 DEF FileIsRight, Stored!Readable
      <4>2. Says(settingsFile)
        BY <1>3, <2>1, <4>1 DEF FileIsRight
      <4>3. QED
        BY <1>1, <1>2, <4>1, <4>2 DEF Says
    <3>3. QED
      BY <3>1, <3>2
  <2>3. QED
    BY <1>1, <1>2, <1>3, <1>4, <2>1, <2>2 DEF FileIsRight, Stored!Readable, Writes
<1>7. QED
  BY <1>5, <1>6 DEF StoredInv

LEMMA StoredStops ==
  ASSUME StoredInv, Stored!Stop PROVE StoredInv'
<1>1. /\ up /\ up' = FALSE
      /\ frontendSettings' = [p \in OpenPages |-> IF put[p] = Stored!NoPut THEN frontendSettings[p]
                                                  ELSE put[p].previous]
      /\ put' = [p \in OpenPages |-> Stored!NoPut]
      /\ cachePut' = [p \in OpenPages |-> Stored!NoCache]
      /\ causes' = IF \A p \in OpenPages : put[p] = Stored!NoPut /\ cachePut[p] = Stored!NoCache THEN causes
                   ELSE causes \cup {"stop"}
      /\ UNCHANGED <<settingsFile, logRetention, settingsLoading, saver>>
  BY DEF Stored!Stop
<1>2. \A p \in OpenPages : /\ put'[p] = Stored!NoPut /\ cachePut'[p] = Stored!NoCache
                           /\ put'[p].stage = "none" /\ cachePut'[p].stage = "none"
                           /\ IsPut(put'[p]) /\ IsCache(cachePut'[p])
                           /\ Showing(p)' = Showing(p)
  BY <1>1, StoredConstants DEF Showing
<1>3. StoredTyped'
  <2>1. /\ put' = [p \in OpenPages |-> put'[p]] /\ cachePut' = [p \in OpenPages |-> cachePut'[p]]
        /\ frontendSettings' = [p \in OpenPages |-> frontendSettings'[p]]
    BY <1>1
  <2>2. QED
    BY <1>1, <1>2, <2>1 DEF StoredInv, StoredTyped, Settling
<1>4. ASSUME causes' = {} PROVE FileIsRight'
  <2>1. causes = {} /\ \A p \in OpenPages : put[p] = Stored!NoPut /\ cachePut[p] = Stored!NoCache
    BY <1>1, <1>4
  <2>2. FileIsRight /\ NoneWrites
    BY <2>1, StoredConstants DEF StoredInv, NoneWrites, Writes
  <2>3. Stored!Readable => Says(settingsFile)'
    BY <1>1, <1>2, <2>2 DEF FileIsRight, Says, StoredInv, StoredTyped
  <2>4. QED
    BY <1>1, <1>2, <2>2, <2>3 DEF FileIsRight, Stored!Readable, Writes
<1>5. QED
  BY <1>3, <1>4 DEF StoredInv

\* What a step of one page has to keep.
LEMMA OnePageTyped ==
  ASSUME StoredTyped, NEW p \in OpenPages, up' = up,
         put' = [x \in OpenPages |-> put'[x]], cachePut' = [x \in OpenPages |-> cachePut'[x]],
         frontendSettings' = [x \in OpenPages |-> frontendSettings'[x]],
         settingsLoading' = [x \in OpenPages |-> settingsLoading'[x]],
         \A x \in OpenPages : x # p => put'[x] = put[x] /\ cachePut'[x] = cachePut[x],
         IsPut(put'[p]), IsCache(cachePut'[p]),
         put'[p].stage = "writing" \/ cachePut'[p].stage \in {"changed", "read", "writing"} => up,
         cachePut'[p].stage \in {"read", "writing"} => Whole(cachePut'[p].read),
         logRetention' # "unset",
         \/ UNCHANGED <<settingsFile, saver>>
         \/ up /\ (settingsFile' = Stored!Torn \/ Whole(settingsFile')),
         saver'.page # "unset" => /\ saver'.page \in OpenPages /\ ~settingsLoading'[saver'.page]
                                  /\ Showing(saver.page)'.on # "unset"
  PROVE  StoredTyped'
<1>1. /\ settingsFile' \in {Stored!Missing, Stored!Torn, Stored!Defaults} \/ Whole(settingsFile')
      /\ up' => settingsFile' # Stored!Missing
      /\ settingsFile' \in {Stored!Missing, Stored!Defaults} =>
           saver' = [page |-> "unset", next |-> Stored!PageDefaults]
  BY WholeIsNormal, StoredConstants DEF StoredTyped
<1>2. \A x \in OpenPages : /\ IsPut(put'[x]) /\ IsCache(cachePut'[x])
                           /\ put'[x].stage = "writing" \/ Settling(x)' => up
                           /\ cachePut'[x].stage \in {"read", "writing"} => Whole(cachePut'[x].read)
  BY DEF StoredTyped, Settling
<1>3. QED
  BY <1>1, <1>2 DEF StoredTyped

\* The answer to a page that loads; what it saves is shown at once.
LEMMA StoredShown ==
  ASSUME StoredInv, NEW p \in OpenPages,
         \/ Stored!Loaded(p) \/ (\E next : Stored!Update(p, next)) \/ Stored!FailPut(p)
         \/ \E on \in {"on", "off"} : Stored!UpdateCache(p, on)
  PROVE  StoredInv'
<1>0. StoredTyped /\ IsPut(put[p]) /\ IsCache(cachePut[p])
  BY DEF StoredInv, StoredTyped
<1>1. CASE Stored!Loaded(p)
  <2>1. /\ settingsLoading[p] /\ settingsLoading' = [settingsLoading EXCEPT ![p] = FALSE]
        /\ \E f : frontendSettings' = [frontendSettings EXCEPT ![p] = f]
        /\ UNCHANGED <<settingsFile, up, logRetention, put, cachePut, saver, causes>>
    BY <1>1 DEF Stored!Loaded, Stored!serviceVars
  <2>2. /\ settingsLoading' = [x \in OpenPages |-> settingsLoading'[x]]
        /\ frontendSettings' = [x \in OpenPages |-> frontendSettings'[x]]
        /\ \A x \in OpenPages : x # p => /\ settingsLoading'[x] = settingsLoading[x]
                                         /\ frontendSettings'[x] = frontendSettings[x]
    BY <1>0, <2>1 DEF StoredTyped
  <2>3. /\ put' = [x \in OpenPages |-> put'[x]] /\ cachePut' = [x \in OpenPages |-> cachePut'[x]]
        /\ saver.page # "unset" => /\ saver.page # p /\ Showing(saver.page)' = Showing(saver.page)
                                   /\ Showing(saver.page).on # "unset"
    BY <1>0, <2>1, <2>2 DEF StoredTyped, Showing
  <2>4. StoredTyped'
    BY <1>0, <2>1, <2>2, <2>3 DEF StoredTyped, Settling
  <2>5. causes' = {} => FileIsRight'
    BY <2>1, <2>3, FileStays DEF Settling
  <2>6. QED
    BY <2>4, <2>5 DEF StoredInv
<1>2. ASSUME NEW next, Stored!Update(p, next) PROVE StoredInv'
  <2> DEFINE q == [stage |-> "sent", next |-> next,
                   previous |-> IF frontendSettings[p] = Stored!Unloaded THEN Stored!PageDefaults
                                ELSE frontendSettings[p]]
  <2>1. /\ put[p] = Stored!NoPut /\ put' = [put EXCEPT ![p] = q]
        /\ frontendSettings' = [frontendSettings EXCEPT ![p] = next]
        /\ UNCHANGED <<settingsFile, up, logRetention, settingsLoading, cachePut, saver, causes>>
    BY <1>2 DEF Stored!Update, Stored!serviceVars
  <2>2. /\ IsPut(q) /\ q.stage = "sent" /\ q # Stored!NoPut
        /\ frontendSettings[p] # Stored!Unloaded => q.previous = frontendSettings[p]
    BY StoredConstants DEF IsPut
  <2> HIDE DEF q
  <2>3. /\ put' = [x \in OpenPages |-> put'[x]] /\ put'[p] = q
        /\ \A x \in OpenPages : x # p => put'[x] = put[x] /\ frontendSettings'[x] = frontendSettings[x]
        /\ frontendSettings' = [x \in OpenPages |-> frontendSettings'[x]]
    BY <1>0, <2>1 DEF StoredTyped
  <2>4. saver.page # "unset" => /\ Showing(saver.page)' = Showing(saver.page)
                                /\ Showing(saver.page).on # "unset" /\ saver.page \in OpenPages
                                /\ ~settingsLoading[saver.page]
    BY <1>0, <2>1, <2>2, <2>3, StoredConstants DEF StoredTyped, Showing
  <2>5. StoredTyped'
    BY <1>0, <2>1, <2>2, <2>3, <2>4, OnePageTyped DEF StoredTyped, Settling
  <2>6. causes' = {} => FileIsRight'
    <3>1. \A x \in OpenPages : put'[x].stage = "writing" <=> put[x].stage = "writing"
      BY <2>1, <2>2, <2>3, StoredConstants
    <3>2. QED
      BY <2>1, <2>4, <3>1, FileStays DEF Settling
  <2>7. QED
    BY <2>5, <2>6 DEF StoredInv
<1>3. CASE Stored!FailPut(p)
  <2>1. /\ put[p] # Stored!NoPut /\ put' = [put EXCEPT ![p] = Stored!NoPut]
        /\ frontendSettings' = [frontendSettings EXCEPT ![p] = put[p].previous]
        /\ causes' = IF put[p].stage = "writing" THEN causes \cup {"failed"} ELSE causes
        /\ UNCHANGED <<settingsFile, up, logRetention, settingsLoading, cachePut, saver>>
    BY <1>3 DEF Stored!FailPut, Stored!serviceVars
  <2>2. /\ put' = [x \in OpenPages |-> put'[x]] /\ put'[p] = Stored!NoPut
        /\ \A x \in OpenPages : x # p => put'[x] = put[x] /\ frontendSettings'[x] = frontendSettings[x]
        /\ frontendSettings' = [x \in OpenPages |-> frontendSettings'[x]]
        /\ frontendSettings'[p] = put[p].previous
    BY <1>0, <2>1 DEF StoredTyped
  <2>3. saver.page # "unset" => /\ Showing(saver.page)' = Showing(saver.page)
                                /\ Showing(saver.page).on # "unset" /\ saver.page \in OpenPages
                                /\ ~settingsLoading[saver.page]
    BY <1>0, <2>1, <2>2 DEF StoredTyped, Showing
  <2>4. StoredTyped'
    BY <1>0, <2>1, <2>2, <2>3, OnePageTyped, StoredConstants DEF StoredTyped, Settling
  <2>5. causes' = {} => FileIsRight'
    <3>1. SUFFICES ASSUME causes' = {} PROVE FileIsRight'
      OBVIOUS
    <3>2. put[p].stage # "writing" /\ causes' = causes
      BY <2>1, <3>1
    <3>3. \A x \in OpenPages : put'[x].stage = "writing" <=> put[x].stage = "writing"
      BY <2>2, <3>2, StoredConstants
    <3>4. QED
      BY <2>1, <2>3, <3>1, <3>2, <3>3, FileStays DEF Settling
  <2>6. QED
    BY <2>4, <2>5 DEF StoredInv
<1>4. ASSUME NEW on \in {"on", "off"}, Stored!UpdateCache(p, on) PROVE StoredInv'
  <2> DEFINE c == [Stored!NoCache EXCEPT !.stage = "sent", !.on = on]
  <2>1. /\ cachePut[p] = Stored!NoCache /\ cachePut' = [cachePut EXCEPT ![p] = c]
        /\ UNCHANGED <<settingsFile, up, logRetention, settingsLoading, frontendSettings, put,
                       saver, causes>>
    BY <1>4 DEF Stored!UpdateCache, Stored!serviceVars, Stored!pageVars
  <2>2. IsCache(c) /\ c.stage = "sent"
    <3>1. Stored!NoCache \in [stage : {"none"}, on : {Stored!Unset}, read : {Stored!Unloaded}]
      BY DEF Stored!NoCache
    <3>2. c \in [stage : {"sent"}, on : {"on", "off"}, read : {Stored!Unloaded}]
      BY <3>1
    <3> HIDE DEF c
    <3>3. QED
      BY <3>2 DEF IsCache
  <2> HIDE DEF c
  <2>3. /\ cachePut' = [x \in OpenPages |-> cachePut'[x]] /\ cachePut'[p] = c
        /\ \A x \in OpenPages : x # p => cachePut'[x] = cachePut[x]
    BY <1>0, <2>1 DEF StoredTyped
  <2>4. saver.page # "unset" => /\ Showing(saver.page)' = Showing(saver.page)
                                /\ Showing(saver.page).on # "unset" /\ saver.page \in OpenPages
                                /\ ~settingsLoading[saver.page]
    BY <1>0, <2>1 DEF StoredTyped, Showing
  <2>5. StoredTyped'
    BY <1>0, <2>1, <2>2, <2>3, <2>4, OnePageTyped DEF StoredTyped, Settling
  <2>6. causes' = {} => FileIsRight'
    <3>1. \A x \in OpenPages : /\ cachePut'[x].stage = "writing" <=> cachePut[x].stage = "writing"
                               /\ cachePut[x].stage = "writing" => cachePut'[x] = cachePut[x]
                               /\ Settling(x) => Settling(x)'
      BY <2>1, <2>2, <2>3, StoredConstants DEF Settling
    <3>2. QED
      BY <2>1, <2>4, <3>1, FileStays
  <2>7. QED
    BY <2>5, <2>6 DEF StoredInv
<1>5. QED
  BY <1>1, <1>2, <1>3, <1>4

\* PUT /api/frontend-settings.
LEMMA StoredPut ==
  ASSUME StoredInv, NEW p \in OpenPages, Stored!BeginPut(p) \/ Stored!EndPut(p)
  PROVE  StoredInv'
<1>0. StoredTyped /\ IsPut(put[p]) /\ IsCache(cachePut[p])
  BY DEF StoredInv, StoredTyped
<1>1. CASE Stored!BeginPut(p)
  <2> DEFINE q == [put[p] EXCEPT !.stage = "writing"]
  <2>1. /\ up /\ put[p].stage = "sent" /\ put' = [put EXCEPT ![p] = q]
        /\ settingsFile' = Stored!Torn
        /\ UNCHANGED <<up, logRetention, frontendSettings, settingsLoading, cachePut, saver,
                       causes>>
    BY <1>1 DEF Stored!BeginPut, Stored!pageVars
  <2>2. IsPut(q) /\ q.stage = "writing" /\ q.previous = put[p].previous /\ q # Stored!NoPut
    BY <1>0, PutMoves
  <2> HIDE DEF q
  <2>3. /\ put' = [x \in OpenPages |-> put'[x]] /\ put'[p] = q
        /\ \A x \in OpenPages : x # p => put'[x] = put[x]
    BY <1>0, <2>1 DEF StoredTyped
  <2>4. saver.page # "unset" => /\ Showing(saver.page)' = Showing(saver.page)
                                /\ Showing(saver.page).on # "unset" /\ saver.page \in OpenPages
                                /\ ~settingsLoading[saver.page]
    BY <1>0, <2>1, <2>2, <2>3, StoredConstants DEF StoredTyped, Showing
  <2>5. StoredTyped'
    BY <1>0, <2>1, <2>2, <2>3, <2>4, OnePageTyped DEF StoredTyped, Settling
  <2>6. ASSUME causes' = {} PROVE FileIsRight'
    <3>1. ~NoneWrites' /\ ~Stored!Readable'
      BY <2>1, <2>2, <2>3 DEF NoneWrites, Writes, Stored!Readable
    <3>2. ASSUME NEW x \in OpenPages, cachePut'[x].stage = "writing" PROVE Overlapping'
      <4>1. Writes(x)' /\ Writes(p)' /\ put'[p].stage = "writing"
        BY <2>2, <2>3, <3>2 DEF Writes
      <4>2. QED
        BY <3>2, <4>1 DEF Overlapping
    <3>3. QED
      BY <3>1, <3>2 DEF FileIsRight
  <2>7. QED
    BY <2>5, <2>6 DEF StoredInv
<1>2. CASE Stored!EndPut(p)
  <2> DEFINE payload == Stored!Normalized(put[p].next)
  <2>1. /\ put[p].stage = "writing" /\ put' = [put EXCEPT ![p] = Stored!NoPut]
        /\ settingsFile' \in Stored!Overwritten(payload)
        /\ frontendSettings' = [frontendSettings EXCEPT ![p] = payload]
        /\ saver' = [page |-> IF settingsLoading[p] THEN Stored!Unset ELSE p, next |-> put[p].next]
        /\ causes' = Stored!Causes(payload)
        /\ UNCHANGED <<up, logRetention, settingsLoading, cachePut>>
    BY <1>2 DEF Stored!EndPut
  <2>2. /\ put' = [x \in OpenPages |-> put'[x]] /\ put'[p] = Stored!NoPut
        /\ \A x \in OpenPages : x # p => put'[x] = put[x] /\ frontendSettings'[x] = frontendSettings[x]
        /\ frontendSettings' = [x \in OpenPages |-> frontendSettings'[x]]
        /\ frontendSettings'[p] = payload
    BY <1>0, <2>1 DEF StoredTyped
  <2>3. /\ Whole(payload) /\ put[p].next.editor \in {"unset", payload.editor}
        /\ payload = [payload EXCEPT !.on = payload.on] /\ payload.on # "unset"
    BY NormalIsWhole DEF Whole
  <2> HIDE DEF payload
  <2>4. /\ up /\ (settingsFile' = Stored!Torn \/ settingsFile' = payload)
        /\ causes' = {} => /\ causes = {} /\ ~Stored!Readable /\ payload.on = logRetention
                           /\ settingsFile' = payload
    BY <1>0, <2>1 DEF Stored!Overwritten, Stored!Causes, StoredTyped
  <2>5. /\ saver'.next = put[p].next
        /\ saver'.page # "unset" => /\ saver'.page = p /\ ~settingsLoading[p]
                                    /\ Showing(saver.page)' = payload
    BY <2>1, <2>2, StoredConstants DEF Showing
  <2>6. StoredTyped'
    BY <1>0, <2>1, <2>2, <2>3, <2>4, <2>5, OnePageTyped, StoredConstants DEF StoredTyped, Settling
  <2>7. ASSUME causes' = {} PROVE FileIsRight'
    <3>1. /\ settingsFile' = payload /\ payload.on = logRetention' /\ Stored!Readable'
      BY <2>1, <2>3, <2>4, <2>7, WholeIsNormal DEF Stored!Readable
    <3>2. Says(settingsFile)'
      BY <2>3, <2>5, <3>1 DEF Says
    <3>3. ASSUME NEW x \in OpenPages, cachePut'[x].stage = "writing" PROVE Overlapping'
      BY <3>1, <3>3 DEF Overlapping, NoneWrites, Writes
    <3>4. settingsFile' # Stored!Torn
      BY <3>1 DEF Stored!Readable
    <3>5. QED
      BY <3>1, <3>2, <3>3, <3>4 DEF FileIsRight
  <2>8. QED
    BY <2>6, <2>7 DEF StoredInv
<1>3. QED
  BY <1>1, <1>2

\* PUT /api/logs/cache/settings, up to the file.
LEMMA StoredCacheChanged ==
  ASSUME StoredInv, NEW p \in OpenPages,
         Stored!ChangeCache(p) \/ Stored!ReadForCache(p) \/ Stored!FailCache(p)
  PROVE  StoredInv'
<1>0. StoredTyped /\ IsPut(put[p]) /\ IsCache(cachePut[p])
  BY DEF StoredInv, StoredTyped
<1>1. CASE Stored!ChangeCache(p)
  <2> DEFINE c == [cachePut[p] EXCEPT !.stage = "changed"]
  <2>1. /\ up /\ cachePut[p].stage = "sent" /\ cachePut' = [cachePut EXCEPT ![p] = c]
        /\ logRetention' = cachePut[p].on
        /\ UNCHANGED <<settingsFile, up, frontendSettings, settingsLoading, put, saver, causes>>
    BY <1>1 DEF Stored!ChangeCache, Stored!pageVars
  <2>2. IsCache(c) /\ c.stage = "changed" /\ cachePut[p].on # "unset"
    BY <1>0, <2>1, CacheMoves
  <2> HIDE DEF c
  <2>3. /\ cachePut' = [x \in OpenPages |-> cachePut'[x]] /\ cachePut'[p] = c
        /\ \A x \in OpenPages : x # p => cachePut'[x] = cachePut[x]
    BY <1>0, <2>1 DEF StoredTyped
  <2>4. saver.page # "unset" => /\ Showing(saver.page)' = Showing(saver.page)
                                /\ Showing(saver.page).on # "unset" /\ saver.page \in OpenPages
                                /\ ~settingsLoading[saver.page]
    BY <1>0, <2>1 DEF StoredTyped, Showing
  <2>5. StoredTyped'
    BY <1>0, <2>1, <2>2, <2>3, <2>4, OnePageTyped DEF StoredTyped, Settling
  <2>6. ASSUME causes' = {} PROVE FileIsRight'
    <3>1. FileIsRight /\ Settling(p)'
      BY <2>1, <2>2, <2>3, <2>6 DEF StoredInv, Settling
    <3>2. \A x \in OpenPages : /\ cachePut'[x].stage = "writing" <=> cachePut[x].stage = "writing"
                               /\ cachePut[x].stage = "writing" => cachePut'[x] = cachePut[x]
      BY <2>1, <2>2, <2>3
    <3>3. /\ NoneWrites' = NoneWrites /\ Overlapping' = Overlapping
          /\ Stored!Readable' = Stored!Readable
      BY <2>1, <3>2 DEF NoneWrites, Overlapping, Writes, Stored!Readable
    <3>4. \A f : Says(f) => /\ saver'.next.editor \in {"unset", f.editor}
                            /\ saver'.page # "unset" =>
                                 Showing(saver.page)' = [f EXCEPT !.on = Showing(saver.page)'.on]
      BY <2>1, <2>4 DEF Says
    <3>5. NoneWrites' /\ Stored!Readable' => Says(settingsFile)'
      BY <2>1, <3>1, <3>3, <3>4 DEF FileIsRight, Says
    <3>6. ASSUME NEW x \in OpenPages, cachePut'[x].stage = "writing", ~Overlapping'
          PROVE  Says(cachePut[x].read)'
      <4>1. Says(cachePut[x].read) /\ cachePut'[x] = cachePut[x]
        BY <3>1, <3>2, <3>3, <3>6 DEF FileIsRight
      <4>2. QED
        BY <2>1, <3>4, <4>1 DEF Says
    <3>7. QED
      BY <2>1, <3>1, <3>3, <3>5, <3>6 DEF FileIsRight
  <2>7. QED
    BY <2>5, <2>6 DEF StoredInv
<1>2. CASE Stored!ReadForCache(p)
  <2> DEFINE c == [cachePut[p] EXCEPT !.stage = "read", !.read = Stored!Normalized(settingsFile),
                                      !.on = logRetention]
  <2>1. /\ cachePut[p].stage = "changed" /\ cachePut' = [cachePut EXCEPT ![p] = c]
        /\ UNCHANGED <<settingsFile, up, logRetention, frontendSettings, settingsLoading, put,
                       saver, causes>>
    BY <1>2 DEF Stored!ReadForCache, Stored!serviceVars, Stored!pageVars
  <2>2. IsCache(c) /\ c.stage = "read" /\ Whole(c.read)
    <3>1. logRetention # "unset" /\ Whole(Stored!Normalized(settingsFile))
      BY <1>0, NormalIsWhole DEF StoredTyped
    <3> DEFINE read == Stored!Normalized(settingsFile)
    <3> HIDE DEF read
    <3>2. cachePut[p] \in [stage : {cachePut[p].stage}, on : {cachePut[p].on}, read : {cachePut[p].read}]
      BY <1>0 DEF IsCache
    <3>3. [cachePut[p] EXCEPT !.stage = "read", !.read = read, !.on = logRetention]
            \in [stage : {"read"}, on : {logRetention}, read : {read}]
      BY <3>2
    <3>4. c \in [stage : {"read"}, on : {logRetention}, read : {read}]
      BY <3>3 DEF read
    <3> HIDE DEF c
    <3>5. QED
      BY <3>1, <3>4 DEF read, IsCache
  <2> HIDE DEF c
  <2>3. /\ cachePut' = [x \in OpenPages |-> cachePut'[x]] /\ cachePut'[p] = c
        /\ \A x \in OpenPages : x # p => cachePut'[x] = cachePut[x]
    BY <1>0, <2>1 DEF StoredTyped
  <2>4. saver.page # "unset" => /\ Showing(saver.page)' = Showing(saver.page)
                                /\ Showing(saver.page).on # "unset" /\ saver.page \in OpenPages
                                /\ ~settingsLoading[saver.page]
    BY <1>0, <2>1 DEF StoredTyped, Showing
  <2>5. StoredTyped'
    BY <1>0, <2>1, <2>2, <2>3, <2>4, OnePageTyped DEF StoredTyped, Settling
  <2>6. causes' = {} => FileIsRight'
    <3>1. \A x \in OpenPages : /\ cachePut'[x].stage = "writing" <=> cachePut[x].stage = "writing"
                               /\ cachePut[x].stage = "writing" => cachePut'[x] = cachePut[x]
                               /\ Settling(x) => Settling(x)'
      BY <2>1, <2>2, <2>3 DEF Settling
    <3>2. QED
      BY <2>1, <2>4, <3>1, FileStays
  <2>7. QED
    BY <2>5, <2>6 DEF StoredInv
<1>3. CASE Stored!FailCache(p)
  <2>1. /\ cachePut' = [cachePut EXCEPT ![p] = Stored!NoCache]
        /\ causes' = IF cachePut[p].stage = "sent" THEN causes ELSE causes \cup {"failed"}
        /\ UNCHANGED <<settingsFile, up, logRetention, frontendSettings, settingsLoading, put,
                       saver>>
    BY <1>3 DEF Stored!FailCache, Stored!serviceVars, Stored!pageVars
  <2>2. /\ cachePut' = [x \in OpenPages |-> cachePut'[x]] /\ cachePut'[p] = Stored!NoCache
        /\ \A x \in OpenPages : x # p => cachePut'[x] = cachePut[x]
    BY <1>0, <2>1 DEF StoredTyped
  <2>3. saver.page # "unset" => /\ Showing(saver.page)' = Showing(saver.page)
                                /\ Showing(saver.page).on # "unset" /\ saver.page \in OpenPages
                                /\ ~settingsLoading[saver.page]
    BY <1>0, <2>1 DEF StoredTyped, Showing
  <2>4. StoredTyped'
    BY <1>0, <2>1, <2>2, <2>3, OnePageTyped, StoredConstants DEF StoredTyped, Settling
  <2>5. ASSUME causes' = {} PROVE FileIsRight'
    <3>1. cachePut[p].stage = "sent" /\ causes' = causes
      BY <2>1, <2>5
    <3>2. \A x \in OpenPages : /\ cachePut'[x].stage = "writing" <=> cachePut[x].stage = "writing"
                               /\ cachePut[x].stage = "writing" => cachePut'[x] = cachePut[x]
                               /\ Settling(x) => Settling(x)'
      BY <2>2, <3>1, StoredConstants DEF Settling
    <3>3. QED
      BY <2>1, <2>3, <2>5, <3>1, <3>2, FileStays
  <2>6. QED
    BY <2>4, <2>5 DEF StoredInv
<1>4. QED
  BY <1>1, <1>2, <1>3

LEMMA StoredCacheWritten ==
  ASSUME StoredInv, NEW p \in OpenPages, Stored!BeginCache(p) \/ Stored!EndCache(p)
  PROVE  StoredInv'
<1>0. StoredTyped /\ IsPut(put[p]) /\ IsCache(cachePut[p])
  BY DEF StoredInv, StoredTyped
<1>1. CASE Stored!BeginCache(p)
  <2> DEFINE c == [cachePut[p] EXCEPT !.stage = "writing"]
  <2>1. /\ cachePut[p].stage = "read" /\ cachePut' = [cachePut EXCEPT ![p] = c]
        /\ settingsFile' = Stored!Torn
        /\ causes' = IF Stored!Readable /\ Stored!Normalized(settingsFile) = cachePut[p].read THEN causes
                     ELSE causes \cup {"overlap"}
        /\ UNCHANGED <<up, logRetention, frontendSettings, settingsLoading, put, saver>>
    BY <1>1 DEF Stored!BeginCache, Stored!pageVars
  <2>2. IsCache(c) /\ c.stage = "writing" /\ c.read = cachePut[p].read /\ Whole(c.read) /\ up
    <3>1. IsCache(c) /\ c.stage = "writing" /\ c.read = cachePut[p].read
      BY <1>0, <2>1, CacheMoves
    <3> HIDE DEF c
    <3>2. QED
      BY <1>0, <2>1, <3>1 DEF StoredTyped, Settling
  <2> HIDE DEF c
  <2>3. /\ cachePut' = [x \in OpenPages |-> cachePut'[x]] /\ cachePut'[p] = c
        /\ \A x \in OpenPages : x # p => cachePut'[x] = cachePut[x]
    BY <1>0, <2>1 DEF StoredTyped
  <2>4. saver.page # "unset" => /\ Showing(saver.page)' = Showing(saver.page)
                                /\ Showing(saver.page).on # "unset" /\ saver.page \in OpenPages
                                /\ ~settingsLoading[saver.page]
    BY <1>0, <2>1 DEF StoredTyped, Showing
  <2>5. StoredTyped'
    BY <1>0, <2>1, <2>2, <2>3, <2>4, OnePageTyped DEF StoredTyped, Settling
  <2>6. ASSUME causes' = {} PROVE FileIsRight'
    <3>1. causes = {} /\ Stored!Readable /\ Stored!Normalized(settingsFile) = cachePut[p].read
      BY <2>1, <2>6
    <3>2. ~NoneWrites' /\ ~Stored!Readable' /\ Writes(p)'
      BY <2>1, <2>2, <2>3 DEF NoneWrites, Writes, Stored!Readable
    <3>3. ASSUME NEW x \in OpenPages, cachePut'[x].stage = "writing", ~Overlapping'
          PROVE  Says(cachePut[x].read)'
      <4>1. x = p /\ NoneWrites
        <5>1. x = p
          BY <3>2, <3>3 DEF Overlapping, Writes
        <5>2. \A y \in OpenPages : y # p => ~Writes(y)'
          BY <3>2, <3>3 DEF Overlapping
        <5>3. put'[p].stage # "writing"
          BY <3>3, <5>1 DEF Overlapping
        <5>4. \A y \in OpenPages : ~Writes(y)
          BY <2>1, <2>3, <5>2, <5>3 DEF Writes
        <5>5. QED
          BY <5>1, <5>4 DEF NoneWrites
      <4>2. Says(settingsFile)
        BY <3>1, <4>1 DEF StoredInv, FileIsRight
      <4>3. Says(cachePut[p].read)
        <5>1. CASE settingsFile = Stored!Defaults
          <6>1. saver = [page |-> "unset", next |-> Stored!PageDefaults]
            BY <1>0, <5>1 DEF StoredTyped
          <6>2. saver.page = "unset" /\ saver.next.editor = "unset"
            BY <6>1, StoredConstants
          <6>3. QED
            BY <6>2 DEF Says
        <5>2. CASE settingsFile # Stored!Defaults
          <6>1. Stored!Normalized(settingsFile) = settingsFile
            BY <1>0, <3>1, <5>2, WholeIsNormal DEF StoredTyped, Stored!Readable
          <6>2. QED
            BY <3>1, <4>2, <6>1
        <5>3. QED
          BY <5>1, <5>2
      <4>4. cachePut'[x].read = cachePut[p].read
        BY <2>2, <2>3, <4>1
      <4>5. QED
        BY <2>1, <2>4, <4>3, <4>4 DEF Says
    <3>4. QED
      BY <3>2, <3>3 DEF FileIsRight
  <2>7. QED
    BY <2>5, <2>6 DEF StoredInv
<1>2. CASE Stored!EndCache(p)
  <2> DEFINE payload == [cachePut[p].read EXCEPT !.on = cachePut[p].on]
  <2>1. /\ cachePut[p].stage = "writing" /\ cachePut' = [cachePut EXCEPT ![p] = Stored!NoCache]
        /\ settingsFile' \in Stored!Overwritten(payload) /\ causes' = Stored!Causes(payload)
        /\ UNCHANGED <<up, logRetention, frontendSettings, settingsLoading, put, saver>>
    BY <1>2 DEF Stored!EndCache, Stored!pageVars
  <2>2. /\ cachePut' = [x \in OpenPages |-> cachePut'[x]] /\ cachePut'[p] = Stored!NoCache
        /\ \A x \in OpenPages : x # p => cachePut'[x] = cachePut[x]
    BY <1>0, <2>1 DEF StoredTyped
  <2>3. /\ Whole(payload) /\ payload.on # "unset" /\ payload.editor = cachePut[p].read.editor
        /\ \A x : [payload EXCEPT !.on = x] = [cachePut[p].read EXCEPT !.on = x]
    <3>1. Whole(cachePut[p].read) /\ cachePut[p].on # "unset"
      BY <1>0, <2>1 DEF StoredTyped, IsCache
    <3>2. QED
      BY <3>1, WholeWith
  <2> HIDE DEF payload
  <2>4. /\ up /\ (settingsFile' = Stored!Torn \/ settingsFile' = payload)
        /\ causes' = {} => /\ causes = {} /\ ~Stored!Readable /\ payload.on = logRetention
                           /\ settingsFile' = payload
    BY <1>0, <2>1 DEF Stored!Overwritten, Stored!Causes, StoredTyped, Settling
  <2>5. saver.page # "unset" => /\ Showing(saver.page)' = Showing(saver.page)
                                /\ Showing(saver.page).on # "unset" /\ saver.page \in OpenPages
                                /\ ~settingsLoading[saver.page]
    BY <1>0, <2>1 DEF StoredTyped, Showing
  <2>6. StoredTyped'
    BY <1>0, <2>1, <2>2, <2>3, <2>4, <2>5, OnePageTyped, StoredConstants DEF StoredTyped, Settling
  <2>7. ASSUME causes' = {} PROVE FileIsRight'
    <3>1. /\ settingsFile' = payload /\ payload.on = logRetention' /\ Stored!Readable'
      BY <2>1, <2>3, <2>4, <2>7, WholeIsNormal DEF Stored!Readable
    <3>2. ASSUME NoneWrites' PROVE Says(settingsFile)'
      <4>1. ~Overlapping
        <5>1. \A x \in OpenPages : x # p => ~Writes(x)
          BY <2>1, <2>2, <3>2 DEF NoneWrites, Writes
        <5>2. put[p].stage # "writing"
          BY <2>1, <3>2 DEF NoneWrites, Writes
        <5>3. QED
          BY <2>4, <2>7, <5>1, <5>2 DEF Overlapping, Writes
      <4>2. Says(cachePut[p].read)
        BY <2>1, <2>4, <2>7, <4>1 DEF StoredInv, FileIsRight
      <4>3. QED
        BY <2>1, <2>3, <2>5, <3>1, <4>2 DEF Says
    <3>3. ASSUME NEW x \in OpenPages, cachePut'[x].stage = "writing" PROVE Overlapping'
      BY <3>1, <3>3 DEF Overlapping, NoneWrites, Writes
    <3>4. settingsFile' # Stored!Torn
      BY <3>1 DEF Stored!Readable
    <3>5. QED
      BY <3>1, <3>2, <3>3, <3>4 DEF FileIsRight
  <2>8. QED
    BY <2>6, <2>7 DEF StoredInv
<1>3. QED
  BY <1>1, <1>2

LEMMA StoredKept == StoredInv /\ Stored!Next => StoredInv'
<1> SUFFICES ASSUME StoredInv, Stored!Next PROVE StoredInv'
  OBVIOUS
<1>1. CASE Stored!Start \/ Stored!Stop
  BY <1>1, StoredStarts, StoredStops
<1>2. ASSUME NEW p \in OpenPages,
             \/ Stored!Loaded(p) \/ Stored!UpdateEditor(p) \/ Stored!UpdateLocale(p)
             \/ \E on \in {"on", "off"} : Stored!UpdateCache(p, on)
             \/ Stored!BeginPut(p) \/ Stored!EndPut(p) \/ Stored!FailPut(p)
             \/ Stored!ChangeCache(p) \/ Stored!ReadForCache(p) \/ Stored!BeginCache(p) \/ Stored!EndCache(p)
             \/ Stored!FailCache(p)
      PROVE  StoredInv'
  <2>1. Stored!UpdateEditor(p) \/ Stored!UpdateLocale(p) => \E next : Stored!Update(p, next)
    BY DEF Stored!UpdateEditor, Stored!UpdateLocale
  <2>2. QED
    BY <1>2, <2>1, StoredShown, StoredPut, StoredCacheChanged, StoredCacheWritten
<1>3. QED
  BY <1>1, <1>2 DEF Stored!Next

\* However many pages are open and in whichever order their requests are served:
\* when nothing is on its way and no write was overtaken by another, the settings on
\* every page, those on file and those the service works by are the same
\* (frontend-settings.service.ts, system.routes.ts, logs.routes.ts, App.svelte).
THEOREM SettingsAgreeCorrect == UiSpec => []SettingsAgree
<1>1. UiInit => StoredInv
  BY StoredInitially
<1>2. StoredInv /\ [UiNext]_uiVars => StoredInv'
  <2> SUFFICES ASSUME StoredInv, [UiNext]_uiVars PROVE StoredInv'
    OBVIOUS
  <2>1. Stored!Next \/ UNCHANGED storedVars
    BY DEF UiNext, uiVars, ViewStep, WizardStep, StoredStep, PageStep, SharingStep, ListedStep,
       DetailStep,
       RecordStep, BoardStep, PreviewStep
  <2>2. QED
    BY <2>1, StoredKept, StoredAlike
<1>3. StoredInv => SettingsAgree
  BY StoredSettles DEF SettingsAgree
<1>4. QED
  BY <1>1, <1>2, <1>3, PTL DEF UiSpec
-----------------------------------------------------------------------------
(* The set-up wizard.                                                       *)

\* The ticks are of entities of the example e; nothing is ticked before a list of
\* them has come.
TicksOf(e, ticked) ==
  ticked = <<>> \/ /\ DOMAIN ticked = DOMAIN ExampleEntities[e]
                   /\ \A t \in DOMAIN ticked : ticked[t] \subseteq ExampleEntities[e][t]

\* What a request asks for is what was shown when it was sent.
WasShown(r) ==
  /\ ~r.late => r.defaults \in {r.form.example, "default"}
  /\ ~r.unlike => TicksOf(r.form.example, r.ticked)

Untouched ==
  /\ currentStep = "config" /\ submitting = {} /\ checks = {} /\ test = Wizard!NoTest
  /\ exampleRequests = {} /\ entityRequests = <<>> /\ ~consentSubmitting
  /\ selectedEntities = <<>> /\ ~unlike

\* The file was made of a request, for a form that was not refused.
MadeOf(w) ==
  /\ WasShown(w) /\ w.form.example # Wizard!NoExample
  /\ w.form.example # Empty => w.entities = Wizard!Filtered(w.form.example, w.ticked)
  /\ mode = "add" /\ w.form.example # Empty => ~Wizard!Duplicate(w.form)

IsForm(f) == f = [example |-> f.example, path |-> f.path, port |-> f.port, serial |-> f.serial]

WizardInv ==
  /\ IsForm(form)
  /\ loading => Untouched
  /\ ~late /\ exampleRequests = {} => packetDefaults \in {form.example, "default"}
  /\ ~unlike /\ (currentStep \in {"entity_selection", "consent"} \/ submitting # {}) =>
       \/ selectedEntities = <<>>
       \/ entities = form.example /\ TicksOf(form.example, selectedEntities)
  /\ \A r \in submitting : WasShown(r)
  /\ \A w \in written : MadeOf(w)
  /\ checked # Wizard!NoForm => ~Wizard!Duplicate(checked)

\* Of an example, what is sent of the entities is what is ticked, or all there is.
LEMMA FilteredIsTicked ==
  ASSUME NEW e, NEW ticked, TicksOf(e, ticked), NEW t \in DOMAIN ExampleEntities[e]
  PROVE  (IF t \in DOMAIN Wizard!Filtered(e, ticked) THEN Wizard!Filtered(e, ticked)[t] ELSE {})
            = IF ticked = <<>> THEN ExampleEntities[e][t] ELSE ticked[t]
<1> DEFINE kept == [u \in DOMAIN ExampleEntities[e] |->
                      IF u \in DOMAIN ticked THEN ExampleEntities[e][u] \cap ticked[u]
                      ELSE ExampleEntities[e][u]]
           sends == [u \in {v \in DOMAIN kept : kept[v] # {}} |-> kept[u]]
<1>1. Wizard!Filtered(e, ticked) = sends
  BY DEF Wizard!Filtered
<1>2. kept[t] = IF ticked = <<>> THEN ExampleEntities[e][t] ELSE ticked[t]
  <2>1. CASE ticked = <<>>
    <3>1. t \notin DOMAIN <<>>
      OBVIOUS
    <3>2. QED
      BY <2>1, <3>1
  <2>2. CASE ticked # <<>>
    <3>1. t \in DOMAIN ticked /\ ticked[t] \subseteq ExampleEntities[e][t]
      BY <2>2 DEF TicksOf
    <3>2. QED
      BY <2>2, <3>1
  <2>3. QED
    BY <2>1, <2>2
<1>3. DOMAIN kept = DOMAIN ExampleEntities[e]
  OBVIOUS
<1>4. (IF t \in DOMAIN sends THEN sends[t] ELSE {}) = kept[t]
  <2> HIDE DEF kept
  <2>1. t \in DOMAIN sends <=> kept[t] # {}
    BY <1>3
  <2>2. t \in DOMAIN sends => sends[t] = kept[t]
    OBVIOUS
  <2>3. QED
    BY <2>1, <2>2
<1>5. QED
  BY <1>1, <1>2, <1>4

LEMMA WizardWrites == WizardInv => Wizard!WizardWritesItsChoice
<1> SUFFICES ASSUME WizardInv, NEW w \in written
             PROVE  /\ w.form.example # Empty /\ ~w.unlike =>
                         \A t \in DOMAIN ExampleEntities[w.form.example] :
                           (IF t \in DOMAIN w.entities THEN w.entities[t] ELSE {})
                              = IF w.ticked = <<>> THEN ExampleEntities[w.form.example][t] ELSE w.ticked[t]
                    /\ ~w.late => w.defaults \in {w.form.example, "default"}
                    /\ mode = "add" /\ (w.form.example = Empty => checked = w.form) =>
                         \A p \in LoadedPorts :
                           p.path # w.form.path /\ (w.form.port # "" => p.port # w.form.port)
  BY DEF Wizard!WizardWritesItsChoice
<1>1. MadeOf(w)
  BY DEF WizardInv
<1>2. ASSUME w.form.example # Empty, ~w.unlike, NEW t \in DOMAIN ExampleEntities[w.form.example]
      PROVE  (IF t \in DOMAIN w.entities THEN w.entities[t] ELSE {})
                = IF w.ticked = <<>> THEN ExampleEntities[w.form.example][t] ELSE w.ticked[t]
  <2>1. TicksOf(w.form.example, w.ticked) /\ w.entities = Wizard!Filtered(w.form.example, w.ticked)
    BY <1>1, <1>2 DEF MadeOf, WasShown
  <2>2. QED
    BY <2>1, FilteredIsTicked
<1>3. ~w.late => w.defaults \in {w.form.example, "default"}
  BY <1>1 DEF MadeOf, WasShown
<1>4. ASSUME mode = "add", w.form.example = Empty => checked = w.form
      PROVE  \A p \in LoadedPorts : p.path # w.form.path /\ (w.form.port # "" => p.port # w.form.port)
  <2>1. w.form # Wizard!NoForm
    <3>1. w.form.example # Wizard!NoExample
      BY <1>1 DEF MadeOf
    <3>2. Wizard!NoForm.example = Wizard!NoExample
      BY DEF Wizard!NoForm
    <3>3. QED
      BY <3>1, <3>2
  <2>2. ~Wizard!Duplicate(w.form)
    BY <1>1, <1>4, <2>1 DEF MadeOf, WizardInv
  <2>3. QED
    BY <2>2 DEF Wizard!Duplicate
<1>5. QED
  BY <1>2, <1>3, <1>4

LEMMA WizardInitially == UiInit => WizardInv
BY DEF UiInit, Wizard!Init, WizardInv, Untouched, TicksOf, IsForm, Wizard!NoForm

LEMMA WizardAlike == WizardInv /\ UNCHANGED wizardVars => WizardInv'
<1> SUFFICES ASSUME WizardInv, UNCHANGED wizardVars PROVE WizardInv'
  OBVIOUS
<1>1. \A w : MadeOf(w)' <=> MadeOf(w)
  BY DEF wizardVars, MadeOf, WasShown, TicksOf, Wizard!NoExample, Wizard!Filtered,
     Wizard!Duplicate
<1>2. \A r : WasShown(r)' <=> WasShown(r)
  BY DEF WasShown, TicksOf
<1>3. QED
  BY <1>1, <1>2 DEF WizardInv, wizardVars, Untouched, TicksOf, IsForm, Wizard!NoTest,
     Wizard!NoForm,
     Wizard!Duplicate


LEMMA FilesStay ==
  ASSUME WizardInv, UNCHANGED <<written, mode>>
  PROVE  \A w \in written' : MadeOf(w)'
<1>1. \A w : MadeOf(w)' <=> MadeOf(w)
  BY DEF MadeOf, WasShown, TicksOf, Wizard!NoExample, Wizard!Filtered, Wizard!Duplicate
<1>2. QED
  BY <1>1 DEF WizardInv

LEMMA RequestsStay ==
  ASSUME WizardInv, submitting' \subseteq submitting
  PROVE  \A r \in submitting' : WasShown(r)'
BY DEF WizardInv, WasShown, TicksOf

LEMMA ChecksStay ==
  ASSUME WizardInv, checked' = checked
  PROVE  (checked # Wizard!NoForm => ~Wizard!Duplicate(checked))'
BY DEF WizardInv, Wizard!NoForm, Wizard!NoExample, Wizard!Duplicate

\* A step that makes no request and no file, and checks no form.
LEMMA WizardStays ==
  ASSUME WizardInv, IsForm(form'), submitting' \subseteq submitting,
         UNCHANGED <<written, mode, checked>>,
         loading' => Untouched',
         ~late' /\ exampleRequests' = {} => packetDefaults' \in {form'.example, "default"},
         ~unlike' /\ (currentStep' \in {"entity_selection", "consent"} \/ submitting' # {}) =>
           \/ selectedEntities' = <<>>
           \/ entities' = form'.example /\ TicksOf(form'.example, selectedEntities')
  PROVE  WizardInv'
<1>1. TicksOf(form.example, selectedEntities)' <=> TicksOf(form'.example, selectedEntities')
  BY DEF TicksOf
<1>2. QED
  BY <1>1, FilesStay, RequestsStay, ChecksStay DEF WizardInv, IsForm

\* A new form fetches the settings of another example.
LEMMA FormChanges ==
  ASSUME WizardInv, NEW f, IsForm(f), Wizard!Changed(f)
  PROVE  /\ IsForm(form')
         /\ ~late' /\ exampleRequests' = {} => packetDefaults' \in {form'.example, "default"}
<1>0. IsForm(form')
  BY DEF Wizard!Changed, IsForm
<1>1. CASE f.example = form.example
  BY <1>0, <1>1 DEF Wizard!Changed, Wizard!defaults, WizardInv
<1>2. CASE f.example # form.example /\ f.example = Empty
  BY <1>0, <1>2 DEF Wizard!Changed
<1>3. CASE f.example # form.example /\ f.example # Empty
  <2>1. exampleRequests' # {}
    BY <1>3 DEF Wizard!Changed
  <2>2. QED
    BY <1>0, <2>1
<1>4. QED
  BY <1>1, <1>2, <1>3

LEMMA ChoiceMade == ASSUME WizardInv, NEW ok \in BOOLEAN, Wizard!ExamplesLoaded(ok) PROVE WizardInv'
<1>1. /\ loading /\ Untouched /\ loading' = FALSE
      /\ UNCHANGED <<submitting, written, mode, checked, unlike, selectedEntities>>
  BY DEF Wizard!ExamplesLoaded, Wizard!service, Wizard!ticks, WizardInv
<1>2. /\ IsForm(form')
      /\ ~late' /\ exampleRequests' = {} => packetDefaults' \in {form'.example, "default"}
  <2>1. CASE ok
    <3>1. PICK e \in Examples : Wizard!Changed([form EXCEPT !.example = e])
      BY <2>1 DEF Wizard!ExamplesLoaded
    <3>2. IsForm([form EXCEPT !.example = e])
      BY DEF WizardInv, IsForm
    <3>3. QED
      BY <3>1, <3>2, FormChanges
  <2>2. CASE ~ok
    BY <2>2 DEF Wizard!ExamplesLoaded, Wizard!defaults, WizardInv
  <2>3. QED
    BY <2>1, <2>2
<1>3. selectedEntities' = <<>>
  BY <1>1 DEF Untouched
<1>4. QED
  BY <1>1, <1>2, <1>3, WizardStays

LEMMA FormTyped == ASSUME WizardInv, NEW f \in Wizard!Edits, Wizard!Type(f) PROVE WizardInv'
<1>0. IsForm(f)
  BY DEF WizardInv, IsForm, Wizard!Edits
<1>1. /\ ~loading' /\ currentStep' = "config" /\ submitting' = {} /\ submitting = {}
      /\ UNCHANGED <<written, mode, checked>> /\ Wizard!Changed(f)
  BY DEF Wizard!Type, Wizard!AtForm, Wizard!service
<1>2. QED
  BY <1>0, <1>1, FormChanges, WizardStays

LEMMA ExampleCame ==
  ASSUME WizardInv, NEW e, NEW ok \in BOOLEAN, Wizard!ExampleAnswered(e, ok) PROVE WizardInv'
<1>0. IsForm(form') /\ form'.example = form.example
  BY DEF WizardInv, IsForm, Wizard!ExampleAnswered
<1>1. /\ e \in exampleRequests
      /\ packetDefaults' = (IF ok THEN e ELSE "default") /\ late' = (ok /\ e # form.example)
      /\ UNCHANGED <<submitting, written, mode, checked, loading, currentStep, entities,
                     selectedEntities, unlike>>
  BY DEF Wizard!ExampleAnswered, Wizard!service, Wizard!ticks
<1>2. ~loading
  BY <1>1 DEF WizardInv, Untouched
<1>3. TicksOf(form'.example, selectedEntities') <=> TicksOf(form.example, selectedEntities)
  BY <1>0, <1>1
<1>4. QED
  BY <1>0, <1>1, <1>2, <1>3, WizardStays DEF WizardInv

\* A step that leaves the form, the ticks and the files as they are.
LEMMA StepIsShown ==
  ASSUME WizardInv, ~loading', submitting' \subseteq submitting,
         UNCHANGED <<written, mode, checked, form, Wizard!defaults, entities, selectedEntities,
                     unlike>>,
         currentStep' \in {"entity_selection", "consent"} =>
           currentStep \in {"entity_selection", "consent"} \/ submitting # {}
  PROVE  WizardInv'
<1>1. TicksOf(form'.example, selectedEntities') <=> TicksOf(form.example, selectedEntities)
  OBVIOUS
<1>2. submitting' # {} => submitting # {}
  OBVIOUS
<1>3. QED
  BY <1>1, <1>2, WizardStays DEF WizardInv, IsForm, Wizard!defaults

LEMMA LineTested == ASSUME WizardInv, Wizard!Test PROVE WizardInv'
<1>1. /\ ~loading' /\ submitting' = submitting /\ currentStep' = currentStep
      /\ UNCHANGED <<written, mode, checked, form, Wizard!defaults, entities, selectedEntities,
                     unlike>>
  BY DEF Wizard!Test, Wizard!AtForm, Wizard!service, Wizard!ticks
<1>2. QED
  BY <1>1, StepIsShown

LEMMA TestCame == ASSUME WizardInv, NEW ok \in BOOLEAN, Wizard!TestAnswered(ok) PROVE WizardInv'
<1>1. /\ submitting' = submitting /\ currentStep' \in {currentStep, "packet_defaults"}
      /\ UNCHANGED <<written, mode, checked, form, Wizard!defaults, entities, selectedEntities,
                     unlike>>
  BY DEF Wizard!TestAnswered, Wizard!service, Wizard!ticks
<1>2. ~loading'
  BY DEF Wizard!TestAnswered, WizardInv, Untouched
<1>3. QED
  BY <1>1, <1>2, StepIsShown

LEMMA FormSubmitted == ASSUME WizardInv, Wizard!SubmitForm PROVE WizardInv'
<1>1. /\ ~loading' /\ submitting' = submitting /\ currentStep' \in {currentStep, "packet_defaults"}
      /\ UNCHANGED <<written, mode, checked, form, Wizard!defaults, entities, selectedEntities,
                     unlike>>
  BY DEF Wizard!SubmitForm, Wizard!AtForm, Wizard!service, Wizard!ticks, Wizard!Proceed
<1>2. QED
  BY <1>1, StepIsShown

LEMMA CheckCame ==
  ASSUME WizardInv, NEW f \in checks, NEW ok \in BOOLEAN, Wizard!CheckAnswered(f, ok)
  PROVE  WizardInv'
<1>1. /\ submitting' = submitting /\ currentStep' \in {currentStep, "packet_defaults"}
      /\ UNCHANGED <<written, mode, form, Wizard!defaults, entities, selectedEntities, unlike>>
  BY DEF Wizard!CheckAnswered, Wizard!service, Wizard!ticks, Wizard!Proceed
<1>2. ~loading'
  BY DEF Wizard!CheckAnswered, WizardInv, Untouched
<1>3. checked' = checked \/ ~Wizard!Duplicate(checked')
  BY DEF Wizard!CheckAnswered
<1>4. (checked # Wizard!NoForm => ~Wizard!Duplicate(checked))'
  BY <1>3, ChecksStay DEF Wizard!Duplicate
<1>5. TicksOf(form.example, selectedEntities)' <=> TicksOf(form.example, selectedEntities)
  BY <1>1 DEF TicksOf
<1>6. QED
  BY <1>1, <1>2, <1>4, <1>5, FilesStay, RequestsStay DEF WizardInv, IsForm, Wizard!defaults

LEMMA EntitiesAsked == ASSUME WizardInv, Wizard!LoadEntities PROVE WizardInv'
<1>1. /\ currentStep = "packet_defaults" /\ submitting' = {} /\ submitting = {}
      /\ UNCHANGED <<written, mode, checked, form, Wizard!defaults, loading>>
  BY DEF Wizard!LoadEntities, Wizard!service
<1>2. ~loading'
  BY <1>1 DEF WizardInv, Untouched
<1>3. CASE form.example = Empty
  <2>1. selectedEntities' = <<>>
    BY <1>3 DEF Wizard!LoadEntities
  <2>2. QED
    BY <1>1, <1>2, <2>1, WizardStays DEF WizardInv, IsForm, Wizard!defaults
<1>4. CASE form.example # Empty
  BY <1>1, <1>2, <1>4, StepIsShown DEF Wizard!LoadEntities
<1>5. QED
  BY <1>3, <1>4

LEMMA EntitiesCame ==
  ASSUME WizardInv, NEW i \in DOMAIN entityRequests, NEW ok \in BOOLEAN, Wizard!EntitiesAnswered(i, ok)
  PROVE  WizardInv'
<1>1. UNCHANGED <<submitting, written, mode, checked, form, Wizard!defaults, loading>>
  BY DEF Wizard!EntitiesAnswered, Wizard!service
<1>2. ~loading'
  <2>1. entityRequests # <<>>
    OBVIOUS
  <2>2. QED
    BY <1>1, <2>1 DEF WizardInv, Untouched
<1>3. ~unlike' => \/ selectedEntities' = <<>>
                  \/ entities' = form'.example /\ TicksOf(form'.example, selectedEntities')
  <2>1. CASE ok
    <3>1. /\ selectedEntities' = ExampleEntities[entityRequests[i]] /\ entities' = entityRequests[i]
          /\ ~unlike' => entityRequests[i] = form.example
      BY <2>1 DEF Wizard!EntitiesAnswered
    <3>2. TicksOf(entityRequests[i], ExampleEntities[entityRequests[i]])
      BY DEF TicksOf
    <3>3. QED
      BY <1>1, <3>1, <3>2
  <2>2. CASE ~ok
    BY <2>2 DEF Wizard!EntitiesAnswered
  <2>3. QED
    BY <2>1, <2>2
<1>4. QED
  BY <1>1, <1>2, <1>3, WizardStays DEF WizardInv, IsForm, Wizard!defaults

LEMMA TicksChange ==
  ASSUME WizardInv, NEW t \in DOMAIN selectedEntities, entities # Wizard!NoExample,
         NEW ids \in SUBSET ExampleEntities[entities][t], Wizard!Toggle(t, ids)
  PROVE  WizardInv'
<1>1. /\ currentStep = "entity_selection"
      /\ UNCHANGED <<submitting, written, mode, checked, form, Wizard!defaults, loading, entities,
                     unlike,
                     currentStep>>
      /\ selectedEntities' = [selectedEntities EXCEPT ![t] = ids]
  BY DEF Wizard!Toggle, Wizard!service
<1>2. ~loading'
  BY <1>1 DEF WizardInv, Untouched
<1>3. ~unlike => entities = form.example /\ TicksOf(form.example, selectedEntities)
  <2>1. selectedEntities # <<>>
    OBVIOUS
  <2>2. QED
    BY <1>1, <2>1 DEF WizardInv
<1>4. ~unlike => TicksOf(form.example, selectedEntities')
  <2> SUFFICES ASSUME ~unlike PROVE TicksOf(form.example, selectedEntities')
    OBVIOUS
  <2>1. selectedEntities # <<>> /\ entities = form.example
    BY <1>3
  <2>2. /\ DOMAIN selectedEntities = DOMAIN ExampleEntities[form.example]
        /\ \A u \in DOMAIN selectedEntities : selectedEntities[u] \subseteq ExampleEntities[form.example][u]
    BY <1>3, <2>1 DEF TicksOf
  <2>3. DOMAIN selectedEntities' = DOMAIN selectedEntities
    BY <1>1
  <2>4. ASSUME NEW u \in DOMAIN selectedEntities
        PROVE  selectedEntities'[u] \subseteq ExampleEntities[form.example][u]
    BY <1>1, <2>1, <2>2
  <2>5. QED
    BY <2>2, <2>3, <2>4 DEF TicksOf
<1>5. QED
  BY <1>1, <1>2, <1>3, <1>4, WizardStays DEF WizardInv, IsForm, Wizard!defaults

LEMMA StepBack == ASSUME WizardInv, Wizard!Previous PROVE WizardInv'
<1>1. /\ currentStep \in {"packet_defaults", "entity_selection", "consent"}
      /\ submitting' = submitting /\ UNCHANGED loading
      /\ UNCHANGED <<written, mode, checked, form, Wizard!defaults, entities, selectedEntities,
                     unlike>>
  BY DEF Wizard!Previous, Wizard!service, Wizard!ticks
<1>2. ~loading'
  BY <1>1 DEF WizardInv, Untouched
<1>3. currentStep' \in {"entity_selection", "consent"} => currentStep = "consent"
  BY DEF Wizard!Previous
<1>4. QED
  BY <1>1, <1>2, <1>3, StepIsShown

LEMMA ChoiceSent == ASSUME WizardInv, Wizard!Submit PROVE WizardInv'
<1> DEFINE r == [form |-> form, defaults |-> packetDefaults, ticked |-> selectedEntities,
                 unlike |-> unlike, late |-> late \/ exampleRequests # {}]
<1>1. /\ currentStep = "entity_selection" /\ submitting' = {r}
      /\ UNCHANGED <<written, mode, checked, form, Wizard!defaults, loading, entities,
                     selectedEntities,
                     unlike, currentStep>>
  BY DEF Wizard!Submit, Wizard!service, Wizard!ticks
<1>2. ~loading'
  BY <1>1 DEF WizardInv, Untouched
<1>3. ~r.late => r.defaults \in {r.form.example, "default"}
  BY DEF WizardInv
<1>4. ~r.unlike => TicksOf(r.form.example, r.ticked)
  <2>1. ~unlike => TicksOf(form.example, selectedEntities)
    BY <1>1 DEF WizardInv, TicksOf
  <2>2. QED
    BY <2>1
<1>5. WasShown(r)
  <2> HIDE DEF r
  <2>1. QED
    BY <1>3, <1>4 DEF WasShown
<1>6. \A q \in submitting' : WasShown(q)'
  BY <1>1, <1>5 DEF WasShown, TicksOf
<1>7. TicksOf(form.example, selectedEntities)' <=> TicksOf(form.example, selectedEntities)
  BY <1>1 DEF TicksOf
<1>8. QED
  BY <1>1, <1>2, <1>6, <1>7, FilesStay, ChecksStay DEF WizardInv, IsForm, Wizard!defaults

LEMMA FileMade ==
  ASSUME NEW r, WasShown(r), ~Wizard!Refused(r.form)
  PROVE  MadeOf(Wizard!Written(r))
<1> DEFINE w == Wizard!Written(r)
<1>1. /\ w.form = r.form /\ w.defaults = r.defaults /\ w.ticked = r.ticked /\ w.unlike = r.unlike
      /\ w.late = r.late
      /\ w.entities = IF r.form.example = Empty THEN <<>>
                      ELSE Wizard!Filtered(r.form.example, r.ticked)
  BY DEF Wizard!Written
<1>2. /\ r.form.example # Wizard!NoExample
      /\ (mode = "add" /\ r.form.example # Empty => ~Wizard!Duplicate(r.form))
  BY DEF Wizard!Refused, Wizard!Accepted, Wizard!FormReady
<1> HIDE DEF w
<1>3. WasShown(w)
  BY <1>1 DEF WasShown
<1>4. MadeOf(w)
  BY <1>1, <1>2, <1>3 DEF MadeOf
<1>5. QED
  BY <1>4 DEF w

LEMMA ChoiceCame ==
  ASSUME WizardInv, NEW r \in submitting, NEW ok \in BOOLEAN, Wizard!SelectAnswered(r, ok)
  PROVE  WizardInv'
<1>1. /\ submitting' = {} /\ currentStep' \in {currentStep, "complete", "consent"}
      /\ UNCHANGED <<mode, checked, form, Wizard!defaults, loading, entities, selectedEntities,
                     unlike>>
  BY DEF Wizard!SelectAnswered, Wizard!ticks
<1>2. ~loading'
  BY <1>1 DEF WizardInv, Untouched
<1>3. \A w \in written' : w \in written \/ (ok /\ w = Wizard!Written(r))
  BY DEF Wizard!SelectAnswered
<1>4. ok => MadeOf(Wizard!Written(r))
  BY FileMade DEF Wizard!SelectAnswered, WizardInv
<1>5. \A w \in written' : MadeOf(w)
  BY <1>3, <1>4 DEF WizardInv
<1>6. \A w : MadeOf(w)' <=> MadeOf(w)
  BY <1>1 DEF MadeOf, WasShown, TicksOf, Wizard!NoExample, Wizard!Filtered, Wizard!Duplicate
<1>7. TicksOf(form.example, selectedEntities)' <=> TicksOf(form.example, selectedEntities)
  BY <1>1 DEF TicksOf
<1>8. submitting # {}
  OBVIOUS
<1>9. QED
  BY <1>1, <1>2, <1>5, <1>6, <1>7, <1>8, ChecksStay DEF WizardInv, IsForm, Wizard!defaults

LEMMA ConsentAsked == ASSUME WizardInv, Wizard!Consent PROVE WizardInv'
<1>1. /\ submitting' = submitting /\ currentStep' = currentStep /\ UNCHANGED loading
      /\ currentStep = "consent"
      /\ UNCHANGED <<written, mode, checked, form, Wizard!defaults, entities, selectedEntities,
                     unlike>>
  BY DEF Wizard!Consent, Wizard!service, Wizard!ticks
<1>2. ~loading'
  BY <1>1 DEF WizardInv, Untouched
<1>3. QED
  BY <1>1, <1>2, StepIsShown

LEMMA ConsentCame == ASSUME WizardInv, NEW ok \in BOOLEAN, Wizard!ConsentAnswered(ok) PROVE WizardInv'
<1>1. /\ submitting' = submitting /\ currentStep' = "complete" /\ UNCHANGED loading
      /\ consentSubmitting
      /\ UNCHANGED <<written, mode, checked, form, Wizard!defaults, entities, selectedEntities,
                     unlike>>
  BY DEF Wizard!ConsentAnswered, Wizard!ticks
<1>2. ~loading'
  BY <1>1 DEF WizardInv, Untouched
<1>3. QED
  BY <1>1, <1>2, StepIsShown

LEMMA WizardKept == WizardInv /\ Wizard!Next => WizardInv'
<1> SUFFICES ASSUME WizardInv, Wizard!Next PROVE WizardInv'
  OBVIOUS
<1>1. ASSUME NEW f \in Wizard!Edits, Wizard!Type(f) PROVE WizardInv'
  BY <1>1, FormTyped
<1>2. ASSUME NEW t \in DOMAIN selectedEntities, entities # Wizard!NoExample,
             NEW ids \in SUBSET ExampleEntities[entities][t], Wizard!Toggle(t, ids)
      PROVE  WizardInv'
  BY <1>2, TicksChange
<1>3. ASSUME NEW e \in Examples, NEW ok \in BOOLEAN, Wizard!ExampleAnswered(e, ok) PROVE WizardInv'
  BY <1>3, ExampleCame
<1>4. ASSUME NEW i \in DOMAIN entityRequests, NEW ok \in BOOLEAN, Wizard!EntitiesAnswered(i, ok)
      PROVE  WizardInv'
  BY <1>4, EntitiesCame
<1>5. ASSUME NEW ok \in BOOLEAN,
             Wizard!ExamplesLoaded(ok) \/ Wizard!TestAnswered(ok) \/ Wizard!ConsentAnswered(ok)
      PROVE  WizardInv'
  BY <1>5, ChoiceMade, TestCame, ConsentCame
<1>6. ASSUME NEW f \in checks, NEW ok \in BOOLEAN, Wizard!CheckAnswered(f, ok) PROVE WizardInv'
  BY <1>6, CheckCame
<1>7. ASSUME NEW r \in submitting, NEW ok \in BOOLEAN, Wizard!SelectAnswered(r, ok) PROVE WizardInv'
  BY <1>7, ChoiceCame
<1>8. QED
  BY <1>1, <1>2, <1>3, <1>4, <1>5, <1>6, <1>7, LineTested, FormSubmitted, EntitiesAsked, StepBack,
     ChoiceSent, ConsentAsked DEF Wizard!Next

\* Whatever its user types, tests and ticks and in whichever order the answers come:
\* a file that the wizard writes has the entities of the example that are ticked,
\* or all when no list of them was shown, and its packet defaults or the general
\* ones, unless an answer for another example came late, and it takes no path or
\* port id of a bridge that runs (SetupWizard.svelte, setup.routes.ts).
THEOREM WizardWritesItsChoiceCorrect == UiSpec => []WizardWritesItsChoice
<1>1. UiInit => WizardInv
  BY WizardInitially
<1>2. WizardInv /\ [UiNext]_uiVars => WizardInv'
  <2> SUFFICES ASSUME WizardInv, [UiNext]_uiVars PROVE WizardInv'
    OBVIOUS
  <2>1. Wizard!Next \/ UNCHANGED wizardVars
    BY DEF UiNext, uiVars, ViewStep, WizardStep, StoredStep, PageStep, SharingStep, ListedStep,
       DetailStep,
       RecordStep, BoardStep, PreviewStep
  <2>2. QED
    BY <2>1, WizardKept, WizardAlike
<1>3. WizardInv => WizardWritesItsChoice
  BY WizardWrites DEF WizardWritesItsChoice
<1>4. QED
  BY <1>1, <1>2, <1>3, PTL DEF UiSpec
-----------------------------------------------------------------------------
(* The gallery.                                                             *)

\* The vendors: what is shown is of the port, or a timer or an answer will come.
VendorsFollow ==
  /\ compatibilityRequestId \in Nat /\ compatibilityTimeout \in {NoPort, activePortId}
  /\ compatibilityRequest # View!NoRequest => compatibilityRequest.id = compatibilityRequestId
  /\ ~stray /\ compatibilityTimeout = NoPort /\ compatibilityRequest = View!NoRequest =>
       compatibilityByVendor \in {activePortId, NoPort}

\* The snippets: discoveryPortId is the port of the request, then of the results.
DiscoveryFollows ==
  /\ discoveryTimeout \in {NoPort, activePortId}
  /\ activePortId # NoPort /\ discoveryTimeout = NoPort => discoveryPortId = activePortId
  /\ discoveryPortId # NoPort =>
       IF discoveryRequest = View!NoRequest THEN failed \/ discoveryResults = discoveryPortId
       ELSE discoveryRequest.port = discoveryPortId
  /\ discoveryLoading => discoveryRequest # View!NoRequest

ViewInv == VendorsFollow /\ DiscoveryFollows

LEMMA ViewFollows == ViewInv => View!GalleryFollowsThePort
BY DEF ViewInv, VendorsFollow, DiscoveryFollows, View!GalleryFollowsThePort, View!AtRest

LEMMA ViewInitially == UiInit => ViewInv
BY DEF UiInit, View!Init, ViewInv, VendorsFollow, DiscoveryFollows

LEMMA ViewAlike == ViewInv /\ UNCHANGED viewVars => ViewInv'
BY DEF ViewInv, viewVars, VendorsFollow, DiscoveryFollows, View!NoRequest

LEMMA ViewKept == ViewInv /\ View!Next => ViewInv'
<1> SUFFICES ASSUME ViewInv, View!Next PROVE ViewInv'
  OBVIOUS
<1> USE DEF View!NoRequest
<1>1. ASSUME NEW p, View!Select(p) PROVE ViewInv'
  BY <1>1 DEF View!Select, ViewInv, VendorsFollow, DiscoveryFollows
<1>2. ASSUME View!LoadCompatibility PROVE ViewInv'
  <2>1. DiscoveryFollows'
    BY <1>2 DEF View!LoadCompatibility, View!discoveryVars, ViewInv, DiscoveryFollows
  <2>2. CASE compatibilityTimeout \in compatibilityCache
    BY <1>2, <2>1, <2>2 DEF View!LoadCompatibility, ViewInv, VendorsFollow
  <2>3. CASE compatibilityTimeout \notin compatibilityCache
    <3>1. /\ compatibilityRequest' = [port |-> activePortId, id |-> compatibilityRequestId + 1]
          /\ compatibilityRequestId' = compatibilityRequestId + 1 /\ compatibilityTimeout' = NoPort
          /\ activePortId' = activePortId
      BY <1>2, <2>3 DEF View!LoadCompatibility
    <3>2. /\ compatibilityRequest'.id = compatibilityRequestId'
          /\ compatibilityRequestId' \in Nat \ {0}
      BY <3>1 DEF ViewInv, VendorsFollow
    <3>3. compatibilityRequest' # View!NoRequest
      BY <3>2
    <3>4. QED
      BY <2>1, <3>1, <3>2, <3>3 DEF ViewInv, VendorsFollow
  <2>4. QED
    BY <2>2, <2>3
<1>3. ASSUME NEW ok \in BOOLEAN, View!CompatibilityAnswered(ok) PROVE ViewInv'
  BY <1>3 DEF View!CompatibilityAnswered, View!discoveryVars, ViewInv, VendorsFollow,
     DiscoveryFollows
<1>4. ASSUME View!LoadDiscovery PROVE ViewInv'
  <2>1. VendorsFollow'
    BY <1>4 DEF View!LoadDiscovery, View!compatibilityVars, ViewInv, VendorsFollow
  <2>2. /\ activePortId # NoPort /\ activePortId' = activePortId /\ discoveryTimeout' = NoPort
        /\ discoveryResults' = discoveryResults
    BY <1>4 DEF View!LoadDiscovery, ViewInv, DiscoveryFollows
  <2>3. CASE discoveryRequestInFlight /\ discoveryPortId = activePortId
    BY <1>4, <2>1, <2>2, <2>3 DEF View!LoadDiscovery, ViewInv, DiscoveryFollows
  <2>4. CASE ~(discoveryRequestInFlight /\ discoveryPortId = activePortId)
    <3>1. discoveryPortId' = activePortId /\ discoveryRequest' = [port |-> activePortId, id |-> 0]
      BY <1>4, <2>4 DEF View!LoadDiscovery
    <3>2. discoveryRequest' # View!NoRequest /\ discoveryRequest'.port = activePortId
      BY <2>2, <3>1
    <3>3. QED
      BY <2>1, <2>2, <3>1, <3>2 DEF ViewInv, DiscoveryFollows
  <2>5. QED
    BY <2>3, <2>4
<1>5. ASSUME NEW ok \in BOOLEAN, View!DiscoveryAnswered(ok) PROVE ViewInv'
  BY <1>5 DEF View!DiscoveryAnswered, View!compatibilityVars, ViewInv, VendorsFollow,
     DiscoveryFollows
<1>6. QED
  BY <1>1, <1>2, <1>3, <1>4, <1>5 DEF View!Next

\* In whichever order ports are selected, timers fire and answers come: once all
\* is quiet the vendors are those of the port that is selected, unless an answer
\* for a port left before overtook them, and so are the snippets discovered, unless
\* the discovery failed (Gallery.svelte), for any ports and number of selections.
THEOREM GalleryFollowsThePortCorrect == UiSpec => []GalleryFollowsThePort
<1>1. UiInit => ViewInv
  BY ViewInitially
<1>2. ViewInv /\ [UiNext]_uiVars => ViewInv'
  <2> SUFFICES ASSUME ViewInv, [UiNext]_uiVars PROVE ViewInv'
    OBVIOUS
  <2>1. View!Next \/ UNCHANGED viewVars
    BY DEF UiNext, uiVars, ViewStep, WizardStep, StoredStep, PageStep, SharingStep, ListedStep,
       DetailStep, RecordStep, BoardStep, PreviewStep
  <2>2. QED
    BY <2>1, ViewKept, ViewAlike
<1>3. ViewInv => GalleryFollowsThePort
  BY ViewFollows DEF GalleryFollowsThePort
<1>4. QED
  BY <1>1, <1>2, <1>3, PTL DEF UiSpec
-----------------------------------------------------------------------------
(* Numbers: what the order in which items are written needs.                *)

\* A set of numbers has a least one.
LEMMA LeastExists ==
  ASSUME NEW S, S \subseteq Nat, S # {}
  PROVE  \E m \in S : \A v \in S : m <= v
<1> DEFINE T == {0..m : m \in S}
           R == StrictSubsetOrdering(Nat)
           F == FiniteSubsetsOf(Nat)
<1>1. \A X \in T : X \in F
  <2> SUFFICES ASSUME NEW m \in S PROVE 0..m \in F
    OBVIOUS
  <2> HIDE DEF T, R
  <2>1. m \in Nat
    OBVIOUS
  <2>2. \A k \in 0..m : k \in Nat
    BY <2>1
  <2>3. IsFiniteSet(0..m)
    BY <2>1, FS_Interval
  <2>4. QED
    BY <2>2, <2>3 DEF FiniteSubsetsOf
<1>2. T \subseteq F /\ T # {}
  BY <1>1
<1>3. IsWellFoundedOn(R, F)
  BY FS_StrictSubsetOrderingWellFounded
<1>4. PICK X \in T : \A Y \in T : ~ (<<Y, X>> \in R)
  <2> HIDE DEF T, R, F
  <2> QED
    BY <1>2, <1>3, WFMin
<1>5. PICK m \in S : X = 0..m
  OBVIOUS
<1>6. \A v \in S : ~(v < m)
  <2> SUFFICES ASSUME NEW v \in S, v < m PROVE FALSE
    OBVIOUS
  <2>1. m \in Nat /\ v \in Nat /\ 0..v \in T
    OBVIOUS
  <2> HIDE DEF T
  <2>2. \A k \in 0..v : k \in 0..m /\ k \in Nat
    BY <2>1
  <2>3. m \in 0..m /\ m \notin 0..v /\ \A k \in 0..m : k \in Nat
    BY <2>1
  <2>4. <<0..v, 0..m>> \in (SUBSET Nat) \X (SUBSET Nat) /\ 0..v \subseteq 0..m /\ 0..v # 0..m
    BY <2>2, <2>3
  <2>5. <<0..v, 0..m>> \in R
    BY <2>4 DEF StrictSubsetOrdering
  <2> HIDE DEF R
  <2>6. <<0..v, X>> \in R
    BY <1>5, <2>5
  <2>7. QED
    BY <1>4, <2>1, <2>6
<1> HIDE DEF T, R, F
<1>7. ASSUME NEW v \in S PROVE m <= v
  <2>1. m \in Nat /\ v \in Nat /\ ~(v < m)
    BY <1>6, <1>7
  <2>2. QED
    BY <2>1
<1>8. QED
  BY <1>7

\* Induction, for a set.
LEMMA NatIsInduced ==
  ASSUME NEW S, 0 \in S, \A n \in Nat : n \in S => n + 1 \in S
  PROVE  \A n \in Nat : n \in S
<1> SUFFICES ASSUME NEW n \in Nat, n \notin S PROVE FALSE
  OBVIOUS
<1> DEFINE T == Nat \ S
<1>1. T \in SUBSET Nat /\ T # {}
  OBVIOUS
<1>2. PICK x \in T : \A y \in T : x <= y
  BY <1>1, LeastExists
<1>3. x # 0 /\ x \in Nat
  BY <1>2
<1>4. x - 1 \in Nat /\ x - 1 + 1 = x /\ ~ (x <= x - 1)
  BY <1>3, SMT
<1>5. x - 1 \notin T
  BY <1>2, <1>4
<1> QED
  BY <1>2, <1>4, <1>5


\* A function on 0 .. N is defined by its value at the number before.
Counted(g, N, first, onward) ==
  g[0] = first /\ \A n \in 1 .. N : g[n] = onward[<<n, g[n - 1]>>]

\* A function that counts up from its first value exists.
LEMMA CountedUp ==
  ASSUME NEW N \in Nat, NEW V, NEW first \in V, NEW onward \in [(1 .. N) \X V -> V]
  PROVE  \E g \in [0 .. N -> V] : Counted(g, N, first, onward)
<1> DEFINE Upto(k) == \E g \in [0 .. k -> V] :
                         g[0] = first /\ \A n \in 1 .. k : g[n] = onward[<<n, g[n - 1]>>]
           S == {k \in Nat : k <= N => Upto(k)}
<1>1. 0 \in S
  <2> DEFINE h == [n \in 0 .. 0 |-> first]
  <2>1. h \in [0 .. 0 -> V] /\ h[0] = first /\ \A n \in 1 .. 0 : FALSE
    OBVIOUS
  <2> HIDE DEF h
  <2>2. Upto(0)
    BY <2>1
  <2>3. QED
    BY <2>2
<1>2. ASSUME NEW k \in Nat, k \in S PROVE k + 1 \in S
  <2>1. SUFFICES ASSUME k + 1 <= N PROVE Upto(k + 1)
    OBVIOUS
  <2>2. PICK g \in [0 .. k -> V] :
          g[0] = first /\ \A n \in 1 .. k : g[n] = onward[<<n, g[n - 1]>>]
    BY <1>2, <2>1
  <2> DEFINE h == [n \in 0 .. k + 1 |-> IF n = k + 1 THEN onward[<<n, g[k]>>] ELSE g[n]]
  <2>3. k + 1 \in 1 .. N /\ g[k] \in V
    BY <2>1, <2>2
  <2>4. onward[<<k + 1, g[k]>>] \in V
    BY <2>3
  <2>5. h \in [0 .. k + 1 -> V]
    BY <2>2, <2>4
  <2>6. h[0] = first /\ \A n \in 1 .. k + 1 : h[n] = onward[<<n, h[n - 1]>>]
    BY <2>2, <2>3
  <2>7. QED
    BY <2>5, <2>6
<1> HIDE DEF S
<1>3. N \in S
  BY <1>1, <1>2, NatIsInduced
<1>4. Upto(N)
  BY <1>3 DEF S
<1>5. QED
  BY <1>4 DEF Counted

\* What holds at 0 and goes on holds up to N.
LEMMA InTurn ==
  ASSUME NEW N \in Nat, NEW S, 0 \in S, \A n \in 1 .. N : n - 1 \in S => n \in S
  PROVE  \A n \in 0 .. N : n \in S
<1> DEFINE T == {n \in Nat : n <= N => n \in S}
<1>1. 0 \in T
  OBVIOUS
<1>2. ASSUME NEW n \in Nat, n \in T PROVE n + 1 \in T
  <2>1. CASE n + 1 <= N
    <3>1. n + 1 \in 1 .. N /\ (n + 1) - 1 = n /\ n \in S
      BY <1>2, <2>1
    <3>2. QED
      BY <3>1
  <2>2. QED
    BY <2>1
<1> HIDE DEF T
<1>3. \A n \in Nat : n \in T
  BY <1>1, <1>2, NatIsInduced
<1>4. QED
  BY <1>3 DEF T

-----------------------------------------------------------------------------
(* The preview of a snippet: one item after the other.                      *)

\* An item has its id, and is what its fields say.
IsItem(x) == x = [k \in DOMAIN x |-> x[k]] /\ "id" \in DOMAIN x /\ x.id # Preview!NoId

\* A list in which an item is put where one of its id is, or at the end.
Put(list0, y) ==
  IF y.id \in Preview!Ids(list0) THEN [list0 EXCEPT ![Preview!PlaceOf(list0, y.id)] = y]
  ELSE Append(list0, y)

LEMMA UnderIs ==
  ASSUME NEW x, IsItem(x), NEW id, id # Preview!NoId
  PROVE  IsItem(Preview!Under(x, id)) /\ Preview!Under(x, id).id = id /\ Preview!Under(x, x.id) = x
BY DEF IsItem, Preview!Under

\* The place of an id that a list has.
LEMMA PlaceIs ==
  ASSUME NEW E, NEW l \in Seq(E), NEW id \in Preview!Ids(l)
  PROVE  Preview!PlaceOf(l, id) \in DOMAIN l /\ l[Preview!PlaceOf(l, id)].id = id
<1> DEFINE S == {i \in DOMAIN l : l[i].id = id}
<1>1. DOMAIN l = 1 .. Len(l) /\ Len(l) \in Nat
  OBVIOUS
<1>2. S \subseteq Nat /\ S # {}
  BY <1>1 DEF Preview!Ids
<1> HIDE DEF S
<1>3. PICK m \in S : \A v \in S : m <= v
  BY <1>2, LeastExists
<1>4. m \in DOMAIN l /\ l[m].id = id /\ m \in Nat
  BY <1>1, <1>3 DEF S
<1>5. \A j \in 1 .. m - 1 : l[j].id # id
  <2> SUFFICES ASSUME NEW j \in 1 .. m - 1, l[j].id = id PROVE FALSE
    OBVIOUS
  <2>1. j \in DOMAIN l /\ ~ (m <= j)
    BY <1>1, <1>4
  <2>2. QED
    BY <1>3, <2>1 DEF S
<1>6. \E i \in DOMAIN l : l[i].id = id /\ \A j \in 1 .. i - 1 : l[j].id # id
  BY <1>4, <1>5
<1>7. QED
  BY <1>6 DEF Preview!PlaceOf

\* What putting an item does to a list.
LEMMA PutIs ==
  ASSUME NEW E, NEW l \in Seq(E), NEW y \in E
  PROVE  /\ Put(l, y) \in Seq(E)
         /\ \A i \in DOMAIN l : /\ i \in DOMAIN Put(l, y) /\ Put(l, y)[i].id = l[i].id
                                /\ Put(l, y)[i] = l[i] \/ l[i].id = y.id
         /\ \E i \in DOMAIN Put(l, y) : Put(l, y)[i] = y
         /\ \A i \in DOMAIN Put(l, y) : Put(l, y)[i].id \in Preview!Ids(l) \cup {y.id}
         /\ Preview!Apart(l) => Preview!Apart(Put(l, y))
<1>0. DOMAIN l = 1 .. Len(l) /\ Len(l) \in Nat /\ \A i \in DOMAIN l : l[i] \in E
  OBVIOUS
<1>1. CASE y.id \in Preview!Ids(l)
  <2> DEFINE p == Preview!PlaceOf(l, y.id)
  <2>1. p \in DOMAIN l /\ l[p].id = y.id
    BY <1>1, PlaceIs
  <2> HIDE DEF p
  <2>2. Put(l, y) = [l EXCEPT ![p] = y]
    BY <1>1 DEF Put, p
  <2>3. /\ Put(l, y) \in Seq(E) /\ DOMAIN Put(l, y) = DOMAIN l
        /\ \A i \in DOMAIN l : Put(l, y)[i] = IF i = p THEN y ELSE l[i]
    BY <2>1, <2>2
  <2>4. \A i \in DOMAIN l : Put(l, y)[i].id = l[i].id
    BY <2>1, <2>3
  <2>5. \A i \in DOMAIN l : l[i].id \in Preview!Ids(l)
    BY DEF Preview!Ids
  <2>6. Preview!Apart(l) => Preview!Apart(Put(l, y))
    BY <2>3, <2>4 DEF Preview!Apart
  <2>7. QED
    BY <2>1, <2>3, <2>4, <2>5, <2>6
<1>2. CASE y.id \notin Preview!Ids(l)
  <2>1. Put(l, y) = Append(l, y)
    BY <1>2 DEF Put
  <2>2. /\ Put(l, y) \in Seq(E) /\ DOMAIN Put(l, y) = 1 .. Len(l) + 1
        /\ Put(l, y)[Len(l) + 1] = y
        /\ \A i \in DOMAIN l : i \in DOMAIN Put(l, y) /\ Put(l, y)[i] = l[i]
    BY <1>0, <2>1
  <2>3. \A i \in DOMAIN l : l[i].id \in Preview!Ids(l) /\ l[i].id # y.id
    BY <1>2 DEF Preview!Ids
  <2>4. \A i \in DOMAIN Put(l, y) : i \in DOMAIN l \/ i = Len(l) + 1
    BY <1>0, <2>2
  <2>5. Len(l) + 1 \in DOMAIN Put(l, y)
    BY <1>0, <2>2
  <2>6. Preview!Apart(l) => Preview!Apart(Put(l, y))
    BY <2>2, <2>3, <2>4 DEF Preview!Apart
  <2>7. QED
    BY <2>2, <2>3, <2>4, <2>5, <2>6
<1>3. QED
  BY <1>1, <1>2

\* What writing one item makes of a list: it is put under its id or the chosen one,
\* and an item that is skipped never where there is one.  It is left out when it is
\* skipped, or when another item is written under its id.
IsWritten(l, m, x) ==
  \/ m = l /\ (Preview!Resolution(x.id) = "skip" \/ Preview!Twice(x.id))
  \/ \E id \in {x.id, Preview!Chosen(x.id)} :
        /\ id # Preview!NoId /\ m = Put(l, Preview!Under(x, id))
        /\ Preview!Resolution(x.id) = "skip" => id \notin Preview!Ids(l)

LEMMA ItemIsWritten ==
  ASSUME NEW l, Preview!NoId \notin Preview!Ids(l), NEW x, IsItem(x),
         \/ x.id \in Preview!Ids(l) \/ Preview!Twice(x.id)
         \/ Preview!Chosen(x.id) \notin Preview!Ids(l)
  PROVE  IsWritten(l, Preview!AppliedItem(l, x, Preview!Resolution(x.id), Preview!Chosen(x.id)), x)
<1> DEFINE r == Preview!Resolution(x.id)
           c == Preview!Chosen(x.id)
<1>1. r \in {"skip", "overwrite"} /\ (r = "skip" => c = Preview!NoId)
  BY DEF Preview!Resolution, Preview!Chosen
<1>2. x.id # Preview!NoId /\ Preview!Under(x, x.id) = x /\ Preview!Under(x, x.id).id = x.id
  BY UnderIs DEF IsItem
<1>3. c # Preview!NoId => Preview!Under(x, c).id = c
  BY UnderIs
<1>4. x.id \in Preview!Ids(l) \/ Preview!Twice(x.id) \/ c \notin Preview!Ids(l)
  OBVIOUS
<1> HIDE DEF r, c
<1>5. IsWritten(l, Preview!AppliedItem(l, x, r, c), x)
  <2>1. CASE x.id \in Preview!Ids(l)
    <3>1. CASE r = "skip"
      BY <2>1, <3>1 DEF IsWritten, Preview!AppliedItem, r, c
    <3>2. CASE r = "overwrite"
      <4>1. Preview!AppliedItem(l, x, r, c) = Put(l, Preview!Under(x, x.id))
        BY <1>2, <2>1, <3>2 DEF Preview!AppliedItem, Put
      <4>2. QED
        BY <1>2, <3>2, <4>1 DEF IsWritten, r
    <3>3. QED
      BY <1>1, <3>1, <3>2
  <2>2. CASE x.id \notin Preview!Ids(l)
    <3>1. CASE c = Preview!NoId
      <4>1. Preview!AppliedItem(l, x, r, c) = Put(l, Preview!Under(x, x.id))
        BY <1>2, <2>2, <3>1 DEF Preview!AppliedItem, Preview!AppendNew, Put, Preview!NoId
      <4>2. QED
        BY <1>2, <2>2, <4>1 DEF IsWritten
    <3>2. CASE c # Preview!NoId /\ c \in Preview!Ids(l)
      <4>1. Preview!AppliedItem(l, x, r, c) = l
        BY <2>2, <3>2 DEF Preview!AppliedItem, Preview!AppendNew, Preview!NoId
      <4>2. QED
        BY <1>4, <2>2, <3>2, <4>1 DEF IsWritten
    <3>3. CASE c # Preview!NoId /\ c \notin Preview!Ids(l)
      <4>1. Preview!AppliedItem(l, x, r, c) = Put(l, Preview!Under(x, c))
        BY <1>3, <2>2, <3>3 DEF Preview!AppliedItem, Preview!AppendNew, Put, Preview!NoId
      <4>2. QED
        BY <3>3, <4>1 DEF IsWritten, c
    <3>4. QED
      BY <3>1, <3>2, <3>3
  <2>3. QED
    BY <2>1, <2>2
<1>6. QED
  BY <1>5 DEF r, c

\* An entity may be written over the one chosen, and is never left out for it.
LEMMA EntityIsWritten ==
  ASSUME NEW l, Preview!NoId \notin Preview!Ids(l), NEW x, IsItem(x)
  PROVE  IsWritten(l, Preview!AppliedEntity(l, x, Preview!Resolution(x.id), Preview!Chosen(x.id)), x)
<1> DEFINE r == Preview!Resolution(x.id)
           c == Preview!Chosen(x.id)
           m == Preview!AppliedEntity(l, x, r, c)
<1>1. r \in {"skip", "overwrite"}
  BY DEF Preview!Resolution
<1>2. c # Preview!NoId => Preview!Under(x, c).id = c
  BY UnderIs
<1>3. x.id \in Preview!Ids(l) \/ c \notin Preview!Ids(l) =>
        IsWritten(l, Preview!AppliedItem(l, x, r, c), x)
  BY ItemIsWritten
<1> HIDE DEF r, c
<1>4. CASE r = "skip"
  <2>1. m = l
    BY <1>4 DEF Preview!AppliedEntity
  <2>2. QED
    BY <1>4, <2>1 DEF IsWritten, r, c
<1>5. CASE r = "overwrite" /\ x.id \notin Preview!Ids(l) /\ c \in Preview!Ids(l)
  <2>1. m = Put(l, Preview!Under(x, c)) /\ c # Preview!NoId
    BY <1>2, <1>5 DEF Preview!AppliedEntity, Put, Preview!Under
  <2> HIDE DEF m
  <2>2. QED
    BY <1>5, <2>1 DEF IsWritten, r, c, m
<1>6. CASE r = "overwrite" /\ ~ (x.id \notin Preview!Ids(l) /\ c \in Preview!Ids(l))
  <2>1. m = Preview!AppliedItem(l, x, r, c)
    BY <1>6 DEF Preview!AppliedEntity
  <2> HIDE DEF m
  <2>2. QED
    BY <1>3, <1>6, <2>1 DEF IsWritten, r, c, m
<1>7. QED
  BY <1>1, <1>4, <1>5, <1>6

\* Every item is there, under its id or the chosen one, that was neither skipped
\* nor written to where another item of the snippet goes.
Stands(new, x) ==
  Preview!Resolution(x.id) # "skip" =>
    \E id \in {x.id, Preview!Chosen(x.id)} :
        \/ \E i \in DOMAIN new : new[i] = Preview!Under(x, id)
        \/ Preview!Twice(id)

\* The list `new` is what the items after the first `offset` matches make of `old`.
WrittenOver(old, new) ==
  /\ \A i \in DOMAIN old : /\ i \in DOMAIN new /\ new[i].id = old[i].id
                           /\ Preview!Writers(old[i].id) = {} => new[i] = old[i]
  /\ Preview!Apart(old) => Preview!Apart(new)
  /\ Preview!NoId \notin Preview!Ids(new)

\* One item more.
LEMMA OneMoreWritten ==
  ASSUME NEW E, NEW old, NEW l \in Seq(E), WrittenOver(old, l),
         NEW x, IsItem(x), NEW place \in DOMAIN matches, matches[place].id = x.id,
         NEW id \in {x.id, Preview!Chosen(x.id)}, id # Preview!NoId, Preview!Under(x, id) \in E,
         Preview!Resolution(x.id) = "skip" => id \notin Preview!Ids(l)
  PROVE  LET m == Put(l, Preview!Under(x, id)) IN
         /\ m \in Seq(E) /\ WrittenOver(old, m) /\ Stands(m, x)
         /\ \A z, p : /\ IsItem(z) /\ p \in DOMAIN matches /\ matches[p].id = z.id
                     /\ p # place /\ Stands(l, z) => Stands(m, z)
<1> DEFINE y == Preview!Under(x, id)
           m == Put(l, y)
<1>1. y \in E /\ y.id = id
  BY UnderIs
<1> HIDE DEF y
<1>2. /\ m \in Seq(E)
      /\ \A i \in DOMAIN l : /\ i \in DOMAIN m /\ m[i].id = l[i].id
                             /\ m[i] = l[i] \/ l[i].id = id
      /\ \E i \in DOMAIN m : m[i] = y
      /\ \A i \in DOMAIN m : m[i].id \in Preview!Ids(l) \cup {id}
      /\ Preview!Apart(l) => Preview!Apart(m)
  <2>1. /\ m \in Seq(E)
        /\ \A i \in DOMAIN l : /\ i \in DOMAIN m /\ m[i].id = l[i].id
                               /\ m[i] = l[i] \/ l[i].id = y.id
        /\ \E i \in DOMAIN m : m[i] = y
        /\ \A i \in DOMAIN m : m[i].id \in Preview!Ids(l) \cup {y.id}
        /\ Preview!Apart(l) => Preview!Apart(m)
    BY <1>1, PutIs, Zenon
  <2> HIDE DEF m
  <2>2. QED
    BY <1>1, <2>1
<1>3. Preview!Resolution(x.id) # "skip" => place \in Preview!Writers(id)
  BY DEF Preview!Writers, Preview!Resolution
<1>4. \A i \in DOMAIN l : m[i] # l[i] => place \in Preview!Writers(id) /\ l[i].id = id
  BY <1>2, <1>3 DEF Preview!Ids
<1> HIDE DEF m
<1>5. WrittenOver(old, m)
  <2>1. \A i \in DOMAIN old : /\ i \in DOMAIN l /\ l[i].id = old[i].id
                              /\ Preview!Writers(old[i].id) = {} => l[i] = old[i]
    BY DEF WrittenOver
  <2>2. ASSUME NEW i \in DOMAIN old
        PROVE  /\ i \in DOMAIN m /\ m[i].id = old[i].id
               /\ Preview!Writers(old[i].id) = {} => m[i] = old[i]
    BY <1>2, <1>4, <2>1
  <2>3. Preview!NoId \notin Preview!Ids(m)
    BY <1>2 DEF WrittenOver, Preview!Ids
  <2>4. QED
    BY <1>2, <2>2, <2>3 DEF WrittenOver
<1>6. Stands(m, x)
  BY <1>2 DEF Stands, y
<1>7. ASSUME NEW z, NEW p, IsItem(z), p \in DOMAIN matches, matches[p].id = z.id, p # place,
             Stands(l, z)
      PROVE  Stands(m, z)
  <2> SUFFICES ASSUME Preview!Resolution(z.id) # "skip"
               PROVE  \E a \in {z.id, Preview!Chosen(z.id)} :
                         \/ \E i \in DOMAIN m : m[i] = Preview!Under(z, a)
                         \/ Preview!Twice(a)
    BY DEF Stands
  <2>1. PICK a \in {z.id, Preview!Chosen(z.id)} :
          \/ \E i \in DOMAIN l : l[i] = Preview!Under(z, a)
          \/ Preview!Twice(a)
    BY <1>7 DEF Stands
  <2>2. p \in Preview!Writers(a)
    BY <1>7 DEF Preview!Writers, Preview!Resolution
  <2>3. CASE \E i \in DOMAIN l : l[i] = Preview!Under(z, a)
    <3>1. PICK i \in DOMAIN l : l[i] = Preview!Under(z, a)
      BY <2>3
    <3>2. CASE m[i] = l[i]
      BY <1>2, <3>1, <3>2
    <3>3. CASE m[i] # l[i]
      <4>1. place \in Preview!Writers(id) /\ l[i].id = id
        BY <1>4, <3>3
      <4>2. Preview!Under(z, a).id = a
        BY <1>7 DEF Preview!Under, IsItem
      <4>3. QED
        BY <1>7, <2>2, <3>1, <4>1, <4>2 DEF Preview!Twice
    <3>4. QED
      BY <3>2, <3>3
  <2>4. QED
    BY <2>1, <2>3
<1>8. QED
  BY <1>2, <1>5, <1>6, <1>7 DEF m, y

\* All items, one after the other.
LEMMA AllWritten ==
  ASSUME NEW E, NEW old \in Seq(E), Preview!NoId \notin Preview!Ids(old),
         NEW items, NEW N \in Nat, DOMAIN items = 1 .. N,
         \A n \in 1 .. N : IsItem(items[n]),
         \A n \in 1 .. N : \A id \in {items[n].id, Preview!Chosen(items[n].id)} \ {Preview!NoId} :
            Preview!Under(items[n], id) \in E,
         NEW offset \in Nat,
         \A n \in 1 .. N : offset + n \in DOMAIN matches /\ matches[offset + n].id = items[n].id,
         NEW g, g[0] = old, \A n \in 1 .. N : IsWritten(g[n - 1], g[n], items[n])
  PROVE  WrittenOver(old, g[N]) /\ \A n \in 1 .. N : Stands(g[N], items[n])
<1> DEFINE S == {n \in 0 .. N : /\ g[n] \in Seq(E) /\ WrittenOver(old, g[n])
                               /\ \A i \in 1 .. n : Stands(g[n], items[i])}
<1>1. 0 \in S
  <2>1. WrittenOver(old, old)
    BY DEF WrittenOver
  <2>2. 0 \in 0 .. N /\ \A i \in 1 .. 0 : FALSE
    OBVIOUS
  <2>3. QED
    BY <2>1, <2>2
<1>2. ASSUME NEW n \in 1 .. N, n - 1 \in S PROVE n \in S
  <2> DEFINE l == g[n - 1]
             x == items[n]
             place == offset + n
  <2>1. /\ l \in Seq(E) /\ WrittenOver(old, l) /\ \A i \in 1 .. n - 1 : Stands(l, items[i])
        /\ n \in 0 .. N /\ place \in Nat
    BY <1>2
  <2>2. IsItem(x) /\ place \in DOMAIN matches /\ matches[place].id = x.id
    OBVIOUS
  <2>3. \A i \in 1 .. n - 1 : /\ IsItem(items[i]) /\ offset + i \in DOMAIN matches
                              /\ matches[offset + i].id = items[i].id /\ offset + i # place
    OBVIOUS
  <2>4. \A i \in 1 .. n : i = n \/ i \in 1 .. n - 1
    OBVIOUS
  <2>5. IsWritten(l, g[n], x)
    OBVIOUS
  <2>6. CASE g[n] = l /\ (Preview!Resolution(x.id) = "skip" \/ Preview!Twice(x.id))
    <3>1. Stands(l, x)
      BY <2>6 DEF Stands
    <3> HIDE DEF l, x, place
    <3>2. \A i \in 1 .. n : Stands(l, items[i])
      BY <2>1, <2>4, <3>1 DEF x
    <3>3. QED
      BY <2>1, <2>6, <3>2
  <2>7. CASE \E id \in {x.id, Preview!Chosen(x.id)} :
               /\ id # Preview!NoId /\ g[n] = Put(l, Preview!Under(x, id))
               /\ Preview!Resolution(x.id) = "skip" => id \notin Preview!Ids(l)
    <3>1. PICK id \in {x.id, Preview!Chosen(x.id)} :
            /\ id # Preview!NoId /\ g[n] = Put(l, Preview!Under(x, id))
            /\ Preview!Resolution(x.id) = "skip" => id \notin Preview!Ids(l)
      BY <2>7
    <3>2. Preview!Under(x, id) \in E
      BY <3>1
    <3> HIDE DEF l, x, place
    <3>3. /\ g[n] \in Seq(E) /\ WrittenOver(old, g[n]) /\ Stands(g[n], x)
          /\ \A z, p : /\ IsItem(z) /\ p \in DOMAIN matches /\ matches[p].id = z.id
                      /\ p # place /\ Stands(l, z) => Stands(g[n], z)
      BY <2>1, <2>2, <3>1, <3>2, OneMoreWritten
    <3>4. \A i \in 1 .. n - 1 : Stands(g[n], items[i])
      BY <2>1, <2>3, <3>3
    <3>5. \A i \in 1 .. n : Stands(g[n], items[i])
      BY <2>4, <3>3, <3>4 DEF x
    <3>6. QED
      BY <2>1, <3>3, <3>5
  <2>8. QED
    BY <2>5, <2>6, <2>7 DEF IsWritten
<1> HIDE DEF S
<1>3. \A n \in 0 .. N : n \in S
  BY <1>1, <1>2, InTurn
<1>4. N \in S
  BY <1>3
<1>5. QED
  BY <1>4 DEF S

-----------------------------------------------------------------------------
(* The lists the service writes.                                           *)

\* What a list may come to hold.
WrittenTo(old, items) ==
  {old[i] : i \in DOMAIN old}
    \cup UNION {{Preview!Under(items[n], id) : id \in {items[n].id, Preview!Chosen(items[n].id)} \ {Preview!NoId}}
                 : n \in DOMAIN items}
ListsOf(old, items) == {l \in Seq(WrittenTo(old, items)) : Preview!NoId \notin Preview!Ids(l)}

\* The items stand among the matches, after the first `offset` of them.
AreMatched(items, offset) ==
  /\ offset \in Nat
  /\ \A n \in DOMAIN items :
        offset + n \in DOMAIN matches /\ matches[offset + n].id = items[n].id

LEMMA ItemsAre ==
  ASSUME NEW items, Preview!AreItems(items)
  PROVE  /\ Len(items) \in Nat /\ DOMAIN items = 1 .. Len(items)
         /\ \A n \in DOMAIN items : IsItem(items[n])
         /\ Preview!NoId \notin Preview!Ids(items)
<1>1. items \in Seq({items[i] : i \in DOMAIN items})
  BY DEF Preview!AreItems
<1>2. Len(items) \in Nat /\ DOMAIN items = 1 .. Len(items)
  BY <1>1
<1>3. QED
  BY <1>2 DEF Preview!AreItems, IsItem, Preview!Ids

LEMMA StaysAList ==
  ASSUME NEW old, NEW items, NEW n \in DOMAIN items, IsItem(items[n]),
         NEW l \in ListsOf(old, items), NEW m, IsWritten(l, m, items[n])
  PROVE  m \in ListsOf(old, items)
<1> DEFINE E == WrittenTo(old, items)
<1>1. CASE m = l
  BY <1>1
<1>2. CASE m # l
  <2>1. PICK id \in {items[n].id, Preview!Chosen(items[n].id)} :
          id # Preview!NoId /\ m = Put(l, Preview!Under(items[n], id))
    BY <1>2 DEF IsWritten
  <2>2. Preview!Under(items[n], id) \in E
    BY <2>1 DEF WrittenTo
  <2>3. Preview!Under(items[n], id).id = id
    BY <2>1, UnderIs
  <2>4. l \in Seq(E) /\ Preview!NoId \notin Preview!Ids(l)
    BY DEF ListsOf
  <2> HIDE DEF E
  <2>5. m \in Seq(E) /\ \A i \in DOMAIN m : m[i].id \in Preview!Ids(l) \cup {Preview!Under(items[n], id).id}
    BY <2>1, <2>2, <2>4, PutIs, Zenon
  <2>6. Preview!NoId \notin Preview!Ids(m)
    BY <2>1, <2>3, <2>4, <2>5 DEF Preview!Ids
  <2>7. QED
    BY <2>5, <2>6 DEF ListsOf, E
<1>3. QED
  BY <1>1, <1>2

\* There is a way to write the items one after the other, it is right, and there is no other.
IsOneWay(old, items, onward) ==
  \E g \in [0 .. Len(items) -> ListsOf(old, items)] :
    /\ g[0] = old /\ \A n \in 1 .. Len(items) : g[n] = onward[<<n, g[n - 1]>>]
    /\ WrittenOver(old, g[Len(items)])
    /\ \A n \in DOMAIN items : Stands(g[Len(items)], items[n])
    /\ \A h : /\ h[0] = old
              /\ \A n \in 1 .. Len(items) :
                    h[n - 1] \in ListsOf(old, items) => h[n] = onward[<<n, h[n - 1]>>]
              => h[Len(items)] = g[Len(items)]
CanBeWritten(old, items, onward) ==
  /\ onward \in [(1 .. Len(items)) \X ListsOf(old, items) -> ListsOf(old, items)]
  /\ \A n \in 1 .. Len(items) : \A l \in ListsOf(old, items) : IsWritten(l, onward[<<n, l>>], items[n])

LEMMA InOneGo ==
  ASSUME NEW old, Preview!AreItems(old), NEW items, Preview!AreItems(items),
         NEW offset, AreMatched(items, offset),
         NEW onward, CanBeWritten(old, items, onward)
  PROVE  IsOneWay(old, items, onward)
<1> DEFINE N == Len(items)
           V == ListsOf(old, items)
<1>1. /\ N \in Nat /\ DOMAIN items = 1 .. N /\ \A n \in DOMAIN items : IsItem(items[n])
      /\ Preview!NoId \notin Preview!Ids(old)
  BY ItemsAre
<1>2. old \in V
  <2>1. old \in Seq({old[i] : i \in DOMAIN old})
    BY DEF Preview!AreItems
  <2>2. old \in Seq(WrittenTo(old, items))
    BY <2>1 DEF WrittenTo
  <2>3. QED
    BY <1>1, <2>2 DEF ListsOf
<1>3. onward \in [(1 .. N) \X V -> V] /\ \A n \in 1 .. N : \A l \in V : IsWritten(l, onward[<<n, l>>], items[n])
  BY DEF CanBeWritten
<1> HIDE DEF V, N
<1>4. PICK g \in [0 .. N -> V] : g[0] = old /\ \A n \in 1 .. N : g[n] = onward[<<n, g[n - 1]>>]
  <2>1. \E g \in [0 .. N -> V] : Counted(g, N, old, onward)
    BY <1>1, <1>2, <1>3, CountedUp
  <2>2. QED
    BY <2>1 DEF Counted
<1>5. \A n \in 1 .. N : g[n - 1] \in V /\ IsWritten(g[n - 1], g[n], items[n])
  <2> SUFFICES ASSUME NEW n \in 1 .. N
               PROVE  g[n - 1] \in V /\ IsWritten(g[n - 1], g[n], items[n])
    OBVIOUS
  <2>1. n - 1 \in 0 .. N
    BY <1>1
  <2>2. QED
    BY <1>3, <1>4, <2>1
<1>6. WrittenOver(old, g[N]) /\ \A n \in 1 .. N : Stands(g[N], items[n])
  <2> DEFINE E == WrittenTo(old, items)
  <2>1. old \in Seq(E)
    BY <1>2 DEF V, ListsOf
  <2>2. \A n \in 1 .. N : \A id \in {items[n].id, Preview!Chosen(items[n].id)} \ {Preview!NoId} :
            Preview!Under(items[n], id) \in E
    <3> SUFFICES ASSUME NEW n \in DOMAIN items,
                        NEW id \in {items[n].id, Preview!Chosen(items[n].id)} \ {Preview!NoId}
                 PROVE  Preview!Under(items[n], id) \in E
      BY <1>1
    <3>1. Preview!Under(items[n], id) \in {Preview!Under(items[n], i) : i \in {items[n].id, Preview!Chosen(items[n].id)} \ {Preview!NoId}}
      OBVIOUS
    <3>2. QED
      BY <3>1 DEF WrittenTo
  <2>3. /\ offset \in Nat
        /\ \A n \in 1 .. N : offset + n \in DOMAIN matches /\ matches[offset + n].id = items[n].id
    BY <1>1 DEF AreMatched
  <2> HIDE DEF E
  <2>4. QED
    BY <1>1, <1>4, <1>5, <2>1, <2>2, <2>3, AllWritten
<1>7. ASSUME NEW h, h[0] = old, \A n \in 1 .. N : h[n - 1] \in V => h[n] = onward[<<n, h[n - 1]>>]
      PROVE  h[N] = g[N]
  <2> DEFINE S == {i \in 0 .. N : h[i] = g[i]}
  <2>1. 0 \in S
    BY <1>1, <1>4, <1>7
  <2>2. ASSUME NEW n \in 1 .. N, n - 1 \in S PROVE n \in S
    <3>1. h[n - 1] = g[n - 1] /\ g[n - 1] \in V
      BY <1>5, <2>2
    <3>2. h[n] = onward[<<n, h[n - 1]>>] /\ g[n] = onward[<<n, g[n - 1]>>]
      BY <1>4, <1>7, <3>1
    <3>3. h[n] = g[n]
      BY <3>1, <3>2
    <3>4. QED
      BY <1>1, <3>3
  <2> HIDE DEF S
  <2>3. \A n \in 0 .. N : n \in S
    BY <1>1, <2>1, <2>2, InTurn
  <2>4. N \in S
    BY <1>1, <2>3
  <2>5. QED
    BY <2>4 DEF S
<1>8. QED
  BY <1>1, <1>4, <1>6, <1>7 DEF V, N, IsOneWay

\* Entities.
LEMMA LightsAreWritten ==
  ASSUME NEW old, Preview!AreItems(old), NEW items, Preview!AreItems(items),
         NEW offset, AreMatched(items, offset)
  PROVE  LET new == Preview!Written(old, items, Preview!AppliedEntity)
         IN WrittenOver(old, new) /\ \A n \in DOMAIN items : Stands(new, items[n])
<1> DEFINE N == Len(items)
           V == ListsOf(old, items)
           One(l, x) == Preview!AppliedEntity(l, x, Preview!Resolution(x.id), Preview!Chosen(x.id))
           onward == [p \in (1 .. N) \X V |-> One(p[2], items[p[1]])]
           lists[n \in 0 .. Len(items)] == IF n = 0 THEN old ELSE One(lists[n - 1], items[n])
<1>1. N \in Nat /\ DOMAIN items = 1 .. N /\ \A n \in DOMAIN items : IsItem(items[n])
  BY ItemsAre
<1>2. ASSUME NEW n \in 1 .. N, NEW l \in V
      PROVE  IsWritten(l, One(l, items[n]), items[n]) /\ One(l, items[n]) \in V
  <2>1. IsWritten(l, One(l, items[n]), items[n])
    BY <1>1, EntityIsWritten DEF ListsOf
  <2>2. QED
    BY <1>1, <2>1, StaysAList
<1>3. Preview!Written(old, items, Preview!AppliedEntity) = lists[N]
  BY DEF Preview!Written
<1> HIDE DEF V, One
<1>4. /\ onward \in [(1 .. N) \X V -> V]
      /\ \A n \in 1 .. N : \A l \in V :
            onward[<<n, l>>] = One(l, items[n]) /\ IsWritten(l, onward[<<n, l>>], items[n])
  BY <1>2
<1> HIDE DEF onward, lists, N
<1>5. PICK g \in [0 .. N -> V] :
        /\ g[0] = old /\ \A n \in 1 .. N : g[n] = onward[<<n, g[n - 1]>>]
        /\ WrittenOver(old, g[N]) /\ \A n \in DOMAIN items : Stands(g[N], items[n])
        /\ \A h : /\ h[0] = old
                  /\ \A n \in 1 .. N : h[n - 1] \in V => h[n] = onward[<<n, h[n - 1]>>]
                  => h[N] = g[N]
  <2>1. CanBeWritten(old, items, onward)
    BY <1>4 DEF CanBeWritten, N, V
  <2>2. IsOneWay(old, items, onward)
    BY <2>1, InOneGo
  <2>3. QED
    BY <2>2 DEF IsOneWay, N, V
<1>6. g = [n \in 0 .. N |-> IF n = 0 THEN old ELSE One(g[n - 1], items[n])]
  <2>1. ASSUME NEW n \in 0 .. N PROVE g[n] = IF n = 0 THEN old ELSE One(g[n - 1], items[n])
    <3>1. CASE n # 0
      <4>1. n \in 1 .. N /\ g[n - 1] \in V
        BY <1>1, <1>5, <3>1
      <4>2. QED
        BY <1>4, <1>5, <3>1, <4>1
    <3>2. QED
      BY <1>5, <3>1
  <2>2. QED
    BY <1>5, <2>1
<1>7. lists = [n \in 0 .. N |-> IF n = 0 THEN old ELSE One(lists[n - 1], items[n])]
  BY <1>6 DEF lists, N
<1>8. lists[0] = old /\ \A n \in 1 .. N : lists[n - 1] \in V => lists[n] = onward[<<n, lists[n - 1]>>]
  BY <1>1, <1>4, <1>7
<1>9. lists[N] = g[N]
  BY <1>5, <1>8
<1>10. QED
  BY <1>3, <1>5, <1>9

\* Automations: one is left out when the id chosen for it is there and it is not.
LEMMA AutomationsAreWritten ==
  ASSUME NEW old, Preview!AreItems(old), NEW items, Preview!AreItems(items),
         NEW offset, AreMatched(items, offset),
         \A n \in DOMAIN items : \/ Preview!Chosen(items[n].id) \in {items[n].id, Preview!NoId}
                               \/ Preview!Twice(items[n].id)
  PROVE  LET new == Preview!Written(old, items, Preview!AppliedItem)
         IN WrittenOver(old, new) /\ \A n \in DOMAIN items : Stands(new, items[n])
<1> DEFINE N == Len(items)
           V == ListsOf(old, items)
           One(l, x) == Preview!AppliedItem(l, x, Preview!Resolution(x.id), Preview!Chosen(x.id))
           onward == [p \in (1 .. N) \X V |-> One(p[2], items[p[1]])]
           lists[n \in 0 .. Len(items)] == IF n = 0 THEN old ELSE One(lists[n - 1], items[n])
<1>1. N \in Nat /\ DOMAIN items = 1 .. N /\ \A n \in DOMAIN items : IsItem(items[n])
  BY ItemsAre
<1>2. ASSUME NEW n \in 1 .. N, NEW l \in V
      PROVE  IsWritten(l, One(l, items[n]), items[n]) /\ One(l, items[n]) \in V
  <2>1. IsWritten(l, One(l, items[n]), items[n])
    <3>1. l \in Seq(WrittenTo(old, items)) /\ Preview!NoId \notin Preview!Ids(l) /\ IsItem(items[n])
      BY <1>1 DEF ListsOf
    <3>2. \/ items[n].id \in Preview!Ids(l) \/ Preview!Twice(items[n].id)
          \/ Preview!Chosen(items[n].id) \notin Preview!Ids(l)
      BY <1>1, <3>1
    <3>3. QED
      BY <3>1, <3>2, ItemIsWritten
  <2>2. QED
    BY <1>1, <2>1, StaysAList
<1>3. Preview!Written(old, items, Preview!AppliedItem) = lists[N]
  BY DEF Preview!Written
<1> HIDE DEF V, One
<1>4. /\ onward \in [(1 .. N) \X V -> V]
      /\ \A n \in 1 .. N : \A l \in V :
            onward[<<n, l>>] = One(l, items[n]) /\ IsWritten(l, onward[<<n, l>>], items[n])
  BY <1>2
<1> HIDE DEF onward, lists, N
<1>5. PICK g \in [0 .. N -> V] :
        /\ g[0] = old /\ \A n \in 1 .. N : g[n] = onward[<<n, g[n - 1]>>]
        /\ WrittenOver(old, g[N]) /\ \A n \in DOMAIN items : Stands(g[N], items[n])
        /\ \A h : /\ h[0] = old
                  /\ \A n \in 1 .. N : h[n - 1] \in V => h[n] = onward[<<n, h[n - 1]>>]
                  => h[N] = g[N]
  <2>1. CanBeWritten(old, items, onward)
    BY <1>4 DEF CanBeWritten, N, V
  <2>2. IsOneWay(old, items, onward)
    BY <2>1, InOneGo
  <2>3. QED
    BY <2>2 DEF IsOneWay, N, V
<1>6. g = [n \in 0 .. N |-> IF n = 0 THEN old ELSE One(g[n - 1], items[n])]
  <2>1. ASSUME NEW n \in 0 .. N PROVE g[n] = IF n = 0 THEN old ELSE One(g[n - 1], items[n])
    <3>1. CASE n # 0
      <4>1. n \in 1 .. N /\ g[n - 1] \in V
        BY <1>1, <1>5, <3>1
      <4>2. QED
        BY <1>4, <1>5, <3>1, <4>1
    <3>2. QED
      BY <1>5, <3>1
  <2>2. QED
    BY <1>5, <2>1
<1>7. lists = [n \in 0 .. N |-> IF n = 0 THEN old ELSE One(lists[n - 1], items[n])]
  BY <1>6 DEF lists, N
<1>8. lists[0] = old /\ \A n \in 1 .. N : lists[n - 1] \in V => lists[n] = onward[<<n, lists[n - 1]>>]
  BY <1>1, <1>4, <1>7
<1>9. lists[N] = g[N]
  BY <1>5, <1>8
<1>10. QED
  BY <1>3, <1>5, <1>9

-----------------------------------------------------------------------------
(* The preview and its application.                                         *)

\* The matches are those of the items, in their order; an automation has no
\* candidates, and matches the one of its id alone.
MatchesOf(all, items, automations) ==
  /\ Preview!AreItems(items) /\ Preview!AreItems(automations)
  /\ all \in Seq({all[n] : n \in DOMAIN all})
  /\ Len(all) = Len(items) + Len(automations)
  /\ \A i \in DOMAIN items : all[i].id = items[i].id
  /\ \A i \in DOMAIN automations :
       LET m == all[Len(items) + i] IN
       /\ m.id = automations[i].id /\ m.candidates = <<>>
       /\ m.matchedId \in {m.id, Preview!NoId}
MatchesAre == MatchesOf(matches, expansion, snippet.automation)

\* No other match has the id of the n-th.
Alone(n) == \A m \in DOMAIN matches : matches[m].id = matches[n].id => m = n

\* An automation is offered nothing but its own id, unless another item has it.
TargetsAre ==
  /\ DOMAIN matchTargets = Preview!Ids(matches)
  /\ \A n \in DOMAIN matches :
        n > Len(expansion) /\ Alone(n) => matchTargets[matches[n].id] \in {matches[n].id, Preview!NoId}

PreviewInv ==
  /\ snippet \in GallerySnippets /\ inputs \in Preview!InputsOf(snippet)
  /\ DOMAIN config = {"light", "automation"}
  /\ step # "done" => Preview!AreItems(config.light) /\ Preview!AreItems(config.automation)
  /\ step \in {"choose", "apply"} => MatchesAre /\ TargetsAre
  /\ step = "done" => Preview!SnippetIsApplied

LEMMA PreviewSettles == PreviewInv => Preview!SnippetIsApplied
BY DEF PreviewInv, Preview!SnippetIsApplied

LEMMA FirstInputs == ASSUME NEW s PROVE Preview!InitialInputs(s) \in Preview!InputsOf(s)
<1> DEFINE f == Preview!InitialInputs(s)
<1>1. f = [name \in DOMAIN f |-> f[name]]
  BY DEF Preview!InitialInputs
<1> HIDE DEF f
<1>2. f \in [DOMAIN f -> Typed \cup {f[name] : name \in DOMAIN f}]
  BY <1>1
<1>3. QED
  BY <1>2 DEF Preview!InputsOf, f

LEMMA PreviewInitially == UiInit => PreviewInv
<1> SUFFICES ASSUME UiInit PROVE PreviewInv
  OBVIOUS
<1>1. Preview!Init
  BY DEF UiInit
<1>2. snippet \in GallerySnippets /\ config = Configuration /\ step = "open"
  BY <1>1 DEF Preview!Init
<1>3. inputs \in Preview!InputsOf(snippet)
  BY <1>1, FirstInputs DEF Preview!Init
<1>4. Preview!AreItems(config.light) /\ Preview!AreItems(config.automation)
  BY <1>2, PreviewAssumption
<1>5. QED
  BY <1>2, <1>3, <1>4, PreviewAssumption DEF PreviewInv

\* The choices decide who writes where.
LEMMA WritersStay ==
  ASSUME UNCHANGED <<matches, matchActions, matchTargets>>, NEW id
  PROVE  Preview!Chosen(id)' = Preview!Chosen(id) /\ Preview!Writers(id)' = Preview!Writers(id)
<1>1. \A x : Preview!Chosen(x)' = Preview!Chosen(x)
  BY DEF Preview!Chosen, Preview!LastOf
<1>2. QED
  BY <1>1 DEF Preview!Writers

LEMMA PreviewAlike == PreviewInv /\ UNCHANGED previewVars => PreviewInv'
<1> SUFFICES ASSUME PreviewInv, UNCHANGED previewVars PROVE PreviewInv'
  OBVIOUS
<1>1. MatchesAre => MatchesAre'
  BY DEF MatchesAre, MatchesOf, previewVars
<1>2. TargetsAre => TargetsAre'
  BY DEF TargetsAre, Alone, previewVars
<1>3. Preview!SnippetIsApplied => Preview!SnippetIsApplied'
  <2>1. \A id : Preview!Chosen(id)' = Preview!Chosen(id) /\ Preview!Writers(id)' = Preview!Writers(id)
    BY WritersStay DEF previewVars
  <2>2. \A id : Preview!Twice(id)' = Preview!Twice(id)
    BY <2>1 DEF Preview!Twice
  <2>3. Preview!Items' = Preview!Items
    BY DEF Preview!Items, previewVars
  <2>4. QED
    BY <2>1, <2>2, <2>3 DEF Preview!SnippetIsApplied, previewVars
<1>4. QED
  BY <1>1, <1>2, <1>3 DEF PreviewInv, previewVars

\* A list of items that have ids.
LEMMA ItemsFrom ==
  ASSUME NEW E, \A x \in E : IsItem(x), NEW l \in Seq(E)
  PROVE  Preview!AreItems(l)
<1>1. \A i \in DOMAIN l : l[i] \in E
  OBVIOUS
<1>2. l \in Seq({l[i] : i \in DOMAIN l})
  OBVIOUS
<1>3. QED
  BY <1>1, <1>2 DEF Preview!AreItems, IsItem

LEMMA LessAnItem ==
  ASSUME NEW l, Preview!AreItems(l), NEW id
  PROVE  Preview!AreItems(Preview!Without(l, id))
<1> DEFINE E == {l[i] : i \in DOMAIN l}
           p == Preview!PlaceOf(l, id)
<1>1. l \in Seq(E) /\ \A x \in E : IsItem(x)
  BY ItemsAre DEF Preview!AreItems
<1> HIDE DEF E
<1>2. CASE id \in Preview!Ids(l)
  <2>1. p \in DOMAIN l
    BY <1>1, <1>2, PlaceIs
  <2> HIDE DEF p
  <2>2. p \in 1 .. Len(l) /\ Len(l) \in Nat
    BY <1>1, <2>1
  <2>3. SubSeq(l, 1, p - 1) \in Seq(E) /\ SubSeq(l, p + 1, Len(l)) \in Seq(E)
    BY <1>1, <2>2
  <2>4. SubSeq(l, 1, p - 1) \o SubSeq(l, p + 1, Len(l)) \in Seq(E)
    BY <2>3, ConcatProperties
  <2>5. Preview!Without(l, id) \in Seq(E)
    BY <1>2, <2>4 DEF Preview!Without, p
  <2>6. QED
    BY <1>1, <2>5, ItemsFrom
<1>3. QED
  BY <1>2 DEF Preview!Without

LEMMA OneLightMore ==
  ASSUME NEW l, Preview!AreItems(l), NEW id, id # Preview!NoId
  PROVE  Preview!AreItems(Append(l, Preview!PlainLight(id)))
<1> DEFINE E == {l[i] : i \in DOMAIN l} \cup {Preview!PlainLight(id)}
<1>1. l \in Seq(E) /\ \A x \in E : IsItem(x)
  <2>1. l \in Seq({l[i] : i \in DOMAIN l}) /\ \A i \in DOMAIN l : IsItem(l[i])
    BY ItemsAre DEF Preview!AreItems
  <2>2. IsItem(Preview!PlainLight(id))
    BY DEF IsItem, Preview!PlainLight
  <2>3. QED
    BY <2>1, <2>2
<1> HIDE DEF E
<1>2. Preview!PlainLight(id) \in E
  BY DEF E
<1>3. Append(l, Preview!PlainLight(id)) \in Seq(E)
  BY <1>1, <1>2
<1>4. QED
  BY <1>1, <1>3, ItemsFrom

\* What the items resemble is looked up in their order.
LEMMA MatchesCome ==
  ASSUME PreviewInv, Preview!Check
  PROVE  MatchesOf(matches', expansion', snippet.automation)
<1> DEFINE a == [i \in DOMAIN expansion' |-> Preview!EntityMatch(expansion'[i], config.light)]
           b == [i \in DOMAIN snippet.automation |->
                   Preview!ItemMatch(snippet.automation[i], config.automation)]
           k == Len(expansion')
           N == Len(snippet.automation)
           S == {a[i] : i \in DOMAIN a} \cup {b[i] : i \in DOMAIN b}
<1>1. /\ snippet \in GallerySnippets /\ inputs \in Preview!InputsOf(snippet) /\ snippet' = snippet
      /\ Preview!Expansion # Preview!Throws /\ expansion' = Preview!Expansion.of
  BY DEF PreviewInv, Preview!Check
<1>2. Preview!AreItems(expansion') /\ Preview!AreItems(snippet.automation)
  BY <1>1, PreviewAssumption DEF Preview!Expansion
<1>3. k \in Nat /\ DOMAIN expansion' = 1 .. k /\ N \in Nat /\ DOMAIN snippet.automation = 1 .. N
  BY <1>2, ItemsAre
<1>4. a \in Seq(S) /\ Len(a) = k /\ b \in Seq(S) /\ Len(b) = N
  BY <1>3
<1>5. matches' = a \o b
  BY DEF Preview!Check, Preview!Matches
<1>6. \A i \in 1 .. k : a[i].id = expansion'[i].id
  BY <1>3 DEF Preview!EntityMatch, Preview!Best
<1>7. \A i \in 1 .. N : /\ b[i].id = snippet.automation[i].id /\ b[i].candidates = <<>>
                         /\ b[i].matchedId \in {b[i].id, Preview!NoId}
  BY <1>3 DEF Preview!ItemMatch
<1> HIDE DEF a, b, k, N, S
<1>8. /\ matches' \in Seq(S) /\ Len(matches') = k + N
      /\ \A i \in 1 .. k + N : matches'[i] = IF i <= k THEN a[i] ELSE b[i - k]
  BY <1>4, <1>5, ConcatProperties
<1>9. matches' \in Seq({matches'[n] : n \in DOMAIN matches'})
  BY <1>8
<1>10. \A i \in 1 .. k : matches'[i] = a[i]
  BY <1>3, <1>8
<1>11. \A i \in 1 .. N : matches'[k + i] = b[i]
  <2> SUFFICES ASSUME NEW i \in 1 .. N PROVE matches'[k + i] = b[i]
    OBVIOUS
  <2>1. k + i \in 1 .. k + N /\ ~ (k + i <= k) /\ (k + i) - k = i
    BY <1>3
  <2>2. QED
    BY <1>8, <2>1
<1>12. Len(matches') = Len(expansion') + Len(snippet.automation)
  BY <1>8 DEF k, N
<1>13. \A i \in DOMAIN expansion' : matches'[i].id = expansion'[i].id
  BY <1>3, <1>6, <1>10
<1>14. \A i \in DOMAIN snippet.automation :
         /\ matches'[Len(expansion') + i].id = snippet.automation[i].id
         /\ matches'[Len(expansion') + i].candidates = <<>>
         /\ matches'[Len(expansion') + i].matchedId
              \in {matches'[Len(expansion') + i].id, Preview!NoId}
  BY <1>3, <1>7, <1>11 DEF k
<1>15. QED
  BY <1>2, <1>9, <1>12, <1>13, <1>14 DEF MatchesOf

\* The last of a list that has an id, when no other has it.
LEMMA LastIs ==
  ASSUME NEW E, NEW l \in Seq(E), NEW n \in DOMAIN l,
         \A m \in DOMAIN l : l[m].id = l[n].id => m = n
  PROVE  Preview!LastOf(l, l[n].id) = n
<1>1. DOMAIN l = 1 .. Len(l) /\ Len(l) \in Nat /\ n \in 1 .. Len(l)
  OBVIOUS
<1>2. \A j \in n + 1 .. Len(l) : j \in DOMAIN l /\ j # n
  BY <1>1
<1>3. l[n].id = l[n].id /\ \A j \in n + 1 .. Len(l) : l[j].id # l[n].id
  BY <1>2
<1>4. QED
  BY <1>3 DEF Preview!LastOf

\* The matches after those of the entities are of the automations.
LEMMA TheMatchIs ==
  ASSUME NEW all, NEW items, NEW automations, MatchesOf(all, items, automations),
         NEW n \in DOMAIN all, n > Len(items)
  PROVE  all[n].candidates = <<>> /\ all[n].matchedId \in {all[n].id, Preview!NoId}
<1> DEFINE k == Len(items)
           N == Len(automations)
<1>1. k \in Nat /\ N \in Nat /\ DOMAIN automations = 1 .. N
  BY ItemsAre DEF MatchesOf
<1>2. DOMAIN all = 1 .. k + N
  BY DEF MatchesOf
<1>3. n - k \in 1 .. N /\ k + (n - k) = n
  BY <1>1, <1>2
<1>4. \A i \in DOMAIN automations :
         /\ all[k + i].candidates = <<>>
         /\ all[k + i].matchedId \in {all[k + i].id, Preview!NoId}
  BY DEF MatchesOf
<1>5. QED
  BY <1>1, <1>3, <1>4

\* What is offered for an item without candidates.
LEMMA DefaultIs ==
  ASSUME NEW all
  PROVE  /\ DOMAIN Preview!DefaultTargets(all) = Preview!Ids(all)
         /\ \A id \in Preview!Ids(all) :
              all[Preview!LastOf(all, id)].candidates = <<>> =>
                 Preview!DefaultTargets(all)[id] \in {all[Preview!LastOf(all, id)].matchedId, Preview!NoId}
BY DEF Preview!DefaultTargets

LEMMA SnippetChecked == ASSUME PreviewInv, Preview!Check PROVE PreviewInv'
<1>1. MatchesOf(matches', expansion', snippet.automation)
  BY MatchesCome
<1>2. snippet \in GallerySnippets /\ snippet' = snippet
  BY DEF PreviewInv, Preview!Check
<1>3. \A n \in DOMAIN matches' : n > Len(expansion') =>
         matches'[n].candidates = <<>> /\ matches'[n].matchedId \in {matches'[n].id, Preview!NoId}
  BY <1>1, TheMatchIs
<1>4. matchTargets' = Preview!DefaultTargets(matches')
  BY DEF Preview!Check
<1>5. ASSUME NEW n \in DOMAIN matches', n > Len(expansion'),
             \A m \in DOMAIN matches' : matches'[m].id = matches'[n].id => m = n
      PROVE  matchTargets'[matches'[n].id] \in {matches'[n].id, Preview!NoId}
  <2>1. Preview!LastOf(matches', matches'[n].id) = n
    BY <1>1, <1>5, LastIs DEF MatchesOf
  <2>2. matches'[n].id \in Preview!Ids(matches')
    BY DEF Preview!Ids
  <2>3. matchTargets'[matches'[n].id] \in {matches'[n].matchedId, Preview!NoId}
    BY <1>3, <1>4, <1>5, <2>1, <2>2, DefaultIs
  <2>4. QED
    BY <1>3, <1>5, <2>3
<1>6. TargetsAre'
  <2>1. DOMAIN matchTargets' = Preview!Ids(matches')
    BY <1>4, DefaultIs
  <2>2. QED
    BY <1>5, <2>1 DEF TargetsAre, Alone, Preview!Ids
<1>7. /\ inputs' = inputs /\ config' = config /\ step = "open" /\ step' \in {"choose", "apply"}
  BY DEF Preview!Check
<1>8. MatchesAre'
  BY <1>1, <1>2 DEF MatchesAre, MatchesOf
<1>9. QED
  BY <1>2, <1>6, <1>7, <1>8 DEF PreviewInv

LEMMA OptionSelected ==
  ASSUME PreviewInv, NEW n \in DOMAIN matches, NEW k \in DOMAIN matches[n].candidates,
         Preview!SelectOption(matches[n], matches[n].candidates[k])
  PROVE  PreviewInv'
<1>1. step = "choose" /\ MatchesAre /\ TargetsAre
  BY DEF PreviewInv, Preview!SelectOption
<1>2. /\ UNCHANGED <<snippet, inputs, config, step, matches, expansion>>
      /\ matchTargets' = [matchTargets EXCEPT ![matches[n].id] = matches[n].candidates[k].id]
  BY DEF Preview!SelectOption
<1>3. ~ (n > Len(expansion))
  <2>1. n > Len(expansion) => matches[n].candidates = <<>>
    BY <1>1, TheMatchIs DEF MatchesAre
  <2>2. DOMAIN <<>> = {}
    OBVIOUS
  <2>3. QED
    BY <2>1, <2>2
<1>4. \A m \in DOMAIN matches : m > Len(expansion) /\ Alone(m) =>
         matches[n].id # matches[m].id /\ matchTargets'[matches[m].id] = matchTargets[matches[m].id]
  <2>1. \A m \in DOMAIN matches : matches[m].id \in DOMAIN matchTargets
    BY <1>1 DEF TargetsAre, Preview!Ids
  <2>2. QED
    BY <1>2, <1>3, <2>1 DEF Alone
<1>5. TargetsAre'
  <2>1. DOMAIN matchTargets' = Preview!Ids(matches')
    BY <1>1, <1>2 DEF TargetsAre, Preview!Ids
  <2>2. QED
    BY <1>1, <1>2, <1>4, <2>1 DEF TargetsAre, Alone, Preview!Ids
<1>6. MatchesAre'
  BY <1>1, <1>2 DEF MatchesAre, MatchesOf
<1>7. QED
  BY <1>1, <1>2, <1>5, <1>6 DEF PreviewInv

\* The id that is chosen for an automation is its own, unless another item is
\* written under it.
LEMMA ChosenIs ==
  ASSUME MatchesAre, TargetsAre, NEW n \in DOMAIN matches, n > Len(expansion),
         matches[n].id # Preview!NoId
  PROVE  \/ Preview!Chosen(matches[n].id) \in {matches[n].id, Preview!NoId}
         \/ Preview!Twice(matches[n].id)
<1> DEFINE id == matches[n].id
<1>1. CASE matchActions[id] # "overwrite"
  BY <1>1 DEF Preview!Chosen
<1>2. CASE matchActions[id] = "overwrite" /\ Alone(n)
  <2>1. matchTargets[id] \in {id, Preview!NoId}
    BY <1>2 DEF TargetsAre
  <2>2. Preview!LastOf(matches, id) = n
    BY <1>2, LastIs DEF MatchesAre, MatchesOf, Alone
  <2>3. matches[n].matchedId \in {id, Preview!NoId}
    BY TheMatchIs DEF MatchesAre
  <2>4. QED
    BY <2>1, <2>2, <2>3 DEF Preview!Chosen
<1>3. CASE matchActions[id] = "overwrite" /\ ~ Alone(n)
  <2>1. PICK m \in DOMAIN matches : matches[m].id = id /\ m # n
    BY <1>3 DEF Alone
  <2>2. m \in Preview!Writers(id) /\ n \in Preview!Writers(id)
    BY <1>3, <2>1 DEF Preview!Writers
  <2>3. QED
    BY <2>1, <2>2 DEF Preview!Twice
<1>4. QED
  BY <1>1, <1>2, <1>3

\* What the property asks of one list.
AppliedTo(old, new, items) ==
  /\ Preview!Ids(old) \subseteq Preview!Ids(new)
  /\ Preview!Apart(old) => Preview!Apart(new)
  /\ \A i \in DOMAIN old : Preview!Writers(old[i].id) = {} => new[i] = old[i]
  /\ \A n \in DOMAIN items :
       matchActions[items[n].id] # "skip" =>
          \E id \in {items[n].id, Preview!Chosen(items[n].id)} :
              \/ \E i \in DOMAIN new : new[i] = Preview!Under(items[n], id)
              \/ Preview!Twice(id)

LEMMA WrittenIsApplied ==
  ASSUME NEW old, NEW new, NEW items, WrittenOver(old, new),
         \A n \in DOMAIN items : Stands(new, items[n])
  PROVE  AppliedTo(old, new, items)
<1>1. Preview!Ids(old) \subseteq Preview!Ids(new)
  BY DEF WrittenOver, Preview!Ids
<1>2. \A x : Preview!Resolution(x) = "skip" => matchActions[x] = "skip"
  BY DEF Preview!Resolution
<1>3. \A n \in DOMAIN items :
       matchActions[items[n].id] # "skip" =>
          \E id \in {items[n].id, Preview!Chosen(items[n].id)} :
              \/ \E i \in DOMAIN new : new[i] = Preview!Under(items[n], id)
              \/ Preview!Twice(id)
  BY <1>2 DEF Stands
<1>4. QED
  BY <1>1, <1>3 DEF WrittenOver, AppliedTo

LEMMA SnippetWritten ==
  ASSUME PreviewInv, Preview!Apply
  PROVE  PreviewInv'
<1>1. /\ step = "apply" /\ MatchesAre /\ TargetsAre /\ snippet \in GallerySnippets
      /\ UNCHANGED <<snippet, inputs>>
      /\ Preview!AreItems(config.light) /\ Preview!AreItems(config.automation)
  BY DEF PreviewInv, Preview!Apply
<1>2. CASE step' = "done"
  <2> DEFINE lights == Preview!Written(config.light, expansion, Preview!AppliedEntity)
             automations == Preview!Written(config.automation, snippet.automation, Preview!AppliedItem)
             k == Len(expansion)
  <2>1. /\ before' = config /\ config' = [light |-> lights, automation |-> automations]
        /\ UNCHANGED <<expansion, matches, matchActions, matchTargets>>
    BY <1>2 DEF Preview!Apply, Preview!Reopen, Preview!choices
  <2>2. /\ Preview!AreItems(expansion) /\ Preview!AreItems(snippet.automation)
        /\ DOMAIN matches = 1 .. k + Len(snippet.automation)
        /\ \A i \in DOMAIN expansion : matches[i].id = expansion[i].id
        /\ \A i \in DOMAIN snippet.automation : matches[k + i].id = snippet.automation[i].id
    BY <1>1 DEF MatchesAre, MatchesOf
  <2>3. /\ k \in Nat /\ DOMAIN expansion = 1 .. k
        /\ Len(snippet.automation) \in Nat /\ DOMAIN snippet.automation = 1 .. Len(snippet.automation)
        /\ \A i \in DOMAIN snippet.automation : snippet.automation[i].id # Preview!NoId
    BY <2>2, ItemsAre DEF IsItem
  <2> HIDE DEF lights, automations, k
  <2>4. AreMatched(expansion, 0) /\ AreMatched(snippet.automation, k)
    BY <2>2, <2>3 DEF AreMatched
  <2>5. AppliedTo(config.light, lights, expansion)
    BY <1>1, <2>2, <2>4, LightsAreWritten, WrittenIsApplied DEF lights
  <2>6. AppliedTo(config.automation, automations, snippet.automation)
    <3>1. ASSUME NEW i \in DOMAIN snippet.automation
          PROVE  \/ Preview!Chosen(snippet.automation[i].id) \in {snippet.automation[i].id, Preview!NoId}
                 \/ Preview!Twice(snippet.automation[i].id)
      <4>1. k + i \in DOMAIN matches /\ k + i > k /\ matches[k + i].id = snippet.automation[i].id
        BY <2>2, <2>3
      <4>2. QED
        BY <1>1, <2>3, <4>1, ChosenIs DEF k
    <3>2. QED
      BY <1>1, <2>2, <2>4, <3>1, AutomationsAreWritten, WrittenIsApplied DEF automations
  <2>7. \A id : /\ Preview!Writers(id)' = Preview!Writers(id) /\ Preview!Chosen(id)' = Preview!Chosen(id)
                /\ Preview!Twice(id)' = Preview!Twice(id)
    <3>1. \A id : Preview!Writers(id)' = Preview!Writers(id) /\ Preview!Chosen(id)' = Preview!Chosen(id)
      BY <2>1, WritersStay
    <3>2. QED
      BY <3>1 DEF Preview!Twice
  <2>8. /\ before'["light"] = config.light /\ config'["light"] = lights /\ Preview!Items'["light"] = expansion
        /\ before'["automation"] = config.automation /\ config'["automation"] = automations
        /\ Preview!Items'["automation"] = snippet.automation
    BY <1>1, <2>1 DEF Preview!Items
  <2>9. Preview!SnippetIsApplied'
    BY <2>1, <2>5, <2>6, <2>7, <2>8 DEF Preview!SnippetIsApplied, AppliedTo
  <2>10. QED
    BY <1>1, <1>2, <2>1, <2>9 DEF PreviewInv
<1>3. CASE step' # "done"
  BY <1>1, <1>3 DEF Preview!Apply, Preview!Reopen, PreviewInv
<1>4. QED
  BY <1>2, <1>3

LEMMA OtherEdited ==
  ASSUME PreviewInv, NEW id \in OtherIds, Preview!OtherEdit(id)
  PROVE  PreviewInv'
<1>1. /\ step # "done" /\ DOMAIN config = {"light", "automation"} /\ id # Preview!NoId
      /\ Preview!AreItems(config.light) /\ Preview!AreItems(config.automation)
      /\ UNCHANGED <<snippet, inputs, step, expansion, matches, matchTargets>>
  BY PreviewAssumption DEF PreviewInv, Preview!OtherEdit, Preview!choices
<1>2. /\ DOMAIN config' = {"light", "automation"}
      /\ Preview!AreItems(config'.light) /\ Preview!AreItems(config'.automation)
  <2>1. CASE id \in Preview!Ids(config.light) \cup Preview!Ids(config.automation)
    <3>1. config' = [l \in DOMAIN config |-> Preview!Without(config[l], id)]
      BY <2>1 DEF Preview!OtherEdit
    <3>2. /\ DOMAIN config' = {"light", "automation"}
          /\ config'.light = Preview!Without(config.light, id)
          /\ config'.automation = Preview!Without(config.automation, id)
      BY <1>1, <3>1
    <3>3. QED
      BY <1>1, <3>2, LessAnItem
  <2>2. CASE ~ (id \in Preview!Ids(config.light) \cup Preview!Ids(config.automation))
    <3>1. config' = [config EXCEPT !.light = Append(config.light, Preview!PlainLight(id))]
      BY <2>2 DEF Preview!OtherEdit
    <3>2. /\ DOMAIN config' = {"light", "automation"}
          /\ config'.light = Append(config.light, Preview!PlainLight(id))
          /\ config'.automation = config.automation
      BY <1>1, <3>1
    <3>3. QED
      BY <1>1, <3>2, OneLightMore
  <2>3. QED
    BY <2>1, <2>2
<1>3. (MatchesAre => MatchesAre') /\ (TargetsAre => TargetsAre')
  BY <1>1 DEF MatchesAre, MatchesOf, TargetsAre, Alone, Preview!Ids
<1>4. QED
  BY <1>1, <1>2, <1>3 DEF PreviewInv

\* Steps that leave lists, matches and targets as they are.
LEMMA PreviewStays ==
  ASSUME PreviewInv, UNCHANGED <<snippet, config, matches, expansion, matchTargets>>,
         inputs' \in Preview!InputsOf(snippet),
         step' \in {step, "open"} \/ {step, step'} \subseteq {"choose", "apply"},
         step # "done"
  PROVE  PreviewInv'
<1>1. (MatchesAre => MatchesAre') /\ (TargetsAre => TargetsAre')
  BY DEF MatchesAre, MatchesOf, TargetsAre, Alone, Preview!Ids
<1>2. QED
  BY <1>1 DEF PreviewInv

LEMMA ParameterTyped ==
  ASSUME PreviewInv, NEW name \in DOMAIN inputs, NEW v \in Typed, Preview!Type(name, v)
  PROVE  PreviewInv'
<1>1. inputs \in Preview!InputsOf(snippet) /\ inputs' = [inputs EXCEPT ![name] = v] /\ step = "open"
  BY DEF PreviewInv, Preview!Type
<1>2. inputs' \in Preview!InputsOf(snippet)
  BY <1>1 DEF Preview!InputsOf
<1>3. UNCHANGED <<snippet, config, matches, expansion, matchTargets>> /\ step' = step
  BY DEF Preview!Type, Preview!choices
<1>4. step # "done"
  BY <1>1
<1>5. QED
  BY <1>2, <1>3, <1>4, PreviewStays

LEMMA PreviewKept == PreviewInv /\ Preview!Next => PreviewInv'
<1> SUFFICES ASSUME PreviewInv, Preview!Next PROVE PreviewInv'
  OBVIOUS
<1>0. inputs \in Preview!InputsOf(snippet)
  BY DEF PreviewInv
<1>1. ASSUME NEW name \in DOMAIN inputs, NEW v \in Typed, Preview!Type(name, v) PROVE PreviewInv'
  BY <1>1, ParameterTyped
<1>2. CASE Preview!Check
  BY <1>2, SnippetChecked
<1>3. CASE Preview!Force
  BY <1>0, <1>3, PreviewStays DEF Preview!Force, Preview!choices
<1>4. CASE Preview!Confirm
  BY <1>0, <1>4, PreviewStays DEF Preview!Confirm, Preview!choices
<1>5. CASE Preview!Cancel
  <2>1. /\ UNCHANGED <<config, snippet, inputs>> /\ step = "choose" /\ step' = "open"
    BY <1>5 DEF Preview!Cancel, Preview!Reopen
  <2>2. QED
    BY <2>1 DEF PreviewInv
<1>6. CASE Preview!Apply
  BY <1>6, SnippetWritten
<1>7. ASSUME NEW n \in DOMAIN matches, NEW k \in DOMAIN matches[n].candidates,
             Preview!SelectOption(matches[n], matches[n].candidates[k])
      PROVE  PreviewInv'
  BY <1>7, OptionSelected
<1>8. ASSUME NEW m, NEW action, Preview!Decide(m, action) PROVE PreviewInv'
  BY <1>0, <1>8, PreviewStays DEF Preview!Decide
<1>9. ASSUME NEW m, NEW id, Preview!TypeId(m, id) PROVE PreviewInv'
  BY <1>0, <1>9, PreviewStays DEF Preview!TypeId
<1>10. ASSUME NEW id \in OtherIds, Preview!OtherEdit(id) PROVE PreviewInv'
  BY <1>10, OtherEdited
<1>11. QED
  BY <1>1, <1>2, <1>3, <1>4, <1>5, <1>6, <1>7, <1>8, <1>9, <1>10 DEF Preview!Next

\* Whatever the user decides and other clients edit meanwhile: an application
\* leaves every item as it was that no item of the snippet is written over, loses
\* no id and gives none twice, and an item that is not skipped is there under its
\* id or the chosen one, unless two were written to one place (gallery.routes.ts),
\* for any snippets, templates, inputs and lists of items that have ids.
THEOREM SnippetIsAppliedCorrect == UiSpec => []SnippetIsApplied
<1>1. UiInit => PreviewInv
  BY PreviewInitially
<1>2. PreviewInv /\ [UiNext]_uiVars => PreviewInv'
  <2> SUFFICES ASSUME PreviewInv, [UiNext]_uiVars PROVE PreviewInv'
    OBVIOUS
  <2>1. Preview!Next \/ UNCHANGED previewVars
    BY DEF UiNext, uiVars, ViewStep, WizardStep, StoredStep, PageStep, SharingStep, ListedStep,
       DetailStep, RecordStep, BoardStep, PreviewStep
  <2>2. QED
    BY <2>1, PreviewKept, PreviewAlike
<1>3. PreviewInv => SnippetIsApplied
  BY PreviewSettles DEF SnippetIsApplied
<1>4. QED
  BY <1>1, <1>2, <1>3, PTL DEF UiSpec
=============================================================================

------------------------------ MODULE LogSharing ------------------------------
(***************************************************************************)
(* The consent to share logs, as the page of settings shows and changes it     *)
(* (Settings.svelte, LogConsentModal.svelte) and the service keeps it          *)
(* (/api/log-sharing, logs.routes.ts).  What the service does with the consent  *)
(* is in RawConsumers.  Answers come in any order, or not at all.             *)
(***************************************************************************)
EXTENDS Integers, FiniteSets

CONSTANT MaxRequests     \* bound: requests of the page

VARIABLES
    consented, initialized,   \* of the service: the consent, .initialized
    logSharingStatus,         \* the consent as shown, or "unknown"
    showConsentModal, isConsenting,
    requests,                 \* in flight: [id, asks, answer, from]
    sent,
    settled,                  \* history: the last request whose answer was applied
    astray                    \* history: answers were refused, lost or overtaken

vars == <<consented, initialized, logSharingStatus, showConsentModal, isConsenting, requests, sent,
          settled, astray>>

\* `asks` is "yes", "no" or "status"; `answer` is what the service said.
Request(asks, from) ==
    [id |-> sent + 1, asks |-> asks, from |-> from, answer |-> "none"]

Send(asks, from) ==
    /\ sent < MaxRequests /\ sent' = sent + 1
    /\ requests' = requests \cup {Request(asks, from)}

Init ==
    /\ consented \in {"yes", "no"} /\ initialized \in BOOLEAN
    /\ consented = "yes" => initialized
    /\ logSharingStatus = "unknown"
    /\ showConsentModal = FALSE /\ isConsenting = 0
    /\ requests = {[id |-> 1, asks |-> "status", from |-> "page", answer |-> "none"]} /\ sent = 1
    /\ settled = 0 /\ astray = {}

-----------------------------------------------------------------------------
\* handleLogSharingToggle: yes asks first, no is shown at once.
ToggleOn ==
    /\ logSharingStatus = "no" /\ ~showConsentModal
    /\ showConsentModal' = TRUE
    /\ UNCHANGED <<consented, initialized, logSharingStatus, isConsenting, requests, sent, settled,
                   astray>>

ToggleOff ==
    /\ logSharingStatus = "yes" /\ ~showConsentModal
    /\ logSharingStatus' = "no"
    /\ Send("no", "page")
    /\ UNCHANGED <<consented, initialized, showConsentModal, isConsenting, settled, astray>>

\* The modal; closing it without a word fetches the status again.
Decide(consent) ==
    /\ showConsentModal /\ isConsenting = 0
    /\ isConsenting' = sent + 1
    /\ Send(consent, "modal")
    /\ UNCHANGED <<consented, initialized, logSharingStatus, showConsentModal, settled, astray>>

CloseModal ==
    /\ showConsentModal
    /\ showConsentModal' = FALSE /\ isConsenting' = 0
    /\ Send("status", "page")
    /\ UNCHANGED <<consented, initialized, logSharingStatus, settled, astray>>

\* The service: a consent is kept, and the first one ends the set-up.
Serve(r) ==
    /\ r.answer = "none"
    /\ consented' = IF r.asks = "status" THEN consented ELSE r.asks
    /\ initialized' = (initialized \/ r.asks # "status")
    /\ requests' = (requests \ {r}) \cup {[r EXCEPT !.answer = consented']}
    /\ astray' = IF \E q \in requests : q.answer = "none" /\ q.id < r.id
                 THEN astray \cup {"overtaken"} ELSE astray
    /\ UNCHANGED <<logSharingStatus, showConsentModal, isConsenting, sent, settled>>

\* The limiter refuses a consent, not a question.
Refuse(r) ==
    /\ r.answer = "none" /\ r.asks # "status"
    /\ requests' = (requests \ {r}) \cup {[r EXCEPT !.answer = "refused"]}
    /\ UNCHANGED <<consented, initialized, logSharingStatus, showConsentModal, isConsenting, sent,
                   settled, astray>>

\* handleConsent: any answer closes the modal and the status is fetched.
ModalAnswered(r) ==
    /\ r.from = "modal" /\ r.answer # "none" /\ sent < MaxRequests
    /\ sent' = sent + 1
    /\ requests' = (requests \ {r}) \cup {Request("status", "page")}
    /\ showConsentModal' = FALSE /\ isConsenting' = 0
    /\ UNCHANGED <<consented, initialized, logSharingStatus, settled, astray>>

\* An answer is shown, in the order in which answers come; what is refused is not.
PageAnswered(r) ==
    /\ r.from = "page" /\ r.answer # "none"
    /\ requests' = requests \ {r}
    /\ logSharingStatus' = IF r.answer = "refused" THEN logSharingStatus ELSE r.answer
    /\ settled' = IF r.id > settled THEN r.id ELSE settled
    /\ astray' = astray \cup (IF r.id < settled THEN {"overtaken"} ELSE {})
                        \cup (IF r.answer = "refused" THEN {"refused"} ELSE {})
    /\ UNCHANGED <<consented, initialized, showConsentModal, isConsenting, sent>>

\* No answer: the toggle is taken back, the modal stays.
Lost(r) ==
    /\ requests' = requests \ {r}
    /\ logSharingStatus' = IF r.from = "page" /\ r.asks = "no" /\ logSharingStatus # "unknown"
                           THEN "yes" ELSE logSharingStatus
    /\ isConsenting' = IF isConsenting = r.id THEN 0 ELSE isConsenting
    /\ astray' = astray \cup {"lost"}
    /\ UNCHANGED <<consented, initialized, showConsentModal, sent, settled>>

Next ==
    \/ ToggleOn \/ ToggleOff \/ CloseModal
    \/ \E consent \in {"yes", "no"} : Decide(consent)
    \/ \E r \in requests : Serve(r) \/ Refuse(r) \/ ModalAnswered(r) \/ PageAnswered(r) \/ Lost(r)

Spec == Init /\ [][Next]_vars

-----------------------------------------------------------------------------
(***************************************************************************)
(* What is shown is what was agreed to: once every answer is in, the page     *)
(* shows the consent that the service keeps, unless an answer was refused,     *)
(* lost or overtaken by a later one (Settings.svelte, logs.routes.ts).        *)
(***************************************************************************)
ConsentIsShown ==
    requests = {} /\ astray = {} => logSharingStatus = consented
=============================================================================

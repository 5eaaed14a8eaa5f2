--------------------------- MODULE CommandService ---------------------------
(***************************************************************************)
(* What CommandManager promises its callers, without queues, listeners,    *)
(* timers or promises: accepted jobs form a set, each with the ticket of   *)
(* its acceptance; one job is active; it alone is transmitted, at most as  *)
(* often as its request allows; it gets one result; and then the next job  *)
(* in the order of Precedes becomes active.                                *)
(***************************************************************************)
EXTENDS Integers

CONSTANTS Jobs, Requests, NoRequest, NoJob, NoEntity, NoMatch

VARIABLES
  request,   \* what was asked for
  ticket,    \* order of acceptance
  nextTicket,
  backlog,   \* accepted jobs that have not been started
  active,    \* the started job whose caller has not been served
  sent,      \* transmissions of a job
  result     \* how a job ended

vars == <<request, ticket, nextTicket, backlog, active, sent, result>>

Expects(r) == r.entity # NoEntity \/ r.ackMatch # NoMatch
Allowed(r) == IF Expects(r) THEN r.attempts + 1 ELSE 1

\* j is served before k: normal before low, then first come first served.
Precedes(j, k) ==
  LET pj == request'[j].priority
      pk == request'[k].priority
  IN (pj # pk /\ pj = "normal") \/ (pj = pk /\ ticket'[j] < ticket'[k])

Init ==
  /\ request = [j \in Jobs |-> NoRequest]
  /\ ticket = [j \in Jobs |-> 0]
  /\ nextTicket = 1
  /\ backlog = {}
  /\ active = NoJob
  /\ sent = [j \in Jobs |-> 0]
  /\ result = [j \in Jobs |-> "none"]

\* Start the job of candidates that precedes every other one; a job that
\* expects no acknowledgement has its result with its only transmission.
StartFirst(candidates) ==
  \/ /\ candidates = {}
     /\ backlog' = {}
     /\ active' = NoJob
     /\ UNCHANGED <<sent, result>>
  \/ \E j \in candidates :
       /\ \A k \in candidates \ {j} : Precedes(j, k)
       /\ backlog' = candidates \ {j}
       /\ active' = j
       /\ sent' = [sent EXCEPT ![j] = 1]
       /\ result' = IF Expects(request'[j]) THEN result
                    ELSE [result EXCEPT ![j] = "unacknowledged"]

Accept(j, r) ==
  /\ request[j] = NoRequest
  /\ request' = [request EXCEPT ![j] = r]
  /\ ticket' = [ticket EXCEPT ![j] = nextTicket]
  /\ nextTicket' = nextTicket + 1
  /\ IF active = NoJob
     THEN StartFirst(backlog \cup {j})
     ELSE backlog' = backlog \cup {j} /\ UNCHANGED <<active, sent, result>>

Retransmit(j) ==
  /\ active = j
  /\ result[j] = "none"
  /\ sent[j] < Allowed(request[j])
  /\ sent' = [sent EXCEPT ![j] = @ + 1]
  /\ UNCHANGED <<request, ticket, nextTicket, backlog, active, result>>

Succeed(j) ==
  /\ active = j
  /\ result[j] = "none"
  /\ Expects(request[j])
  /\ result' = [result EXCEPT ![j] = "acked"]
  /\ UNCHANGED <<request, ticket, nextTicket, backlog, active, sent>>

Fail(j) ==
  /\ active = j
  /\ result[j] = "none"
  /\ sent[j] = Allowed(request[j])
  /\ result' = [result EXCEPT ![j] = "exhausted"]
  /\ UNCHANGED <<request, ticket, nextTicket, backlog, active, sent>>

Serve(j) ==
  /\ active = j
  /\ result[j] # "none"
  /\ UNCHANGED <<request, ticket, nextTicket>>
  /\ StartFirst(backlog)

Next ==
  \/ \E j \in Jobs, r \in Requests : Accept(j, r)
  \/ \E j \in Jobs : Retransmit(j) \/ Succeed(j) \/ Fail(j) \/ Serve(j)

Spec == Init /\ [][Next]_vars
=============================================================================

--------------------------- MODULE CommandManager ---------------------------
(***************************************************************************)
(* The command queue of one serial port: the class CommandManager of       *)
(* packages/core/src/service/command.manager.ts.                           *)
(*                                                                         *)
(* A caller hands a packet to send() (a command of an entity) or sendRaw() *)
(* (a packet of an automation or of a script) and gets a promise.  Jobs    *)
(* wait in two queues, one job at a time is executed, its packet is        *)
(* written to the port and written again until an acknowledgement arrives  *)
(* or the attempts are used up.  An acknowledgement is a state:changed     *)
(* event of the job's entity or a received packet that matches ackMatch;   *)
(* the listeners for it exist only while the acknowledgement timer runs.   *)
(*                                                                         *)
(* The program is single threaded: an action below is one synchronous run  *)
(* of the event loop (a call, an event, a timer) or one promise reaction.  *)
(* Packet bytes and time are abstracted; a Job stands for a CommandJob.    *)
(***************************************************************************)
EXTENDS Integers, Sequences

CONSTANTS
  Jobs,        \* the jobs that may ever be created
  Entities,    \* ids of the entities of this port
  Packets,     \* received packets, told apart only by what ackMatch tests
  Requests,    \* what a caller may ask for
  Ports,       \* the ports that share the event bus
  PortId,      \* the port of this manager
  NoPort,      \* portId absent from an event
  NoEntity,    \* entity absent from a job (sendRaw)
  NoMatch,     \* ackMatch absent from a job
  NoRequest,   \* the job does not exist yet
  NoJob        \* no listener is registered

\* retryConfig.attempts is the value getRetryConfig or sendRaw resolved from
\* the options, the entity's packet_parameters and packet_defaults.
RequestType ==
  [entity   : Entities \cup {NoEntity},
   ackMatch : Packets \cup {NoMatch},
   priority : {"normal", "low"},
   attempts : Nat]

ASSUME CommandAssumption ==
  /\ Requests \subseteq RequestType
  /\ NoRequest \notin Requests
  /\ NoEntity \notin Entities
  /\ NoMatch \notin Packets
  /\ NoJob \notin Jobs
  /\ PortId \in Ports
  /\ NoPort \notin Ports

VARIABLES
  request,            \* the CommandJob of each job: its immutable fields
  queue,              \* this.queue
  lowPriorityQueue,   \* this.lowPriorityQueue
  isProcessing,       \* this.isProcessing
  attemptsLeft,       \* job.attemptsLeft
  isSettled,          \* job.isSettled
  timer,              \* the pending timer of the job: ack timeout or interval
  ackListeners,       \* this.ackListeners: entity id -> job of the callback
  packetAckListeners, \* this.packetAckListeners: jobs whose matcher is in it
  exec,               \* how far the promise chain of processQueue got
  sent,               \* history: serialPort.write calls made for the job
  outcome,            \* history: how the job was settled
  ticket,             \* history: order in which jobs were accepted
  nextTicket          \* history: the next ticket

jobVars      == <<request, attemptsLeft, isSettled, timer, exec>>
queueVars    == <<queue, lowPriorityQueue, isProcessing>>
listenerVars == <<ackListeners, packetAckListeners>>
historyVars  == <<sent, outcome, ticket, nextTicket>>
vars == <<jobVars, queueVars, listenerVars, historyVars>>

Stages   == {"unsent", "queued", "running", "fulfilled", "returned", "done"}
Timers   == {"none", "ack", "interval"}
Outcomes == {"none", "acked", "exhausted", "unacknowledged"}

\* A job of sendRaw without ackMatch is sent once and waits for nothing.
NeedsAck(r) == r.entity # NoEntity \/ r.ackMatch # NoMatch

\* Variant with a fault: the first transmission is not counted.
RetriesOnly(r) == IF NeedsAck(r) THEN r.attempts ELSE 1

\* The initial attemptsLeft of send() and of sendRaw().
InitialAttempts(r) ==
  IF NeedsAck(r) THEN r.attempts + 1 ELSE 1

TypeOK ==
  /\ request \in [Jobs -> Requests \cup {NoRequest}]
  /\ queue \in Seq(Jobs)
  /\ lowPriorityQueue \in Seq(Jobs)
  /\ isProcessing \in BOOLEAN
  /\ attemptsLeft \in [Jobs -> Int]
  /\ isSettled \in [Jobs -> BOOLEAN]
  /\ timer \in [Jobs -> Timers]
  /\ ackListeners \in [Entities -> Jobs \cup {NoJob}]
  /\ packetAckListeners \in SUBSET Jobs
  /\ exec \in [Jobs -> Stages]
  /\ sent \in [Jobs -> Nat]
  /\ outcome \in [Jobs -> Outcomes]
  /\ ticket \in [Jobs -> Nat]
  /\ nextTicket \in Nat

Init ==
  /\ request = [j \in Jobs |-> NoRequest]
  /\ queue = <<>>
  /\ lowPriorityQueue = <<>>
  /\ isProcessing = FALSE
  /\ attemptsLeft = [j \in Jobs |-> 0]
  /\ isSettled = [j \in Jobs |-> FALSE]
  /\ timer = [j \in Jobs |-> "none"]
  /\ ackListeners = [e \in Entities |-> NoJob]
  /\ packetAckListeners = {}
  /\ exec = [j \in Jobs |-> "unsent"]
  /\ sent = [j \in Jobs |-> 0]
  /\ outcome = [j \in Jobs |-> "none"]
  /\ ticket = [j \in Jobs |-> 0]
  /\ nextTicket = 1
-----------------------------------------------------------------------------
(* Listeners.                                                              *)

\* setupListener: the Map entry of the entity is overwritten, the matcher is
\* added to the Set.
WithListeners(j, r) ==
  /\ ackListeners' = [e \in Entities |->
                        IF e = r.entity THEN j ELSE ackListeners[e]]
  /\ packetAckListeners' =
       IF r.ackMatch # NoMatch THEN packetAckListeners \cup {j}
                               ELSE packetAckListeners

\* cleanupListeners of every job of S: the Map entry is deleted by entity id,
\* whoever registered it.
WithoutListeners(S) ==
  /\ ackListeners' = [e \in Entities |->
                        IF \E j \in S : request[j].entity = e
                        THEN NoJob ELSE ackListeners[e]]
  /\ packetAckListeners' = packetAckListeners \ S
-----------------------------------------------------------------------------
(* Execution of a job.                                                     *)

\* attempt(), when attempts are left: register, write, then either settle at
\* once (nothing to wait for) or arm the acknowledgement timer.  left is the
\* value of attemptsLeft before the decrement, stage the stages the caller of
\* attempt() has already assigned; request' is assigned by the caller too.
Transmit(j, left, stage) ==
  /\ attemptsLeft' = [left EXCEPT ![j] = @ - 1]
  /\ sent' = [sent EXCEPT ![j] = @ + 1]
  /\ WithListeners(j, request'[j])
  /\ IF NeedsAck(request'[j])
     THEN /\ timer' = [timer EXCEPT ![j] = "ack"]
          /\ exec' = [stage EXCEPT ![j] = "running"]
          /\ UNCHANGED <<isSettled, outcome>>
     ELSE /\ isSettled' = [isSettled EXCEPT ![j] = TRUE]
          /\ outcome' = [outcome EXCEPT ![j] = "unacknowledged"]
          /\ exec' = [stage EXCEPT ![j] = "fulfilled"]
          /\ UNCHANGED timer

\* processQueue(), when isProcessing is false: take the head of the normal
\* queue, else of the low priority queue, and start it.
ProcessQueue(q, low, left, stage) ==
  \/ /\ q # <<>>
     /\ queue' = Tail(q)
     /\ lowPriorityQueue' = low
     /\ isProcessing' = TRUE
     /\ Transmit(Head(q), left, stage)
  \/ /\ q = <<>>
     /\ low # <<>>
     /\ queue' = q
     /\ lowPriorityQueue' = Tail(low)
     /\ isProcessing' = TRUE
     /\ Transmit(Head(low), left, stage)
  \/ /\ q = <<>>
     /\ low = <<>>
     /\ queue' = q
     /\ lowPriorityQueue' = low
     /\ isProcessing' = FALSE
     /\ attemptsLeft' = left
     /\ exec' = stage
     /\ UNCHANGED <<isSettled, timer, listenerVars, sent, outcome>>
-----------------------------------------------------------------------------
(* The callers.                                                            *)

\* Variant with a fault: processQueue is not stopped by isProcessing.
AlwaysStart(j, r) ==
  /\ exec[j] = "unsent"
  /\ request' = [request EXCEPT ![j] = r]
  /\ ticket' = [ticket EXCEPT ![j] = nextTicket]
  /\ nextTicket' = nextTicket + 1
  /\ ProcessQueue(IF r.priority = "low" THEN queue ELSE Append(queue, j),
                  IF r.priority = "low" THEN Append(lowPriorityQueue, j)
                                        ELSE lowPriorityQueue,
                  [attemptsLeft EXCEPT ![j] = InitialAttempts(r)],
                  [exec EXCEPT ![j] = "queued"])

\* Variant with a fault: a job is put in front of its queue.
EnqueueAtFront(j, r) ==
  LET left  == [attemptsLeft EXCEPT ![j] = InitialAttempts(r)]
      stage == [exec EXCEPT ![j] = "queued"]
      q     == IF r.priority = "low" THEN queue ELSE <<j>> \o queue
      low   == IF r.priority = "low" THEN <<j>> \o lowPriorityQueue
                                     ELSE lowPriorityQueue
  IN /\ exec[j] = "unsent"
     /\ request' = [request EXCEPT ![j] = r]
     /\ ticket' = [ticket EXCEPT ![j] = nextTicket]
     /\ nextTicket' = nextTicket + 1
     /\ IF isProcessing
        THEN /\ queue' = q
             /\ lowPriorityQueue' = low
             /\ attemptsLeft' = left
             /\ exec' = stage
             /\ UNCHANGED <<isProcessing, isSettled, timer, listenerVars,
                            sent, outcome>>
        ELSE ProcessQueue(q, low, left, stage)

\* Both entry points push the new job and call processQueue in one run.
Enqueue(j, r) ==
  LET left  == [attemptsLeft EXCEPT ![j] = InitialAttempts(r)]
      stage == [exec EXCEPT ![j] = "queued"]
      q     == IF r.priority = "low" THEN queue ELSE Append(queue, j)
      low   == IF r.priority = "low" THEN Append(lowPriorityQueue, j)
                                     ELSE lowPriorityQueue
  IN /\ exec[j] = "unsent"
     /\ request' = [request EXCEPT ![j] = r]
     /\ ticket' = [ticket EXCEPT ![j] = nextTicket]
     /\ nextTicket' = nextTicket + 1
     /\ IF isProcessing
        THEN /\ queue' = q
             /\ lowPriorityQueue' = low
             /\ attemptsLeft' = left
             /\ exec' = stage
             /\ UNCHANGED <<isProcessing, isSettled, timer, listenerVars,
                            sent, outcome>>
        ELSE ProcessQueue(q, low, left, stage)

Send(j, r)    == r.entity # NoEntity /\ Enqueue(j, r)
SendRaw(j, r) == r.entity = NoEntity /\ Enqueue(j, r)
-----------------------------------------------------------------------------
(* Acknowledgements.                                                       *)

\* onAck of the jobs of S: nothing for a settled one; otherwise the pending
\* acknowledgement timer is cleared (job.timer never names the interval
\* timer), the listeners go and executeJob's promise is resolved.
OnAck(S) ==
  LET settling == {j \in S : ~isSettled[j]} IN
  /\ isSettled' = [j \in Jobs |-> isSettled[j] \/ j \in settling]
  /\ timer' = [j \in Jobs |->
                 IF j \in settling /\ timer[j] = "ack"
                 THEN "none" ELSE timer[j]]
  /\ exec' = [j \in Jobs |-> IF j \in settling THEN "fulfilled" ELSE exec[j]]
  /\ outcome' = [j \in Jobs |->
                   IF j \in settling THEN "acked" ELSE outcome[j]]
  /\ WithoutListeners(settling)
  /\ UNCHANGED <<request, attemptsLeft, queueVars, sent, ticket, nextTicket>>

\* The 'state:changed' handler: events of another port are ignored, and so is
\* an entity nobody listens for.
StateChanged(e, p) ==
  /\ p \in {NoPort, PortId}
  /\ OnAck({ackListeners[e]} \ {NoJob})

\* The 'packet' handler calls every matcher; the ones whose ackMatch matches
\* call onAck.
PacketReceived(m) ==
  OnAck({j \in packetAckListeners : request[j].ackMatch = m})
-----------------------------------------------------------------------------
(* Timers.                                                                 *)

\* Variant with a fault: the listeners stay during the retry interval.
TimeoutKeepsListeners(j) ==
  /\ timer[j] = "ack"
  /\ timer' = [timer EXCEPT ![j] = IF isSettled[j] THEN "none" ELSE "interval"]
  /\ UNCHANGED <<request, attemptsLeft, isSettled, exec, queueVars,
                 listenerVars, historyVars>>

\* Variant with a fault: no interval timer is armed.
TimeoutForgetsRetry(j) ==
  /\ timer[j] = "ack"
  /\ WithoutListeners({j})
  /\ timer' = [timer EXCEPT ![j] = "none"]
  /\ UNCHANGED <<request, attemptsLeft, isSettled, exec, queueVars,
                 historyVars>>

\* The acknowledgement timer: the listeners go before isSettled is looked at.
AckTimeout(j) ==
  /\ timer[j] = "ack"
  /\ WithoutListeners({j})
  /\ timer' = [timer EXCEPT ![j] = IF isSettled[j] THEN "none" ELSE "interval"]
  /\ UNCHANGED <<request, attemptsLeft, isSettled, exec, queueVars,
                 historyVars>>

\* Variant with a fault: a retry is not counted.
UncountedRetry(j) ==
  /\ timer[j] = "interval"
  /\ ~isSettled[j]
  /\ attemptsLeft[j] > 0
  /\ UNCHANGED <<request, queueVars, ticket, nextTicket>>
  /\ Transmit(j, [attemptsLeft EXCEPT ![j] = @ + 1], exec)

\* attempt() called by the interval timer.
Retry(j) ==
  /\ timer[j] = "interval"
  /\ ~isSettled[j]
  /\ attemptsLeft[j] > 0
  /\ UNCHANGED <<request, queueVars, ticket, nextTicket>>
  /\ Transmit(j, attemptsLeft, exec)

\* attempt() with no attempt left: the command failed, and the promise is
\* resolved all the same.
GiveUp(j) ==
  /\ timer[j] = "interval"
  /\ ~isSettled[j]
  /\ attemptsLeft[j] <= 0
  /\ attemptsLeft' = [attemptsLeft EXCEPT ![j] = @ - 1]
  /\ isSettled' = [isSettled EXCEPT ![j] = TRUE]
  /\ timer' = [timer EXCEPT ![j] = "none"]
  /\ exec' = [exec EXCEPT ![j] = "fulfilled"]
  /\ outcome' = [outcome EXCEPT ![j] = "exhausted"]
  /\ WithoutListeners({j})
  /\ UNCHANGED <<request, queueVars, sent, ticket, nextTicket>>
-----------------------------------------------------------------------------
(* The promise chain of processQueue: .then(job.resolve), then .finally.   *)
(* Other code may run between the two: a caller that awaited the job can   *)
(* already send the next one while isProcessing is still true.             *)

Resolve(j) ==
  /\ exec[j] = "fulfilled"
  /\ exec' = [exec EXCEPT ![j] = "returned"]
  /\ UNCHANGED <<request, attemptsLeft, isSettled, timer, queueVars,
                 listenerVars, historyVars>>

\* Variant with a fault: isProcessing is reset without processQueue().
FinallyStops(j) ==
  /\ exec[j] = "returned"
  /\ exec' = [exec EXCEPT ![j] = "done"]
  /\ isProcessing' = FALSE
  /\ UNCHANGED <<request, attemptsLeft, isSettled, timer, queue,
                 lowPriorityQueue, listenerVars, historyVars>>

Finally(j) ==
  /\ exec[j] = "returned"
  /\ UNCHANGED <<request, ticket, nextTicket>>
  /\ ProcessQueue(queue, lowPriorityQueue, attemptsLeft,
                  [exec EXCEPT ![j] = "done"])
-----------------------------------------------------------------------------
Next ==
  \/ \E j \in Jobs, r \in Requests : Send(j, r) \/ SendRaw(j, r)
  \/ \E e \in Entities, p \in Ports \cup {NoPort} : StateChanged(e, p)
  \/ \E m \in Packets : PacketReceived(m)
  \/ \E j \in Jobs : \/ AckTimeout(j) \/ Retry(j) \/ GiveUp(j)
                     \/ Resolve(j) \/ Finally(j)

\* The event loop runs every due timer and every promise reaction; nothing
\* obliges a caller to send or a device to answer.
Fairness ==
  \A j \in Jobs : /\ WF_vars(AckTimeout(j))
                  /\ WF_vars(Retry(j) \/ GiveUp(j))
                  /\ WF_vars(Resolve(j))
                  /\ WF_vars(Finally(j))

Spec     == Init /\ [][Next]_vars
FairSpec == Spec /\ Fairness
-----------------------------------------------------------------------------
(* Properties.                                                             *)

InProgress(j) == exec[j] \in {"running", "fulfilled", "returned"}
Accepted(j)   == exec[j] # "unsent"

\* At most one job is between the start of executeJob and the finally of its
\* promise chain, and isProcessing says exactly whether there is one.
OneJobAtATime ==
  /\ \A j, k \in Jobs : InProgress(j) /\ InProgress(k) => j = k
  /\ isProcessing <=> \E j \in Jobs : InProgress(j)

\* No lost wake-up: a job that waits in a queue has a running job ahead of it
\* whose finally will call processQueue again.
QueuedWorkIsDriven ==
  queue # <<>> \/ lowPriorityQueue # <<>> => isProcessing

\* The acknowledgement window: a job has its listeners registered exactly
\* while its acknowledgement timer is pending and it is not settled.  A stale
\* callback of an earlier job can therefore never be called, and a job that
\* waits can always be acknowledged.
AckWindow ==
  \A j \in Jobs :
    /\ \A e \in Entities :
         ackListeners[e] = j <=> timer[j] = "ack" /\ request[j].entity = e
    /\ j \in packetAckListeners <=>
         timer[j] = "ack" /\ request[j].ackMatch # NoMatch
    /\ timer[j] # "none" => exec[j] = "running" /\ ~isSettled[j]

\* The attempts of a job: what was written plus what is left is what send() or
\* sendRaw() granted, and a job is given up only after all of it was written.
AttemptBudget ==
  \A j \in Jobs : Accepted(j) =>
    LET granted == InitialAttempts(request[j]) IN
    /\ sent[j] <= granted
    /\ outcome[j] # "exhausted" => sent[j] + attemptsLeft[j] = granted
    /\ outcome[j] = "exhausted" => sent[j] = request[j].attempts + 1

\* Jobs of one priority are first transmitted in the order of their send().
FifoPerPriority ==
  \A j, k \in Jobs :
    /\ Accepted(j) /\ Accepted(k)
    /\ request[j].priority = request[k].priority
    /\ ticket[j] < ticket[k]
    /\ sent[k] > 0
    => sent[j] > 0

\* The bus is half duplex: nothing is written while another job that was
\* already written still waits for its acknowledgement.
WriteIsExclusive ==
  [][\A j \in Jobs : sent'[j] # sent[j] =>
       \A k \in Jobs \ {j} : sent[k] > 0 => isSettled[k]]_vars

\* A settled job is settled once: its result stays and it is never written
\* again, whatever timers and events come later.
SettledIsFinal ==
  [][\A j \in Jobs : isSettled[j] =>
       isSettled'[j] /\ outcome'[j] = outcome[j] /\ sent'[j] = sent[j]]_vars

\* Every promise handed out is resolved, acknowledgements or not.
EverySendReturns ==
  \A j \in Jobs : exec[j] = "queued" \/ InProgress(j) ~> exec[j] = "done"
-----------------------------------------------------------------------------
(* The inductive invariant behind the safety properties.                   *)

\* The queue q holds exactly the waiting jobs of priority p, in the order of
\* their tickets, all of them accepted after every started job of p.
QueueHolds(q, p, req, stage, tk, snt) ==
  /\ \A i \in 1..Len(q) : stage[q[i]] = "queued" /\ req[q[i]].priority = p
  /\ \A j \in Jobs : stage[j] = "queued" /\ req[j].priority = p
                      => \E i \in 1..Len(q) : q[i] = j
  /\ \A i, k \in 1..Len(q) : i < k => tk[q[i]] < tk[q[k]]
  /\ \A i \in 1..Len(q), j \in Jobs :
       snt[j] > 0 /\ req[j].priority = p => tk[j] < tk[q[i]]

\* How the fields of a job follow its stage.
StageShape ==
  \A j \in Jobs :
    /\ exec[j] = "unsent" <=> request[j] = NoRequest
    /\ isSettled[j] <=> exec[j] \in {"fulfilled", "returned", "done"}
    /\ isSettled[j] <=> outcome[j] # "none"
    /\ timer[j] # "none" <=> exec[j] = "running"
    /\ exec[j] = "running" => NeedsAck(request[j])
    /\ sent[j] = 0 <=> exec[j] \in {"unsent", "queued"}
    /\ exec[j] # "unsent" => ticket[j] < nextTicket

\* Inductive: checked by TLC as an invariant and proved in
\* PortProof.
CommandInv ==
  /\ TypeOK
  /\ OneJobAtATime
  /\ QueuedWorkIsDriven
  /\ AckWindow
  /\ AttemptBudget
  /\ StageShape
  /\ QueueHolds(queue, "normal", request, exec, ticket, sent)
  /\ QueueHolds(lowPriorityQueue, "low", request, exec, ticket, sent)
-----------------------------------------------------------------------------
(* Refinement.  The job between the start of executeJob and finally is the *)
(* active one; the queued jobs are the backlog.                            *)

ActiveJob ==
  IF \E j \in Jobs : InProgress(j)
  THEN CHOOSE j \in Jobs : InProgress(j) ELSE NoJob

Service == INSTANCE CommandService WITH
  backlog <- {j \in Jobs : exec[j] = "queued"},
  active  <- ActiveJob,
  result  <- outcome

\* CommandManager implements CommandService: the two queues, the listeners,
\* the timers and the promise chain are invisible to a caller.
ImplementsService == Service!Spec
=============================================================================

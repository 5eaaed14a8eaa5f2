------------------------------ MODULE PortProof ------------------------------
(***************************************************************************)
(* Theorems about a port of the bridge: its command queue (CommandManager),  *)
(* for any jobs, entities and requests, and its TCP connection                *)
(* (ReconnectingTcpSocket), for any sockets, retries, chunks and delays.      *)
(***************************************************************************)
EXTENDS MCPort, SequenceTheorems, TLAPS

-----------------------------------------------------------------------------
(* The command queue.                                                      *)

\* The part of TypeOK that Transmit assigns.
TransmitTyped ==
  /\ attemptsLeft \in [Jobs -> Int]
  /\ isSettled \in [Jobs -> BOOLEAN]
  /\ timer \in [Jobs -> Timers]
  /\ ackListeners \in [Entities -> Jobs \cup {NoJob}]
  /\ packetAckListeners \in SUBSET Jobs
  /\ exec \in [Jobs -> Stages]
  /\ sent \in [Jobs -> Nat]
  /\ outcome \in [Jobs -> Outcomes]

\* attempt() keeps the types of everything it writes.
LEMMA TransmitTypes ==
  ASSUME TypeOK,
         NEW j \in Jobs,
         NEW left \in [Jobs -> Int],
         NEW stage \in [Jobs -> Stages],
         Transmit(j, left, stage)
  PROVE  TransmitTyped'
<1>1. attemptsLeft' \in [Jobs -> Int] /\ sent' \in [Jobs -> Nat]
  BY DEF TypeOK, Transmit
<1>2. /\ ackListeners' \in [Entities -> Jobs \cup {NoJob}]
      /\ packetAckListeners' \in SUBSET Jobs
  BY DEF TypeOK, Transmit, WithListeners
<1>3. CASE NeedsAck(request'[j])
  <2>1. timer' \in [Jobs -> Timers] /\ exec' \in [Jobs -> Stages]
    BY <1>3 DEF TypeOK, Transmit, Timers, Stages
  <2>2. isSettled' \in [Jobs -> BOOLEAN] /\ outcome' \in [Jobs -> Outcomes]
    BY <1>3 DEF TypeOK, Transmit
  <2>3. QED
    BY <1>1, <1>2, <2>1, <2>2 DEF TransmitTyped
<1>4. CASE ~NeedsAck(request'[j])
  <2>1. timer' \in [Jobs -> Timers] /\ exec' \in [Jobs -> Stages]
    BY <1>4 DEF TypeOK, Transmit, Stages
  <2>2. isSettled' \in [Jobs -> BOOLEAN] /\ outcome' \in [Jobs -> Outcomes]
    BY <1>4 DEF TypeOK, Transmit, Outcomes
  <2>3. QED
    BY <1>1, <1>2, <2>1, <2>2 DEF TransmitTyped
<1>5. QED
  BY <1>3, <1>4

\* processQueue() keeps every type, from whatever queues it is called with.
LEMMA ProcessQueueTypes ==
  ASSUME TypeOK,
         NEW q \in Seq(Jobs),
         NEW low \in Seq(Jobs),
         NEW left \in [Jobs -> Int],
         NEW stage \in [Jobs -> Stages],
         ProcessQueue(q, low, left, stage)
  PROVE  /\ TransmitTyped'
         /\ queue' \in Seq(Jobs)
         /\ lowPriorityQueue' \in Seq(Jobs)
         /\ isProcessing' \in BOOLEAN
<1>1. CASE q # <<>> /\ Transmit(Head(q), left, stage)
           /\ queue' = Tail(q) /\ lowPriorityQueue' = low /\ isProcessing' = TRUE
  <2>1. Head(q) \in Jobs /\ Tail(q) \in Seq(Jobs)
    BY <1>1
  <2>2. QED
    BY <1>1, <2>1, TransmitTypes
<1>2. CASE low # <<>> /\ Transmit(Head(low), left, stage)
           /\ queue' = q /\ lowPriorityQueue' = Tail(low) /\ isProcessing' = TRUE
  <2>1. Head(low) \in Jobs /\ Tail(low) \in Seq(Jobs)
    BY <1>2
  <2>2. QED
    BY <1>2, <2>1, TransmitTypes
<1>3. CASE /\ queue' = q /\ lowPriorityQueue' = low /\ isProcessing' = FALSE
           /\ attemptsLeft' = left /\ exec' = stage
           /\ UNCHANGED <<isSettled, timer, listenerVars, sent, outcome>>
  BY <1>3 DEF TypeOK, TransmitTyped, listenerVars
<1>4. QED
  BY <1>1, <1>2, <1>3 DEF ProcessQueue

LEMMA InitialAttemptsInt ==
  ASSUME NEW r \in Requests
  PROVE  InitialAttempts(r) \in Nat /\ InitialAttempts(r) >= 1
BY CommandAssumption DEF RequestType, InitialAttempts

\* send() and sendRaw() keep the types.
LEMMA EnqueueTypes ==
  ASSUME TypeOK, NEW j \in Jobs, NEW r \in Requests, Enqueue(j, r)
  PROVE  TypeOK'
<1> DEFINE left  == [attemptsLeft EXCEPT ![j] = InitialAttempts(r)]
           stage == [exec EXCEPT ![j] = "queued"]
           q     == IF r.priority = "low" THEN queue ELSE Append(queue, j)
           low   == IF r.priority = "low" THEN Append(lowPriorityQueue, j)
                                          ELSE lowPriorityQueue
<1>1. left \in [Jobs -> Int] /\ stage \in [Jobs -> Stages]
  BY InitialAttemptsInt DEF TypeOK, Stages
<1>2. q \in Seq(Jobs) /\ low \in Seq(Jobs)
  BY DEF TypeOK
<1>3. /\ request' \in [Jobs -> Requests \cup {NoRequest}]
      /\ ticket' \in [Jobs -> Nat]
      /\ nextTicket' \in Nat
  BY DEF TypeOK, Enqueue
<1>4. CASE isProcessing
  BY <1>1, <1>2, <1>3, <1>4 DEF TypeOK, Enqueue, listenerVars
<1>5. CASE ~isProcessing
  <2>1. ProcessQueue(q, low, left, stage)
    BY <1>5 DEF Enqueue
  <2> HIDE DEF left, stage, q, low
  <2>2. QED
    BY <1>1, <1>2, <1>3, <2>1, ProcessQueueTypes DEF TypeOK, TransmitTyped
<1>6. QED
  BY <1>4, <1>5 DEF TypeOK

\* onAck keeps the types.
LEMMA OnAckTypes ==
  ASSUME TypeOK, NEW S \in SUBSET Jobs, OnAck(S)
  PROVE  TypeOK'
BY DEF TypeOK, OnAck, WithoutListeners, queueVars, Timers, Stages, Outcomes

\* Every step of the manager keeps the type invariant.
LEMMA NextTypes == TypeOK /\ [Next]_vars => TypeOK'
<1> SUFFICES ASSUME TypeOK, [Next]_vars PROVE TypeOK'
  OBVIOUS
<1>1. ASSUME NEW j \in Jobs, NEW r \in Requests, Send(j, r) \/ SendRaw(j, r)
      PROVE  TypeOK'
  BY <1>1, EnqueueTypes DEF Send, SendRaw
<1>2. ASSUME NEW e \in Entities, NEW p \in Ports \cup {NoPort},
             StateChanged(e, p)
      PROVE  TypeOK'
  <2>1. {ackListeners[e]} \ {NoJob} \in SUBSET Jobs
    BY DEF TypeOK
  <2>2. QED
    BY <1>2, <2>1, OnAckTypes DEF StateChanged
<1>3. ASSUME NEW m \in Packets, PacketReceived(m)
      PROVE  TypeOK'
  <2>1. {j \in packetAckListeners : request[j].ackMatch = m} \in SUBSET Jobs
    BY DEF TypeOK
  <2>2. QED
    BY <1>3, <2>1, OnAckTypes DEF PacketReceived
<1>4. ASSUME NEW j \in Jobs, AckTimeout(j)
      PROVE  TypeOK'
  BY <1>4 DEF TypeOK, AckTimeout, WithoutListeners, queueVars, historyVars,
              Timers
<1>5. ASSUME NEW j \in Jobs, Retry(j)
      PROVE  TypeOK'
  <2>1. TransmitTyped'
    BY <1>5, TransmitTypes DEF TypeOK, Retry
  <2>2. QED
    BY <1>5, <2>1 DEF TypeOK, TransmitTyped, Retry, queueVars
<1>6. ASSUME NEW j \in Jobs, GiveUp(j)
      PROVE  TypeOK'
  BY <1>6 DEF TypeOK, GiveUp, WithoutListeners, queueVars, Timers, Stages,
              Outcomes
<1>7. ASSUME NEW j \in Jobs, Resolve(j)
      PROVE  TypeOK'
  BY <1>7 DEF TypeOK, Resolve, queueVars, listenerVars, historyVars, Stages
<1>8. ASSUME NEW j \in Jobs, Finally(j)
      PROVE  TypeOK'
  <2>1. [exec EXCEPT ![j] = "done"] \in [Jobs -> Stages]
    BY DEF TypeOK, Stages
  <2>2. QED
    BY <1>8, <2>1, ProcessQueueTypes DEF TypeOK, TransmitTyped, Finally
<1>9. CASE UNCHANGED vars
  BY <1>9 DEF TypeOK, vars, jobVars, queueVars, listenerVars, historyVars
<1>10. QED
  BY <1>1, <1>2, <1>3, <1>4, <1>5, <1>6, <1>7, <1>8, <1>9 DEF Next

\* The initial state is typed.
LEMMA InitTypes == Init => TypeOK
<1> SUFFICES ASSUME Init PROVE TypeOK
  OBVIOUS
<1>1. isSettled \in [Jobs -> BOOLEAN] /\ isProcessing \in BOOLEAN
  BY DEF Init
<1>2. queue \in Seq(Jobs) /\ lowPriorityQueue \in Seq(Jobs)
  BY DEF Init
<1>3. QED
  BY <1>1, <1>2 DEF Init, TypeOK, Timers, Stages, Outcomes

\* Type correctness: every variable of CommandManager keeps its type.
THEOREM TypeCorrect == Spec => []TypeOK
BY InitTypes, NextTypes, PTL DEF Spec
-----------------------------------------------------------------------------
(* The inductive invariant.                                                *)

\* Appending a newly accepted job keeps the shape of its queue.
LEMMA QueueAppend ==
  ASSUME NEW q \in Seq(Jobs), NEW p, NEW R,
         NEW req \in [Jobs -> R], NEW stage \in [Jobs -> Stages],
         NEW tk \in [Jobs -> Nat], NEW snt \in [Jobs -> Nat],
         QueueHolds(q, p, req, stage, tk, snt),
         NEW j \in Jobs, stage[j] = "unsent",
         NEW r \in R, r.priority = p,
         NEW n \in Nat,
         \A k \in Jobs : stage[k] # "unsent" => tk[k] < n,
         \A k \in Jobs : snt[k] > 0 => stage[k] # "unsent"
  PROVE  QueueHolds(Append(q, j), p, [req EXCEPT ![j] = r],
                    [stage EXCEPT ![j] = "queued"], [tk EXCEPT ![j] = n], snt)
<1> DEFINE req2   == [req EXCEPT ![j] = r]
           stage2 == [stage EXCEPT ![j] = "queued"]
           tk2    == [tk EXCEPT ![j] = n]
<1>0. /\ stage2[j] = "queued" /\ tk2[j] = n /\ req2[j].priority = p
      /\ \A k \in Jobs : k # j =>
           req2[k] = req[k] /\ tk2[k] = tk[k] /\ stage2[k] = stage[k]
  OBVIOUS
<1> HIDE DEF req2, stage2, tk2
<1> DEFINE q2 == Append(q, j)
<1>1. /\ q2 \in Seq(Jobs)
      /\ Len(q2) = Len(q) + 1
      /\ Len(q) \in Nat
      /\ q2[Len(q) + 1] = j
      /\ \A i \in 1..Len(q) : q2[i] = q[i] /\ q[i] \in Jobs /\ q[i] # j
  BY DEF QueueHolds
<1>2. \A i \in 1..Len(q2) : i = Len(q) + 1 \/ i \in 1..Len(q)
  BY <1>1
<1> HIDE DEF q2
<1>3. \A i \in 1..Len(q2) : stage2[q2[i]] = "queued" /\ req2[q2[i]].priority = p
  <2>1. SUFFICES ASSUME NEW i \in 1..Len(q2)
                 PROVE  stage2[q2[i]] = "queued" /\ req2[q2[i]].priority = p
    OBVIOUS
  <2>2. CASE i = Len(q) + 1
    BY <2>2, <1>0, <1>1
  <2>3. CASE i \in 1..Len(q)
    <3>1. stage[q[i]] = "queued" /\ req[q[i]].priority = p
      BY <2>3 DEF QueueHolds
    <3>2. QED
      BY SMTT(60), <2>3, <3>1, <1>0, <1>1
  <2>4. QED
    BY <2>2, <2>3, <1>2
<1>4. \A k \in Jobs : stage2[k] = "queued" /\ req2[k].priority = p
                      => \E i \in 1..Len(q2) : q2[i] = k
  <2>1. SUFFICES ASSUME NEW k \in Jobs, stage2[k] = "queued",
                        req2[k].priority = p
                 PROVE  \E i \in 1..Len(q2) : q2[i] = k
    OBVIOUS
  <2>2. CASE k = j
    BY <2>2, <1>0, <1>1
  <2>3. CASE k # j
    <3>1. PICK i \in 1..Len(q) : q[i] = k
      BY <2>1, <2>3, <1>0 DEF QueueHolds
    <3>2. i \in 1..Len(q2)
      BY <1>1
    <3>3. q2[i] = k
      BY <3>1, <1>1
    <3>4. QED
      BY <3>2, <3>3
  <2>4. QED
    BY <2>2, <2>3
<1>5. \A i, k \in 1..Len(q2) : i < k => tk2[q2[i]] < tk2[q2[k]]
  <2>1. SUFFICES ASSUME NEW i \in 1..Len(q2), NEW k \in 1..Len(q2), i < k
                 PROVE  tk2[q2[i]] < tk2[q2[k]]
    OBVIOUS
  <2>2. i \in 1..Len(q)
    BY <2>1, <1>1
  <2>3. CASE k = Len(q) + 1
    <3>1. stage[q[i]] = "queued"
      BY <2>2 DEF QueueHolds
    <3>2. QED
      BY <2>2, <2>3, <3>1, <1>0, <1>1
  <2>4. CASE k \in 1..Len(q)
    <3>1. tk2[q2[i]] = tk[q[i]] /\ tk2[q2[k]] = tk[q[k]]
      BY <2>2, <2>4, <1>0, <1>1
    <3>2. tk[q[i]] < tk[q[k]]
      BY <2>1, <2>2, <2>4 DEF QueueHolds
    <3>3. QED
      BY <3>1, <3>2
  <2>5. QED
    BY <2>3, <2>4, <1>2
<1>6. \A i \in 1..Len(q2), k \in Jobs :
        snt[k] > 0 /\ req2[k].priority = p => tk2[k] < tk2[q2[i]]
  <2>1. SUFFICES ASSUME NEW i \in 1..Len(q2), NEW k \in Jobs, snt[k] > 0,
                        req2[k].priority = p
                 PROVE  tk2[k] < tk2[q2[i]]
    OBVIOUS
  <2>2. k # j /\ stage[k] # "unsent"
    BY <2>1
  <2>3. CASE i = Len(q) + 1
    BY <2>2, <2>3, <1>0, <1>1
  <2>4. CASE i \in 1..Len(q)
    <3>1. tk2[k] = tk[k] /\ tk2[q2[i]] = tk[q[i]] /\ req[k].priority = p
      BY <2>1, <2>2, <2>4, <1>0, <1>1
    <3>2. tk[k] < tk[q[i]]
      BY <2>1, <2>4, <3>1 DEF QueueHolds
    <3>3. QED
      BY <3>1, <3>2
  <2>5. QED
    BY <2>3, <2>4, <1>2
<1>7. QED
  BY <1>3, <1>4, <1>5, <1>6 DEF QueueHolds, q2, req2, stage2, tk2

\* Starting the head of a queue keeps the shape of the rest.
LEMMA QueueShift ==
  ASSUME NEW q \in Seq(Jobs), NEW p, NEW req, NEW stage, NEW tk, NEW snt,
         QueueHolds(q, p, req, stage, tk, snt),
         q # <<>>,
         stage \in [Jobs -> Stages], snt \in [Jobs -> Nat],
         tk \in [Jobs -> Nat],
         NEW new, new # "queued"
  PROVE  QueueHolds(Tail(q), p, req, [stage EXCEPT ![Head(q)] = new], tk,
                    [snt EXCEPT ![Head(q)] = @ + 1])
<1> DEFINE h == Head(q)
           t == Tail(q)
           stage2 == [stage EXCEPT ![h] = new]
           snt2 == [snt EXCEPT ![h] = @ + 1]
<1>1. /\ t \in Seq(Jobs)
      /\ Len(q) \in Nat /\ Len(q) >= 1
      /\ Len(t) = Len(q) - 1
      /\ h = q[1] /\ h \in Jobs
      /\ \A i \in 1..Len(t) : t[i] = q[i + 1] /\ i + 1 \in 1..Len(q)
      /\ \A i \in 1..Len(q) : q[i] \in Jobs
  OBVIOUS
<1>2. \A i \in 1..Len(t) : tk[h] < tk[t[i]] /\ t[i] # h /\ t[i] \in Jobs
  <2>1. SUFFICES ASSUME NEW i \in 1..Len(t)
                 PROVE  tk[h] < tk[t[i]] /\ t[i] # h /\ t[i] \in Jobs
    OBVIOUS
  <2>2. 1 \in 1..Len(q) /\ i + 1 \in 1..Len(q) /\ 1 < i + 1
    BY <1>1
  <2>3. tk[q[1]] < tk[q[i + 1]]
    BY <2>2 DEF QueueHolds
  <2>4. QED
    BY <2>2, <2>3, <1>1
<1> HIDE DEF h, t
<1>3. \A i \in 1..Len(t) : stage2[t[i]] = "queued" /\ req[t[i]].priority = p
  <2>1. SUFFICES ASSUME NEW i \in 1..Len(t)
                 PROVE  stage2[t[i]] = "queued" /\ req[t[i]].priority = p
    OBVIOUS
  <2>2. t[i] = q[i + 1] /\ i + 1 \in 1..Len(q)
    BY <1>1
  <2>3. stage[t[i]] = "queued" /\ req[t[i]].priority = p
    BY <2>2 DEF QueueHolds
  <2>4. t[i] \in Jobs /\ t[i] # h
    BY <1>2
  <2>5. QED
    BY <2>3, <2>4
<1>4. \A k \in Jobs : stage2[k] = "queued" /\ req[k].priority = p
                      => \E i \in 1..Len(t) : t[i] = k
  <2>1. SUFFICES ASSUME NEW k \in Jobs, stage2[k] = "queued",
                        req[k].priority = p
                 PROVE  \E i \in 1..Len(t) : t[i] = k
    OBVIOUS
  <2>2. k # h /\ stage[k] = "queued"
    BY <2>1, <1>1
  <2>3. PICK i \in 1..Len(q) : q[i] = k
    BY <2>1, <2>2 DEF QueueHolds
  <2>4. i # 1
    BY <2>2, <2>3, <1>1
  <2>5. i - 1 \in 1..Len(t) /\ t[i - 1] = k
    <3>1. i - 1 \in 1..Len(t)
      BY <2>4, <1>1
    <3>2. t[i - 1] = q[(i - 1) + 1]
      BY <3>1, <1>1
    <3>3. QED
      BY <3>1, <3>2, <2>3
  <2>6. QED
    BY <2>5
<1>5. \A i, k \in 1..Len(t) : i < k => tk[t[i]] < tk[t[k]]
  <2>1. SUFFICES ASSUME NEW i \in 1..Len(t), NEW k \in 1..Len(t), i < k
                 PROVE  tk[t[i]] < tk[t[k]]
    OBVIOUS
  <2>2. t[i] = q[i + 1] /\ i + 1 \in 1..Len(q)
    BY <1>1
  <2>3. t[k] = q[k + 1] /\ k + 1 \in 1..Len(q)
    BY <1>1
  <2>4. i + 1 < k + 1
    BY <2>1, <1>1
  <2>5. tk[q[i + 1]] < tk[q[k + 1]]
    BY <2>2, <2>3, <2>4 DEF QueueHolds
  <2>6. QED
    BY <2>2, <2>3, <2>5
<1>6. \A i \in 1..Len(t), k \in Jobs :
        snt2[k] > 0 /\ req[k].priority = p => tk[k] < tk[t[i]]
  <2>1. SUFFICES ASSUME NEW i \in 1..Len(t), NEW k \in Jobs, snt2[k] > 0,
                        req[k].priority = p
                 PROVE  tk[k] < tk[t[i]]
    OBVIOUS
  <2>2. CASE k = h
    BY <2>2, <1>2
  <2>3. CASE k # h
    <3>1. snt[k] > 0 /\ t[i] = q[i + 1] /\ i + 1 \in 1..Len(q)
      BY <2>1, <2>3, <1>1
    <3>2. QED
      BY <2>1, <3>1 DEF QueueHolds
  <2>4. QED
    BY <2>2, <2>3
<1>7. QED
  BY <1>3, <1>4, <1>5, <1>6 DEF QueueHolds, h, t

\* A queue does not notice a job of the other priority.
LEMMA QueueOther ==
  ASSUME NEW q \in Seq(Jobs), NEW p, NEW req, NEW stage, NEW tk, NEW snt,
         QueueHolds(q, p, req, stage, tk, snt),
         NEW j \in Jobs,
         NEW req2, NEW stage2, NEW tk2, NEW snt2,
         req2[j].priority # p,
         stage[j] = "queued" => req[j].priority # p,
         \A k \in Jobs : k # j =>
           /\ req2[k] = req[k] /\ tk2[k] = tk[k]
           /\ stage2[k] = stage[k] /\ snt2[k] = snt[k]
  PROVE  QueueHolds(q, p, req2, stage2, tk2, snt2)
<1>1. \A i \in 1..Len(q) : q[i] \in Jobs /\ q[i] # j
  BY DEF QueueHolds
<1>2. QED
  BY <1>1 DEF QueueHolds
\* The stages of jobs none of which is in progress: what processQueue() finds
\* when it is called with isProcessing false, the new job of an idle manager
\* already pushed (send) or the last job already over (finally).
Idle(q, low, left, stage) ==
  /\ \A j \in Jobs :
       /\ stage[j] \in {"unsent", "queued", "done"}
       /\ stage[j] = "unsent" <=> request'[j] = NoRequest
       /\ timer[j] = "none"
       /\ isSettled[j] <=> stage[j] = "done"
       /\ isSettled[j] <=> outcome[j] # "none"
       /\ sent[j] = 0 <=> stage[j] \in {"unsent", "queued"}
       /\ stage[j] # "unsent" => ticket'[j] < nextTicket'
       /\ stage[j] # "unsent" =>
            /\ sent[j] <= InitialAttempts(request'[j])
            /\ outcome[j] # "exhausted" =>
                 sent[j] + left[j] = InitialAttempts(request'[j])
            /\ outcome[j] = "exhausted" =>
                 sent[j] = request'[j].attempts + 1
  /\ \A e \in Entities : ackListeners[e] = NoJob
  /\ packetAckListeners = {}
  /\ QueueHolds(q, "normal", request', stage, ticket', sent)
  /\ QueueHolds(low, "low", request', stage, ticket', sent)

\* What the start of job j gives: the invariant, the queues apart, and the two
\* changes the queues could notice.
Started(j, stage) ==
  /\ OneJobAtATime'
  /\ QueuedWorkIsDriven'
  /\ AckWindow'
  /\ AttemptBudget'
  /\ StageShape'
  /\ sent' = [sent EXCEPT ![j] = @ + 1]
  /\ \E new \in Stages : new # "queued" /\ exec' = [stage EXCEPT ![j] = new]

\* Starting one waiting job of an idle manager establishes the invariant.
LEMMA TransmitInv ==
  ASSUME TypeOK, TypeOK', NEW q \in Seq(Jobs), NEW low \in Seq(Jobs),
         NEW left \in [Jobs -> Int], NEW stage \in [Jobs -> Stages],
         Idle(q, low, left, stage),
         NEW j \in Jobs, stage[j] = "queued",
         Transmit(j, left, stage), isProcessing'
  PROVE  Started(j, stage)
<1> USE DEF Idle, TypeOK
<1>0. /\ request'[j] \in Requests /\ request'[j].attempts \in Nat
      /\ request'[j].entity \in Entities \cup {NoEntity}
      /\ request'[j].ackMatch \in Packets \cup {NoMatch}
      /\ InitialAttempts(request'[j]) \in Nat
      /\ InitialAttempts(request'[j]) >= 1
  BY CommandAssumption, InitialAttemptsInt DEF RequestType
<1>1. /\ \A k \in Jobs : k # j => exec'[k] = stage[k]
      /\ exec'[j] = IF NeedsAck(request'[j]) THEN "running" ELSE "fulfilled"
  BY SMTT(60) DEF Transmit
<1>2. OneJobAtATime'
  <2>1. \A k \in Jobs : InProgress(k)' <=> k = j
    BY <1>1 DEF InProgress
  <2>2. QED
    BY <2>1, ZenonT(60) DEF OneJobAtATime
<1>3. QueuedWorkIsDriven'
  BY DEF QueuedWorkIsDriven
<1>4. /\ \A k \in Jobs : k # j => timer'[k] = "none"
      /\ timer'[j] = IF NeedsAck(request'[j]) THEN "ack" ELSE "none"
  BY DEF Transmit
<1>5. AckWindow'
  <2>1. ASSUME NEW k \in Jobs, NEW e \in Entities
        PROVE  ackListeners'[e] = k
                 <=> timer'[k] = "ack" /\ request'[k].entity = e
    <3>1. ackListeners'[e] = IF e = request'[j].entity THEN j ELSE NoJob
      BY DEF Transmit, WithListeners
    <3>2. CASE k = j
      BY <1>4, <3>1, <3>2, CommandAssumption DEF NeedsAck
    <3>3. CASE k # j
      <4>1. ackListeners'[e] # k
        BY <3>1, <3>3, CommandAssumption
      <4>2. timer'[k] # "ack"
        BY <1>4, <3>3
      <4>3. QED
        BY <4>1, <4>2
    <3>4. QED
      BY <3>2, <3>3
  <2>2. ASSUME NEW k \in Jobs
        PROVE  k \in packetAckListeners'
                 <=> timer'[k] = "ack" /\ request'[k].ackMatch # NoMatch
    BY <1>4 DEF Transmit, WithListeners, NeedsAck
  <2>3. ASSUME NEW k \in Jobs, timer'[k] # "none"
        PROVE  exec'[k] = "running" /\ ~isSettled'[k]
    BY <2>3, <1>1, <1>4 DEF Transmit
  <2>4. QED
    BY SMTT(60), <2>1, <2>2, <2>3 DEF AckWindow
<1>6. /\ \A k \in Jobs : k # j =>
           /\ isSettled'[k] = isSettled[k] /\ outcome'[k] = outcome[k]
           /\ sent'[k] = sent[k] /\ attemptsLeft'[k] = left[k]
      /\ isSettled'[j] <=> ~NeedsAck(request'[j])
      /\ outcome'[j] = IF NeedsAck(request'[j]) THEN "none" ELSE "unacknowledged"
      /\ sent'[j] = 1
      /\ attemptsLeft'[j] = InitialAttempts(request'[j]) - 1
  <2>1. /\ \A k \in Jobs : k # j => sent'[k] = sent[k] /\ attemptsLeft'[k] = left[k]
        /\ sent'[j] = 1
    BY DEF Transmit
  <2>2. sent[j] = 0 /\ outcome[j] = "none" /\ ~isSettled[j]
    OBVIOUS
  <2>3. left[j] = InitialAttempts(request'[j])
    <3>1. sent[j] + left[j] = InitialAttempts(request'[j])
      BY <2>2
    <3>2. left[j] \in Int
      OBVIOUS
    <3>3. QED
      BY <1>0, <2>2, <3>1, <3>2
  <2>4. attemptsLeft'[j] = InitialAttempts(request'[j]) - 1
    BY <2>3 DEF Transmit
  <2>5. CASE NeedsAck(request'[j])
    BY <2>1, <2>2, <2>4, <2>5 DEF Transmit
  <2>6. CASE ~NeedsAck(request'[j])
    BY <2>1, <2>2, <2>4, <2>6 DEF Transmit
  <2>7. QED
    BY <2>5, <2>6
<1>7. AttemptBudget'
  <2>1. SUFFICES ASSUME NEW k \in Jobs, exec'[k] # "unsent"
                 PROVE  /\ sent'[k] <= InitialAttempts(request'[k])
                        /\ outcome'[k] # "exhausted" =>
                             sent'[k] + attemptsLeft'[k]
                               = InitialAttempts(request'[k])
                        /\ outcome'[k] = "exhausted" =>
                             sent'[k] = request'[k].attempts + 1
    BY DEF AttemptBudget, Accepted
  <2>2. CASE k = j
    BY <2>2, <1>0, <1>6
  <2>3. CASE k # j
    BY SMTT(60), <2>1, <2>3, <1>1, <1>6
  <2>4. QED
    BY <2>2, <2>3
<1>8. StageShape'
  <2>1. ASSUME NEW k \in Jobs, k # j
        PROVE  /\ exec'[k] = "unsent" <=> request'[k] = NoRequest
               /\ isSettled'[k] <=> exec'[k] \in {"fulfilled", "returned", "done"}
               /\ isSettled'[k] <=> outcome'[k] # "none"
               /\ timer'[k] # "none" <=> exec'[k] = "running"
               /\ exec'[k] = "running" => NeedsAck(request'[k])
               /\ sent'[k] = 0 <=> exec'[k] \in {"unsent", "queued"}
               /\ exec'[k] # "unsent" => ticket'[k] < nextTicket'
    BY SMTT(60), <2>1, <1>1, <1>4, <1>6
  <2>2. /\ exec'[j] = "unsent" <=> request'[j] = NoRequest
        /\ isSettled'[j] <=> exec'[j] \in {"fulfilled", "returned", "done"}
        /\ isSettled'[j] <=> outcome'[j] # "none"
        /\ timer'[j] # "none" <=> exec'[j] = "running"
        /\ exec'[j] = "running" => NeedsAck(request'[j])
        /\ sent'[j] = 0 <=> exec'[j] \in {"unsent", "queued"}
        /\ exec'[j] # "unsent" => ticket'[j] < nextTicket'
    BY <1>1, <1>4, <1>6
  <2>3. QED
    BY SMTT(60), <2>1, <2>2 DEF StageShape
<1>9. \E new \in Stages : new # "queued" /\ exec' = [stage EXCEPT ![j] = new]
  <2>1. CASE NeedsAck(request'[j])
    BY <2>1 DEF Transmit, Stages
  <2>2. CASE ~NeedsAck(request'[j])
    BY <2>2 DEF Transmit, Stages
  <2>3. QED
    BY <2>1, <2>2
<1>10. QED
  BY <1>2, <1>3, <1>5, <1>7, <1>8, <1>9 DEF Transmit, Started

\* processQueue() of an idle manager establishes the invariant.
LEMMA ProcessQueueInv ==
  ASSUME TypeOK, TypeOK', NEW q \in Seq(Jobs), NEW low \in Seq(Jobs),
         NEW left \in [Jobs -> Int], NEW stage \in [Jobs -> Stages],
         Idle(q, low, left, stage),
         ProcessQueue(q, low, left, stage)
  PROVE  CommandInv'
<1>1. CASE q # <<>> /\ Transmit(Head(q), left, stage)
           /\ queue' = Tail(q) /\ lowPriorityQueue' = low /\ isProcessing' = TRUE
  <2>1. Head(q) \in Jobs /\ q[1] = Head(q) /\ 1 \in 1..Len(q)
    BY <1>1
  <2>2. stage[Head(q)] = "queued" /\ request'[Head(q)].priority = "normal"
    BY <2>1 DEF Idle, QueueHolds
  <2>3. Started(Head(q), stage)
    <3>1. isProcessing'
      BY <1>1
    <3>2. QED
      BY <1>1, <2>1, <2>2, <3>1, TransmitInv
  <2>4. PICK new \in Stages :
          new # "queued" /\ exec' = [stage EXCEPT ![Head(q)] = new]
    BY <2>3 DEF Started
  <2>5. QueueHolds(queue', "normal", request', exec', ticket', sent')
    <3>1. /\ QueueHolds(q, "normal", request', stage, ticket', sent)
          /\ sent \in [Jobs -> Nat] /\ ticket' \in [Jobs -> Nat]
      BY DEF Idle, TypeOK
    <3>2. QueueHolds(Tail(q), "normal", request',
                     [stage EXCEPT ![Head(q)] = new], ticket',
                     [sent EXCEPT ![Head(q)] = @ + 1])
      BY <1>1, <2>4, <3>1, QueueShift
    <3>3. QED
      BY <1>1, <2>3, <2>4, <3>2 DEF Started
  <2>6. QueueHolds(lowPriorityQueue', "low", request', exec', ticket', sent')
    <3>1. QueueHolds(low, "low", request', stage, ticket', sent)
      BY DEF Idle
    <3>2. \A k \in Jobs : k # Head(q) => exec'[k] = stage[k] /\ sent'[k] = sent[k]
      BY <2>3, <2>4 DEF TypeOK, Started
    <3>3. QueueHolds(low, "low", request', exec', ticket', sent')
      BY <2>1, <2>2, <3>1, <3>2, QueueOther
    <3>4. QED
      BY <1>1, <3>3
  <2>7. QED
    BY <2>3, <2>5, <2>6 DEF CommandInv, Started
<1>2. CASE low # <<>> /\ Transmit(Head(low), left, stage)
           /\ queue' = q /\ lowPriorityQueue' = Tail(low) /\ isProcessing' = TRUE
  <2>1. Head(low) \in Jobs /\ low[1] = Head(low) /\ 1 \in 1..Len(low)
    BY <1>2
  <2>2. stage[Head(low)] = "queued" /\ request'[Head(low)].priority = "low"
    BY <2>1 DEF Idle, QueueHolds
  <2>3. Started(Head(low), stage)
    <3>1. isProcessing'
      BY <1>2
    <3>2. QED
      BY <1>2, <2>1, <2>2, <3>1, TransmitInv
  <2>4. PICK new \in Stages :
          new # "queued" /\ exec' = [stage EXCEPT ![Head(low)] = new]
    BY <2>3 DEF Started
  <2>5. QueueHolds(lowPriorityQueue', "low", request', exec', ticket', sent')
    <3>1. /\ QueueHolds(low, "low", request', stage, ticket', sent)
          /\ sent \in [Jobs -> Nat] /\ ticket' \in [Jobs -> Nat]
      BY DEF Idle, TypeOK
    <3>2. QueueHolds(Tail(low), "low", request',
                     [stage EXCEPT ![Head(low)] = new], ticket',
                     [sent EXCEPT ![Head(low)] = @ + 1])
      BY <1>2, <2>4, <3>1, QueueShift
    <3>3. QED
      BY <1>2, <2>3, <2>4, <3>2 DEF Started
  <2>6. QueueHolds(queue', "normal", request', exec', ticket', sent')
    <3>1. QueueHolds(q, "normal", request', stage, ticket', sent)
      BY DEF Idle
    <3>2. \A k \in Jobs : k # Head(low) => exec'[k] = stage[k] /\ sent'[k] = sent[k]
      BY <2>3, <2>4 DEF TypeOK, Started
    <3>3. QueueHolds(q, "normal", request', exec', ticket', sent')
      BY SMTT(60), <2>1, <2>2, <3>1, <3>2, QueueOther
    <3>4. QED
      BY <1>2, <3>3
  <2>7. QED
    BY <2>3, <2>5, <2>6 DEF CommandInv, Started
<1>3. CASE /\ q = <<>> /\ low = <<>>
           /\ queue' = q /\ lowPriorityQueue' = low /\ isProcessing' = FALSE
           /\ attemptsLeft' = left /\ exec' = stage
           /\ UNCHANGED <<isSettled, timer, listenerVars, sent, outcome>>
  <2>1. \A j \in Jobs : ~InProgress(j)'
    BY <1>3 DEF Idle, InProgress
  <2>2. OneJobAtATime' /\ QueuedWorkIsDriven'
    BY <1>3, <2>1 DEF OneJobAtATime, QueuedWorkIsDriven
  <2>3. AckWindow'
    BY <1>3, CommandAssumption DEF Idle, AckWindow, listenerVars
  <2>4. AttemptBudget' /\ StageShape'
    BY <1>3 DEF Idle, AttemptBudget, Accepted, StageShape
  <2>5. /\ QueueHolds(queue', "normal", request', exec', ticket', sent')
        /\ QueueHolds(lowPriorityQueue', "low", request', exec', ticket', sent')
    BY <1>3 DEF Idle
  <2>6. QED
    BY <2>2, <2>3, <2>4, <2>5 DEF CommandInv
<1>4. QED
  BY <1>1, <1>2, <1>3 DEF ProcessQueue
\* A queue does not notice a step that queues, dequeues and first transmits
\* no job.
LEMMA QueueFrame ==
  ASSUME NEW q \in Seq(Jobs), NEW p, NEW req, NEW stage, NEW tk, NEW snt,
         QueueHolds(q, p, req, stage, tk, snt),
         NEW stage2, NEW snt2,
         \A k \in Jobs : /\ stage2[k] = "queued" <=> stage[k] = "queued"
                         /\ snt2[k] > 0 => snt[k] > 0
  PROVE  QueueHolds(q, p, req, stage2, tk, snt2)
<1>1. \A i \in 1..Len(q) : q[i] \in Jobs
  OBVIOUS
<1>2. QED
  BY <1>1 DEF QueueHolds

\* After send() or sendRaw() pushed the new job, both queues are in order.
LEMMA EnqueueQueues ==
  ASSUME CommandInv, NEW j \in Jobs, NEW r \in Requests, Enqueue(j, r),
         NEW stage, stage = [exec EXCEPT ![j] = "queued"],
         NEW q, q = IF r.priority = "low" THEN queue ELSE Append(queue, j),
         NEW low, low = IF r.priority = "low" THEN Append(lowPriorityQueue, j)
                                              ELSE lowPriorityQueue
  PROVE  /\ QueueHolds(q, "normal", request', stage, ticket', sent)
         /\ QueueHolds(low, "low", request', stage, ticket', sent)
<1>1. /\ exec[j] = "unsent"
      /\ request'[j] = r /\ ticket'[j] = nextTicket
      /\ \A k \in Jobs : k # j => request'[k] = request[k] /\ ticket'[k] = ticket[k]
      /\ ticket \in [Jobs -> Nat] /\ ticket' \in [Jobs -> Nat]
      /\ exec \in [Jobs -> Stages]
      /\ queue \in Seq(Jobs) /\ lowPriorityQueue \in Seq(Jobs)
  BY DEF CommandInv, TypeOK, Enqueue
<1>2. /\ sent[j] = 0
      /\ \A k \in Jobs : exec[k] # "unsent" => ticket[k] < ticket'[j]
      /\ \A k \in Jobs : sent[k] > 0 => exec[k] # "unsent"
  BY <1>1 DEF CommandInv, StageShape
<1>3. /\ QueueHolds(queue, "normal", request, exec, ticket, sent)
      /\ QueueHolds(lowPriorityQueue, "low", request, exec, ticket, sent)
  BY DEF CommandInv
<1>4. /\ \A k \in Jobs : k # j =>
           /\ request'[k] = request[k] /\ ticket'[k] = ticket[k]
           /\ stage[k] = exec[k] /\ sent[k] = sent[k]
      /\ \A k \in Jobs : k # j => request'[k] = request[k] /\ ticket'[k] = ticket[k]
  BY <1>1
<1>5. ASSUME NEW p, r.priority = p, NEW w \in Seq(Jobs),
             QueueHolds(w, p, request, exec, ticket, sent)
      PROVE  QueueHolds(Append(w, j), p, request', stage, ticket', sent)
  <2>1. /\ request \in [Jobs -> Requests \cup {NoRequest}]
        /\ request' = [request EXCEPT ![j] = r]
        /\ ticket' = [ticket EXCEPT ![j] = nextTicket]
        /\ sent \in [Jobs -> Nat] /\ nextTicket \in Nat
        /\ r \in Requests \cup {NoRequest}
    BY DEF CommandInv, TypeOK, Enqueue
  <2>2. \A k \in Jobs : exec[k] # "unsent" => ticket[k] < nextTicket
    BY <1>1, <1>2
  <2>3. QueueHolds(Append(w, j), p, [request EXCEPT ![j] = r],
                   [exec EXCEPT ![j] = "queued"],
                   [ticket EXCEPT ![j] = nextTicket], sent)
    BY ONLY <2>1, <2>2, <1>1, <1>2, <1>5, QueueAppend, j \in Jobs
  <2>4. QED
    BY <2>1, <2>3
<1>6. ASSUME NEW p, r.priority # p, NEW w \in Seq(Jobs),
             QueueHolds(w, p, request, exec, ticket, sent)
      PROVE  QueueHolds(w, p, request', stage, ticket', sent)
  <2>1. request'[j].priority # p /\ exec[j] # "queued"
    BY <1>1, <1>6
  <2>2. QED
    BY ONLY <2>1, <1>4, <1>6, QueueOther, j \in Jobs
<1>7. CASE r.priority = "low"
  BY <1>1, <1>3, <1>5, <1>6, <1>7
<1>8. CASE r.priority # "low"
  <2>1. r.priority = "normal"
    BY <1>8, CommandAssumption DEF RequestType
  <2>2. QED
    BY <1>1, <1>3, <1>5, <1>6, <2>1
<1>9. QED
  BY <1>7, <1>8

\* send() and sendRaw() keep the invariant.
LEMMA EnqueueInv ==
  ASSUME CommandInv, NEW j \in Jobs, NEW r \in Requests, Enqueue(j, r)
  PROVE  CommandInv'
<1> DEFINE left  == [attemptsLeft EXCEPT ![j] = InitialAttempts(r)]
           stage == [exec EXCEPT ![j] = "queued"]
           q     == IF r.priority = "low" THEN queue ELSE Append(queue, j)
           low   == IF r.priority = "low" THEN Append(lowPriorityQueue, j)
                                          ELSE lowPriorityQueue
<1>1. TypeOK /\ TypeOK'
  BY EnqueueTypes DEF CommandInv
<1>2. /\ left \in [Jobs -> Int] /\ stage \in [Jobs -> Stages]
      /\ q \in Seq(Jobs) /\ low \in Seq(Jobs)
  BY <1>1, InitialAttemptsInt DEF TypeOK, Stages
<1>3. /\ QueueHolds(q, "normal", request', stage, ticket', sent)
      /\ QueueHolds(low, "low", request', stage, ticket', sent)
  BY EnqueueQueues
<1>4. /\ exec[j] = "unsent" /\ sent[j] = 0 /\ outcome[j] = "none"
      /\ ~isSettled[j] /\ timer[j] = "none"
      /\ request' = [request EXCEPT ![j] = r]
      /\ ticket' = [ticket EXCEPT ![j] = nextTicket]
      /\ nextTicket' = nextTicket + 1
      /\ r # NoRequest
      /\ InitialAttempts(r) \in Nat /\ InitialAttempts(r) >= 1
  BY CommandAssumption, InitialAttemptsInt DEF CommandInv, StageShape, Enqueue
<1>5. CASE isProcessing
  <2>1. /\ queue' = q /\ lowPriorityQueue' = low /\ attemptsLeft' = left
        /\ exec' = stage
        /\ UNCHANGED <<isProcessing, isSettled, timer, listenerVars, sent,
                       outcome>>
    BY <1>5 DEF Enqueue
  <2>2. \A k \in Jobs : InProgress(k)' <=> InProgress(k)
    BY <1>1, <1>4, <2>1 DEF TypeOK, InProgress
  <2>3. OneJobAtATime' /\ QueuedWorkIsDriven'
    BY <1>5, <2>1, <2>2 DEF CommandInv, OneJobAtATime, QueuedWorkIsDriven
  <2>4. AckWindow'
    BY SMTT(60), <1>1, <1>4, <2>1 DEF CommandInv, TypeOK, AckWindow, listenerVars
  <2>5. AttemptBudget'
    <3>1. SUFFICES ASSUME NEW k \in Jobs, exec'[k] # "unsent"
                   PROVE  /\ sent'[k] <= InitialAttempts(request'[k])
                          /\ outcome'[k] # "exhausted" =>
                               sent'[k] + attemptsLeft'[k]
                                 = InitialAttempts(request'[k])
                          /\ outcome'[k] = "exhausted" =>
                               sent'[k] = request'[k].attempts + 1
      BY DEF AttemptBudget, Accepted
    <3>2. CASE k = j
      BY <1>1, <1>4, <2>1, <3>2 DEF TypeOK
    <3>3. CASE k # j
      BY <1>1, <1>4, <2>1, <3>1, <3>3
      DEF CommandInv, TypeOK, AttemptBudget, Accepted
    <3>4. QED
      BY <3>2, <3>3
  <2>6. StageShape'
    <3>1. SUFFICES ASSUME NEW k \in Jobs
          PROVE  /\ exec'[k] = "unsent" <=> request'[k] = NoRequest
                 /\ isSettled'[k] <=> exec'[k] \in {"fulfilled", "returned", "done"}
                 /\ isSettled'[k] <=> outcome'[k] # "none"
                 /\ timer'[k] # "none" <=> exec'[k] = "running"
                 /\ exec'[k] = "running" => NeedsAck(request'[k])
                 /\ sent'[k] = 0 <=> exec'[k] \in {"unsent", "queued"}
                 /\ exec'[k] # "unsent" => ticket'[k] < nextTicket'
      BY DEF StageShape
    <3>2. CASE k = j
      BY <1>1, <1>4, <2>1, <3>2 DEF TypeOK
    <3>3. CASE k # j
      BY <1>1, <1>4, <2>1, <3>3 DEF CommandInv, TypeOK, StageShape
    <3>4. QED
      BY <3>2, <3>3
  <2>7. QED
    BY <1>1, <1>3, <2>1, <2>3, <2>4, <2>5, <2>6 DEF CommandInv
<1>6. CASE ~isProcessing
  <2>1. ProcessQueue(q, low, left, stage)
    BY <1>6 DEF Enqueue
  <2>2. \A k \in Jobs : ~InProgress(k)
    BY <1>6 DEF CommandInv, OneJobAtATime
  <2>3. Idle(q, low, left, stage)
    <3>1. ASSUME NEW k \in Jobs
          PROVE  /\ stage[k] \in {"unsent", "queued", "done"}
                 /\ stage[k] = "unsent" <=> request'[k] = NoRequest
                 /\ timer[k] = "none"
                 /\ isSettled[k] <=> stage[k] = "done"
                 /\ isSettled[k] <=> outcome[k] # "none"
                 /\ sent[k] = 0 <=> stage[k] \in {"unsent", "queued"}
                 /\ stage[k] # "unsent" => ticket'[k] < nextTicket'
      <4>1. exec[k] \in {"unsent", "queued", "done"}
        BY <1>1, <2>2 DEF TypeOK, InProgress, Stages
      <4>2. CASE k = j
        BY <1>1, <1>4, <4>2 DEF TypeOK
      <4>3. CASE k # j
        BY SMTT(60), <1>1, <1>4, <4>1, <4>3 DEF CommandInv, TypeOK, StageShape
      <4>4. QED
        BY <4>2, <4>3
    <3>2. ASSUME NEW k \in Jobs, stage[k] # "unsent"
          PROVE  /\ sent[k] <= InitialAttempts(request'[k])
                 /\ outcome[k] # "exhausted" =>
                      sent[k] + left[k] = InitialAttempts(request'[k])
                 /\ outcome[k] = "exhausted" =>
                      sent[k] = request'[k].attempts + 1
      <4>1. CASE k = j
        BY <1>1, <1>4, <4>1 DEF TypeOK
      <4>2. CASE k # j
        BY <1>1, <1>4, <3>2, <4>2
        DEF CommandInv, TypeOK, AttemptBudget, Accepted
      <4>3. QED
        BY <4>1, <4>2
    <3>3. \A e \in Entities : ackListeners[e] = NoJob
      <4>1. \A k \in Jobs : timer[k] = "none"
        BY <3>1
      <4>2. QED
        BY <1>1, <4>1 DEF CommandInv, TypeOK, AckWindow
    <3>4. packetAckListeners = {}
      <4>1. \A k \in Jobs : timer[k] = "none"
        BY <3>1
      <4>2. QED
        BY <1>1, <4>1 DEF CommandInv, TypeOK, AckWindow
    <3> HIDE DEF q, low, left, stage
    <3>5. QED
      BY <1>3, <3>1, <3>2, <3>3, <3>4 DEF Idle
  <2> HIDE DEF q, low, left, stage
  <2>4. QED
    BY <1>1, <1>2, <2>1, <2>3, ProcessQueueInv
<1>7. QED
  BY <1>5, <1>6
\* What the steps of a started job have in common: if the queues and requests
\* are untouched and no job is queued, dequeued or first transmitted, the
\* queue part of the invariant is kept.
LEMMA StartedStepQueues ==
  ASSUME CommandInv,
         UNCHANGED <<request, queue, lowPriorityQueue, ticket>>,
         \A k \in Jobs : /\ exec'[k] = "queued" <=> exec[k] = "queued"
                         /\ sent'[k] > 0 => sent[k] > 0
  PROVE  /\ QueueHolds(queue', "normal", request', exec', ticket', sent')
         /\ QueueHolds(lowPriorityQueue', "low", request', exec', ticket', sent')
<1>1. queue \in Seq(Jobs) /\ lowPriorityQueue \in Seq(Jobs)
  BY DEF CommandInv, TypeOK
<1>2. /\ QueueHolds(queue, "normal", request, exec, ticket, sent)
      /\ QueueHolds(lowPriorityQueue, "low", request, exec, ticket, sent)
  BY DEF CommandInv
<1>3. \A k \in Jobs : /\ exec'[k] = "queued" <=> exec[k] = "queued"
                      /\ sent'[k] > 0 => sent[k] > 0
  OBVIOUS
<1>4. /\ QueueHolds(queue, "normal", request, exec', ticket, sent')
      /\ QueueHolds(lowPriorityQueue, "low", request, exec', ticket, sent')
  BY ONLY <1>1, <1>2, <1>3, QueueFrame
<1>5. QED
  BY <1>4

\* An acknowledgement settles at most the one job that waits for it, and keeps
\* the invariant.
LEMMA OnAckInv ==
  ASSUME CommandInv, NEW S \in SUBSET Jobs, OnAck(S),
         \A j \in S : timer[j] = "ack"
  PROVE  CommandInv'
<1>1. TypeOK /\ TypeOK'
  BY OnAckTypes DEF CommandInv
<1>2. \A j \in S : exec[j] = "running" /\ ~isSettled[j]
  BY DEF CommandInv, AckWindow
<1>3. /\ isSettled' = [j \in Jobs |-> isSettled[j] \/ j \in S]
      /\ timer' = [j \in Jobs |-> IF j \in S THEN "none" ELSE timer[j]]
      /\ exec' = [j \in Jobs |-> IF j \in S THEN "fulfilled" ELSE exec[j]]
      /\ outcome' = [j \in Jobs |-> IF j \in S THEN "acked" ELSE outcome[j]]
      /\ ackListeners' = [e \in Entities |->
                            IF \E j \in S : request[j].entity = e
                            THEN NoJob ELSE ackListeners[e]]
      /\ packetAckListeners' = packetAckListeners \ S
      /\ UNCHANGED <<request, attemptsLeft, queue, lowPriorityQueue,
                     isProcessing, sent, ticket, nextTicket>>
  <2>1. {j \in S : ~isSettled[j]} = S
    BY <1>2
  <2>2. QED
    BY <2>1 DEF OnAck, WithoutListeners, queueVars
<1>4. \A j, k \in Jobs : j \in S /\ timer[k] # "none" => j = k
  BY <1>2 DEF CommandInv, AckWindow, OneJobAtATime, InProgress
<1>5. \A k \in Jobs : InProgress(k)' <=> InProgress(k)
  BY <1>2, <1>3 DEF InProgress
<1>6. OneJobAtATime' /\ QueuedWorkIsDriven'
  BY <1>3, <1>5 DEF CommandInv, OneJobAtATime, QueuedWorkIsDriven
<1>7. AckWindow'
  <2>1. ASSUME NEW k \in Jobs, NEW e \in Entities
        PROVE  ackListeners'[e] = k <=> timer'[k] = "ack" /\ request'[k].entity = e
    <3>1. CASE k \in S
      BY <1>1, <1>3, <3>1, CommandAssumption DEF CommandInv, AckWindow, TypeOK
    <3>2. CASE k \notin S
      BY <1>1, <1>3, <1>4, <3>2, CommandAssumption DEF CommandInv, AckWindow, TypeOK
    <3>3. QED
      BY <3>1, <3>2
  <2>2. ASSUME NEW k \in Jobs
        PROVE  k \in packetAckListeners'
                 <=> timer'[k] = "ack" /\ request'[k].ackMatch # NoMatch
    BY <1>3 DEF CommandInv, AckWindow
  <2>3. ASSUME NEW k \in Jobs, timer'[k] # "none"
        PROVE  exec'[k] = "running" /\ ~isSettled'[k]
    BY <1>3, <2>3 DEF CommandInv, AckWindow
  <2>4. QED
    BY <2>1, <2>2, <2>3 DEF AckWindow
<1>8. AttemptBudget'
  BY <1>2, <1>3 DEF CommandInv, AttemptBudget, Accepted, StageShape
<1>9. StageShape'
  BY <1>2, <1>3 DEF CommandInv, StageShape
<1>10. /\ QueueHolds(queue', "normal", request', exec', ticket', sent')
       /\ QueueHolds(lowPriorityQueue', "low", request', exec', ticket', sent')
  <2>1. \A k \in Jobs : /\ exec'[k] = "queued" <=> exec[k] = "queued"
                        /\ sent'[k] > 0 => sent[k] > 0
    BY <1>2, <1>3
  <2>2. QED
    BY <1>3, <2>1, StartedStepQueues
<1>11. QED
  BY <1>1, <1>6, <1>7, <1>8, <1>9, <1>10 DEF CommandInv

\* The acknowledgement timeout closes the window and keeps the invariant.
LEMMA AckTimeoutInv ==
  ASSUME CommandInv, NEW j \in Jobs, AckTimeout(j), TypeOK'
  PROVE  CommandInv'
<1>1. /\ exec[j] = "running" /\ ~isSettled[j]
      /\ \A k \in Jobs : k # j => timer[k] = "none"
  BY DEF AckTimeout, CommandInv, AckWindow, OneJobAtATime, InProgress, TypeOK,
         Timers
<1>2. /\ timer' = [timer EXCEPT ![j] = "interval"]
      /\ ackListeners' = [e \in Entities |->
                            IF request[j].entity = e THEN NoJob ELSE ackListeners[e]]
      /\ packetAckListeners' = packetAckListeners \ {j}
      /\ UNCHANGED <<request, attemptsLeft, isSettled, exec, queue,
                     lowPriorityQueue, isProcessing, sent, outcome, ticket,
                     nextTicket>>
  BY <1>1 DEF AckTimeout, WithoutListeners, queueVars, historyVars
<1>3. OneJobAtATime' /\ QueuedWorkIsDriven' /\ AttemptBudget'
  BY <1>2 DEF CommandInv, OneJobAtATime, InProgress, QueuedWorkIsDriven,
              AttemptBudget, Accepted
<1>4. AckWindow'
  <2>1. \A k \in Jobs : timer'[k] = IF k = j THEN "interval" ELSE "none"
    BY <1>1, <1>2 DEF CommandInv, TypeOK
  <2>2. ASSUME NEW k \in Jobs, NEW e \in Entities
        PROVE  ackListeners'[e] # k
    BY <1>1, <1>2, CommandAssumption DEF CommandInv, AckWindow, TypeOK
  <2>3. ASSUME NEW k \in Jobs
        PROVE  k \notin packetAckListeners'
    BY <1>1, <1>2 DEF CommandInv, AckWindow
  <2>4. QED
    BY <1>1, <1>2, <2>1, <2>2, <2>3 DEF AckWindow
<1>5. StageShape'
  BY <1>1, <1>2 DEF CommandInv, TypeOK, StageShape
<1>6. /\ QueueHolds(queue', "normal", request', exec', ticket', sent')
      /\ QueueHolds(lowPriorityQueue', "low", request', exec', ticket', sent')
  BY <1>2, StartedStepQueues
<1>7. QED
  BY <1>3, <1>4, <1>5, <1>6 DEF CommandInv

\* The job whose timer is pending is the only started job: no other job has a
\* timer, it waits for an acknowledgement and it has been transmitted.
LEMMA PendingTimer ==
  ASSUME CommandInv, NEW j \in Jobs, timer[j] # "none"
  PROVE  /\ exec[j] = "running" /\ NeedsAck(request[j]) /\ sent[j] > 0
         /\ outcome[j] = "none"
         /\ \A k \in Jobs : k # j => timer[k] = "none"
         /\ request[j] # NoRequest /\ request[j] \in Requests
<1>1. exec[j] = "running"
  BY DEF CommandInv, StageShape
<1>2. ASSUME NEW k \in Jobs, k # j
      PROVE  timer[k] = "none"
  <2>1. InProgress(j) /\ ~InProgress(k)
    BY <1>1, <1>2 DEF CommandInv, OneJobAtATime, InProgress
  <2>2. QED
    BY <2>1 DEF CommandInv, StageShape, InProgress
<1>3. NeedsAck(request[j]) /\ request[j] # NoRequest /\ sent[j] # 0
  BY <1>1 DEF CommandInv, StageShape
<1>4. outcome[j] = "none"
  BY <1>1 DEF CommandInv, StageShape
<1>5. sent[j] \in Nat /\ request[j] \in Requests \cup {NoRequest}
  BY DEF CommandInv, TypeOK
<1>6. QED
  BY <1>1, <1>2, <1>3, <1>4, <1>5

\* A further transmission opens the window again and keeps the invariant.
LEMMA RetryInv ==
  ASSUME CommandInv, NEW j \in Jobs, Retry(j), TypeOK'
  PROVE  CommandInv'
<1>1. /\ exec[j] = "running" /\ NeedsAck(request[j]) /\ sent[j] > 0
      /\ outcome[j] = "none"
      /\ \A k \in Jobs : k # j => timer[k] = "none"
      /\ request[j] # NoRequest /\ request[j] \in Requests
  <2>1. timer[j] # "none"
    BY DEF Retry
  <2>2. QED
    BY <2>1, PendingTimer
<1>2. /\ attemptsLeft' = [attemptsLeft EXCEPT ![j] = @ - 1]
      /\ sent' = [sent EXCEPT ![j] = @ + 1]
      /\ timer' = [timer EXCEPT ![j] = "ack"]
      /\ exec' = exec
      /\ ackListeners' = [e \in Entities |->
                            IF e = request[j].entity THEN j ELSE ackListeners[e]]
      /\ packetAckListeners' = IF request[j].ackMatch # NoMatch
                               THEN packetAckListeners \cup {j}
                               ELSE packetAckListeners
      /\ UNCHANGED <<request, isSettled, outcome, queue, lowPriorityQueue,
                     isProcessing, ticket, nextTicket>>
  BY <1>1 DEF Retry, Transmit, WithListeners, queueVars, CommandInv, TypeOK
<1>3. OneJobAtATime' /\ QueuedWorkIsDriven'
  BY <1>2 DEF CommandInv, OneJobAtATime, InProgress, QueuedWorkIsDriven
<1>4. AttemptBudget'
  <2>1. attemptsLeft[j] > 0 /\ attemptsLeft[j] \in Int /\ sent[j] \in Nat
    BY DEF Retry, CommandInv, TypeOK
  <2>2. ASSUME NEW k \in Jobs, exec'[k] # "unsent"
        PROVE  /\ sent'[k] <= InitialAttempts(request'[k])
               /\ outcome'[k] # "exhausted" =>
                    sent'[k] + attemptsLeft'[k] = InitialAttempts(request'[k])
               /\ outcome'[k] = "exhausted" =>
                    sent'[k] = request'[k].attempts + 1
    <3>1. CASE k = j
      <4>1. sent[j] + attemptsLeft[j] = InitialAttempts(request[j])
        BY <1>1 DEF CommandInv, AttemptBudget, Accepted
      <4>2. sent'[j] = sent[j] + 1 /\ attemptsLeft'[j] = attemptsLeft[j] - 1
        BY <1>2 DEF CommandInv, TypeOK
      <4>3. InitialAttempts(request[j]) \in Nat
        BY <1>1, InitialAttemptsInt
      <4>4. QED
        BY <1>1, <1>2, <2>1, <3>1, <4>1, <4>2, <4>3
    <3>2. CASE k # j
      BY <1>2, <2>2, <3>2 DEF CommandInv, TypeOK, AttemptBudget, Accepted
    <3>3. QED
      BY <3>1, <3>2
  <2>3. QED
    BY <2>2 DEF AttemptBudget, Accepted
<1>5. AckWindow'
  <2>1. \A k \in Jobs : timer'[k] = IF k = j THEN "ack" ELSE "none"
    BY <1>1, <1>2 DEF CommandInv, TypeOK
  <2>2. /\ \A e \in Entities : ackListeners[e] = NoJob
        /\ packetAckListeners = {}
    <3>1. \A k \in Jobs : timer[k] # "ack"
      BY <1>1 DEF Retry
    <3>2. QED
      BY <3>1 DEF CommandInv, AckWindow, TypeOK
  <2>3. ASSUME NEW k \in Jobs, NEW e \in Entities
        PROVE  ackListeners'[e] = k <=> timer'[k] = "ack" /\ request'[k].entity = e
    <3>1. ackListeners'[e] = IF e = request[j].entity THEN j ELSE NoJob
      BY <1>2, <2>2
    <3>2. QED
      BY <1>2, <2>1, <3>1, CommandAssumption
  <2>4. ASSUME NEW k \in Jobs
        PROVE  k \in packetAckListeners'
                 <=> timer'[k] = "ack" /\ request'[k].ackMatch # NoMatch
    BY <1>2, <2>1, <2>2
  <2>5. ASSUME NEW k \in Jobs, timer'[k] # "none"
        PROVE  exec'[k] = "running" /\ ~isSettled'[k]
    BY <1>1, <1>2, <2>1, <2>5 DEF Retry
  <2>6. QED
    BY <2>3, <2>4, <2>5 DEF AckWindow
<1>6. StageShape'
  <2>1. ASSUME NEW k \in Jobs, k # j
        PROVE  timer'[k] = timer[k] /\ sent'[k] = sent[k]
    BY <1>2, <2>1 DEF CommandInv, TypeOK
  <2>2. timer'[j] = "ack" /\ sent'[j] > 0
    BY <1>1, <1>2 DEF CommandInv, TypeOK
  <2>3. QED
    BY <1>1, <1>2, <2>1, <2>2 DEF CommandInv, StageShape
<1>7. /\ QueueHolds(queue', "normal", request', exec', ticket', sent')
      /\ QueueHolds(lowPriorityQueue', "low", request', exec', ticket', sent')
  <2>1. \A k \in Jobs : sent'[k] > 0 => sent[k] > 0
    BY <1>1, <1>2 DEF CommandInv, TypeOK
  <2>2. QED
    BY <1>2, <2>1, StartedStepQueues
<1>8. QED
  BY <1>3, <1>4, <1>5, <1>6, <1>7 DEF CommandInv

\* Giving up settles the job and keeps the invariant.
LEMMA GiveUpInv ==
  ASSUME CommandInv, NEW j \in Jobs, GiveUp(j), TypeOK'
  PROVE  CommandInv'
<1>1. /\ exec[j] = "running" /\ sent[j] > 0 /\ outcome[j] = "none"
      /\ NeedsAck(request[j])
      /\ request[j] # NoRequest /\ request[j] \in Requests
      /\ \A k \in Jobs : k # j => timer[k] = "none"
      /\ \A k \in Jobs : timer[k] # "ack"
  <2>1. timer[j] = "interval"
    BY DEF GiveUp
  <2>2. QED
    BY <2>1, PendingTimer
<1>2. /\ timer' = [timer EXCEPT ![j] = "none"]
      /\ isSettled' = [isSettled EXCEPT ![j] = TRUE]
      /\ exec' = [exec EXCEPT ![j] = "fulfilled"]
      /\ outcome' = [outcome EXCEPT ![j] = "exhausted"]
      /\ attemptsLeft' = [attemptsLeft EXCEPT ![j] = @ - 1]
      /\ UNCHANGED <<request, queue, lowPriorityQueue, isProcessing, sent,
                     ticket, nextTicket>>
  BY DEF GiveUp, queueVars
<1>3. /\ \A e \in Entities : ackListeners[e] = NoJob /\ ackListeners'[e] = NoJob
      /\ packetAckListeners = {} /\ packetAckListeners' = {}
  <2>1. /\ \A e \in Entities : ackListeners[e] = NoJob
        /\ packetAckListeners = {}
    BY <1>1 DEF CommandInv, AckWindow, TypeOK
  <2>2. QED
    BY <2>1 DEF GiveUp, WithoutListeners
<1>4. \A k \in Jobs : InProgress(k)' <=> InProgress(k)
  BY <1>1, <1>2 DEF InProgress, CommandInv, TypeOK
<1>5. OneJobAtATime' /\ QueuedWorkIsDriven'
  BY <1>2, <1>4 DEF CommandInv, OneJobAtATime, QueuedWorkIsDriven
<1>6. \A k \in Jobs : timer'[k] = "none"
  BY <1>1, <1>2 DEF CommandInv, TypeOK
<1>7. AckWindow'
  BY <1>3, <1>6, CommandAssumption DEF AckWindow
<1>8. AttemptBudget'
  <2>1. /\ sent[j] + attemptsLeft[j] = InitialAttempts(request[j])
        /\ sent[j] <= InitialAttempts(request[j])
        /\ InitialAttempts(request[j]) = request[j].attempts + 1
        /\ InitialAttempts(request[j]) \in Nat
    BY <1>1, InitialAttemptsInt
    DEF CommandInv, AttemptBudget, Accepted, InitialAttempts, NeedsAck
  <2>2. sent[j] = request[j].attempts + 1
    <3>1. attemptsLeft[j] <= 0 /\ attemptsLeft[j] \in Int /\ sent[j] \in Nat
      BY DEF GiveUp, CommandInv, TypeOK
    <3>2. QED
      BY <2>1, <3>1
  <2>3. ASSUME NEW k \in Jobs, exec'[k] # "unsent"
        PROVE  /\ sent'[k] <= InitialAttempts(request'[k])
               /\ outcome'[k] # "exhausted" =>
                    sent'[k] + attemptsLeft'[k] = InitialAttempts(request'[k])
               /\ outcome'[k] = "exhausted" =>
                    sent'[k] = request'[k].attempts + 1
    <3>1. CASE k = j
      BY <1>2, <2>1, <2>2, <3>1 DEF CommandInv, TypeOK
    <3>2. CASE k # j
      BY <1>2, <2>3, <3>2 DEF CommandInv, TypeOK, AttemptBudget, Accepted
    <3>3. QED
      BY <3>1, <3>2
  <2>4. QED
    BY <2>3 DEF AttemptBudget, Accepted
<1>9. StageShape'
  BY <1>1, <1>2, <1>6 DEF CommandInv, TypeOK, StageShape
<1>10. /\ QueueHolds(queue', "normal", request', exec', ticket', sent')
       /\ QueueHolds(lowPriorityQueue', "low", request', exec', ticket', sent')
  <2>1. \A k \in Jobs : exec'[k] = "queued" <=> exec[k] = "queued"
    BY <1>1, <1>2 DEF CommandInv, TypeOK
  <2>2. QED
    BY <1>2, <2>1, StartedStepQueues
<1>11. QED
  BY <1>5, <1>7, <1>8, <1>9, <1>10 DEF CommandInv

\* The reaction that resolves the caller's promise keeps the invariant.
LEMMA ResolveInv ==
  ASSUME CommandInv, NEW j \in Jobs, Resolve(j), TypeOK'
  PROVE  CommandInv'
<1>1. /\ exec[j] = "fulfilled"
      /\ exec' = [exec EXCEPT ![j] = "returned"]
      /\ UNCHANGED <<request, attemptsLeft, isSettled, timer, queue,
                     lowPriorityQueue, isProcessing, ackListeners,
                     packetAckListeners, sent, outcome, ticket, nextTicket>>
  BY DEF Resolve, queueVars, listenerVars, historyVars
<1>2. \A k \in Jobs : InProgress(k)' <=> InProgress(k)
  BY <1>1 DEF InProgress, CommandInv, TypeOK
<1>3. OneJobAtATime' /\ QueuedWorkIsDriven'
  BY <1>1, <1>2 DEF CommandInv, OneJobAtATime, QueuedWorkIsDriven
<1>4. AckWindow' /\ AttemptBudget' /\ StageShape'
  BY <1>1 DEF CommandInv, TypeOK, AckWindow, AttemptBudget, Accepted, StageShape
<1>5. /\ QueueHolds(queue', "normal", request', exec', ticket', sent')
      /\ QueueHolds(lowPriorityQueue', "low", request', exec', ticket', sent')
  <2>1. \A k \in Jobs : exec'[k] = "queued" <=> exec[k] = "queued"
    BY <1>1 DEF CommandInv, TypeOK
  <2>2. QED
    BY <1>1, <2>1, StartedStepQueues
<1>6. QED
  BY <1>3, <1>4, <1>5 DEF CommandInv

\* The finally of a job leaves an idle manager to processQueue().
LEMMA FinallyInv ==
  ASSUME CommandInv, NEW j \in Jobs, Finally(j), TypeOK'
  PROVE  CommandInv'
<1> DEFINE stage == [exec EXCEPT ![j] = "done"]
<1>1. /\ TypeOK /\ stage \in [Jobs -> Stages]
      /\ exec[j] = "returned"
      /\ UNCHANGED <<request, ticket, nextTicket>>
      /\ ProcessQueue(queue, lowPriorityQueue, attemptsLeft, stage)
  BY DEF CommandInv, TypeOK, Finally, Stages
<1>2. \A k \in Jobs : k # j => exec[k] \in {"unsent", "queued", "done"}
  BY <1>1 DEF CommandInv, TypeOK, OneJobAtATime, InProgress, Stages
<1>3. \A k \in Jobs : /\ stage[k] = IF k = j THEN "done" ELSE exec[k]
                      /\ timer[k] = "none"
  BY <1>1, <1>2 DEF CommandInv, TypeOK, StageShape
<1> HIDE DEF stage
<1>4. Idle(queue, lowPriorityQueue, attemptsLeft, stage)
  <2>1. ASSUME NEW k \in Jobs
        PROVE  /\ stage[k] \in {"unsent", "queued", "done"}
               /\ stage[k] = "unsent" <=> request'[k] = NoRequest
               /\ timer[k] = "none"
               /\ isSettled[k] <=> stage[k] = "done"
               /\ isSettled[k] <=> outcome[k] # "none"
               /\ sent[k] = 0 <=> stage[k] \in {"unsent", "queued"}
               /\ stage[k] # "unsent" => ticket'[k] < nextTicket'
    BY <1>1, <1>2, <1>3 DEF CommandInv, StageShape
  <2>2. ASSUME NEW k \in Jobs, stage[k] # "unsent"
        PROVE  /\ sent[k] <= InitialAttempts(request'[k])
               /\ outcome[k] # "exhausted" =>
                    sent[k] + attemptsLeft[k] = InitialAttempts(request'[k])
               /\ outcome[k] = "exhausted" =>
                    sent[k] = request'[k].attempts + 1
    BY <1>1, <1>3, <2>2 DEF CommandInv, AttemptBudget, Accepted
  <2>3. /\ \A e \in Entities : ackListeners[e] = NoJob
        /\ packetAckListeners = {}
    BY <1>1, <1>3 DEF CommandInv, AckWindow, TypeOK
  <2>4. /\ QueueHolds(queue, "normal", request', stage, ticket', sent)
        /\ QueueHolds(lowPriorityQueue, "low", request', stage, ticket', sent)
    <3>1. \A k \in Jobs : /\ stage[k] = "queued" <=> exec[k] = "queued"
                          /\ sent[k] > 0 => sent[k] > 0
      BY <1>1, <1>3
    <3>2. /\ queue \in Seq(Jobs) /\ lowPriorityQueue \in Seq(Jobs)
          /\ QueueHolds(queue, "normal", request, exec, ticket, sent)
          /\ QueueHolds(lowPriorityQueue, "low", request, exec, ticket, sent)
      BY DEF CommandInv, TypeOK
    <3>3. /\ QueueHolds(queue, "normal", request, stage, ticket, sent)
          /\ QueueHolds(lowPriorityQueue, "low", request, stage, ticket, sent)
      BY ONLY <3>1, <3>2, QueueFrame
    <3>4. QED
      BY <1>1, <3>3
  <2>5. QED
    BY <2>1, <2>2, <2>3, <2>4 DEF Idle
<1>5. /\ queue \in Seq(Jobs) /\ lowPriorityQueue \in Seq(Jobs)
      /\ attemptsLeft \in [Jobs -> Int]
  BY <1>1 DEF TypeOK
<1>6. QED
  BY <1>1, <1>4, <1>5, ProcessQueueInv

\* Every step keeps the invariant.
LEMMA NextInv == CommandInv /\ [Next]_vars => CommandInv'
<1> SUFFICES ASSUME CommandInv, [Next]_vars PROVE CommandInv'
  OBVIOUS
<1>1. TypeOK'
  BY NextTypes DEF CommandInv
<1>2. ASSUME NEW j \in Jobs, NEW r \in Requests, Send(j, r) \/ SendRaw(j, r)
      PROVE  CommandInv'
  BY <1>2, EnqueueInv DEF Send, SendRaw
<1>3. ASSUME NEW e \in Entities, NEW p \in Ports \cup {NoPort},
             StateChanged(e, p)
      PROVE  CommandInv'
  <2>1. /\ {ackListeners[e]} \ {NoJob} \in SUBSET Jobs
        /\ \A j \in {ackListeners[e]} \ {NoJob} : timer[j] = "ack"
    BY DEF CommandInv, TypeOK, AckWindow
  <2>2. QED
    BY <1>3, <2>1, OnAckInv DEF StateChanged
<1>4. ASSUME NEW m \in Packets, PacketReceived(m)
      PROVE  CommandInv'
  <2>1. /\ {j \in packetAckListeners : request[j].ackMatch = m} \in SUBSET Jobs
        /\ \A j \in {k \in packetAckListeners : request[k].ackMatch = m} :
             timer[j] = "ack"
    BY DEF CommandInv, TypeOK, AckWindow
  <2>2. QED
    BY <1>4, <2>1, OnAckInv DEF PacketReceived
<1>5. ASSUME NEW j \in Jobs,
             AckTimeout(j) \/ Retry(j) \/ GiveUp(j) \/ Resolve(j) \/ Finally(j)
      PROVE  CommandInv'
  BY <1>1, <1>5, AckTimeoutInv, RetryInv, GiveUpInv, ResolveInv, FinallyInv
<1>6. CASE UNCHANGED vars
  <2>1. /\ UNCHANGED <<request, attemptsLeft, isSettled, timer, exec>>
        /\ UNCHANGED <<queue, lowPriorityQueue, isProcessing>>
        /\ UNCHANGED <<ackListeners, packetAckListeners>>
        /\ UNCHANGED <<sent, outcome, ticket, nextTicket>>
    BY <1>6 DEF vars, jobVars, queueVars, listenerVars, historyVars
  <2>2. OneJobAtATime' /\ QueuedWorkIsDriven'
    BY <2>1 DEF CommandInv, OneJobAtATime, InProgress, QueuedWorkIsDriven
  <2>3. AckWindow'
    BY <2>1 DEF CommandInv, AckWindow
  <2>4. AttemptBudget' /\ StageShape'
    BY <2>1 DEF CommandInv, AttemptBudget, Accepted, StageShape
  <2>5. /\ QueueHolds(queue', "normal", request', exec', ticket', sent')
        /\ QueueHolds(lowPriorityQueue', "low", request', exec', ticket', sent')
    BY <2>1 DEF CommandInv
  <2>6. QED
    BY <1>1, <2>2, <2>3, <2>4, <2>5 DEF CommandInv
<1>7. QED
  BY <1>2, <1>3, <1>4, <1>5, <1>6 DEF Next

\* The invariant holds in every reachable state: one job at a time, no lost
\* wake-up, listeners exactly in the acknowledgement window, the attempt
\* budget, and queues in the order of acceptance.
THEOREM CommandCorrect == Spec => []CommandInv
<1>1. Init => CommandInv
  <2> SUFFICES ASSUME Init PROVE CommandInv
    OBVIOUS
  <2>1. TypeOK
    BY InitTypes
  <2>2. OneJobAtATime /\ QueuedWorkIsDriven
    BY DEF Init, OneJobAtATime, InProgress, QueuedWorkIsDriven
  <2>3. AckWindow /\ AttemptBudget /\ StageShape
    BY CommandAssumption DEF Init, AckWindow, AttemptBudget, Accepted, StageShape
  <2>4. /\ QueueHolds(queue, "normal", request, exec, ticket, sent)
        /\ QueueHolds(lowPriorityQueue, "low", request, exec, ticket, sent)
    BY DEF Init, QueueHolds
  <2>5. QED
    BY <2>1, <2>2, <2>3, <2>4 DEF CommandInv
<1>2. QED
  BY <1>1, NextInv, PTL DEF Spec

-----------------------------------------------------------------------------
(* What the invariant gives.                                               *)

\* At most one command of a port is executed at any time, and isProcessing is
\* true exactly then.
THEOREM OneJobAtATimeCorrect == Spec => []OneJobAtATime
  BY CommandCorrect, PTL DEF CommandInv

\* A queued command always has a command in progress whose finally calls
\* processQueue: no wake-up is lost.
THEOREM QueuedWorkIsDrivenCorrect == Spec => []QueuedWorkIsDriven
  BY CommandCorrect, PTL DEF CommandInv

\* The listeners of a command are registered exactly while its acknowledgement
\* timer is pending.
THEOREM AckWindowCorrect == Spec => []AckWindow
  BY CommandCorrect, PTL DEF CommandInv

\* A command is written at most 1 + attempts times, and never given up before.
THEOREM AttemptBudgetCorrect == Spec => []AttemptBudget
  BY CommandCorrect, PTL DEF CommandInv

\* A job that waits has been granted a place in the queue of its priority.
LEMMA FifoFromInv == CommandInv => FifoPerPriority
<1> SUFFICES ASSUME CommandInv, NEW j \in Jobs, NEW k \in Jobs,
                    Accepted(j), Accepted(k),
                    request[j].priority = request[k].priority,
                    ticket[j] < ticket[k], sent[k] > 0
             PROVE  sent[j] > 0
  BY DEF FifoPerPriority
<1> SUFFICES ASSUME sent[j] = 0 PROVE FALSE
  BY DEF CommandInv, TypeOK
<1>1. exec[j] = "queued"
  BY DEF CommandInv, StageShape, Accepted
<1>2. request[j].priority \in {"normal", "low"}
  <2>1. request[j] \in RequestType
    BY CommandAssumption DEF CommandInv, TypeOK, StageShape, Accepted
  <2>2. QED
    BY <2>1 DEF RequestType
<1>3. ticket[j] \in Nat /\ ticket[k] \in Nat
  BY DEF CommandInv, TypeOK
<1>4. ASSUME NEW q, NEW p, QueueHolds(q, p, request, exec, ticket, sent),
             request[j].priority = p
      PROVE  FALSE
  <2>1. PICK i \in 1..Len(q) : q[i] = j
    BY <1>1, <1>4 DEF QueueHolds
  <2>2. ticket[k] < ticket[q[i]]
    BY <1>4 DEF QueueHolds
  <2>3. QED
    BY <1>3, <2>1, <2>2
<1>5. QED
  BY <1>2, <1>4 DEF CommandInv

\* Commands of one priority are transmitted in the order of their send().
THEOREM FifoPerPriorityCorrect == Spec => []FifoPerPriority
  BY CommandCorrect, FifoFromInv, PTL

\* A step of the manager writes for a job in one of three situations: the
\* manager was idle, the previous job is in its finally, or the job retries.
LEMMA WriteExclusiveStep ==
  ASSUME CommandInv, [Next]_vars,
         NEW j \in Jobs, sent'[j] # sent[j], NEW k \in Jobs \ {j}, sent[k] > 0
  PROVE  isSettled[k]
<1>1. exec[k] \notin {"unsent", "queued"}
  BY DEF CommandInv, TypeOK, StageShape
<1>2. ASSUME ~InProgress(k) PROVE isSettled[k]
  BY <1>1, <1>2 DEF CommandInv, TypeOK, StageShape, InProgress, Stages
<1>3. ASSUME NEW i \in Jobs, NEW r \in Requests, Send(i, r) \/ SendRaw(i, r)
      PROVE  isSettled[k]
  <2>1. ~isProcessing
    BY <1>3 DEF Send, SendRaw, Enqueue
  <2>2. ~InProgress(k)
    BY <2>1 DEF CommandInv, OneJobAtATime
  <2>3. QED
    BY <1>2, <2>2
<1>4. ASSUME NEW S, OnAck(S) PROVE isSettled[k]
  BY <1>4 DEF OnAck
<1>5. ASSUME NEW i \in Jobs,
             AckTimeout(i) \/ Retry(i) \/ GiveUp(i) \/ Resolve(i) \/ Finally(i)
      PROVE  isSettled[k]
  <2>1. CASE AckTimeout(i) \/ GiveUp(i) \/ Resolve(i)
    BY <2>1 DEF AckTimeout, GiveUp, Resolve, historyVars
  <2>2. CASE Retry(i)
    <3>1. i = j
      BY <2>2 DEF Retry, Transmit, CommandInv, TypeOK
    <3>2. timer[i] # "none"
      BY <2>2 DEF Retry
    <3>3. InProgress(j)
      BY <3>1, <3>2, PendingTimer DEF InProgress
    <3>4. ~InProgress(k)
      BY <3>3 DEF CommandInv, OneJobAtATime
    <3>5. QED
      BY <1>2, <3>4
  <2>3. CASE Finally(i)
    <3>1. exec[i] = "returned"
      BY <2>3 DEF Finally
    <3>2. k = i \/ ~InProgress(k)
      BY <3>1 DEF CommandInv, OneJobAtATime, InProgress
    <3>3. isSettled[i]
      BY <3>1 DEF CommandInv, StageShape
    <3>4. QED
      BY <1>2, <3>2, <3>3
  <2>4. QED
    BY <1>5, <2>1, <2>2, <2>3
<1>6. CASE UNCHANGED vars
  BY <1>6 DEF vars, historyVars
<1>7. QED
  BY <1>3, <1>4, <1>5, <1>6 DEF Next, StateChanged, PacketReceived

\* Nothing is written to the port while another command that was written still
\* waits for its acknowledgement.
THEOREM WriteIsExclusiveCorrect == Spec => WriteIsExclusive
<1>1. CommandInv /\ [Next]_vars
        => [\A j \in Jobs : sent'[j] # sent[j] =>
              \A k \in Jobs \ {j} : sent[k] > 0 => isSettled[k]]_vars
  BY WriteExclusiveStep
<1>2. QED
  BY <1>1, CommandCorrect, PTL DEF Spec, WriteIsExclusive

\* What Transmit changes, whichever job it is called for.
LEMMA TransmitFrame ==
  ASSUME CommandInv, NEW i \in Jobs, NEW left, NEW stage,
         Transmit(i, left, stage), ~isSettled[i],
         NEW j \in Jobs, isSettled[j]
  PROVE  isSettled'[j] /\ outcome'[j] = outcome[j] /\ sent'[j] = sent[j]
<1>1. i # j
  OBVIOUS
<1>2. sent'[j] = sent[j]
  BY <1>1 DEF Transmit, CommandInv, TypeOK
<1>3. CASE NeedsAck(request'[i])
  BY <1>2, <1>3 DEF Transmit
<1>4. CASE ~NeedsAck(request'[i])
  <2>1. /\ isSettled' = [isSettled EXCEPT ![i] = TRUE]
        /\ outcome' = [outcome EXCEPT ![i] = "unacknowledged"]
    BY <1>4 DEF Transmit
  <2>2. isSettled'[j] = isSettled[j] /\ outcome'[j] = outcome[j]
    BY <1>1, <2>1 DEF CommandInv, TypeOK
  <2>3. QED
    BY <1>2, <2>2
<1>5. QED
  BY <1>3, <1>4

\* processQueue takes queued jobs only, and a queued job is not settled.
LEMMA ProcessQueueFrame ==
  ASSUME CommandInv, NEW q \in Seq(Jobs), NEW low \in Seq(Jobs),
         NEW left, NEW stage, ProcessQueue(q, low, left, stage),
         \A i \in 1..Len(q) : ~isSettled[q[i]],
         \A i \in 1..Len(low) : ~isSettled[low[i]],
         NEW j \in Jobs, isSettled[j]
  PROVE  isSettled'[j] /\ outcome'[j] = outcome[j] /\ sent'[j] = sent[j]
<1>1. CASE q # <<>> /\ Transmit(Head(q), left, stage)
  <2>1. Head(q) \in Jobs /\ ~isSettled[Head(q)]
    BY <1>1
  <2>2. QED
    BY <1>1, <2>1, TransmitFrame
<1>2. CASE low # <<>> /\ Transmit(Head(low), left, stage)
  <2>1. Head(low) \in Jobs /\ ~isSettled[Head(low)]
    BY <1>2
  <2>2. QED
    BY <1>2, <2>1, TransmitFrame
<1>3. CASE UNCHANGED <<isSettled, sent, outcome>>
  BY <1>3
<1>4. QED
  BY <1>1, <1>2, <1>3 DEF ProcessQueue

\* A queued job is not settled.
LEMMA QueuedUnsettled ==
  ASSUME CommandInv
  PROVE  /\ \A i \in 1..Len(queue) : ~isSettled[queue[i]]
         /\ \A i \in 1..Len(lowPriorityQueue) : ~isSettled[lowPriorityQueue[i]]
<1>1. ASSUME NEW q \in Seq(Jobs), NEW p,
             QueueHolds(q, p, request, exec, ticket, sent), NEW i \in 1..Len(q)
      PROVE  ~isSettled[q[i]]
  <2>1. q[i] \in Jobs /\ exec[q[i]] = "queued"
    BY <1>1 DEF QueueHolds
  <2>2. QED
    BY <2>1 DEF CommandInv, StageShape
<1>2. QED
  BY <1>1 DEF CommandInv, TypeOK

\* No step changes the result of a settled job or writes it again.
LEMMA SettledStep ==
  ASSUME CommandInv, [Next]_vars, NEW j \in Jobs, isSettled[j]
  PROVE  isSettled'[j] /\ outcome'[j] = outcome[j] /\ sent'[j] = sent[j]
<1>1. ASSUME NEW i \in Jobs, NEW r \in Requests, Send(i, r) \/ SendRaw(i, r)
      PROVE  isSettled'[j] /\ outcome'[j] = outcome[j] /\ sent'[j] = sent[j]
  <2> DEFINE left  == [attemptsLeft EXCEPT ![i] = InitialAttempts(r)]
             stage == [exec EXCEPT ![i] = "queued"]
             q     == IF r.priority = "low" THEN queue ELSE Append(queue, i)
             low   == IF r.priority = "low" THEN Append(lowPriorityQueue, i)
                                            ELSE lowPriorityQueue
  <2>1. ~isSettled[i]
    BY <1>1 DEF Send, SendRaw, Enqueue, CommandInv, StageShape
  <2>2. queue \in Seq(Jobs) /\ lowPriorityQueue \in Seq(Jobs)
    BY DEF CommandInv, TypeOK
  <2>3. q \in Seq(Jobs) /\ low \in Seq(Jobs)
    BY <2>2
  <2>4. \A n \in 1..Len(q) : ~isSettled[q[n]]
    BY <2>1, <2>2, QueuedUnsettled
  <2>5. \A n \in 1..Len(low) : ~isSettled[low[n]]
    BY <2>1, <2>2, QueuedUnsettled
  <2>6. \/ UNCHANGED <<isSettled, sent, outcome>>
        \/ ProcessQueue(q, low, left, stage)
    BY <1>1 DEF Send, SendRaw, Enqueue
  <2> HIDE DEF left, stage, q, low
  <2>7. QED
    BY <2>3, <2>4, <2>5, <2>6, ProcessQueueFrame
<1>2. ASSUME NEW S, OnAck(S)
      PROVE  isSettled'[j] /\ outcome'[j] = outcome[j] /\ sent'[j] = sent[j]
  BY <1>2 DEF OnAck
<1>3. ASSUME NEW i \in Jobs,
             AckTimeout(i) \/ Retry(i) \/ GiveUp(i) \/ Resolve(i) \/ Finally(i)
      PROVE  isSettled'[j] /\ outcome'[j] = outcome[j] /\ sent'[j] = sent[j]
  <2>1. CASE AckTimeout(i) \/ Resolve(i)
    BY <2>1 DEF AckTimeout, Resolve, historyVars
  <2>2. CASE Retry(i)
    BY <2>2, TransmitFrame DEF Retry
  <2>3. CASE GiveUp(i)
    <3>1. /\ ~isSettled[i]
          /\ isSettled' = [isSettled EXCEPT ![i] = TRUE]
          /\ outcome' = [outcome EXCEPT ![i] = "exhausted"]
          /\ sent' = sent
      BY <2>3 DEF GiveUp
    <3>2. isSettled'[j] = isSettled[j] /\ outcome'[j] = outcome[j]
      BY <3>1 DEF CommandInv, TypeOK
    <3>3. QED
      BY <3>1, <3>2
  <2>4. CASE Finally(i)
    <3>1. queue \in Seq(Jobs) /\ lowPriorityQueue \in Seq(Jobs)
      BY DEF CommandInv, TypeOK
    <3>2. ProcessQueue(queue, lowPriorityQueue, attemptsLeft,
                       [exec EXCEPT ![i] = "done"])
      BY <2>4 DEF Finally
    <3>3. QED
      BY <3>1, <3>2, QueuedUnsettled, ProcessQueueFrame
  <2>5. QED
    BY <1>3, <2>1, <2>2, <2>3, <2>4
<1>4. CASE UNCHANGED vars
  BY <1>4 DEF vars, historyVars, jobVars
<1>5. QED
  BY <1>1, <1>2, <1>3, <1>4 DEF Next, StateChanged, PacketReceived

\* The result of a command is final, whatever timers and events come later.
THEOREM SettledIsFinalCorrect == Spec => SettledIsFinal
<1>1. CommandInv /\ [Next]_vars
        => [\A j \in Jobs : isSettled[j] =>
              isSettled'[j] /\ outcome'[j] = outcome[j]
                /\ sent'[j] = sent[j]]_vars
  BY SettledStep
<1>2. QED
  BY <1>1, CommandCorrect, PTL DEF Spec, SettledIsFinal

-----------------------------------------------------------------------------
(***************************************************************************)
(* CommandManager implements CommandService.  The invariant CommandInv       *)
(* gives what the mapping needs: the active job is the one in progress, the *)
(* queues are the backlog in the order of Precedes, and the attempt budget  *)
(* is the number of transmissions the service allows.                      *)
(***************************************************************************)

\* The backlog of the service, of given stages.
WaitingJobs(stage) == {j \in Jobs : stage[j] = "queued"}

\* The active job of the service is the job in progress.
LEMMA ActiveInProgress ==
  ASSUME OneJobAtATime
  PROVE  /\ \A j \in Jobs : InProgress(j) => ActiveJob = j
         /\ ActiveJob = NoJob <=> ~isProcessing
BY CommandAssumption DEF OneJobAtATime, ActiveJob

\* An accepted job has a request, and that one of two priorities.
LEMMA AcceptedRequest ==
  ASSUME CommandInv, NEW j \in Jobs, exec[j] # "unsent"
  PROVE  /\ request[j] \in Requests
         /\ request[j].priority \in {"normal", "low"}
BY CommandAssumption DEF CommandInv, TypeOK, StageShape, RequestType

\* The service expects an acknowledgement of the same requests, and allows as
\* many transmissions as send() or sendRaw() grants.
LEMMA SameBudget ==
  ASSUME NEW r
  PROVE  /\ Service!Expects(r) <=> NeedsAck(r)
         /\ Service!Allowed(r) = InitialAttempts(r)
BY DEF Service!Expects, Service!Allowed, NeedsAck, InitialAttempts

\* The start of job j, which precedes all other waiting jobs, is StartFirst.
LEMMA TransmitStarts ==
  ASSUME TypeOK, CommandInv', NEW stage \in [Jobs -> Stages], NEW left,
         \A k \in Jobs : stage[k] \in {"unsent", "queued", "done"},
         NEW j \in Jobs, stage[j] = "queued", sent[j] = 0,
         Transmit(j, left, stage),
         \A k \in WaitingJobs(stage) \ {j} : Service!Precedes(j, k)
  PROVE  Service!StartFirst(WaitingJobs(stage))
<1>1. PICK new \in {"running", "fulfilled"} : exec' = [stage EXCEPT ![j] = new]
  BY DEF Transmit
<1>2. \A k \in Jobs : exec'[k] = IF k = j THEN new ELSE stage[k]
  BY <1>1
<1>3. {k \in Jobs : exec'[k] = "queued"} = WaitingJobs(stage) \ {j}
  BY <1>2 DEF WaitingJobs
<1>4. ActiveJob' = j
  <2>1. InProgress(j)'
    BY <1>2 DEF InProgress
  <2>2. OneJobAtATime'
    BY DEF CommandInv
  <2>3. QED
    BY <2>1, <2>2, CommandAssumption DEF OneJobAtATime, ActiveJob
<1>5. sent' = [sent EXCEPT ![j] = 1]
  BY DEF Transmit, TypeOK
<1>6. outcome' = IF Service!Expects(request'[j]) THEN outcome
                 ELSE [outcome EXCEPT ![j] = "unacknowledged"]
  BY SameBudget DEF Transmit
<1>7. j \in WaitingJobs(stage)
  BY DEF WaitingJobs
<1>8. QED
  BY <1>3, <1>4, <1>5, <1>6, <1>7 DEF Service!StartFirst

\* processQueue of an idle manager starts the waiting job that precedes all
\* others, or finds none: StartFirst of the service.
LEMMA ProcessQueueStarts ==
  ASSUME TypeOK, CommandInv',
         NEW q \in Seq(Jobs), NEW low \in Seq(Jobs), NEW left,
         NEW stage \in [Jobs -> Stages],
         \A k \in Jobs : /\ stage[k] \in {"unsent", "queued", "done"}
                         /\ stage[k] = "queued" => sent[k] = 0
                         /\ stage[k] = "queued" =>
                              request'[k].priority \in {"normal", "low"},
         QueueHolds(q, "normal", request', stage, ticket', sent),
         QueueHolds(low, "low", request', stage, ticket', sent),
         ProcessQueue(q, low, left, stage)
  PROVE  Service!StartFirst(WaitingJobs(stage))
<1>1. CASE q # <<>> /\ Transmit(Head(q), left, stage)
  <2> DEFINE j == Head(q)
  <2>1. j = q[1] /\ 1 \in 1..Len(q) /\ j \in Jobs
    BY <1>1
  <2>2. stage[j] = "queued" /\ request'[j].priority = "normal"
    BY <2>1 DEF QueueHolds
  <2>3. ASSUME NEW k \in WaitingJobs(stage) \ {j} PROVE Service!Precedes(j, k)
    <3>1. k \in Jobs /\ stage[k] = "queued" /\ k # j
      BY <2>3 DEF WaitingJobs
    <3>2. CASE request'[k].priority = "normal"
      <4>1. PICK i \in 1..Len(q) : q[i] = k
        BY <3>1, <3>2 DEF QueueHolds
      <4>2. 1 < i
        BY <2>1, <3>1, <4>1
      <4>3. ticket'[j] < ticket'[k]
        BY <2>1, <4>1, <4>2 DEF QueueHolds
      <4>4. QED
        BY <2>2, <3>2, <4>3 DEF Service!Precedes
    <3>3. CASE request'[k].priority = "low"
      BY <2>2, <3>3 DEF Service!Precedes
    <3>4. QED
      BY <3>1, <3>2, <3>3
  <2>4. QED
    BY <1>1, <2>1, <2>2, <2>3, TransmitStarts
<1>2. CASE q = <<>> /\ low # <<>> /\ Transmit(Head(low), left, stage)
  <2> DEFINE j == Head(low)
  <2>1. j = low[1] /\ 1 \in 1..Len(low) /\ j \in Jobs
    BY <1>2
  <2>2. stage[j] = "queued" /\ request'[j].priority = "low"
    BY <2>1 DEF QueueHolds
  <2>3. ASSUME NEW k \in WaitingJobs(stage) \ {j} PROVE Service!Precedes(j, k)
    <3>1. k \in Jobs /\ stage[k] = "queued" /\ k # j
      BY <2>3 DEF WaitingJobs
    <3>2. request'[k].priority = "low"
      BY <1>2, <3>1 DEF QueueHolds
    <3>3. PICK i \in 1..Len(low) : low[i] = k
      BY <3>1, <3>2 DEF QueueHolds
    <3>4. 1 < i
      BY <2>1, <3>1, <3>3
    <3>5. ticket'[j] < ticket'[k]
      BY <2>1, <3>3, <3>4 DEF QueueHolds
    <3>6. QED
      BY <2>2, <3>2, <3>5 DEF Service!Precedes
  <2>4. QED
    BY <1>2, <2>1, <2>2, <2>3, TransmitStarts
<1>3. CASE /\ q = <<>> /\ low = <<>> /\ exec' = stage
           /\ UNCHANGED <<sent, outcome>>
  <2>1. WaitingJobs(stage) = {}
    BY <1>3 DEF WaitingJobs, QueueHolds
  <2>2. {k \in Jobs : exec'[k] = "queued"} = {}
    BY <1>3, <2>1 DEF WaitingJobs
  <2>3. ActiveJob' = NoJob
    BY <1>3 DEF ActiveJob, InProgress
  <2>4. QED
    BY <1>3, <2>1, <2>2, <2>3 DEF Service!StartFirst
<1>4. QED
  BY <1>1, <1>2, <1>3 DEF ProcessQueue
-----------------------------------------------------------------------------
(* The steps.                                                              *)

\* send() and sendRaw() are Accept of the service.
LEMMA EnqueueAccepts ==
  ASSUME CommandInv, NEW j \in Jobs, NEW r \in Requests, Enqueue(j, r)
  PROVE  Service!Accept(j, r)
<1> DEFINE left  == [attemptsLeft EXCEPT ![j] = InitialAttempts(r)]
           stage == [exec EXCEPT ![j] = "queued"]
           q     == IF r.priority = "low" THEN queue ELSE Append(queue, j)
           low   == IF r.priority = "low" THEN Append(lowPriorityQueue, j)
                                          ELSE lowPriorityQueue
<1>1. TypeOK /\ CommandInv'
  BY EnqueueInv DEF CommandInv
<1>2. /\ stage \in [Jobs -> Stages] /\ q \in Seq(Jobs) /\ low \in Seq(Jobs)
  BY <1>1 DEF TypeOK, Stages
<1>3. /\ QueueHolds(q, "normal", request', stage, ticket', sent)
      /\ QueueHolds(low, "low", request', stage, ticket', sent)
  BY EnqueueQueues
<1>4. /\ exec[j] = "unsent" /\ sent[j] = 0 /\ request[j] = NoRequest
      /\ request' = [request EXCEPT ![j] = r]
      /\ ticket' = [ticket EXCEPT ![j] = nextTicket]
      /\ nextTicket' = nextTicket + 1
      /\ r.priority \in {"normal", "low"}
  BY CommandAssumption DEF CommandInv, StageShape, Enqueue, RequestType
<1>5. WaitingJobs(stage) = {k \in Jobs : exec[k] = "queued"} \cup {j}
  BY <1>1 DEF WaitingJobs, TypeOK
<1>6. ActiveJob = NoJob <=> ~isProcessing
  BY ActiveInProgress DEF CommandInv
<1>7. CASE isProcessing
  <2>1. /\ exec' = stage /\ UNCHANGED <<isProcessing, sent, outcome>>
    BY <1>7 DEF Enqueue
  <2>2. {k \in Jobs : exec'[k] = "queued"} = {k \in Jobs : exec[k] = "queued"} \cup {j}
    BY <1>5, <2>1 DEF WaitingJobs
  <2>3. \A k \in Jobs : InProgress(k)' <=> InProgress(k)
    BY <1>1, <1>4, <2>1 DEF TypeOK, InProgress
  <2>4. ActiveJob' = ActiveJob
    <3>1. PICK k \in Jobs : InProgress(k)
      BY <1>7 DEF CommandInv, OneJobAtATime
    <3>2. ActiveJob = k
      BY <3>1, ActiveInProgress DEF CommandInv
    <3>3. OneJobAtATime'
      BY <1>1 DEF CommandInv
    <3>4. ActiveJob' = k
      BY <2>3, <3>1, <3>3 DEF OneJobAtATime, ActiveJob
    <3>5. QED
      BY <3>2, <3>4
  <2>5. QED
    BY <1>4, <1>6, <1>7, <2>1, <2>2, <2>4 DEF Service!Accept
<1>8. CASE ~isProcessing
  <2>1. ProcessQueue(q, low, left, stage)
    BY <1>8 DEF Enqueue
  <2>2. \A k \in Jobs : ~InProgress(k)
    BY <1>8 DEF CommandInv, OneJobAtATime
  <2>3. ASSUME NEW k \in Jobs
        PROVE  /\ stage[k] \in {"unsent", "queued", "done"}
               /\ stage[k] = "queued" => sent[k] = 0
               /\ stage[k] = "queued" =>
                    request'[k].priority \in {"normal", "low"}
    <3>1. exec[k] \in {"unsent", "queued", "done"}
      BY <1>1, <2>2 DEF TypeOK, InProgress, Stages
    <3>2. CASE k = j
      BY <1>1, <1>4, <3>2 DEF TypeOK
    <3>3. CASE k # j
      <4>1. stage[k] = exec[k]
        BY <3>3 DEF CommandInv, TypeOK
      <4>2. exec[k] = "queued" => sent[k] = 0
        BY DEF CommandInv, StageShape
      <4>3. exec[k] = "queued" => request'[k].priority \in {"normal", "low"}
        BY <1>1, <1>4, <3>3, AcceptedRequest DEF TypeOK
      <4>4. QED
        BY <3>1, <4>1, <4>2, <4>3
    <3>4. QED
      BY <3>2, <3>3
  <2> HIDE DEF q, low, left, stage
  <2>4. Service!StartFirst(WaitingJobs(stage))
    BY <1>1, <1>2, <1>3, <2>1, <2>3, ProcessQueueStarts DEF Service!StartFirst
  <2>5. QED
    BY <1>4, <1>5, <1>6, <1>8, <2>4 DEF Service!Accept, Service!StartFirst
<1>9. QED
  BY <1>7, <1>8

\* While a started job stays in progress it stays the active one, and the
\* backlog stays as it is.
LEMMA StaysActive ==
  ASSUME CommandInv, OneJobAtATime', NEW j \in Jobs,
         InProgress(j), InProgress(j)',
         \A k \in Jobs \ {j} : exec'[k] = exec[k]
  PROVE  /\ ActiveJob = j /\ ActiveJob' = j
         /\ {k \in Jobs : exec'[k] = "queued"} = {k \in Jobs : exec[k] = "queued"}
<1>1. ActiveJob = j
  BY ActiveInProgress DEF CommandInv
<1>2. ActiveJob' = j
  BY DEF OneJobAtATime, ActiveJob
<1>3. QED
  BY <1>1, <1>2 DEF InProgress

\* An acknowledgement is Succeed of the active job, or changes nothing that
\* the service knows of: at most one job listens, and that is unsettled.
LEMMA OnAckSucceeds ==
  ASSUME CommandInv, NEW S \in SUBSET Jobs, OnAck(S),
         \A j \in S : timer[j] = "ack"
  PROVE  (\E j \in Jobs : Service!Succeed(j)) \/ UNCHANGED Service!vars
<1>1. TypeOK /\ CommandInv'
  BY OnAckInv DEF CommandInv
<1>2. \A j \in S : /\ exec[j] = "running" /\ NeedsAck(request[j])
                   /\ outcome[j] = "none" /\ ~isSettled[j]
  BY PendingTimer DEF CommandInv, StageShape
<1>3. CASE S = {}
  <2>1. /\ \A k \in Jobs : exec'[k] = exec[k] /\ outcome'[k] = outcome[k]
        /\ exec' = [k \in Jobs |-> exec'[k]]
        /\ outcome' = [k \in Jobs |-> outcome'[k]]
    BY <1>1, <1>3 DEF OnAck
  <2>2. UNCHANGED <<request, ticket, nextTicket, exec, sent, outcome>>
    BY <1>1, <2>1 DEF OnAck, TypeOK
  <2>3. QED
    BY <2>2 DEF Service!vars, ActiveJob, InProgress
<1>4. ASSUME NEW j \in S PROVE Service!Succeed(j)
  <2>1. \A k \in S : k = j
    BY <1>2 DEF CommandInv, OneJobAtATime, InProgress
  <2>2. \A k \in Jobs :
          /\ exec'[k] = IF k = j THEN "fulfilled" ELSE exec[k]
          /\ outcome'[k] = IF k = j THEN "acked" ELSE outcome[k]
    BY <1>2, <2>1 DEF OnAck
  <2>3. outcome' = [outcome EXCEPT ![j] = "acked"]
    BY <1>1, <2>2 DEF OnAck, TypeOK
  <2>4. InProgress(j) /\ InProgress(j)'
    BY <1>2, <2>2 DEF InProgress
  <2>5. /\ ActiveJob = j /\ ActiveJob' = j
        /\ {k \in Jobs : exec'[k] = "queued"} = {k \in Jobs : exec[k] = "queued"}
    BY <1>1, <2>2, <2>4, StaysActive DEF CommandInv
  <2>6. Service!Expects(request[j])
    BY <1>2, SameBudget
  <2>7. QED
    BY <1>2, <2>3, <2>5, <2>6 DEF Service!Succeed, OnAck
<1>5. QED
  BY <1>3, <1>4

\* The acknowledgement timer only starts the interval: the service stutters.
LEMMA AckTimeoutStutters ==
  ASSUME CommandInv, NEW j \in Jobs, AckTimeout(j)
  PROVE  UNCHANGED Service!vars
BY DEF AckTimeout, historyVars, Service!vars, ActiveJob, InProgress

\* A retry is Retransmit: attempts are left exactly when fewer transmissions
\* were made than the service allows.
LEMMA RetryRetransmits ==
  ASSUME CommandInv, NEW j \in Jobs, Retry(j)
  PROVE  Service!Retransmit(j)
<1>1. TypeOK /\ CommandInv'
  <2>1. [Next]_vars
    BY DEF Next
  <2>2. QED
    BY <2>1, NextInv DEF CommandInv
<1>2. /\ exec[j] = "running" /\ NeedsAck(request[j]) /\ outcome[j] = "none"
  BY PendingTimer DEF Retry
<1>3. sent[j] < Service!Allowed(request[j])
  <2>1. /\ sent[j] + attemptsLeft[j] = InitialAttempts(request[j])
        /\ attemptsLeft[j] > 0
    BY <1>2 DEF CommandInv, AttemptBudget, Accepted, Retry
  <2>2. sent[j] \in Nat /\ attemptsLeft[j] \in Int
    BY <1>1 DEF TypeOK
  <2>3. QED
    BY <2>1, <2>2, SameBudget
<1>4. request' = request /\ NeedsAck(request'[j])
  BY <1>2 DEF Retry
<1>5. /\ sent' = [sent EXCEPT ![j] = @ + 1]
      /\ exec' = [exec EXCEPT ![j] = "running"]
      /\ UNCHANGED <<request, ticket, nextTicket, outcome>>
  BY <1>4 DEF Retry, Transmit
<1>6. exec' = exec
  BY <1>1, <1>2, <1>5 DEF TypeOK
<1>7. ActiveJob = j
  BY <1>2, ActiveInProgress DEF CommandInv, InProgress
<1>8. ActiveJob' = ActiveJob
  BY <1>6 DEF ActiveJob, InProgress
<1>9. QED
  BY <1>2, <1>3, <1>5, <1>6, <1>7, <1>8 DEF Service!Retransmit

\* Giving up is Fail: every transmission the service allows was made.
LEMMA GiveUpFails ==
  ASSUME CommandInv, NEW j \in Jobs, GiveUp(j)
  PROVE  Service!Fail(j)
<1>1. TypeOK /\ CommandInv'
  <2>1. [Next]_vars
    BY DEF Next
  <2>2. QED
    BY <2>1, NextInv DEF CommandInv
<1>2. /\ exec[j] = "running" /\ outcome[j] = "none"
  BY PendingTimer DEF GiveUp
<1>3. sent[j] = Service!Allowed(request[j])
  <2>1. /\ sent[j] + attemptsLeft[j] = InitialAttempts(request[j])
        /\ sent[j] <= InitialAttempts(request[j])
        /\ attemptsLeft[j] <= 0
    BY <1>2 DEF CommandInv, AttemptBudget, Accepted, GiveUp
  <2>2. sent[j] \in Nat /\ attemptsLeft[j] \in Int
    BY <1>1 DEF TypeOK
  <2>3. QED
    BY <2>1, <2>2, SameBudget
<1>4. /\ exec' = [exec EXCEPT ![j] = "fulfilled"]
      /\ outcome' = [outcome EXCEPT ![j] = "exhausted"]
      /\ UNCHANGED <<request, ticket, nextTicket, sent>>
  BY DEF GiveUp
<1>5. \A k \in Jobs : exec'[k] = IF k = j THEN "fulfilled" ELSE exec[k]
  BY <1>1, <1>4 DEF TypeOK
<1>6. InProgress(j) /\ InProgress(j)'
  BY <1>2, <1>5 DEF InProgress
<1>7. /\ ActiveJob = j /\ ActiveJob' = j
      /\ {k \in Jobs : exec'[k] = "queued"} = {k \in Jobs : exec[k] = "queued"}
  BY <1>1, <1>5, <1>6, StaysActive DEF CommandInv
<1>8. QED
  BY <1>2, <1>3, <1>4, <1>7 DEF Service!Fail

\* Resolving the caller's promise is invisible: the job stays active until its
\* finally.
LEMMA ResolveStutters ==
  ASSUME CommandInv, NEW j \in Jobs, Resolve(j)
  PROVE  UNCHANGED Service!vars
<1>1. TypeOK /\ CommandInv'
  <2>1. [Next]_vars
    BY DEF Next
  <2>2. QED
    BY <2>1, NextInv DEF CommandInv
<1>2. \A k \in Jobs : exec'[k] = IF k = j THEN "returned" ELSE exec[k]
  BY <1>1 DEF Resolve, TypeOK
<1>3. InProgress(j) /\ InProgress(j)'
  BY <1>2 DEF InProgress, Resolve
<1>4. /\ ActiveJob = j /\ ActiveJob' = j
      /\ {k \in Jobs : exec'[k] = "queued"} = {k \in Jobs : exec[k] = "queued"}
  BY <1>1, <1>2, <1>3, StaysActive DEF CommandInv
<1>5. QED
  BY <1>4 DEF Service!vars, Resolve, historyVars

\* finally, with its processQueue(), is Serve.
LEMMA FinallyServes ==
  ASSUME CommandInv, NEW j \in Jobs, Finally(j)
  PROVE  Service!Serve(j)
<1> DEFINE stage == [exec EXCEPT ![j] = "done"]
<1>1. TypeOK /\ CommandInv'
  <2>1. [Next]_vars
    BY DEF Next
  <2>2. QED
    BY <2>1, NextInv DEF CommandInv
<1>2. /\ exec[j] = "returned"
      /\ UNCHANGED <<request, ticket, nextTicket>>
      /\ ProcessQueue(queue, lowPriorityQueue, attemptsLeft, stage)
  BY DEF Finally
<1>3. ActiveJob = j /\ outcome[j] # "none"
  BY <1>2, ActiveInProgress DEF CommandInv, StageShape, InProgress
<1>4. \A k \in Jobs : stage[k] = IF k = j THEN "done" ELSE exec[k]
  BY <1>1 DEF TypeOK
<1>5. /\ stage \in [Jobs -> Stages]
      /\ queue \in Seq(Jobs) /\ lowPriorityQueue \in Seq(Jobs)
  BY <1>1 DEF TypeOK, Stages
<1> HIDE DEF stage
<1>6. ASSUME NEW k \in Jobs
      PROVE  /\ stage[k] \in {"unsent", "queued", "done"}
             /\ stage[k] = "queued" => sent[k] = 0
             /\ stage[k] = "queued" => request'[k].priority \in {"normal", "low"}
  <2>1. k # j => exec[k] \in {"unsent", "queued", "done"}
    BY <1>1, <1>2 DEF CommandInv, TypeOK, OneJobAtATime, InProgress, Stages
  <2>2. QED
    BY <1>2, <1>4, <2>1, AcceptedRequest DEF CommandInv, StageShape
<1>7. /\ QueueHolds(queue, "normal", request', stage, ticket', sent)
      /\ QueueHolds(lowPriorityQueue, "low", request', stage, ticket', sent)
  <2>1. \A k \in Jobs : /\ stage[k] = "queued" <=> exec[k] = "queued"
                        /\ sent[k] > 0 => sent[k] > 0
    BY <1>2, <1>4
  <2>2. /\ QueueHolds(queue, "normal", request, exec, ticket, sent)
        /\ QueueHolds(lowPriorityQueue, "low", request, exec, ticket, sent)
    BY DEF CommandInv
  <2>3. /\ QueueHolds(queue, "normal", request, stage, ticket, sent)
        /\ QueueHolds(lowPriorityQueue, "low", request, stage, ticket, sent)
    BY ONLY <1>5, <2>1, <2>2, QueueFrame
  <2>4. QED
    BY <1>2, <2>3
<1>8. Service!StartFirst(WaitingJobs(stage))
  BY <1>1, <1>2, <1>5, <1>6, <1>7, ProcessQueueStarts DEF Service!StartFirst
<1>9. WaitingJobs(stage) = {k \in Jobs : exec[k] = "queued"}
  BY <1>2, <1>4 DEF WaitingJobs
<1>10. QED
  BY <1>2, <1>3, <1>8, <1>9 DEF Service!Serve, Service!StartFirst
-----------------------------------------------------------------------------
\* The initial states map to the initial state of the service.
LEMMA InitMaps == Init => Service!Init
BY DEF Init, Service!Init, ActiveJob, InProgress

\* Every step of the manager is a step of the service, or one it does not see.
LEMMA StepMaps == CommandInv /\ [Next]_vars => [Service!Next]_(Service!vars)
<1> SUFFICES ASSUME CommandInv, [Next]_vars
             PROVE  Service!Next \/ UNCHANGED Service!vars
  OBVIOUS
<1>1. ASSUME NEW j \in Jobs, NEW r \in Requests, Send(j, r) \/ SendRaw(j, r)
      PROVE  Service!Next
  BY <1>1, EnqueueAccepts DEF Send, SendRaw, Service!Next
<1>2. ASSUME NEW e \in Entities, NEW p \in Ports \cup {NoPort},
             StateChanged(e, p)
      PROVE  Service!Next \/ UNCHANGED Service!vars
  <2>1. /\ {ackListeners[e]} \ {NoJob} \in SUBSET Jobs
        /\ \A j \in {ackListeners[e]} \ {NoJob} : timer[j] = "ack"
    BY DEF CommandInv, TypeOK, AckWindow
  <2>2. QED
    BY <1>2, <2>1, OnAckSucceeds DEF StateChanged, Service!Next
<1>3. ASSUME NEW m \in Packets, PacketReceived(m)
      PROVE  Service!Next \/ UNCHANGED Service!vars
  <2>1. /\ {j \in packetAckListeners : request[j].ackMatch = m} \in SUBSET Jobs
        /\ \A j \in {k \in packetAckListeners : request[k].ackMatch = m} :
             timer[j] = "ack"
    BY DEF CommandInv, TypeOK, AckWindow
  <2>2. QED
    BY <1>3, <2>1, OnAckSucceeds DEF PacketReceived, Service!Next
<1>4. ASSUME NEW j \in Jobs,
             AckTimeout(j) \/ Retry(j) \/ GiveUp(j) \/ Resolve(j) \/ Finally(j)
      PROVE  Service!Next \/ UNCHANGED Service!vars
  BY <1>4, AckTimeoutStutters, RetryRetransmits, GiveUpFails, ResolveStutters,
     FinallyServes DEF Service!Next
<1>5. CASE UNCHANGED vars
  BY <1>5 DEF vars, jobVars, historyVars, Service!vars, ActiveJob, InProgress
<1>6. QED
  BY <1>1, <1>2, <1>3, <1>4, <1>5 DEF Next

\* CommandManager implements CommandService for every set of jobs, entities
\* and requests: a caller cannot tell the two queues, the listeners, the timers
\* and the promise chain from a service that serves one job at a time, the
\* normal ones first and each priority in the order of send().
THEOREM ServiceImplemented == Spec => ImplementsService
<1>1. Init => Service!Init
  BY InitMaps
<1>2. CommandInv /\ [Next]_vars => [Service!Next]_(Service!vars)
  BY StepMaps
<1>3. QED
  BY <1>1, <1>2, CommandCorrect, PTL DEF Spec, ImplementsService, Service!Spec

-----------------------------------------------------------------------------
(* The connection, as MCPort instantiates it.                              *)

\* The initial state satisfies the invariant.
LEMMA TcpInit == Tcp!Init => Tcp!ConnectionInv
<1> SUFFICES ASSUME Tcp!Init PROVE Tcp!ConnectionInv
  OBVIOUS
<1> USE TcpAssumption DEF Tcp!Init
<1>1. Tcp!TypeOK
  <2>1. MaxRetries \in Nat /\ InitialDelay \in InitialDelay..MaxDelay
    OBVIOUS
  <2>2. writeBuffer \in Seq(Nat) /\ pending \in Seq(Nat) /\ delivered \in Seq(Nat)
    OBVIOUS
  <2>3. status \in [Sockets -> Tcp!Statuses] /\ factory \in Tcp!Phases
    BY DEF Tcp!Statuses, Tcp!Phases
  <2>4. QED
    BY <2>1, <2>2, <2>3 DEF Tcp!TypeOK
<1>2. Tcp!SingleConnection /\ Tcp!OneAttempt /\ Tcp!AlwaysDriven
  BY DEF Tcp!SingleConnection, Tcp!OneAttempt, Tcp!AlwaysDriven, Tcp!Live
<1>3. Tcp!ChunksInOrder
  BY DEF Tcp!ChunksInOrder
<1>4. Tcp!SocketShape /\ Tcp!DestroyedShape /\ Tcp!FactoryShape /\ Tcp!ChunkCount
  BY DEF Tcp!SocketShape, Tcp!DestroyedShape, Tcp!FactoryShape, Tcp!ChunkCount,
         Tcp!Usable
<1>5. QED
  BY <1>1, <1>2, <1>3, <1>4 DEF Tcp!ConnectionInv

\* Chunk c is the first after the done ones, rest are all that follow it.
Follow(c, rest, done, last) ==
  /\ c = done + 1
  /\ Len(rest) = last - done - 1
  /\ \A i \in 1..Len(rest) : rest[i] = done + 1 + i

\* The delivered chunks: some of the done ones, in order.
Delivered(out, done) ==
  /\ out \in Seq(Nat)
  /\ \A i, j \in 1..Len(out) : i < j => out[i] < out[j]
  /\ \A i \in 1..Len(out) : out[i] <= done

\* What waits, and what was written after the done chunks.
Waiting(cur, rest)  == (IF cur = 0 THEN <<>> ELSE <<cur>>) \o rest
Between(done, last) == [i \in 1..(last - done) |-> done + i]

\* What waits, in terms of ChunkCount: the sequence ChunksInOrder speaks of.
LEMMA ChunksFromCount ==
  ASSUME NEW cur \in Nat, NEW rest \in Seq(Nat), NEW last \in Nat, NEW done \in Nat,
         cur = 0 => rest = <<>> /\ last = done,
         cur # 0 => Follow(cur, rest, done, last)
  PROVE  Waiting(cur, rest) = Between(done, last)
<1> DEFINE waits == Waiting(cur, rest)
           all   == Between(done, last)
<1> USE DEF Follow, Waiting, Between
<1>1. CASE cur = 0
  BY <1>1
<1>2. CASE cur # 0
  <2>1. /\ waits = <<cur>> \o rest
        /\ Len(waits) = 1 + Len(rest)
        /\ waits[1] = cur
        /\ \A i \in 2..Len(waits) : waits[i] = rest[i - 1]
    BY <1>2
  <2>2. waits \in Seq(Nat)
    BY <1>2
  <2>3. /\ Len(waits) = last - done
        /\ \A i \in 1..(last - done) : waits[i] = done + i
    BY <1>2, <2>1
  <2>4. all \in Seq(Nat) /\ Len(all) = last - done
    BY <1>2
  <2>5. \A i \in 1..Len(waits) : waits[i] = all[i]
    BY <2>3
  <2> HIDE DEF waits, all
  <2>6. waits = all
    BY <2>2, <2>3, <2>4, <2>5, SeqEqual
  <2>7. QED
    BY <2>6 DEF waits, all
<1>3. QED
  BY <1>1, <1>2

\* The same, of the state a step leaves.
LEMMA ChunksWait ==
  ASSUME Tcp!TypeOK', Tcp!ChunkCount', ~isDestroyed'
  PROVE  Waiting(current', pending') = Between(completed', written')
<1>1. /\ current' \in Nat /\ pending' \in Seq(Nat)
      /\ written' \in Nat /\ completed' \in Nat
  BY DEF Tcp!TypeOK
<1>2. current' = 0 => pending' = <<>> /\ written' = completed'
  BY DEF Tcp!ChunkCount
<1>3. current' # 0 => Follow(current', pending', completed', written')
  BY DEF Tcp!ChunkCount, Follow
<1>4. QED
  BY <1>1, <1>2, <1>3, ChunksFromCount

\* A step that leaves the chunks alone keeps what is said of them.
LEMMA ChunksFrame ==
  ASSUME Tcp!ConnectionInv, UNCHANGED Tcp!writeVars, UNCHANGED Tcp!chunkVars,
         isDestroyed => isDestroyed'
  PROVE  Tcp!ChunksInOrder' /\ Tcp!ChunkCount'
BY DEF Tcp!ConnectionInv, Tcp!ChunksInOrder, Tcp!ChunkCount, Tcp!writeVars,
       Tcp!chunkVars

\* An attempt of the factory.
LEMMA FactoryConnectInv ==
  ASSUME Tcp!ConnectionInv, NEW s \in Sockets, Tcp!FactoryConnect(s)
  PROVE  Tcp!ConnectionInv'
<1> USE TcpAssumption DEF Tcp!ConnectionInv, Tcp!TypeOK, Tcp!Statuses, Tcp!Phases,
         Tcp!connVars, Tcp!retryVars, Tcp!writeVars, Tcp!ownerVars, Tcp!chunkVars, Tcp!Live,
         Tcp!Usable, Tcp!Attempting,
         Tcp!FactoryConnect, Tcp!Connect, Tcp!Fresh, Tcp!NoCloseDue
<1>1. Tcp!TypeOK'
  OBVIOUS
<1>2. Tcp!SingleConnection'
  BY DEF Tcp!SingleConnection, Tcp!SocketShape, Tcp!FactoryShape, Tcp!DestroyedShape
<1>3. Tcp!OneAttempt'
  BY DEF Tcp!OneAttempt, Tcp!SocketShape, Tcp!FactoryShape, Tcp!SingleConnection,
     Tcp!DestroyedShape
<1>4. Tcp!AlwaysDriven'
  BY DEF Tcp!AlwaysDriven, Tcp!OneAttempt, Tcp!SocketShape, Tcp!FactoryShape,
     Tcp!SingleConnection, Tcp!DestroyedShape
<1>5. Tcp!SocketShape'
  BY DEF Tcp!SocketShape, Tcp!FactoryShape, Tcp!OneAttempt, Tcp!SingleConnection,
     Tcp!DestroyedShape
<1>6. Tcp!DestroyedShape'
  BY DEF Tcp!DestroyedShape, Tcp!FactoryShape, Tcp!SingleConnection
<1>7. Tcp!FactoryShape'
  BY DEF Tcp!FactoryShape, Tcp!SocketShape, Tcp!DestroyedShape, Tcp!OneAttempt,
     Tcp!SingleConnection
<1>8. Tcp!ChunksInOrder' /\ Tcp!ChunkCount'
  BY ChunksFrame
<1>9. QED
  BY <1>1, <1>2, <1>3, <1>4, <1>5, <1>6, <1>7, <1>8

\* The reconnection timer.
LEMMA ReconnectTimerInv ==
  ASSUME Tcp!ConnectionInv, NEW s \in Sockets, Tcp!ReconnectTimer(s)
  PROVE  Tcp!ConnectionInv'
<1> USE TcpAssumption DEF Tcp!ConnectionInv, Tcp!TypeOK, Tcp!Statuses, Tcp!Phases,
         Tcp!connVars, Tcp!retryVars, Tcp!writeVars, Tcp!ownerVars, Tcp!chunkVars, Tcp!Live,
         Tcp!Usable, Tcp!Attempting,
         Tcp!ReconnectTimer, Tcp!Connect, Tcp!Fresh, Tcp!NoCloseDue
<1>1. Tcp!TypeOK'
  OBVIOUS
<1>2. Tcp!SingleConnection'
  BY DEF Tcp!SingleConnection, Tcp!SocketShape, Tcp!FactoryShape, Tcp!DestroyedShape
<1>3. Tcp!OneAttempt'
  BY DEF Tcp!OneAttempt, Tcp!SocketShape, Tcp!FactoryShape, Tcp!SingleConnection,
     Tcp!DestroyedShape
<1>4. Tcp!AlwaysDriven'
  BY DEF Tcp!AlwaysDriven, Tcp!OneAttempt, Tcp!SocketShape, Tcp!FactoryShape,
     Tcp!SingleConnection, Tcp!DestroyedShape
<1>5. Tcp!SocketShape'
  BY DEF Tcp!SocketShape, Tcp!FactoryShape, Tcp!OneAttempt, Tcp!SingleConnection,
     Tcp!DestroyedShape
<1>6. Tcp!DestroyedShape'
  BY DEF Tcp!DestroyedShape, Tcp!FactoryShape, Tcp!SingleConnection
<1>7. Tcp!FactoryShape'
  BY DEF Tcp!FactoryShape, Tcp!SocketShape, Tcp!DestroyedShape, Tcp!OneAttempt,
     Tcp!SingleConnection
<1>8. Tcp!ChunksInOrder' /\ Tcp!ChunkCount'
  BY ChunksFrame
<1>9. QED
  BY <1>1, <1>2, <1>3, <1>4, <1>5, <1>6, <1>7, <1>8

\* The remote side and the network.
LEMMA NetworkInv ==
  ASSUME Tcp!ConnectionInv, NEW s \in Sockets, Tcp!Network(s)
  PROVE  Tcp!ConnectionInv'
<1> USE TcpAssumption DEF Tcp!ConnectionInv, Tcp!TypeOK, Tcp!Statuses, Tcp!Phases,
         Tcp!connVars, Tcp!retryVars, Tcp!writeVars, Tcp!ownerVars, Tcp!chunkVars, Tcp!Live,
         Tcp!Usable, Tcp!Attempting,
         Tcp!Network
<1>1. Tcp!TypeOK'
  OBVIOUS
<1>2. Tcp!SingleConnection'
  BY DEF Tcp!SingleConnection, Tcp!SocketShape, Tcp!FactoryShape, Tcp!DestroyedShape
<1>3. Tcp!OneAttempt'
  BY DEF Tcp!OneAttempt, Tcp!SocketShape, Tcp!FactoryShape, Tcp!SingleConnection,
     Tcp!DestroyedShape
<1>4. Tcp!AlwaysDriven'
  BY DEF Tcp!AlwaysDriven, Tcp!OneAttempt, Tcp!SocketShape, Tcp!FactoryShape,
     Tcp!SingleConnection, Tcp!DestroyedShape
<1>5. Tcp!SocketShape'
  BY DEF Tcp!SocketShape, Tcp!FactoryShape, Tcp!OneAttempt, Tcp!SingleConnection,
     Tcp!DestroyedShape
<1>6. Tcp!DestroyedShape'
  BY DEF Tcp!DestroyedShape, Tcp!FactoryShape, Tcp!SingleConnection
<1>7. Tcp!FactoryShape'
  BY DEF Tcp!FactoryShape, Tcp!SocketShape, Tcp!DestroyedShape, Tcp!OneAttempt,
     Tcp!SingleConnection
<1>8. Tcp!ChunksInOrder' /\ Tcp!ChunkCount'
  BY ChunksFrame
<1>9. QED
  BY <1>1, <1>2, <1>3, <1>4, <1>5, <1>6, <1>7, <1>8

\* The watchdog.
LEMMA RequestReconnectInv ==
  ASSUME Tcp!ConnectionInv, Tcp!RequestReconnect
  PROVE  Tcp!ConnectionInv'
<1> USE TcpAssumption DEF Tcp!ConnectionInv, Tcp!TypeOK, Tcp!Statuses, Tcp!Phases,
         Tcp!connVars, Tcp!retryVars, Tcp!writeVars, Tcp!ownerVars, Tcp!chunkVars, Tcp!Live,
         Tcp!Usable, Tcp!Attempting,
         Tcp!RequestReconnect, Tcp!ScheduleReconnect
<1>1. Tcp!TypeOK'
  OBVIOUS
<1>2. Tcp!SingleConnection'
  BY DEF Tcp!SingleConnection, Tcp!SocketShape, Tcp!FactoryShape, Tcp!DestroyedShape
<1>3. Tcp!OneAttempt'
  BY DEF Tcp!OneAttempt, Tcp!SocketShape, Tcp!FactoryShape, Tcp!SingleConnection,
     Tcp!DestroyedShape
<1>4. Tcp!AlwaysDriven'
  BY DEF Tcp!AlwaysDriven, Tcp!OneAttempt, Tcp!SocketShape, Tcp!FactoryShape,
     Tcp!SingleConnection, Tcp!DestroyedShape
<1>5. Tcp!SocketShape'
  BY DEF Tcp!SocketShape, Tcp!FactoryShape, Tcp!OneAttempt, Tcp!SingleConnection,
     Tcp!DestroyedShape
<1>6. Tcp!DestroyedShape'
  BY DEF Tcp!DestroyedShape, Tcp!FactoryShape, Tcp!SingleConnection
<1>7. Tcp!FactoryShape'
  BY DEF Tcp!FactoryShape, Tcp!SocketShape, Tcp!DestroyedShape, Tcp!OneAttempt,
     Tcp!SingleConnection
<1>8. Tcp!ChunksInOrder' /\ Tcp!ChunkCount'
  BY ChunksFrame
<1>9. QED
  BY <1>1, <1>2, <1>3, <1>4, <1>5, <1>6, <1>7, <1>8

\* A rejected attempt keeps the types of what it changes.
LEMMA AttemptFailedTypes ==
  ASSUME Tcp!TypeOK, NEW sk \in Sockets \cup {NoSocket}, Tcp!AttemptFailed(sk)
  PROVE  /\ factory' \in Tcp!Phases /\ retriesLeft' \in Nat
         /\ isDestroyed' \in BOOLEAN /\ socket' \in Sockets \cup {NoSocket}
         /\ reconnecting' \in BOOLEAN /\ reconnectTimer' \in BOOLEAN
         /\ currentDelay' \in InitialDelay..MaxDelay
<1> USE DEF Tcp!TypeOK, Tcp!AttemptFailed
<1>1. factory' \in Tcp!Phases /\ socket' \in Sockets \cup {NoSocket}
  BY DEF Tcp!Phases
<1>2. retriesLeft' \in Nat
  OBVIOUS
<1>3. isDestroyed' \in BOOLEAN
  OBVIOUS
<1>4. reconnecting' \in BOOLEAN /\ reconnectTimer' \in BOOLEAN
  BY DEF Tcp!ScheduleReconnect, Tcp!retryVars
<1>5. currentDelay' \in InitialDelay..MaxDelay
  <2>1. \/ currentDelay' = currentDelay
        \/ currentDelay' = IF 2 * currentDelay < MaxDelay
                           THEN 2 * currentDelay ELSE MaxDelay
    BY DEF Tcp!retryVars
  <2>2. /\ currentDelay \in Int /\ InitialDelay \in Nat /\ MaxDelay \in Nat
        /\ InitialDelay <= currentDelay /\ currentDelay <= MaxDelay
    BY TcpAssumption
  <2>3. QED
    BY ONLY <2>1, <2>2
<1>6. QED
  BY <1>1, <1>2, <1>3, <1>4, <1>5

\* A refused connection.
LEMMA OnErrorInv ==
  ASSUME Tcp!ConnectionInv, NEW s \in Sockets, Tcp!OnError(s)
  PROVE  Tcp!ConnectionInv'
<1> USE TcpAssumption DEF Tcp!ConnectionInv, Tcp!TypeOK, Tcp!Statuses, Tcp!Phases,
         Tcp!connVars, Tcp!retryVars, Tcp!writeVars, Tcp!ownerVars, Tcp!chunkVars, Tcp!Live,
         Tcp!Usable, Tcp!Attempting,
         Tcp!OnError, Tcp!AttemptFailed, Tcp!ScheduleReconnect
<1>1. Tcp!TypeOK'
  BY AttemptFailedTypes
<1>2. Tcp!SingleConnection'
  BY DEF Tcp!SingleConnection, Tcp!SocketShape, Tcp!FactoryShape, Tcp!DestroyedShape
<1>3. Tcp!OneAttempt'
  BY DEF Tcp!OneAttempt, Tcp!SocketShape, Tcp!FactoryShape, Tcp!SingleConnection,
     Tcp!DestroyedShape
<1>4. Tcp!AlwaysDriven'
  BY DEF Tcp!AlwaysDriven, Tcp!OneAttempt, Tcp!SocketShape, Tcp!FactoryShape,
     Tcp!SingleConnection, Tcp!DestroyedShape
<1>5. Tcp!SocketShape'
  BY DEF Tcp!SocketShape, Tcp!FactoryShape, Tcp!OneAttempt, Tcp!SingleConnection,
     Tcp!DestroyedShape
<1>6. Tcp!DestroyedShape'
  <2>1. current = 0 /\ ~isDestroyed => holder = NoSocket /\ pending = <<>>
    BY DEF Tcp!ChunksInOrder, Tcp!ChunkCount
  <2>2. QED
    BY <2>1 DEF Tcp!DestroyedShape, Tcp!FactoryShape, Tcp!SingleConnection
<1>7. Tcp!FactoryShape'
  BY DEF Tcp!FactoryShape, Tcp!SocketShape, Tcp!DestroyedShape, Tcp!OneAttempt,
     Tcp!SingleConnection
<1>8. Tcp!ChunksInOrder' /\ Tcp!ChunkCount'
  BY ChunksFrame
<1>9. QED
  BY <1>1, <1>2, <1>3, <1>4, <1>5, <1>6, <1>7, <1>8

\* An attempt that takes too long.
LEMMA ConnectionTimeoutInv ==
  ASSUME Tcp!ConnectionInv, NEW s \in Sockets, Tcp!ConnectionTimeout(s)
  PROVE  Tcp!ConnectionInv'
<1> USE TcpAssumption DEF Tcp!ConnectionInv, Tcp!TypeOK, Tcp!Statuses, Tcp!Phases,
         Tcp!connVars, Tcp!retryVars, Tcp!writeVars, Tcp!ownerVars, Tcp!chunkVars, Tcp!Live,
         Tcp!Usable, Tcp!Attempting,
         Tcp!ConnectionTimeout, Tcp!AttemptFailed, Tcp!ScheduleReconnect, Tcp!NoCloseDue
<1>1. Tcp!TypeOK'
  BY AttemptFailedTypes
<1>2. Tcp!SingleConnection'
  BY DEF Tcp!SingleConnection, Tcp!SocketShape, Tcp!FactoryShape, Tcp!DestroyedShape
<1>3. Tcp!OneAttempt'
  BY DEF Tcp!OneAttempt, Tcp!SocketShape, Tcp!FactoryShape, Tcp!SingleConnection,
     Tcp!DestroyedShape
<1>4. Tcp!AlwaysDriven'
  BY DEF Tcp!AlwaysDriven, Tcp!OneAttempt, Tcp!SocketShape, Tcp!FactoryShape,
     Tcp!SingleConnection, Tcp!DestroyedShape
<1>5. Tcp!SocketShape'
  BY DEF Tcp!SocketShape, Tcp!FactoryShape, Tcp!OneAttempt, Tcp!SingleConnection,
     Tcp!DestroyedShape
<1>6. Tcp!DestroyedShape'
  <2>1. current = 0 /\ ~isDestroyed => holder = NoSocket /\ pending = <<>>
    BY DEF Tcp!ChunksInOrder, Tcp!ChunkCount
  <2>2. QED
    BY <2>1 DEF Tcp!DestroyedShape, Tcp!FactoryShape, Tcp!SingleConnection
<1>7. Tcp!FactoryShape'
  BY DEF Tcp!FactoryShape, Tcp!SocketShape, Tcp!DestroyedShape, Tcp!OneAttempt,
     Tcp!SingleConnection
<1>8. Tcp!ChunksInOrder' /\ Tcp!ChunkCount'
  BY ChunksFrame
<1>9. QED
  BY <1>1, <1>2, <1>3, <1>4, <1>5, <1>6, <1>7, <1>8

\* destroy(), whatever the sockets that are not this.socket do meanwhile: the
\* chunks are dropped, what was delivered stays in order.
LEMMA DestroyInv ==
  ASSUME Tcp!ConnectionInv, NEW st \in [Sockets -> Tcp!Statuses], Tcp!Destroy(st),
         \A s \in Sockets : \/ st[s] = status[s]
                            \/ status[s] = "closing" /\ st[s] = "closed",
         factory = "ready", UNCHANGED <<factory, retriesLeft>>, stopped' \in BOOLEAN,
         written' \in Nat, completed' \in Nat,
         Delivered(delivered', completed')
  PROVE  Tcp!ConnectionInv'
<1> USE TcpAssumption DEF Tcp!ConnectionInv, Tcp!TypeOK, Tcp!Statuses, Tcp!Phases,
         Tcp!Live, Tcp!Usable, Tcp!Destroy
<1>1. Tcp!TypeOK'
  <2>1. status' \in [Sockets -> Tcp!Statuses]
    OBVIOUS
  <2>2. writeBuffer' \in Seq(Nat) /\ pending' \in Seq(Nat)
    OBVIOUS
  <2>3. QED
    BY <2>1, <2>2 DEF Delivered
<1>2. Tcp!SingleConnection'
  BY DEF Tcp!SingleConnection
<1>3. Tcp!OneAttempt' /\ Tcp!AlwaysDriven' /\ Tcp!ChunkCount'
  BY DEF Tcp!OneAttempt, Tcp!AlwaysDriven, Tcp!ChunkCount
<1>4. Tcp!ChunksInOrder'
  BY DEF Tcp!ChunksInOrder, Delivered
<1>5. Tcp!SocketShape'
  BY DEF Tcp!SocketShape, Tcp!SingleConnection
<1>6. Tcp!DestroyedShape'
  BY DEF Tcp!DestroyedShape
<1>7. Tcp!FactoryShape'
  BY DEF Tcp!FactoryShape
<1>8. QED
  BY <1>1, <1>2, <1>3, <1>4, <1>5, <1>6, <1>7

\* The owner's destroy().
LEMMA StopInv ==
  ASSUME Tcp!ConnectionInv, Tcp!Stop
  PROVE  Tcp!ConnectionInv'
<1>1. /\ Tcp!TypeOK /\ Tcp!ChunksInOrder
      /\ factory = "ready" /\ stopped' \in BOOLEAN
      /\ UNCHANGED <<factory, retriesLeft, written, completed, delivered>>
  BY DEF Tcp!ConnectionInv, Tcp!Stop, Tcp!chunkVars
<1>2. CASE isDestroyed
  <2>1. UNCHANGED <<socket, status, listening, connectTimer, reconnecting,
                    reconnectTimer, currentDelay, isDestroyed, writeBuffer,
                    current, holder, pending>>
    BY <1>2 DEF Tcp!Stop, Tcp!connVars, Tcp!retryVars, Tcp!writeVars
  <2>2. Tcp!TypeOK'
    BY <1>1, <2>1 DEF Tcp!TypeOK
  <2>3. QED
    BY <1>1, <2>1, <2>2
    DEF Tcp!ConnectionInv, Tcp!SingleConnection, Tcp!OneAttempt, Tcp!AlwaysDriven,
        Tcp!ChunksInOrder, Tcp!SocketShape, Tcp!DestroyedShape, Tcp!FactoryShape,
        Tcp!ChunkCount, Tcp!Live, Tcp!Usable, Tcp!Attempting
<1>3. CASE ~isDestroyed
  <2>1. Tcp!Destroy(status)
    BY <1>3 DEF Tcp!Stop
  <2>2. QED
    BY <1>1, <2>1, DestroyInv DEF Tcp!TypeOK, Tcp!ChunksInOrder, Delivered
<1>4. QED
  BY <1>2, <1>3

\* A write that fails.
LEMMA WriteFailsInv ==
  ASSUME Tcp!ConnectionInv, NEW s \in Sockets, Tcp!WriteFails(s)
  PROVE  Tcp!ConnectionInv'
<1>1. /\ Tcp!TypeOK /\ Tcp!ChunksInOrder /\ Tcp!Destroy(status)
      /\ UNCHANGED <<factory, retriesLeft, stopped, written, completed, delivered>>
  BY DEF Tcp!ConnectionInv, Tcp!WriteFails, Tcp!chunkVars, Tcp!ownerVars
<1>2. factory = "ready"
  BY TcpAssumption DEF Tcp!ConnectionInv, Tcp!WriteFails, Tcp!TypeOK, Tcp!Phases,
     Tcp!FactoryShape, Tcp!DestroyedShape, Tcp!ChunksInOrder
<1>3. QED
  BY <1>1, <1>2, DestroyInv DEF Tcp!TypeOK, Tcp!ChunksInOrder, Delivered

\* A connection is made.
LEMMA OnConnectInv ==
  ASSUME Tcp!ConnectionInv, NEW s \in Sockets, Tcp!OnConnect(s)
  PROVE  Tcp!ConnectionInv'
<1> USE TcpAssumption DEF Tcp!ConnectionInv, Tcp!TypeOK, Tcp!Statuses, Tcp!Phases,
         Tcp!chunkVars, Tcp!Live, Tcp!Usable, Tcp!Attempting, Tcp!OnConnect
<1>1. socket = s /\ ~isDestroyed
  BY DEF Tcp!SingleConnection
<1>2. Tcp!TypeOK'
  <2>1. writeBuffer' \in Seq(Nat) /\ status' \in [Sockets -> Tcp!Statuses]
    OBVIOUS
  <2>2. /\ holder' \in Sockets \cup {NoSocket} /\ factory' \in Tcp!Phases
        /\ currentDelay' \in InitialDelay..MaxDelay
    <3>1. InitialDelay \in InitialDelay..MaxDelay
      OBVIOUS
    <3>2. QED
      BY <3>1
  <2>3. /\ reconnecting' \in BOOLEAN /\ listening' \in SUBSET Sockets
        /\ connectTimer' \in SUBSET Sockets
    OBVIOUS
  <2> HIDE DEF Tcp!ConnectionInv
  <2>4. QED
    BY <2>1, <2>2, <2>3 DEF Tcp!ConnectionInv
<1>3. Tcp!SingleConnection'
  BY <1>1 DEF Tcp!SingleConnection, Tcp!SocketShape
<1>4. Tcp!OneAttempt' /\ Tcp!AlwaysDriven'
  BY <1>1 DEF Tcp!OneAttempt, Tcp!AlwaysDriven, Tcp!SocketShape
<1>5. Tcp!ChunksInOrder'
  <2>1. UNCHANGED <<current, pending, written, completed, delivered, isDestroyed>>
    OBVIOUS
  <2>2. writeBuffer' = IF current' # 0 /\ holder' = NoSocket THEN <<current'>> ELSE <<>>
    BY <1>1, <2>1 DEF Tcp!ChunksInOrder
  <2>3. holder' # NoSocket => current' # 0
    BY <1>1, <2>1 DEF Tcp!ChunksInOrder
  <2>4. Tcp!ChunksInOrder
    OBVIOUS
  <2>5. QED
    BY ONLY <2>1, <2>2, <2>3, <2>4 DEF Tcp!ChunksInOrder
<1>6. Tcp!SocketShape'
  BY <1>1 DEF Tcp!SocketShape, Tcp!OneAttempt
<1>7. Tcp!DestroyedShape' /\ Tcp!ChunkCount'
  BY <1>1 DEF Tcp!DestroyedShape, Tcp!ChunkCount
<1>8. Tcp!FactoryShape'
  BY <1>1 DEF Tcp!FactoryShape, Tcp!SocketShape
<1>9. QED
  BY <1>2, <1>3, <1>4, <1>5, <1>6, <1>7, <1>8

\* The 'close' event of a socket.
LEMMA SocketClosedInv ==
  ASSUME Tcp!ConnectionInv, NEW s \in Sockets, Tcp!SocketClosed(s)
  PROVE  Tcp!ConnectionInv'
<1>1. /\ Tcp!TypeOK /\ status[s] = "closing"
      /\ UNCHANGED <<factory, retriesLeft, stopped, written, completed, delivered>>
  BY DEF Tcp!ConnectionInv, Tcp!SocketClosed, Tcp!chunkVars, Tcp!ownerVars
<1>2. CASE holder = s /\ Tcp!Destroy([status EXCEPT ![s] = "closed"])
  <2>1. factory = "ready"
    BY <1>2, TcpAssumption DEF Tcp!ConnectionInv, Tcp!TypeOK, Tcp!Phases,
       Tcp!FactoryShape, Tcp!DestroyedShape, Tcp!ChunksInOrder
  <2>2. [status EXCEPT ![s] = "closed"] \in [Sockets -> Tcp!Statuses]
    BY <1>1 DEF Tcp!TypeOK, Tcp!Statuses
  <2>3. \A k \in Sockets :
          \/ [status EXCEPT ![s] = "closed"][k] = status[k]
          \/ status[k] = "closing" /\ [status EXCEPT ![s] = "closed"][k] = "closed"
    BY <1>1 DEF Tcp!TypeOK
  <2>4. QED
    BY <1>1, <1>2, <2>1, <2>2, <2>3, DestroyInv
    DEF Tcp!ConnectionInv, Tcp!TypeOK, Tcp!ChunksInOrder, Delivered
<1>3. CASE /\ s \in listening
           /\ status' = [status EXCEPT ![s] = "closed"]
           /\ socket' = NoSocket
           /\ Tcp!ScheduleReconnect(reconnecting)
           /\ UNCHANGED <<listening, connectTimer, currentDelay, isDestroyed>>
           /\ UNCHANGED Tcp!writeVars
  <2> USE <1>1, <1>3, TcpAssumption DEF Tcp!ConnectionInv, Tcp!TypeOK,
          Tcp!Statuses, Tcp!Phases, Tcp!Live, Tcp!Usable, Tcp!Attempting,
          Tcp!ScheduleReconnect
  <2>1. Tcp!TypeOK'
    BY DEF Tcp!writeVars
  <2>2. Tcp!SingleConnection'
    BY DEF Tcp!SingleConnection, Tcp!SocketShape
  <2>3. Tcp!OneAttempt' /\ Tcp!AlwaysDriven'
    BY DEF Tcp!OneAttempt, Tcp!AlwaysDriven, Tcp!SocketShape, Tcp!FactoryShape
  <2>4. Tcp!SocketShape' /\ Tcp!DestroyedShape'
    BY DEF Tcp!SocketShape, Tcp!DestroyedShape, Tcp!writeVars
  <2>5. Tcp!FactoryShape'
    BY DEF Tcp!FactoryShape, Tcp!SocketShape, Tcp!writeVars
  <2>6. Tcp!ChunksInOrder' /\ Tcp!ChunkCount'
    BY ChunksFrame DEF Tcp!chunkVars
  <2>7. QED
    BY <2>1, <2>2, <2>3, <2>4, <2>5, <2>6
<1>4. CASE /\ s \notin listening
           /\ status' = [status EXCEPT ![s] = "closed"]
           /\ UNCHANGED <<socket, listening, connectTimer, isDestroyed>>
           /\ UNCHANGED Tcp!retryVars
           /\ UNCHANGED Tcp!writeVars
  <2> USE <1>1, <1>4, TcpAssumption DEF Tcp!ConnectionInv, Tcp!TypeOK,
          Tcp!Statuses, Tcp!Phases, Tcp!Live, Tcp!Usable, Tcp!Attempting,
          Tcp!retryVars
  <2>1. Tcp!TypeOK'
    BY DEF Tcp!writeVars
  <2>2. Tcp!SingleConnection'
    BY DEF Tcp!SingleConnection
  <2>3. Tcp!OneAttempt' /\ Tcp!AlwaysDriven'
    BY DEF Tcp!OneAttempt, Tcp!AlwaysDriven
  <2>4. Tcp!SocketShape' /\ Tcp!DestroyedShape'
    BY DEF Tcp!SocketShape, Tcp!DestroyedShape, Tcp!writeVars
  <2>5. Tcp!FactoryShape'
    BY DEF Tcp!FactoryShape, Tcp!writeVars
  <2>6. Tcp!ChunksInOrder' /\ Tcp!ChunkCount'
    BY ChunksFrame DEF Tcp!chunkVars
  <2>7. QED
    BY <2>1, <2>2, <2>3, <2>4, <2>5, <2>6
<1>5. QED
  BY <1>2, <1>3, <1>4 DEF Tcp!SocketClosed

\* What is said of the connection, apart from the chunks.
LEMMA ConnectionFrame ==
  ASSUME Tcp!ConnectionInv, ~isDestroyed, factory = "ready",
         UNCHANGED Tcp!connVars, UNCHANGED Tcp!retryVars,
         UNCHANGED <<isDestroyed, factory>>
  PROVE  /\ Tcp!SingleConnection' /\ Tcp!OneAttempt' /\ Tcp!AlwaysDriven'
         /\ Tcp!SocketShape' /\ Tcp!DestroyedShape' /\ Tcp!FactoryShape'
BY DEF Tcp!ConnectionInv, Tcp!SingleConnection, Tcp!OneAttempt, Tcp!AlwaysDriven,
       Tcp!SocketShape, Tcp!DestroyedShape, Tcp!FactoryShape, Tcp!Live, Tcp!Usable,
       Tcp!Attempting, Tcp!connVars, Tcp!retryVars

\* Chunk c, the first after the completed ones, is passed to _write, and rest
\* follows it: the stream holds it, or is destroyed.
LEMMA PassChunkInv ==
  ASSUME Tcp!ConnectionInv, ~isDestroyed, factory = "ready", writeBuffer = <<>>,
         NEW c \in Nat, c # 0, NEW rest \in Seq(Nat), Tcp!PassChunk(c, rest),
         UNCHANGED Tcp!ownerVars, written' \in Nat, completed' \in Nat,
         Follow(c, rest, completed', written'),
         Delivered(delivered', completed')
  PROVE  Tcp!ConnectionInv'
<1>1. /\ Tcp!TypeOK
      /\ UNCHANGED <<factory, retriesLeft, stopped>>
  BY DEF Tcp!ConnectionInv, Tcp!ownerVars
<1>2. CASE Tcp!Destroy(status)
  BY <1>1, <1>2, DestroyInv DEF Tcp!TypeOK
<1>3. CASE /\ current' = c /\ pending' = rest
           /\ IF Tcp!Usable
              THEN holder' = socket /\ UNCHANGED writeBuffer
              ELSE holder' = NoSocket /\ writeBuffer' = Append(writeBuffer, c)
           /\ UNCHANGED Tcp!connVars
           /\ UNCHANGED Tcp!retryVars
           /\ UNCHANGED isDestroyed
  <2>1. /\ holder' \in Sockets \cup {NoSocket}
        /\ writeBuffer' = IF holder' = NoSocket THEN <<c>> ELSE <<>>
    <3>1. CASE Tcp!Usable
      BY <1>1, <1>3, <3>1 DEF Tcp!Usable, Tcp!TypeOK
    <3>2. CASE ~Tcp!Usable
      BY <1>3, <3>2
    <3>3. QED
      BY <3>1, <3>2
  <2>2. Tcp!TypeOK'
    <3>1. writeBuffer' \in Seq(Nat)
      <4>1. <<c>> \in Seq(Nat)
        BY <1>1
      <4>2. writeBuffer' = <<c>> \/ writeBuffer' = <<>>
        BY <2>1
      <4>3. CASE writeBuffer' = <<c>>
        BY <4>1, <4>3
      <4>4. CASE writeBuffer' = <<>>
        BY <4>4
      <4>5. QED
        BY <4>2, <4>3, <4>4
    <3>2. /\ holder' \in Sockets \cup {NoSocket}
          /\ current' \in Nat /\ pending' \in Seq(Nat)
          /\ written' \in Nat /\ completed' \in Nat /\ delivered' \in Seq(Nat)
      BY <1>3, <2>1 DEF Delivered
    <3>3. QED
      BY <1>1, <1>3, <3>1, <3>2
      DEF Tcp!TypeOK, Tcp!connVars, Tcp!retryVars, Tcp!ownerVars
  <2>3. /\ Tcp!SingleConnection' /\ Tcp!OneAttempt' /\ Tcp!AlwaysDriven'
        /\ Tcp!SocketShape' /\ Tcp!DestroyedShape' /\ Tcp!FactoryShape'
    BY <1>1, <1>3, ConnectionFrame
  <2>4. Tcp!ChunkCount'
    BY <1>1, <1>3 DEF Tcp!ChunkCount, Follow
  <2>5. Tcp!ChunksInOrder'
    <3>1. (~isDestroyed => Waiting(current, pending) = Between(completed, written))'
      BY <2>2, <2>4, ChunksWait
    <3>2. /\ writeBuffer' = IF current' # 0 /\ holder' = NoSocket
                            THEN <<current'>> ELSE <<>>
          /\ holder' # NoSocket => current' # 0
      BY <1>1, <1>3, <2>1
    <3>3. QED
      BY <3>1, <3>2 DEF Tcp!ChunksInOrder, Delivered, Waiting, Between
  <2>6. QED
    BY <2>2, <2>3, <2>4, <2>5 DEF Tcp!ConnectionInv
<1>4. QED
  BY <1>2, <1>3 DEF Tcp!PassChunk

\* write(): the chunk is dropped, kept back by Duplex, or passed to _write.
LEMMA WriteInv ==
  ASSUME Tcp!ConnectionInv, Tcp!Write
  PROVE  Tcp!ConnectionInv'
<1>1. /\ Tcp!TypeOK /\ Tcp!ChunksInOrder /\ Tcp!ChunkCount
      /\ factory = "ready" /\ written' = written + 1
      /\ UNCHANGED Tcp!ownerVars /\ UNCHANGED <<completed, delivered>>
  BY DEF Tcp!ConnectionInv, Tcp!Write
<1>2. CASE /\ isDestroyed /\ UNCHANGED Tcp!connVars /\ UNCHANGED Tcp!retryVars
           /\ UNCHANGED isDestroyed /\ UNCHANGED Tcp!writeVars
  <2>1. Tcp!TypeOK'
    BY <1>1, <1>2 DEF Tcp!TypeOK, Tcp!connVars, Tcp!retryVars, Tcp!ownerVars,
       Tcp!writeVars
  <2>2. QED
    BY <1>1, <1>2, <2>1
    DEF Tcp!ConnectionInv, Tcp!SingleConnection, Tcp!OneAttempt, Tcp!AlwaysDriven,
        Tcp!ChunksInOrder, Tcp!SocketShape, Tcp!DestroyedShape, Tcp!FactoryShape,
        Tcp!ChunkCount, Tcp!Live, Tcp!Usable, Tcp!Attempting, Tcp!connVars,
        Tcp!retryVars, Tcp!ownerVars, Tcp!writeVars
<1>3. CASE /\ ~isDestroyed /\ current # 0
           /\ pending' = Append(pending, written + 1)
           /\ UNCHANGED Tcp!connVars /\ UNCHANGED Tcp!retryVars
           /\ UNCHANGED <<isDestroyed, writeBuffer, current, holder>>
  <2>1. Tcp!TypeOK'
    BY <1>1, <1>3 DEF Tcp!TypeOK, Tcp!connVars, Tcp!retryVars, Tcp!ownerVars
  <2>2. /\ Tcp!SingleConnection' /\ Tcp!OneAttempt' /\ Tcp!AlwaysDriven'
        /\ Tcp!SocketShape' /\ Tcp!DestroyedShape' /\ Tcp!FactoryShape'
    BY <1>1, <1>3, ConnectionFrame DEF Tcp!ownerVars
  <2>3. Tcp!ChunkCount'
    <3>1. /\ current = completed + 1 /\ Len(pending) = written - completed - 1
          /\ \A i \in 1..Len(pending) : pending[i] = completed + 1 + i
          /\ pending \in Seq(Nat) /\ written \in Nat /\ completed \in Nat
      BY <1>1, <1>3 DEF Tcp!TypeOK, Tcp!ChunkCount
    <3>2. /\ Len(pending') = Len(pending) + 1
          /\ \A i \in 1..Len(pending) : pending'[i] = pending[i]
          /\ pending'[Len(pending) + 1] = written + 1
      BY <1>3, <3>1
    <3>3. ASSUME NEW i \in 1..Len(pending')
          PROVE  pending'[i] = completed + 1 + i
      <4>1. i \in 1..Len(pending) \/ i = Len(pending) + 1
        BY <3>1, <3>2
      <4>2. QED
        BY <3>1, <3>2, <4>1
    <3>4. current' = current /\ completed' = completed /\ written' = written + 1
      BY <1>1, <1>3
    <3>5. current' = completed' + 1 /\ Len(pending') = written' - completed' - 1
      <4>1. Len(pending') = (written - completed - 1) + 1
        BY ONLY <3>1, <3>2
      <4>2. (written - completed - 1) + 1 = (written + 1) - completed - 1
        BY ONLY <3>1
      <4>3. QED
        BY ONLY <3>1, <3>4, <4>1, <4>2
    <3>6. \A i \in 1..Len(pending') : pending'[i] = completed' + 1 + i
      BY <3>3, <3>4
    <3>7. QED
      BY <1>3, <3>4, <3>5, <3>6 DEF Tcp!ChunkCount
  <2>4. Tcp!ChunksInOrder'
    <3>1. (~isDestroyed => Waiting(current, pending) = Between(completed, written))'
      BY <2>1, <2>3, ChunksWait
    <3>2. QED
      BY <1>1, <1>3, <3>1 DEF Tcp!ChunksInOrder, Waiting, Between
  <2>5. QED
    BY <2>1, <2>2, <2>3, <2>4 DEF Tcp!ConnectionInv
<1>4. CASE ~isDestroyed /\ current = 0 /\ Tcp!PassChunk(written + 1, <<>>)
  <2>1. writeBuffer = <<>> /\ completed = written
    BY <1>1, <1>4 DEF Tcp!ChunksInOrder, Tcp!ChunkCount
  <2>2. /\ written' \in Nat /\ completed' \in Nat
        /\ written + 1 \in Nat /\ written + 1 # 0
    BY <1>1 DEF Tcp!TypeOK
  <2>3. Delivered(delivered', completed')
    BY <1>1 DEF Tcp!TypeOK, Tcp!ChunksInOrder, Delivered
  <2>4. <<>> \in Seq(Nat) /\ Follow(written + 1, <<>>, completed', written')
    BY <1>1, <2>1, <2>2 DEF Follow
  <2>5. QED
    BY <1>1, <1>4, <2>1, <2>2, <2>3, <2>4, PassChunkInv
<1>5. QED
  BY <1>2, <1>3, <1>4 DEF Tcp!Write

\* The callback of a write: its chunk is the next completed one, and Duplex
\* passes the next of the chunks it kept back.
LEMMA WriteSucceedsInv ==
  ASSUME Tcp!ConnectionInv, NEW s \in Sockets, Tcp!WriteSucceeds(s)
  PROVE  Tcp!ConnectionInv'
<1>1. /\ Tcp!TypeOK /\ Tcp!ChunksInOrder /\ Tcp!ChunkCount
      /\ completed' = completed + 1
      /\ delivered' = IF status[s] \in {"open", "ending"}
                      THEN Append(delivered, current) ELSE delivered
      /\ UNCHANGED Tcp!ownerVars /\ UNCHANGED written
  BY DEF Tcp!ConnectionInv, Tcp!WriteSucceeds
<1>2. /\ ~isDestroyed /\ factory = "ready" /\ writeBuffer = <<>>
      /\ current # 0 /\ current = completed + 1
  BY TcpAssumption DEF Tcp!ConnectionInv, Tcp!WriteSucceeds, Tcp!TypeOK, Tcp!Phases,
     Tcp!FactoryShape, Tcp!DestroyedShape, Tcp!ChunksInOrder, Tcp!ChunkCount
<1>3. /\ Len(pending) = written - completed - 1
      /\ \A i \in 1..Len(pending) : pending[i] = completed + 1 + i
      /\ pending \in Seq(Nat)
  BY <1>1, <1>2 DEF Tcp!ChunkCount, Tcp!TypeOK
<1>4. written' \in Nat /\ completed' \in Nat /\ Delivered(delivered', completed')
  <2>1. /\ written \in Nat /\ completed \in Nat /\ delivered \in Seq(Nat)
        /\ current \in Nat
        /\ \A i, j \in 1..Len(delivered) : i < j => delivered[i] < delivered[j]
        /\ \A i \in 1..Len(delivered) : delivered[i] <= completed
    BY <1>1 DEF Tcp!TypeOK, Tcp!ChunksInOrder
  <2>2. CASE delivered' = delivered
    BY <1>1, <2>1, <2>2 DEF Delivered
  <2>3. CASE delivered' = Append(delivered, current)
    BY <1>1, <1>2, <2>1, <2>3 DEF Delivered
  <2>4. QED
    BY <1>1, <2>2, <2>3
<1>5. CASE pending # <<>> /\ Tcp!PassChunk(Head(pending), Tail(pending))
  <2>1. written \in Nat /\ completed \in Nat
    BY <1>1 DEF Tcp!TypeOK
  <2>2. /\ Head(pending) = completed' + 1 /\ Head(pending) \in Nat
        /\ Head(pending) # 0 /\ Tail(pending) \in Seq(Nat)
    BY <1>1, <1>3, <1>5, <2>1
  <2>3. Follow(Head(pending), Tail(pending), completed', written')
    BY <1>1, <1>3, <1>5, <2>1, <2>2 DEF Follow
  <2>4. QED
    BY <1>1, <1>2, <1>4, <1>5, <2>2, <2>3, PassChunkInv
<1>6. CASE /\ pending = <<>> /\ current' = 0 /\ holder' = NoSocket
           /\ UNCHANGED Tcp!connVars /\ UNCHANGED Tcp!retryVars
           /\ UNCHANGED <<isDestroyed, writeBuffer, pending>>
  <2>1. Tcp!TypeOK'
    BY <1>1, <1>4, <1>6
    DEF Tcp!TypeOK, Tcp!connVars, Tcp!retryVars, Tcp!ownerVars
  <2>2. /\ Tcp!SingleConnection' /\ Tcp!OneAttempt' /\ Tcp!AlwaysDriven'
        /\ Tcp!SocketShape' /\ Tcp!DestroyedShape' /\ Tcp!FactoryShape'
    BY <1>1, <1>2, <1>6, ConnectionFrame DEF Tcp!ownerVars
  <2>3. Tcp!ChunkCount'
    BY <1>1, <1>3, <1>6 DEF Tcp!ChunkCount, Tcp!TypeOK
  <2>4. Tcp!ChunksInOrder'
    <3>1. (~isDestroyed => Waiting(current, pending) = Between(completed, written))'
      BY <2>1, <2>3, ChunksWait
    <3>2. QED
      BY <1>2, <1>4, <1>6, <3>1 DEF Tcp!ChunksInOrder, Delivered, Waiting, Between
  <2>5. QED
    BY <2>1, <2>2, <2>3, <2>4 DEF Tcp!ConnectionInv
<1>7. QED
  BY <1>5, <1>6 DEF Tcp!WriteSucceeds

\* Every step keeps the invariant.
LEMMA TcpStepInv == Tcp!ConnectionInv /\ [Tcp!Next]_(Tcp!vars) => Tcp!ConnectionInv'
<1> SUFFICES ASSUME Tcp!ConnectionInv, [Tcp!Next]_(Tcp!vars)
             PROVE  Tcp!ConnectionInv'
  OBVIOUS
<1>1. ASSUME NEW s \in Sockets,
             \/ Tcp!FactoryConnect(s) \/ Tcp!OnConnect(s) \/ Tcp!OnError(s)
             \/ Tcp!ConnectionTimeout(s) \/ Tcp!ReconnectTimer(s)
             \/ Tcp!SocketClosed(s) \/ Tcp!WriteSucceeds(s)
             \/ Tcp!WriteFails(s) \/ Tcp!Network(s)
      PROVE  Tcp!ConnectionInv'
  BY <1>1, FactoryConnectInv, OnConnectInv, OnErrorInv, ConnectionTimeoutInv,
     ReconnectTimerInv, SocketClosedInv, WriteSucceedsInv, WriteFailsInv, NetworkInv
<1>2. CASE Tcp!Write \/ Tcp!RequestReconnect \/ Tcp!Stop
  BY <1>2, WriteInv, RequestReconnectInv, StopInv
<1>3. CASE UNCHANGED Tcp!vars
  <2>1. Tcp!TypeOK'
    BY <1>3 DEF Tcp!ConnectionInv, Tcp!TypeOK, Tcp!vars, Tcp!connVars, Tcp!retryVars,
       Tcp!ownerVars, Tcp!writeVars, Tcp!chunkVars
  <2>2. Tcp!ChunksInOrder' /\ Tcp!ChunkCount'
    BY <1>3, ChunksFrame DEF Tcp!vars
  <2>3. QED
    BY <1>3, <2>1, <2>2
    DEF Tcp!ConnectionInv, Tcp!SingleConnection, Tcp!OneAttempt, Tcp!AlwaysDriven,
        Tcp!SocketShape, Tcp!DestroyedShape, Tcp!FactoryShape, Tcp!Live, Tcp!Usable,
        Tcp!Attempting, Tcp!vars, Tcp!connVars, Tcp!retryVars, Tcp!ownerVars,
        Tcp!writeVars
<1>4. QED
  BY <1>1, <1>2, <1>3 DEF Tcp!Next
-----------------------------------------------------------------------------
\* One connection, one attempt, never neither of them for good, and chunks in
\* the order of write(), whatever the network and the owner do.
THEOREM ConnectionCorrect == Tcp!Spec => []ConnectionsInTurn
BY TcpInit, TcpStepInv, PTL DEF Tcp!Spec, ConnectionsInTurn

\* The same of the run in which MCPort puts the connection beside the queue.
THEOREM PortCorrect == PortSpec => []ConnectionsInTurn
<1>1. PortInit => ConnectionsInTurn
  BY TcpInit DEF PortInit, ConnectionsInTurn
<1>2. ConnectionsInTurn /\ [PortNext]_allVars => ConnectionsInTurn'
  <2>1. [PortNext]_allVars => [Tcp!Next]_(Tcp!vars)
    BY DEF PortNext, CommandsStep, TcpStep, allVars, tcpVars, Tcp!vars, Tcp!connVars,
       Tcp!retryVars, Tcp!ownerVars, Tcp!writeVars, Tcp!chunkVars
  <2>2. QED
    BY <2>1, TcpStepInv DEF ConnectionsInTurn
<1>3. QED
  BY <1>1, <1>2, PTL DEF PortSpec
=============================================================================

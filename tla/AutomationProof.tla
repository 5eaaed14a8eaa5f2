--------------------------- MODULE AutomationProof ---------------------------
(***************************************************************************)
(* Theorems about what the bridge does on its own, for any automations,      *)
(* edits, runs, entities, links and inputs: the runs of an automation take    *)
(* turns (AutomationManager), an aborted run winds up (ActionRunner), timers  *)
(* follow the list of automations (AutomationTriggers), and the broker        *)
(* retains what the bridge believes (EntityDiscovery).                       *)
(***************************************************************************)
EXTENDS MCAutomations, SequenceTheorems, FiniteSetTheorems, TLAPS

-----------------------------------------------------------------------------
(* How a run ends.                                                         *)

\* The runs are numbers, none of them NoRun.
LEMMA RunsArePositive == \A r \in Runs : r \in Nat /\ r # NoRun
BY AutomationAssumption DEF Runs, NoRun

\* What is left of a queue when its first k + 1 runs have been taken.
LEMMA RestOfQueue ==
  ASSUME NEW q \in Seq(Runs), NEW k \in 0..Len(q)
  PROVE  /\ SubSeq(q, k + 2, Len(q)) \in Seq(Runs)
         /\ Len(SubSeq(q, k + 2, Len(q))) = IF k < Len(q) THEN Len(q) - k - 1 ELSE 0
         /\ \A i \in 1..Len(SubSeq(q, k + 2, Len(q))) :
              SubSeq(q, k + 2, Len(q))[i] = q[i + k + 1]
OBVIOUS

\* The types of what Finish changes, with and without primes.
FinishTypes ==
  /\ running \in Runs \cup {NoRun}
  /\ queue \in Seq(Runs)
  /\ phase \in [Runs -> Phases]
  /\ pc \in [Runs -> 0..Len(Actions)]

\* The end of run r in mode m, seen from the phases: r has ended; runs leave the
\* queue in its order, the last of them to be the tracked run, the others for
\* good; in queued mode nobody is left in the queue without a run in progress.
EndOf(r, m) ==
  /\ FinishTypes'
  /\ QueueHolds'
  /\ phase'[r] = "ended"
  /\ \A x \in Runs \ {r} : phase[x] # "queued" => phase'[x] = phase[x]
  /\ \A x \in Runs : /\ phase[x] = "queued"
                     /\ phase'[x] # "queued"
                     => /\ m = "queued"
                        /\ phase'[x] = IF x = running' THEN "waiting" ELSE "ended"
                        /\ x = running' => pc'[x] = 1
  /\ \A x, y \in Runs : /\ phase[x] = "queued" /\ phase'[x] = "queued"
                        /\ phase[y] = "queued" /\ phase'[y] # "queued"
                        => y < x
  /\ \A x \in Runs : phase[x] # "queued" => pc'[x] = pc[x]
  /\ m \in {"parallel", "manual"} => running' = running
  /\ m \in {"single", "restart"} => running' = NoRun
  /\ m = "queued" /\ running' # NoRun =>
       phase[running'] = "queued" /\ phase'[running'] = "waiting"
  /\ m = "queued" /\ queue' # <<>> => running' # NoRun

\* In queued mode the end of r takes k runs, whose guards do not hold, and one
\* more, if there is one.
LEMMA FinishQueuedEnds ==
  ASSUME FinishTypes, QueueHolds, NEW r \in Runs, phase[r] # "queued",
         Finish(r, "queued")
  PROVE  EndOf(r, "queued")
<1>1. PICK k \in 0..Len(queue) :
        LET next == IF k < Len(queue) THEN queue[k + 1] ELSE NoRun
            over == {r} \cup {queue[i] : i \in 1..k}
        IN /\ phase' = [x \in Runs |-> IF x \in over THEN "ended"
                                      ELSE IF x = next THEN "waiting"
                                      ELSE phase[x]]
           /\ pc' = [x \in Runs |-> IF x = next THEN 1 ELSE pc[x]]
           /\ running' = next
           /\ queue' = SubSeq(queue, k + 2, Len(queue))
  BY DEF Finish
<1> DEFINE next == IF k < Len(queue) THEN queue[k + 1] ELSE NoRun
           over == {r} \cup {queue[i] : i \in 1..k}
<1>2. /\ queue \in Seq(Runs) /\ Len(queue) \in Nat
      /\ \A i \in 1..Len(queue) : queue[i] \in Runs /\ phase[queue[i]] = "queued"
      /\ \A x \in Runs : phase[x] = "queued" => \E i \in 1..Len(queue) : queue[i] = x
      /\ \A i, j \in 1..Len(queue) : i < j => queue[i] < queue[j]
  BY DEF FinishTypes, QueueHolds
<1>3. /\ queue' \in Seq(Runs)
      /\ Len(queue') = IF k < Len(queue) THEN Len(queue) - k - 1 ELSE 0
      /\ \A i \in 1..Len(queue') : queue'[i] = queue[i + k + 1]
  BY <1>1, <1>2, RestOfQueue
<1>4. next \in Runs \cup {NoRun} /\ running' = next
  BY <1>1, <1>2
<1>5. next # NoRun => k < Len(queue) /\ next = queue[k + 1]
  OBVIOUS
<1>6. \A x \in Runs : x = next => k < Len(queue) /\ next = queue[k + 1]
  BY <1>5, RunsArePositive
\* Where the queued runs go, by their places.
<1>7. ASSUME NEW i \in 1..Len(queue)
      PROVE  phase'[queue[i]] = IF i <= k THEN "ended"
                                ELSE IF i = k + 1 THEN "waiting" ELSE "queued"
  <2>1. queue[i] \in Runs /\ queue[i] # r /\ phase[queue[i]] = "queued"
    BY <1>2
  <2>2. \A j \in 1..Len(queue) : queue[j] = queue[i] => j = i
    BY <1>2, RunsArePositive
  <2>3. queue[i] \in over <=> i <= k
    BY <2>1, <2>2
  <2>4. queue[i] = next <=> i = k + 1
    BY <2>1, <2>2, <1>6
  <2>5. phase'[queue[i]] = IF queue[i] \in over THEN "ended"
                           ELSE IF queue[i] = next THEN "waiting" ELSE phase[queue[i]]
    BY <1>1, <2>1
  <2>6. QED
    BY <2>1, <2>3, <2>4, <2>5
<1>8. ASSUME NEW x \in Runs, phase[x] # "queued"
      PROVE  phase'[x] = (IF x = r THEN "ended" ELSE phase[x]) /\ pc'[x] = pc[x]
  <2>1. x # next
    BY <1>2, <1>6, <1>8
  <2>2. x \in over <=> x = r
    BY <1>2, <1>8
  <2>3. QED
    BY <1>1, <2>1, <2>2
<1>9. QueueHolds'
  <2>1. ASSUME NEW x \in Runs
        PROVE  phase'[x] = "queued" <=> \E i \in 1..Len(queue') : queue'[i] = x
    <3>1. CASE phase[x] = "queued"
      <4>1. PICK i \in 1..Len(queue) : queue[i] = x
        BY <3>1, <1>2
      <4>2. phase'[x] = "queued" <=> i > k + 1
        BY <4>1, <1>7
      <4>3. i > k + 1 => i - k - 1 \in 1..Len(queue') /\ queue'[i - k - 1] = x
        BY <4>1, <1>3
      <4>4. ASSUME NEW j \in 1..Len(queue'), queue'[j] = x
            PROVE  i > k + 1
        <5>1. j + k + 1 \in 1..Len(queue) /\ queue[j + k + 1] = x
          BY <4>4, <1>2, <1>3
        <5>2. phase'[x] = "queued"
          BY <5>1, <1>7
        <5>3. QED
          BY <5>2, <4>2
      <4>5. QED
        BY <4>2, <4>3, <4>4
    <3>2. CASE phase[x] # "queued"
      <4>1. phase'[x] # "queued"
        BY <3>2, <1>8
      <4>2. \A j \in 1..Len(queue') : j + k + 1 \in 1..Len(queue)
        BY <1>2, <1>3
      <4>3. \A j \in 1..Len(queue') : queue'[j] # x
        BY <3>2, <4>2, <1>2, <1>3
      <4>4. QED
        BY <4>1, <4>3
    <3>3. QED
      BY <3>1, <3>2
  <2>2. ASSUME NEW i \in 1..Len(queue'), NEW j \in 1..Len(queue'), i < j
        PROVE  queue'[i] < queue'[j]
    <3>1. /\ i + k + 1 \in 1..Len(queue) /\ j + k + 1 \in 1..Len(queue)
          /\ i + k + 1 < j + k + 1
      BY <2>2, <1>2, <1>3
    <3>2. QED
      BY <3>1, <1>2, <1>3
  <2>3. QED
    BY <2>1, <2>2 DEF QueueHolds
<1>10. FinishTypes'
  <2>1. phase' \in [Runs -> Phases]
    BY <1>1 DEF FinishTypes, Phases
  <2>2. pc' \in [Runs -> 0..Len(Actions)]
    <3>1. 1 \in 0..Len(Actions)
      BY AutomationAssumption
    <3>2. QED
      BY <1>1, <3>1 DEF FinishTypes
  <2>3. QED
    BY <2>1, <2>2, <1>3, <1>4 DEF FinishTypes
<1>11. ASSUME NEW x \in Runs, phase[x] = "queued", phase'[x] # "queued"
       PROVE  /\ phase'[x] = IF x = running' THEN "waiting" ELSE "ended"
              /\ x = running' => pc'[x] = 1
  <2>1. PICK i \in 1..Len(queue) : queue[i] = x
    BY <1>2, <1>11
  <2>2. i <= k + 1
    BY <1>7, <1>11, <2>1
  <2>3. x = next <=> i = k + 1
    <3>1. \A j \in 1..Len(queue) : queue[j] = queue[i] => j = i
      BY <1>2, RunsArePositive
    <3>2. QED
      BY <2>1, <3>1, <1>6
  <2>4. phase'[x] = IF i <= k THEN "ended" ELSE "waiting"
    BY ONLY <1>7, <2>1, <2>2, i \in 1..Len(queue), k \in 0..Len(queue), <1>2
  <2>5. x = next => pc'[x] = 1
    BY <1>1
  <2> HIDE DEF next, over
  <2>6. QED
    BY ONLY <1>4, <2>2, <2>3, <2>4, <2>5, i \in 1..Len(queue), k \in 0..Len(queue), <1>2
<1>12. ASSUME NEW x \in Runs, NEW y \in Runs,
              phase[x] = "queued", phase'[x] = "queued",
              phase[y] = "queued", phase'[y] # "queued"
       PROVE  y < x
  <2>1. PICK i \in 1..Len(queue) : queue[i] = x
    BY <1>2, <1>12
  <2>2. PICK j \in 1..Len(queue) : queue[j] = y
    BY <1>2, <1>12
  <2>3. j <= k + 1 /\ i > k + 1
    BY <1>7, <1>12, <2>1, <2>2
  <2>4. QED
    BY <1>2, <2>1, <2>2, <2>3
<1>13. running' # NoRun => phase[running'] = "queued" /\ phase'[running'] = "waiting"
  BY <1>2, <1>4, <1>5, <1>7
<1>14. queue' # <<>> => running' # NoRun
  <2>1. ASSUME queue' # <<>> PROVE k < Len(queue)
    BY <2>1, <1>3
  <2>2. QED
    BY <2>1, <1>2, <1>4, RunsArePositive
<1> HIDE DEF next, over
<1>15. /\ phase'[r] = "ended"
       /\ \A x \in Runs \ {r} : phase[x] # "queued" => phase'[x] = phase[x]
       /\ \A x \in Runs : phase[x] # "queued" => pc'[x] = pc[x]
  BY <1>8
<1>16. \A x \in Runs : phase[x] = "queued" /\ phase'[x] # "queued" =>
         /\ phase'[x] = IF x = running' THEN "waiting" ELSE "ended"
         /\ x = running' => pc'[x] = 1
  BY <1>11
<1>17. \A x, y \in Runs : /\ phase[x] = "queued" /\ phase'[x] = "queued"
                          /\ phase[y] = "queued" /\ phase'[y] # "queued"
                          => y < x
  BY <1>12
<1>18. QED
  BY ONLY <1>9, <1>10, <1>13, <1>14, <1>15, <1>16, <1>17 DEF EndOf

\* Every mode ends a run in that way.
LEMMA FinishEnds ==
  ASSUME FinishTypes, QueueHolds, NEW r \in Runs, phase[r] # "queued",
         NEW m \in AllModes \cup {"manual"}, Finish(r, m)
  PROVE  EndOf(r, m)
<1>1. CASE m = "queued"
  BY <1>1, FinishQueuedEnds
<1>2. CASE m # "queued"
  <2>1. /\ phase' = [phase EXCEPT ![r] = "ended"]
        /\ running' = IF m \in {"parallel", "manual"} THEN running ELSE NoRun
        /\ UNCHANGED <<queue, pc>>
    BY <1>2 DEF Finish, AllModes
  <2>2. FinishTypes'
    BY <2>1 DEF FinishTypes, Phases
  <2>3. QueueHolds'
    BY <2>1 DEF QueueHolds, FinishTypes
  <2>4. QED
    BY <1>2, <2>1, <2>2, <2>3 DEF EndOf, FinishTypes, AllModes
<1>3. QED
  BY <1>1, <1>2
-----------------------------------------------------------------------------
(* ManagerInv, whatever edits are made.                                    *)

LEMMA ManagerInit == Init => ManagerInv
<1> SUFFICES ASSUME Init PROVE ManagerInv
  OBVIOUS
<1>1. TypeOK
  BY AutomationAssumption DEF Init, TypeOK, Phases, NoRun, Runs, AllModes
<1>2. RunShape
  BY DEF Init, RunShape, InProgress, Runs
<1>3. QueueHolds /\ TrackedRun
  BY DEF Init, QueueHolds, TrackedRun
<1>4. QED
  BY <1>1, <1>2, <1>3 DEF ManagerInv

\* A run in progress ends.
LEMMA EndKeepsManagerInv ==
  ASSUME ManagerInv, NEW r \in Runs, InProgress(r), EndOf(r, runMode[r]),
         UNCHANGED <<configVars, runMode, aborted, nextRun>>
  PROVE  ManagerInv'
<1>1. /\ TypeOK /\ RunShape /\ QueueHolds /\ TrackedRun /\ FinishTypes'
      /\ QueueHolds' /\ runMode' = runMode /\ aborted' = aborted
      /\ nextRun' = nextRun
  BY DEF ManagerInv, EndOf
<1>2. TypeOK'
  BY <1>1 DEF TypeOK, FinishTypes, configVars
<1>3. /\ phase'[r] = "ended" /\ phase[r] = "waiting"
      /\ \A x \in Runs \ {r} : phase[x] # "queued" => phase'[x] = phase[x]
      /\ \A x \in Runs : /\ phase[x] = "queued"
                         /\ phase'[x] # "queued"
                         => /\ phase'[x] = IF x = running' THEN "waiting" ELSE "ended"
                            /\ x = running' => pc'[x] = 1
      /\ \A x \in Runs : phase[x] # "queued" => pc'[x] = pc[x]
  BY DEF EndOf, InProgress
<1>4. RunShape'
  <2>1. ASSUME NEW x \in Runs
        PROVE  /\ x >= nextRun' <=> phase'[x] = "none"
               /\ x >= nextRun' <=> runMode'[x] = "none"
               /\ phase'[x] = "waiting" => pc'[x] > 0
               /\ aborted'[x] => phase'[x] \in {"waiting", "ended"}
               /\ phase'[x] = "queued" => runMode'[x] = "queued"
    <3>1. /\ x >= nextRun <=> phase[x] = "none"
          /\ x >= nextRun <=> runMode[x] = "none"
          /\ phase[x] = "waiting" => pc[x] > 0
          /\ aborted[x] => phase[x] \in {"waiting", "ended"}
          /\ phase[x] = "queued" => runMode[x] = "queued"
      BY <1>1 DEF RunShape, InProgress
    <3>2. CASE phase[x] = "queued"
      BY <1>1, <1>3, <3>1, <3>2
    <3>3. CASE phase[x] # "queued"
      BY <1>1, <1>3, <3>1, <3>3
    <3>4. QED
      BY <3>2, <3>3
  <2>2. QED
    BY <2>1 DEF RunShape, InProgress
<1>5. TrackedRun'
  <2>1. SUFFICES ASSUME running' # NoRun
                 PROVE  /\ phase'[running'] = "waiting"
                        /\ runMode[running'] \in {"single", "restart", "queued"}
    BY <1>1 DEF TrackedRun, InProgress
  <2>2. runMode[r] \in AllModes \cup {"none", "manual"} /\ runMode[r] # "none"
    BY <1>1, <1>3 DEF TypeOK, RunShape
  <2>3. CASE runMode[r] \in {"parallel", "manual"}
    <3>1. running' = running /\ running \in Runs
      BY <1>1, <2>1, <2>3 DEF EndOf, TypeOK
    <3>2. /\ phase[running] = "waiting"
          /\ runMode[running] \in {"single", "restart", "queued"}
      BY <1>1, <2>1, <3>1 DEF TrackedRun, InProgress
    <3>3. QED
      BY <1>3, <2>3, <3>1, <3>2
  <2>4. CASE runMode[r] \in {"single", "restart"}
    BY <2>1, <2>4 DEF EndOf
  <2>5. CASE runMode[r] = "queued"
    <3>1. phase[running'] = "queued" /\ phase'[running'] = "waiting"
      BY <2>1, <2>5 DEF EndOf
    <3>2. running' \in Runs
      BY <1>1, <2>1 DEF FinishTypes
    <3>3. QED
      BY <1>1, <3>1, <3>2 DEF RunShape
  <2>6. QED
    BY <2>2, <2>3, <2>4, <2>5 DEF AllModes
<1>6. QED
  BY <1>1, <1>2, <1>4, <1>5 DEF ManagerInv

\* A run in progress goes on, or ends.
LEMMA ActionInv ==
  ASSUME ManagerInv, NEW r \in Runs, ActionDone(r) \/ ActionThrows(r)
  PROVE  ManagerInv'
<1>1. /\ TypeOK /\ RunShape /\ QueueHolds /\ InProgress(r)
      /\ UNCHANGED <<configVars, runMode, aborted, nextRun>>
  BY DEF ManagerInv, ActionDone, ActionThrows, InProgress
<1>2. CASE Finish(r, runMode[r])
  <2>1. runMode[r] \in AllModes \cup {"manual"}
    BY <1>1 DEF TypeOK, RunShape, InProgress
  <2>2. FinishTypes /\ phase[r] # "queued"
    BY <1>1 DEF TypeOK, FinishTypes, InProgress
  <2>3. QED
    BY <1>1, <1>2, <2>1, <2>2, FinishEnds, EndKeepsManagerInv
<1>3. CASE /\ pc[r] < Len(Actions)
           /\ pc' = [pc EXCEPT ![r] = @ + 1]
           /\ UNCHANGED <<phase, running, queue>>
  <2>1. pc[r] \in Nat /\ pc' = [pc EXCEPT ![r] = pc[r] + 1]
    BY <1>1, <1>3 DEF TypeOK
  <2>2. pc[r] + 1 \in 0..Len(Actions)
    BY <1>3, <2>1, AutomationAssumption
  <2>3. TypeOK'
    BY <1>1, <1>3, <2>1, <2>2 DEF TypeOK, configVars
  <2>4. RunShape'
    BY <1>1, <1>3, <2>1 DEF RunShape, InProgress, TypeOK
  <2>5. QueueHolds' /\ TrackedRun'
    BY <1>1, <1>3 DEF ManagerInv, QueueHolds, TrackedRun, InProgress
  <2>6. QED
    BY <2>3, <2>4, <2>5 DEF ManagerInv
<1>4. QED
  BY <1>2, <1>3 DEF ActionDone, ActionThrows

\* Run r is the next one and is requested in mode m.
Requested(r, m) ==
  /\ r = nextRun
  /\ nextRun' = nextRun + 1
  /\ runMode' = [runMode EXCEPT ![r] = m]
  /\ UNCHANGED configVars

\* What a request leaves of the shapes: the new run is somewhere, those in the
\* queue stay there, begin or end, the others stay where they are, and only runs in
\* progress are aborted.
LEMMA RequestKeepsShape ==
  ASSUME TypeOK, RunShape, NEW r \in Runs, NEW m \in AllModes \cup {"manual"},
         Requested(r, m),
         phase'[r] \in {"queued", "skipped", "waiting", "ended"},
         phase'[r] = "queued" => m = "queued",
         phase'[r] = "waiting" => pc'[r] = 1,
         \A x \in Runs \ {r} :
           IF phase[x] # "queued" THEN phase'[x] = phase[x] /\ pc'[x] = pc[x]
           ELSE \/ phase'[x] \in {"queued", "ended"}
                \/ phase'[x] = "waiting" /\ pc'[x] = 1,
         \A x \in Runs : aborted'[x] => x # r /\ (aborted[x] \/ phase[x] = "waiting")
  PROVE  RunShape'
<1>1. SUFFICES ASSUME NEW x \in Runs
               PROVE  /\ x >= nextRun' <=> phase'[x] = "none"
                      /\ x >= nextRun' <=> runMode'[x] = "none"
                      /\ phase'[x] = "waiting" => pc'[x] > 0
                      /\ aborted'[x] => phase'[x] \in {"waiting", "ended"}
                      /\ phase'[x] = "queued" => runMode'[x] = "queued"
  BY DEF RunShape, InProgress
<1>2. /\ x >= nextRun <=> phase[x] = "none"
      /\ x >= nextRun <=> runMode[x] = "none"
      /\ phase[x] = "waiting" => pc[x] > 0
      /\ aborted[x] => phase[x] \in {"waiting", "ended"}
      /\ phase[x] = "queued" => runMode[x] = "queued"
  BY DEF RunShape, InProgress
<1>3. /\ r = nextRun /\ nextRun' = nextRun + 1 /\ nextRun \in Nat /\ x \in Nat
      /\ runMode'[x] = IF x = r THEN m ELSE runMode[x]
  BY RunsArePositive DEF Requested, TypeOK
<1>4. CASE x = r
  BY <1>2, <1>3, <1>4 DEF AllModes
<1>5. CASE x # r
  <2>1. x >= nextRun' <=> x >= nextRun
    BY <1>3, <1>5
  <2>2. QED
    BY <1>2, <1>3, <1>5, <2>1
<1>6. QED
  BY <1>4, <1>5

\* The types of what a request sets besides the course of the runs.
LEMMA RequestTypes ==
  ASSUME TypeOK, NEW r \in Runs, NEW m \in AllModes \cup {"manual"},
         Requested(r, m)
  PROVE  /\ mode' \in AllModes /\ listed' \in BOOLEAN /\ started' \in BOOLEAN
         /\ runMode' \in [Runs -> AllModes \cup {"none", "manual"}]
         /\ nextRun' \in 1..(MaxRuns + 1)
<1>1. r \in 1..MaxRuns /\ MaxRuns \in Nat
  BY AutomationAssumption DEF Runs
<1>2. QED
  BY <1>1 DEF TypeOK, Requested, configVars

\* A request that begins the run at once.
LEMMA BeginInv ==
  ASSUME ManagerInv, NEW r \in Runs, NEW m \in AllModes \cup {"manual"},
         Requested(r, m),
         phase' = [phase EXCEPT ![r] = "waiting"], pc' = [pc EXCEPT ![r] = 1],
         running' = (IF m \in {"parallel", "manual"} THEN running ELSE r),
         queue' = queue, aborted' \in [Runs -> BOOLEAN],
         \A x \in Runs : aborted'[x] => x # r /\ (aborted[x] \/ phase[x] = "waiting")
  PROVE  ManagerInv'
<1>1. /\ TypeOK /\ RunShape /\ QueueHolds /\ TrackedRun /\ phase[r] = "none"
      /\ \A x \in Runs \ {r} : phase'[x] = phase[x] /\ pc'[x] = pc[x]
      /\ phase'[r] = "waiting" /\ pc'[r] = 1
  BY RunsArePositive DEF ManagerInv, RunShape, TypeOK, Requested
<1>2. TypeOK'
  <2>1. 1 \in 0..Len(Actions)
    BY AutomationAssumption
  <2>2. QED
    BY <1>1, <2>1, RequestTypes DEF TypeOK, Phases
<1>3. RunShape'
  BY <1>1, RequestKeepsShape
<1>4. QueueHolds'
  BY <1>1 DEF QueueHolds, TypeOK
<1>5. TrackedRun'
  <2>1. runMode' = [runMode EXCEPT ![r] = m]
    BY DEF Requested
  <2>2. CASE m \in {"parallel", "manual"}
    BY <1>1, <2>1, <2>2 DEF TrackedRun, InProgress, TypeOK
  <2>3. CASE m \notin {"parallel", "manual"}
    BY <1>1, <2>1, <2>3 DEF TrackedRun, InProgress, TypeOK, AllModes
  <2>4. QED
    BY <2>2, <2>3
<1>6. QED
  BY <1>2, <1>3, <1>4, <1>5 DEF ManagerInv

\* A request whose guard does not hold.
LEMMA NoBeginInv ==
  ASSUME ManagerInv, NEW r \in Runs, NEW m \in AllModes, Requested(r, m),
         EndOf(r, m), aborted' \in [Runs -> BOOLEAN],
         \A x \in Runs : aborted'[x] => x # r /\ (aborted[x] \/ phase[x] = "waiting")
  PROVE  ManagerInv'
<1>1. /\ TypeOK /\ RunShape /\ QueueHolds /\ TrackedRun /\ phase[r] = "none"
      /\ FinishTypes' /\ QueueHolds' /\ phase'[r] = "ended"
  BY RunsArePositive DEF ManagerInv, RunShape, TypeOK, Requested, EndOf
<1>2. TypeOK'
  BY <1>1, RequestTypes DEF TypeOK, FinishTypes
<1>3. RunShape'
  <2>1. ASSUME NEW x \in Runs \ {r}
        PROVE  IF phase[x] # "queued" THEN phase'[x] = phase[x] /\ pc'[x] = pc[x]
               ELSE \/ phase'[x] \in {"queued", "ended"}
                    \/ phase'[x] = "waiting" /\ pc'[x] = 1
    BY DEF EndOf
  <2>2. QED
    BY <1>1, <2>1, RequestKeepsShape
<1>4. TrackedRun'
  <2>1. SUFFICES ASSUME running' # NoRun
                 PROVE  /\ phase'[running'] = "waiting"
                        /\ runMode'[running'] \in {"single", "restart", "queued"}
    BY DEF TrackedRun, InProgress
  <2>2. /\ running' \in Runs
        /\ \A x \in Runs \ {r} : runMode'[x] = runMode[x]
    BY <1>1, <2>1 DEF FinishTypes, Requested, TypeOK
  <2>3. CASE m = "parallel"
    BY <1>1, <2>1, <2>2, <2>3 DEF EndOf, TrackedRun, InProgress
  <2>4. CASE m \in {"single", "restart"}
    BY <2>1, <2>4 DEF EndOf
  <2>5. CASE m = "queued"
    <3>1. phase[running'] = "queued" /\ phase'[running'] = "waiting"
      BY <2>1, <2>5 DEF EndOf
    <3>2. QED
      BY <1>1, <2>2, <3>1 DEF RunShape
  <2>6. QED
    BY <2>3, <2>4, <2>5 DEF AllModes
<1>5. QED
  BY <1>1, <1>2, <1>3, <1>4 DEF ManagerInv

\* What a trigger does, by the four outcomes of runAutomation.
Outcomes(r) ==
  \/ /\ mode = "single" /\ running # NoRun
     /\ phase' = [phase EXCEPT ![r] = "skipped"]
     /\ UNCHANGED <<running, queue, pc, aborted>>
  \/ /\ mode = "queued" /\ running # NoRun
     /\ phase' = [phase EXCEPT ![r] = "queued"]
     /\ queue' = Append(queue, r)
     /\ UNCHANGED <<running, pc, aborted>>
  \/ /\ mode \in {"parallel", "restart"} \/ running = NoRun
     /\ aborted' \in [Runs -> BOOLEAN]
     /\ \A x \in Runs : aborted[x] => aborted'[x]
     /\ \A x \in Runs : aborted'[x] => x # r /\ (aborted[x] \/ phase[x] = "waiting")
     /\ \/ EndOf(r, mode)
        \/ /\ phase' = [phase EXCEPT ![r] = "waiting"]
           /\ pc' = [pc EXCEPT ![r] = 1]
           /\ running' = (IF mode = "parallel" THEN running ELSE r)
           /\ queue' = queue

LEMMA TriggerOutcomes ==
  ASSUME ManagerInv, NEW r \in Runs, Trigger(r)
  PROVE  /\ Requested(r, mode) /\ phase[r] = "none" /\ ~aborted[r]
         /\ mode \in AllModes
         /\ Outcomes(r)
<1>1. /\ TypeOK /\ RunShape /\ QueueHolds /\ TrackedRun /\ Requested(r, mode)
      /\ r = nextRun /\ mode \in AllModes
  BY DEF ManagerInv, Trigger, Requested, TypeOK
<1>2. phase[r] = "none" /\ ~aborted[r]
  BY <1>1, RunsArePositive DEF RunShape
<1>3. ASSUME Execute(r, mode)
      PROVE  \/ EndOf(r, mode)
             \/ /\ phase' = [phase EXCEPT ![r] = "waiting"]
                /\ pc' = [pc EXCEPT ![r] = 1]
                /\ running' = (IF mode = "parallel" THEN running ELSE r)
                /\ queue' = queue
  <2>1. FinishTypes /\ phase[r] # "queued"
    BY <1>1, <1>2 DEF TypeOK, FinishTypes
  <2>2. CASE Finish(r, mode)
    BY <1>1, <2>1, <2>2, FinishEnds
  <2>3. CASE Begin(r, mode) /\ UNCHANGED queue
    BY <2>3 DEF Begin
  <2>4. QED
    BY <1>3, <2>2, <2>3 DEF Execute
<1>4. CASE /\ mode = "restart" /\ running # NoRun
           /\ aborted' = [aborted EXCEPT ![running] = TRUE]
           /\ Execute(r, mode)
  <2>1. running \in Runs /\ phase[running] = "waiting"
    BY <1>1, <1>4 DEF TrackedRun, InProgress, TypeOK
  <2>2. aborted' \in [Runs -> BOOLEAN]
    BY <1>1, <1>4 DEF TypeOK
  <2>3. \A x \in Runs : aborted'[x] <=> aborted[x] \/ x = running
    BY <1>1, <1>4, <2>1 DEF TypeOK
  <2>4. \A x \in Runs : aborted'[x] => x # r /\ (aborted[x] \/ phase[x] = "waiting")
    BY <1>2, <2>1, <2>3
  <2>5. QED
    BY <1>1, <1>2, <1>3, <1>4, <2>2, <2>3, <2>4 DEF Outcomes
<1>5. CASE /\ mode = "parallel" \/ running = NoRun
           /\ Execute(r, mode)
           /\ UNCHANGED aborted
  <2>1. aborted' \in [Runs -> BOOLEAN] /\ aborted' = aborted
    BY <1>1, <1>5 DEF TypeOK
  <2>2. \A x \in Runs : aborted'[x] => x # r /\ (aborted[x] \/ phase[x] = "waiting")
    BY <1>2, <2>1
  <2>3. QED
    BY <1>1, <1>2, <1>3, <1>5, <2>1, <2>2 DEF Outcomes
<1>6. CASE /\ mode = "single" /\ running # NoRun
           /\ phase' = [phase EXCEPT ![r] = "skipped"]
           /\ UNCHANGED <<running, queue, pc, aborted>>
  BY <1>1, <1>2, <1>6 DEF Outcomes
<1>7. CASE /\ mode = "queued" /\ running # NoRun
           /\ phase' = [phase EXCEPT ![r] = "queued"]
           /\ queue' = Append(queue, r)
           /\ UNCHANGED <<running, pc, aborted>>
  BY <1>1, <1>2, <1>7 DEF Outcomes
<1>8. QED
  BY <1>4, <1>5, <1>6, <1>7 DEF Trigger

\* A new run at the end of the queue, behind those requested before it.
LEMMA AppendKeepsQueue ==
  ASSUME TypeOK, RunShape, QueueHolds, NEW r \in Runs, r = nextRun,
         phase' = [phase EXCEPT ![r] = "queued"], queue' = Append(queue, r)
  PROVE  QueueHolds'
<1>1. /\ queue \in Seq(Runs) /\ Len(queue) \in Nat /\ phase \in [Runs -> Phases]
      /\ phase[r] = "none"
      /\ \A i \in 1..Len(queue) : queue[i] \in Runs /\ queue[i] < r
  <2>1. ASSUME NEW i \in 1..Len(queue)
        PROVE  queue[i] \in Runs /\ queue[i] < r
    <3>1. queue \in Seq(Runs) /\ nextRun \in Nat
      BY DEF TypeOK
    <3>2. queue[i] \in Runs
      BY <3>1
    <3>3. phase[queue[i]] = "queued"
      BY <3>2 DEF QueueHolds
    <3>4. ~(queue[i] >= nextRun)
      BY <3>2, <3>3 DEF RunShape
    <3>5. QED
      BY <3>1, <3>2, <3>4, RunsArePositive
  <2>2. QED
    BY <2>1, RunsArePositive DEF TypeOK, RunShape
<1>2. /\ Len(queue') = Len(queue) + 1
      /\ \A i \in 1..Len(queue) : queue'[i] = queue[i]
      /\ queue'[Len(queue) + 1] = r
      /\ \A i \in 1..(Len(queue) + 1) : i \in 1..Len(queue) \/ i = Len(queue) + 1
  BY <1>1
<1>3. \A x \in Runs : phase'[x] = "queued" <=> \E i \in 1..Len(queue') : queue'[i] = x
  <2>1. ASSUME NEW x \in Runs
        PROVE  phase'[x] = "queued" <=> \E i \in 1..Len(queue') : queue'[i] = x
    <3>1. CASE x = r
      BY <1>1, <1>2, <3>1
    <3>2. CASE x # r
      <4>1. phase'[x] = phase[x]
        BY <1>1, <3>2
      <4>2. phase[x] = "queued" <=> \E i \in 1..Len(queue) : queue[i] = x
        BY DEF QueueHolds
      <4>3. QED
        BY <1>1, <1>2, <3>2, <4>1, <4>2
    <3>3. QED
      BY <3>1, <3>2
  <2>2. QED
    BY <2>1
<1>4. \A i, j \in 1..Len(queue') : i < j => queue'[i] < queue'[j]
  <2>1. \A i, j \in 1..Len(queue) : i < j => queue[i] < queue[j]
    BY DEF QueueHolds
  <2>2. QED
    BY <1>1, <1>2, <2>1
<1>5. QED
  BY <1>3, <1>4 DEF QueueHolds

LEMMA TriggerInv ==
  ASSUME ManagerInv, NEW r \in Runs, Trigger(r)
  PROVE  ManagerInv'
<1>1. /\ TypeOK /\ RunShape /\ QueueHolds /\ TrackedRun
      /\ Requested(r, mode) /\ phase[r] = "none" /\ ~aborted[r] /\ mode \in AllModes
      /\ Outcomes(r)
      /\ \A x \in Runs \ {r} : runMode'[x] = runMode[x]
      /\ r = nextRun
  BY TriggerOutcomes DEF ManagerInv, Requested, TypeOK
<1>2. ASSUME NEW p \in {"skipped", "queued"}, phase' = [phase EXCEPT ![r] = p],
             p = "queued" => mode = "queued", UNCHANGED <<running, pc, aborted>>,
             queue' \in Seq(Runs), QueueHolds'
      PROVE  ManagerInv'
  <2>1. /\ phase'[r] = p /\ \A x \in Runs \ {r} : phase'[x] = phase[x]
        /\ \A x \in Runs \ {r} : pc'[x] = pc[x]
        /\ \A x \in Runs : aborted'[x] => x # r /\ (aborted[x] \/ phase[x] = "waiting")
    BY <1>1, <1>2 DEF TypeOK
  <2>2. TypeOK'
    BY <1>1, <1>2, RequestTypes DEF TypeOK, Phases
  <2>3. RunShape'
    BY <1>1, <1>2, <2>1, RequestKeepsShape
  <2>4. TrackedRun'
    BY <1>1, <1>2, <2>1 DEF TrackedRun, InProgress, TypeOK
  <2>5. QED
    BY <1>2, <2>2, <2>3, <2>4 DEF ManagerInv
<1>3. CASE /\ phase' = [phase EXCEPT ![r] = "skipped"]
           /\ UNCHANGED <<running, queue, pc, aborted>>
  <2>1. QueueHolds' /\ queue' \in Seq(Runs)
    BY <1>1, <1>3 DEF QueueHolds, TypeOK
  <2>2. QED
    BY <1>2, <1>3, <2>1
<1>4. CASE /\ mode = "queued" /\ phase' = [phase EXCEPT ![r] = "queued"]
           /\ queue' = Append(queue, r)
           /\ UNCHANGED <<running, pc, aborted>>
  <2>1. QueueHolds'
    BY <1>1, <1>4, AppendKeepsQueue
  <2>2. queue' \in Seq(Runs)
    BY <1>1, <1>4 DEF TypeOK
  <2>3. QED
    BY <1>2, <1>4, <2>1, <2>2
<1>5. CASE /\ aborted' \in [Runs -> BOOLEAN]
           /\ \A x \in Runs : aborted'[x] => x # r /\ (aborted[x] \/ phase[x] = "waiting")
           /\ EndOf(r, mode)
  BY <1>1, <1>5, NoBeginInv
<1>6. CASE /\ aborted' \in [Runs -> BOOLEAN]
           /\ \A x \in Runs : aborted'[x] => x # r /\ (aborted[x] \/ phase[x] = "waiting")
           /\ phase' = [phase EXCEPT ![r] = "waiting"]
           /\ pc' = [pc EXCEPT ![r] = 1]
           /\ running' = (IF mode = "parallel" THEN running ELSE r)
           /\ queue' = queue
  <2>1. running' = (IF mode \in {"parallel", "manual"} THEN running ELSE r)
    BY <1>1, <1>6 DEF AllModes
  <2>2. QED
    BY <1>1, <1>6, <2>1, BeginInv
<1>7. QED
  BY <1>1, <1>3, <1>4, <1>5, <1>6 DEF Outcomes

\* runAutomationThen.
LEMMA RunThenInv ==
  ASSUME ManagerInv, NEW r \in Runs, RunThen(r)
  PROVE  ManagerInv'
<1>1. TypeOK /\ RunShape /\ ~aborted[r] /\ Requested(r, "manual")
  BY RunsArePositive DEF ManagerInv, RunShape, RunThen, Requested, TypeOK
<1>2. \A x \in Runs : aborted'[x] => x # r /\ (aborted[x] \/ phase[x] = "waiting")
  BY <1>1 DEF RunThen
<1>3. aborted' \in [Runs -> BOOLEAN]
  BY <1>1 DEF TypeOK, RunThen
<1>4. QED
  BY <1>1, <1>2, <1>3, BeginInv DEF RunThen

\* Edits and stop() touch the configuration only.
LEMMA ConfigStep ==
  ASSUME TypeOK,
         \/ \E m \in EditModes : Upsert(m)
         \/ Remove \/ Stop \/ UNCHANGED vars
  PROVE  /\ mode' \in {mode} \cup EditModes
         /\ mode' \in AllModes /\ listed' \in BOOLEAN /\ started' \in BOOLEAN
         /\ UNCHANGED <<running, queue, runMode, phase, pc, aborted, nextRun>>
BY AutomationAssumption DEF Upsert, Remove, Stop, TypeOK, vars, configVars

LEMMA ManagerStepInv ==
  ASSUME ManagerInv, [Next]_vars
  PROVE  ManagerInv'
<1>1. ASSUME NEW r \in Runs, Trigger(r) PROVE ManagerInv'
  BY <1>1, TriggerInv
<1>2. ASSUME NEW r \in Runs, RunThen(r) PROVE ManagerInv'
  BY <1>2, RunThenInv
<1>3. ASSUME NEW r \in Runs, ActionDone(r) \/ ActionThrows(r) PROVE ManagerInv'
  BY <1>3, ActionInv
<1>4. CASE \/ \E m \in EditModes : Upsert(m)
           \/ Remove \/ Stop \/ UNCHANGED vars
  <2>1. /\ TypeOK /\ RunShape /\ QueueHolds /\ TrackedRun
        /\ mode' \in AllModes /\ listed' \in BOOLEAN /\ started' \in BOOLEAN
        /\ UNCHANGED <<running, queue, runMode, phase, pc, aborted, nextRun>>
    BY <1>4, ConfigStep DEF ManagerInv
  <2>2. TypeOK'
    BY <2>1 DEF TypeOK
  <2>3. RunShape' /\ QueueHolds' /\ TrackedRun'
    BY <2>1 DEF RunShape, QueueHolds, TrackedRun, InProgress
  <2>4. QED
    BY <2>2, <2>3 DEF ManagerInv
<1>5. QED
  BY <1>1, <1>2, <1>3, <1>4 DEF Next

\* ManagerInv holds in every reachable state, for every program, every number of
\* triggers and whatever the mode is edited to.
THEOREM ManagerCorrect == Spec => []ManagerInv
<1>1. ManagerInv /\ [Next]_vars => ManagerInv'
  BY ManagerStepInv
<1>2. QED
  BY <1>1, ManagerInit, PTL DEF Spec

\* The entry of runningAutomations never names a run that has ended, whatever the
\* mode is edited to: no single automation is blocked for ever.
THEOREM TrackedRunIsAliveCorrect == Spec => []TrackedRunIsAlive
<1>1. ManagerInv => TrackedRunIsAlive
  BY DEF ManagerInv, TrackedRun, TrackedRunIsAlive
<1>2. QED
  BY <1>1, ManagerCorrect, PTL

-----------------------------------------------------------------------------
(* Runs take turns, as long as the edits keep the order of the modes.      *)

\* The modes of the runs that take turns.
TurnModes == {"single", "queued"}

\* QueueIsDriven, said of the runs: one that waits is waited for.
QueuedAreDriven ==
  (\E x \in Runs : phase[x] = "queued") =>
    \E w \in Runs : InProgress(w) /\ runMode[w] = "queued"

LEMMA DrivenByPhase ==
  ASSUME queue \in Seq(Runs), QueueHolds
  PROVE  QueueIsDriven <=> QueuedAreDriven
<1>1. queue # <<>> <=> \E x \in Runs : phase[x] = "queued"
  <2>1. queue # <<>> <=> Len(queue) >= 1
    OBVIOUS
  <2>2. ASSUME Len(queue) >= 1 PROVE \E x \in Runs : phase[x] = "queued"
    <3>1. 1 \in 1..Len(queue) /\ queue[1] \in Runs
      BY <2>2
    <3>2. QED
      BY <3>1 DEF QueueHolds
  <2>3. ASSUME NEW x \in Runs, phase[x] = "queued" PROVE Len(queue) >= 1
    BY <2>3 DEF QueueHolds
  <2>4. QED
    BY <2>1, <2>2, <2>3
<1>2. QED
  BY <1>1 DEF QueueHolds, QueueIsDriven, QueuedAreDriven

\* Before a run that takes turns there was none in restart mode, and before a
\* queued one none in single mode.
LEMMA ModesBefore ==
  ASSUME ModesMet
  PROVE  /\ mode \in TurnModes => \A r \in Runs : runMode[r] # "restart"
         /\ mode = "queued" => \A r \in Runs : runMode[r] # "single"
BY DEF ModesMet, MayFollow, Rank, TurnModes

\* When nothing is tracked, no run that takes turns is in progress, and none waits.
LEMMA NobodysTurn ==
  ASSUME ManagerInv, ModesMet, TurnIsTracked, QueuedAreDriven,
         mode \in TurnModes, running = NoRun
  PROVE  /\ \A r \in Runs : ~(InProgress(r) /\ runMode[r] \in TurnModes)
         /\ \A r \in Runs : phase[r] # "queued"
<1>1. \A r \in Runs : ~(InProgress(r) /\ runMode[r] \in TurnModes)
  BY ModesBefore, RunsArePositive DEF TurnIsTracked, TurnModes
<1>2. QED
  BY <1>1 DEF QueuedAreDriven, TurnModes

\* The edits that were made and those to come keep the order.
LEMMA ModesMetStep ==
  ASSUME EditsKeepOrder, TypeOK, ModesMet, [Next]_vars
  PROVE  ModesMet'
<1>1. CASE mode' \in {mode} \cup EditModes /\ runMode' = runMode
  BY <1>1 DEF ModesMet
<1>2. ASSUME NEW r \in Runs, NEW m \in {mode, "manual"},
             runMode' = [runMode EXCEPT ![r] = m], mode' = mode
      PROVE  ModesMet'
  <2>1. \A x \in Runs : runMode'[x] = IF x = r THEN m ELSE runMode[x]
    BY <1>2 DEF TypeOK
  <2>2. \A e \in EditModes \cup {mode} : MayFollow(mode, e)
    BY DEF EditsKeepOrder, ModesMet, MayFollow, Rank
  <2>3. QED
    BY <1>2, <2>1, <2>2 DEF ModesMet
<1>3. ASSUME NEW r \in Runs, Trigger(r) \/ RunThen(r) PROVE ModesMet'
  BY <1>2, <1>3 DEF Trigger, RunThen, configVars
<1>4. ASSUME NEW r \in Runs, ActionDone(r) \/ ActionThrows(r) PROVE ModesMet'
  BY <1>1, <1>4 DEF ActionDone, ActionThrows, configVars
<1>5. CASE \/ \E m \in EditModes : Upsert(m)
           \/ Remove \/ Stop \/ UNCHANGED vars
  BY <1>1, <1>5, ConfigStep
<1>6. QED
  BY <1>3, <1>4, <1>5 DEF Next

\* What the turns are, without what holds whatever edits are made.
Turns == RunsDoNotOverlap /\ QueuedAreDriven /\ QueueIsFifo /\ TurnIsTracked

\* A step that leaves every run where it is, and the modes of all.
LEMMA SameTurns ==
  ASSUME Turns, UNCHANGED <<phase, runMode, running>>
  PROVE  Turns'
BY DEF Turns, RunsDoNotOverlap, QueuedAreDriven, QueueIsFifo, TurnIsTracked, InProgress

\* The end of a run in progress.
LEMMA EndKeepsTurns ==
  ASSUME ManagerInv, ModesMet, Turns,
         NEW r \in Runs, InProgress(r), EndOf(r, runMode[r]), UNCHANGED runMode
  PROVE  Turns'
<1>1. /\ phase[r] = "waiting" /\ phase'[r] = "ended"
      /\ runMode[r] \in AllModes \cup {"manual"} /\ runMode' = runMode
      /\ running' \in Runs \cup {NoRun}
  BY DEF ManagerInv, RunShape, TypeOK, EndOf, FinishTypes, InProgress
<1>2. ASSUME NEW x \in Runs, phase'[x] = "waiting"
      PROVE  \/ phase[x] = "waiting" /\ x # r
             \/ x = running' /\ phase[x] = "queued" /\ runMode[r] = "queued"
  BY <1>1, <1>2 DEF EndOf
<1>3. RunsDoNotOverlap'
  <2>1. SUFFICES ASSUME NEW x \in Runs, NEW y \in Runs,
                        phase'[x] = "waiting", phase'[y] = "waiting",
                        {runMode[x], runMode[y]} \subseteq TurnModes
                 PROVE  x = y
    BY <1>1 DEF RunsDoNotOverlap, InProgress, TurnModes
  <2>2. \A u, v \in Runs : /\ phase[u] = "waiting" /\ phase[v] = "waiting"
                           /\ runMode[u] \in TurnModes /\ runMode[v] \in TurnModes
                           => u = v
    BY DEF Turns, RunsDoNotOverlap, InProgress, TurnModes
  <2>3. QED
    BY <1>1, <1>2, <2>1, <2>2 DEF TurnModes
<1>4. QueuedAreDriven'
  <2>1. SUFFICES ASSUME NEW x \in Runs, phase'[x] = "queued"
                 PROVE  \E w \in Runs : phase'[w] = "waiting" /\ runMode[w] = "queued"
    BY <1>1 DEF QueuedAreDriven, InProgress
  <2>2. phase[x] = "queued"
    BY <1>1, <2>1 DEF EndOf
  <2>3. CASE runMode[r] = "queued"
    <3>1. queue' # <<>>
      BY <2>1 DEF EndOf, QueueHolds
    <3>2. /\ running' \in Runs /\ phase[running'] = "queued"
          /\ phase'[running'] = "waiting"
      BY <1>1, <2>3, <3>1 DEF EndOf
    <3>3. QED
      BY <3>2 DEF ManagerInv, RunShape
  <2>4. CASE runMode[r] # "queued"
    <3>1. PICK w \in Runs : phase[w] = "waiting" /\ runMode[w] = "queued"
      BY <2>2 DEF Turns, QueuedAreDriven, InProgress
    <3>2. phase'[w] = "waiting"
      BY <2>4, <3>1 DEF EndOf
    <3>3. QED
      BY <3>1, <3>2
  <2>5. QED
    BY <2>3, <2>4
<1>5. QueueIsFifo'
  <2>1. SUFFICES ASSUME NEW x \in Runs, NEW y \in Runs, x < y,
                        runMode[x] = "queued", runMode[y] = "queued",
                        phase'[y] \notin {"none", "queued"}, phase'[x] = "queued"
                 PROVE  FALSE
    BY <1>1 DEF QueueIsFifo
  <2>2. phase[x] = "queued"
    BY <1>1, <2>1 DEF EndOf
  <2>3. phase[y] # "none"
    BY <1>1, <2>1 DEF EndOf
  <2>4. phase[y] # "queued"
    BY <2>1, <2>2, RunsArePositive DEF EndOf
  <2>5. QED
    BY <2>1, <2>2, <2>3, <2>4 DEF Turns, QueueIsFifo
<1>6. TurnIsTracked'
  <2>1. SUFFICES ASSUME \A q \in Runs : runMode[q] # "restart",
                        NEW x \in Runs, phase'[x] = "waiting", runMode[x] \in TurnModes
                 PROVE  running' = x
    BY <1>1 DEF TurnIsTracked, InProgress, TurnModes
  <2>2. CASE phase[x] = "waiting" /\ x # r
    <3>1. running = x
      BY <2>1, <2>2 DEF Turns, TurnIsTracked, InProgress, TurnModes
    <3>2. runMode[r] \notin TurnModes
      BY <1>1, <2>1, <2>2 DEF Turns, RunsDoNotOverlap, InProgress, TurnModes
    <3>3. runMode[r] \in {"parallel", "manual"}
      BY <1>1, <2>1, <3>2 DEF AllModes, TurnModes
    <3>4. QED
      BY <3>1, <3>3 DEF EndOf
  <2>3. QED
    BY <1>2, <2>1, <2>2
<1>7. QED
  BY <1>3, <1>4, <1>5, <1>6 DEF Turns

\* A request that begins its run at once, in a mode in which it may.
LEMMA BeginKeepsTurns ==
  ASSUME ManagerInv, ModesMet, Turns, NEW r \in Runs, NEW m, Requested(r, m),
         phase[r] = "none", phase' = [phase EXCEPT ![r] = "waiting"],
         m \notin TurnModes => running' = running \/ m = "restart",
         m \in TurnModes => m = mode /\ running = NoRun /\ running' = r
  PROVE  Turns'
<1>1. /\ \A x \in Runs : phase'[x] = IF x = r THEN "waiting" ELSE phase[x]
      /\ \A x \in Runs : runMode'[x] = IF x = r THEN m ELSE runMode[x]
  BY DEF ManagerInv, TypeOK, Requested
<1>2. m \in TurnModes =>
        /\ \A x \in Runs : ~(phase[x] = "waiting" /\ runMode[x] \in TurnModes)
        /\ \A x \in Runs : phase[x] # "queued"
  BY NobodysTurn DEF Turns, InProgress
<1>3. RunsDoNotOverlap'
  BY <1>1, <1>2 DEF Turns, RunsDoNotOverlap, InProgress, TurnModes
<1>4. QueuedAreDriven'
  <2>1. SUFFICES ASSUME NEW x \in Runs, phase'[x] = "queued"
                 PROVE  \E w \in Runs : phase'[w] = "waiting" /\ runMode'[w] = "queued"
    BY DEF QueuedAreDriven, InProgress
  <2>2. PICK w \in Runs : phase[w] = "waiting" /\ runMode[w] = "queued"
    BY <1>1, <2>1 DEF Turns, QueuedAreDriven, InProgress
  <2>3. QED
    BY <1>1, <2>2
<1>5. QueueIsFifo'
  <2>1. SUFFICES ASSUME NEW x \in Runs, NEW y \in Runs, x < y,
                        runMode'[x] = "queued", runMode'[y] = "queued",
                        phase'[y] \notin {"none", "queued"}, phase'[x] = "queued"
                 PROVE  FALSE
    BY DEF QueueIsFifo
  <2>2. x # r /\ phase[x] = "queued"
    BY <1>1, <2>1
  <2>3. y # r
    BY <1>1, <1>2, <2>1, <2>2 DEF TurnModes
  <2>4. QED
    BY <1>1, <2>1, <2>2, <2>3 DEF Turns, QueueIsFifo
<1>6. TurnIsTracked'
  <2>1. SUFFICES ASSUME \A q \in Runs : runMode'[q] # "restart",
                        NEW x \in Runs, phase'[x] = "waiting", runMode'[x] \in TurnModes
                 PROVE  running' = x
    BY DEF TurnIsTracked, InProgress, TurnModes
  <2>2. CASE x = r
    BY <1>1, <2>1, <2>2
  <2>3. CASE x # r
    <3>1. m # "restart" /\ \A q \in Runs : runMode[q] # "restart"
      BY <1>1, <2>1 DEF ManagerInv, RunShape
    <3>2. phase[x] = "waiting" /\ runMode[x] \in TurnModes
      BY <1>1, <2>1, <2>3
    <3>3. running = x /\ m \notin TurnModes
      BY <1>2, <3>1, <3>2 DEF Turns, TurnIsTracked, InProgress, TurnModes
    <3>4. QED
      BY <3>1, <3>3
  <2>4. QED
    BY <2>2, <2>3
<1>7. QED
  BY <1>3, <1>4, <1>5, <1>6 DEF Turns

\* A trigger.
LEMMA TriggerKeepsTurns ==
  ASSUME ManagerInv, ModesMet, Turns, NEW r \in Runs, Trigger(r)
  PROVE  Turns'
<1>1. /\ Requested(r, mode) /\ phase[r] = "none" /\ mode \in AllModes /\ Outcomes(r)
      /\ \A x \in Runs : runMode'[x] = IF x = r THEN mode ELSE runMode[x]
      /\ \A x \in Runs : x > r => phase[x] = "none"
  <2>1. Requested(r, mode) /\ phase[r] = "none" /\ mode \in AllModes /\ Outcomes(r)
    BY TriggerOutcomes
  <2>2. r = nextRun /\ nextRun \in Nat
    BY <2>1 DEF Requested, ManagerInv, TypeOK
  <2>3. \A x \in Runs : x > r => phase[x] = "none"
    BY <2>2, RunsArePositive DEF ManagerInv, RunShape
  <2>4. QED
    BY <2>1, <2>3 DEF Requested, ManagerInv, TypeOK
\* The run does not begin, and nothing else changes.
<1>2. ASSUME NEW p \in {"skipped", "queued"}, phase' = [phase EXCEPT ![r] = p],
             p = "queued" => mode = "queued" /\ running # NoRun,
             p = "skipped" => mode = "single", running' = running
      PROVE  Turns'
  <2>1. \A x \in Runs : phase'[x] = IF x = r THEN p ELSE phase[x]
    BY <1>2 DEF ManagerInv, TypeOK
  <2>2. RunsDoNotOverlap'
    BY <1>1, <1>2, <2>1 DEF Turns, RunsDoNotOverlap, InProgress
  <2>3. QueuedAreDriven'
    <3>1. SUFFICES ASSUME NEW x \in Runs, phase'[x] = "queued"
                   PROVE  \E w \in Runs : phase[w] = "waiting" /\ runMode[w] = "queued"
      BY <1>1, <1>2, <2>1 DEF QueuedAreDriven, InProgress
    <3>2. CASE x # r
      BY <2>1, <3>1, <3>2 DEF Turns, QueuedAreDriven, InProgress
    <3>3. CASE x = r
      <4>1. /\ running \in Runs /\ phase[running] = "waiting"
            /\ runMode[running] \in {"single", "restart", "queued"}
        BY <1>2, <2>1, <3>1, <3>3 DEF ManagerInv, TrackedRun, TypeOK, InProgress
      <4>2. mode = "queued"
        BY <1>2, <2>1, <3>1, <3>3
      <4>3. QED
        BY <4>1, <4>2, ModesBefore DEF TurnModes
    <3>4. QED
      BY <3>2, <3>3
  <2>4. QueueIsFifo'
    <3>1. SUFFICES ASSUME NEW x \in Runs, NEW y \in Runs, x < y,
                          runMode'[x] = "queued", runMode'[y] = "queued",
                          phase'[y] \notin {"none", "queued"}, phase'[x] = "queued"
                   PROVE  FALSE
      BY DEF QueueIsFifo
    <3>2. x # r /\ y # r
      BY <1>1, <1>2, <2>1, <3>1, RunsArePositive
    <3>3. QED
      BY <1>1, <2>1, <3>1, <3>2 DEF Turns, QueueIsFifo
  <2>5. TurnIsTracked'
    <3>1. \A x \in Runs : InProgress(x)' => x # r /\ InProgress(x)
      BY <1>2, <2>1 DEF InProgress
    <3>2. (\A x \in Runs : runMode'[x] # "restart") =>
            \A x \in Runs : runMode[x] # "restart"
      BY <1>1 DEF ManagerInv, RunShape
    <3>3. QED
      BY <1>1, <1>2, <3>1, <3>2 DEF Turns, TurnIsTracked
  <2>6. QED
    BY <2>2, <2>3, <2>4, <2>5 DEF Turns
\* The guard does not hold: the finally block follows at once.
<1>3. ASSUME mode \in {"parallel", "restart"} \/ running = NoRun, EndOf(r, mode)
      PROVE  Turns'
  <2>1. mode \in TurnModes =>
          /\ \A x \in Runs : ~(phase[x] = "waiting" /\ runMode[x] \in TurnModes)
          /\ \A x \in Runs : phase[x] # "queued"
    BY <1>3, NobodysTurn DEF Turns, InProgress, TurnModes
  <2>2. \A x \in Runs : phase'[x] = IF x = r THEN "ended" ELSE phase[x]
    BY <1>1, <1>3, <2>1 DEF EndOf, TurnModes
  <2>3. RunsDoNotOverlap'
    BY <1>1, <2>2 DEF Turns, RunsDoNotOverlap, InProgress
  <2>4. QueuedAreDriven'
    BY <1>1, <2>2 DEF Turns, QueuedAreDriven, InProgress
  <2>5. QueueIsFifo'
    <3>1. SUFFICES ASSUME NEW x \in Runs, NEW y \in Runs, x < y,
                          runMode'[x] = "queued", runMode'[y] = "queued",
                          phase'[y] \notin {"none", "queued"}, phase'[x] = "queued"
                   PROVE  FALSE
      BY DEF QueueIsFifo
    <3>2. x # r /\ phase[x] = "queued"
      BY <2>2, <3>1
    <3>3. y # r
      BY <1>1, <2>1, <3>1, <3>2 DEF TurnModes
    <3>4. QED
      BY <1>1, <2>2, <3>1, <3>2, <3>3 DEF Turns, QueueIsFifo
  <2>6. TurnIsTracked'
    <3>1. SUFFICES ASSUME \A q \in Runs : runMode'[q] # "restart",
                          NEW x \in Runs, phase'[x] = "waiting", runMode'[x] \in TurnModes
                   PROVE  running' = x
      BY DEF TurnIsTracked, InProgress, TurnModes
    <3>2. x # r /\ phase[x] = "waiting" /\ runMode[x] \in TurnModes
      BY <1>1, <2>2, <3>1
    <3>3. mode # "restart" /\ \A q \in Runs : runMode[q] # "restart"
      BY <1>1, <3>1 DEF ManagerInv, RunShape
    <3>4. mode \notin TurnModes /\ running = x
      BY <2>1, <3>2, <3>3 DEF Turns, TurnIsTracked, InProgress, TurnModes
    <3>5. mode = "parallel"
      BY <1>1, <3>3, <3>4 DEF AllModes, TurnModes
    <3>6. QED
      BY <1>3, <3>4, <3>5 DEF EndOf
  <2>7. QED
    BY <2>3, <2>4, <2>5, <2>6 DEF Turns
\* The guard holds.
<1>4. ASSUME mode \in {"parallel", "restart"} \/ running = NoRun,
             phase' = [phase EXCEPT ![r] = "waiting"],
             running' = (IF mode = "parallel" THEN running ELSE r)
      PROVE  Turns'
  BY <1>1, <1>4, BeginKeepsTurns DEF AllModes, TurnModes
<1>5. QED
  BY <1>1, <1>2, <1>3, <1>4 DEF Outcomes

LEMMA TurnsInit == Init => ModesMet /\ Turns
<1> SUFFICES ASSUME Init PROVE ModesMet /\ Turns
  OBVIOUS
<1>1. ModesMet
  BY DEF Init, ModesMet
<1>2. Turns
  BY DEF Init, Turns, RunsDoNotOverlap, QueuedAreDriven, QueueIsFifo, TurnIsTracked,
         InProgress
<1>3. QED
  BY <1>1, <1>2

LEMMA TurnsStep ==
  ASSUME ManagerInv, ModesMet, Turns, [Next]_vars
  PROVE  Turns'
<1>1. ASSUME NEW r \in Runs, Trigger(r) PROVE Turns'
  BY <1>1, TriggerKeepsTurns
<1>2. ASSUME NEW r \in Runs, RunThen(r) PROVE Turns'
  <2>1. phase[r] = "none" /\ Requested(r, "manual")
    BY <1>2, RunsArePositive DEF RunThen, Requested, ManagerInv, RunShape, TypeOK
  <2>2. phase' = [phase EXCEPT ![r] = "waiting"] /\ running' = running
    BY <1>2 DEF RunThen
  <2>3. QED
    BY <2>1, <2>2, BeginKeepsTurns DEF TurnModes
<1>3. ASSUME NEW r \in Runs, ActionDone(r) \/ ActionThrows(r) PROVE Turns'
  <2>1. InProgress(r) /\ runMode' = runMode
    BY <1>3 DEF ActionDone, ActionThrows, InProgress
  <2>2. CASE Finish(r, runMode[r])
    <3>1. /\ FinishTypes /\ QueueHolds /\ phase[r] # "queued"
          /\ runMode[r] \in AllModes \cup {"manual"}
      BY <2>1 DEF ManagerInv, RunShape, TypeOK, FinishTypes, InProgress
    <3>2. EndOf(r, runMode[r])
      BY <2>2, <3>1, FinishEnds
    <3>3. QED
      BY <2>1, <3>2, EndKeepsTurns
  <2>3. CASE UNCHANGED <<phase, running>>
    BY <2>1, <2>3, SameTurns
  <2>4. QED
    BY <1>3, <2>2, <2>3 DEF ActionDone, ActionThrows
<1>4. CASE \/ \E m \in EditModes : Upsert(m)
           \/ Remove \/ Stop \/ UNCHANGED vars
  BY <1>4, ConfigStep, SameTurns DEF ManagerInv
<1>5. QED
  BY <1>1, <1>2, <1>3, <1>4 DEF Next

\* Runs take their turns, for every program and number of triggers, as long as the
\* mode is not edited from restart to single or queued, nor from single to queued:
\* triggered runs of single and queued do not overlap, a queued run waits for one in
\* progress that will begin it, and in the order of the triggers.
THEOREM RunsInTurnCorrect == EditsKeepOrder => (Spec => []RunsInTurn)
<1> SUFFICES ASSUME EditsKeepOrder PROVE Spec => []RunsInTurn
  OBVIOUS
<1>1. Init => ModesMet /\ Turns
  BY TurnsInit
<1>2. ManagerInv /\ ModesMet /\ Turns /\ [Next]_vars => (ModesMet /\ Turns)'
  BY TurnsStep, ModesMetStep DEF ManagerInv
<1>3. ManagerInv /\ ModesMet /\ Turns => RunsInTurn
  <2>1. ManagerInv => TrackedRunIsAlive
    BY DEF ManagerInv, TrackedRun, TrackedRunIsAlive
  <2>2. ManagerInv => (QueueIsDriven <=> QueuedAreDriven)
    BY DrivenByPhase DEF ManagerInv, TypeOK
  <2>3. QED
    BY <2>1, <2>2 DEF RunsInTurn, Turns
<1>4. QED
  BY <1>1, <1>2, <1>3, ManagerCorrect, PTL DEF Spec

-----------------------------------------------------------------------------
(* What an aborted run still does.                                          *)

\* Of AutomationManager: an aborted run stays where it is until it ends.
LEMMA AbortedStays ==
  ASSUME ManagerInv, [Next]_vars, NEW x \in Runs, aborted[x]
  PROVE  pc'[x] = pc[x] /\ aborted'[x]
<1>1. TypeOK /\ RunShape /\ QueueHolds /\ phase[x] \in {"waiting", "ended"}
  BY DEF ManagerInv, RunShape
<1>2. ASSUME NEW r \in Runs, NEW m, EndOf(r, m) PROVE pc'[x] = pc[x]
  BY <1>1, <1>2 DEF EndOf
<1>3. ASSUME NEW r \in Runs, Trigger(r) PROVE pc'[x] = pc[x] /\ aborted'[x]
  <2>1. Outcomes(r) /\ r # x
    BY <1>3, TriggerOutcomes
  <2>2. aborted'[x]
    BY <2>1 DEF Outcomes
  <2>3. pc'[x] = pc[x]
    BY <2>1, <1>1, <1>2 DEF Outcomes, TypeOK
  <2>4. QED
    BY <2>2, <2>3
<1>4. ASSUME NEW r \in Runs, RunThen(r) PROVE pc'[x] = pc[x] /\ aborted'[x]
  <2>1. r # x
    BY <1>1, <1>4, RunsArePositive DEF RunThen, RunShape, TypeOK
  <2>2. QED
    BY <2>1, <1>1, <1>4 DEF RunThen, TypeOK
<1>5. ASSUME NEW r \in Runs, ActionDone(r) \/ ActionThrows(r)
      PROVE  pc'[x] = pc[x] /\ aborted'[x]
  <2>1. phase[r] = "waiting" /\ aborted' = aborted
    BY <1>5 DEF ActionDone, ActionThrows
  <2>2. CASE Finish(r, runMode[r])
    <3>1. /\ FinishTypes /\ phase[r] # "queued"
          /\ runMode[r] \in AllModes \cup {"manual"}
      BY <1>1, <2>1 DEF RunShape, TypeOK, FinishTypes
    <3>2. EndOf(r, runMode[r])
      BY <1>1, <2>2, <3>1, FinishEnds
    <3>3. QED
      BY <1>2, <2>1, <3>2
  <2>3. CASE ~aborted[r] /\ pc' = [pc EXCEPT ![r] = @ + 1]
    BY <1>1, <2>1, <2>3 DEF TypeOK
  <2>4. QED
    BY <1>5, <2>2, <2>3 DEF ActionDone, ActionThrows
<1>6. CASE \/ \E m \in EditModes : Upsert(m)
           \/ Remove \/ Stop \/ UNCHANGED vars
  BY <1>1, <1>6, ConfigStep
<1>7. QED
  BY <1>3, <1>4, <1>5, <1>6 DEF Next

-----------------------------------------------------------------------------
(* Of ActionRunner: the blocks of a run.                                    *)

\* None of the blocks is a script's.
NoScriptIn(fs) == \A i \in 1..Len(fs) : fs[i].script = Inside!NoScript

LEMMA StackBlocks ==
  ASSUME frames \in Seq(Inside!Frames)
  PROVE  /\ Inside!ScriptStack = {} <=> NoScriptIn(frames)
         /\ frames # <<>> => /\ Len(frames) \in Nat \ {0} /\ Inside!Top \in Inside!Frames
                             /\ frames[1] \in Inside!Frames
<1>1. DOMAIN frames = 1..Len(frames) /\ Len(frames) \in Nat
  OBVIOUS
<1>2. Inside!ScriptStack = {} <=> NoScriptIn(frames)
  BY <1>1 DEF Inside!ScriptStack, NoScriptIn
<1>3. frames # <<>> => Len(frames) # 0
  OBVIOUS
<1>4. QED
  BY <1>1, <1>2, <1>3 DEF Inside!Top

\* A block of actions, and the script's if it is one.
LEMMA BlockTyped ==
  ASSUME NEW body \in Seq(Steps)
  PROVE  /\ Inside!Block(body) \in Inside!Frames
         /\ Inside!Block(body).script = Inside!NoScript
         /\ \A n \in Inside!Scripts :
              [Inside!Block(body) EXCEPT !.script = n] \in Inside!Frames
<1> DEFINE b == Inside!Block(body)
<1>1. b = [rest |-> body, body |-> body, again |-> 0, script |-> Inside!NoScript,
           asks |-> FALSE]
  BY DEF Inside!Block
<1>2. b \in Inside!Frames /\ b.script = Inside!NoScript
  BY <1>1 DEF Inside!Frames
<1> HIDE DEF b
<1>3. ASSUME NEW n \in Inside!Scripts
      PROVE  [b EXCEPT !.script = n] \in Inside!Frames
  BY <1>2 DEF Inside!Frames
<1>4. QED
  BY <1>2, <1>3 DEF b

\* The current block advances, in the same scripts.
LEMMA AdvancedTyped ==
  ASSUME frames \in Seq(Inside!Frames), frames # <<>>, Inside!Top.rest # <<>>
  PROVE  /\ Inside!Advanced \in Seq(Inside!Frames)
         /\ Len(Inside!Advanced) = Len(frames)
         /\ \A i \in 1..Len(frames) : Inside!Advanced[i].script = frames[i].script
<1> DEFINE n == Len(frames)
           b == [frames[n] EXCEPT !.rest = Tail(frames[n].rest)]
<1>1. n \in 1..Len(frames) /\ frames[n] \in Inside!Frames /\ frames[n].rest # <<>>
  BY StackBlocks DEF Inside!Top
<1>2. frames[n].rest \in Seq(Steps)
  BY <1>1 DEF Inside!Frames
<1>3. Tail(frames[n].rest) \in Seq(Steps)
  BY <1>1, <1>2
<1>4. b \in Inside!Frames /\ b.script = frames[n].script
  BY <1>1, <1>3 DEF Inside!Frames
<1>5. Inside!Advanced = [frames EXCEPT ![n] = b]
  BY DEF Inside!Advanced
<1> HIDE DEF n, b
<1>6. QED
  BY <1>1, <1>4, <1>5, ExceptSeq

\* The steps that go on keep the types, as the end of the run does.
LEMMA GoOnTyped ==
  ASSUME Inside!TypeOK, state = "running",
         NEW fs \in Seq(Inside!Frames), fs # <<>>, Inside!GoOn(fs)
  PROVE  Inside!TypeOK'
BY DEF Inside!TypeOK, Inside!GoOn

LEMMA EndTyped ==
  ASSUME Inside!TypeOK, state = "running", Inside!End
  PROVE  Inside!TypeOK'
BY DEF Inside!TypeOK, Inside!End

\* The run goes on in some blocks: those of an aborted run are outside of scripts,
\* once it is.
GoesOn == \E fs \in Seq(Inside!Frames) :
            fs # <<>> /\ Inside!GoOn(fs) /\ (Inside!Aborting => NoScriptIn(fs))

\* An action of the innermost block is begun and awaited.
Waits ==
  /\ ~Inside!Aborting /\ awaiting = <<>> /\ Inside!Top.rest # <<>>
  /\ \E s \in Steps : awaiting' = <<s>>
  /\ UNCHANGED <<state, manual, frames, runAborted, scripts>>

LEMMA FailEnds ==
  ASSUME Inside!TypeOK, frames # <<>>, Inside!Top.rest # <<>>, Inside!Fail
  PROVE  Inside!End \/ GoesOn
<1>1. frames \in Seq(Inside!Frames)
  BY DEF Inside!TypeOK
<1>2. CASE manual
  BY <1>2 DEF Inside!Fail
<1>3. CASE ~manual
  <2> DEFINE first == IF Len(frames) = 1 THEN Inside!Advanced[1] ELSE frames[1]
  <2>1. Len(frames) \in Nat \ {0} /\ frames[1] \in Inside!Frames
    BY <1>1, StackBlocks
  <2>2. /\ Inside!Advanced[1] \in Inside!Frames
        /\ Inside!Advanced[1].script = frames[1].script
    BY <1>1, <2>1, AdvancedTyped
  <2>3. first \in Inside!Frames /\ first.script = frames[1].script
    BY <2>1, <2>2
  <2>4. Inside!GoOn(<<first>>)
    BY <1>3 DEF Inside!Fail
  <2>5. Inside!Aborting => frames[1].script = Inside!NoScript
    BY <1>1, <2>1, StackBlocks DEF Inside!Aborting, Inside!HasSignal, NoScriptIn
  <2> HIDE DEF first
  <2>6. /\ <<first>> \in Seq(Inside!Frames) /\ <<first>> # <<>>
        /\ Inside!Aborting => NoScriptIn(<<first>>)
    BY <2>3, <2>5 DEF NoScriptIn
  <2>7. QED
    BY <2>4, <2>6 DEF GoesOn
<1>4. QED
  BY <1>2, <1>3

\* Going on in blocks that are typed, of an aborted run outside of scripts.
LEMMA GoesOnWith ==
  ASSUME NEW fs \in Seq(Inside!Frames), fs # <<>>, Inside!GoOn(fs),
         Inside!Aborting => NoScriptIn(fs)
  PROVE  GoesOn
BY DEF GoesOn

\* Call, BlockEnds, Done and Throws: a step of the run ends it, goes on in some
\* blocks or begins to wait, and an aborted run begins nothing.
LEMMA CallGoes ==
  ASSUME Inside!TypeOK, Inside!Call
  PROVE  state = "running" /\ (Inside!End \/ GoesOn \/ Waits)
<1> DEFINE s == Head(Inside!Top.rest)
<1>1. /\ state = "running" /\ awaiting = <<>> /\ Inside!Top.rest # <<>>
      /\ frames # <<>> /\ frames \in Seq(Inside!Frames)
      /\ scripts \in [Inside!Scripts -> Seq(Steps)]
  BY DEF Inside!Call, Inside!TypeOK
<1>2. s \in Steps
  <2>1. Inside!Top.rest \in Seq(Steps)
    BY <1>1, StackBlocks DEF Inside!Frames
  <2>2. QED
    BY <1>1, <2>1
<1>3. Does[s] \in Inside!ActionType
  BY <1>2, AutomationsAssumption
<1>4. Inside!Advanced \in Seq(Inside!Frames) /\ Inside!Advanced # <<>>
  BY <1>1, AdvancedTyped, StackBlocks
<1>5. ASSUME ~Inside!Aborting, NEW f \in Inside!Frames,
             Inside!GoOn(Append(Inside!Advanced, f))
      PROVE  GoesOn
  <2>1. /\ Append(Inside!Advanced, f) \in Seq(Inside!Frames)
        /\ Append(Inside!Advanced, f) # <<>>
    BY <1>4
  <2>2. QED
    BY <1>5, <2>1, GoesOnWith
<1>6. ASSUME ~Inside!Aborting, Inside!GoOn(Inside!Advanced) PROVE GoesOn
  BY <1>4, <1>6, GoesOnWith
<1> HIDE DEF s
<1>7. CASE Inside!Aborting
  BY <1>7 DEF Inside!Call, s
<1>8. CASE ~Inside!Aborting /\ Does[s].op = "stop"
  BY <1>8 DEF Inside!Call, s
<1>9. CASE ~Inside!Aborting /\ Does[s].op = "script"
  <2>1. Inside!EnterScript(Inside!Advanced, Does[s].script)
    BY <1>9 DEF Inside!Call, Inside!Leaves, s
  <2> DEFINE n == Does[s].script
             f == [Inside!Block(scripts[n]) EXCEPT !.script = n]
  <2>2. n \in Inside!Scripts
    BY <1>3, <1>9 DEF Inside!ActionType
  <2>3. f \in Inside!Frames
    BY <1>1, <2>2, BlockTyped
  <2>4. Inside!GoOn(Inside!Advanced) \/ Inside!GoOn(Append(Inside!Advanced, f))
    BY <2>1 DEF Inside!EnterScript
  <2>5. QED
    BY <1>1, <1>5, <1>6, <1>9, <2>3, <2>4
<1>10. CASE ~Inside!Aborting /\ Does[s].op \in Inside!Leaves \ {"stop"}
  <2>1. /\ awaiting' = <<s>>
        /\ UNCHANGED <<state, manual, frames, runAborted, scripts>>
    BY <1>10 DEF Inside!Call, Inside!Leaves, s
  <2>2. QED
    BY <1>1, <1>2, <1>10, <2>1 DEF Waits
<1>11. CASE /\ ~Inside!Aborting
            /\ Inside!EnterBranch(Inside!Advanced, Does[s])
  <2>1. PICK i \in DOMAIN Does[s].arms :
          Inside!GoOn(Append(Inside!Advanced, Inside!Block(Does[s].arms[i])))
    BY <1>11 DEF Inside!EnterBranch
  <2>2. Does[s].arms \in Seq(Seq(Steps))
    BY <1>3 DEF Inside!ActionType
  <2>3. Does[s].arms[i] \in Seq(Steps)
    BY <2>1, <2>2
  <2>4. QED
    BY <1>1, <1>5, <1>11, <2>1, <2>3, BlockTyped
<1>12. CASE /\ ~Inside!Aborting
            /\ Inside!EnterLoop(Inside!Advanced, Does[s])
  <2> DEFINE count == IF Does[s].times > MaxIterations THEN MaxIterations
                      ELSE Does[s].times
             body  == Inside!Block(Does[s].arms[1])
             again == IF Does[s].op = "repeat" THEN count - 1 ELSE Does[s].times - 1
             loop  == [body EXCEPT !.asks = Does[s].op = "while", !.again = again]
  <2>1. Inside!GoOn(Append(Inside!Advanced, loop)) \/ Inside!GoOn(Inside!Advanced)
    BY <1>12 DEF Inside!EnterLoop
  <2>2. body \in Inside!Frames
    <3>1. Does[s].op \in {"repeat", "while"}
      BY <1>12 DEF Inside!EnterLoop
    <3>2. Does[s].arms \in Seq(Seq(Steps)) /\ Does[s].arms # <<>>
      BY <1>3, <3>1 DEF Inside!ActionType
    <3>3. Does[s].arms[1] \in Seq(Steps)
      BY <3>2
    <3>4. QED
      BY <3>3, BlockTyped
  <2>3. again \in Int
    <3>1. Does[s].times \in Int /\ MaxIterations \in Int
      BY <1>3, AutomationsAssumption DEF Inside!ActionType
    <3>2. QED
      BY <3>1
  <2> HIDE DEF body, again
  <2>4. loop \in Inside!Frames
    BY <2>2, <2>3 DEF Inside!Frames
  <2>5. QED
    BY <1>1, <1>5, <1>6, <1>12, <2>1, <2>4
<1>13. CASE Inside!Fail
  BY <1>1, <1>13, FailEnds
<1>14. QED
  BY <1>1, <1>7, <1>8, <1>9, <1>10, <1>11, <1>12, <1>13 DEF Inside!Call, s

LEMMA BlockEndsGoes ==
  ASSUME Inside!TypeOK, Inside!BlockEnds
  PROVE  state = "running" /\ (Inside!End \/ GoesOn)
<1> DEFINE n == Len(frames)
           outer == SubSeq(frames, 1, n - 1)
<1>1. state = "running" /\ frames # <<>> /\ frames \in Seq(Inside!Frames)
  BY DEF Inside!BlockEnds, Inside!TypeOK
<1>2. n \in Nat \ {0} /\ Inside!Top \in Inside!Frames
  BY <1>1, StackBlocks
<1>3. /\ outer \in Seq(Inside!Frames) /\ Len(outer) = n - 1
      /\ \A i \in 1..Len(outer) : outer[i] = frames[i]
  BY <1>1, <1>2
<1>4. Inside!Aborting => NoScriptIn(outer)
  <2>1. Inside!Aborting => NoScriptIn(frames)
    BY <1>1, StackBlocks DEF Inside!Aborting, Inside!HasSignal
  <2>2. QED
    BY <1>2, <1>3, <2>1 DEF NoScriptIn
<1> DEFINE less == Inside!Top.again - 1
           again == [Inside!Top EXCEPT !.rest = Inside!Top.body, !.again = less]
<1>5. again \in Inside!Frames
  <2>1. Inside!Top.body \in Seq(Steps) /\ less \in Int
    BY <1>2 DEF Inside!Frames
  <2> HIDE DEF less
  <2>2. QED
    BY <1>2, <2>1 DEF Inside!Frames
<1> HIDE DEF outer, n, less, again
<1>6. CASE outer = <<>>
  BY <1>1, <1>6 DEF Inside!BlockEnds, outer, n
<1>7. CASE outer # <<>> /\ Inside!GoOn(outer)
  BY <1>1, <1>3, <1>4, <1>7, GoesOnWith
<1>8. CASE ~Inside!Aborting /\ Inside!GoOn(Append(outer, again))
  <2>1. Append(outer, again) \in Seq(Inside!Frames) /\ Append(outer, again) # <<>>
    BY <1>3, <1>5
  <2>2. QED
    BY <1>1, <1>8, <2>1, GoesOnWith
<1>9. QED
  BY <1>6, <1>7, <1>8 DEF Inside!BlockEnds, outer, again, less, n

LEMMA DoneGoes ==
  ASSUME Inside!TypeOK, Inside!Done \/ Inside!Throws
  PROVE  state = "running" /\ (Inside!End \/ GoesOn)
<1>1. /\ frames # <<>> /\ Inside!Top.rest # <<>> /\ state = "running"
      /\ frames \in Seq(Inside!Frames)
  BY DEF Inside!Done, Inside!Throws, Inside!TypeOK
<1>2. CASE Inside!Done
  <2>1. /\ Inside!Advanced \in Seq(Inside!Frames) /\ Inside!Advanced # <<>>
        /\ NoScriptIn(frames) => NoScriptIn(Inside!Advanced)
    BY <1>1, AdvancedTyped, StackBlocks DEF NoScriptIn
  <2>2. Inside!Aborting => NoScriptIn(frames)
    BY <1>1, StackBlocks DEF Inside!Aborting, Inside!HasSignal
  <2>3. QED
    BY <1>1, <1>2, <2>1, <2>2, GoesOnWith DEF Inside!Done
<1>3. CASE Inside!Throws
  BY <1>1, <1>3, FailEnds DEF Inside!Throws
<1>4. QED
  BY <1>2, <1>3

LEMMA RunGoes ==
  ASSUME Inside!TypeOK, Inside!Run
  PROVE  state = "running" /\ (Inside!End \/ GoesOn \/ Waits)
BY CallGoes, BlockEndsGoes, DoneGoes DEF Inside!Run

-----------------------------------------------------------------------------
(* Of ActionRunner: the invariant and the property.                          *)

LEMMA InsideInit == Inside!Init => Inside!TypeOK
<1> SUFFICES ASSUME Inside!Init PROVE Inside!TypeOK
  OBVIOUS
<1>1. scripts \in [Inside!Scripts -> Seq(Steps)]
  <2>1. scripts \in [Inside!Scripts -> UNION {ScriptVersions[n] : n \in Inside!Scripts}]
    BY DEF Inside!Init
  <2>2. \A n \in Inside!Scripts : ScriptVersions[n] \subseteq Seq(Steps)
    BY AutomationsAssumption DEF Inside!Scripts
  <2>3. UNION {ScriptVersions[n] : n \in Inside!Scripts} \subseteq Seq(Steps)
    BY <2>2
  <2>4. QED
    BY <2>1, <2>3
<1>2. frames \in Seq(Inside!Frames)
  BY DEF Inside!Init
<1>3. QED
  BY <1>1, <1>2 DEF Inside!Init, Inside!TypeOK

\* What the environment does leaves the blocks of a run in progress alone.
LEMMA EnvironmentTyped ==
  ASSUME Inside!TypeOK,
         \/ Inside!Abort
         \/ \E m \in BOOLEAN : Inside!Begin(m)
         \/ \E n \in Inside!Scripts : \E body \in ScriptVersions[n] \cup {<<>>} :
              Inside!EditScript(n, body)
         \/ UNCHANGED insideVars
  PROVE  Inside!TypeOK' /\ (runAborted => UNCHANGED <<frames, awaiting>>)
<1>1. CASE Inside!Abort
  BY <1>1 DEF Inside!TypeOK, Inside!Abort, Inside!Top
<1>2. ASSUME NEW m \in BOOLEAN, Inside!Begin(m)
      PROVE  Inside!TypeOK' /\ ~runAborted
  <2>1. Inside!Block(Program) \in Inside!Frames
    BY AutomationsAssumption, BlockTyped
  <2>2. <<Inside!Block(Program)>> \in Seq(Inside!Frames)
    BY <2>1
  <2>3. /\ state = "none" /\ state' = "running" /\ manual' = m /\ frames = <<>>
        /\ frames' = <<Inside!Block(Program)>> /\ awaiting = <<>>
        /\ UNCHANGED <<awaiting, runAborted, scripts>>
    BY <1>2 DEF Inside!Begin, Inside!TypeOK
  <2>4. QED
    BY <2>2, <2>3 DEF Inside!TypeOK
<1>3. ASSUME NEW n \in Inside!Scripts, NEW body \in ScriptVersions[n] \cup {<<>>},
             Inside!EditScript(n, body)
      PROVE  Inside!TypeOK' /\ UNCHANGED <<frames, awaiting>>
  <2>1. body \in Seq(Steps)
    <3>1. ScriptVersions[n] \subseteq Seq(Steps) /\ <<>> \in Seq(Steps)
      BY AutomationsAssumption DEF Inside!Scripts
    <3>2. QED
      BY <3>1
  <2>2. scripts' \in [Inside!Scripts -> Seq(Steps)]
    BY <1>3, <2>1 DEF Inside!EditScript, Inside!TypeOK
  <2>3. QED
    BY <1>3, <2>2 DEF Inside!EditScript, Inside!TypeOK, Inside!Top
<1>4. CASE UNCHANGED insideVars
  BY <1>4 DEF Inside!TypeOK, Inside!Top, insideVars
<1>5. QED
  BY <1>1, <1>2, <1>3, <1>4

\* A step of the run keeps the types, and of one that is aborted and outside of
\* scripts it stays outside and begins no action.
LEMMA RunStep ==
  ASSUME Inside!TypeOK, Inside!Run
  PROVE  /\ Inside!TypeOK'
         /\ Inside!Aborting => Inside!ScriptStack' = {} /\ awaiting' = <<>>
<1>1. state = "running" /\ frames \in Seq(Inside!Frames)
  BY RunGoes DEF Inside!TypeOK
<1>2. CASE Inside!End
  <2>1. frames' = <<>> /\ awaiting' = <<>>
    BY <1>2 DEF Inside!End
  <2>2. Inside!ScriptStack' = {}
    BY <2>1 DEF Inside!ScriptStack
  <2>3. QED
    BY <1>1, <1>2, <2>1, <2>2, EndTyped
<1>3. CASE GoesOn
  <2>1. PICK fs \in Seq(Inside!Frames) :
          fs # <<>> /\ Inside!GoOn(fs) /\ (Inside!Aborting => NoScriptIn(fs))
    BY <1>3 DEF GoesOn
  <2>2. frames' = fs /\ awaiting' = <<>>
    BY <2>1 DEF Inside!GoOn
  <2>3. NoScriptIn(fs) => Inside!ScriptStack' = {}
    BY <2>2 DEF Inside!ScriptStack, NoScriptIn
  <2>4. QED
    BY <1>1, <2>1, <2>2, <2>3, GoOnTyped
<1>4. CASE Waits
  <2>1. frames # <<>> /\ Inside!Top' = Inside!Top
    BY <1>1, <1>4 DEF Waits, Inside!TypeOK, Inside!Top
  <2>2. QED
    BY <1>4, <2>1 DEF Waits, Inside!TypeOK
<1>5. QED
  BY <1>2, <1>3, <1>4, RunGoes

LEMMA InsideStepKeeps ==
  ASSUME Inside!TypeOK, [Inside!Next]_insideVars
  PROVE  /\ Inside!TypeOK'
         /\ runAborted /\ Inside!ScriptStack = {} =>
              Inside!ScriptStack' = {} /\ awaiting' \in {awaiting, <<>>}
<1>1. CASE Inside!Run
  <2>1. runAborted /\ Inside!ScriptStack = {} => Inside!Aborting
    BY DEF Inside!TypeOK, Inside!Aborting, Inside!HasSignal
  <2>2. QED
    BY <1>1, <2>1, RunStep
<1>2. CASE \/ Inside!Abort
           \/ \E m \in BOOLEAN : Inside!Begin(m)
           \/ \E n \in Inside!Scripts : \E body \in ScriptVersions[n] \cup {<<>>} :
                Inside!EditScript(n, body)
           \/ UNCHANGED insideVars
  <2>1. Inside!TypeOK' /\ (runAborted => UNCHANGED <<frames, awaiting>>)
    BY <1>2, EnvironmentTyped
  <2>2. UNCHANGED frames => Inside!ScriptStack' = Inside!ScriptStack
    BY DEF Inside!ScriptStack
  <2>3. QED
    BY <2>1, <2>2
<1>3. QED
  BY <1>1, <1>2 DEF Inside!Next

\* An aborted run starts nothing more, except that it finishes the scripts it is
\* in: for any automation, however its blocks, loops and scripts are nested.
THEOREM AbortStopsCorrect == AutomationsSpec => AbortStops
<1> DEFINE I == ManagerInv /\ Inside!TypeOK
           N == [Next]_vars /\ [Inside!Next]_insideVars
           A == \A r \in Runs : aborted[r] => pc'[r] = pc[r] /\ aborted'[r]
           B == runAborted /\ Inside!ScriptStack = {} =>
                   /\ Inside!ScriptStack' = {}
                   /\ awaiting' \in {awaiting, <<>>}
<1>1. AutomationsInit => I
  BY ManagerInit, InsideInit DEF AutomationsInit
<1>2. [AutomationsNext]_allVars => N
  BY DEF AutomationsNext, ManagerStep, InsideStep, TriggersStep, DiscoveryStep, allVars,
         insideVars
<1>3. I /\ N => I'
  BY ManagerStepInv, InsideStepKeeps
<1>4. I /\ N => [A]_vars
  BY AbortedStays
<1>5. I /\ N => [B]_insideVars
  BY InsideStepKeeps
<1>6. AbortStops <=> [][A]_vars /\ [][B]_insideVars
  BY DEF AbortStops, AbortedRunStops, Inside!AbortedRunWindsUp, Inside!vars, insideVars
<1> HIDE DEF I, N, A, B
<1>7. QED
  BY <1>1, <1>2, <1>3, <1>4, <1>5, <1>6, PTL DEF AutomationsSpec

-----------------------------------------------------------------------------
(* Of AutomationTriggers: timers follow the list.                            *)

\* What setupAutomationTriggers adds to the timers `pending`: for each schedule of
\* ids one timer, whose handle is kept.
Added(pending, track, ids, configs) ==
  /\ DOMAIN tracked' = Ids /\ \A id \in Ids : track[id] \subseteq tracked'[id]
  /\ pending \subseteq timers'
  /\ \A t \in timers' \ pending :
       /\ t = Triggers!Timer(t.id, t.kind, t.config, t.handle)
       /\ t.id \in ids /\ t.kind \in Triggers!TimerKinds \cap configs[t.id]
       /\ t.config = configs[t.id] /\ t.handle \in tracked'[t.id]
  /\ \A s, t \in timers' \ pending : s.id = t.id /\ s.kind = t.kind => s = t
  /\ \A id \in ids : \A kind \in Triggers!TimerKinds \cap configs[id] :
       \E t \in timers' : t.id = id /\ t.kind = kind

LEMMA SetupAdds ==
  ASSUME NEW pending, NEW track, NEW ids \in SUBSET Ids, NEW configs, NEW n,
         Triggers!Setup(pending, track, ids, configs, n)
  PROVE  Added(pending, track, ids, configs)
<1> DEFINE wanted == Triggers!Wanted(ids, configs)
           number == Triggers!Handles(wanted, n)
           new(w) == Triggers!Timer(w[1], w[2], configs[w[1]], number[w])
<1>1. /\ timers' = pending \cup {new(w) : w \in wanted}
      /\ tracked' = [id \in Ids |-> track[id] \cup {number[w] : w \in {v \in wanted : v[1] = id}}]
  BY DEF Triggers!Setup
<1> HIDE DEF number
<1>2. ASSUME NEW w \in wanted
      PROVE  /\ w[1] \in ids /\ w[2] \in Triggers!TimerKinds \cap configs[w[1]]
             /\ w = <<w[1], w[2]>>
  <2>1. w \in ids \X Triggers!TimerKinds /\ w[2] \in configs[w[1]]
    BY DEF Triggers!Wanted
  <2>2. QED
    BY <2>1
<1>3. \A id \in ids : \A kind \in Triggers!TimerKinds \cap configs[id] : <<id, kind>> \in wanted
  BY DEF Triggers!Wanted
<1> HIDE DEF wanted
<1>4. DOMAIN tracked' = Ids /\ \A id \in Ids : track[id] \subseteq tracked'[id]
  BY <1>1
<1>5. \A w \in wanted : number[w] \in tracked'[w[1]]
  BY <1>1, <1>2
<1>6. \A w \in wanted : /\ new(w).id = w[1] /\ new(w).kind = w[2]
                        /\ new(w).config = configs[w[1]] /\ new(w).handle = number[w]
                        /\ new(w) \in timers'
  BY <1>1 DEF Triggers!Timer
<1>7. \A t \in timers' \ pending : \E w \in wanted : t = new(w)
  BY <1>1
<1> HIDE DEF new
<1>8. ASSUME NEW t \in timers' \ pending
      PROVE  /\ t = Triggers!Timer(t.id, t.kind, t.config, t.handle)
             /\ t.id \in ids /\ t.kind \in Triggers!TimerKinds \cap configs[t.id]
             /\ t.config = configs[t.id] /\ t.handle \in tracked'[t.id]
  <2>1. PICK w \in wanted : t = new(w)
    BY <1>7
  <2>2. t = Triggers!Timer(t.id, t.kind, t.config, t.handle)
    BY <1>6, <2>1 DEF new
  <2>3. QED
    BY <1>2, <1>5, <1>6, <2>1, <2>2
<1>9. ASSUME NEW s \in timers' \ pending, NEW t \in timers' \ pending,
             s.id = t.id, s.kind = t.kind
      PROVE  s = t
  <2>1. PICK v \in wanted : s = new(v)
    BY <1>7
  <2>2. PICK w \in wanted : t = new(w)
    BY <1>7
  <2>3. v = w
    BY <1>2, <1>6, <1>9, <2>1, <2>2
  <2>4. QED
    BY <2>1, <2>2, <2>3
<1>10. \A id \in ids : \A kind \in Triggers!TimerKinds \cap configs[id] :
         \E t \in timers' : t.id = id /\ t.kind = kind
  <2>1. ASSUME NEW id \in ids, NEW kind \in Triggers!TimerKinds \cap configs[id]
        PROVE  \E t \in timers' : t.id = id /\ t.kind = kind
    <3>1. <<id, kind>> \in wanted
      BY <1>3
    <3>2. new(<<id, kind>>) \in timers' /\ new(<<id, kind>>).id = id
          /\ new(<<id, kind>>).kind = kind
      BY <1>6, <3>1
    <3>3. QED
      BY <3>2
  <2>2. QED
    BY <2>1
<1>11. QED
  BY <1>1, <1>4, <1>8, <1>9, <1>10 DEF Added

\* No configuration is Absent, and none of its kinds is a schedule.
LEMMA KindsOfConfigs ==
  /\ Triggers!Absent \cap Triggers!TimerKinds = {}
  /\ Triggers!Absent \notin Kinds
BY AutomationsAssumption DEF Triggers!Absent, Triggers!TimerKinds

LEMMA TriggersInitInv == Triggers!Init => Triggers!TriggersInv
BY DEF Triggers!Init, Triggers!TriggersInv

\* Clearing the tracked timers of some automations clears all of them.
LEMMA NotTrackedAre ==
  ASSUME Triggers!TriggersInv, NEW ids
  PROVE  Triggers!NotTracked(ids) = {t \in timers : t.id \notin ids}
BY DEF Triggers!TriggersInv, Triggers!NotTracked

\* The timers that stay when those of ids are cleared.
Kept(pending, track, ids) ==
  /\ ids \subseteq Ids /\ pending \subseteq timers
  /\ \A t \in pending : t.id \notin ids /\ tracked[t.id] \subseteq track[t.id]
  /\ \A id \in Ids \ ids :
       /\ list'[id] = list[id]
       /\ \A kind \in {"every", "cron"} \cap list[id] :
            \E t \in pending : t.id = id /\ t.kind = kind

\* After setting up ids, whose old timers are gone, TriggersInv holds again.
LEMMA AddedInv ==
  ASSUME Triggers!TriggersInv, NEW ids, NEW pending, NEW track,
         Kept(pending, track, ids), Added(pending, track, ids, list'), armed' = TRUE,
         list' \in [Ids -> Kinds \cup {Triggers!Absent}]
  PROVE  Triggers!TriggersInv'
<1>1. ASSUME NEW t \in timers'
      PROVE  /\ t = Triggers!Timer(t.id, t.kind, t.config, t.handle)
             /\ t.id \in Ids /\ t.kind \in Triggers!TimerKinds
             /\ t.config = list'[t.id] /\ t.kind \in list'[t.id]
             /\ t.handle \in tracked'[t.id]
             /\ t \in pending <=> t.id \notin ids
  <2>1. CASE t \in pending
    <3>1. /\ t \in timers /\ t.id \in Ids \ ids
          /\ tracked[t.id] \subseteq tracked'[t.id]
      BY <2>1 DEF Triggers!TriggersInv, Added, Kept
    <3>2. QED
      BY <2>1, <3>1 DEF Triggers!TriggersInv, Kept
  <2>2. CASE t \notin pending
    BY <2>2 DEF Added, Kept
  <2>3. QED
    BY <2>1, <2>2
<1>2. ASSUME NEW s \in timers', NEW t \in timers', s.id = t.id, s.kind = t.kind
      PROVE  s = t
  <2>1. s \in pending <=> t \in pending
    BY <1>1, <1>2
  <2>2. CASE s \in pending
    BY <1>2, <2>1, <2>2 DEF Triggers!TriggersInv, Kept
  <2>3. CASE s \notin pending
    BY <1>2, <2>1, <2>3 DEF Added
  <2>4. QED
    BY <2>2, <2>3
<1>3. ASSUME NEW id \in Ids, NEW kind \in {"every", "cron"} \cap list'[id]
      PROVE  \E t \in timers' : t.id = id /\ t.kind = kind
  <2>1. CASE id \in ids
    BY <1>3, <2>1 DEF Added, Triggers!TimerKinds
  <2>2. CASE id \notin ids
    BY <1>3, <2>2 DEF Added, Kept
  <2>3. QED
    BY <2>1, <2>2
<1>4. DOMAIN tracked' = Ids
  BY DEF Added
<1>5. QED
  BY <1>1, <1>2, <1>3, <1>4 DEF Triggers!TriggersInv

LEMMA StartInv ==
  ASSUME Triggers!TriggersInv, Triggers!Start
  PROVE  Triggers!TriggersInv'
<1>1. /\ armed' = TRUE /\ list' = list /\ timers = {}
      /\ Triggers!Listed \in SUBSET Ids
      /\ list \in [Ids -> Kinds \cup {Triggers!Absent}]
  BY DEF Triggers!Start, Triggers!TriggersInv, Triggers!Listed
<1>2. Added(timers, tracked, Triggers!Listed, list')
  BY <1>1, SetupAdds DEF Triggers!Start
<1>3. ASSUME NEW id \in Ids \ Triggers!Listed
      PROVE  list[id] \cap {"every", "cron"} = {}
  BY KindsOfConfigs DEF Triggers!Listed, Triggers!TimerKinds
<1>4. Kept(timers, tracked, Triggers!Listed)
  BY <1>1, <1>3 DEF Kept
<1>5. QED
  BY <1>1, <1>2, <1>4, AddedInv

LEMMA UpsertInv ==
  ASSUME Triggers!TriggersInv, NEW id \in Ids, NEW config \in Kinds,
         Triggers!Upsert(id, config)
  PROVE  Triggers!TriggersInv'
<1> DEFINE known == IF list[id] = Triggers!Absent THEN {} ELSE {id}
<1>1. /\ list' = [list EXCEPT ![id] = config] /\ armed' = armed
      /\ list \in [Ids -> Kinds \cup {Triggers!Absent}]
      /\ list' \in [Ids -> Kinds \cup {Triggers!Absent}]
      /\ \A x \in Ids \ {id} : list'[x] = list[x]
  BY DEF Triggers!Upsert, Triggers!TriggersInv
<1>2. Triggers!NotTracked(known) = {t \in timers : t.id # id}
  <2>1. CASE list[id] = Triggers!Absent
    <3>1. \A t \in timers : t.id # id
      BY <2>1, KindsOfConfigs DEF Triggers!TriggersInv
    <3>2. QED
      BY <2>1, <3>1, NotTrackedAre
  <2>2. CASE list[id] # Triggers!Absent
    BY <2>2, NotTrackedAre
  <2>3. QED
    BY <2>1, <2>2
<1>3. /\ DOMAIN Triggers!Forget(known) = Ids
      /\ \A x \in Ids \ {id} : Triggers!Forget(known)[x] = tracked[x]
  BY DEF Triggers!Forget
<1>4. CASE armed
  <2> DEFINE pending == Triggers!NotTracked(known)
             track == Triggers!Forget(known)
  <2>1. Added(pending, track, {id}, list')
    <3>1. Triggers!Setup(pending, track, {id}, list', made)
      BY <1>1, <1>4 DEF Triggers!Upsert
    <3>2. QED
      BY <3>1, SetupAdds
  <2>2. pending \in SUBSET timers /\ \A t \in pending : t.id \in Ids \ {id}
    BY <1>2 DEF Triggers!TriggersInv
  <2>3. ASSUME NEW x \in Ids \ {id}, NEW kind \in {"every", "cron"} \cap list[x]
        PROVE  \E t \in pending : t.id = x /\ t.kind = kind
    <3>1. PICK t \in timers : t.id = x /\ t.kind = kind
      BY <1>4, <2>3 DEF Triggers!TriggersInv
    <3>2. t \in pending
      BY <1>2, <3>1
    <3>3. QED
      BY <3>1, <3>2
  <2>4. armed' = TRUE
    BY <1>1, <1>4 DEF Triggers!TriggersInv
  <2> HIDE DEF pending, known
  <2>5. Kept(pending, track, {id})
    BY <1>1, <1>3, <2>2, <2>3 DEF Kept
  <2> HIDE DEF track
  <2>6. QED
    BY <1>1, <2>1, <2>4, <2>5, AddedInv
<1>5. CASE ~armed
  <2>1. timers = {} /\ timers' = {} /\ tracked' = Triggers!Forget(known)
    BY <1>2, <1>5 DEF Triggers!Upsert, Triggers!TriggersInv
  <2>2. QED
    BY <1>1, <1>3, <1>5, <2>1 DEF Triggers!TriggersInv
<1>6. QED
  BY <1>4, <1>5

LEMMA ClearInv ==
  ASSUME Triggers!TriggersInv,
         Triggers!Stop \/ \E id \in Ids : Triggers!Remove(id)
  PROVE  Triggers!TriggersInv'
<1>1. CASE Triggers!Stop
  <2>1. timers' = {} /\ armed' = FALSE /\ list' = list
    BY <1>1, NotTrackedAre DEF Triggers!Stop, Triggers!TriggersInv
  <2>2. DOMAIN tracked' = Ids
    BY <1>1 DEF Triggers!Stop, Triggers!Forget
  <2>3. QED
    BY <2>1, <2>2 DEF Triggers!TriggersInv
<1>2. ASSUME NEW id \in Ids, Triggers!Remove(id) PROVE Triggers!TriggersInv'
  <2>1. /\ timers' = {t \in timers : t.id # id} /\ armed' = armed
        /\ list' \in [Ids -> Kinds \cup {Triggers!Absent}]
        /\ list'[id] = Triggers!Absent
        /\ \A x \in Ids \ {id} : list'[x] = list[x]
    BY <1>2, NotTrackedAre DEF Triggers!Remove, Triggers!TriggersInv
  <2>2. DOMAIN tracked' = Ids /\ \A x \in Ids \ {id} : tracked'[x] = tracked[x]
    BY <1>2 DEF Triggers!Remove, Triggers!Forget
  <2>3. ASSUME armed, NEW x \in Ids, NEW kind \in {"every", "cron"} \cap list'[x]
        PROVE  \E t \in timers' : t.id = x /\ t.kind = kind
    <3>1. x # id
      BY <2>1, <2>3, KindsOfConfigs DEF Triggers!TimerKinds
    <3>2. PICK t \in timers : t.id = x /\ t.kind = kind
      BY <2>1, <2>3, <3>1 DEF Triggers!TriggersInv
    <3>3. QED
      BY <2>1, <3>1, <3>2
  <2>4. ASSUME NEW t \in timers'
        PROVE  /\ t \in timers /\ t.id \in Ids \ {id}
               /\ list'[t.id] = list[t.id] /\ tracked'[t.id] = tracked[t.id]
    BY <2>1, <2>2 DEF Triggers!TriggersInv
  <2>5. QED
    BY <2>1, <2>2, <2>3, <2>4 DEF Triggers!TriggersInv
<1>3. QED
  BY <1>1, <1>2

\* A cron timer is replaced by the next one of its chain.
LEMMA CronInv ==
  ASSUME Triggers!TriggersInv, NEW t \in timers, Triggers!CronFires(t)
  PROVE  Triggers!TriggersInv'
<1> DEFINE next == [t EXCEPT !.handle = made + 1]
<1>1. /\ t = Triggers!Timer(t.id, t.kind, t.config, t.handle) /\ t.id \in Ids
      /\ t.kind \in Triggers!TimerKinds /\ armed /\ t.kind \in list[t.id]
      /\ t.config = list[t.id]
  BY DEF Triggers!TriggersInv
<1>2. t.id \in Triggers!Listed
  BY <1>1, KindsOfConfigs DEF Triggers!Listed
<1>3. /\ timers' = (timers \ {t}) \cup {next} /\ armed' = armed /\ list' = list
      /\ tracked' = [tracked EXCEPT ![t.id] = @ \cup {made + 1}]
  BY <1>2 DEF Triggers!CronFires
<1>4. /\ next = Triggers!Timer(t.id, t.kind, t.config, made + 1)
      /\ next.id = t.id /\ next.kind = t.kind /\ next.config = t.config
      /\ next.handle = made + 1
  BY <1>1 DEF Triggers!Timer
<1> HIDE DEF next
<1>5. /\ DOMAIN tracked' = Ids /\ made + 1 \in tracked'[t.id]
      /\ \A id \in Ids : tracked[id] \subseteq tracked'[id]
  BY <1>1, <1>3 DEF Triggers!TriggersInv
<1>6. ASSUME NEW s \in timers'
      PROVE  /\ s = Triggers!Timer(s.id, s.kind, s.config, s.handle)
             /\ s.id \in Ids /\ s.kind \in Triggers!TimerKinds
             /\ s.config = list[s.id] /\ s.kind \in list[s.id]
             /\ s.handle \in tracked'[s.id]
  <2>1. CASE s = next
    BY <1>1, <1>4, <1>5, <2>1
  <2>2. CASE s \in timers
    BY <1>5, <2>2 DEF Triggers!TriggersInv
  <2>3. QED
    BY <1>3, <2>1, <2>2
<1>7. ASSUME NEW r \in timers', NEW s \in timers', r.id = s.id, r.kind = s.kind
      PROVE  r = s
  <2>1. \A x \in timers : x.id = t.id /\ x.kind = t.kind => x = t
    BY DEF Triggers!TriggersInv
  <2>2. CASE r \in timers /\ s \in timers
    BY <1>7, <2>2 DEF Triggers!TriggersInv
  <2>3. QED
    BY <1>3, <1>4, <1>7, <2>1, <2>2
<1>8. ASSUME NEW id \in Ids, NEW kind \in {"every", "cron"} \cap list[id]
      PROVE  \E s \in timers' : s.id = id /\ s.kind = kind
  <2>1. PICK s \in timers : s.id = id /\ s.kind = kind
    BY <1>1 DEF Triggers!TriggersInv
  <2>2. QED
    BY <1>3, <1>4, <2>1
<1>9. QED
  BY <1>1, <1>3, <1>5, <1>6, <1>7, <1>8 DEF Triggers!TriggersInv

LEMMA TriggersStepInv ==
  ASSUME Triggers!TriggersInv, [Triggers!Next]_triggersVars
  PROVE  Triggers!TriggersInv'
<1>1. CASE Triggers!Edit
  BY <1>1, StartInv, ClearInv, UpsertInv DEF Triggers!Edit
<1>2. ASSUME NEW t \in timers, Triggers!TimerFires(t) PROVE Triggers!TriggersInv'
  <2>1. /\ timers' = (IF t.kind = "every" THEN timers ELSE timers \ {t})
        /\ UNCHANGED <<list, armed, tracked>> /\ t.kind \in {"startup", "every"}
    BY <1>2 DEF Triggers!TimerFires
  <2>2. CASE t.kind = "every"
    BY <2>1, <2>2 DEF Triggers!TriggersInv
  <2>3. CASE t.kind = "startup"
    <3>1. timers' = timers \ {t}
      BY <2>1, <2>3
    <3>2. ASSUME armed, NEW id \in Ids, NEW kind \in {"every", "cron"} \cap list[id]
          PROVE  \E s \in timers' : s.id = id /\ s.kind = kind
      <4>1. PICK s \in timers : s.id = id /\ s.kind = kind
        BY <3>2 DEF Triggers!TriggersInv
      <4>2. s # t
        BY <2>3, <4>1
      <4>3. QED
        BY <3>1, <4>1, <4>2
    <3>3. QED
      BY <2>1, <3>1, <3>2 DEF Triggers!TriggersInv
  <2>4. QED
    BY <2>1, <2>2, <2>3
<1>3. CASE Triggers!StateChanged \/ Triggers!Tick \/ UNCHANGED triggersVars
  <2>1. UNCHANGED <<list, armed, timers, tracked>>
    BY <1>3 DEF Triggers!StateChanged, Triggers!Tick, triggersVars
  <2>2. QED
    BY <2>1 DEF Triggers!TriggersInv
<1>4. QED
  BY <1>1, <1>2, <1>3, CronInv DEF Triggers!Next

\* A schedule that is listed has one timer, and no other has any.
LEMMA OneTimerEach ==
  ASSUME Triggers!TriggersInv
  PROVE  Triggers!TimersFollowTheList
<1>1. ASSUME armed, NEW id \in Ids, NEW kind \in {"every", "cron"}
      PROVE  LET own == {t \in timers : t.id = id /\ t.kind = kind}
             IN IF kind \in list[id] THEN \E t \in timers : own = {t} ELSE own = {}
  <2> DEFINE own == {t \in timers : t.id = id /\ t.kind = kind}
  <2>1. CASE kind \in list[id]
    <3>1. PICK t \in timers : t.id = id /\ t.kind = kind
      BY <1>1, <2>1 DEF Triggers!TriggersInv
    <3>2. own = {t}
      BY <3>1 DEF Triggers!TriggersInv
    <3>3. QED
      BY <2>1, <3>2
  <2>2. CASE kind \notin list[id]
    <3>1. own = {}
      BY <2>2 DEF Triggers!TriggersInv
    <3>2. QED
      BY <2>2, <3>1
  <2>3. QED
    BY <2>1, <2>2
<1>2. \A t \in timers :
        /\ armed
        /\ t.config = list[t.id] /\ t.kind \in list[t.id]
        /\ t.handle \in tracked[t.id]
  BY DEF Triggers!TriggersInv
<1>3. QED
  BY <1>1, <1>2 DEF Triggers!TimersFollowTheList

\* While the manager runs, each schedule of a listed automation has exactly one
\* pending timer, made for the listed configuration, and every pending timer can be
\* cleared: for any automations, edits, starts and stops, and however many timers.
THEOREM TimersFollowTheListCorrect == AutomationsSpec => []TimersFollowTheList
<1>1. AutomationsInit => Triggers!TriggersInv
  BY TriggersInitInv DEF AutomationsInit
<1>2. [AutomationsNext]_allVars => [Triggers!Next]_triggersVars
  BY DEF AutomationsNext, ManagerStep, InsideStep, TriggersStep, DiscoveryStep, allVars,
         triggersVars
<1>3. Triggers!TriggersInv /\ [Triggers!Next]_triggersVars => Triggers!TriggersInv'
  BY TriggersStepInv
<1>4. Triggers!TriggersInv => TimersFollowTheList
  BY OneTimerEach DEF TimersFollowTheList
<1>5. QED
  BY <1>1, <1>2, <1>3, <1>4, PTL DEF AutomationsSpec

-----------------------------------------------------------------------------
(* Sequences, place by place.                                              *)

LEMMA TailShifts ==
  ASSUME NEW M, NEW q \in Seq(M), q # <<>>
  PROVE  /\ Head(q) = q[1] /\ Head(q) \in M /\ Len(q) \in Nat \ {0}
         /\ Tail(q) \in Seq(M) /\ Len(Tail(q)) = Len(q) - 1
         /\ \A i \in 1..Len(Tail(q)) : Tail(q)[i] = q[i + 1] /\ i + 1 \in 1..Len(q)
         /\ \A i \in 2..Len(q) : q[i] = Tail(q)[i - 1] /\ i - 1 \in 1..Len(Tail(q))
         /\ DOMAIN q = 1..Len(q) /\ DOMAIN Tail(q) = 1..Len(Tail(q))
<1>1. /\ Head(q) = q[1] /\ Head(q) \in M /\ Len(q) \in Nat \ {0}
      /\ Tail(q) \in Seq(M) /\ Len(Tail(q)) = Len(q) - 1
      /\ DOMAIN q = 1..Len(q) /\ DOMAIN Tail(q) = 1..Len(Tail(q))
  OBVIOUS
<1>2. \A i \in 1..Len(q) - 1 : Tail(q)[i] = q[i + 1]
  OBVIOUS
<1>3. \A i \in 1..Len(q) - 1 : i + 1 \in 1..Len(q)
  BY <1>1
<1>4. ASSUME NEW i \in 2..Len(q)
      PROVE  q[i] = Tail(q)[i - 1] /\ i - 1 \in 1..Len(q) - 1
  <2>1. i - 1 \in 1..Len(q) - 1 /\ (i - 1) + 1 = i
    BY <1>1
  <2>2. QED
    BY <1>2, <2>1
<1>5. QED
  BY <1>1, <1>2, <1>3, <1>4

LEMMA AppendExtends ==
  ASSUME NEW M, NEW q \in Seq(M), NEW m \in M
  PROVE  /\ Append(q, m) \in Seq(M) /\ Len(q) \in Nat /\ Len(Append(q, m)) = Len(q) + 1
         /\ Append(q, m)[Len(q) + 1] = m
         /\ \A i \in 1..Len(q) : Append(q, m)[i] = q[i] /\ q[i] \in M
         /\ DOMAIN q = 1..Len(q) /\ DOMAIN Append(q, m) = 1..Len(Append(q, m))
OBVIOUS

-----------------------------------------------------------------------------
(* The messages that are published together.                               *)

\* The order in which a finite set is published lists it.
LEMMA SetToSeqLists ==
  ASSUME NEW S, IsFiniteSet(S)
  PROVE  /\ Discovery!SetToSeq(S) \in Seq(S)
         /\ \A x \in S : \E i \in 1..Len(Discovery!SetToSeq(S)) : Discovery!SetToSeq(S)[i] = x
<1> DEFINE n == Cardinality(S)
           P(f) == \A a, b \in DOMAIN f : f[a] = f[b] => a = b
           q == CHOOSE f \in [1..n -> S] : P(f)
<1>1. n \in Nat /\ ExistsBijection(1..n, S)
  BY FS_CardinalityType
<1>2. \E f \in [1..n -> S] : P(f)
  <2>1. PICK f : f \in Bijection(1..n, S)
    BY <1>1 DEF ExistsBijection
  <2>2. f \in Injection(1..n, S)
    BY <2>1 DEF Bijection
  <2>3. f \in [1..n -> S] /\ P(f)
    BY <2>2 DEF Injection, IsInjective
  <2>4. QED
    BY <2>3
<1>3. q \in [1..n -> S] /\ P(q)
  BY <1>2
<1>4. Discovery!SetToSeq(S) = q
  BY DEF Discovery!SetToSeq, Discovery!IsInjective, Discovery!Cardinality, Cardinality
<1> HIDE DEF q, n
<1>5. q \in Injection(1..n, S)
  BY <1>3 DEF Injection, IsInjective
<1>6. Cardinality(1..n) = n
  BY <1>1, FS_Interval
<1>7. q \in Surjection(1..n, S)
  BY <1>5, <1>6, FS_Injection DEF n
<1>8. \A x \in S : \E i \in 1..n : q[i] = x
  BY <1>7 DEF Surjection
<1>9. q \in Seq(S) /\ Len(q) = n
  BY <1>1, <1>3
<1>10. QED
  BY <1>4, <1>8, <1>9

\* The configurations of some entities, in any order.
LEMMA ConfigsList ==
  ASSUME NEW S \in SUBSET Entities, NEW names \in [Entities -> Discovery!Names]
  PROVE  LET q == Discovery!Configs(S, names)
         IN /\ q \in Seq({Discovery!Message("config", e, names[e]) : e \in S})
            /\ \A e \in S : \E i \in 1..Len(q) :
                 q[i] = Discovery!Message("config", e, names[e])
<1> DEFINE msg(e) == Discovery!Message("config", e, names[e])
           T == {msg(e) : e \in S}
           f == [e \in S |-> msg(e)]
<1>1. IsFiniteSet(S)
  <2>1. IsFiniteSet(Entities)
    BY DiscoveryAssumption DEF Discovery!IsFiniteSet, IsFiniteSet
  <2>2. QED
    BY <2>1, FS_Subset
<1>2. f \in Surjection(S, T)
  BY DEF Surjection
<1>3. IsFiniteSet(T)
  BY <1>1, <1>2, FS_Surjection
<1>4. Discovery!Configs(S, names) = Discovery!SetToSeq(T)
  BY DEF Discovery!Configs
<1> HIDE DEF f
<1>5. QED
  BY <1>3, <1>4, SetToSeqLists

\* Behind what was sent before, messages that agree on a topic settle it, and those
\* that do not mention it leave it as it was.
LEMMA SettlesAppended ==
  ASSUME NEW M, NEW box \in Seq(M), NEW msgs \in Seq(M),
         NEW kept, NEW topic, NEW e, NEW x,
         \A i \in 1..Len(msgs) :
           Discovery!Carries(msgs[i], topic, e) => msgs[i].payload = x,
         (\A i \in 1..Len(msgs) : ~Discovery!Carries(msgs[i], topic, e)) =>
           Discovery!Settles(box, kept, topic, e, x)
  PROVE  Discovery!Settles(box \o msgs, kept, topic, e, x)
<1> DEFINE all == box \o msgs
           b == Len(box)
           C(m) == Discovery!Carries(m, topic, e)
<1>1. /\ b \in Nat /\ Len(msgs) \in Nat /\ Len(all) = b + Len(msgs)
      /\ \A i \in 1..b : all[i] = box[i]
      /\ \A i \in b + 1..b + Len(msgs) : all[i] = msgs[i - b]
  OBVIOUS
<1>2. \A k \in 1..Len(msgs) : all[b + k] = msgs[k] /\ b + k \in 1..Len(all)
  BY <1>1
<1> HIDE DEF all, b
<1>3. ASSUME NEW i \in 1..Len(all), C(all[i]), \A j \in i + 1..Len(all) : ~C(all[j])
      PROVE  all[i].payload = x
  <2>1. CASE i > b
    <3>1. i - b \in 1..Len(msgs) /\ all[i] = msgs[i - b]
      BY <1>1, <2>1
    <3>2. QED
      BY <1>3, <3>1
  <2>2. CASE i <= b
    <3>1. \A k \in 1..Len(msgs) : b + k \in i + 1..Len(all)
      BY <1>1, <2>2
    <3>2. \A k \in 1..Len(msgs) : ~C(msgs[k])
      BY <1>2, <1>3, <3>1
    <3>3. i \in 1..b /\ all[i] = box[i]
      BY <1>1, <2>2
    <3>4. \A j \in i + 1..b : ~C(box[j])
      <4>1. \A j \in i + 1..b : j \in i + 1..Len(all) /\ j \in 1..b
        BY <1>1, <3>3
      <4>2. QED
        BY <1>1, <1>3, <4>1
    <3>5. QED
      BY <1>3, <3>2, <3>3, <3>4 DEF Discovery!Settles, b
  <2>3. QED
    BY <1>1, <2>1, <2>2
<1>4. ASSUME \A i \in 1..Len(all) : ~C(all[i])
      PROVE  kept = x
  <2>1. \A k \in 1..Len(msgs) : ~C(msgs[k])
    BY <1>2, <1>4
  <2>2. \A i \in 1..b : ~C(box[i])
    BY <1>1, <1>4
  <2>3. QED
    BY <2>1, <2>2 DEF Discovery!Settles, b
<1>5. Discovery!Settles(all, kept, topic, e, x)
  BY <1>3, <1>4 DEF Discovery!Settles
<1>6. QED
  BY <1>5 DEF all

\* The first message arrives.
LEMMA SettlesDelivered ==
  ASSUME NEW M, NEW box \in Seq(M), box # <<>>,
         NEW kept, NEW topic, NEW e, NEW x,
         Discovery!Settles(box, kept, topic, e, x)
  PROVE  Discovery!Settles(Tail(box),
           IF Discovery!Carries(Head(box), topic, e) THEN Head(box).payload ELSE kept,
           topic, e, x)
<1> DEFINE rest == Tail(box)
           C(m) == Discovery!Carries(m, topic, e)
           now_ == IF C(box[1]) THEN box[1].payload ELSE kept
<1>1. /\ Len(box) \in Nat \ {0} /\ Len(rest) = Len(box) - 1 /\ Head(box) = box[1]
      /\ \A i \in 1..Len(rest) : rest[i] = box[i + 1] /\ i + 1 \in 1..Len(box)
  OBVIOUS
<1>2. ASSUME NEW i \in 1..Len(rest), C(rest[i]), \A j \in i + 1..Len(rest) : ~C(rest[j])
      PROVE  rest[i].payload = x
  <2>1. \A j \in i + 2..Len(box) : j - 1 \in i + 1..Len(rest) /\ rest[j - 1] = box[j]
    BY <1>1
  <2>2. \A j \in (i + 1) + 1..Len(box) : ~C(box[j])
    BY <1>1, <1>2, <2>1
  <2>3. QED
    BY <1>1, <1>2, <2>2 DEF Discovery!Settles
<1>3. ASSUME \A i \in 1..Len(rest) : ~C(rest[i])
      PROVE  now_ = x
  <2>1. \A j \in 2..Len(box) : j - 1 \in 1..Len(rest) /\ rest[j - 1] = box[j]
    BY <1>1
  <2>2. \A j \in 2..Len(box) : ~C(box[j])
    BY <1>3, <2>1
  <2>3. CASE C(box[1])
    <3>1. 1 \in 1..Len(box) /\ \A j \in 1 + 1..Len(box) : ~C(box[j])
      BY <1>1, <2>2
    <3>2. QED
      BY <2>3, <3>1 DEF Discovery!Settles
  <2>4. CASE ~C(box[1])
    <3>1. \A j \in 1..Len(box) : ~C(box[j])
      BY <1>1, <2>2, <2>4
    <3>2. QED
      BY <2>4, <3>1 DEF Discovery!Settles
  <2>5. QED
    BY <2>3, <2>4
<1> HIDE DEF rest, now_
<1>4. Discovery!Settles(rest, now_, topic, e, x)
  BY <1>2, <1>3 DEF Discovery!Settles
<1>5. QED
  BY <1>1, <1>4 DEF rest, now_

-----------------------------------------------------------------------------
(* What the bridge sends.                                                  *)

LEMMA MessagesTyped ==
  ASSUME NEW e \in Entities
  PROVE  /\ \A p \in Discovery!Names \cup {0} :
              /\ Discovery!Message("config", e, p) \in Discovery!Messages
              /\ \A t, d : Discovery!Carries(Discovery!Message("config", e, p), t, d)
                           <=> t = "config" /\ d = e
         /\ \A v \in Values :
              /\ Discovery!Message("state", e, v) \in Discovery!Messages
              /\ \A t, d : Discovery!Carries(Discovery!Message("state", e, v), t, d)
                           <=> t = "state" /\ d = e
BY DEF Discovery!Message, Discovery!Messages, Discovery!Carries

\* Before the configurations there is at most one state.
LEMMA PublishMessages ==
  ASSUME NEW S \in SUBSET Entities, NEW names \in [Entities -> Discovery!Names],
         NEW before \in Seq(Discovery!Messages)
  PROVE  LET msgs == before \o Discovery!Configs(S, names)
         IN /\ msgs \in Seq(Discovery!Messages)
            /\ \A i \in 1..Len(msgs) :
                 \/ \E j \in 1..Len(before) : msgs[i] = before[j]
                 \/ \E e \in S : msgs[i] = Discovery!Message("config", e, names[e])
            /\ \A j \in 1..Len(before) : \E i \in 1..Len(msgs) : msgs[i] = before[j]
            /\ \A e \in S : \E i \in 1..Len(msgs) :
                 msgs[i] = Discovery!Message("config", e, names[e])
<1> DEFINE q == Discovery!Configs(S, names)
           T == {Discovery!Message("config", e, names[e]) : e \in S}
           msgs == before \o q
           b == Len(before)
<1>1. /\ q \in Seq(T)
      /\ \A e \in S : \E i \in 1..Len(q) : q[i] = Discovery!Message("config", e, names[e])
  BY ConfigsList
<1>2. T \subseteq Discovery!Messages
  BY MessagesTyped
<1>3. \A i \in 1..Len(q) : q[i] \in T
  BY <1>1
<1>4. q \in Seq(Discovery!Messages)
  BY <1>1, <1>2
<1> HIDE DEF q
<1>5. /\ msgs \in Seq(Discovery!Messages)
      /\ b \in Nat /\ Len(q) \in Nat /\ Len(msgs) = b + Len(q)
      /\ \A i \in 1..b : msgs[i] = before[i]
      /\ \A i \in b + 1..b + Len(q) : msgs[i] = q[i - b]
  BY <1>4
<1>6. \A k \in 1..Len(q) : msgs[b + k] = q[k] /\ b + k \in 1..Len(msgs)
  BY <1>5
<1> HIDE DEF msgs, b
<1>7. ASSUME NEW i \in 1..Len(msgs)
      PROVE  \/ \E j \in 1..b : msgs[i] = before[j]
             \/ msgs[i] \in T
  <2>1. CASE i <= b
    BY <1>5, <2>1
  <2>2. CASE i > b
    <3>1. i - b \in 1..Len(q) /\ msgs[i] = q[i - b]
      BY <1>5, <2>2
    <3>2. QED
      BY <1>3, <3>1
  <2>3. QED
    BY <1>5, <2>1, <2>2
<1>8. \A j \in 1..b : j \in 1..Len(msgs)
  BY <1>5
<1>9. \A e \in S : \E i \in 1..Len(msgs) :
        msgs[i] = Discovery!Message("config", e, names[e])
  BY <1>1, <1>6
<1>10. QED
  BY <1>5, <1>7, <1>8, <1>9 DEF msgs, q, b

\* A topic that messages are sent for, if they agree, or of which none was lost
\* before, will hold what they say.
LEMMA SentSettles ==
  ASSUME NEW msgs \in Seq(Discovery!Messages), outbox \in Seq(Discovery!Messages),
         Discovery!Send(msgs), NEW kept, NEW topic, NEW e, NEW x,
         \A i \in 1..Len(msgs) :
           Discovery!Carries(msgs[i], topic, e) => msgs[i].payload = x,
         /\ \A i \in 1..Len(msgs) : ~Discovery!Carries(msgs[i], topic, e)
         /\ <<topic, e>> \notin lost
         => Discovery!Settles(outbox, kept, topic, e, x),
         <<topic, e>> \notin lost'
  PROVE  Discovery!Settles(outbox', kept, topic, e, x)
<1>1. outbox' = outbox \o msgs
  BY DEF Discovery!Send
<1>2. ASSUME \A i \in 1..Len(msgs) : ~Discovery!Carries(msgs[i], topic, e)
      PROVE  <<topic, e>> \notin lost
  <2>1. \A i \in DOMAIN msgs : Discovery!Key(msgs[i]) # <<topic, e>>
    <3>1. DOMAIN msgs = 1..Len(msgs)
      OBVIOUS
    <3>2. QED
      BY <1>2, <3>1 DEF Discovery!Key, Discovery!Carries
  <2>2. lost' = lost \ {Discovery!Key(msgs[i]) : i \in DOMAIN msgs}
    BY DEF Discovery!Send
  <2>3. QED
    BY <2>1, <2>2
<1>3. QED
  BY <1>1, <1>2, SettlesAppended

\* A topic that holds nothing, and for which nothing but removals is sent.
LEMMA UnannouncedSettles ==
  ASSUME NEW box, NEW kept, NEW e, kept = 0,
         \A i \in 1..Len(box) :
           Discovery!Carries(box[i], "config", e) => box[i].payload = 0
  PROVE  Discovery!Settles(box, kept, "config", e, 0)
BY DEF Discovery!Settles


-----------------------------------------------------------------------------
(* The handlers that announce entities.                                    *)

\* The states that a handler publishes before the configurations, and believes.
Believes(before) ==
  \/ before = <<>> /\ value' = value
  \/ \E d \in Entities \ Internal, v \in Values :
       before = <<Discovery!Message("state", d, v)>> /\ value' = [value EXCEPT ![d] = v]

\* A handler announces the entities S, for a reason each, under the names it knows.
Announces(before, S) ==
  /\ S \subseteq Entities /\ \A e \in S : Discovery!Reason(e)'
  /\ Discovery!Publish(before, S, shownName')
  /\ Believes(before)
  /\ stateReceived \subseteq stateReceived'
  /\ \A e \in Entities : shownName[e] > 1 => shownName'[e] > 1
  /\ shownName' \in [Entities -> Discovery!Names]
  /\ \A e \in Entities \ (S \cup Discovery!Hidden) :
       e \in Discovery!Renaming => e \in Discovery!Renaming'
  /\ UNCHANGED <<name, retained>>

LEMMA AnnouncesMessages ==
  ASSUME Discovery!TypeOK, NEW before, NEW S, Announces(before, S)
  PROVE  \E msgs \in Seq(Discovery!Messages) :
           /\ Discovery!Send(msgs)
           /\ \A i \in 1..Len(msgs) :
                \/ \E j \in 1..Len(before) : msgs[i] = before[j]
                \/ \E e \in S : msgs[i] = Discovery!Message("config", e, shownName'[e])
           /\ \A j \in 1..Len(before) : \E i \in 1..Len(msgs) : msgs[i] = before[j]
           /\ \A e \in S : \E i \in 1..Len(msgs) :
                msgs[i] = Discovery!Message("config", e, shownName'[e])
<1> DEFINE msgs == before \o Discovery!Configs(S, shownName')
<1>1. before \in Seq(Discovery!Messages)
  <2>1. <<>> \in Seq(Discovery!Messages)
    OBVIOUS
  <2>2. \A m \in Discovery!Messages : <<m>> \in Seq(Discovery!Messages)
    OBVIOUS
  <2>3. ASSUME NEW d \in Entities \ Internal, NEW v \in Values,
               before = <<Discovery!Message("state", d, v)>>
        PROVE  before \in Seq(Discovery!Messages)
    <3>1. Discovery!Message("state", d, v) \in Discovery!Messages
      BY MessagesTyped
    <3>2. QED
      BY <2>2, <2>3, <3>1
  <2>4. QED
    BY <2>1, <2>3 DEF Announces, Believes
<1>2. /\ S \in SUBSET Entities /\ shownName' \in [Entities -> Discovery!Names]
      /\ Discovery!Send(msgs)
  BY DEF Announces, Discovery!Publish
<1>3. /\ msgs \in Seq(Discovery!Messages)
      /\ \A i \in 1..Len(msgs) :
           \/ \E j \in 1..Len(before) : msgs[i] = before[j]
           \/ \E e \in S : msgs[i] = Discovery!Message("config", e, shownName'[e])
      /\ \A j \in 1..Len(before) : \E i \in 1..Len(msgs) : msgs[i] = before[j]
      /\ \A e \in S : \E i \in 1..Len(msgs) :
           msgs[i] = Discovery!Message("config", e, shownName'[e])
  BY <1>1, <1>2, PublishMessages
<1> HIDE DEF msgs
<1>4. QED
  BY <1>2, <1>3

\* Nothing is taken back that was a reason.
LEMMA ReasonsStay ==
  ASSUME NEW e \in Entities, Discovery!Reason(e),
         stateReceived \subseteq stateReceived',
         \A d \in Entities : shownName[d] > 1 => shownName'[d] > 1
  PROVE  Discovery!Reason(e)'
BY DEF Discovery!Reason

\* What a handler sends has a reason, and so has what it publishes.
LEMMA AnnouncesReasons ==
  ASSUME Discovery!TypeOK, Discovery!OnlyForAReason,
         NEW before, NEW S, Announces(before, S)
  PROVE  Discovery!OnlyForAReason'
<1>1. PICK msgs \in Seq(Discovery!Messages) :
        /\ Discovery!Send(msgs)
        /\ \A i \in 1..Len(msgs) :
             \/ \E j \in 1..Len(before) : msgs[i] = before[j]
             \/ \E e \in S : msgs[i] = Discovery!Message("config", e, shownName'[e])
  BY AnnouncesMessages
<1>2. \A e \in Entities : Discovery!Reason(e) => Discovery!Reason(e)'
  BY ReasonsStay DEF Announces
<1>3. ASSUME NEW e \in Entities, e \in discoveryPublished' \/ retained'.config[e] # 0
      PROVE  Discovery!Reason(e)'
  <2>1. e \in S \/ e \in discoveryPublished \/ retained.config[e] # 0
    BY <1>3 DEF Announces, Discovery!Publish
  <2>2. QED
    BY <1>2, <2>1 DEF Announces, Discovery!OnlyForAReason
<1>4. /\ outbox \in Seq(Discovery!Messages) /\ outbox' = outbox \o msgs
      /\ \A m \in Discovery!Messages : m.topic = "config" => m.entity \in Entities
  BY <1>1 DEF Discovery!Send, Discovery!TypeOK, Discovery!Messages, Discovery!Message
<1>5. ASSUME NEW i \in 1..Len(outbox'), NEW e, outbox'[i].entity = e,
             outbox'[i].topic = "config", outbox'[i].payload # 0
      PROVE  e \in Entities /\ Discovery!Reason(e)'
  <2>1. CASE i <= Len(outbox)
    <3>1. i \in 1..Len(outbox) /\ outbox'[i] = outbox[i] /\ outbox[i] \in Discovery!Messages
      BY <1>4, <2>1
    <3>2. Discovery!Reason(e) /\ e \in Entities
      BY <1>4, <1>5, <3>1 DEF Discovery!OnlyForAReason
    <3>3. QED
      BY <1>2, <3>1, <3>2
  <2>2. CASE i > Len(outbox)
    <3> DEFINE k == i - Len(outbox)
    <3>1. k \in 1..Len(msgs) /\ outbox'[i] = msgs[k]
      BY <1>4, <2>2
    <3>2. \A j \in 1..Len(before) : before[j].topic # "config"
      BY DEF Announces, Believes, Discovery!Message
    <3>3. PICK d \in S : msgs[k] = Discovery!Message("config", d, shownName'[d])
      BY <1>1, <1>5, <3>1, <3>2
    <3>4. d = e
      BY <1>5, <3>1, <3>3 DEF Discovery!Message
    <3>5. QED
      BY <3>3, <3>4 DEF Announces
  <2>3. QED
    BY <1>4, <2>1, <2>2
<1>6. QED
  BY <1>3, <1>5 DEF Discovery!OnlyForAReason, Discovery!Reason

\* What a handler sends is what the bridge then believes.
LEMMA AnnouncesAgrees ==
  ASSUME Discovery!TypeOK, Discovery!TypeOK', Discovery!NamesFollow',
         Discovery!OnlyForAReason', Discovery!BrokerWillAgree,
         NEW before, NEW S, Announces(before, S)
  PROVE  Discovery!BrokerWillAgree'
<1>1. PICK msgs \in Seq(Discovery!Messages) :
        /\ Discovery!Send(msgs)
        /\ \A i \in 1..Len(msgs) :
             \/ \E j \in 1..Len(before) : msgs[i] = before[j]
             \/ \E d \in S : msgs[i] = Discovery!Message("config", d, shownName'[d])
        /\ \A j \in 1..Len(before) : \E i \in 1..Len(msgs) : msgs[i] = before[j]
        /\ \A d \in S : \E i \in 1..Len(msgs) :
             msgs[i] = Discovery!Message("config", d, shownName'[d])
  BY AnnouncesMessages
<1>2. /\ outbox \in Seq(Discovery!Messages) /\ S \subseteq Entities
      /\ shownName' \in [Entities -> Discovery!Names]
      /\ discoveryPublished' = discoveryPublished \cup S
      /\ name' = name /\ retained' = retained
      /\ value \in [Entities -> Values \cup {0}]
  BY DEF Discovery!TypeOK, Announces, Discovery!Publish
\* Which messages carry which topic.
<1>3. ASSUME NEW d \in S, NEW t, NEW e
      PROVE  Discovery!Carries(Discovery!Message("config", d, shownName'[d]), t, e)
               <=> t = "config" /\ e = d
  BY <1>2, MessagesTyped
<1>4. ASSUME NEW e \in Entities, <<"state", e>> \notin lost'
      PROVE  Discovery!Settles(outbox', retained'.state[e], "state", e,
                               IF e \in Internal THEN 0 ELSE value'[e])
  <2> DEFINE x == IF e \in Internal THEN 0 ELSE value'[e]
  <2>1. \A d \in S : ~Discovery!Carries(Discovery!Message("config", d, shownName'[d]), "state", e)
    <3>1. ASSUME NEW d \in S
          PROVE  ~Discovery!Carries(Discovery!Message("config", d, shownName'[d]), "state", e)
      BY <1>2, MessagesTyped
    <3>2. QED
      BY <3>1
  <2>2. CASE before = <<>> /\ value' = value
    <3>1. \A i \in 1..Len(msgs) : ~Discovery!Carries(msgs[i], "state", e)
      BY <1>1, <2>1, <2>2
    <3>2. <<"state", e>> \notin lost => Discovery!Settles(outbox, retained.state[e], "state", e, x)
      BY <2>2 DEF Discovery!BrokerWillAgree
    <3>3. QED
      BY <1>1, <1>2, <1>4, <3>1, <3>2, SentSettles
  <2>3. ASSUME NEW d \in Entities \ Internal, NEW v \in Values,
               before = <<Discovery!Message("state", d, v)>>,
               value' = [value EXCEPT ![d] = v]
        PROVE  Discovery!Settles(outbox', retained'.state[e], "state", e, x)
    <3>1. /\ Len(before) = 1 /\ before[1] = Discovery!Message("state", d, v)
          /\ Discovery!Carries(before[1], "state", e) <=> e = d
          /\ before[1].payload = v
      BY <2>3, MessagesTyped DEF Discovery!Message
    <3>2. \A j \in 1..Len(before) : j = 1
      BY <3>1
    <3>3. \A i \in 1..Len(msgs) : Discovery!Carries(msgs[i], "state", e) => msgs[i] = before[1]
      BY <1>1, <2>1, <3>2
    <3>4. CASE e = d
      <4>1. x = v
        BY <1>2, <2>3, <3>4
      <4>2. \E i \in 1..Len(msgs) : Discovery!Carries(msgs[i], "state", e)
        BY <1>1, <3>1, <3>4
      <4>3. \A i \in 1..Len(msgs) : Discovery!Carries(msgs[i], "state", e) => msgs[i].payload = x
        BY <3>1, <3>3, <4>1
      <4> HIDE DEF x
      <4>4. QED
        BY <1>1, <1>2, <1>4, <4>2, <4>3, SentSettles
    <3>5. CASE e # d
      <4>1. x = IF e \in Internal THEN 0 ELSE value[e]
        BY <1>2, <2>3, <3>5
      <4>2. <<"state", e>> \notin lost => Discovery!Settles(outbox, retained.state[e], "state", e, x)
        BY <4>1 DEF Discovery!BrokerWillAgree
      <4>3. \A i \in 1..Len(msgs) : ~Discovery!Carries(msgs[i], "state", e)
        BY <3>1, <3>3, <3>5
      <4> HIDE DEF x
      <4>4. QED
        BY <1>1, <1>2, <1>4, <4>2, <4>3, SentSettles
    <3>6. QED
      BY <3>4, <3>5
  <2>4. QED
    BY <2>2, <2>3 DEF Announces, Believes
<1>5. ASSUME NEW e \in Entities, <<"config", e>> \notin lost', e \notin Discovery!Renaming'
      PROVE  Discovery!Settles(outbox', retained'.config[e], "config", e,
                               IF e \in discoveryPublished' THEN name'[e] ELSE 0)
  <2> DEFINE x == IF e \in discoveryPublished' THEN name'[e] ELSE 0
  <2>1. \A j \in 1..Len(before) : ~Discovery!Carries(before[j], "config", e)
    BY MessagesTyped DEF Announces, Believes
  <2>2. CASE e \in S
    <3>1. x = shownName'[e]
      BY <1>2, <1>5, <2>2 DEF Discovery!NamesFollow
    <3>2. \E i \in 1..Len(msgs) : Discovery!Carries(msgs[i], "config", e)
      BY <1>1, <1>3, <2>2
    <3>3. ASSUME NEW i \in 1..Len(msgs), Discovery!Carries(msgs[i], "config", e)
          PROVE  msgs[i].payload = x
      <4>1. PICK d \in S : msgs[i] = Discovery!Message("config", d, shownName'[d])
        BY <1>1, <2>1, <3>3
      <4>2. d = e
        BY <1>3, <3>3, <4>1
      <4>3. QED
        BY <3>1, <4>1, <4>2 DEF Discovery!Message
    <3> HIDE DEF x
    <3>4. Discovery!Settles(outbox', retained'.config[e], "config", e, x)
      BY <1>1, <1>2, <1>5, <3>2, <3>3, SentSettles
    <3>5. QED
      BY <3>4 DEF x
  <2>3. CASE e \notin S /\ e \in Discovery!Hidden
    <3>1. e \notin discoveryPublished' /\ retained'.config[e] = 0
      BY <2>3 DEF Discovery!Reason, Discovery!OnlyForAReason
    <3>2. \A i \in 1..Len(outbox') :
            Discovery!Carries(outbox'[i], "config", e) => outbox'[i].payload = 0
      BY <2>3 DEF Discovery!Reason, Discovery!OnlyForAReason, Discovery!Carries
    <3>3. QED
      BY <3>1, <3>2, UnannouncedSettles
  <2>4. CASE e \notin S /\ e \notin Discovery!Hidden
    <3>1. e \notin Discovery!Renaming
      BY <1>5, <2>4 DEF Announces
    <3>2. x = IF e \in discoveryPublished THEN name[e] ELSE 0
      BY <1>2, <2>4
    <3>3. <<"config", e>> \notin lost =>
            Discovery!Settles(outbox, retained.config[e], "config", e, x)
      BY <3>1, <3>2 DEF Discovery!BrokerWillAgree
    <3>4. \A i \in 1..Len(msgs) : ~Discovery!Carries(msgs[i], "config", e)
      BY <1>1, <1>3, <2>1, <2>4
    <3> HIDE DEF x
    <3>5. Discovery!Settles(outbox', retained'.config[e], "config", e, x)
      BY <1>1, <1>2, <1>5, <3>3, <3>4, SentSettles
    <3>6. QED
      BY <3>5 DEF x
  <2>5. QED
    BY <2>2, <2>3, <2>4
<1>6. QED
  BY <1>4, <1>5 DEF Discovery!BrokerWillAgree

LEMMA AnnouncesTyped ==
  ASSUME Discovery!TypeOK, NEW before, NEW S, Announces(before, S)
  PROVE  /\ value' \in [Entities -> Values \cup {0}]
         /\ discoveryPublished' \subseteq Entities \ Discovery!Hidden
         /\ outbox' \in Seq(Discovery!Messages)
         /\ \A k \in lost' : \E m \in Discovery!Messages : k = Discovery!Key(m)
         /\ revoked' \subseteq Entities
<1>1. PICK msgs \in Seq(Discovery!Messages) : Discovery!Send(msgs)
  BY AnnouncesMessages
<1>2. outbox' \in Seq(Discovery!Messages) /\ lost' \subseteq lost
  BY <1>1 DEF Discovery!Send, Discovery!TypeOK
<1>3. S \subseteq Entities \ Discovery!Hidden
  BY DEF Announces, Discovery!Reason
<1>4. /\ discoveryPublished' \subseteq Entities \ Discovery!Hidden
      /\ revoked' \subseteq Entities
  BY <1>3 DEF Announces, Discovery!Publish, Discovery!TypeOK
<1>5. value' \in [Entities -> Values \cup {0}]
  BY DEF Announces, Believes, Discovery!TypeOK
<1>6. QED
  BY <1>2, <1>4, <1>5 DEF Discovery!TypeOK

LEMMA AnnouncesInv ==
  ASSUME Discovery!BrokerInv, NEW before, NEW S, Announces(before, S),
         Discovery!TypeOK', Discovery!NamesFollow', Discovery!HeardIsKept'
  PROVE  Discovery!BrokerInv'
<1>1. Discovery!OnlyForAReason'
  BY AnnouncesReasons DEF Discovery!BrokerInv
<1>2. Discovery!BrokerWillAgree'
  BY <1>1, AnnouncesAgrees DEF Discovery!BrokerInv
<1>3. QED
  BY <1>1, <1>2 DEF Discovery!BrokerInv

\* Publishing keeps what was heard published.
LEMMA HeardStays ==
  ASSUME Discovery!HeardIsKept, UNCHANGED <<value, stateReceived>>, NEW S,
         discoveryPublished' = discoveryPublished \cup S, revoked' = revoked \ S
  PROVE  Discovery!HeardIsKept'
BY DEF Discovery!HeardIsKept

LEMMA NamesStay ==
  ASSUME Discovery!TypeOK, Discovery!NamesFollow, UNCHANGED <<name, shownName, renames>>,
         inputs' \in Nat, inputs' >= inputs
  PROVE  Discovery!NamesFollow' /\ Discovery!Renaming' = Discovery!Renaming
<1>1. ASSUME NEW e \in Entities, name[e] <= inputs + 1
      PROVE  name[e] <= inputs' + 1
  <2>1. name[e] \in Int /\ inputs \in Int
    BY DEF Discovery!TypeOK, Discovery!Names
  <2>2. QED
    BY <1>1, <2>1
<1>2. Discovery!Renaming' = Discovery!Renaming
  BY DEF Discovery!Renaming
<1>3. QED
  BY <1>1, <1>2 DEF Discovery!NamesFollow

LEMMA InputCounts ==
  ASSUME Discovery!TypeOK, Discovery!Input
  PROVE  /\ inputs' \in 0..MaxInputs /\ inputs' \in Nat /\ inputs' >= inputs
         /\ inputs' = inputs + 1 /\ inputs \in Nat /\ MaxInputs \in Nat
BY AutomationsAssumption DEF Discovery!TypeOK, Discovery!Input

\* Who is eligible has a reason.
LEMMA EligibleHasReason ==
  ASSUME NEW e, NEW S \in SUBSET Entities, NEW received,
         e \in Discovery!Eligible(S, received), received \subseteq Entities
  PROVE  /\ e \in S \ (Discovery!Hidden \cup discoveryPublished)
         /\ e \in Always \/ \E d \in {e, Link[e]} \cap Entities : d \in received
BY DEF Discovery!Eligible

\* A new state of an entity that is not internal.
LEMMA NewStateInv ==
  ASSUME Discovery!BrokerInv, NEW d \in Entities, NEW v \in Values, Discovery!NewState(d, v)
  PROVE  Discovery!BrokerInv'
<1> DEFINE before == <<Discovery!Message("state", d, v)>>
           S == Discovery!Eligible({e \in Entities : e = d \/ Link[e] = d}, stateReceived')
<1>1. /\ Discovery!TypeOK /\ Discovery!NamesFollow /\ Discovery!HeardIsKept
      /\ value' = [value EXCEPT ![d] = v] /\ Discovery!Input
      /\ UNCHANGED <<name, shownName, renames, connected, discoverOnConnect, retained, status>>
  BY DEF Discovery!BrokerInv, Discovery!NewState, Discovery!brokerVars
<1>2. /\ Discovery!NamesFollow' /\ Discovery!Renaming' = Discovery!Renaming
      /\ inputs' \in 0..MaxInputs
  BY <1>1, NamesStay, InputCounts
<1>3. CASE d \notin Internal
  <2>1. stateReceived' = stateReceived \cup {d} /\ Discovery!Publish(before, S, shownName)
    BY <1>3 DEF Discovery!NewState
  <2>2. stateReceived' \subseteq Entities \ Internal
    BY <1>1, <1>3, <2>1 DEF Discovery!HeardIsKept
  <2>3. ASSUME NEW e \in S
        PROVE  e \in Entities /\ Discovery!Reason(e)'
    <3> DEFINE near == {c \in Entities : c = d \/ Link[c] = d}
               received == stateReceived'
    <3>1. near \in SUBSET Entities /\ received \subseteq Entities
      BY <2>2
    <3>2. e \in Discovery!Eligible(near, received)
      OBVIOUS
    <3> HIDE DEF near
    <3>3. /\ e \in near \ (Discovery!Hidden \cup discoveryPublished)
          /\ e \in Always \/ \E c \in {e, Link[e]} \cap Entities : c \in received
      BY <3>1, <3>2 DEF Discovery!Eligible
    <3>4. QED
      BY <3>1, <3>3 DEF Discovery!Reason
  <2>4. Announces(before, S)
    BY <1>1, <1>2, <1>3, <2>1, <2>3 DEF Announces, Believes, Discovery!TypeOK
  <2>5. Discovery!HeardIsKept'
    <3>1. \A e \in Entities \ Internal :
            value'[e] # (IF e \in Optimistic THEN Default ELSE 0) => e \in stateReceived'
      BY <1>1, <2>1 DEF Discovery!HeardIsKept, Discovery!TypeOK
    <3>2. ASSUME NEW e \in Entities \ (Discovery!Hidden \cup revoked'),
                 e \in stateReceived' \/ Link[e] \in stateReceived'
          PROVE  e \in discoveryPublished'
      <4>1. discoveryPublished' = discoveryPublished \cup S /\ revoked' = revoked \ S
        BY <2>1 DEF Discovery!Publish
      <4>2. CASE e \in S
        BY <4>1, <4>2
      <4>3. CASE e \notin S /\ (e = d \/ Link[e] = d)
        BY <2>1, <3>2, <4>1, <4>3 DEF Discovery!Eligible
      <4>4. CASE e \notin S /\ e # d /\ Link[e] # d
        BY <1>1, <2>1, <3>2, <4>1, <4>4 DEF Discovery!HeardIsKept
      <4>5. QED
        BY <4>2, <4>3, <4>4
    <3>3. QED
      BY <2>2, <3>1, <3>2 DEF Discovery!HeardIsKept
  <2> HIDE DEF before, S
  <2>6. Discovery!TypeOK'
    BY <1>1, <1>2, <2>2, <2>4, AnnouncesTyped DEF Discovery!TypeOK
  <2>7. QED
    BY <1>2, <2>4, <2>5, <2>6, AnnouncesInv
<1>4. CASE d \in Internal
  <2>1. UNCHANGED <<stateReceived, discoveryPublished, outbox, lost, revoked>>
    BY <1>4 DEF Discovery!NewState
  <2>2. /\ value' \in [Entities -> Values \cup {0}]
        /\ \A e \in Entities \ Internal : value'[e] = value[e]
    BY <1>1, <1>4 DEF Discovery!TypeOK
  <2>3. Discovery!TypeOK'
    BY <1>1, <1>2, <2>1, <2>2 DEF Discovery!TypeOK
  <2>4. Discovery!HeardIsKept' /\ Discovery!OnlyForAReason'
    BY <1>1, <2>1, <2>2
       DEF Discovery!BrokerInv, Discovery!HeardIsKept, Discovery!OnlyForAReason, Discovery!Reason
  <2>5. Discovery!BrokerWillAgree'
    <3>1. \A e \in Entities :
            (IF e \in Internal THEN 0 ELSE value'[e]) = (IF e \in Internal THEN 0 ELSE value[e])
      BY <2>2
    <3>2. QED
      BY <1>1, <1>2, <2>1, <3>1 DEF Discovery!BrokerInv, Discovery!BrokerWillAgree
  <2>6. QED
    BY <1>2, <2>3, <2>4, <2>5 DEF Discovery!BrokerInv
<1>5. QED
  BY <1>3, <1>4

\* Home Assistant comes back, or mqtt.js connects.
LEMMA RepublishInv ==
  ASSUME Discovery!BrokerInv, Discovery!HomeAssistantOnline \/ Discovery!Connect
  PROVE  Discovery!BrokerInv'
<1> DEFINE S == IF ~connected
                THEN IF discoverOnConnect THEN Discovery!Eligible(Entities, stateReceived) ELSE {}
                ELSE discoveryPublished
<1>1. /\ Discovery!TypeOK /\ Discovery!NamesFollow /\ Discovery!HeardIsKept
      /\ Discovery!OnlyForAReason
      /\ Discovery!Publish(<<>>, S, shownName)
      /\ UNCHANGED <<value, stateReceived, name, shownName, renames, discoverOnConnect,
                     retained, status>>
      /\ connected' \in BOOLEAN /\ inputs' \in 0..MaxInputs
      /\ inputs' \in Nat /\ inputs' >= inputs
  <2>1. Discovery!TypeOK /\ MaxInputs \in Nat
    BY AutomationsAssumption DEF Discovery!BrokerInv
  <2>2. CASE Discovery!HomeAssistantOnline
    <3>1. /\ connected /\ connected' = connected /\ Discovery!Input
          /\ Discovery!Publish(<<>>, discoveryPublished, shownName)
      BY <2>2 DEF Discovery!HomeAssistantOnline
    <3>2. inputs' \in 0..MaxInputs /\ inputs' \in Nat /\ inputs' >= inputs
      BY <2>1, <3>1, InputCounts
    <3>3. QED
      BY <2>1, <2>2, <3>1, <3>2
         DEF Discovery!BrokerInv, Discovery!HomeAssistantOnline, Discovery!brokerVars
  <2>3. CASE Discovery!Connect
    <3>1. inputs' \in 0..MaxInputs /\ inputs' \in Nat /\ inputs' >= inputs
      BY <2>1, <2>3 DEF Discovery!Connect, Discovery!TypeOK
    <3>2. QED
      BY <2>1, <2>3, <3>1 DEF Discovery!BrokerInv, Discovery!Connect, Discovery!brokerVars
  <2>4. QED
    BY <2>2, <2>3
<1>2. Discovery!NamesFollow' /\ Discovery!Renaming' = Discovery!Renaming
  BY <1>1, NamesStay
<1>3. \A e \in S : e \in Entities /\ Discovery!Reason(e)
  <2>1. ASSUME NEW e \in Discovery!Eligible(Entities, stateReceived)
        PROVE  e \in Entities /\ Discovery!Reason(e)
    BY <1>1, EligibleHasReason DEF Discovery!Reason, Discovery!TypeOK
  <2>2. \A e \in discoveryPublished : e \in Entities /\ Discovery!Reason(e)
    BY <1>1 DEF Discovery!OnlyForAReason, Discovery!TypeOK
  <2>3. QED
    BY <2>1, <2>2
<1>4. Announces(<<>>, S)
  <2>1. \A e \in S : Discovery!Reason(e)'
    BY <1>1, <1>3 DEF Discovery!Reason
  <2>2. QED
    BY <1>1, <1>2, <1>3, <2>1 DEF Announces, Believes, Discovery!TypeOK
<1> HIDE DEF S
<1>5. Discovery!HeardIsKept'
  BY <1>1, HeardStays DEF Discovery!Publish
<1>6. Discovery!TypeOK'
  BY <1>1, <1>4, AnnouncesTyped DEF Discovery!TypeOK
<1>7. QED
  BY <1>2, <1>4, <1>5, <1>6, AnnouncesInv

\* The timer of a rename.
LEMMA RenameTimerNames ==
  ASSUME Discovery!TypeOK, Discovery!NamesFollow, Discovery!RenameTimer
  PROVE  /\ Discovery!NamesFollow'
         /\ \A e \in Entities \ {Head(renames).entity} :
              e \in Discovery!Renaming => e \in Discovery!Renaming'
         /\ Head(renames) \in [entity : Entities, name : Discovery!Names]
         /\ Head(renames).name > 1
         /\ renames' \in Seq([entity : Entities, name : Discovery!Names])
<1> DEFINE R == [entity : Entities, name : Discovery!Names]
           r == Head(renames)
<1>1. /\ renames \in Seq(R) /\ renames # <<>> /\ renames' = Tail(renames)
      /\ name \in [Entities -> Discovery!Names] /\ shownName \in [Entities -> Discovery!Names]
      /\ shownName' = [shownName EXCEPT ![r.entity] = r.name]
      /\ UNCHANGED <<name, inputs>>
  BY DEF Discovery!TypeOK, Discovery!RenameTimer
<1>2. /\ r = renames[1] /\ r \in R /\ Len(renames) \in Nat \ {0}
      /\ renames' \in Seq(R) /\ Len(renames') = Len(renames) - 1
      /\ \A i \in 1..Len(renames') : renames'[i] = renames[i + 1] /\ i + 1 \in 1..Len(renames)
      /\ \A i \in 2..Len(renames) : renames[i] = renames'[i - 1] /\ i - 1 \in 1..Len(renames')
      /\ DOMAIN renames = 1..Len(renames) /\ DOMAIN renames' = 1..Len(renames')
  BY <1>1, TailShifts
<1>3. r.entity \in Entities /\ r.name \in Discovery!Names
  BY <1>2
<1> HIDE DEF r, R
<1>4. \A e : e \in Discovery!Renaming' <=> \E i \in 2..Len(renames) : renames[i].entity = e
  <2>1. \A e : e \in Discovery!Renaming' <=> \E i \in 1..Len(renames') : renames'[i].entity = e
    BY <1>2 DEF Discovery!Renaming
  <2>2. \A e : (\E i \in 1..Len(renames') : renames'[i].entity = e) =>
               \E i \in 2..Len(renames) : renames[i].entity = e
    <3>1. \A i \in 1..Len(renames') : i + 1 \in 2..Len(renames)
      BY <1>2
    <3>2. QED
      BY <1>2, <3>1
  <2>3. QED
    BY <1>2, <2>1, <2>2
<1>5. \A e : e \in Discovery!Renaming /\ e # r.entity => e \in Discovery!Renaming'
  <2>1. ASSUME NEW i \in 1..Len(renames), renames[i].entity # r.entity
        PROVE  i \in 2..Len(renames)
    BY <1>2, <2>1
  <2>2. QED
    BY <1>2, <1>4, <2>1 DEF Discovery!Renaming
<1>6. ASSUME NEW e \in Entities, e \notin Discovery!Renaming'
      PROVE  shownName'[e] = name'[e]
  <2>1. CASE e = r.entity
    <3>1. \A j \in 1 + 1..Len(renames) : renames[j].entity # renames[1].entity
      BY <1>2, <1>4, <1>6, <2>1
    <3>2. 1 \in 1..Len(renames)
      BY <1>2
    <3>3. r.name = name[e]
      BY <1>2, <2>1, <3>1, <3>2 DEF Discovery!NamesFollow
    <3>4. QED
      BY <1>1, <2>1, <3>3
  <2>2. CASE e # r.entity
    <3>1. e \notin Discovery!Renaming
      BY <1>5, <1>6, <2>2
    <3>2. QED
      BY <1>1, <1>3, <2>2, <3>1 DEF Discovery!NamesFollow
  <2>3. QED
    BY <2>1, <2>2
<1>7. ASSUME NEW i \in 1..Len(renames')
      PROVE  /\ renames'[i].name > 1
             /\ (\A j \in i + 1..Len(renames') : renames'[j].entity # renames'[i].entity)
                => renames'[i].name = name'[renames'[i].entity]
  <2>1. renames'[i] = renames[i + 1] /\ i + 1 \in 1..Len(renames) /\ i \in Nat
    BY <1>2
  <2>2. \A j \in (i + 1) + 1..Len(renames) :
          j - 1 \in i + 1..Len(renames') /\ renames[j] = renames'[j - 1]
    BY <1>2, <2>1
  <2>3. QED
    BY <1>1, <2>1, <2>2 DEF Discovery!NamesFollow
<1>8. Discovery!NamesFollow'
  BY <1>1, <1>6, <1>7 DEF Discovery!NamesFollow
<1>9. r.name > 1
  BY <1>2 DEF Discovery!NamesFollow
<1>10. QED
  BY <1>2, <1>5, <1>8, <1>9 DEF r, R

LEMMA RenameTimerInv ==
  ASSUME Discovery!BrokerInv, Discovery!RenameTimer
  PROVE  Discovery!BrokerInv'
<1> DEFINE r == Head(renames)
           S == {r.entity} \ Discovery!Hidden
<1>1. /\ Discovery!TypeOK /\ Discovery!NamesFollow /\ Discovery!HeardIsKept
      /\ shownName' = [shownName EXCEPT ![r.entity] = r.name]
      /\ Discovery!Publish(<<>>, S, shownName')
      /\ UNCHANGED <<value, stateReceived, name, connected, discoverOnConnect, retained, status,
                     inputs>>
  BY DEF Discovery!BrokerInv, Discovery!RenameTimer, Discovery!brokerVars
<1>2. /\ Discovery!NamesFollow'
      /\ \A e \in Entities \ {r.entity} : e \in Discovery!Renaming => e \in Discovery!Renaming'
      /\ r.entity \in Entities /\ r.name \in Discovery!Names /\ r.name > 1
      /\ renames' \in Seq([entity : Entities, name : Discovery!Names])
  BY <1>1, RenameTimerNames
<1> HIDE DEF r
<1>3. /\ shownName' \in [Entities -> Discovery!Names]
      /\ shownName'[r.entity] = r.name
      /\ \A e \in Entities : shownName[e] > 1 => shownName'[e] > 1
  BY <1>1, <1>2 DEF Discovery!TypeOK
<1>4. ASSUME NEW e \in S
      PROVE  e \in Entities /\ Discovery!Reason(e)'
  BY <1>2, <1>3 DEF Discovery!Reason
<1>5. Announces(<<>>, S)
  <2>1. \A e \in Entities \ (S \cup Discovery!Hidden) :
          e \in Discovery!Renaming => e \in Discovery!Renaming'
    BY <1>2
  <2>2. QED
    BY <1>1, <1>3, <1>4, <2>1 DEF Announces, Believes
<1> HIDE DEF S
<1>6. Discovery!HeardIsKept'
  BY <1>1, HeardStays DEF Discovery!Publish
<1>7. Discovery!TypeOK'
  BY <1>1, <1>2, <1>3, <1>5, AnnouncesTyped DEF Discovery!TypeOK
<1>8. QED
  BY <1>2, <1>5, <1>6, <1>7, AnnouncesInv

-----------------------------------------------------------------------------
(* The handlers that clear a configuration.                                *)

LEMMA Cleared ==
  ASSUME Discovery!TypeOK, NEW e \in Entities,
         Discovery!Send(<<Discovery!Message("config", e, 0)>>)
  PROVE  LET m == Discovery!Message("config", e, 0)
         IN /\ <<m>> \in Seq(Discovery!Messages) /\ Len(<<m>>) = 1 /\ <<m>>[1] = m
            /\ m.payload = 0 /\ m.topic = "config" /\ m.entity = e
            /\ outbox \in Seq(Discovery!Messages)
            /\ outbox' = Append(outbox, m) /\ outbox' \in Seq(Discovery!Messages)
            /\ \A k \in lost' : \E d \in Discovery!Messages : k = Discovery!Key(d)
            /\ \A t, d : Discovery!Carries(m, t, d) <=> t = "config" /\ d = e
<1> DEFINE m == Discovery!Message("config", e, 0)
<1>1. /\ m \in Discovery!Messages
      /\ \A t, d : Discovery!Carries(m, t, d) <=> t = "config" /\ d = e
  BY MessagesTyped
<1>2. m.payload = 0 /\ m.topic = "config" /\ m.entity = e
  BY DEF Discovery!Message
<1>3. /\ outbox \in Seq(Discovery!Messages)
      /\ outbox' = outbox \o <<m>> /\ lost' \subseteq lost
      /\ \A k \in lost : \E d \in Discovery!Messages : k = Discovery!Key(d)
  BY DEF Discovery!TypeOK, Discovery!Send
<1> HIDE DEF m
<1>4. /\ <<m>> \in Seq(Discovery!Messages) /\ Len(<<m>>) = 1 /\ <<m>>[1] = m
      /\ outbox' = Append(outbox, m) /\ outbox' \in Seq(Discovery!Messages)
  BY <1>1, <1>3
<1>5. QED
  BY <1>1, <1>2, <1>3, <1>4 DEF m

LEMMA ClearedAgrees ==
  ASSUME Discovery!TypeOK, Discovery!BrokerWillAgree, NEW e \in Entities,
         Discovery!Send(<<Discovery!Message("config", e, 0)>>),
         UNCHANGED <<value, retained>>,
         e \in Discovery!Renaming' \/ e \notin discoveryPublished',
         \A d \in Entities \ {e} :
           /\ d \in Discovery!Renaming => d \in Discovery!Renaming'
           /\ d \in discoveryPublished' <=> d \in discoveryPublished
           /\ name'[d] = name[d]
  PROVE  Discovery!BrokerWillAgree'
<1> DEFINE m == Discovery!Message("config", e, 0)
           msgs == <<m>>
<1>1. /\ msgs \in Seq(Discovery!Messages) /\ Len(msgs) = 1 /\ msgs[1] = m
      /\ m.payload = 0 /\ outbox \in Seq(Discovery!Messages)
      /\ \A t, d : Discovery!Carries(m, t, d) <=> t = "config" /\ d = e
      /\ Discovery!Send(msgs)
  BY Cleared
<1> HIDE DEF m, msgs
<1>2. \A i \in 1..Len(msgs) : msgs[i] = m
  BY <1>1
<1>3. 1 \in 1..Len(msgs)
  BY <1>1
<1>4. ASSUME NEW d \in Entities, <<"state", d>> \notin lost'
      PROVE  Discovery!Settles(outbox', retained'.state[d], "state", d,
                               IF d \in Internal THEN 0 ELSE value'[d])
  <2> DEFINE x == IF d \in Internal THEN 0 ELSE value'[d]
  <2>1. \A i \in 1..Len(msgs) : ~Discovery!Carries(msgs[i], "state", d)
    BY <1>1, <1>2
  <2>2. <<"state", d>> \notin lost => Discovery!Settles(outbox, retained.state[d], "state", d, x)
    BY DEF Discovery!BrokerWillAgree
  <2> HIDE DEF x
  <2>3. Discovery!Settles(outbox', retained.state[d], "state", d, x)
    BY <1>1, <1>4, <2>1, <2>2, SentSettles
  <2>4. QED
    BY <2>3 DEF x
<1>5. ASSUME NEW d \in Entities, <<"config", d>> \notin lost', d \notin Discovery!Renaming'
      PROVE  Discovery!Settles(outbox', retained'.config[d], "config", d,
                               IF d \in discoveryPublished' THEN name'[d] ELSE 0)
  <2> DEFINE x == IF d \in discoveryPublished' THEN name'[d] ELSE 0
  <2>1. CASE d = e
    <3>1. x = 0
      BY <1>5, <2>1
    <3>2. \A i \in 1..Len(msgs) : Discovery!Carries(msgs[i], "config", d) => msgs[i].payload = x
      BY <1>1, <1>2, <3>1
    <3>3. \E i \in 1..Len(msgs) : Discovery!Carries(msgs[i], "config", d)
      BY <1>1, <1>3, <2>1
    <3> HIDE DEF x
    <3>4. Discovery!Settles(outbox', retained.config[d], "config", d, x)
      BY <1>1, <1>5, <3>2, <3>3, SentSettles
    <3>5. QED
      BY <3>4 DEF x
  <2>2. CASE d # e
    <3>1. \A i \in 1..Len(msgs) : ~Discovery!Carries(msgs[i], "config", d)
      BY <1>1, <1>2, <2>2
    <3>2. <<"config", d>> \notin lost =>
            Discovery!Settles(outbox, retained.config[d], "config", d, x)
      BY <1>5, <2>2 DEF Discovery!BrokerWillAgree
    <3> HIDE DEF x
    <3>3. Discovery!Settles(outbox', retained.config[d], "config", d, x)
      BY <1>1, <1>5, <3>1, <3>2, SentSettles
    <3>4. QED
      BY <3>3 DEF x
  <2>3. QED
    BY <2>1, <2>2
<1>6. QED
  BY <1>4, <1>5 DEF Discovery!BrokerWillAgree

LEMMA ClearedReasons ==
  ASSUME Discovery!TypeOK, Discovery!OnlyForAReason, NEW e \in Entities,
         Discovery!Send(<<Discovery!Message("config", e, 0)>>),
         discoveryPublished' \subseteq discoveryPublished,
         UNCHANGED <<stateReceived, shownName, retained>>
  PROVE  Discovery!OnlyForAReason'
<1> DEFINE m == Discovery!Message("config", e, 0)
<1>1. outbox \in Seq(Discovery!Messages) /\ outbox' = Append(outbox, m) /\ m.payload = 0
  BY Cleared
<1> HIDE DEF m
<1>2. ASSUME NEW i \in 1..Len(outbox'), outbox'[i].payload # 0
      PROVE  i \in 1..Len(outbox) /\ outbox'[i] = outbox[i]
  BY <1>1, <1>2
<1>3. ASSUME NEW i \in 1..Len(outbox'), outbox'[i].topic = "config", outbox'[i].payload # 0
      PROVE  Discovery!Reason(outbox'[i].entity)
  BY <1>2, <1>3 DEF Discovery!OnlyForAReason
<1>4. QED
  BY <1>3 DEF Discovery!OnlyForAReason, Discovery!Reason

LEMMA RevokeInv ==
  ASSUME Discovery!BrokerInv, NEW e \in Entities, Discovery!Revoke(e)
  PROVE  Discovery!BrokerInv'
<1>1. /\ Discovery!TypeOK /\ Discovery!NamesFollow /\ Discovery!HeardIsKept
      /\ Discovery!OnlyForAReason /\ Discovery!BrokerWillAgree /\ Discovery!Input
      /\ Discovery!Send(<<Discovery!Message("config", e, 0)>>)
      /\ discoveryPublished' = discoveryPublished \ {e} /\ revoked' = revoked \cup {e}
      /\ UNCHANGED <<value, stateReceived, name, shownName, renames, connected,
                     discoverOnConnect, retained, status>>
  BY DEF Discovery!BrokerInv, Discovery!Revoke, Discovery!brokerVars
<1>2. /\ Discovery!NamesFollow' /\ Discovery!Renaming' = Discovery!Renaming
      /\ inputs' \in 0..MaxInputs
  BY <1>1, NamesStay, InputCounts
<1>3. Discovery!TypeOK'
  BY <1>1, <1>2, Cleared DEF Discovery!TypeOK
<1>4. Discovery!HeardIsKept'
  BY <1>1 DEF Discovery!HeardIsKept
<1>5. Discovery!OnlyForAReason'
  BY <1>1, ClearedReasons
<1>6. Discovery!BrokerWillAgree'
  BY <1>1, <1>2, ClearedAgrees
<1>7. QED
  BY <1>2, <1>3, <1>4, <1>5, <1>6 DEF Discovery!BrokerInv

LEMMA RenameInv ==
  ASSUME Discovery!BrokerInv, NEW e \in Entities, Discovery!Rename(e)
  PROVE  Discovery!BrokerInv'
<1> DEFINE R == [entity : Entities, name : Discovery!Names]
           r == [entity |-> e, name |-> name'[e]]
<1>1. /\ Discovery!TypeOK /\ Discovery!NamesFollow /\ Discovery!HeardIsKept
      /\ Discovery!OnlyForAReason /\ Discovery!BrokerWillAgree /\ Discovery!Input
      /\ Discovery!Send(<<Discovery!Message("config", e, 0)>>)
      /\ name' = [name EXCEPT ![e] = name[e] + 1] /\ renames' = Append(renames, r)
      /\ UNCHANGED <<value, stateReceived, discoveryPublished, shownName, connected,
                     discoverOnConnect, retained, status, revoked>>
  BY DEF Discovery!BrokerInv, Discovery!Rename, Discovery!brokerVars
<1>2. /\ inputs' \in 0..MaxInputs /\ inputs' = inputs + 1 /\ inputs \in Nat /\ MaxInputs \in Nat
      /\ name \in [Entities -> Discovery!Names] /\ renames \in Seq(R)
      /\ \A d \in Entities : name[d] <= inputs + 1 /\ name[d] \in Discovery!Names
  BY <1>1, InputCounts DEF Discovery!TypeOK, Discovery!NamesFollow
<1>3. name[e] + 1 \in Discovery!Names /\ name[e] + 1 > 1
  BY <1>2 DEF Discovery!Names
<1>4. /\ name' \in [Entities -> Discovery!Names] /\ name'[e] = name[e] + 1
      /\ \A d \in Entities \ {e} : name'[d] = name[d]
  BY <1>1, <1>2, <1>3
<1>5. r \in R /\ r.entity = e /\ r.name = name'[e]
  BY <1>3, <1>4
<1> HIDE DEF r, R
<1>6. /\ renames' \in Seq(R) /\ Len(renames) \in Nat /\ Len(renames') = Len(renames) + 1
      /\ renames'[Len(renames) + 1] = r
      /\ \A i \in 1..Len(renames) : renames'[i] = renames[i] /\ renames[i] \in R
      /\ DOMAIN renames = 1..Len(renames) /\ DOMAIN renames' = 1..Len(renames')
  BY <1>1, <1>2, <1>5, AppendExtends
<1>7. /\ \A d \in Discovery!Renaming : d \in Discovery!Renaming'
      /\ e \in Discovery!Renaming'
  BY <1>5, <1>6 DEF Discovery!Renaming
<1>8. Discovery!NamesFollow'
  <2>1. \A d \in Entities : name'[d] <= inputs' + 1
    <3>1. ASSUME NEW d \in Entities
          PROVE  name'[d] <= inputs' + 1
      <4>1. name[d] \in Int /\ name[d] <= inputs + 1 /\ name'[d] \in {name[d], name[d] + 1}
        BY <1>2, <1>4 DEF Discovery!Names
      <4>2. QED
        BY <1>2, <4>1
    <3>2. QED
      BY <3>1
  <2>2. \A d \in Entities : d \notin Discovery!Renaming' => shownName'[d] = name'[d]
    BY <1>1, <1>4, <1>7 DEF Discovery!NamesFollow
  <2>3. ASSUME NEW i \in 1..Len(renames')
        PROVE  /\ renames'[i].name > 1
               /\ (\A j \in i + 1..Len(renames') : renames'[j].entity # renames'[i].entity)
                  => renames'[i].name = name'[renames'[i].entity]
    <3>1. CASE i = Len(renames) + 1
      BY <1>3, <1>4, <1>5, <1>6, <3>1
    <3>2. CASE i # Len(renames) + 1
      <4>1. /\ i \in 1..Len(renames) /\ renames'[i] = renames[i] /\ renames[i].entity \in Entities
            /\ Len(renames) + 1 \in i + 1..Len(renames')
        BY <1>6, <3>2 DEF R
      <4>2. \A j \in i + 1..Len(renames) :
              j \in i + 1..Len(renames') /\ renames'[j] = renames[j]
        BY <1>6, <4>1
      <4>3. ASSUME \A j \in i + 1..Len(renames') : renames'[j].entity # renames'[i].entity
            PROVE  renames'[i].name = name'[renames'[i].entity]
        <5>1. renames[i].entity # e
          BY <1>5, <1>6, <4>1, <4>3
        <5>2. renames[i].name = name[renames[i].entity]
          BY <1>1, <4>1, <4>2, <4>3 DEF Discovery!NamesFollow
        <5>3. QED
          BY <1>4, <4>1, <5>1, <5>2
      <4>4. renames'[i].name > 1
        BY <1>1, <4>1 DEF Discovery!NamesFollow
      <4>5. QED
        BY <4>3, <4>4
    <3>3. QED
      BY <3>1, <3>2
  <2>4. QED
    BY <2>1, <2>2, <2>3 DEF Discovery!NamesFollow
<1>9. Discovery!TypeOK'
  BY <1>1, <1>2, <1>4, <1>6, Cleared DEF Discovery!TypeOK, R
<1>10. Discovery!HeardIsKept'
  BY <1>1 DEF Discovery!HeardIsKept
<1>11. Discovery!OnlyForAReason'
  BY <1>1, ClearedReasons
<1>12. Discovery!BrokerWillAgree'
  BY <1>1, <1>4, <1>7, ClearedAgrees
<1>13. QED
  BY <1>8, <1>9, <1>10, <1>11, <1>12 DEF Discovery!BrokerInv

-----------------------------------------------------------------------------
(* The connection and the broker.                                          *)

LEMMA DeliverInv ==
  ASSUME Discovery!BrokerInv, Discovery!Deliver
  PROVE  Discovery!BrokerInv'
<1> DEFINE m == Head(outbox)
<1>1. /\ Discovery!TypeOK /\ Discovery!NamesFollow /\ Discovery!HeardIsKept
      /\ Discovery!OnlyForAReason /\ Discovery!BrokerWillAgree
      /\ outbox # <<>> /\ outbox' = Tail(outbox) /\ outbox \in Seq(Discovery!Messages)
      /\ UNCHANGED <<value, stateReceived, discoveryPublished, name, shownName, renames, connected,
                     discoverOnConnect, inputs, lost, revoked>>
  BY DEF Discovery!BrokerInv, Discovery!Deliver, Discovery!TypeOK
<1>2. /\ m = outbox[1] /\ m \in Discovery!Messages /\ Len(outbox) \in Nat \ {0}
      /\ outbox' \in Seq(Discovery!Messages)
      /\ \A i \in 1..Len(outbox') : outbox'[i] = outbox[i + 1] /\ i + 1 \in 1..Len(outbox)
  BY <1>1, TailShifts
<1>3. \/ /\ m.topic = "config" /\ m.entity \in Entities /\ m.payload \in Discovery!Names \cup {0}
         /\ retained' = [retained EXCEPT !.config[m.entity] = m.payload]
         /\ UNCHANGED status
      \/ /\ m.topic = "state" /\ m.entity \in Entities /\ m.payload \in Values
         /\ retained' = [retained EXCEPT !.state[m.entity] = m.payload]
         /\ UNCHANGED status
      \/ /\ m.topic = "online"
         /\ status' = "online" /\ UNCHANGED retained
  BY <1>2 DEF Discovery!Deliver, Discovery!Messages, Discovery!Message
<1> HIDE DEF m
<1>4. /\ retained.config \in [Entities -> Discovery!Names \cup {0}]
      /\ retained.state \in [Entities -> Values \cup {0}]
      /\ retained \in [config : [Entities -> Discovery!Names \cup {0}],
                       state  : [Entities -> Values \cup {0}]]
      /\ status \in {"none", "online", "offline"}
  BY <1>1 DEF Discovery!TypeOK
<1>5. /\ retained' \in [config : [Entities -> Discovery!Names \cup {0}],
                        state  : [Entities -> Values \cup {0}]]
      /\ status' \in {"none", "online", "offline"}
      /\ \A e \in Entities :
           /\ retained'.config[e] =
                IF Discovery!Carries(m, "config", e) THEN m.payload ELSE retained.config[e]
           /\ retained'.state[e] =
                IF Discovery!Carries(m, "state", e) THEN m.payload ELSE retained.state[e]
  <2>1. CASE /\ m.topic = "config" /\ m.entity \in Entities
             /\ m.payload \in Discovery!Names \cup {0}
             /\ retained' = [retained EXCEPT !.config[m.entity] = m.payload]
             /\ UNCHANGED status
    BY <1>4, <2>1 DEF Discovery!Carries
  <2>2. CASE /\ m.topic = "state" /\ m.entity \in Entities /\ m.payload \in Values
             /\ retained' = [retained EXCEPT !.state[m.entity] = m.payload]
             /\ UNCHANGED status
    BY <1>4, <2>2 DEF Discovery!Carries
  <2>3. CASE m.topic = "online" /\ status' = "online" /\ UNCHANGED retained
    BY <1>4, <2>3 DEF Discovery!Carries
  <2>4. QED
    BY <1>3, <2>1, <2>2, <2>3
<1>6. Discovery!BrokerWillAgree'
  <2>1. ASSUME NEW topic, NEW e, NEW kept, NEW x,
               Discovery!Settles(outbox, kept, topic, e, x)
        PROVE  Discovery!Settles(outbox',
                 IF Discovery!Carries(m, topic, e) THEN m.payload ELSE kept, topic, e, x)
    BY <1>1, <2>1, SettlesDelivered DEF m
  <2>2. ASSUME NEW e \in Entities, <<"state", e>> \notin lost'
        PROVE  Discovery!Settles(outbox', retained'.state[e], "state", e,
                                 IF e \in Internal THEN 0 ELSE value'[e])
    <3> DEFINE x == IF e \in Internal THEN 0 ELSE value'[e]
    <3>1. Discovery!Settles(outbox, retained.state[e], "state", e, x)
      BY <1>1, <2>2 DEF Discovery!BrokerWillAgree
    <3> HIDE DEF x
    <3>2. Discovery!Settles(outbox', retained'.state[e], "state", e, x)
      BY <1>5, <2>1, <3>1
    <3>3. QED
      BY <3>2 DEF x
  <2>3. ASSUME NEW e \in Entities, <<"config", e>> \notin lost', e \notin Discovery!Renaming'
        PROVE  Discovery!Settles(outbox', retained'.config[e], "config", e,
                                 IF e \in discoveryPublished' THEN name'[e] ELSE 0)
    <3> DEFINE x == IF e \in discoveryPublished' THEN name'[e] ELSE 0
    <3>1. e \notin Discovery!Renaming
      BY <1>1, <2>3 DEF Discovery!Renaming
    <3>2. Discovery!Settles(outbox, retained.config[e], "config", e, x)
      BY <1>1, <2>3, <3>1 DEF Discovery!BrokerWillAgree
    <3> HIDE DEF x
    <3>3. Discovery!Settles(outbox', retained'.config[e], "config", e, x)
      BY <1>5, <2>1, <3>2
    <3>4. QED
      BY <3>3 DEF x
  <2>4. QED
    BY <2>2, <2>3 DEF Discovery!BrokerWillAgree
<1>7. Discovery!OnlyForAReason'
  <2>1. 1 \in 1..Len(outbox)
    BY <1>2
  <2>2. ASSUME NEW e \in Entities, e \in discoveryPublished' \/ retained'.config[e] # 0
        PROVE  Discovery!Reason(e)
    <3>1. CASE Discovery!Carries(m, "config", e) /\ m.payload # 0
      BY <1>1, <1>2, <2>1, <3>1 DEF Discovery!OnlyForAReason, Discovery!Carries
    <3>2. CASE ~(Discovery!Carries(m, "config", e) /\ m.payload # 0)
      BY <1>1, <1>5, <2>2, <3>2 DEF Discovery!OnlyForAReason
    <3>3. QED
      BY <3>1, <3>2
  <2>3. ASSUME NEW i \in 1..Len(outbox'), outbox'[i].topic = "config", outbox'[i].payload # 0
        PROVE  Discovery!Reason(outbox'[i].entity)
    BY <1>1, <1>2, <2>3 DEF Discovery!OnlyForAReason
  <2>4. QED
    BY <1>1, <2>2, <2>3 DEF Discovery!OnlyForAReason, Discovery!Reason
<1>8. Discovery!TypeOK'
  BY <1>1, <1>2, <1>5 DEF Discovery!TypeOK
<1>9. Discovery!HeardIsKept' /\ Discovery!NamesFollow'
  BY <1>1 DEF Discovery!HeardIsKept, Discovery!NamesFollow, Discovery!Renaming
<1>10. QED
  BY <1>6, <1>7, <1>8, <1>9 DEF Discovery!BrokerInv

LEMMA ConnectionLostInv ==
  ASSUME Discovery!BrokerInv, Discovery!ConnectionLost
  PROVE  Discovery!BrokerInv'
<1>1. /\ Discovery!TypeOK /\ Discovery!NamesFollow /\ Discovery!HeardIsKept
      /\ Discovery!OnlyForAReason /\ Discovery!BrokerWillAgree /\ Discovery!Input
      /\ connected' = FALSE /\ outbox' = <<>> /\ status' = "offline"
      /\ lost' = lost \cup {Discovery!Key(outbox[i]) : i \in DOMAIN outbox}
      /\ outbox \in Seq(Discovery!Messages)
      /\ UNCHANGED <<value, stateReceived, discoveryPublished, name, shownName, renames,
                     discoverOnConnect, retained, revoked>>
  BY DEF Discovery!BrokerInv, Discovery!ConnectionLost, Discovery!TypeOK
<1>2. /\ Discovery!NamesFollow' /\ Discovery!Renaming' = Discovery!Renaming
      /\ inputs' \in 0..MaxInputs
  BY <1>1, NamesStay, InputCounts
<1>3. /\ DOMAIN outbox = 1..Len(outbox) /\ \A i \in 1..Len(outbox) : outbox[i] \in Discovery!Messages
      /\ Len(outbox') = 0 /\ outbox' \in Seq(Discovery!Messages)
  BY <1>1
<1>4. ASSUME NEW topic, NEW e, NEW kept, NEW x,
             Discovery!Settles(outbox, kept, topic, e, x), <<topic, e>> \notin lost'
      PROVE  Discovery!Settles(outbox', kept, topic, e, x)
  <2>1. \A i \in 1..Len(outbox) : ~Discovery!Carries(outbox[i], topic, e)
    BY <1>1, <1>3, <1>4 DEF Discovery!Carries, Discovery!Key
  <2>2. kept = x
    BY <1>4, <2>1 DEF Discovery!Settles
  <2>3. QED
    BY <1>3, <2>2 DEF Discovery!Settles
<1>5. Discovery!BrokerWillAgree'
  BY <1>1, <1>2, <1>4 DEF Discovery!BrokerWillAgree
<1>6. Discovery!OnlyForAReason'
  BY <1>1, <1>3 DEF Discovery!OnlyForAReason, Discovery!Reason
<1>7. Discovery!TypeOK'
  <2>1. \A k \in lost' : \E m \in Discovery!Messages : k = Discovery!Key(m)
    BY <1>1, <1>3 DEF Discovery!TypeOK
  <2>2. QED
    BY <1>1, <1>2, <1>3, <2>1 DEF Discovery!TypeOK
<1>8. Discovery!HeardIsKept'
  BY <1>1 DEF Discovery!HeardIsKept
<1>9. QED
  BY <1>2, <1>5, <1>6, <1>7, <1>8 DEF Discovery!BrokerInv

-----------------------------------------------------------------------------
(* The start, and all together.                                            *)

LEMMA BrokerInvInit ==
  ASSUME Discovery!Init
  PROVE  Discovery!BrokerInv
<1> DEFINE preset == Optimistic \ Internal
           ready == IF connected THEN Always \ Discovery!Hidden ELSE {}
           T == {Discovery!Message("state", e, Default) : e \in preset}
           q == Discovery!SetToSeq(T)
           online == Discovery!Message("online", NoEntity, 1)
           before == q \o <<online>>
<1>1. /\ connected \in BOOLEAN /\ discoverOnConnect = ~connected
      /\ value = [e \in Entities |-> IF e \in Optimistic THEN Default ELSE 0]
      /\ stateReceived = {} /\ discoveryPublished = ready
      /\ name = [e \in Entities |-> 1] /\ shownName = name /\ renames = <<>>
      /\ outbox = before \o Discovery!Configs(ready, shownName)
      /\ retained = [config |-> [e \in Entities |-> 0], state |-> [e \in Entities |-> 0]]
      /\ status = "none" /\ inputs = 0 /\ lost = {} /\ revoked = {}
  BY DEF Discovery!Init
<1>2. 1 \in Discovery!Names /\ MaxInputs \in Nat
  BY AutomationsAssumption DEF Discovery!Names
<1>3. /\ ready \in SUBSET Entities /\ ready \cap Discovery!Hidden = {} /\ ready \subseteq Always
      /\ preset \in SUBSET Entities /\ preset \cap Internal = {}
      /\ shownName \in [Entities -> Discovery!Names]
  BY <1>1, <1>2, DiscoveryAssumption
<1>4. q \in Seq(T) /\ \A e \in preset : \E i \in 1..Len(q) :
                        q[i] = Discovery!Message("state", e, Default)
  <2> DEFINE f == [e \in preset |-> Discovery!Message("state", e, Default)]
  <2>1. IsFiniteSet(Entities)
    BY DiscoveryAssumption DEF Discovery!IsFiniteSet, IsFiniteSet
  <2>2. IsFiniteSet(preset)
    BY <1>3, <2>1, FS_Subset
  <2>3. f \in Surjection(preset, T)
    BY DEF Surjection
  <2>4. IsFiniteSet(T)
    BY <2>2, <2>3, FS_Surjection
  <2>5. QED
    BY <2>4, SetToSeqLists
<1>5. T \subseteq Discovery!Messages /\ online \in Discovery!Messages
  BY <1>3, MessagesTyped, DiscoveryAssumption DEF Discovery!Messages
<1> HIDE DEF q, online, T
<1>6. /\ before \in Seq(Discovery!Messages)
      /\ \A j \in 1..Len(before) : before[j] \in T \cup {online}
      /\ \A i \in 1..Len(q) : before[i] = q[i] /\ i \in 1..Len(before)
  <2>1. q \in Seq(T \cup {online}) /\ <<online>> \in Seq(T \cup {online})
    BY <1>4
  <2>2. /\ before \in Seq(T \cup {online})
        /\ \A i \in 1..Len(q) : before[i] = q[i] /\ i \in 1..Len(before)
    BY <2>1
  <2>3. T \cup {online} \subseteq Discovery!Messages
    BY <1>5
  <2> HIDE DEF before
  <2>4. before \in Seq(Discovery!Messages)
    BY <2>2, <2>3
  <2>5. QED
    BY <2>2, <2>4
<1> HIDE DEF before, ready, preset
<1>7. /\ outbox \in Seq(Discovery!Messages)
      /\ \A i \in 1..Len(outbox) :
           \/ \E j \in 1..Len(before) : outbox[i] = before[j]
           \/ \E e \in ready : outbox[i] = Discovery!Message("config", e, shownName[e])
      /\ \A j \in 1..Len(before) : \E i \in 1..Len(outbox) : outbox[i] = before[j]
      /\ \A e \in ready : \E i \in 1..Len(outbox) :
           outbox[i] = Discovery!Message("config", e, shownName[e])
  <2> DEFINE msgs == before \o Discovery!Configs(ready, shownName)
  <2>1. /\ msgs \in Seq(Discovery!Messages)
        /\ \A i \in 1..Len(msgs) :
             \/ \E j \in 1..Len(before) : msgs[i] = before[j]
             \/ \E e \in ready : msgs[i] = Discovery!Message("config", e, shownName[e])
        /\ \A j \in 1..Len(before) : \E i \in 1..Len(msgs) : msgs[i] = before[j]
        /\ \A e \in ready : \E i \in 1..Len(msgs) :
             msgs[i] = Discovery!Message("config", e, shownName[e])
    <3>1. /\ ready \in SUBSET Entities /\ shownName \in [Entities -> Discovery!Names]
          /\ before \in Seq(Discovery!Messages)
      BY <1>3, <1>6
    <3>2. QED
      BY <3>1, PublishMessages
  <2>2. outbox = msgs
    BY <1>1
  <2> HIDE DEF msgs
  <2>3. QED
    BY <2>1, <2>2
\* Every message is the state of a preset entity, 'online', or a configuration.
<1>8. ASSUME NEW i \in 1..Len(outbox)
      PROVE  \/ /\ outbox[i].topic = "state" /\ outbox[i].entity \in preset
                /\ outbox[i].payload = Default
             \/ outbox[i].topic = "online"
             \/ /\ outbox[i].topic = "config" /\ outbox[i].entity \in ready
                /\ outbox[i].payload = 1
  <2>1. \A e \in ready : shownName[e] = 1
    BY <1>1, <1>3
  <2>2. outbox[i] \in T \cup {online}
        \/ \E e \in ready : outbox[i] = Discovery!Message("config", e, shownName[e])
    BY <1>6, <1>7
  <2>3. CASE outbox[i] \in T
    BY <2>3 DEF T, Discovery!Message
  <2>4. CASE outbox[i] = online
    BY <2>4 DEF online, Discovery!Message
  <2>5. ASSUME NEW e \in ready, outbox[i] = Discovery!Message("config", e, 1)
        PROVE  /\ outbox[i].topic = "config" /\ outbox[i].entity \in ready
               /\ outbox[i].payload = 1
    BY <2>5 DEF Discovery!Message
  <2>6. QED
    BY <2>1, <2>2, <2>3, <2>4, <2>5
<1>9. ASSUME NEW topic, NEW e, NEW kept, NEW x,
             \A i \in 1..Len(outbox) : Discovery!Carries(outbox[i], topic, e) => outbox[i].payload = x,
             (\A i \in 1..Len(outbox) : ~Discovery!Carries(outbox[i], topic, e)) => kept = x
      PROVE  Discovery!Settles(outbox, kept, topic, e, x)
  BY <1>9 DEF Discovery!Settles
<1>10. ASSUME NEW e \in Entities
       PROVE  Discovery!Settles(outbox, retained.state[e], "state", e,
                                IF e \in Internal THEN 0 ELSE value[e])
  <2> DEFINE x == IF e \in Internal THEN 0 ELSE value[e]
  <2>1. x = (IF e \in preset THEN Default ELSE 0) /\ retained.state[e] = 0
    BY <1>1 DEF preset
  <2>2. ASSUME NEW i \in 1..Len(outbox), Discovery!Carries(outbox[i], "state", e)
        PROVE  outbox[i].payload = x
    BY <1>8, <2>1, <2>2 DEF Discovery!Carries
  <2>3. ASSUME e \in preset
        PROVE  \E i \in 1..Len(outbox) : Discovery!Carries(outbox[i], "state", e)
    <3>1. PICK j \in 1..Len(before) : before[j] = Discovery!Message("state", e, Default)
      BY <1>4, <1>6, <2>3
    <3>2. PICK i \in 1..Len(outbox) : outbox[i] = Discovery!Message("state", e, Default)
      BY <1>7, <3>1
    <3>3. QED
      BY <3>2 DEF Discovery!Carries, Discovery!Message
  <2> HIDE DEF x
  <2>4. Discovery!Settles(outbox, retained.state[e], "state", e, x)
    BY <1>9, <2>1, <2>2, <2>3
  <2>5. QED
    BY <2>4 DEF x
<1>11. ASSUME NEW e \in Entities
       PROVE  Discovery!Settles(outbox, retained.config[e], "config", e,
                                IF e \in discoveryPublished THEN name[e] ELSE 0)
  <2> DEFINE x == IF e \in discoveryPublished THEN name[e] ELSE 0
  <2>1. x = (IF e \in ready THEN 1 ELSE 0) /\ retained.config[e] = 0
    BY <1>1
  <2>2. ASSUME NEW i \in 1..Len(outbox), Discovery!Carries(outbox[i], "config", e)
        PROVE  outbox[i].payload = x
    BY <1>8, <2>1, <2>2 DEF Discovery!Carries
  <2>3. ASSUME e \in ready
        PROVE  \E i \in 1..Len(outbox) : Discovery!Carries(outbox[i], "config", e)
    <3>1. PICK i \in 1..Len(outbox) : outbox[i] = Discovery!Message("config", e, shownName[e])
      BY <1>7, <2>3
    <3>2. QED
      BY <3>1 DEF Discovery!Carries, Discovery!Message
  <2> HIDE DEF x
  <2>4. Discovery!Settles(outbox, retained.config[e], "config", e, x)
    BY <1>9, <2>1, <2>2, <2>3
  <2>5. QED
    BY <2>4 DEF x
<1>12. Discovery!BrokerWillAgree
  BY <1>10, <1>11 DEF Discovery!BrokerWillAgree
<1>13. Discovery!OnlyForAReason
  <2>1. \A e \in ready : Discovery!Reason(e)
    BY <1>3 DEF Discovery!Reason
  <2>2. ASSUME NEW i \in 1..Len(outbox), outbox[i].topic = "config"
        PROVE  Discovery!Reason(outbox[i].entity)
    BY <1>8, <2>1, <2>2
  <2>3. QED
    BY <1>1, <2>1, <2>2 DEF Discovery!OnlyForAReason
<1>14. Discovery!TypeOK
  <2>1. ready \subseteq Entities \ Discovery!Hidden
    BY <1>3
  <2>2. renames \in Seq([entity : Entities, name : Discovery!Names])
    BY <1>1
  <2>3. /\ value \in [Entities -> Values \cup {0}]
        /\ retained \in [config : [Entities -> Discovery!Names \cup {0}],
                         state  : [Entities -> Values \cup {0}]]
    BY <1>1, DiscoveryAssumption
  <2>4. QED
    BY <1>1, <1>2, <1>3, <1>7, <2>1, <2>2, <2>3 DEF Discovery!TypeOK
<1>15. Discovery!NamesFollow /\ Discovery!HeardIsKept
  <2>1. Len(renames) = 0
    BY <1>1
  <2>2. Discovery!NamesFollow
    BY <1>1, <2>1 DEF Discovery!NamesFollow
  <2>3. Discovery!HeardIsKept
    <3>1. \A e \in Entities : Link[e] \notin stateReceived /\ e \notin stateReceived
      BY <1>1
    <3>2. QED
      BY <1>1, <3>1 DEF Discovery!HeardIsKept
  <2>4. QED
    BY <2>2, <2>3
<1>16. QED
  BY <1>12, <1>13, <1>14, <1>15 DEF Discovery!BrokerInv

LEMMA NothingBrokers ==
  ASSUME Discovery!BrokerInv, UNCHANGED discoveryVars
  PROVE  Discovery!BrokerInv'
BY DEF discoveryVars, Discovery!BrokerInv, Discovery!TypeOK, Discovery!NamesFollow,
       Discovery!OnlyForAReason, Discovery!HeardIsKept, Discovery!BrokerWillAgree,
       Discovery!Renaming, Discovery!Reason

LEMMA BrokerInvStep ==
  ASSUME Discovery!BrokerInv, Discovery!Next
  PROVE  Discovery!BrokerInv'
<1>1. ASSUME NEW e \in Entities, Discovery!SameState(e)
      PROVE  Discovery!BrokerInv'
  <2>1. UNCHANGED discoveryVars
    BY <1>1 DEF Discovery!SameState, Discovery!brokerVars, discoveryVars
  <2>2. QED
    BY <2>1, NothingBrokers
<1>2. ASSUME NEW e \in Entities, Discovery!Revoke(e) \/ Discovery!Rename(e)
      PROVE  Discovery!BrokerInv'
  BY <1>2, RevokeInv, RenameInv
<1>3. ASSUME NEW e \in Entities, NEW v \in Values, Discovery!NewState(e, v)
      PROVE  Discovery!BrokerInv'
  BY <1>3, NewStateInv
<1>4. CASE Discovery!RenameTimer
  BY <1>4, RenameTimerInv
<1>5. CASE Discovery!HomeAssistantOnline \/ Discovery!Connect
  BY <1>5, RepublishInv
<1>6. CASE Discovery!Deliver
  BY <1>6, DeliverInv
<1>7. CASE Discovery!ConnectionLost
  BY <1>7, ConnectionLostInv
<1>8. QED
  BY <1>1, <1>2, <1>3, <1>4, <1>5, <1>6, <1>7 DEF Discovery!Next

\* What the invariant says of a state in which everything has arrived, and of what
\* is announced.
LEMMA BrokerInvShows ==
  ASSUME Discovery!BrokerInv
  PROVE  Discovery!BrokerAgrees /\ Discovery!HeardIsDiscovered /\ Discovery!DiscoveredForAReason
<1>1. ASSUME outbox = <<>>, NEW kept, NEW topic, NEW e, NEW x,
             Discovery!Settles(outbox, kept, topic, e, x)
      PROVE  kept = x
  <2>1. Len(outbox) = 0
    BY <1>1
  <2>2. QED
    BY <1>1, <2>1 DEF Discovery!Settles
<1>2. Discovery!BrokerAgrees
  BY <1>1 DEF Discovery!BrokerInv, Discovery!BrokerAgrees, Discovery!BrokerWillAgree
<1>3. Discovery!HeardIsDiscovered
  BY DEF Discovery!BrokerInv, Discovery!HeardIsDiscovered, Discovery!HeardIsKept
<1>4. Discovery!DiscoveredForAReason
  BY DEF Discovery!BrokerInv, Discovery!DiscoveredForAReason, Discovery!OnlyForAReason,
         Discovery!Reason
<1>5. QED
  BY <1>2, <1>3, <1>4

\* Once every message has arrived, the broker keeps for Home Assistant what the bridge
\* believes (the state of each entity, the newest name of those announced), except
\* where the connection took the last message with it or the timer of a rename runs;
\* what was heard is announced, and nothing without a reason.
THEOREM BrokerAgreesCorrect == AutomationsSpec => []BrokerAgrees
<1>1. AutomationsInit => Discovery!BrokerInv
  BY BrokerInvInit DEF AutomationsInit
<1>2. Discovery!BrokerInv /\ [AutomationsNext]_allVars => Discovery!BrokerInv'
  BY NothingBrokers, BrokerInvStep
     DEF AutomationsNext, ManagerStep, InsideStep, TriggersStep, DiscoveryStep, allVars
<1>3. Discovery!BrokerInv => BrokerAgrees
  BY BrokerInvShows DEF BrokerAgrees
<1>4. QED
  BY <1>1, <1>2, <1>3, PTL DEF AutomationsSpec
=============================================================================

-------------------------- MODULE AutomationManager --------------------------
(***************************************************************************)
(* The runs of one automation: runAutomation, executeAutomation and what   *)
(* surrounds them in the class AutomationManager of                        *)
(* packages/core/src/automation/automation-manager.ts.                     *)
(*                                                                         *)
(* A trigger starts a run, and the automation's mode decides what happens  *)
(* when a run is in progress: ignore the trigger, abort the run, queue the *)
(* new one, or run in parallel.  Everything the manager keeps for this is  *)
(* keyed by the automation's id, and no operation touches two ids, so one  *)
(* automation is modelled.                                                 *)
(*                                                                         *)
(* A run is an async function: one action below is what it does between    *)
(* two awaits.  An action of the automation that triggers it again while   *)
(* it is executed synchronously (update_state) is a trigger that comes     *)
(* while the run waits for that action.                                    *)
(***************************************************************************)
EXTENDS Integers, Sequences

CONSTANTS
  MaxRuns,    \* bound: runs requested, numbered in the order of the requests
  Actions,    \* automation.then: for each action, what it waits for
  Modes,      \* the modes the automation may be configured with
  EditModes   \* the modes an edit may set while the bridge is running

\* "delay" and "wait_until" listen to the abort signal; a command, a packet or
\* a script is awaited without it; "stop" ends the run with an error.
ActionKinds == {"delay", "send", "stop"}
AllModes    == {"parallel", "single", "restart", "queued"}

ASSUME AutomationAssumption ==
  /\ MaxRuns \in Nat
  /\ Actions \in Seq(ActionKinds) /\ Actions # <<>>
  /\ Modes \subseteq AllModes
  /\ EditModes \subseteq AllModes

Runs  == 1..MaxRuns
NoRun == 0

VARIABLES
  mode,     \* automation.mode of the configured automation
  listed,   \* it is in automationList
  started,  \* the manager is subscribed to its triggers
  running,  \* its entry in runningAutomations: the run of the controller
  queue,    \* its entry in automationQueues
  runMode,  \* mode of the configuration a run was requested with
  phase,    \* where a run is
  pc,       \* the action a run awaits
  aborted,  \* abortController.signal.aborted of a run
  nextRun   \* the run the next request gets

configVars == <<mode, listed, started>>
vars == <<configVars, running, queue, runMode, phase, pc, aborted, nextRun>>

Phases == {"none", "queued", "waiting", "ended", "skipped"}

TypeOK ==
  /\ mode \in AllModes
  /\ listed \in BOOLEAN
  /\ started \in BOOLEAN
  /\ running \in Runs \cup {NoRun}
  /\ queue \in Seq(Runs)
  /\ runMode \in [Runs -> AllModes \cup {"none", "manual"}]
  /\ phase \in [Runs -> Phases]
  /\ pc \in [Runs -> 0..Len(Actions)]
  /\ aborted \in [Runs -> BOOLEAN]
  /\ nextRun \in 1..(MaxRuns + 1)

Init ==
  /\ mode \in Modes
  /\ listed = TRUE
  /\ started = TRUE
  /\ running = NoRun
  /\ queue = <<>>
  /\ runMode = [r \in Runs |-> "none"]
  /\ phase = [r \in Runs |-> "none"]
  /\ pc = [r \in Runs |-> 0]
  /\ aborted = [r \in Runs |-> FALSE]
  /\ nextRun = 1

InProgress(r) == phase[r] = "waiting"
-----------------------------------------------------------------------------
(* Beginning and end of a run, the guard of which may hold or not.         *)

\* Variant with a fault: the run is not entered into runningAutomations.
BeginUntracked(r, m) ==
  /\ phase' = [phase EXCEPT ![r] = "waiting"]
  /\ pc' = [pc EXCEPT ![r] = 1]
  /\ UNCHANGED running

\* executeAutomation when the guard holds: the run is tracked unless its mode
\* is parallel, and awaits its first action.
Begin(r, m) ==
  /\ phase' = [phase EXCEPT ![r] = "waiting"]
  /\ pc' = [pc EXCEPT ![r] = 1]
  /\ running' = IF m = "parallel" THEN running ELSE r

\* Variant with a fault: the queue is not looked at.
FinishWithoutNext(r, m) ==
  /\ phase' = [phase EXCEPT ![r] = "ended"]
  /\ running' = IF m \in {"parallel", "manual"} THEN running ELSE NoRun
  /\ UNCHANGED <<queue, pc>>

\* The finally block of executeAutomation: the entry of runningAutomations is
\* deleted, whichever run it names, and in queued mode next() begins the next
\* run before anything else can happen.  If its guard does not hold it ends at
\* once and its finally begins the one after it: k runs pass in this way.
Finish(r, m) ==
  \/ /\ m \in {"parallel", "manual"}
     /\ phase' = [phase EXCEPT ![r] = "ended"]
     /\ UNCHANGED <<running, queue, pc>>
  \/ /\ m \in {"single", "restart"}
     /\ phase' = [phase EXCEPT ![r] = "ended"]
     /\ running' = NoRun
     /\ UNCHANGED <<queue, pc>>
  \/ /\ m = "queued"
     /\ \E k \in 0..Len(queue) :
          LET next == IF k < Len(queue) THEN queue[k + 1] ELSE NoRun
              over == {r} \cup {queue[i] : i \in 1..k}
          IN /\ phase' = [x \in Runs |-> IF x \in over THEN "ended"
                                        ELSE IF x = next THEN "waiting"
                                        ELSE phase[x]]
             /\ pc' = [x \in Runs |-> IF x = next THEN 1 ELSE pc[x]]
             /\ running' = next
             /\ queue' = SubSeq(queue, k + 2, Len(queue))

\* executeAutomation.  When the guard does not hold there is nothing to do
\* (automation.else is empty), and the finally block follows at once.
Execute(r, m) ==
  \/ Begin(r, m) /\ UNCHANGED queue
  \/ Finish(r, m)
-----------------------------------------------------------------------------
(* Requests.                                                               *)

\* runAutomation, called for a state, packet, schedule or startup trigger.
Trigger(r) ==
  /\ listed /\ started
  /\ r = nextRun
  /\ nextRun' = nextRun + 1
  /\ runMode' = [runMode EXCEPT ![r] = mode]
  /\ UNCHANGED configVars
  /\ \/ /\ mode = "single" /\ running # NoRun
        /\ phase' = [phase EXCEPT ![r] = "skipped"]
        /\ UNCHANGED <<running, queue, pc, aborted>>
     \/ /\ mode = "queued" /\ running # NoRun
        /\ phase' = [phase EXCEPT ![r] = "queued"]
        /\ queue' = Append(queue, r)
        /\ UNCHANGED <<running, pc, aborted>>
     \/ /\ mode = "restart" /\ running # NoRun
        /\ aborted' = [aborted EXCEPT ![running] = TRUE]
        /\ Execute(r, mode)
     \/ /\ mode = "parallel" \/ running = NoRun
        /\ Execute(r, mode)
        /\ UNCHANGED aborted

\* runAutomationThen: the actions are run on request of the web interface, at
\* once and untracked.
RunThen(r) ==
  /\ r = nextRun
  /\ Len(Actions) > 0
  /\ nextRun' = nextRun + 1
  /\ runMode' = [runMode EXCEPT ![r] = "manual"]
  /\ phase' = [phase EXCEPT ![r] = "waiting"]
  /\ pc' = [pc EXCEPT ![r] = 1]
  /\ UNCHANGED <<configVars, running, queue, aborted>>

\* upsertAutomation: later triggers find the new configuration.
Upsert(m) ==
  /\ mode' = m
  /\ listed' = TRUE
  /\ UNCHANGED <<started, running, queue, runMode, phase, pc, aborted, nextRun>>

\* removeAutomation: no trigger finds it any more; runs and queue stay.
Remove ==
  /\ listed' = FALSE
  /\ UNCHANGED <<mode, started, running, queue, runMode, phase, pc, aborted,
                 nextRun>>

\* stop() of the manager: timers and subscriptions go; runs and queue stay.
Stop ==
  /\ started' = FALSE
  /\ UNCHANGED <<mode, listed, running, queue, runMode, phase, pc, aborted,
                 nextRun>>
-----------------------------------------------------------------------------
(* The course of a run.                                                    *)

\* The awaited action is done, or failed with an error that is only logged.
\* The loop goes on with the next action unless the run was aborted.
ActionDone(r) ==
  /\ phase[r] = "waiting"
  /\ Actions[pc[r]] # "stop"
  /\ Actions[pc[r]] = "delay" => ~aborted[r]
  /\ UNCHANGED <<configVars, runMode, aborted, nextRun>>
  /\ IF pc[r] < Len(Actions) /\ ~aborted[r]
     THEN /\ pc' = [pc EXCEPT ![r] = @ + 1]
          /\ UNCHANGED <<phase, running, queue>>
     ELSE Finish(r, runMode[r])

\* The awaited action throws: AbortError of a delay, StopActionError of stop,
\* and in a manual run, which has no try block, any error.
ActionThrows(r) ==
  /\ phase[r] = "waiting"
  /\ \/ Actions[pc[r]] = "stop"
     \/ Actions[pc[r]] = "delay" /\ aborted[r]
     \/ Actions[pc[r]] = "send" /\ runMode[r] = "manual"
  /\ UNCHANGED <<configVars, runMode, aborted, nextRun>>
  /\ Finish(r, runMode[r])
-----------------------------------------------------------------------------
Next ==
  \/ \E r \in Runs : \/ Trigger(r) \/ RunThen(r)
                     \/ ActionDone(r) \/ ActionThrows(r)
  \/ \E m \in EditModes : Upsert(m)
  \/ Remove \/ Stop

\* Delays elapse, commands are answered or given up (EverySendReturns of
\* CommandManager), and the promise reactions of a run are run.
Fairness ==
  \A r \in Runs : WF_vars(ActionDone(r) \/ ActionThrows(r))

Spec     == Init /\ [][Next]_vars
FairSpec == Spec /\ Fairness
-----------------------------------------------------------------------------
(* Properties.                                                             *)

\* "single" and "queued": triggered runs do not overlap.
RunsDoNotOverlap ==
  \A r, s \in Runs :
    /\ InProgress(r) /\ InProgress(s)
    /\ {runMode[r], runMode[s]} \subseteq {"single", "queued"}
    => r = s

\* No lost wake-up: a queued run waits for a run in progress, whose finally
\* will begin it, and the queue holds it once.
QueueIsDriven ==
  /\ queue # <<>> => \E r \in Runs : InProgress(r) /\ runMode[r] = "queued"
  /\ \A r \in Runs : phase[r] = "queued" => \E i \in 1..Len(queue) : queue[i] = r
  /\ \A i, j \in 1..Len(queue) : i < j => queue[i] < queue[j]

\* Queued runs begin in the order of their triggers.
QueueIsFifo ==
  \A r, s \in Runs :
    /\ r < s
    /\ runMode[r] = "queued" /\ runMode[s] = "queued"
    /\ phase[s] \notin {"none", "queued"}
    => phase[r] # "queued"

\* The tracked run is in progress: a trigger never finds the entry of a run
\* that has ended, which would block a single automation for ever.
TrackedRunIsAlive == running # NoRun => InProgress(running)

-----------------------------------------------------------------------------
(* What makes these inductive.                                             *)

\* A run that was not requested yet has no trace; a requested one has a mode,
\* and one in progress awaits one of the actions.
RunShape ==
  \A r \in Runs :
    /\ r >= nextRun <=> phase[r] = "none"
    /\ r >= nextRun <=> runMode[r] = "none"
    /\ InProgress(r) => pc[r] > 0
    /\ aborted[r] => phase[r] \in {"waiting", "ended"}
    /\ phase[r] = "queued" => runMode[r] = "queued"

\* The queue holds the queued runs, each once, in the order of their triggers.
QueueHolds ==
  /\ \A r \in Runs : phase[r] = "queued" <=> \E i \in 1..Len(queue) : queue[i] = r
  /\ \A i, j \in 1..Len(queue) : i < j => queue[i] < queue[j]

\* The tracked run is in progress, and of a mode that is tracked.
TrackedRun ==
  running # NoRun =>
    InProgress(running) /\ runMode[running] \in {"single", "restart", "queued"}

\* Inductive whatever edits are made: checked by TLC as part of RunsInTurn.
ManagerInv == TypeOK /\ RunShape /\ QueueHolds /\ TrackedRun

\* How much a mode takes for granted of the runs before: queued, that their ends
\* begin the next one; single, that their ends delete no entry but their own.
Rank(m) == CASE m = "queued" -> 0 [] m = "single" -> 1 [] OTHER -> 2

\* m may follow a run of mode k: neither takes the other's word in vain.
MayFollow(k, m) == k # "parallel" /\ m # "parallel" => Rank(k) <= Rank(m)

\* The edits for which runs take turns: from queued to single, from both to
\* restart, and to parallel.  After an edit from single to queued the end of the
\* single run does not look at the queue, and after one from restart the end of
\* an aborted run deletes the entry of a later one.
EditsKeepOrder ==
  \A m \in Modes \cup EditModes : \A e \in EditModes : MayFollow(m, e)

\* The modes met so far may be followed by those to come.
ModesMet ==
  /\ mode \in Modes \cup EditModes
  /\ \A r \in Runs : \A m \in EditModes \cup {mode} :
       runMode[r] \in {"single", "restart", "queued"} => MayFollow(runMode[r], m)

\* Before any run in restart mode, a run that others wait for is the tracked one.
TurnIsTracked ==
  (\A r \in Runs : runMode[r] # "restart") =>
    \A r \in Runs :
      InProgress(r) /\ runMode[r] \in {"single", "queued"} => running = r

\* Runs in their turn: single and queued runs do not overlap, a queued run waits
\* for one in progress and is begun in the order of the triggers, and the entry
\* of runningAutomations never names a run that has ended.
RunsInTurn ==
  /\ ManagerInv /\ RunsDoNotOverlap /\ QueueIsDriven /\ QueueIsFifo
  /\ TrackedRunIsAlive /\ ModesMet /\ TurnIsTracked
-----------------------------------------------------------------------------
\* Only the run that was in progress in restart mode is aborted, and an aborted
\* run starts no further action.
AbortedRunStops ==
  [][\A r \in Runs : aborted[r] => pc'[r] = pc[r] /\ aborted'[r]]_vars

\* docs/AUTOMATION.md: "restart: if already running, cancel it and start anew".
\* Of the runs that were started in restart mode, one is not cancelled.
RestartCancels ==
  \A r, s \in Runs :
    /\ InProgress(r) /\ InProgress(s)
    /\ runMode[r] = "restart" /\ runMode[s] = "restart"
    /\ ~aborted[r] /\ ~aborted[s]
    => r = s

\* Every requested run ends, the queued ones too.
EveryRunEnds ==
  \A r \in Runs : phase[r] # "none" ~> phase[r] \in {"ended", "skipped"}
=============================================================================

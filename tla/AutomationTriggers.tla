------------------------- MODULE AutomationTriggers -------------------------
(***************************************************************************)
(* How the triggers of automations are armed, fired and disarmed in the     *)
(* class AutomationManager of packages/core/src/automation/                *)
(* automation-manager.ts: timers for startup, interval and cron triggers,   *)
(* subscriptions for state triggers with their debounce, while automations  *)
(* are edited and the manager is started and stopped.                      *)
(*                                                                         *)
(* setTimeout and setInterval are the set `timers`; a timer knows the       *)
(* configuration its closure was made for.  automationTimers, the handles    *)
(* kept for clearing, is `tracked`.                                        *)
(***************************************************************************)
EXTENDS Integers, FiniteSets

CONSTANTS
    Ids,            \* automations
    Kinds,          \* what the configurations of an automation may trigger on
    Debounce,       \* debounce_ms, in ticks of the clock
    MaxTime,        \* bound: ticks
    MaxTimers       \* bound: timers ever set

TimerKinds == {"startup", "every", "cron"}

VARIABLES
    list,       \* automationList: id to its trigger kinds, Absent when not there
    started,    \* isStarted: subscriptions exist
    timers,     \* pending timers
    tracked,    \* automationTimers: id to the handles kept for it
    debounced,  \* debounceTracker of the trigger's key: time, or Never
    now,        \* the clock
    made        \* timers set so far; gives each one its handle

vars == <<list, started, timers, tracked, debounced, now, made>>

Absent == {"absent"}
Never == -1
Listed == {id \in Ids : list[id] # Absent}
Timer(id, kind, config, n) == [id |-> id, kind |-> kind, config |-> config, handle |-> n]

\* setupAutomationTriggers: one timer for each startup, interval and cron trigger,
\* whose handle is kept.
Wanted(ids, configs) == {w \in ids \X TimerKinds : w[2] \in configs[w[1]]}

Handles(wanted, n) == CHOOSE f \in [wanted -> n + 1 .. n + Cardinality(wanted)] :
                         \A a, b \in wanted : f[a] = f[b] => a = b

Setup(pending, track, ids, configs, n) ==
    LET wanted == Wanted(ids, configs)
        number == Handles(wanted, n)
    IN /\ made' = n + Cardinality(wanted)
       /\ timers' = pending \cup {Timer(w[1], w[2], configs[w[1]], number[w]) : w \in wanted}
       /\ tracked' = [id \in Ids |-> track[id] \cup {number[w] : w \in {v \in wanted : v[1] = id}}]

NotTracked(ids) == {t \in timers : t.id \notin ids \/ t.handle \notin tracked[t.id]}

Forget(ids) == [id \in Ids |-> IF id \in ids THEN {} ELSE tracked[id]]

\* start(): subscriptions, then the triggers of every automation.
Start ==
    /\ ~started
    /\ started' = TRUE
    /\ Setup(timers, tracked, Listed, list, made)
    /\ UNCHANGED <<list, debounced, now>>

\* stop(): every tracked timer is cleared, the subscriptions are removed.
Stop ==
    /\ started' = FALSE
    /\ timers' = NotTracked(Ids)
    /\ tracked' = Forget(Ids)
    /\ UNCHANGED <<list, debounced, now, made>>

\* Variant with a fault: the timers of the old configuration go on.
UpsertKeepsTimers(id, config) ==
    /\ list' = [list EXCEPT ![id] = config]
    /\ IF started THEN Setup(timers, tracked, {id}, [list EXCEPT ![id] = config], made)
       ELSE UNCHANGED <<timers, tracked, made>>
    /\ UNCHANGED <<started, debounced, now>>

\* upsertAutomation: the old configuration's timers go, the new one's are set
\* when the manager runs.
Upsert(id, config) ==
    LET known == IF list[id] = Absent THEN {} ELSE {id}
    IN /\ list' = [list EXCEPT ![id] = config]
       /\ IF started
          THEN Setup(NotTracked(known), Forget(known), {id}, [list EXCEPT ![id] = config], made)
          ELSE /\ timers' = NotTracked(known)
               /\ tracked' = Forget(known)
               /\ UNCHANGED made
       /\ UNCHANGED <<started, debounced, now>>

\* removeAutomation.
Remove(id) ==
    /\ list' = [list EXCEPT ![id] = Absent]
    /\ timers' = NotTracked({id})
    /\ tracked' = Forget({id})
    /\ UNCHANGED <<started, debounced, now, made>>

\* The timer of a cron trigger: it runs the automation and sets the next timer
\* of the chain, unless the automation has left the list.
CronFires(t) ==
    /\ t.kind = "cron"
    /\ IF t.id \in Listed
       THEN /\ made' = made + 1
            /\ timers' = (timers \ {t}) \cup {[t EXCEPT !.handle = made + 1]}
            /\ tracked' = [tracked EXCEPT ![t.id] = @ \cup {made + 1}]
       ELSE /\ timers' = timers \ {t}
            /\ UNCHANGED <<made, tracked>>
    /\ UNCHANGED <<list, started, debounced, now>>

\* The callbacks of setTimeout for startup triggers and of setInterval, which
\* only run the automation.
TimerFires(t) ==
    /\ t.kind \in {"startup", "every"}
    /\ timers' = IF t.kind = "every" THEN timers ELSE timers \ {t}
    /\ UNCHANGED <<list, started, tracked, debounced, now, made>>

\* matchesStateTrigger for a value that matches: within the debounce time of
\* the last one that was let through it is ignored.
LetThrough == debounced = Never \/ now - debounced >= Debounce

\* A state:changed event with a value that the state triggers match.  The
\* automations are asked in turn; the time is kept per entity, property and
\* match, so of several that have the same trigger the first takes it.
StateChanged ==
    /\ started
    /\ \E id \in Listed : "state" \in list[id]
    /\ IF LetThrough THEN debounced' = now
       ELSE UNCHANGED debounced
    /\ UNCHANGED <<list, started, timers, tracked, now, made>>

Tick ==
    /\ now < MaxTime
    /\ now' = now + 1
    /\ UNCHANGED <<list, started, timers, tracked, debounced, made>>

Init ==
    /\ list \in [Ids -> Kinds]
    /\ started = FALSE
    /\ timers = {}
    /\ tracked = [id \in Ids |-> {}]
    /\ debounced = Never
    /\ now = 0
    /\ made = 0

\* The clients of the manager edit and restart it; MaxTimers bounds the handles.
Edit == Start \/ Stop \/ \E id \in Ids : Remove(id) \/ \E c \in Kinds : Upsert(id, c)

Next ==
    \/ Edit /\ made' <= MaxTimers
    \/ \E t \in timers : TimerFires(t) \/ (CronFires(t) /\ made' <= MaxTimers)
    \/ StateChanged
    \/ Tick

Spec == Init /\ [][Next]_vars
-----------------------------------------------------------------------------
(***************************************************************************)
(* While the manager runs, each interval and cron trigger of a listed       *)
(* automation has exactly one pending timer, made for the configuration     *)
(* that is listed, and nothing else is pending but startup triggers; the     *)
(* handle of every pending timer is kept, so that stop() and an edit can     *)
(* clear it.  A stopped manager has no timer (setupScheduleTrigger,          *)
(* clearAutomationTimers, clearAllAutomationTimers).                        *)
(***************************************************************************)
TimersFollowTheList ==
    /\ \A t \in timers :
         /\ started
         /\ t.config = list[t.id] /\ t.kind \in list[t.id]
         /\ t.handle \in tracked[t.id]
    /\ started =>
         \A id \in Ids : \A kind \in {"every", "cron"} :
            LET own == {t \in timers : t.id = id /\ t.kind = kind}
            IN IF kind \in list[id] THEN \E t \in timers : own = {t} ELSE own = {}

\* TimersFollowTheList without counting, and the shape of the variables: inductive.
TriggersInv ==
    /\ list \in [Ids -> Kinds \cup {Absent}]
    /\ started \in BOOLEAN
    /\ DOMAIN tracked = Ids
    /\ \A t \in timers :
         /\ t = Timer(t.id, t.kind, t.config, t.handle)
         /\ t.id \in Ids /\ t.kind \in TimerKinds
         /\ started /\ t.config = list[t.id] /\ t.kind \in list[t.id]
         /\ t.handle \in tracked[t.id]
    /\ \A s, t \in timers : s.id = t.id /\ s.kind = t.kind => s = t
    /\ started => \A id \in Ids : \A kind \in {"every", "cron"} \cap list[id] :
                    \E t \in timers : t.id = id /\ t.kind = kind
=============================================================================

--------------------------- MODULE MCAutomations ---------------------------
(***************************************************************************)
(* What the bridge does on its own, in one run, each part from its own       *)
(* initial states: the runs of an automation and their modes                 *)
(* (AutomationManager), one run seen from inside (ActionRunner), the triggers  *)
(* (AutomationTriggers), and the announcements of entities (EntityDiscovery). *)
(* `part` says which one a behaviour is about; the others keep their initial  *)
(* values.                                                                  *)
(***************************************************************************)
EXTENDS AutomationManager, TLC

CONSTANTS
    Steps, Does, Program, ScriptVersions, MaxIterations,
    Ids, Kinds, Debounce, MaxTime, MaxTimers,
    send, note, delay, wait, stop, if, choose, repeat, while, callA, callB, a1, a2,
    light, motion, scene, secret,
    Entities, NoEntity, Link, Always, Internal, Skipped, Optimistic, Values, Default, MaxInputs

VARIABLES
    part,
    state, manual, frames, awaiting, runAborted, scripts,
    list, armed, timers, tracked, debounced, now, made,
    value, stateReceived, discoveryPublished, name, shownName, renames, connected,
    discoverOnConnect, outbox, retained, status, inputs, lost, revoked

Inside   == INSTANCE ActionRunner WITH aborted <- runAborted
Triggers == INSTANCE AutomationTriggers WITH started <- armed
Discovery == INSTANCE EntityDiscovery

ASSUME AutomationsAssumption ==
    /\ \A s \in Steps : Does[s] \in Inside!ActionType
    /\ Program \in Seq(Steps)
    /\ \A n \in DOMAIN ScriptVersions : ScriptVersions[n] \subseteq Seq(Steps)
    /\ Kinds \subseteq SUBSET (Triggers!TimerKinds \cup {"state"})
    /\ {MaxIterations, Debounce, MaxTime, MaxTimers, MaxInputs} \subseteq Nat

ASSUME DiscoveryAssumption ==
    /\ NoEntity \notin Entities
    /\ Link \in [Entities -> Entities \cup {NoEntity}]
    /\ Always \cup Internal \cup Skipped \cup Optimistic \subseteq Entities
    /\ Values \subseteq Nat \ {0} /\ Default \in Values
    /\ Discovery!IsFiniteSet(Entities)

insideVars   == <<state, manual, frames, awaiting, runAborted, scripts>>
triggersVars == <<list, armed, timers, tracked, debounced, now, made>>
discoveryVars == <<value, stateReceived, discoveryPublished, name, shownName, renames, connected,
                   discoverOnConnect, outbox, retained, status, inputs, lost, revoked>>
allVars      == <<part, vars, insideVars, triggersVars, discoveryVars>>

AutomationsInit ==
    /\ part \in {"manager", "run", "triggers", "discovery"}
    /\ Init /\ (part # "manager" => mode = CHOOSE m \in Modes : TRUE)
    /\ Inside!Init
    /\ (part # "run" => \A n \in DOMAIN scripts : scripts[n] = CHOOSE b \in ScriptVersions[n] : TRUE)
    /\ Triggers!Init
    /\ (part # "triggers" => \A id \in Ids : list[id] = CHOOSE k \in Kinds : TRUE)
    /\ Discovery!Init /\ (part # "discovery" => ~connected)

ManagerStep   == /\ part = "manager" /\ Next
                 /\ UNCHANGED <<part, insideVars, triggersVars, discoveryVars>>
InsideStep    == /\ part = "run" /\ Inside!Next
                 /\ UNCHANGED <<part, vars, triggersVars, discoveryVars>>
TriggersStep  == /\ part = "triggers" /\ Triggers!Next
                 /\ UNCHANGED <<part, vars, insideVars, discoveryVars>>
DiscoveryStep == /\ part = "discovery" /\ Discovery!Next
                 /\ UNCHANGED <<part, vars, insideVars, triggersVars>>

AutomationsNext == ManagerStep \/ InsideStep \/ TriggersStep \/ DiscoveryStep

\* The fairness of AutomationManager, of ActionRunner and of EntityDiscovery.
AutomationsSpec ==
    /\ AutomationsInit /\ [][AutomationsNext]_allVars
    /\ \A r \in Runs : WF_vars(part = "manager" /\ (ActionDone(r) \/ ActionThrows(r)))
    /\ WF_insideVars(part = "run" /\ Inside!Run)
    /\ WF_discoveryVars(part = "discovery" /\ Discovery!RenameTimer)
    /\ WF_discoveryVars(part = "discovery" /\ Discovery!Deliver)

-----------------------------------------------------------------------------
\* Every run ends: of those triggered each (AutomationManager), seen from inside
\* whichever way it goes (ActionRunner).
RunsEnd == EveryRunEnds /\ Inside!RunEnds

\* An aborted run starts nothing more (AutomationManager), except that it finishes
\* the scripts it is in (ActionRunner).
AbortStops == AbortedRunStops /\ Inside!AbortedRunWindsUp

\* Of AutomationTriggers: timers and handles follow the list of automations.
TimersFollowTheList == Triggers!TriggersInv /\ Triggers!TimersFollowTheList

-----------------------------------------------------------------------------
\* Of EntityDiscovery: once everything has arrived the broker keeps what the
\* bridge believes, and an entity is announced once something of it, or of the
\* entity it is linked to, was heard, and not before.
BrokerAgrees ==
    Discovery!BrokerInv /\ Discovery!BrokerAgrees
    /\ Discovery!HeardIsDiscovered /\ Discovery!DiscoveredForAReason

\* Of EntityDiscovery: a renamed entity comes back under its newest name.
RenamedComesBack == Discovery!RenamedComesBack

\* Of EntityDiscovery, what discovery-manager.ts:117 says: a connected bridge is
\* online for Home Assistant.
StatusIsTrue == part = "discovery" => Discovery!StatusIsTrue

-----------------------------------------------------------------------------
(* A run of a command, a delay and a stop, as in docs/AUTOMATION.md.        *)

SendThenDelay == <<"send", "delay">>
SendDelayStop == <<"send", "delay", "stop">>

(* Every kind of action, and two scripts that call each other in some of     *)
(* their versions.                                                          *)

Act(op) == [op |-> op, arms |-> <<>>, times |-> 0, script |-> "none"]

MCDoes ==
    (send :> Act("send")) @@ (note :> Act("note")) @@ (delay :> Act("delay")) @@
    (wait :> Act("wait_until")) @@ (stop :> Act("stop")) @@
    (if :> [Act("if") EXCEPT !.arms = <<<<send, callA>>, <<delay>>>>]) @@
    (choose :> [Act("choose") EXCEPT !.arms = <<<<stop>>, <<note>>, <<callB, wait>>>>]) @@
    (repeat :> [Act("repeat") EXCEPT !.arms = <<<<if, note>>>>, !.times = 3]) @@
    (while :> [Act("while") EXCEPT !.arms = <<<<wait, choose>>>>, !.times = 2]) @@
    (callA :> [Act("script") EXCEPT !.script = "a"]) @@
    (callB :> [Act("script") EXCEPT !.script = "b"])

MCProgram == <<repeat, while, callA, send>>

MCScripts == ("a" :> {<<send, callB>>, <<callB, delay>>}) @@
             ("b" :> {<<note, callA>>, <<repeat>>})

(* Two automations that are edited between triggers of every kind.          *)

MCKinds == {{"cron", "state"}, {"every", "startup"}}

(* Entities: motion is linked to light, scene is always discovered and        *)
(* optimistic, secret is internal.                                          *)

MCEntities == {light, motion, scene, secret}
MCLink     == [e \in MCEntities |-> IF e = motion THEN light ELSE NoEntity]
=============================================================================

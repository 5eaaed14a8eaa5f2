---------------------------- MODULE ActionRunner ----------------------------
(***************************************************************************)
(* The actions of one run, as executeAction and the execute...Action       *)
(* methods of packages/core/src/automation/automation-manager.ts carry     *)
(* them out: nested blocks, loops and scripts, the abort signal, errors and *)
(* the stop action.  AutomationManager says when runs begin and end; here a *)
(* run is looked at from inside.                                           *)
(*                                                                         *)
(* The call stack of the async functions is `frames`, innermost last.  One  *)
(* step of the model is the beginning or the end of one action.            *)
(***************************************************************************)
EXTENDS Integers, Sequences, FiniteSets

CONSTANTS
    Steps,          \* the actions of the configuration
    Does,           \* what each one does: [Steps -> ActionType]
    Program,        \* automation.then
    ScriptVersions, \* bodies a script may have: name, then a set of sequences
    MaxIterations   \* DEFAULT_MAX_ITERATIONS

Scripts == DOMAIN ScriptVersions
NoScript == "none"
Leaves == {"send", "note", "delay", "wait_until", "stop"}

\* arms: then and else of an if, the choices and the default of a choose, the
\* body of a loop.  times: count of a repeat, max of a while.
ActionType ==
    {a \in [op : Leaves \cup {"if", "choose", "repeat", "while", "script"},
            arms : Seq(Seq(Steps)), times : Int, script : Scripts \cup {NoScript}] :
        /\ a.op = "script" => a.script # NoScript
        /\ a.op \in {"repeat", "while"} => a.arms # <<>>}

VARIABLES
    state,      \* "none", "running", "ended"
    manual,     \* begun by runAutomationThen: no signal, no error handling
    frames,     \* blocks being executed
    awaiting,   \* the leaf whose promise is awaited, or <<>>
    aborted,    \* signal.aborted
    scripts     \* the map of scripts: name to body, <<>> when removed

vars == <<state, manual, frames, awaiting, aborted, scripts>>

\* A block: what is left of it, its body, the iterations to come, the script,
\* and whether a condition is asked before each iteration.
Block(body) == [rest |-> body, body |-> body, again |-> 0,
                script |-> NoScript, asks |-> FALSE]

Frames == [rest : Seq(Steps), body : Seq(Steps), again : Int,
           script : Scripts \cup {NoScript}, asks : BOOLEAN]

Top == frames[Len(frames)]
ScriptStack == {frames[i].script : i \in DOMAIN frames} \ {NoScript}

\* runScript passes no signal on to the actions of a script.
HasSignal == ~manual /\ ScriptStack = {}
Aborting == HasSignal /\ aborted

End == /\ state' = "ended"
       /\ frames' = <<>>
       /\ awaiting' = <<>>
       /\ UNCHANGED <<manual, aborted, scripts>>

GoOn(fs) == /\ frames' = fs
            /\ awaiting' = <<>>
            /\ UNCHANGED <<state, manual, aborted, scripts>>

\* The current block without its first action.
Advanced == [frames EXCEPT ![Len(frames)].rest = Tail(@)]

\* An error other than AbortError and StopActionError leaves every nested block
\* and is logged by executeAutomation, which takes the next action; nobody
\* catches it in a manual run.
Fail ==
    IF manual THEN End
    ELSE GoOn(<<IF Len(frames) = 1 THEN Advanced[1] ELSE frames[1]>>)

\* runScript: an unknown script, or one that is on the stack, is passed over.
EnterScript(fs, name) ==
    IF scripts[name] = <<>> \/ name \in ScriptStack THEN GoOn(fs)
    ELSE GoOn(Append(fs, [Block(scripts[name]) EXCEPT !.script = name]))

\* executeIfAction and executeChooseAction: the block the conditions select.
EnterBranch(fs, does) ==
    /\ does.op \in {"if", "choose"}
    /\ \E i \in DOMAIN does.arms : GoOn(Append(fs, Block(does.arms[i])))

\* executeRepeatAction: a count, or a condition asked before each iteration, the
\* first included, and a maximum.
EnterLoop(fs, does) ==
    LET count == IF does.times > MaxIterations THEN MaxIterations ELSE does.times
        loop  == [Block(does.arms[1]) EXCEPT !.asks = does.op = "while",
                    !.again = IF does.op = "repeat" THEN count - 1 ELSE does.times - 1]
    IN /\ does.op \in {"repeat", "while"}
       /\ \/ loop.again >= 0 /\ GoOn(Append(fs, loop))
          \/ (loop.again < 0 \/ loop.asks) /\ GoOn(fs)

\* Variant with a fault: the loop of a block does not look at the signal.
CallThoughAborted ==
    /\ state = "running" /\ awaiting = <<>> /\ Top.rest # <<>>
    /\ LET s == Head(Top.rest)
           does == Does[s]
       IN CASE does.op = "stop" -> End
            [] does.op = "script" -> EnterScript(Advanced, does.script)
            [] does.op \in Leaves \ {"stop"} ->
                 /\ awaiting' = <<s>>
                 /\ UNCHANGED <<state, manual, frames, aborted, scripts>>
            [] OTHER -> EnterBranch(Advanced, does) \/ EnterLoop(Advanced, does)

\* executeAction for the next action of the innermost block.  An aborted run
\* returns from its blocks instead, and executeAutomation ends it.  stop throws
\* an error that ends the run from wherever it is.
Call ==
    /\ state = "running" /\ awaiting = <<>> /\ Top.rest # <<>>
    /\ LET s == Head(Top.rest)
           does == Does[s]
       IN CASE Aborting -> End
            [] ~Aborting /\ does.op = "stop" -> End
            [] ~Aborting /\ does.op = "script" -> EnterScript(Advanced, does.script)
            [] ~Aborting /\ does.op \in Leaves \ {"stop"} ->
                 /\ awaiting' = <<s>>
                 /\ UNCHANGED <<state, manual, frames, aborted, scripts>>
            [] OTHER -> \/ EnterBranch(Advanced, does)
                        \/ EnterLoop(Advanced, does)
                        \/ does.op # "repeat" /\ Fail    \* the condition does not parse

\* The innermost block is through.  A loop begins again unless it was aborted,
\* has counted its iterations, or its condition fails; the others return to the
\* block around them, the outermost one ends the run.
BlockEnds ==
    /\ state = "running" /\ awaiting = <<>> /\ Top.rest = <<>>
    /\ LET outer == SubSeq(frames, 1, Len(frames) - 1)
       IN CASE outer = <<>> -> End
            [] outer # <<>> /\ (Top.again = 0 \/ Aborting) -> GoOn(outer)
            [] OTHER -> \/ GoOn(Append(outer, [Top EXCEPT !.rest = Top.body, !.again = @ - 1]))
                        \/ Top.asks /\ GoOn(outer)

ListensToSignal == Does[awaiting[1]].op \in {"delay", "wait_until"}

\* The awaited action is done: a time has passed, a condition has come true or
\* its time is up, a command was answered or given up.
Done ==
    /\ awaiting # <<>>
    /\ ~(ListensToSignal /\ Aborting)
    /\ GoOn(Advanced)

\* The awaited action throws: AbortError ends the run, other errors are handled.
Throws ==
    /\ awaiting # <<>>
    /\ IF ListensToSignal /\ Aborting THEN End
       ELSE Does[awaiting[1]].op # "delay" /\ Fail

-----------------------------------------------------------------------------
(* The environment.                                                        *)

\* executeAutomation after its guard, or runAutomationThen.
Begin(m) ==
    /\ state = "none"
    /\ state' = "running"
    /\ manual' = m
    /\ frames' = <<Block(Program)>>
    /\ UNCHANGED <<awaiting, aborted, scripts>>

\* A trigger in restart mode aborts the run.
Abort ==
    /\ state = "running" /\ ~manual
    /\ aborted' = TRUE
    /\ UNCHANGED <<state, manual, frames, awaiting, scripts>>

\* upsertScript and removeScript: calls to come find the new body, a script in
\* progress goes on with the old one.
EditScript(name, body) ==
    /\ scripts' = [scripts EXCEPT ![name] = body]
    /\ UNCHANGED <<state, manual, frames, awaiting, aborted>>

Init ==
    /\ state = "none"
    /\ manual = FALSE
    /\ frames = <<>>
    /\ awaiting = <<>>
    /\ aborted = FALSE
    /\ scripts \in {f \in [Scripts -> UNION {ScriptVersions[n] : n \in Scripts}] :
                       \A n \in Scripts : f[n] \in ScriptVersions[n]}

Run == Call \/ BlockEnds \/ Done \/ Throws

Next ==
    \/ Run
    \/ Abort
    \/ \E m \in BOOLEAN : Begin(m)
    \/ \E n \in Scripts : \E body \in ScriptVersions[n] \cup {<<>>} : EditScript(n, body)

\* Timers fire and commands are settled (EverySendReturns of CommandManager).
Fairness == WF_vars(Run)

Spec == Init /\ [][Next]_vars /\ Fairness
-----------------------------------------------------------------------------
\* The types of the variables: an awaited leaf is the next of its block, and what
\* is aborted is a run with a signal.
TypeOK ==
    /\ state \in {"none", "running", "ended"}
    /\ {manual, aborted} \subseteq BOOLEAN
    /\ frames \in Seq(Frames)
    /\ awaiting \in {<<>>} \cup {<<s>> : s \in Steps}
    /\ awaiting # <<>> => frames # <<>> /\ Top.rest # <<>>
    /\ scripts \in [Scripts -> Seq(Steps)]
    /\ state = "running" <=> frames # <<>>
    /\ aborted => ~manual /\ state # "none"

(***************************************************************************)
(* Every run ends: loops are counted, scripts cannot call each other in a   *)
(* circle however they are edited, a wait has a time limit (runScript,      *)
(* executeRepeatAction, executeWaitUntilAction).                            *)
(***************************************************************************)
RunEnds == state = "running" ~> state = "ended"

(***************************************************************************)
(* An aborted run finishes the scripts it is in, which do not hear of the   *)
(* abort, and starts nothing else: once outside of them it begins no action *)
(* and enters no script (the checks of signal.aborted in every block).      *)
(***************************************************************************)
AbortedRunWindsUp ==
    [][aborted /\ ScriptStack = {} =>
        /\ ScriptStack' = {}
        /\ awaiting' \in {awaiting, <<>>}]_vars
=============================================================================

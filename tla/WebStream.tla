----------------------------- MODULE WebStream -----------------------------
(***************************************************************************)
(* A page of the web interface and its connection to the service: the       *)
(* script of packages/ui/src/App.svelte (connectWebSocket, closeStream, the  *)
(* two effects that start and stop the raw packets) against                 *)
(* packages/service/src/websocket/stream-manager.ts.                        *)
(*                                                                         *)
(* A connection is a pair of queues.  The page and the service learn of its  *)
(* end at different times, and it may break anywhere.  The page is single   *)
(* threaded: an action is one event of it with the effects Svelte runs       *)
(* afterwards.  Of the entities one is kept, whose states are numbers: they  *)
(* do not interact.  What the service does for its subscribers is in         *)
(* RawConsumers.                                                            *)
(***************************************************************************)
EXTENDS Integers, Sequences

CONSTANTS
    Connections,   \* bound: 1 .. n, the WebSockets the page may make
    MaxStates,     \* bound: states the entity takes
    MaxChoices     \* bound: choices of the user

VARIABLES
    view, isRecording, mode,     \* what the user chose: activeView, rawPacketStreamMode
    bridgeInfo,                  \* "loading", "loaded" or "failed"
    socket,                      \* the connection in `socket`, 0 for null
    isSocketOpen, isStreaming,
    appliedMode,                 \* lastAppliedRawPacketMode
    reconnectTimer,              \* armed
    shown,                       \* the payload in deviceStates, 0 for none
    end,                         \* what the page knows of each connection
    accepted,                    \* what the service knows of it
    up, down,                    \* messages on their way
    subscribers,                 \* rawPacketSubscribers: mode, or "none"
    latest,                      \* latestStates
    state,                       \* the state of the entity in StateManager
    publishing,                  \* states whose publish has not called back
    choices

choiceVars  == <<view, isRecording, mode, choices>>
pageVars    == <<bridgeInfo, socket, isSocketOpen, isStreaming, appliedMode, reconnectTimer,
                 shown, end>>
serverVars  == <<accepted, subscribers, latest, state, publishing>>
vars        == <<choiceVars, pageVars, up, down, serverVars>>

Modes == {"all", "valid"}
Watching(v, r) == v = "analysis" \/ r

TypeOK ==
    /\ view \in {"analysis", "dashboard"} /\ {isRecording, isSocketOpen, isStreaming,
                                              reconnectTimer} \subseteq BOOLEAN
    /\ {mode, appliedMode} \subseteq Modes
    /\ socket \in Connections \cup {0}
    /\ end \in [Connections -> {"unused", "connecting", "open", "closed"}]
    /\ accepted \in [Connections -> {"no", "open", "gone"}]
    /\ subscribers \in [Connections -> Modes \cup {"none"}]
    /\ {shown, latest, state} \subseteq 0 .. MaxStates

Init ==
    /\ view = "dashboard" /\ isRecording = FALSE /\ mode = "valid"
    /\ choices = 0
    /\ bridgeInfo = "loading" /\ socket = 0
    /\ isSocketOpen = FALSE /\ isStreaming = FALSE /\ appliedMode = "valid"
    /\ reconnectTimer = FALSE
    /\ shown = 0
    /\ end = [c \in Connections |-> "unused"]
    /\ accepted = [c \in Connections |-> "no"]
    /\ up = [c \in Connections |-> <<>>] /\ down = [c \in Connections |-> <<>>]
    /\ subscribers = [c \in Connections |-> "none"]
    /\ latest = 0 /\ state = 0 /\ publishing = <<>>

-----------------------------------------------------------------------------
(* The page.                                                               *)

\* Variant with a fault: a recording that ends keeps the packets coming.
EffectsUntilLeft(open, streaming) ==
    LET wanted  == view' = "analysis" \/ isRecording \/ isRecording'
        changed == open /\ (wanted # streaming \/ (wanted /\ mode' # appliedMode))
        arrives == socket' # 0 /\ end'[socket'] = "open"
    IN /\ isSocketOpen' = open
       /\ isStreaming' = IF open THEN wanted ELSE streaming
       /\ appliedMode' = IF open /\ wanted THEN mode' ELSE appliedMode
       /\ up' = IF changed /\ arrives
                THEN [up EXCEPT ![socket'] = Append(@, IF wanted THEN mode' ELSE "stop")] ELSE up

\* The two $effects, which run when what they read has changed: the first starts
\* and stops the packets, the second starts them again in another mode.  A
\* command is sent, or not, by what the socket is; isStreaming does not tell.
Effects(open, streaming) ==
    LET wanted  == Watching(view', isRecording')
        changed == open /\ (wanted # streaming \/ (wanted /\ mode' # appliedMode))
        arrives == socket' # 0 /\ end'[socket'] = "open"
    IN /\ isSocketOpen' = open
       /\ isStreaming' = IF open THEN wanted ELSE streaming
       /\ appliedMode' = IF open /\ wanted THEN mode' ELSE appliedMode
       /\ up' = IF changed /\ arrives
                THEN [up EXCEPT ![socket'] = Append(@, IF wanted THEN mode' ELSE "stop")] ELSE up

SameChoices == UNCHANGED choiceVars

\* connectWebSocket: closeStream, which leaves isStreaming alone, and a new socket.
ConnectWebSocket ==
    /\ \E c \in Connections :
         /\ end[c] = "unused" /\ \A d \in 1 .. c - 1 : end[d] # "unused"
         /\ socket' = c
         /\ end' = [end EXCEPT ![c] = "connecting"]
    /\ reconnectTimer' = FALSE
    /\ SameChoices
    /\ Effects(FALSE, isStreaming)
    /\ UNCHANGED <<shown, down, serverVars>>

\* loadBridgeInfo: the page was mounted and asked for the bridges.
InfoLoaded == bridgeInfo = "loading" /\ bridgeInfo' = "loaded" /\ ConnectWebSocket

InfoFails ==
    /\ bridgeInfo = "loading" /\ bridgeInfo' = "failed"
    /\ UNCHANGED <<choiceVars, socket, isSocketOpen, isStreaming, appliedMode, reconnectTimer,
                   shown, end, up, down, serverVars>>

\* The timer of handleDisconnect.
ReconnectTimer == reconnectTimer /\ UNCHANGED bridgeInfo /\ ConnectWebSocket

Opened(c) ==
    /\ end[c] = "connecting" /\ accepted[c] = "open"
    /\ end' = [end EXCEPT ![c] = "open"]
    /\ SameChoices
    /\ UNCHANGED <<socket, bridgeInfo, reconnectTimer, shown, down, serverVars>>
    /\ Effects(TRUE, isStreaming)

\* 'close' or 'error' of the socket: handleDisconnect, which leaves isSocketOpen
\* alone until the timer.
Disconnected(c) ==
    /\ end[c] \in {"connecting", "open"}
    /\ end' = [end EXCEPT ![c] = "closed"]
    /\ down' = [down EXCEPT ![c] = <<>>]
    /\ socket' = 0
    /\ reconnectTimer' = TRUE
    /\ SameChoices
    /\ Effects(isSocketOpen, FALSE)
    /\ UNCHANGED <<bridgeInfo, shown, serverVars>>

\* The user goes to another view, begins or ends a recording, wants other packets.
Choose ==
    /\ choices < MaxChoices /\ choices' = choices + 1
    /\ \/ view' \in {"analysis", "dashboard"} \ {view} /\ UNCHANGED <<isRecording, mode>>
       \/ isRecording' = ~isRecording /\ UNCHANGED <<view, mode>>
       \/ mode' \in Modes \ {mode} /\ UNCHANGED <<view, isRecording>>
    /\ UNCHANGED <<socket, bridgeInfo, reconnectTimer, shown, end, down, serverVars>>
    /\ Effects(isSocketOpen, isStreaming)

\* A state the service sent.
Hear(c) ==
    /\ end[c] = "open" /\ down[c] # <<>>
    /\ shown' = Head(down[c])
    /\ down' = [down EXCEPT ![c] = Tail(@)]
    /\ UNCHANGED <<choiceVars, bridgeInfo, socket, isSocketOpen, isStreaming, appliedMode,
                   reconnectTimer, end, up, serverVars>>

-----------------------------------------------------------------------------
(* The service.                                                            *)

\* 'connection': the latest states are sent.
Accept(c) ==
    /\ end[c] = "connecting" /\ accepted[c] = "no"
    /\ accepted' = [accepted EXCEPT ![c] = "open"]
    /\ down' = [down EXCEPT ![c] = IF latest = 0 THEN <<>> ELSE <<latest>>]
    /\ UNCHANGED <<choiceVars, pageVars, up, subscribers, latest, state, publishing>>

\* 'message': a start, with its mode, or a stop.
Command(c) ==
    /\ accepted[c] = "open" /\ up[c] # <<>>
    /\ subscribers' = [subscribers EXCEPT ![c] = IF Head(up[c]) = "stop" THEN "none"
                                                 ELSE Head(up[c])]
    /\ up' = [up EXCEPT ![c] = Tail(@)]
    /\ UNCHANGED <<choiceVars, pageVars, down, accepted, latest, state, publishing>>

\* 'close' or 'error': what the page had sent last may be lost.
Gone(c) ==
    /\ accepted[c] = "open" /\ end[c] = "closed"
    /\ accepted' = [accepted EXCEPT ![c] = "gone"]
    /\ subscribers' = [subscribers EXCEPT ![c] = "none"]
    /\ up' = [up EXCEPT ![c] = <<>>]
    /\ UNCHANGED <<choiceVars, pageVars, down, latest, state, publishing>>

\* broadcastStateChange
Broadcast(payload) ==
    /\ latest' = payload
    /\ down' = [c \in Connections |->
                  IF accepted[c] = "open" /\ end[c] # "closed" THEN Append(down[c], payload)
                  ELSE down[c]]

\* applyStateUpdate: the state is published and told to the pages.
StateChanges ==
    /\ state < MaxStates /\ state' = state + 1
    /\ publishing' = Append(publishing, state + 1)
    /\ Broadcast(state + 1)
    /\ UNCHANGED <<choiceVars, pageVars, up, accepted, subscribers>>

\* A publish calls back, while the client is offline much later: the pages are
\* told once more, possibly after a newer state.
Published ==
    /\ publishing # <<>>
    /\ publishing' = Tail(publishing)
    /\ Broadcast(Head(publishing))
    /\ UNCHANGED <<choiceVars, pageVars, up, accepted, subscribers, state>>

Next ==
    \/ InfoLoaded \/ InfoFails \/ ReconnectTimer \/ Choose
    \/ \E c \in Connections : Opened(c) \/ Disconnected(c) \/ Hear(c)
    \/ \E c \in Connections : Accept(c) \/ Command(c) \/ Gone(c)
    \/ StateChanges \/ Published

Spec == Init /\ [][Next]_vars

-----------------------------------------------------------------------------
(* Properties                                                              *)

\* The page and the service have nothing on its way on the current connection.
Settled == socket # 0 /\ end[socket] = "open" /\ up[socket] = <<>> /\ down[socket] = <<>>

(***************************************************************************)
(* Raw packets go to who looks at them: once the commands of the page have   *)
(* arrived it is subscribed only while it shows the analysis or records, in  *)
(* the mode it shows; on its first connection always then; and a connection  *)
(* the service has seen end is not subscribed.                              *)
(***************************************************************************)
StreamMatches ==
    /\ Settled => subscribers[socket] \in
         CASE ~Watching(view, isRecording) -> {"none"}
           [] Watching(view, isRecording)  -> IF socket = 1 THEN {mode} ELSE {mode, "none"}
    /\ \A c \in Connections : accepted[c] = "gone" => subscribers[c] = "none"

(***************************************************************************)
(* What the page shows is the state of the entity, whichever connections it  *)
(* took, once nothing is on its way and every publish has called back; and a  *)
(* page that knows its bridges has a connection or will make one.            *)
(***************************************************************************)
PageFollows ==
    /\ Settled /\ publishing = <<>> => shown = state
    /\ bridgeInfo = "loaded" => socket # 0 \/ reconnectTimer
    /\ \A c \in Connections : end[c] \in {"connecting", "open"} => c = socket

-----------------------------------------------------------------------------
(* What makes these inductive                                              *)

\* The page knows its connection, and makes another only when it has none; on
\* the first it has asked for nothing yet.
PageKnowsSocket ==
    /\ socket # 0 => /\ end[socket] \in {"connecting", "open"} /\ ~reconnectTimer
                     /\ isSocketOpen <=> end[socket] = "open"
    /\ bridgeInfo # "loaded" => socket = 0 /\ ~reconnectTimer
    /\ end[1] = "unused" => \A c \in Connections : end[c] = "unused"
    /\ end[1] \in {"unused", "connecting"} => ~isSocketOpen /\ ~isStreaming

\* A connection opens when the service has accepted it; only then is it used.
AcceptedFirst ==
    \A c \in Connections :
        /\ end[c] = "unused" => accepted[c] = "no"
        /\ end[c] = "open" => accepted[c] = "open"
        /\ end[c] \in {"unused", "connecting"} \/ accepted[c] # "open" =>
             up[c] = <<>> /\ subscribers[c] = "none"
        /\ accepted[c] = "no" => down[c] = <<>>

\* While the page thinks itself connected, what it asked for is what it wants.
PageAsked ==
    isSocketOpen => /\ isStreaming <=> Watching(view, isRecording)
                    /\ isStreaming => appliedMode = mode

\* What the service will do once the commands on their way have arrived.
Ordered(c) == IF up[c] = <<>> THEN subscribers[c]
              ELSE LET command == up[c][Len(up[c])]
                   IN IF command = "stop" THEN "none" ELSE command

CommandsArrive ==
    socket # 0 /\ end[socket] = "open" =>
        Ordered(socket) \in CASE ~Watching(view, isRecording) -> {"none"}
                              [] Watching(view, isRecording)  ->
                                   IF socket = 1 THEN {mode} ELSE {mode, "none"}

\* The newest state is the last on its way, to the pages and from the publisher.
StatesArrive ==
    /\ \A c \in Connections : accepted[c] = "open" /\ end[c] # "closed" =>
         latest = IF down[c] = <<>> THEN shown ELSE down[c][Len(down[c])]
    /\ latest = 0 => shown = 0 /\ \A c \in Connections : down[c] = <<>>
    /\ state = IF publishing = <<>> THEN latest ELSE publishing[Len(publishing)]

StreamInv == /\ PageKnowsSocket /\ AcceptedFirst /\ PageAsked
             /\ CommandsArrive /\ StatesArrive
=============================================================================

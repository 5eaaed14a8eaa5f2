---------------------------- MODULE RawConsumers ----------------------------
(***************************************************************************)
(* The two consumers of raw packets, which share the raw listeners of the  *)
(* bridges: the log collector, which uploads the first packets if the user *)
(* consents (packages/service/src/log-collector.service.ts), and the       *)
(* clients that watch packets in the web interface                         *)
(* (packages/service/src/websocket/stream-manager.ts); these listeners:    *)
(* startRawPacketListener and stopRawPacketListener with the reference     *)
(* count behind them, and the two handlers of the port's 'data' event      *)
(* (packages/core/src/service/bridge.service.ts); and the boot of the      *)
(* service around them (packages/service/src/server.ts).                   *)
(*                                                                         *)
(* A bridge has one port.  Its context enters portContexts at the end of   *)
(* initialize(), which runs in the background; before that a request for   *)
(* raw packets finds no context and does nothing.                          *)
(*                                                                         *)
(* The web server listens before the bridges exist, so clients and consent *)
(* requests come at any time.  The async functions are split at their      *)
(* awaits.                                                                 *)
(***************************************************************************)
EXTENDS Integers, Sequences, FiniteSets

CONSTANTS
  Bridges,    \* the bridges the service starts
  Clients,    \* WebSocket clients
  Requests,   \* bound: POST /api/log-sharing/consent requests
  Target,     \* packets of a collection (1000 in the code)
  MaxChunks   \* bound: chunks of one bridge

ASSUME ConsumersAssumption ==
  /\ IsFiniteSet(Bridges)
  /\ Target \in Nat \ {0}
  /\ MaxChunks \in Nat

-----------------------------------------------------------------------------
(* The raw packet listeners of the bridges.                                *)

VARIABLES
  port,      \* "starting", "up" (in portContexts) or "failed"
  count,     \* rawListenerRefCounts of the bridge's port
  listener,  \* context.rawPacketListener # null
  onData,    \* raw listeners registered on the port's 'data' event
  chunks,    \* chunks the port delivered
  parsed,    \* chunks handed to stateManager.processIncomingData
  missed     \* history: bridges that a request for raw packets did not reach

listenerVars == <<port, count, listener, onData, chunks, parsed, missed>>

ListenerTypeOK ==
  /\ port \in [Bridges -> {"starting", "up", "failed"}]
  /\ count \in [Bridges -> Nat]
  /\ listener \in [Bridges -> BOOLEAN]
  /\ onData \in [Bridges -> Nat]
  /\ chunks \in [Bridges -> Nat]
  /\ parsed \in [Bridges -> Nat]
  /\ missed \subseteq Bridges

ListenerInit ==
  /\ port = [b \in Bridges |-> "starting"]
  /\ count = [b \in Bridges |-> 0]
  /\ listener = [b \in Bridges |-> FALSE]
  /\ onData = [b \in Bridges |-> 0]
  /\ chunks = [b \in Bridges |-> 0]
  /\ parsed = [b \in Bridges |-> 0]
  /\ missed = {}

\* The bridges of S that have a context.
Contexts(S) == {b \in S : port[b] = "up"}

\* attachRawListener on every context of S: count, and register if there is
\* no listener yet.
Attach(S) ==
  LET T == Contexts(S)
  IN /\ count' = [b \in Bridges |-> IF b \in T THEN count[b] + 1 ELSE count[b]]
     /\ listener' = [b \in Bridges |-> b \in T \/ listener[b]]
     /\ onData' = [b \in Bridges |-> IF b \in T /\ ~listener[b]
                                     THEN onData[b] + 1 ELSE onData[b]]
     /\ missed' = missed \cup (Bridges \ T)

\* No consumer comes or goes.
SameConsumers == UNCHANGED <<count, listener, onData, missed>>

\* Variant with a fault: the first consumer that leaves takes the listener.
DetachAtOnce(S) ==
  LET T == {b \in Contexts(S) : count[b] > 0}
  IN /\ count' = [b \in Bridges |-> IF b \in T THEN count[b] - 1 ELSE count[b]]
     /\ listener' = [b \in Bridges |-> listener[b] /\ b \notin T]
     /\ onData' = [b \in Bridges |-> IF b \in T /\ listener[b]
                                     THEN onData[b] - 1 ELSE onData[b]]
     /\ UNCHANGED missed

\* Variant with a fault: the count is not taken back.
DetachUncounted(S) == SameConsumers

\* detachRawListener on every context of S: the last reference unregisters.
Detach(S) ==
  LET T    == {b \in Contexts(S) : count[b] > 0}
      last == {b \in T : count[b] = 1}
  IN /\ count' = [b \in Bridges |-> IF b \in T THEN count[b] - 1 ELSE count[b]]
     /\ listener' = [b \in Bridges |-> listener[b] /\ b \notin last]
     /\ onData' = [b \in Bridges |-> IF b \in last /\ listener[b]
                                     THEN onData[b] - 1 ELSE onData[b]]
     /\ UNCHANGED missed

\* Variant with a fault: the bridge's own handler does not look for a listener.
HandOverAlways(b) ==
  /\ chunks' = [chunks EXCEPT ![b] = @ + 1]
  /\ parsed' = [parsed EXCEPT ![b] = @ + 1 + onData[b]]

\* A chunk arrives: the bridge's own handler parses it unless there is a raw
\* listener, and every raw listener parses it.
HandOver(b) ==
  /\ chunks' = [chunks EXCEPT ![b] = @ + 1]
  /\ parsed' = [parsed EXCEPT ![b] = @ + (IF listener[b] THEN 0 ELSE 1) + onData[b]]

\* initialize() of a bridge ends: its context is entered, or it failed.
BridgeStarted(b) ==
  /\ port[b] = "starting"
  /\ \E p \in {"up", "failed"} : port' = [port EXCEPT ![b] = p]
  /\ UNCHANGED <<count, listener, onData, chunks, parsed, missed>>
-----------------------------------------------------------------------------
(* The consumers.                                                          *)

VARIABLES
  boot,        \* "listening", "loading" (init awaits the file) or "ready"
  bridgeList,  \* server.bridges, and collector.bridges: {} before init
  subs,        \* rawPacketSubscribers
  consent,     \* config.consent: "unasked" (null), "yes" or "no"
  uid,         \* config.uid # null
  file,        \* the consent and uid in the configuration file
  collecting,  \* isCollecting
  buffers,     \* packetBuffers, in insertion order: port and packets
  packets,     \* packetCount
  request,     \* a consent request: "none", "done", or the answer it saves
  sends,       \* the calls of sendData: how far each has come in buffers
  overlapped   \* history: an answer came while another was saved, or before
               \* the file was read

consumerVars == <<boot, bridgeList, subs, consent, uid, file, collecting,
                  buffers, packets, request, sends, overlapped>>
vars == <<listenerVars, consumerVars>>

Answers == {"yes", "no"}
Stored  == {[consent |-> "unasked", uid |-> FALSE], [consent |-> "no", uid |-> FALSE],
            [consent |-> "yes", uid |-> TRUE]}

TypeOK ==
  /\ ListenerTypeOK
  /\ boot \in {"listening", "loading", "ready"}
  /\ bridgeList \subseteq Bridges
  /\ subs \subseteq Clients
  /\ consent \in Answers \cup {"unasked"}
  /\ uid \in BOOLEAN
  /\ file \in [consent : Answers \cup {"unasked"}, uid : BOOLEAN]
  /\ collecting \in BOOLEAN
  /\ buffers \in Seq([port : Bridges, n : 1..Target])
  /\ packets \in 0..Target
  /\ request \in [Requests -> {"none", "done"} \cup Answers]
  /\ sends \in Seq([at : 0..Cardinality(Bridges), over : BOOLEAN])
  /\ overlapped \in BOOLEAN

Init ==
  /\ ListenerInit
  /\ boot = "listening"
  /\ bridgeList = {}
  /\ subs = {}
  /\ consent = "unasked"
  /\ uid = FALSE
  /\ file \in Stored
  /\ collecting = FALSE
  /\ buffers = <<>>
  /\ packets = 0
  /\ request = [r \in Requests |-> "none"]
  /\ sends = <<>>
  /\ overlapped = FALSE

Saving == \E r \in Requests : request[r] \in Answers
-----------------------------------------------------------------------------
(* The collector.                                                          *)

\* startCollection.  The packetBuffers are emptied, also under a sendData that
\* iterates over them: its iterator starts again.
StartCollection ==
  IF collecting
  THEN SameConsumers /\ UNCHANGED <<collecting, buffers, packets, sends>>
  ELSE /\ collecting' = TRUE
       /\ buffers' = <<>>
       /\ packets' = 0
       /\ sends' = [i \in DOMAIN sends |-> [sends[i] EXCEPT !.at = 0]]
       /\ Attach(bridgeList)

\* stopCollection.
StopCollection ==
  /\ collecting' = FALSE
  /\ IF collecting THEN Detach(bridgeList) ELSE SameConsumers

\* updateConsent until its await.
UpdateConsent(r, c) ==
  /\ request[r] = "none"
  /\ overlapped' = (overlapped \/ Saving \/ boot # "ready")
  /\ consent' = c
  /\ uid' = (uid \/ c = "yes")
  /\ request' = [request EXCEPT ![r] = c]
  /\ UNCHANGED <<listenerVars, boot, bridgeList, subs, file, collecting, buffers,
                 packets, sends>>

\* Variant with a fault: a withdrawn consent leaves the collection running.
SavedKeepsCollecting(r) ==
  /\ request[r] \in Answers
  /\ request' = [request EXCEPT ![r] = "done"]
  /\ \/ file' = [consent |-> consent, uid |-> uid]
     \/ UNCHANGED file
  /\ \/ request[r] = "yes" /\ StartCollection
     \/ request[r] = "no"
        /\ SameConsumers /\ UNCHANGED <<collecting, buffers, packets, sends>>
  /\ UNCHANGED <<port, chunks, parsed, boot, bridgeList, subs, consent, uid,
                 overlapped>>

\* saveConfig is done, or failed and said so in the log; then updateConsent
\* starts or stops the collection, as its own request asked.
Saved(r) ==
  /\ request[r] \in Answers
  /\ request' = [request EXCEPT ![r] = "done"]
  /\ \/ file' = [consent |-> consent, uid |-> uid]
     \/ UNCHANGED file
  /\ \/ request[r] = "yes" /\ StartCollection
     \/ request[r] = "no" /\ StopCollection /\ UNCHANGED <<buffers, packets, sends>>
  /\ UNCHANGED <<port, chunks, parsed, boot, bridgeList, subs, consent, uid,
                 overlapped>>

\* handlePacket until it has counted the packet.
Collect(b) ==
  LET known == {i \in DOMAIN buffers : buffers[i].port = b}
  IN /\ buffers' = IF known = {} THEN Append(buffers, [port |-> b, n |-> 1])
                   ELSE [i \in DOMAIN buffers |->
                           IF i \in known THEN [buffers[i] EXCEPT !.n = @ + 1]
                           ELSE buffers[i]]
     /\ packets' = packets + 1

\* The port delivers a chunk.  Its raw listener passes it to the collector,
\* whose last packet ends the collection and begins the upload.
Chunk(b) ==
  /\ port[b] = "up"
  /\ chunks[b] < MaxChunks
  /\ HandOver(b)
  /\ IF collecting /\ listener[b]
     THEN /\ Collect(b)
          /\ IF packets' >= Target
             THEN /\ StopCollection
                  /\ sends' = IF uid THEN Append(sends, [at |-> 0, over |-> FALSE])
                              ELSE sends
             ELSE SameConsumers /\ UNCHANGED <<collecting, sends>>
     ELSE SameConsumers /\ UNCHANGED <<collecting, buffers, packets, sends>>
  /\ UNCHANGED <<port, boot, bridgeList, subs, consent, uid, file, request,
                 overlapped>>

\* sendData goes on after an await: it uploads the next port's packets, or
\* there is none left.
SendNext(i) ==
  /\ i \in DOMAIN sends /\ ~sends[i].over
  /\ IF sends[i].at < Len(buffers)
     THEN sends' = [sends EXCEPT ![i].at = @ + 1]
     ELSE sends' = [sends EXCEPT ![i].over = TRUE]
  /\ UNCHANGED <<listenerVars, boot, bridgeList, subs, consent, uid, file,
                 collecting, buffers, packets, request, overlapped>>

\* What sendData awaits rejects: the ports that remain are not uploaded.
SendFails(i) ==
  /\ i \in DOMAIN sends /\ ~sends[i].over
  /\ sends' = [sends EXCEPT ![i].over = TRUE]
  /\ UNCHANGED <<listenerVars, boot, bridgeList, subs, consent, uid, file,
                 collecting, buffers, packets, request, overlapped>>
-----------------------------------------------------------------------------
(* The clients.                                                            *)

\* A client's "start": the first one starts the listeners of all bridges.
Watch(c) ==
  /\ subs' = subs \cup {c}
  /\ IF subs = {} THEN Attach(bridgeList) ELSE SameConsumers
  /\ UNCHANGED <<port, chunks, parsed, boot, bridgeList, consent, uid, file,
                 collecting, buffers, packets, request, sends, overlapped>>

\* A client's "stop", or its connection closes or fails: the last one stops
\* the listeners of all bridges.
Unwatch(c) ==
  /\ c \in subs
  /\ subs' = subs \ {c}
  /\ IF subs' = {} THEN Detach(bridgeList) ELSE SameConsumers
  /\ UNCHANGED <<port, chunks, parsed, boot, bridgeList, consent, uid, file,
                 collecting, buffers, packets, request, sends, overlapped>>
-----------------------------------------------------------------------------
(* The boot.                                                               *)

\* loadAndStartBridges: the bridges exist, and the collector's init begins.
LoadBridges ==
  /\ boot = "listening"
  /\ boot' = "loading"
  /\ bridgeList' = Bridges
  /\ UNCHANGED <<listenerVars, subs, consent, uid, file, collecting, buffers,
                 packets, request, sends, overlapped>>

\* init has read the file; then the bridges are started in the background.
ConfigLoaded ==
  /\ boot = "loading"
  /\ boot' = "ready"
  /\ consent' = file.consent
  /\ uid' = file.uid
  /\ IF file.consent = "yes" THEN StartCollection
     ELSE SameConsumers /\ UNCHANGED <<collecting, buffers, packets, sends>>
  /\ UNCHANGED <<port, chunks, parsed, bridgeList, subs, file, request,
                 overlapped>>

\* A bridge started in the background is initialized.
Started(b) ==
  /\ boot = "ready"
  /\ BridgeStarted(b)
  /\ UNCHANGED consumerVars

Next ==
  \/ LoadBridges \/ ConfigLoaded
  \/ \E b \in Bridges : Started(b) \/ Chunk(b)
  \/ \E c \in Clients : Watch(c) \/ Unwatch(c)
  \/ \E r \in Requests, a \in Answers : UpdateConsent(r, a)
  \/ \E r \in Requests : Saved(r)
  \/ \E i \in DOMAIN sends : SendNext(i) \/ SendFails(i)

Spec == Init /\ [][Next]_vars
-----------------------------------------------------------------------------
(* Properties.                                                             *)

\* The listener is registered exactly while it is counted, and once.
AttachedIsCounted ==
  \A b \in Bridges :
    /\ listener[b] <=> count[b] > 0
    /\ onData[b] = IF listener[b] THEN 1 ELSE 0

\* Whoever watches the raw packets, and whenever they come and go, every chunk
\* is parsed exactly once.
ParsedOnce == parsed = chunks

\* The consumers of raw packets, each of which holds at most one reference.
Consumers == (IF subs # {} THEN 1 ELSE 0) + (IF collecting THEN 1 ELSE 0)

\* No reference outlives its consumer: when nobody watches and nothing is
\* collected, no bridge has a raw listener left.
NoListenerLeft == \A b \in Bridges : count[b] <= Consumers

\* Chunks are parsed once, however consumers come and go, and no listener is left.
ListenersSound == ParsedOnce /\ NoListenerLeft

\* bridge.service.ts: "Keep track of how many consumers need raw data".  While
\* somebody needs raw packets, every bridge that every consumer could reach
\* delivers them, whoever else comes and goes.
ConsumersAreFed ==
  Consumers > 0 => \A b \in Contexts(Bridges) \ missed : listener[b]

\* CHANGELOG.md: "log collection is performed with consent".  When the answers
\* came one after another and none is being saved, packets are collected only if
\* the last answer is yes.
ConsentRespected ==
  collecting /\ ~Saving /\ ~overlapped => consent = "yes"

\* The packets in the buffers, by buffer and place.
Buffered == UNION {{i} \X (1 .. buffers[i].n) : i \in DOMAIN buffers}

\* The packets counted are those in the buffers, and a collection in progress
\* is not full: the counter that ends it cannot step over the target.
CountsAgree ==
  /\ packets = Cardinality(Buffered)
  /\ collecting => packets < Target
  /\ \A i, j \in DOMAIN buffers : buffers[i].port = buffers[j].port => i = j
=============================================================================

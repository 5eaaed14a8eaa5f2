------------------------------- MODULE WebProof -------------------------------
(***************************************************************************)
(* Theorems about the web interface: the consumers of raw packets           *)
(* (RawConsumers), a page and its connection (WebStream), the edits of the   *)
(* configuration (ConfigEdits) and the packet log of a page (WebLogs), for    *)
(* any bridges, clients, connections, files, packets, requests and sizes.    *)
(***************************************************************************)
EXTENDS MCWeb, FiniteSetTheorems, SequenceTheorems, TLAPS

-----------------------------------------------------------------------------
(* The consumers of raw packets, about the specification of RawConsumers.    *)

\* Types of what counts and of what is counted.
CountsTyped ==
  /\ count \in [Bridges -> Nat]
  /\ listener \in [Bridges -> BOOLEAN]
  /\ onData \in [Bridges -> Nat]

ChunksTyped ==
  /\ chunks \in [Bridges -> Nat]
  /\ parsed \in [Bridges -> Nat]

\* Every reference is held by a consumer, and on a bridge that the next release
\* will reach.
Held ==
  \A b \in Bridges :
    /\ count[b] <= Consumers
    /\ count[b] > 0 => port[b] = "up" /\ b \in bridgeList

\* The inductive invariant: a chunk is parsed by one handler because the raw
\* listener is registered once while it is counted.
ListenerInv ==
  /\ port \in [Bridges -> {"starting", "up", "failed"}]
  /\ CountsTyped
  /\ ChunksTyped
  /\ AttachedIsCounted
  /\ ParsedOnce
  /\ Held

\* A consumer comes, a consumer goes, or none does.
ConsumerStep ==
  \/ Attach(bridgeList) /\ Consumers' = Consumers + 1
  \/ Detach(bridgeList) /\ Consumers' = Consumers - 1
  \/ SameConsumers /\ Consumers' = Consumers

\* What every step does, seen from the listeners: at most one consumer comes or
\* goes, at most one chunk is handed over, and no bridge is taken away.
Outline ==
  /\ ConsumerStep
  /\ UNCHANGED <<chunks, parsed>> \/ \E b \in Bridges : HandOver(b)
  /\ port' \in [Bridges -> {"starting", "up", "failed"}]
  /\ \A b \in Bridges : /\ port[b] = "up" => port'[b] = "up"
                        /\ b \in bridgeList => b \in bridgeList'

\* Attaching counts and registers; the second consumer only counts.
LEMMA AttachKeepsCount ==
  ASSUME CountsTyped, AttachedIsCounted, Attach(bridgeList)
  PROVE  CountsTyped' /\ AttachedIsCounted'
<1>1. CountsTyped'
  BY DEF CountsTyped, Attach
<1>2. ASSUME NEW b \in Bridges
      PROVE  /\ listener'[b] <=> count'[b] > 0
             /\ onData'[b] = IF listener'[b] THEN 1 ELSE 0
  <2>1. /\ count[b] \in Nat /\ listener[b] \in BOOLEAN /\ onData[b] \in Nat
        /\ listener[b] <=> count[b] > 0
        /\ onData[b] = IF listener[b] THEN 1 ELSE 0
    BY DEF CountsTyped, AttachedIsCounted
  <2>2. CASE b \in Contexts(bridgeList)
    <3>1. /\ count'[b] = count[b] + 1
          /\ listener'[b] = TRUE
          /\ onData'[b] = IF ~listener[b] THEN onData[b] + 1 ELSE onData[b]
      BY <2>2 DEF Attach
    <3>2. QED
      BY <2>1, <3>1
  <2>3. CASE b \notin Contexts(bridgeList)
    <3>1. /\ count'[b] = count[b] /\ onData'[b] = onData[b]
          /\ listener'[b] = listener[b]
      BY <2>1, <2>3 DEF Attach
    <3>2. QED
      BY <2>1, <3>1
  <2>4. QED
    BY <2>2, <2>3
<1>3. QED
  BY <1>1, <1>2 DEF AttachedIsCounted

\* Detaching unregisters with the last reference.
LEMMA DetachKeepsCount ==
  ASSUME CountsTyped, AttachedIsCounted, Detach(bridgeList)
  PROVE  CountsTyped' /\ AttachedIsCounted'
<1>1. CountsTyped'
  BY DEF CountsTyped, AttachedIsCounted, Detach
<1>2. ASSUME NEW b \in Bridges
      PROVE  /\ listener'[b] <=> count'[b] > 0
             /\ onData'[b] = IF listener'[b] THEN 1 ELSE 0
  <2>1. /\ count[b] \in Nat /\ listener[b] \in BOOLEAN /\ onData[b] \in Nat
        /\ listener[b] <=> count[b] > 0
        /\ onData[b] = IF listener[b] THEN 1 ELSE 0
    BY DEF CountsTyped, AttachedIsCounted
  <2>2. CASE b \in Contexts(bridgeList) /\ count[b] = 1
    <3> DEFINE T == {x \in Contexts(bridgeList) : count[x] > 0}
    <3>1. b \in T /\ b \in {x \in T : count[x] = 1}
      BY <2>1, <2>2
    <3>2. /\ count'[b] = count[b] - 1
          /\ listener'[b] = FALSE
          /\ onData'[b] = IF listener[b] THEN onData[b] - 1 ELSE onData[b]
      BY <3>1 DEF Detach
    <3>3. QED
      BY <2>1, <2>2, <3>2
  <2>3. CASE ~(b \in Contexts(bridgeList) /\ count[b] = 1)
    <3>1. /\ count'[b] = IF b \in Contexts(bridgeList) /\ count[b] > 0
                         THEN count[b] - 1 ELSE count[b]
          /\ onData'[b] = onData[b]
          /\ listener'[b] = listener[b]
      BY <2>1, <2>3 DEF Detach
    <3>2. QED
      BY <2>1, <2>3, <3>1
  <2>4. QED
    BY <2>2, <2>3
<1>3. QED
  BY <1>1, <1>2 DEF AttachedIsCounted

\* No step of a consumer breaks the count.
LEMMA StepKeepsCount ==
  ASSUME CountsTyped, AttachedIsCounted, ConsumerStep
  PROVE  CountsTyped' /\ AttachedIsCounted'
<1>1. CASE SameConsumers
  BY <1>1 DEF CountsTyped, AttachedIsCounted, SameConsumers
<1>2. QED
  BY <1>1, AttachKeepsCount, DetachKeepsCount DEF ConsumerStep

\* Either the bridge's own handler parses the chunk, or the one raw listener.
LEMMA HandOverParsesOnce ==
  ASSUME CountsTyped, ChunksTyped, AttachedIsCounted, ParsedOnce,
         NEW b \in Bridges, HandOver(b)
  PROVE  ChunksTyped' /\ ParsedOnce'
<1>1. /\ parsed[b] \in Nat /\ onData[b] \in Nat
      /\ onData[b] = IF listener[b] THEN 1 ELSE 0
  BY DEF CountsTyped, ChunksTyped, AttachedIsCounted
<1>2. parsed[b] + (IF listener[b] THEN 0 ELSE 1) + onData[b] = parsed[b] + 1
  BY <1>1
<1>3. chunks' = [chunks EXCEPT ![b] = chunks[b] + 1]
      /\ parsed' = [parsed EXCEPT ![b] = parsed[b] + 1]
  BY <1>2 DEF HandOver
<1>4. parsed = chunks
  BY DEF ParsedOnce
<1>5. parsed' = chunks'
  BY <1>3, <1>4
<1>6. ChunksTyped'
  BY <1>3 DEF ChunksTyped
<1>7. QED
  BY <1>5, <1>6 DEF ParsedOnce

\* There are at most two consumers.
LEMMA ConsumersBound == Consumers \in Nat
BY DEF Consumers

\* References follow the consumers.
LEMMA OutlineKeepsHeld ==
  ASSUME ListenerInv, Outline
  PROVE  Held'
<1>1. SUFFICES ASSUME NEW b \in Bridges
               PROVE  /\ count'[b] <= Consumers'
                      /\ count'[b] > 0 => port'[b] = "up" /\ b \in bridgeList'
  BY DEF Held
<1>2. /\ count[b] \in Nat /\ count[b] <= Consumers
      /\ count[b] > 0 => port[b] = "up" /\ b \in bridgeList
      /\ port[b] = "up" => port'[b] = "up"
      /\ b \in bridgeList => b \in bridgeList'
  BY DEF ListenerInv, CountsTyped, Held, Outline
<1>3. Consumers \in Nat
  BY ConsumersBound
<1>4. CASE Attach(bridgeList) /\ Consumers' = Consumers + 1
  <2>1. count'[b] = IF b \in Contexts(bridgeList) THEN count[b] + 1 ELSE count[b]
    BY <1>4 DEF Attach
  <2>2. QED
    BY <1>2, <1>3, <1>4, <2>1 DEF Contexts
<1>5. CASE Detach(bridgeList) /\ Consumers' = Consumers - 1
  <2>1. count'[b] = IF b \in Contexts(bridgeList) /\ count[b] > 0
                    THEN count[b] - 1 ELSE count[b]
    BY <1>5 DEF Detach
  <2>2. count[b] > 0 => b \in Contexts(bridgeList)
    BY <1>2 DEF Contexts
  <2>3. Consumers - 1 >= 0
    BY <1>5 DEF Consumers
  <2>4. QED
    BY <1>2, <1>3, <1>5, <2>1, <2>2, <2>3
<1>6. CASE SameConsumers /\ Consumers' = Consumers
  BY <1>2, <1>6 DEF SameConsumers
<1>7. QED
  BY <1>4, <1>5, <1>6 DEF Outline, ConsumerStep

\* A step of that outline keeps the invariant.
LEMMA OutlineKeepsInv ==
  ASSUME ListenerInv, Outline
  PROVE  ListenerInv'
<1>1. CountsTyped' /\ AttachedIsCounted'
  BY StepKeepsCount DEF ListenerInv, Outline
<1>2. ChunksTyped' /\ ParsedOnce'
  <2>1. CASE UNCHANGED <<chunks, parsed>>
    BY <2>1 DEF ListenerInv, ChunksTyped, ParsedOnce
  <2>2. CASE \E b \in Bridges : HandOver(b)
    BY <2>2, HandOverParsesOnce DEF ListenerInv
  <2>3. QED
    BY <2>1, <2>2 DEF Outline
<1>3. Held'
  BY OutlineKeepsHeld
<1>4. QED
  BY <1>1, <1>2, <1>3 DEF ListenerInv, Outline

\* A collection that begins is a consumer that comes.
LEMMA StartIsConsumerStep ==
  ASSUME StartCollection, UNCHANGED subs
  PROVE  ConsumerStep
BY DEF StartCollection, ConsumerStep, Consumers

\* A collection that stops is a consumer that goes.
LEMMA StopIsConsumerStep ==
  ASSUME StopCollection, UNCHANGED subs
  PROVE  ConsumerStep
BY DEF StopCollection, ConsumerStep, Consumers

\* The port part of Outline for steps that leave the bridges alone.
LEMMA SameBridges ==
  ASSUME ListenerInv, UNCHANGED <<port, bridgeList>>
  PROVE  /\ port' \in [Bridges -> {"starting", "up", "failed"}]
         /\ \A b \in Bridges : /\ port[b] = "up" => port'[b] = "up"
                               /\ b \in bridgeList => b \in bridgeList'
BY DEF ListenerInv

\* Every step has that outline.
LEMMA StepOutline ==
  ASSUME ListenerInv, [Next]_vars
  PROVE  Outline
<1>1. CASE LoadBridges
  BY <1>1 DEF LoadBridges, listenerVars, Outline, ConsumerStep, SameConsumers,
              Consumers, ListenerInv
<1>2. CASE ConfigLoaded
  <2>1. ConsumerStep
    <3>1. CASE file.consent = "yes"
      BY <1>2, <3>1, StartIsConsumerStep DEF ConfigLoaded
    <3>2. CASE file.consent # "yes"
      BY <1>2, <3>2 DEF ConfigLoaded, ConsumerStep, Consumers
    <3>3. QED
      BY <3>1, <3>2
  <2>2. QED
    BY <1>2, <2>1, SameBridges DEF ConfigLoaded, Outline
<1>3. ASSUME NEW b \in Bridges, Started(b)
      PROVE  Outline
  <2>1. port' \in [Bridges -> {"starting", "up", "failed"}]
    BY <1>3 DEF Started, BridgeStarted, ListenerInv
  <2>2. \A c \in Bridges : port[c] = "up" => port'[c] = "up"
    BY <1>3 DEF Started, BridgeStarted, ListenerInv
  <2>3. ConsumerStep
    BY <1>3 DEF Started, BridgeStarted, consumerVars, ConsumerStep, SameConsumers,
                Consumers
  <2>4. QED
    BY <1>3, <2>1, <2>2, <2>3 DEF Started, BridgeStarted, consumerVars, Outline
<1>4. ASSUME NEW b \in Bridges, Chunk(b)
      PROVE  Outline
  <2>1. ConsumerStep
    <3>1. CASE StopCollection
      BY <1>4, <3>1, StopIsConsumerStep DEF Chunk
    <3>2. CASE SameConsumers /\ UNCHANGED collecting
      BY <1>4, <3>2 DEF Chunk, ConsumerStep, Consumers
    <3>3. QED
      BY <1>4, <3>1, <3>2 DEF Chunk
  <2>2. QED
    BY <1>4, <2>1, SameBridges DEF Chunk, Outline
<1>5. ASSUME NEW c \in Clients, Watch(c)
      PROVE  Outline
  <2>1. ConsumerStep
    <3>1. subs' # {}
      BY <1>5 DEF Watch
    <3>2. QED
      BY <1>5, <3>1 DEF Watch, ConsumerStep, Consumers
  <2>2. QED
    BY <1>5, <2>1, SameBridges DEF Watch, Outline
<1>6. ASSUME NEW c \in Clients, Unwatch(c)
      PROVE  Outline
  <2>1. ConsumerStep
    <3>1. subs # {}
      BY <1>6 DEF Unwatch
    <3>2. QED
      BY <1>6, <3>1 DEF Unwatch, ConsumerStep, Consumers
  <2>2. QED
    BY <1>6, <2>1, SameBridges DEF Unwatch, Outline
<1>7. ASSUME NEW r \in Requests, NEW a \in Answers, UpdateConsent(r, a)
      PROVE  Outline
  <2>1. ConsumerStep
    BY <1>7 DEF UpdateConsent, listenerVars, ConsumerStep, SameConsumers, Consumers
  <2>2. QED
    BY <1>7, <2>1, SameBridges DEF UpdateConsent, listenerVars, Outline
<1>8. ASSUME NEW r \in Requests, Saved(r)
      PROVE  Outline
  <2>1. ConsumerStep
    BY <1>8, StartIsConsumerStep, StopIsConsumerStep DEF Saved
  <2>2. QED
    BY <1>8, <2>1, SameBridges DEF Saved, Outline
<1>9. ASSUME NEW i \in DOMAIN sends, SendNext(i) \/ SendFails(i)
      PROVE  Outline
  <2>1. UNCHANGED <<listenerVars, bridgeList, subs, collecting>>
    BY <1>9 DEF SendNext, SendFails
  <2>2. ConsumerStep
    BY <2>1 DEF listenerVars, ConsumerStep, SameConsumers, Consumers
  <2>3. QED
    BY <2>1, <2>2, SameBridges DEF listenerVars, Outline
<1>10. CASE UNCHANGED vars
  <2>1. UNCHANGED <<listenerVars, bridgeList, subs, collecting>>
    BY <1>10 DEF vars, consumerVars
  <2>2. ConsumerStep
    BY <2>1 DEF listenerVars, ConsumerStep, SameConsumers, Consumers
  <2>3. QED
    BY <2>1, <2>2, SameBridges DEF listenerVars, Outline
<1>11. QED
  BY <1>1, <1>2, <1>3, <1>4, <1>5, <1>6, <1>7, <1>8, <1>9, <1>10 DEF Next

\* ListenerInv holds in every reachable state, for any bridges and consumers.
THEOREM ListenerCorrect == Spec => []ListenerInv
<1>1. Init => ListenerInv
  <2>1. SUFFICES ASSUME Init PROVE ListenerInv
    OBVIOUS
  <2>2. CountsTyped /\ ChunksTyped /\ AttachedIsCounted /\ ParsedOnce
    BY <2>1 DEF Init, ListenerInit, CountsTyped, ChunksTyped, AttachedIsCounted, ParsedOnce
  <2>3. Held
    BY <2>1 DEF Init, ListenerInit, Held, Consumers
  <2>4. QED
    BY <2>1, <2>2, <2>3 DEF Init, ListenerInit, ListenerInv
<1>2. ListenerInv /\ [Next]_vars => ListenerInv'
  BY StepOutline, OutlineKeepsInv
<1>3. QED
  BY <1>1, <1>2, PTL DEF Spec

\* Every chunk is parsed exactly once, whoever watches raw packets and whenever
\* consumers come and go: no number of clients, collections and bridges changes
\* that.
THEOREM ParsedOnceCorrect == Spec => []ParsedOnce
<1>1. ListenerInv => ParsedOnce
  BY DEF ListenerInv
<1>2. QED
  BY <1>1, ListenerCorrect, PTL

\* No reference outlives its consumer: when nobody watches and nothing is
\* collected, no bridge keeps a raw listener.
THEOREM NoListenerLeftCorrect == Spec => []NoListenerLeft
<1>1. ListenerInv => NoListenerLeft
  BY DEF ListenerInv, Held, NoListenerLeft
<1>2. QED
  BY <1>1, ListenerCorrect, PTL

\* Both at once, as the run states them: a chunk is parsed by one listener, and
\* no listener stays when its consumers are gone (bridge.service.ts).
THEOREM ListenersSoundCorrect == Spec => []ListenersSound
<1>1. ParsedOnce /\ NoListenerLeft => ListenersSound
  BY DEF ListenersSound
<1>2. QED
  BY <1>1, ParsedOnceCorrect, NoListenerLeftCorrect, PTL

-----------------------------------------------------------------------------
(* Nobody starves: what a consumer could reach, it keeps.                  *)

\* Every bridge that no request missed is counted by every consumer, and the
\* release of each will reach it.
FedInv ==
  \A b \in Bridges \ missed :
    /\ count[b] = Consumers
    /\ Consumers > 0 => port[b] = "up" /\ b \in bridgeList

\* A step of the outline keeps that: a consumer that comes while the bridge is
\* not there is one that misses it.
LEMMA OutlineKeepsFed ==
  ASSUME ListenerInv, FedInv, Outline
  PROVE  FedInv'
<1>1. SUFFICES ASSUME NEW b \in Bridges, b \notin missed'
               PROVE  /\ count'[b] = Consumers'
                      /\ Consumers' > 0 => port'[b] = "up" /\ b \in bridgeList'
  BY DEF FedInv
<1>2. /\ count[b] \in Nat /\ Consumers \in Nat
      /\ port[b] = "up" => port'[b] = "up"
      /\ b \in bridgeList => b \in bridgeList'
  BY ConsumersBound DEF ListenerInv, CountsTyped, Outline
<1>3. b \notin missed => /\ count[b] = Consumers
                         /\ Consumers > 0 => port[b] = "up" /\ b \in bridgeList
  BY DEF FedInv
<1>4. CASE Attach(bridgeList) /\ Consumers' = Consumers + 1
  <2>1. b \notin missed /\ b \in Contexts(bridgeList)
    BY <1>1, <1>4 DEF Attach
  <2>2. count'[b] = count[b] + 1
    BY <1>4, <2>1 DEF Attach
  <2>3. port[b] = "up" /\ b \in bridgeList
    BY <2>1 DEF Contexts
  <2>4. QED
    BY <1>2, <1>3, <1>4, <2>1, <2>2, <2>3
<1>5. CASE Detach(bridgeList) /\ Consumers' = Consumers - 1
  <2>1. b \notin missed
    BY <1>1, <1>5 DEF Detach
  <2>2. Consumers > 0
    BY <1>5 DEF Consumers
  <2>3. b \in Contexts(bridgeList) /\ count[b] > 0
    BY <1>3, <2>1, <2>2 DEF Contexts
  <2>4. count'[b] = count[b] - 1
    BY <1>5, <2>3 DEF Detach
  <2>5. QED
    BY <1>2, <1>3, <1>5, <2>1, <2>2, <2>4
<1>6. CASE SameConsumers /\ Consumers' = Consumers
  BY <1>1, <1>2, <1>3, <1>6 DEF SameConsumers
<1>7. QED
  BY <1>4, <1>5, <1>6 DEF Outline, ConsumerStep

\* While somebody needs raw packets, every bridge that every consumer could
\* reach has its listener, whoever else comes and goes: the reference count of
\* bridge.service.ts never takes the listener from a consumer that is left.
THEOREM ConsumersAreFedCorrect == Spec => []ConsumersAreFed
<1>1. Init => FedInv
  BY DEF Init, ListenerInit, FedInv, Consumers
<1>2. ListenerInv /\ FedInv /\ [Next]_vars => FedInv'
  BY StepOutline, OutlineKeepsFed
<1>3. ListenerInv /\ FedInv => ConsumersAreFed
  <2>1. SUFFICES ASSUME ListenerInv, FedInv, Consumers > 0,
                        NEW b \in Contexts(Bridges) \ missed
                 PROVE  listener[b]
    BY DEF ConsumersAreFed
  <2>2. b \in Bridges /\ count[b] > 0
    BY <2>1 DEF FedInv, Contexts
  <2>3. QED
    BY <2>1, <2>2 DEF ListenerInv, AttachedIsCounted
<1>4. QED
  BY <1>1, <1>2, <1>3, ListenerCorrect, PTL DEF Spec

-----------------------------------------------------------------------------
(* Packets are collected with consent only.                                *)

\* While the answers come one after another: one is being saved at most, it is
\* the consent in memory, none comes before the file was read, and a collection
\* runs between two answers only with a yes.
ConsentInv ==
  ~overlapped =>
    /\ \A r \in Requests : request[r] \in Answers =>
         /\ consent = request[r]
         /\ \A q \in Requests : request[q] \in Answers => q = r
    /\ collecting /\ ~Saving => consent = "yes"
    /\ boot # "ready" => ~Saving /\ ~collecting

LEMMA ConsentStep ==
  ASSUME request \in [Requests -> {"none", "done"} \cup Answers],
         ConsentInv, [Next]_vars
  PROVE  ConsentInv'
<1> USE DEF ConsentInv, Saving, Answers
<1>1. CASE LoadBridges
  BY <1>1 DEF LoadBridges
<1>2. CASE ConfigLoaded
  BY <1>2 DEF ConfigLoaded, StartCollection
<1>3. ASSUME NEW b \in Bridges, Started(b)
      PROVE  ConsentInv'
  BY <1>3 DEF Started, consumerVars
<1>4. ASSUME NEW b \in Bridges, Chunk(b)
      PROVE  ConsentInv'
  <2>1. /\ collecting' => collecting
        /\ UNCHANGED <<boot, consent, request, overlapped>>
    BY <1>4 DEF Chunk, StopCollection
  <2>2. QED
    BY <2>1
<1>5. ASSUME NEW c \in Clients, Watch(c) \/ Unwatch(c)
      PROVE  ConsentInv'
  BY <1>5 DEF Watch, Unwatch
<1>6. ASSUME NEW r \in Requests, NEW a \in Answers, UpdateConsent(r, a)
      PROVE  ConsentInv'
  <2>1. /\ overlapped' = (overlapped \/ Saving \/ boot # "ready")
        /\ consent' = a /\ request' = [request EXCEPT ![r] = a]
        /\ UNCHANGED <<boot, collecting>>
    BY <1>6 DEF UpdateConsent
  <2>2. request'[r] = a /\ \A q \in Requests \ {r} : request'[q] = request[q]
    BY <2>1
  <2>3. QED
    BY <2>1, <2>2
<1>7. ASSUME NEW r \in Requests, Saved(r)
      PROVE  ConsentInv'
  <2>1. /\ request[r] \in Answers /\ request' = [request EXCEPT ![r] = "done"]
        /\ UNCHANGED <<boot, consent, overlapped>>
        /\ collecting' <=> request[r] = "yes"
    BY <1>7 DEF Saved, StartCollection, StopCollection
  <2>2. request'[r] = "done" /\ \A q \in Requests \ {r} : request'[q] = request[q]
    BY <2>1
  <2>3. QED
    BY <2>1, <2>2
<1>8. ASSUME NEW i \in DOMAIN sends, SendNext(i) \/ SendFails(i)
      PROVE  ConsentInv'
  BY <1>8 DEF SendNext, SendFails
<1>9. CASE UNCHANGED vars
  BY <1>9 DEF vars, consumerVars
<1>10. QED
  BY <1>1, <1>2, <1>3, <1>4, <1>5, <1>6, <1>7, <1>8, <1>9 DEF Next

\* request keeps its type.
LEMMA RequestTyped ==
  ASSUME request \in [Requests -> {"none", "done"} \cup Answers], [Next]_vars
  PROVE  request' \in [Requests -> {"none", "done"} \cup Answers]
BY DEF Next, LoadBridges, ConfigLoaded, Started, Chunk, Watch, Unwatch, UpdateConsent,
       Saved, SendNext, SendFails, vars, consumerVars

\* "Log collection is performed with consent" (CHANGELOG.md): for any number of
\* answers, saved or not, as long as they come one after another and after the
\* file was read, the last one decides whether packets are collected.
THEOREM ConsentRespectedCorrect == Spec => []ConsentRespected
<1> DEFINE RequestOK == request \in [Requests -> {"none", "done"} \cup Answers]
<1>1. Init => RequestOK /\ ConsentInv
  BY DEF Init, ConsentInv, Saving, Answers
<1>2. RequestOK /\ ConsentInv /\ [Next]_vars => (RequestOK /\ ConsentInv)'
  BY ConsentStep, RequestTyped
<1>3. ConsentInv => ConsentRespected
  BY DEF ConsentInv, ConsentRespected
<1>4. QED
  BY <1>1, <1>2, <1>3, PTL DEF Spec

-----------------------------------------------------------------------------
(* What is collected is counted.                                           *)

Buffer == [port : Bridges, n : 1 .. Target]
BuffersTyped == buffers \in Seq(Buffer) /\ packets \in 0 .. Target /\ IsFiniteSet(Buffered)

\* The collector: its types, and what the counter counts.
CollectorTyped ==
  /\ missed \subseteq Bridges
  /\ boot \in {"listening", "loading", "ready"}
  /\ bridgeList \subseteq Bridges
  /\ subs \subseteq Clients
  /\ consent \in Answers \cup {"unasked"}
  /\ uid \in BOOLEAN
  /\ file \in [consent : Answers \cup {"unasked"}, uid : BOOLEAN]
  /\ collecting \in BOOLEAN
  /\ sends \in Seq([at : 0..Cardinality(Bridges), over : BOOLEAN])
  /\ overlapped \in BOOLEAN

LEMMA BufferedMeans ==
  \A x : x \in Buffered <=> \E i \in DOMAIN buffers : \E k \in 1 .. buffers[i].n : x = <<i, k>>
BY DEF Buffered

LEMMA BufferedMeansNext ==
  \A x : x \in Buffered' <=> \E i \in DOMAIN buffers' : \E k \in 1 .. buffers'[i].n : x = <<i, k>>
BY DEF Buffered

LEMMA BufferTypes ==
  ASSUME BuffersTyped
  PROVE  /\ DOMAIN buffers = 1 .. Len(buffers) /\ Len(buffers) \in Nat /\ packets \in Nat
         /\ \A i \in DOMAIN buffers : /\ buffers[i] \in Buffer /\ buffers[i].port \in Bridges
                                     /\ buffers[i].n \in 1 .. Target /\ buffers[i].n \in Nat
<1>1. buffers \in Seq(Buffer) /\ packets \in Nat
  BY DEF BuffersTyped
<1>2. /\ DOMAIN buffers = 1 .. Len(buffers) /\ Len(buffers) \in Nat
      /\ \A i \in DOMAIN buffers : buffers[i] \in Buffer
  BY <1>1
<1>3. \A x \in Buffer : x.port \in Bridges /\ x.n \in 1 .. Target /\ x.n \in Nat
  BY ConsumersAssumption DEF Buffer
<1>4. QED
  BY <1>1, <1>2, <1>3

\* A buffer has no more packets than were counted.
LEMMA BufferFits ==
  ASSUME BuffersTyped, CountsAgree, NEW i \in DOMAIN buffers
  PROVE  buffers[i].n <= packets
<1> DEFINE n == buffers[i].n
           f == [k \in 1 .. n |-> <<i, k>>]
<1>1. n \in Nat
  BY BufferTypes
<1>2. f \in Injection(1 .. n, Buffered)
  BY BufferedMeans DEF Injection, IsInjective
<1>3. Cardinality(1 .. n) <= Cardinality(Buffered) /\ Cardinality(1 .. n) = n
  <2> HIDE DEF f, n
  <2>1. Cardinality(1 .. n) <= Cardinality(Buffered)
    BY <1>2, FS_Injection DEF BuffersTyped
  <2>2. Cardinality(1 .. n) = n
    BY <1>1, FS_Interval
  <2>3. QED
    BY <2>1, <2>2
<1>4. QED
  BY <1>3 DEF CountsAgree

\* Every bridge has one buffer.
LEMMA BuffersFew ==
  ASSUME BuffersTyped, CountsAgree
  PROVE  Len(buffers) \in 0 .. Cardinality(Bridges)
<1> DEFINE f == [i \in DOMAIN buffers |-> buffers[i].port]
<1>1. DOMAIN buffers = 1 .. Len(buffers) /\ Len(buffers) \in Nat
  BY BufferTypes
<1>2. f \in Injection(1 .. Len(buffers), Bridges)
  BY <1>1, BufferTypes DEF CountsAgree, Injection, IsInjective
<1> HIDE DEF f
<1>3. Cardinality(1 .. Len(buffers)) <= Cardinality(Bridges)
  BY <1>2, FS_Injection, ConsumersAssumption
<1>4. Cardinality(1 .. Len(buffers)) = Len(buffers)
  <2>1. \A n \in Nat : Cardinality(1 .. n) = n
    BY FS_Interval
  <2>2. QED
    BY <1>1, <2>1
<1>5. Cardinality(Bridges) \in Nat
  BY FS_CardinalityType, ConsumersAssumption
<1>6. QED
  BY <1>1, <1>3, <1>4, <1>5

\* A packet that is collected is counted, and is in one buffer more than before.
LEMMA CollectCounts ==
  ASSUME BuffersTyped, CountsAgree, packets < Target, NEW b \in Bridges, Collect(b)
  PROVE  /\ BuffersTyped' /\ packets' = Cardinality(Buffered')
         /\ \A i, j \in DOMAIN buffers' : buffers'[i].port = buffers'[j].port => i = j
<1> DEFINE having == {i \in DOMAIN buffers : buffers[i].port = b}
<1>1. /\ buffers' = IF having = {} THEN Append(buffers, [port |-> b, n |-> 1])
                    ELSE [i \in DOMAIN buffers |->
                           IF i \in having THEN [buffers[i] EXCEPT !.n = @ + 1] ELSE buffers[i]]
      /\ packets' = packets + 1
  BY DEF Collect
<1>2. /\ DOMAIN buffers = 1 .. Len(buffers) /\ Len(buffers) \in Nat /\ buffers \in Seq(Buffer)
      /\ \A i \in DOMAIN buffers : /\ buffers[i] \in Buffer /\ buffers[i].port \in Bridges
                                  /\ buffers[i].n \in 1 .. Target /\ buffers[i].n \in Nat
      /\ packets \in Nat /\ Target \in Nat \ {0} /\ packets' \in 0 .. Target
  <2>1. packets + 1 \in 0 .. Target
    BY ConsumersAssumption, BufferTypes
  <2>2. QED
    BY <1>1, <2>1, ConsumersAssumption, BufferTypes DEF BuffersTyped
<1>3. /\ buffers' \in Seq(Buffer)
      /\ \A i, j \in DOMAIN buffers' : buffers'[i].port = buffers'[j].port => i = j
      /\ \E x : x \notin Buffered /\ Buffered' = Buffered \cup {x}
  <2>1. CASE having = {}
    <3>1. buffers' = Append(buffers, [port |-> b, n |-> 1])
      BY <1>1, <2>1
    <3>2. \A i \in DOMAIN buffers : buffers[i].port # b
      BY <2>1
    <3> DEFINE new == Len(buffers) + 1
    <3> HIDE DEF having
    <3>3. [port |-> b, n |-> 1] \in Buffer
      BY <1>2 DEF Buffer
    <3>4. /\ buffers' \in Seq(Buffer) /\ DOMAIN buffers' = DOMAIN buffers \cup {new}
          /\ new \notin DOMAIN buffers
          /\ buffers'[new] = [port |-> b, n |-> 1]
          /\ \A i \in DOMAIN buffers : buffers'[i] = buffers[i]
      BY <1>2, <3>1, <3>3
    <3> HIDE DEF new
    <3>5. buffers'[new].port = b /\ buffers'[new].n = 1
      BY <3>4
    <3>6. \A i, j \in DOMAIN buffers' : buffers'[i].port = buffers'[j].port => i = j
      BY <3>2, <3>4, <3>5 DEF CountsAgree
    <3>7. <<new, 1>> \notin Buffered
      BY <3>4, BufferedMeans
    <3>8. Buffered' = Buffered \cup {<<new, 1>>}
      <4>1. ASSUME NEW x \in Buffered' PROVE x \in Buffered \cup {<<new, 1>>}
        <5>1. PICK i \in DOMAIN buffers' : \E k \in 1 .. buffers'[i].n : x = <<i, k>>
          BY BufferedMeansNext
        <5>2. PICK k \in 1 .. buffers'[i].n : x = <<i, k>>
          BY <5>1
        <5>3. CASE i = new
          BY <3>5, <5>2, <5>3
        <5>4. CASE i # new
          BY <3>4, <5>2, <5>4, BufferedMeans
        <5>5. QED
          BY <5>3, <5>4
      <4>2. ASSUME NEW x \in Buffered PROVE x \in Buffered'
        <5>1. PICK i \in DOMAIN buffers : \E k \in 1 .. buffers[i].n : x = <<i, k>>
          BY BufferedMeans
        <5>2. PICK k \in 1 .. buffers[i].n : x = <<i, k>>
          BY <5>1
        <5>3. QED
          BY <3>4, <5>2, BufferedMeansNext
      <4>3. <<new, 1>> \in Buffered'
        <5>1. new \in DOMAIN buffers' /\ 1 \in 1 .. buffers'[new].n
          BY <3>4, <3>5
        <5>2. QED
          BY <5>1, BufferedMeansNext
      <4>4. QED
        BY <4>1, <4>2, <4>3
    <3>9. QED
      BY <3>4, <3>6, <3>7, <3>8
  <2>2. CASE having # {}
    <3>1. PICK i \in DOMAIN buffers : buffers[i].port = b
      BY <2>2
    <3>2. having = {i}
      BY <3>1 DEF CountsAgree
    <3> DEFINE n == buffers[i].n
    <3>3. /\ DOMAIN buffers' = DOMAIN buffers
          /\ buffers'[i] = [buffers[i] EXCEPT !.n = n + 1]
          /\ \A j \in DOMAIN buffers : j # i => buffers'[j] = buffers[j]
      BY <1>1, <2>2, <3>2
    <3> HIDE DEF having
    <3>4. n + 1 \in 1 .. Target
      BY <1>2, BufferFits
    <3>5. buffers'[i] \in Buffer /\ buffers'[i].n = n + 1 /\ buffers'[i].port = buffers[i].port
      BY <1>2, <3>1, <3>3, <3>4 DEF Buffer
    <3>6. buffers' \in Seq(Buffer)
      <4>1. \A j \in DOMAIN buffers : buffers'[j] \in Buffer
        BY <1>2, <3>3, <3>5
      <4>2. buffers' = [j \in DOMAIN buffers |-> buffers'[j]]
        BY <1>1, <2>2, <3>3
      <4>3. buffers' \in [1 .. Len(buffers) -> Buffer]
        BY <1>2, <4>1, <4>2
      <4>4. Len(buffers) \in Nat
        BY <1>2
      <4>5. QED
        BY <4>3, <4>4
    <3>7. \A j, k \in DOMAIN buffers' : buffers'[j].port = buffers'[k].port => j = k
      <4>1. \A j \in DOMAIN buffers : buffers'[j].port = buffers[j].port
        BY <3>3, <3>5
      <4>2. QED
        BY <3>3, <4>1 DEF CountsAgree
    <3>8. <<i, n + 1>> \notin Buffered
      <4>1. n \in Nat /\ n + 1 \notin 1 .. n
        BY <1>2
      <4>2. QED
        BY <4>1, BufferedMeans
    <3>9. Buffered' = Buffered \cup {<<i, n + 1>>}
      <4>1. ASSUME NEW x \in Buffered' PROVE x \in Buffered \cup {<<i, n + 1>>}
        <5>1. PICK j \in DOMAIN buffers' : \E k \in 1 .. buffers'[j].n : x = <<j, k>>
          BY BufferedMeansNext
        <5>2. PICK k \in 1 .. buffers'[j].n : x = <<j, k>>
          BY <5>1
        <5>3. CASE j # i
          BY <3>3, <5>2, <5>3, BufferedMeans
        <5>4. CASE j = i
          <6>1. k \in 1 .. n \/ k = n + 1
            BY <1>2, <3>5, <5>2, <5>4
          <6>2. QED
            BY <5>2, <5>4, <6>1, BufferedMeans
        <5>5. QED
          BY <5>3, <5>4
      <4>2. ASSUME NEW x \in Buffered PROVE x \in Buffered'
        <5>1. PICK j \in DOMAIN buffers : \E k \in 1 .. buffers[j].n : x = <<j, k>>
          BY BufferedMeans
        <5>2. PICK k \in 1 .. buffers[j].n : x = <<j, k>>
          BY <5>1
        <5>3. k \in 1 .. buffers'[j].n
          <6>1. CASE j = i
            <7>1. k \in 1 .. n /\ n \in Nat
              BY <1>2, <5>2, <6>1
            <7>2. QED
              BY <3>5, <6>1, <7>1
          <6>2. QED
            BY <3>3, <5>1, <5>2, <6>1
        <5>4. QED
          BY <3>3, <5>2, <5>3, BufferedMeansNext
      <4>3. <<i, n + 1>> \in Buffered'
        <5>1. n + 1 \in 1 .. buffers'[i].n /\ i \in DOMAIN buffers'
          BY <1>2, <3>3, <3>5
        <5>2. QED
          BY <5>1, BufferedMeansNext
      <4>4. QED
        BY <4>1, <4>2, <4>3
    <3>10. QED
      BY <3>6, <3>7, <3>8, <3>9
  <2>3. QED
    BY <2>1, <2>2
<1>4. PICK x : x \notin Buffered /\ Buffered' = Buffered \cup {x}
  BY <1>3
<1>5. IsFiniteSet(Buffered') /\ Cardinality(Buffered') = Cardinality(Buffered) + 1
  BY <1>4, FS_AddElement DEF BuffersTyped
<1>6. packets' = Cardinality(Buffered')
  BY <1>1, <1>5 DEF CountsAgree
<1>7. QED
  BY <1>2, <1>3, <1>5, <1>6 DEF BuffersTyped

\* What a step does to the buffers.
LEMMA BuffersStep ==
  ASSUME CollectorTyped, CountsAgree, [Next]_vars
  PROVE  \/ buffers' = <<>> /\ packets' = 0
         \/ /\ collecting /\ \E b \in Bridges : Collect(b)
            /\ packets' >= Target => ~collecting'
         \/ UNCHANGED <<buffers, packets>> /\ (collecting' => collecting)
<1> DEFINE Goal == \/ buffers' = <<>> /\ packets' = 0
                   \/ /\ collecting /\ \E b \in Bridges : Collect(b)
                      /\ packets' >= Target => ~collecting'
                   \/ UNCHANGED <<buffers, packets>> /\ (collecting' => collecting)
<1>1. CASE LoadBridges
  BY <1>1 DEF LoadBridges
<1>2. CASE ConfigLoaded
  BY <1>2 DEF ConfigLoaded, StartCollection
<1>3. ASSUME NEW b \in Bridges, Started(b) \/ Chunk(b) PROVE Goal
  <2>1. CASE Chunk(b) /\ collecting /\ listener[b]
    BY <2>1 DEF Chunk, StopCollection
  <2>2. CASE Chunk(b) /\ ~(collecting /\ listener[b])
    BY <2>2 DEF Chunk
  <2>3. CASE Started(b)
    BY <2>3 DEF Started, consumerVars
  <2>4. QED
    BY <1>3, <2>1, <2>2, <2>3
<1>4. ASSUME NEW c \in Clients, Watch(c) \/ Unwatch(c) PROVE Goal
  BY <1>4 DEF Watch, Unwatch
<1>5. ASSUME NEW r \in Requests, NEW a \in Answers, UpdateConsent(r, a) PROVE Goal
  BY <1>5 DEF UpdateConsent
<1>6. ASSUME NEW r \in Requests, Saved(r) PROVE Goal
  BY <1>6 DEF Saved, StartCollection, StopCollection
<1>7. ASSUME NEW i \in DOMAIN sends, SendNext(i) \/ SendFails(i) PROVE Goal
  BY <1>7 DEF SendNext, SendFails
<1>8. CASE UNCHANGED vars
  BY <1>8 DEF vars, consumerVars
<1>9. QED
  BY <1>1, <1>2, <1>3, <1>4, <1>5, <1>6, <1>7, <1>8 DEF Next

LEMMA BuffersKeep ==
  ASSUME CollectorTyped, BuffersTyped, CountsAgree, [Next]_vars
  PROVE  BuffersTyped' /\ CountsAgree'
<1>1. CASE buffers' = <<>> /\ packets' = 0
  <2>1. Buffered' = {}
    BY <1>1, BufferedMeansNext
  <2>2. IsFiniteSet({}) /\ Cardinality({}) = 0
    BY FS_EmptySet
  <2>3. <<>> \in Seq(Buffer)
    OBVIOUS
  <2>4. QED
    BY <1>1, <2>1, <2>2, <2>3, ConsumersAssumption DEF BuffersTyped, CountsAgree
<1>2. CASE /\ collecting /\ \E b \in Bridges : Collect(b)
           /\ packets' >= Target => ~collecting'
  <2>1. packets < Target
    BY <1>2 DEF CountsAgree
  <2>2. /\ BuffersTyped' /\ packets' = Cardinality(Buffered')
        /\ \A i, j \in DOMAIN buffers' : buffers'[i].port = buffers'[j].port => i = j
    BY <1>2, <2>1, CollectCounts
  <2>3. collecting' => packets' < Target
    BY <1>2, <2>2, ConsumersAssumption DEF BuffersTyped
  <2>4. QED
    BY <2>2, <2>3 DEF CountsAgree
<1>3. CASE UNCHANGED <<buffers, packets>> /\ (collecting' => collecting)
  <2>1. Buffered' = Buffered
    BY <1>3 DEF Buffered
  <2>2. QED
    BY <1>3, <2>1 DEF BuffersTyped, CountsAgree
<1>4. QED
  BY <1>1, <1>2, <1>3, BuffersStep

LEMMA SendsKeep ==
  ASSUME CollectorTyped, BuffersTyped, CountsAgree, [Next]_vars
  PROVE  sends' \in Seq([at : 0..Cardinality(Bridges), over : BOOLEAN])
<1> DEFINE Send == [at : 0..Cardinality(Bridges), over : BOOLEAN]
<1>1. /\ sends \in Seq(Send) /\ sends \in [DOMAIN sends -> Send] /\ DOMAIN sends = 1 .. Len(sends)
      /\ Len(sends) \in Nat /\ Cardinality(Bridges) \in Nat
  <2>1. sends \in Seq(Send) /\ Cardinality(Bridges) \in Nat
    BY FS_CardinalityType, ConsumersAssumption DEF CollectorTyped
  <2> HIDE DEF Send
  <2>2. QED
    BY <2>1
<1> DEFINE Fits == \A s \in Send : /\ [s EXCEPT !.over = TRUE] \in Send
                                  /\ [s EXCEPT !.at = 0] \in Send
                                  /\ \A n \in 0 .. Cardinality(Bridges) : [s EXCEPT !.at = n] \in Send
<1>0. Fits /\ \A s \in Send : s.at \in Nat
  <2>1. Cardinality(Bridges) \in Nat /\ 0 \in 0 .. Cardinality(Bridges)
    BY <1>1
  <2> DEFINE Places == 0 .. Cardinality(Bridges)
  <2>2. \A n \in Places : n \in Nat
    BY <2>1
  <2> HIDE DEF Places
  <2>3. SUFFICES ASSUME NEW s \in [at : Places, over : BOOLEAN]
        PROVE  /\ s.at \in Places /\ [s EXCEPT !.over = TRUE] \in [at : Places, over : BOOLEAN]
               /\ \A n \in Places : [s EXCEPT !.at = n] \in [at : Places, over : BOOLEAN]
    BY <2>1, <2>2 DEF Places
  <2>4. QED
    OBVIOUS
<1>2. CASE UNCHANGED sends
  BY <1>1, <1>2
<1>3. CASE sends' = [i \in DOMAIN sends |-> [sends[i] EXCEPT !.at = 0]]
  <2>1. \A i \in DOMAIN sends : [sends[i] EXCEPT !.at = 0] \in Send
    BY <1>0, <1>1
  <2> HIDE DEF Send
  <2>2. sends' \in [1 .. Len(sends) -> Send]
    BY <1>1, <1>3, <2>1
  <2>3. sends' \in Seq(Send)
    BY <1>1, <2>2
  <2>4. QED
    BY <2>3 DEF Send
<1>4. CASE sends' = Append(sends, [at |-> 0, over |-> FALSE])
  <2>1. [at |-> 0, over |-> FALSE] \in Send
    BY <1>1
  <2> HIDE DEF Send
  <2>2. sends' \in Seq(Send)
    BY <1>1, <1>4, <2>1
  <2>3. QED
    BY <2>2 DEF Send
<1>5. ASSUME NEW i \in DOMAIN sends, SendNext(i) \/ SendFails(i)
      PROVE  sends' \in Seq(Send)
  <2>1. Len(buffers) \in 0 .. Cardinality(Bridges)
    BY BuffersFew
  <2>2. PICK s : s \in Send /\ sends' = [sends EXCEPT ![i] = s]
    <3>1. CASE sends' = [sends EXCEPT ![i].over = TRUE]
      <4>1. [sends[i] EXCEPT !.over = TRUE] \in Send
        BY <1>0, <1>1
      <4>2. QED
        BY <3>1, <4>1
    <3>2. CASE sends[i].at < Len(buffers) /\ sends' = [sends EXCEPT ![i].at = @ + 1]
      <4>1. sends[i] \in Send /\ sends[i].at + 1 \in 0 .. Cardinality(Bridges)
        <5>1. sends[i] \in Send
          BY <1>1
        <5>2. QED
          BY <1>0, <1>1, <2>1, <3>2, <5>1
      <4>3. [sends[i] EXCEPT !.at = sends[i].at + 1] \in Send
        BY <1>0, <4>1
      <4>2. QED
        BY <3>2, <4>3
    <3>3. QED
      BY <1>5, <3>1, <3>2 DEF SendNext, SendFails
  <2> HIDE DEF Send
  <2>3. sends' \in [1 .. Len(sends) -> Send]
    BY <1>1, <2>2
  <2>4. QED
    BY <1>1, <2>3
<1>6. CASE LoadBridges
  BY <1>2, <1>6 DEF LoadBridges
<1>7. CASE ConfigLoaded
  BY <1>2, <1>3, <1>7 DEF ConfigLoaded, StartCollection
<1>8. ASSUME NEW b \in Bridges, Started(b) \/ Chunk(b) PROVE sends' \in Seq(Send)
  <2>1. UNCHANGED sends \/ sends' = Append(sends, [at |-> 0, over |-> FALSE])
    BY <1>8 DEF Started, consumerVars, Chunk
  <2>2. QED
    BY <1>2, <1>4, <2>1
<1>9. ASSUME NEW c \in Clients, Watch(c) \/ Unwatch(c) PROVE sends' \in Seq(Send)
  BY <1>2, <1>9 DEF Watch, Unwatch
<1>10. ASSUME NEW r \in Requests, NEW a \in Answers, UpdateConsent(r, a)
       PROVE  sends' \in Seq(Send)
  BY <1>2, <1>10 DEF UpdateConsent
<1>11. ASSUME NEW r \in Requests, Saved(r) PROVE sends' \in Seq(Send)
  BY <1>2, <1>3, <1>11 DEF Saved, StartCollection
<1>12. CASE UNCHANGED vars
  BY <1>2, <1>12 DEF vars, consumerVars
<1>13. QED
  BY <1>5, <1>6, <1>7, <1>8, <1>9, <1>10, <1>11, <1>12 DEF Next

\* The rest of the types.
LEMMA CollectorKeeps ==
  ASSUME ListenerInv, CollectorTyped, BuffersTyped, CountsAgree, [Next]_vars
  PROVE  CollectorTyped'
<1>1. missed' \subseteq Bridges
  <2>1. ConsumerStep
    BY StepOutline DEF Outline
  <2>2. QED
    BY <2>1 DEF ConsumerStep, Attach, Detach, SameConsumers, CollectorTyped
<1>2. CASE LoadBridges
  BY <1>1, <1>2, SendsKeep DEF LoadBridges, CollectorTyped
<1>3. CASE ConfigLoaded
  <2>1. collecting' \in BOOLEAN
    BY <1>3 DEF ConfigLoaded, StartCollection, CollectorTyped
  <2>2. QED
    BY <1>1, <1>3, <2>1, SendsKeep DEF ConfigLoaded, CollectorTyped
<1>4. ASSUME NEW b \in Bridges, Started(b) \/ Chunk(b) PROVE CollectorTyped'
  <2>1. /\ collecting' \in BOOLEAN
        /\ UNCHANGED <<boot, bridgeList, subs, consent, uid, file, overlapped>>
    BY <1>4 DEF Started, consumerVars, Chunk, StopCollection, CollectorTyped
  <2>2. QED
    BY <1>1, <2>1, SendsKeep DEF CollectorTyped
<1>5. ASSUME NEW c \in Clients, Watch(c) \/ Unwatch(c) PROVE CollectorTyped'
  BY <1>1, <1>5, SendsKeep DEF Watch, Unwatch, CollectorTyped
<1>6. ASSUME NEW r \in Requests, NEW a \in Answers, UpdateConsent(r, a) PROVE CollectorTyped'
  <2>1. overlapped' \in BOOLEAN /\ uid' \in BOOLEAN /\ consent' \in Answers
    BY <1>6 DEF UpdateConsent, CollectorTyped
  <2>2. QED
    BY <1>1, <1>6, <2>1, SendsKeep DEF UpdateConsent, CollectorTyped
<1>7. ASSUME NEW r \in Requests, Saved(r) PROVE CollectorTyped'
  <2>1. collecting' \in BOOLEAN
    BY <1>7 DEF Saved, StartCollection, StopCollection, CollectorTyped
  <2>2. file' \in [consent : Answers \cup {"unasked"}, uid : BOOLEAN]
    BY <1>7 DEF Saved, CollectorTyped
  <2>3. QED
    BY <1>1, <1>7, <2>1, <2>2, SendsKeep DEF Saved, CollectorTyped
<1>8. ASSUME NEW i \in DOMAIN sends, SendNext(i) \/ SendFails(i) PROVE CollectorTyped'
  BY <1>1, <1>8, SendsKeep DEF SendNext, SendFails, CollectorTyped
<1>9. CASE UNCHANGED vars
  BY <1>1, <1>9, SendsKeep DEF vars, consumerVars, CollectorTyped
<1>10. QED
  BY <1>2, <1>3, <1>4, <1>5, <1>6, <1>7, <1>8, <1>9 DEF Next

\* The consumers are a part of the web interface.
LEMMA WebHasConsumers == WebSpec => Spec
<1>1. WebInit => Init
  BY DEF WebInit
<1>2. [WebNext]_allVars => [Next]_vars
  BY DEF WebNext, ConsumersStep, StreamStep, LogsStep, EditorStep, LoadingStep, allVars
<1>3. QED
  BY <1>1, <1>2, PTL DEF WebSpec, Spec

\* The collector's counter is the number of packets in its buffers and ends the
\* collection in time, its buffers are one per bridge, and it collects with
\* consent only (CollectionIsSound).
THEOREM CollectionIsSoundCorrect == WebSpec => []CollectionIsSound
<1> DEFINE Typed == CollectorTyped /\ BuffersTyped /\ CountsAgree
           RequestOK == request \in [Requests -> {"none", "done"} \cup Answers]
<1>1. Init => Typed
  <2> SUFFICES ASSUME Init PROVE Typed
    OBVIOUS
  <2>1. CollectorTyped
    <3>1. file \in [consent : Answers \cup {"unasked"}, uid : BOOLEAN]
      <4>1. file \in Stored
        BY DEF Init
      <4>2. \A c \in Answers \cup {"unasked"}, u \in BOOLEAN :
              [consent |-> c, uid |-> u] \in [consent : Answers \cup {"unasked"}, uid : BOOLEAN]
        OBVIOUS
      <4>3. /\ "yes" \in Answers \cup {"unasked"} /\ "no" \in Answers \cup {"unasked"}
            /\ "unasked" \in Answers \cup {"unasked"}
        BY DEF Answers
      <4>4. \E c \in Answers \cup {"unasked"}, u \in BOOLEAN : file = [consent |-> c, uid |-> u]
        BY <4>1, <4>3, Zenon DEF Stored
      <4>5. QED
        BY <4>2, <4>4, Zenon
    <3>2. <<>> \in Seq([at : 0..Cardinality(Bridges), over : BOOLEAN])
      OBVIOUS
    <3>3. QED
      BY <3>1, <3>2 DEF Init, ListenerInit, CollectorTyped
  <2>2. Buffered = {}
    BY DEF Init, Buffered
  <2>3. <<>> \in Seq(Buffer) /\ IsFiniteSet({}) /\ Cardinality({}) = 0
    BY FS_EmptySet
  <2>4. BuffersTyped /\ CountsAgree
    BY <2>2, <2>3, ConsumersAssumption DEF Init, BuffersTyped, CountsAgree
  <2>5. QED
    BY <2>1, <2>4
<1>2. ListenerInv /\ Typed /\ [Next]_vars => Typed'
  BY BuffersKeep, CollectorKeeps
<1>3. Init => RequestOK
  BY DEF Init
<1>4. RequestOK /\ [Next]_vars => RequestOK'
  BY RequestTyped
<1>5. ListenerInv /\ Typed /\ RequestOK /\ ConsentRespected => CollectionIsSound
  BY DEF ListenerInv, CountsTyped, ChunksTyped, CollectorTyped, BuffersTyped, Buffer, TypeOK,
     ListenerTypeOK, CollectionIsSound
<1>6. QED
  BY <1>1, <1>2, <1>3, <1>4, <1>5, WebHasConsumers, ListenerCorrect, ConsentRespectedCorrect, PTL
     DEF Spec

-----------------------------------------------------------------------------
(* A page and its connection.  What each queue ends with is what the other    *)
(* side will have once it has read it: Stream!StreamInv.                     *)

Wanted == Stream!Watching(view, isRecording)

PageTyped ==
  /\ view \in {"analysis", "dashboard"} /\ isRecording \in BOOLEAN
  /\ isSocketOpen \in BOOLEAN /\ isStreaming \in BOOLEAN /\ reconnectTimer \in BOOLEAN
  /\ mode \in Stream!Modes /\ appliedMode \in Stream!Modes
  /\ socket \in Connections \cup {0}
  /\ end \in [Connections -> {"unused", "connecting", "open", "closed"}]

ServiceTyped ==
  /\ accepted \in [Connections -> {"no", "open", "gone"}]
  /\ subscribers \in [Connections -> Stream!Modes \cup {"none"}]

NumbersTyped ==
  /\ shown \in 0 .. MaxStates /\ latest \in 0 .. MaxStates /\ state \in 0 .. MaxStates
  /\ down \in [Connections -> Seq(1 .. MaxStates)]
  /\ publishing \in Seq(1 .. MaxStates)

UpTyped == up \in [Connections -> Seq(Stream!Modes \cup {"stop"})]

StreamTyped == PageTyped /\ ServiceTyped /\ NumbersTyped /\ UpTyped

OneSocket ==
  /\ bridgeInfo = "loaded" => socket # 0 \/ reconnectTimer
  /\ \A c \in Connections : end[c] \in {"connecting", "open"} => c = socket

StreamWhole == StreamTyped /\ OneSocket /\ Stream!StreamInv

LEMMA Numbered == 1 \in Connections /\ Connections \subseteq Nat /\ 0 \notin Connections
  BY WebAssumption

LEMMA StreamInitially == WebInit => StreamWhole
<1> SUFFICES ASSUME Stream!Init PROVE StreamWhole
  BY DEF WebInit
<1>1. StreamTyped
  <2>1. <<>> \in Seq(Stream!Modes \cup {"stop"}) /\ <<>> \in Seq(1 .. MaxStates)
    OBVIOUS
  <2>2. 0 \in 0 .. MaxStates
    BY WebAssumption
  <2>3. QED
    BY <2>1, <2>2 DEF Stream!Init, StreamTyped, PageTyped, ServiceTyped, NumbersTyped, UpTyped,
       Stream!Modes
<1>2. OneSocket
  BY DEF Stream!Init, OneSocket
<1>3. Stream!StreamInv
  BY Numbered DEF Stream!Init, Stream!StreamInv, Stream!PageKnowsSocket, Stream!AcceptedFirst,
     Stream!PageAsked, Stream!CommandsArrive, Stream!StatesArrive
<1>4. QED
  BY <1>1, <1>2, <1>3 DEF StreamWhole

\* What the effects do: they send at most one command, when the page wants something else.
LEMMA EffectsSend ==
  ASSUME StreamTyped, NEW open \in BOOLEAN, NEW streaming \in BOOLEAN,
         Stream!Effects(open, streaming), isRecording' \in BOOLEAN
  PROVE  /\ isSocketOpen' = open
         /\ isStreaming' \in BOOLEAN /\ (isStreaming' <=> IF open THEN Wanted' ELSE streaming)
         /\ appliedMode' = IF open /\ Wanted' THEN mode' ELSE appliedMode
         /\ IF /\ open /\ (~(Wanted' <=> streaming) \/ (Wanted' /\ mode' # appliedMode))
               /\ socket' # 0 /\ end'[socket'] = "open"
            THEN up' = [up EXCEPT ![socket'] = Append(@, IF Wanted' THEN mode' ELSE "stop")]
            ELSE up' = up
<1> DEFINE w == Stream!Watching(view', isRecording')
<1>1. w \in BOOLEAN /\ (w <=> Wanted')
  BY DEF Stream!Watching, Wanted
<1>2. /\ isSocketOpen' = open
      /\ isStreaming' = IF open THEN w ELSE streaming
      /\ appliedMode' = IF open /\ w THEN mode' ELSE appliedMode
      /\ up' = IF (open /\ (w # streaming \/ (w /\ mode' # appliedMode)))
                    /\ (socket' # 0 /\ end'[socket'] = "open")
               THEN [up EXCEPT ![socket'] = Append(@, IF w THEN mode' ELSE "stop")] ELSE up
  BY DEF Stream!Effects
<1> HIDE DEF w
<1>3. (w # streaming) <=> ~(Wanted' <=> streaming)
  BY <1>1
<1>4. isStreaming' \in BOOLEAN /\ (isStreaming' <=> IF open THEN Wanted' ELSE streaming)
  BY <1>1, <1>2
<1>5. QED
  BY <1>1, <1>2, <1>3, <1>4


\* What a connection is for: the answer to a command that is sent now.
LEMMA OrderedNow ==
  ASSUME StreamTyped, NEW c \in Connections, NEW cmd, up'[c] = Append(up[c], cmd)
  PROVE  Stream!Ordered(c)' = IF cmd = "stop" THEN "none" ELSE cmd
<1>1. up[c] \in Seq(Stream!Modes \cup {"stop"})
  BY DEF StreamTyped, PageTyped, ServiceTyped, NumbersTyped, UpTyped
<1>2. up'[c] # <<>> /\ up'[c][Len(up'[c])] = cmd
  BY <1>1
<1>3. QED
  BY <1>2 DEF Stream!Ordered

LEMMA CommandsMean ==
  Stream!CommandsArrive <=>
    (socket # 0 /\ end[socket] = "open" =>
       /\ ~Wanted => Stream!Ordered(socket) = "none"
       /\ Wanted /\ socket = 1 => Stream!Ordered(socket) = mode
       /\ Wanted => Stream!Ordered(socket) \in {mode, "none"})
  BY DEF Stream!CommandsArrive, Wanted

LEMMA CommandsMeanNext ==
  Stream!CommandsArrive' <=>
    (socket' # 0 /\ end'[socket'] = "open" =>
       /\ ~Wanted' => Stream!Ordered(socket)' = "none"
       /\ Wanted' /\ socket' = 1 => Stream!Ordered(socket)' = mode'
       /\ Wanted' => Stream!Ordered(socket)' \in {mode', "none"})
  BY DEF Stream!CommandsArrive, Wanted

LEMMA ChooseKeeps == ASSUME StreamWhole, Stream!Choose PROVE StreamWhole'
<1>1. /\ view' \in {"analysis", "dashboard"} /\ isRecording' \in BOOLEAN /\ mode' \in Stream!Modes
      /\ UNCHANGED <<socket, bridgeInfo, reconnectTimer, shown, end, down>>
      /\ UNCHANGED <<accepted, subscribers, latest, state, publishing>>
      /\ Stream!Effects(isSocketOpen, isStreaming)
  BY DEF StreamWhole, StreamTyped, PageTyped, ServiceTyped, NumbersTyped, UpTyped,
     Stream!Choose, Stream!serverVars, Stream!Modes
<1>2. StreamTyped /\ isSocketOpen \in BOOLEAN /\ isStreaming \in BOOLEAN
  BY DEF StreamWhole, StreamTyped, PageTyped, ServiceTyped, NumbersTyped, UpTyped
<1> DEFINE cmd == IF Wanted' THEN mode' ELSE "stop"
           asks == isSocketOpen /\ (~(Wanted' <=> isStreaming) \/ (Wanted' /\ mode' # appliedMode))
<1>3. /\ isSocketOpen' = isSocketOpen
      /\ isStreaming' \in BOOLEAN
      /\ isStreaming' <=> IF isSocketOpen THEN Wanted' ELSE isStreaming
      /\ appliedMode' = IF isSocketOpen /\ Wanted' THEN mode' ELSE appliedMode
      /\ IF asks /\ socket # 0 /\ end[socket] = "open"
         THEN up' = [up EXCEPT ![socket] = Append(@, cmd)]
         ELSE up' = up
  BY <1>1, <1>2, EffectsSend
<1>4. cmd \in Stream!Modes \cup {"stop"} /\ cmd # "none"
  BY <1>1 DEF Stream!Modes
<1> HIDE DEF cmd, asks
<1>5. up' \in [Connections -> Seq(Stream!Modes \cup {"stop"})]
  <2>1. \A s \in Seq(Stream!Modes \cup {"stop"}) :
          Append(s, cmd) \in Seq(Stream!Modes \cup {"stop"})
    BY <1>4
  <2>2. up \in [Connections -> Seq(Stream!Modes \cup {"stop"})]
    BY <1>2 DEF StreamTyped, PageTyped, ServiceTyped, NumbersTyped, UpTyped
  <2>3. CASE up' = up
    BY <2>2, <2>3
  <2>4. CASE up' = [up EXCEPT ![socket] = Append(@, cmd)]
    BY <2>1, <2>2, <2>4
  <2>5. QED
    BY <1>3, <2>3, <2>4
<1>6. StreamTyped'
  BY <1>1, <1>2, <1>3, <1>5 DEF StreamTyped, PageTyped, ServiceTyped, NumbersTyped, UpTyped
<1>7. OneSocket'
  BY <1>1 DEF StreamWhole, OneSocket
<1>8. Stream!PageKnowsSocket'
  BY <1>1, <1>3 DEF StreamWhole, Stream!StreamInv, Stream!PageKnowsSocket
<1>9. Stream!AcceptedFirst'
  <2>1. ASSUME NEW c \in Connections, end[c] # "open" \/ accepted[c] # "open" PROVE up'[c] = up[c]
    BY <1>2, <1>3, <2>1 DEF StreamWhole, Stream!StreamInv, Stream!AcceptedFirst, StreamTyped,
       PageTyped, ServiceTyped, NumbersTyped, UpTyped
  <2>2. QED
    BY <1>1, <2>1 DEF StreamWhole, Stream!StreamInv, Stream!AcceptedFirst
<1>10. Stream!PageAsked'
  BY <1>1, <1>3 DEF Stream!PageAsked, Wanted
<1>11. Stream!CommandsArrive'
  <2> SUFFICES ASSUME socket # 0, end[socket] = "open"
               PROVE  /\ ~Wanted' => Stream!Ordered(socket)' = "none"
                      /\ Wanted' /\ socket = 1 => Stream!Ordered(socket)' = mode'
                      /\ Wanted' => Stream!Ordered(socket)' \in {mode', "none"}
    BY <1>1, CommandsMeanNext
  <2>1. socket \in Connections /\ isSocketOpen
    BY <1>2 DEF StreamWhole, StreamTyped, PageTyped, ServiceTyped, NumbersTyped, UpTyped,
       Stream!StreamInv, Stream!PageKnowsSocket
  <2>2. (isStreaming <=> Wanted) /\ (Wanted => appliedMode = mode)
    BY <2>1 DEF StreamWhole, Stream!StreamInv, Stream!PageAsked, Wanted
  <2>3. CASE asks
    <3>1. up'[socket] = Append(up[socket], cmd)
      BY <1>2, <1>3, <2>1, <2>3 DEF StreamTyped, PageTyped, ServiceTyped, NumbersTyped, UpTyped
    <3>2. Stream!Ordered(socket)' = IF cmd = "stop" THEN "none" ELSE cmd
      BY <1>1, <1>2, <2>1, <3>1, OrderedNow DEF Stream!Ordered
    <3>3. QED
      BY <1>1, <3>2 DEF cmd, Stream!Modes
  <2>4. CASE ~asks
    <3>1. Stream!Ordered(socket)' = Stream!Ordered(socket)
      BY <1>1, <1>3, <2>4 DEF Stream!Ordered
    <3>2. (Wanted' <=> Wanted) /\ (Wanted => mode' = mode)
      BY <2>1, <2>2, <2>4 DEF asks
    <3>3. QED
      BY <3>1, <3>2, CommandsMean DEF StreamWhole, Stream!StreamInv
  <2>5. QED
    BY <2>3, <2>4
<1>12. Stream!StatesArrive'
  BY <1>1 DEF StreamWhole, Stream!StreamInv, Stream!StatesArrive
<1>13. QED
  BY <1>6, <1>7, <1>8, <1>9, <1>10, <1>11, <1>12 DEF StreamWhole, Stream!StreamInv

LEMMA ConnectKeeps ==
  ASSUME StreamWhole, Stream!ConnectWebSocket, bridgeInfo' = "loaded", socket = 0
  PROVE  StreamWhole'
<1>1. /\ UNCHANGED <<view, isRecording, mode, shown, down>>
      /\ UNCHANGED <<accepted, subscribers, latest, state, publishing>>
      /\ reconnectTimer' = FALSE
      /\ Stream!Effects(FALSE, isStreaming)
  BY DEF Stream!ConnectWebSocket, Stream!SameChoices, Stream!choiceVars, Stream!serverVars
<1>2. StreamTyped /\ isStreaming \in BOOLEAN /\ isRecording' \in BOOLEAN
  BY <1>1 DEF StreamWhole, StreamTyped, PageTyped, ServiceTyped, NumbersTyped, UpTyped
<1>3. PICK c \in Connections :
        /\ end[c] = "unused" /\ \A d \in 1 .. c - 1 : end[d] # "unused"
        /\ socket' = c /\ end' = [end EXCEPT ![c] = "connecting"]
  BY DEF Stream!ConnectWebSocket
<1>4. /\ isSocketOpen' = FALSE
      /\ isStreaming' \in BOOLEAN /\ (isStreaming' <=> isStreaming)
      /\ appliedMode' = appliedMode /\ up' = up
  BY <1>1, <1>2, EffectsSend
<1>5. /\ end'[c] = "connecting" /\ \A d \in Connections \ {c} : end'[d] = end[d]
      /\ c # 0 /\ 1 \in Connections /\ c \in Nat
  BY <1>2, <1>3, Numbered DEF StreamTyped, PageTyped, ServiceTyped, NumbersTyped, UpTyped
<1>6. StreamTyped'
  <2>1. PageTyped'
    BY <1>1, <1>2, <1>3, <1>4 DEF StreamTyped, PageTyped
  <2>2. ServiceTyped' /\ NumbersTyped' /\ UpTyped'
    BY <1>1, <1>2, <1>4 DEF StreamTyped, ServiceTyped, NumbersTyped, UpTyped
  <2>3. QED
    BY <2>1, <2>2 DEF StreamTyped
<1>7. OneSocket'
  BY <1>3, <1>5, Numbered DEF StreamWhole, OneSocket
<1>8. Stream!PageKnowsSocket'
  <2>1. end[1] = "unused" => c = 1
    BY <1>3, <1>5
  <2>2. end[1] # "connecting"
    BY <1>5 DEF StreamWhole, OneSocket
  <2>3. end'[1] # "unused"
    BY <1>3, <1>5, <2>1
  <2>4. end'[1] = "connecting" => end[1] = "unused"
    BY <1>3, <1>5, <2>2
  <2>5. end[1] = "unused" => ~isStreaming
    BY DEF StreamWhole, Stream!StreamInv, Stream!PageKnowsSocket
  <2>6. QED
    BY <1>1, <1>3, <1>4, <1>5, <2>3, <2>4, <2>5 DEF Stream!PageKnowsSocket
<1>9. Stream!AcceptedFirst'
  BY <1>1, <1>3, <1>4, <1>5 DEF StreamWhole, Stream!StreamInv, Stream!AcceptedFirst
<1>10. Stream!PageAsked'
  BY <1>4 DEF Stream!PageAsked
<1>11. Stream!CommandsArrive'
  BY <1>3, <1>5, CommandsMeanNext
<1>12. Stream!StatesArrive'
  <2>1. accepted[c] = "no"
    BY <1>3 DEF StreamWhole, Stream!StreamInv, Stream!AcceptedFirst
  <2>2. QED
    BY <1>1, <1>5, <2>1 DEF StreamWhole, Stream!StreamInv, Stream!StatesArrive
<1>13. QED
  BY <1>6, <1>7, <1>8, <1>9, <1>10, <1>11, <1>12 DEF StreamWhole, Stream!StreamInv

LEMMA InfoFailsKeeps == ASSUME StreamWhole, Stream!InfoFails PROVE StreamWhole'
<1>1. /\ bridgeInfo = "loading" /\ bridgeInfo' = "failed"
      /\ UNCHANGED <<view, isRecording, mode, socket, isSocketOpen, isStreaming, appliedMode>>
      /\ UNCHANGED <<reconnectTimer, shown, end, up, down>>
      /\ UNCHANGED <<accepted, subscribers, latest, state, publishing>>
  BY DEF Stream!InfoFails, Stream!choiceVars, Stream!serverVars
<1>2. StreamTyped'
  <2>1. PageTyped'
    BY <1>1 DEF StreamWhole, StreamTyped, PageTyped
  <2>2. ServiceTyped' /\ NumbersTyped' /\ UpTyped'
    BY <1>1 DEF StreamWhole, StreamTyped, ServiceTyped, NumbersTyped, UpTyped
  <2>3. QED
    BY <2>1, <2>2 DEF StreamTyped
<1>3. OneSocket' /\ Stream!PageKnowsSocket'
  BY <1>1 DEF StreamWhole, OneSocket, Stream!StreamInv, Stream!PageKnowsSocket
<1>4. Stream!AcceptedFirst'
  BY <1>1 DEF StreamWhole, Stream!StreamInv, Stream!AcceptedFirst
<1>5. Stream!PageAsked'
  BY <1>1 DEF StreamWhole, Stream!StreamInv, Stream!PageAsked
<1>6. Stream!CommandsArrive'
  BY <1>1 DEF StreamWhole, Stream!StreamInv, Stream!CommandsArrive, Stream!Ordered
<1>7. Stream!StatesArrive'
  BY <1>1 DEF StreamWhole, Stream!StreamInv, Stream!StatesArrive
<1>8. QED
  BY <1>2, <1>3, <1>4, <1>5, <1>6, <1>7 DEF StreamWhole, Stream!StreamInv

LEMMA OpenedKeeps ==
  ASSUME StreamWhole, NEW c \in Connections, Stream!Opened(c) PROVE StreamWhole'
<1>1. /\ UNCHANGED <<view, isRecording, mode, socket, bridgeInfo, reconnectTimer, shown, down>>
      /\ UNCHANGED <<accepted, subscribers, latest, state, publishing>>
      /\ end[c] = "connecting" /\ accepted[c] = "open" /\ end' = [end EXCEPT ![c] = "open"]
      /\ Stream!Effects(TRUE, isStreaming)
  BY DEF Stream!Opened, Stream!SameChoices, Stream!choiceVars, Stream!serverVars
<1>2. StreamTyped /\ isStreaming \in BOOLEAN /\ isRecording' \in BOOLEAN
  BY <1>1 DEF StreamWhole, StreamTyped, PageTyped
<1>3. c = socket /\ c # 0
  BY <1>1, Numbered DEF StreamWhole, OneSocket
<1>4. /\ end'[c] = "open" /\ \A d \in Connections \ {c} : end'[d] = end[d]
      /\ \A d \in Connections \ {c} : end[d] \notin {"connecting", "open"}
  BY <1>1, <1>2, <1>3 DEF StreamWhole, StreamTyped, PageTyped, OneSocket
<1> DEFINE cmd == IF Wanted' THEN mode' ELSE "stop"
           asks == ~(Wanted' <=> isStreaming) \/ (Wanted' /\ mode' # appliedMode)
<1>5. /\ isSocketOpen' = TRUE
      /\ isStreaming' \in BOOLEAN /\ (isStreaming' <=> Wanted')
      /\ appliedMode' = IF Wanted' THEN mode' ELSE appliedMode
      /\ IF asks THEN up' = [up EXCEPT ![c] = Append(@, cmd)] ELSE up' = up
  BY <1>1, <1>2, <1>3, <1>4, EffectsSend
<1>6. cmd \in Stream!Modes \cup {"stop"} /\ cmd # "none"
  BY <1>1, <1>2 DEF Stream!Modes, StreamTyped, PageTyped
<1> HIDE DEF cmd, asks
<1>7. UpTyped' /\ \A d \in Connections \ {c} : up'[d] = up[d]
  <2>1. \A s \in Seq(Stream!Modes \cup {"stop"}) :
          Append(s, cmd) \in Seq(Stream!Modes \cup {"stop"})
    BY <1>6
  <2>2. QED
    BY <1>2, <1>5, <2>1 DEF StreamTyped, UpTyped
<1>8. StreamTyped'
  <2>1. PageTyped'
    BY <1>1, <1>2, <1>5 DEF StreamTyped, PageTyped
  <2>2. ServiceTyped' /\ NumbersTyped'
    BY <1>1, <1>2 DEF StreamTyped, ServiceTyped, NumbersTyped
  <2>3. QED
    BY <1>7, <2>1, <2>2 DEF StreamTyped
<1>9. OneSocket'
  BY <1>1, <1>3, <1>4 DEF StreamWhole, OneSocket
<1>10. Stream!PageKnowsSocket'
  <2>1. end[1] # "unused"
    BY <1>1 DEF StreamWhole, Stream!StreamInv, Stream!PageKnowsSocket
  <2>2. end'[1] \notin {"unused", "connecting"}
    BY <1>4, <2>1, Numbered
  <2>3. QED
    BY <1>1, <1>3, <1>4, <1>5, <2>2 DEF StreamWhole, Stream!StreamInv, Stream!PageKnowsSocket
<1>11. Stream!AcceptedFirst'
  BY <1>1, <1>4, <1>7 DEF StreamWhole, Stream!StreamInv, Stream!AcceptedFirst
<1>12. Stream!PageAsked'
  BY <1>5 DEF Stream!PageAsked, Wanted
<1>13. Stream!CommandsArrive'
  <2>1. up[c] = <<>> /\ subscribers[c] = "none"
    BY <1>1 DEF StreamWhole, Stream!StreamInv, Stream!AcceptedFirst
  <2>2. c = 1 => ~isStreaming
    BY <1>1 DEF StreamWhole, Stream!StreamInv, Stream!PageKnowsSocket
  <2>3. CASE asks
    <3>1. up'[c] = Append(up[c], cmd)
      BY <1>2, <1>5, <2>3 DEF StreamTyped, UpTyped
    <3>2. Stream!Ordered(c)' = IF cmd = "stop" THEN "none" ELSE cmd
      BY <1>2, <3>1, OrderedNow
    <3>3. QED
      BY <1>1, <1>2, <1>3, <3>2, CommandsMeanNext DEF cmd, Stream!Modes, StreamTyped, PageTyped,
         Stream!Ordered
  <2>4. CASE ~asks
    <3>1. Stream!Ordered(c)' = "none"
      BY <1>1, <1>5, <2>1, <2>4 DEF Stream!Ordered
    <3>2. Wanted' => c # 1
      BY <2>2, <2>4 DEF asks
    <3>3. QED
      BY <1>1, <1>3, <3>1, <3>2, CommandsMeanNext DEF Stream!Ordered
  <2>5. QED
    BY <2>3, <2>4
<1>14. Stream!StatesArrive'
  BY <1>1, <1>4 DEF StreamWhole, Stream!StreamInv, Stream!StatesArrive
<1>15. QED
  BY <1>8, <1>9, <1>10, <1>11, <1>12, <1>13, <1>14 DEF StreamWhole, Stream!StreamInv

LEMMA DisconnectedKeeps ==
  ASSUME StreamWhole, NEW c \in Connections, Stream!Disconnected(c) PROVE StreamWhole'
<1>1. /\ UNCHANGED <<view, isRecording, mode, bridgeInfo, shown>>
      /\ UNCHANGED <<accepted, subscribers, latest, state, publishing>>
      /\ end[c] \in {"connecting", "open"} /\ end' = [end EXCEPT ![c] = "closed"]
      /\ down' = [down EXCEPT ![c] = <<>>] /\ socket' = 0 /\ reconnectTimer' = TRUE
      /\ Stream!Effects(isSocketOpen, FALSE)
  BY DEF Stream!Disconnected, Stream!SameChoices, Stream!choiceVars, Stream!serverVars
<1>2. StreamTyped /\ isSocketOpen \in BOOLEAN /\ isRecording' \in BOOLEAN
  BY <1>1 DEF StreamWhole, StreamTyped, PageTyped
<1>3. c = socket /\ c # 0
  BY <1>1, Numbered DEF StreamWhole, OneSocket
<1>4. /\ end'[c] = "closed" /\ \A d \in Connections \ {c} : end'[d] = end[d]
      /\ \A d \in Connections \ {c} : end[d] \notin {"connecting", "open"}
      /\ down'[c] = <<>> /\ \A d \in Connections \ {c} : down'[d] = down[d]
  BY <1>1, <1>2, <1>3 DEF StreamWhole, StreamTyped, PageTyped, NumbersTyped, OneSocket
<1>5. /\ isSocketOpen' = isSocketOpen
      /\ isStreaming' \in BOOLEAN /\ (isStreaming' <=> isSocketOpen /\ Wanted')
      /\ appliedMode' = IF isSocketOpen /\ Wanted' THEN mode' ELSE appliedMode
      /\ up' = up
  BY <1>1, <1>2, EffectsSend
<1>6. StreamTyped'
  <2>1. PageTyped'
    BY <1>1, <1>2, <1>5 DEF StreamTyped, PageTyped
  <2>2. ServiceTyped' /\ UpTyped'
    BY <1>1, <1>2, <1>5 DEF StreamTyped, ServiceTyped, UpTyped
  <2>3. NumbersTyped'
    BY <1>1, <1>2 DEF StreamTyped, NumbersTyped
  <2>4. QED
    BY <2>1, <2>2, <2>3 DEF StreamTyped
<1>7. OneSocket'
  BY <1>1, <1>4 DEF OneSocket
<1>8. Stream!PageKnowsSocket'
  <2>1. end[1] # "unused" /\ bridgeInfo = "loaded"
    BY <1>1, <1>3 DEF StreamWhole, Stream!StreamInv, Stream!PageKnowsSocket
  <2>2. end'[1] \notin {"unused", "connecting"}
    BY <1>4, <2>1, Numbered
  <2>3. QED
    BY <1>1, <2>1, <2>2 DEF Stream!PageKnowsSocket
<1>9. Stream!AcceptedFirst'
  BY <1>1, <1>4, <1>5 DEF StreamWhole, Stream!StreamInv, Stream!AcceptedFirst
<1>10. Stream!PageAsked'
  BY <1>5 DEF Stream!PageAsked, Wanted
<1>11. Stream!CommandsArrive'
  BY <1>1, CommandsMeanNext
<1>12. Stream!StatesArrive'
  BY <1>1, <1>4 DEF StreamWhole, Stream!StreamInv, Stream!StatesArrive
<1>13. QED
  BY <1>6, <1>7, <1>8, <1>9, <1>10, <1>11, <1>12 DEF StreamWhole, Stream!StreamInv

\* The last of a sequence that is read from its head.
LEMMA LastStays ==
  ASSUME NEW S, NEW q \in Seq(S), q # <<>>
  PROVE  /\ Tail(q) \in Seq(S) /\ Head(q) \in S
         /\ Tail(q) = <<>> => q[Len(q)] = Head(q)
         /\ Tail(q) # <<>> => Tail(q)[Len(Tail(q))] = q[Len(q)]
<1>1. Len(q) \in Nat \ {0} /\ Tail(q) \in Seq(S) /\ Len(Tail(q)) = Len(q) - 1 /\ Head(q) = q[1]
  OBVIOUS
<1>2. \A r \in Seq(S) : r = <<>> <=> Len(r) = 0
  OBVIOUS
<1>3. Tail(q) # <<>> => Tail(q)[Len(Tail(q))] = q[Len(q)]
  BY <1>1, <1>2
<1>4. Tail(q) = <<>> => Len(q) = 1
  <2> DEFINE r == Tail(q)
  <2>1. r \in Seq(S) /\ Len(r) = Len(q) - 1 /\ Len(q) \in Nat
    BY <1>1
  <2> HIDE DEF r
  <2>2. r = <<>> => Len(q) = 1
    BY <1>2, <2>1
  <2>3. QED
    BY <2>2 DEF r
<1>5. QED
  BY <1>1, <1>3, <1>4

LEMMA HearKeeps ==
  ASSUME StreamWhole, NEW c \in Connections, Stream!Hear(c) PROVE StreamWhole'
<1>1. /\ UNCHANGED <<view, isRecording, mode, bridgeInfo, socket, isSocketOpen, isStreaming>>
      /\ UNCHANGED <<appliedMode, reconnectTimer, end, up>>
      /\ UNCHANGED <<accepted, subscribers, latest, state, publishing>>
      /\ end[c] = "open" /\ down[c] # <<>>
      /\ shown' = Head(down[c]) /\ down' = [down EXCEPT ![c] = Tail(@)]
  BY DEF Stream!Hear, Stream!choiceVars, Stream!serverVars
<1>2. StreamTyped /\ c = socket /\ c # 0
  BY <1>1, Numbered DEF StreamWhole, OneSocket
<1>3. /\ down[c] \in Seq(1 .. MaxStates) /\ Tail(down[c]) \in Seq(1 .. MaxStates)
      /\ down'[c] = Tail(down[c]) /\ shown' \in 1 .. MaxStates
      /\ \A d \in Connections \ {c} : down'[d] = down[d]
      /\ down' \in [Connections -> Seq(1 .. MaxStates)]
  <2>1. down[c] \in Seq(1 .. MaxStates)
    BY <1>2 DEF StreamTyped, NumbersTyped
  <2>2. Tail(down[c]) \in Seq(1 .. MaxStates) /\ Head(down[c]) \in 1 .. MaxStates
    BY <1>1, <2>1, LastStays
  <2>3. QED
    BY <1>1, <1>2, <2>1, <2>2 DEF StreamTyped, NumbersTyped
<1>4. StreamTyped'
  <2>1. PageTyped'
    BY <1>1, <1>2 DEF StreamTyped, PageTyped
  <2>2. ServiceTyped' /\ UpTyped'
    BY <1>1, <1>2 DEF StreamTyped, ServiceTyped, UpTyped
  <2>3. NumbersTyped'
    <3>1. shown' \in 0 .. MaxStates
      BY <1>3, WebAssumption
    <3>2. QED
      BY <1>1, <1>2, <1>3, <3>1 DEF StreamTyped, NumbersTyped
  <2>4. QED
    BY <2>1, <2>2, <2>3 DEF StreamTyped
<1>5. OneSocket' /\ Stream!PageKnowsSocket'
  BY <1>1 DEF StreamWhole, OneSocket, Stream!StreamInv, Stream!PageKnowsSocket
<1>6. Stream!AcceptedFirst'
  BY <1>1, <1>3 DEF StreamWhole, Stream!StreamInv, Stream!AcceptedFirst
<1>7. Stream!PageAsked'
  BY <1>1 DEF StreamWhole, Stream!StreamInv, Stream!PageAsked
<1>8. Stream!CommandsArrive'
  BY <1>1 DEF StreamWhole, Stream!StreamInv, Stream!CommandsArrive, Stream!Ordered
<1>9. Stream!StatesArrive'
  <2>1. accepted[c] = "open"
    BY <1>1 DEF StreamWhole, Stream!StreamInv, Stream!AcceptedFirst
  <2>2. latest = down[c][Len(down[c])] /\ latest # 0
    BY <1>1, <2>1 DEF StreamWhole, Stream!StreamInv, Stream!StatesArrive
  <2>3. latest = IF down'[c] = <<>> THEN shown' ELSE down'[c][Len(down'[c])]
    BY <1>1, <1>3, <2>2, LastStays
  <2>4. \A d \in Connections \ {c} : accepted[d] = "open" => end[d] = "closed"
    <3>1. SUFFICES ASSUME NEW d \in Connections \ {c}, accepted[d] = "open" PROVE end[d] = "closed"
      OBVIOUS
    <3>2. end[d] # "unused"
      BY <3>1 DEF StreamWhole, Stream!StreamInv, Stream!AcceptedFirst
    <3>3. end[d] \notin {"connecting", "open"}
      BY <1>2 DEF StreamWhole, OneSocket
    <3>4. end[d] \in {"unused", "connecting", "open", "closed"}
      BY <1>2 DEF StreamTyped, PageTyped
    <3>5. QED
      BY <3>2, <3>3, <3>4
  <2>5. QED
    BY <1>1, <1>2, <2>2, <2>3, <2>4 DEF StreamWhole, Stream!StreamInv, Stream!StatesArrive
<1>10. QED
  BY <1>4, <1>5, <1>6, <1>7, <1>8, <1>9 DEF StreamWhole, Stream!StreamInv

\* What the service does leaves the page as it is.
LEMMA PageRests ==
  ASSUME StreamWhole, UNCHANGED <<Stream!choiceVars, Stream!pageVars>>
  PROVE  /\ UNCHANGED <<view, isRecording, mode, bridgeInfo, socket, isSocketOpen, isStreaming>>
         /\ UNCHANGED <<appliedMode, reconnectTimer, end, shown>>
         /\ PageTyped' /\ OneSocket' /\ Stream!PageKnowsSocket' /\ Stream!PageAsked'
<1>1. /\ UNCHANGED <<view, isRecording, mode, bridgeInfo, socket, isSocketOpen, isStreaming>>
      /\ UNCHANGED <<appliedMode, reconnectTimer, end, shown>>
  BY DEF Stream!choiceVars, Stream!pageVars
<1>2. PageTyped'
  BY <1>1 DEF StreamWhole, StreamTyped, PageTyped
<1>3. OneSocket' /\ Stream!PageKnowsSocket'
  BY <1>1 DEF StreamWhole, OneSocket, Stream!StreamInv, Stream!PageKnowsSocket
<1>4. Stream!PageAsked'
  BY <1>1 DEF StreamWhole, Stream!StreamInv, Stream!PageAsked
<1>5. QED
  BY <1>1, <1>2, <1>3, <1>4

LEMMA AcceptKeeps ==
  ASSUME StreamWhole, NEW c \in Connections, Stream!Accept(c) PROVE StreamWhole'
<1>1. /\ UNCHANGED <<up, subscribers, latest, state, publishing>>
      /\ end[c] = "connecting" /\ accepted[c] = "no"
      /\ accepted' = [accepted EXCEPT ![c] = "open"]
      /\ down' = [down EXCEPT ![c] = IF latest = 0 THEN <<>> ELSE <<latest>>]
      /\ UNCHANGED <<Stream!choiceVars, Stream!pageVars>>
  BY DEF Stream!Accept
<1>2. /\ UNCHANGED <<view, isRecording, mode, bridgeInfo, socket, isSocketOpen, isStreaming>>
      /\ UNCHANGED <<appliedMode, reconnectTimer, end, shown>>
      /\ PageTyped' /\ OneSocket' /\ Stream!PageKnowsSocket' /\ Stream!PageAsked'
  BY <1>1, PageRests
<1>3. StreamTyped
  BY DEF StreamWhole
<1>4. /\ accepted'[c] = "open" /\ \A d \in Connections \ {c} : accepted'[d] = accepted[d]
      /\ down'[c] = (IF latest = 0 THEN <<>> ELSE <<latest>>)
      /\ \A d \in Connections \ {c} : down'[d] = down[d]
  BY <1>1, <1>3 DEF StreamTyped, ServiceTyped, NumbersTyped
<1>5. StreamTyped'
  <2>1. ServiceTyped'
    BY <1>1, <1>3 DEF StreamTyped, ServiceTyped
  <2>2. (IF latest = 0 THEN <<>> ELSE <<latest>>) \in Seq(1 .. MaxStates)
    <3>1. latest # 0 => latest \in 1 .. MaxStates
      BY <1>3, WebAssumption DEF StreamTyped, NumbersTyped
    <3>2. <<>> \in Seq(1 .. MaxStates) /\ \A n \in 1 .. MaxStates : <<n>> \in Seq(1 .. MaxStates)
      OBVIOUS
    <3>3. QED
      BY <3>1, <3>2
  <2>3. down' \in [Connections -> Seq(1 .. MaxStates)]
    BY <1>1, <1>3, <2>2 DEF StreamTyped, NumbersTyped
  <2>4. NumbersTyped' /\ UpTyped'
    BY <1>1, <1>2, <1>3, <2>3 DEF StreamTyped, NumbersTyped, UpTyped
  <2>5. QED
    BY <1>2, <2>1, <2>4 DEF StreamTyped
<1>6. Stream!AcceptedFirst'
  BY <1>1, <1>2, <1>4 DEF StreamWhole, Stream!StreamInv, Stream!AcceptedFirst
<1>7. Stream!CommandsArrive'
  BY <1>1, <1>2 DEF StreamWhole, Stream!StreamInv, Stream!CommandsArrive, Stream!Ordered
<1>8. Stream!StatesArrive'
  <2>1. latest = IF down'[c] = <<>> THEN shown ELSE down'[c][Len(down'[c])]
    BY <1>4 DEF StreamWhole, Stream!StreamInv, Stream!StatesArrive
  <2>2. latest = 0 => \A d \in Connections : down'[d] = <<>>
    BY <1>4 DEF StreamWhole, Stream!StreamInv, Stream!StatesArrive
  <2>3. QED
    BY <1>1, <1>2, <1>4, <2>1, <2>2 DEF StreamWhole, Stream!StreamInv, Stream!StatesArrive
<1>9. QED
  BY <1>2, <1>5, <1>6, <1>7, <1>8 DEF StreamWhole, Stream!StreamInv

LEMMA CommandKeeps ==
  ASSUME StreamWhole, NEW c \in Connections, Stream!Command(c) PROVE StreamWhole'
<1> DEFINE told == IF Head(up[c]) = "stop" THEN "none" ELSE Head(up[c])
<1>1. /\ UNCHANGED <<down, accepted, latest, state, publishing>>
      /\ accepted[c] = "open" /\ up[c] # <<>>
      /\ subscribers' = [subscribers EXCEPT ![c] = told]
      /\ up' = [up EXCEPT ![c] = Tail(@)]
      /\ UNCHANGED <<Stream!choiceVars, Stream!pageVars>>
  BY DEF Stream!Command
<1>2. /\ UNCHANGED <<view, isRecording, mode, bridgeInfo, socket, isSocketOpen, isStreaming>>
      /\ UNCHANGED <<appliedMode, reconnectTimer, end, shown>>
      /\ PageTyped' /\ OneSocket' /\ Stream!PageKnowsSocket' /\ Stream!PageAsked'
  BY <1>1, PageRests
<1>3. StreamTyped /\ up[c] \in Seq(Stream!Modes \cup {"stop"})
  BY DEF StreamWhole, StreamTyped, UpTyped
<1>4. /\ Tail(up[c]) \in Seq(Stream!Modes \cup {"stop"}) /\ told \in Stream!Modes \cup {"none"}
      /\ Tail(up[c]) = <<>> => up[c][Len(up[c])] = Head(up[c])
      /\ Tail(up[c]) # <<>> => Tail(up[c])[Len(Tail(up[c]))] = up[c][Len(up[c])]
  BY <1>1, <1>3, LastStays
<1>5. /\ subscribers'[c] = told /\ \A d \in Connections \ {c} : subscribers'[d] = subscribers[d]
      /\ up'[c] = Tail(up[c]) /\ \A d \in Connections \ {c} : up'[d] = up[d]
  BY <1>1, <1>3 DEF StreamTyped, ServiceTyped, UpTyped
<1>6. StreamTyped'
  <2>1. ServiceTyped'
    BY <1>1, <1>3, <1>4 DEF StreamTyped, ServiceTyped
  <2>2. NumbersTyped'
    BY <1>1, <1>2, <1>3 DEF StreamTyped, NumbersTyped
  <2>3. UpTyped'
    BY <1>1, <1>3, <1>4 DEF StreamTyped, UpTyped
  <2>4. QED
    BY <1>2, <2>1, <2>2, <2>3 DEF StreamTyped
<1>7. Stream!AcceptedFirst'
  <2>1. end[c] \notin {"unused", "connecting"}
    BY <1>1 DEF StreamWhole, Stream!StreamInv, Stream!AcceptedFirst
  <2>2. QED
    BY <1>1, <1>2, <1>5, <2>1 DEF StreamWhole, Stream!StreamInv, Stream!AcceptedFirst
<1>8. \A d \in Connections : Stream!Ordered(d)' = Stream!Ordered(d)
  <2>1. Stream!Ordered(c)' = Stream!Ordered(c)
    BY <1>1, <1>4, <1>5 DEF Stream!Ordered
  <2>2. QED
    BY <1>5, <2>1 DEF Stream!Ordered
<1>9. Stream!CommandsArrive'
  <2>1. socket # 0 => Stream!Ordered(socket)' = Stream!Ordered(socket)
    BY <1>2, <1>3, <1>8 DEF StreamTyped, PageTyped, Stream!Ordered
  <2>2. Wanted' = Wanted
    BY <1>2 DEF Wanted
  <2>3. QED
    BY <1>2, <2>1, <2>2, CommandsMean, CommandsMeanNext DEF StreamWhole, Stream!StreamInv
<1>10. Stream!StatesArrive'
  BY <1>1, <1>2 DEF StreamWhole, Stream!StreamInv, Stream!StatesArrive
<1>11. QED
  BY <1>2, <1>6, <1>7, <1>9, <1>10 DEF StreamWhole, Stream!StreamInv

LEMMA GoneKeeps ==
  ASSUME StreamWhole, NEW c \in Connections, Stream!Gone(c) PROVE StreamWhole'
<1>1. /\ UNCHANGED <<down, latest, state, publishing>>
      /\ accepted[c] = "open" /\ end[c] = "closed"
      /\ accepted' = [accepted EXCEPT ![c] = "gone"]
      /\ subscribers' = [subscribers EXCEPT ![c] = "none"]
      /\ up' = [up EXCEPT ![c] = <<>>]
      /\ UNCHANGED <<Stream!choiceVars, Stream!pageVars>>
  BY DEF Stream!Gone
<1>2. /\ UNCHANGED <<view, isRecording, mode, bridgeInfo, socket, isSocketOpen, isStreaming>>
      /\ UNCHANGED <<appliedMode, reconnectTimer, end, shown>>
      /\ PageTyped' /\ OneSocket' /\ Stream!PageKnowsSocket' /\ Stream!PageAsked'
  BY <1>1, PageRests
<1>3. StreamTyped
  BY DEF StreamWhole
<1>4. /\ accepted'[c] = "gone" /\ \A d \in Connections \ {c} : accepted'[d] = accepted[d]
      /\ subscribers'[c] = "none" /\ \A d \in Connections \ {c} : subscribers'[d] = subscribers[d]
      /\ up'[c] = <<>> /\ \A d \in Connections \ {c} : up'[d] = up[d]
  BY <1>1, <1>3 DEF StreamTyped, ServiceTyped, UpTyped
<1>5. StreamTyped'
  <2>1. ServiceTyped'
    BY <1>1, <1>3 DEF StreamTyped, ServiceTyped
  <2>2. NumbersTyped'
    BY <1>1, <1>2, <1>3 DEF StreamTyped, NumbersTyped
  <2>3. <<>> \in Seq(Stream!Modes \cup {"stop"})
    OBVIOUS
  <2>4. UpTyped'
    BY <1>1, <1>3, <2>3 DEF StreamTyped, UpTyped
  <2>5. QED
    BY <1>2, <2>1, <2>2, <2>4 DEF StreamTyped
<1>6. Stream!AcceptedFirst'
  BY <1>1, <1>2, <1>4 DEF StreamWhole, Stream!StreamInv, Stream!AcceptedFirst
<1>7. Stream!CommandsArrive'
  <2>1. socket # 0 => socket # c
    BY <1>1 DEF StreamWhole, Stream!StreamInv, Stream!PageKnowsSocket
  <2>2. socket # 0 => Stream!Ordered(socket)' = Stream!Ordered(socket)
    BY <1>2, <1>3, <1>4, <2>1 DEF StreamTyped, PageTyped, Stream!Ordered
  <2>3. Wanted' = Wanted
    BY <1>2 DEF Wanted
  <2>4. QED
    BY <1>2, <2>2, <2>3, CommandsMean, CommandsMeanNext DEF StreamWhole, Stream!StreamInv
<1>8. Stream!StatesArrive'
  BY <1>1, <1>2, <1>4 DEF StreamWhole, Stream!StreamInv, Stream!StatesArrive
<1>9. QED
  BY <1>2, <1>5, <1>6, <1>7, <1>8 DEF StreamWhole, Stream!StreamInv

\* A state that is told reaches every page the service knows.
LEMMA BroadcastArrives ==
  ASSUME StreamTyped, NEW payload \in 1 .. MaxStates, Stream!Broadcast(payload),
         UNCHANGED <<accepted, end>>
  PROVE  /\ latest' = payload /\ down' \in [Connections -> Seq(1 .. MaxStates)]
         /\ \A d \in Connections : accepted'[d] = "open" /\ end'[d] # "closed" =>
              down'[d] # <<>> /\ down'[d][Len(down'[d])] = payload
         /\ \A d \in Connections : accepted[d] = "no" => down'[d] = down[d]
<1>1. /\ latest' = payload
      /\ down' = [d \in Connections |->
                    IF accepted[d] = "open" /\ end[d] # "closed" THEN Append(down[d], payload)
                    ELSE down[d]]
  BY DEF Stream!Broadcast
<1>2. \A s \in Seq(1 .. MaxStates) :
        /\ Append(s, payload) \in Seq(1 .. MaxStates) /\ Append(s, payload) # <<>>
        /\ Append(s, payload)[Len(Append(s, payload))] = payload
  OBVIOUS
<1>3. \A d \in Connections : down[d] \in Seq(1 .. MaxStates)
  BY DEF StreamTyped, NumbersTyped
<1>4. QED
  BY <1>1, <1>2, <1>3

LEMMA BroadcastKeeps ==
  ASSUME StreamWhole, NEW payload \in 1 .. MaxStates, Stream!Broadcast(payload),
         UNCHANGED <<Stream!choiceVars, Stream!pageVars, up, accepted, subscribers>>,
         state' \in 0 .. MaxStates, publishing' \in Seq(1 .. MaxStates),
         state' = IF publishing' = <<>> THEN payload ELSE publishing'[Len(publishing')]
  PROVE  StreamWhole'
<1>1. /\ UNCHANGED <<view, isRecording, mode, bridgeInfo, socket, isSocketOpen, isStreaming>>
      /\ UNCHANGED <<appliedMode, reconnectTimer, end, shown>>
      /\ PageTyped' /\ OneSocket' /\ Stream!PageKnowsSocket' /\ Stream!PageAsked'
  BY PageRests
<1>2. StreamTyped
  BY DEF StreamWhole
<1>3. /\ latest' = payload /\ down' \in [Connections -> Seq(1 .. MaxStates)]
      /\ \A d \in Connections : accepted'[d] = "open" /\ end'[d] # "closed" =>
           down'[d] # <<>> /\ down'[d][Len(down'[d])] = payload
      /\ \A d \in Connections : accepted[d] = "no" => down'[d] = down[d]
  BY <1>1, <1>2, BroadcastArrives
<1>4. payload # 0 /\ payload \in 0 .. MaxStates
  BY WebAssumption
<1>5. StreamTyped'
  <2>1. NumbersTyped'
    BY <1>1, <1>2, <1>3, <1>4 DEF StreamTyped, NumbersTyped
  <2>2. ServiceTyped' /\ UpTyped'
    BY <1>2 DEF StreamTyped, ServiceTyped, UpTyped
  <2>3. QED
    BY <1>1, <2>1, <2>2 DEF StreamTyped
<1>6. Stream!AcceptedFirst'
  BY <1>1, <1>3 DEF StreamWhole, Stream!StreamInv, Stream!AcceptedFirst
<1>7. Stream!CommandsArrive'
  BY <1>1 DEF StreamWhole, Stream!StreamInv, Stream!CommandsArrive, Stream!Ordered
<1>8. Stream!StatesArrive'
  BY <1>3, <1>4 DEF Stream!StatesArrive
<1>9. QED
  BY <1>1, <1>5, <1>6, <1>7, <1>8 DEF StreamWhole, Stream!StreamInv

LEMMA StateChangesKeeps == ASSUME StreamWhole, Stream!StateChanges PROVE StreamWhole'
<1>1. /\ state < MaxStates /\ state' = state + 1 /\ publishing' = Append(publishing, state + 1)
      /\ Stream!Broadcast(state + 1)
      /\ UNCHANGED <<Stream!choiceVars, Stream!pageVars, up, accepted, subscribers>>
  BY DEF Stream!StateChanges
<1>2. state \in 0 .. MaxStates /\ publishing \in Seq(1 .. MaxStates)
  BY DEF StreamWhole, StreamTyped, NumbersTyped
<1>3. state + 1 \in 1 .. MaxStates /\ state' \in 0 .. MaxStates
  BY <1>1, <1>2, WebAssumption
<1>4. /\ publishing' \in Seq(1 .. MaxStates) /\ publishing' # <<>>
      /\ publishing'[Len(publishing')] = state + 1
  BY <1>1, <1>2, <1>3
<1>5. QED
  BY <1>1, <1>3, <1>4, BroadcastKeeps

LEMMA PublishedKeeps == ASSUME StreamWhole, Stream!Published PROVE StreamWhole'
<1>1. /\ publishing # <<>> /\ publishing' = Tail(publishing) /\ state' = state
      /\ Stream!Broadcast(Head(publishing))
      /\ UNCHANGED <<Stream!choiceVars, Stream!pageVars, up, accepted, subscribers>>
  BY DEF Stream!Published
<1>2. state \in 0 .. MaxStates /\ publishing \in Seq(1 .. MaxStates)
  BY DEF StreamWhole, StreamTyped, NumbersTyped
<1>3. state = publishing[Len(publishing)]
  BY <1>1 DEF StreamWhole, Stream!StreamInv, Stream!StatesArrive
<1>4. /\ publishing' \in Seq(1 .. MaxStates) /\ Head(publishing) \in 1 .. MaxStates
      /\ publishing' = <<>> => publishing[Len(publishing)] = Head(publishing)
      /\ publishing' # <<>> => publishing'[Len(publishing')] = publishing[Len(publishing)]
  BY <1>1, <1>2, LastStays
<1>5. QED
  BY <1>1, <1>2, <1>3, <1>4, BroadcastKeeps

\* Every action of the page and of the service keeps it.
LEMMA StreamKeeps == ASSUME StreamWhole, Stream!Next PROVE StreamWhole'
<1>1. CASE Stream!InfoLoaded
  <2>1. bridgeInfo' = "loaded" /\ socket = 0 /\ Stream!ConnectWebSocket
    BY <1>1 DEF Stream!InfoLoaded, StreamWhole, Stream!StreamInv, Stream!PageKnowsSocket
  <2>2. QED
    BY <2>1, ConnectKeeps
<1>2. CASE Stream!ReconnectTimer
  <2>1. bridgeInfo' = "loaded" /\ socket = 0 /\ Stream!ConnectWebSocket
    BY <1>2 DEF Stream!ReconnectTimer, StreamWhole, Stream!StreamInv, Stream!PageKnowsSocket
  <2>2. QED
    BY <2>1, ConnectKeeps
<1>3. QED
  BY <1>1, <1>2, InfoFailsKeeps, ChooseKeeps, OpenedKeeps, DisconnectedKeeps, HearKeeps,
     AcceptKeeps, CommandKeeps, GoneKeeps, StateChangesKeeps, PublishedKeeps DEF Stream!Next

LEMMA StreamRests == ASSUME StreamWhole, UNCHANGED streamVars PROVE StreamWhole'
<1>1. /\ UNCHANGED <<view, isRecording, mode, bridgeInfo, socket, isSocketOpen, isStreaming>>
      /\ UNCHANGED <<appliedMode, reconnectTimer, end, shown, up, down>>
      /\ UNCHANGED <<accepted, subscribers, latest, state, publishing>>
      /\ UNCHANGED <<Stream!choiceVars, Stream!pageVars>>
  BY DEF streamVars, Stream!choiceVars, Stream!pageVars
<1>2. PageTyped' /\ OneSocket' /\ Stream!PageKnowsSocket' /\ Stream!PageAsked'
  BY <1>1, PageRests
<1>3. ServiceTyped' /\ NumbersTyped' /\ UpTyped'
  BY <1>1 DEF StreamWhole, StreamTyped, ServiceTyped, NumbersTyped, UpTyped
<1>4. Stream!AcceptedFirst'
  BY <1>1 DEF StreamWhole, Stream!StreamInv, Stream!AcceptedFirst
<1>5. Stream!CommandsArrive'
  BY <1>1 DEF StreamWhole, Stream!StreamInv, Stream!CommandsArrive, Stream!Ordered
<1>6. Stream!StatesArrive'
  BY <1>1 DEF StreamWhole, Stream!StreamInv, Stream!StatesArrive
<1>7. QED
  BY <1>2, <1>3, <1>4, <1>5, <1>6 DEF StreamWhole, StreamTyped, Stream!StreamInv

LEMMA StreamImplies == StreamWhole => StreamMatches
<1> SUFFICES ASSUME StreamWhole PROVE StreamMatches
  OBVIOUS
<1>1. Stream!TypeOK
  BY DEF StreamWhole, StreamTyped, PageTyped, ServiceTyped, NumbersTyped, Stream!TypeOK
<1>2. Stream!StreamMatches
  <2>1. ASSUME Stream!Settled PROVE subscribers[socket] = Stream!Ordered(socket)
    BY <2>1 DEF Stream!Settled, Stream!Ordered
  <2>2. ASSUME Stream!Settled
        PROVE  subscribers[socket] \in CASE ~Stream!Watching(view, isRecording) -> {"none"}
                                          [] Stream!Watching(view, isRecording) ->
                                               IF socket = 1 THEN {mode} ELSE {mode, "none"}
    BY <2>1, <2>2 DEF Stream!Settled, StreamWhole, Stream!StreamInv, Stream!CommandsArrive
  <2>3. \A c \in Connections : accepted[c] = "gone" => subscribers[c] = "none"
    BY DEF StreamWhole, Stream!StreamInv, Stream!AcceptedFirst
  <2>4. QED
    BY <2>2, <2>3 DEF Stream!StreamMatches
<1>3. Stream!PageFollows
  <2>1. ASSUME Stream!Settled, publishing = <<>> PROVE shown = state
    <3>1. socket \in Connections /\ end[socket] = "open" /\ down[socket] = <<>>
      BY <2>1 DEF Stream!Settled, StreamWhole, StreamTyped, PageTyped
    <3>2. accepted[socket] = "open"
      BY <3>1 DEF StreamWhole, Stream!StreamInv, Stream!AcceptedFirst
    <3>3. QED
      BY <2>1, <3>1, <3>2 DEF StreamWhole, Stream!StreamInv, Stream!StatesArrive
  <2>2. QED
    BY <2>1 DEF StreamWhole, OneSocket, Stream!PageFollows
<1>4. QED
  BY <1>1, <1>2, <1>3 DEF StreamWhole, StreamMatches

\* Who looks at raw packets gets them, in the mode the page shows, however often the
\* connection breaks, and the page shows the state of the entity (StreamMatches).
THEOREM StreamMatchesCorrect == WebSpec => []StreamMatches
<1>1. WebInit => StreamWhole
  BY StreamInitially
<1>2. StreamWhole /\ [WebNext]_allVars => StreamWhole'
  <2> SUFFICES ASSUME StreamWhole, [WebNext]_allVars PROVE StreamWhole'
    OBVIOUS
  <2>1. CASE StreamStep
    BY <2>1, StreamKeeps DEF StreamStep
  <2>2. CASE ~StreamStep
    <3>1. UNCHANGED streamVars
      BY <2>2 DEF WebNext, ConsumersStep, LogsStep, EditorStep, LoadingStep, allVars
    <3>2. QED
      BY <3>1, StreamRests
  <2>3. QED
    BY <2>1, <2>2
<1>3. QED
  BY <1>1, <1>2, StreamImplies, PTL DEF WebSpec

-----------------------------------------------------------------------------
(* The edits of the configuration, one file at a time.  The contents of a     *)
(* file, and what an edit or normalizeConfig makes of them, are opaque.       *)

\* What a request in progress knows at each step.
KnownAt(e) ==
  \/ e = Editor!Idle
  \/ e = [at |-> "read", r |-> e.r, f |-> e.f]
  \/ e = [at |-> "backup", r |-> e.r, f |-> e.f, old |-> e.old]
  \/ e.at \in {"write", "land", "tell"} /\ e = [at |-> e.at, r |-> e.r, f |-> e.f, new |-> e.new]

EditorTyped ==
  /\ DOMAIN disk = Editor!FileSet /\ DOMAIN last = Editor!FileSet
  /\ DOMAIN excused = Editor!FileSet
  /\ DOMAIN edit = Slots /\ \A s \in Slots : KnownAt(edit[s])

EditorWhole == EditorTyped /\ BackupsHold

HasBackup(f) == last[f] \in backups \/ Editor!Normalise(last[f]) \in backups
Excused(f) == "overlap" \in excused[f] \/ "unsaved" \in excused[f]

\* The invariant, of one file and one request.
Alone(f) ==
  "overlap" \in excused[f] \/
     /\ \A s, t \in Slots : edit[s] # Editor!Idle /\ edit[s].f = f /\
                            edit[t] # Editor!Idle /\ edit[t].f = f => s = t
     /\ \A s \in Slots : edit[s].at = "backup" /\ edit[s].f = f =>
          edit[s].old = disk[f] \/ edit[s].old = Editor!Normalise(disk[f])
     /\ \A s \in Slots : edit[s].at = "land" /\ edit[s].f = f => disk[f] = Editor!Torn
First(f) ==
  Excused(f) \/ \A s \in Slots : edit[s].at \in {"write", "land"} /\ edit[s].f = f => HasBackup(f)
Holds(f) == Excused(f) \/ disk[f] = last[f] \/ HasBackup(f)

LEMMA IdleAt == ASSUME NEW e, KnownAt(e) PROVE e = Editor!Idle <=> e.at = "idle"
  BY DEF KnownAt, Editor!Idle

LEMMA Unfolded ==
  ASSUME EditorTyped
  PROVE  BackupsHold <=> \A f \in Editor!FileSet : Alone(f) /\ First(f) /\ Holds(f)
<1>1. \A s \in Slots : edit[s].at \in {"backup", "write", "land"} => edit[s] # Editor!Idle
  BY DEF EditorTyped, Editor!Idle
<1>2. Editor!BackupsHold <=> \A f \in Editor!FileSet : Holds(f)
  BY DEF Editor!BackupsHold, Holds, Excused, HasBackup
<1>3. Editor!EditsAlone <=> \A f \in Editor!FileSet : Alone(f)
  BY <1>1 DEF Editor!EditsAlone, Editor!EditsOf, Alone
<1>4. Editor!SavedFirst <=> \A f \in Editor!FileSet : First(f)
  BY <1>1 DEF Editor!SavedFirst, Editor!EditsOf, First, Excused, HasBackup
<1>5. QED
  BY <1>2, <1>3, <1>4 DEF BackupsHold

LEMMA UnfoldedNext ==
  ASSUME EditorTyped'
  PROVE  BackupsHold' <=> \A f \in Editor!FileSet : Alone(f)' /\ First(f)' /\ Holds(f)'
<1>1. \A s \in Slots : edit'[s].at \in {"backup", "write", "land"} => edit'[s] # Editor!Idle
  BY DEF EditorTyped, Editor!Idle
<1>2. Editor!BackupsHold' <=> \A f \in Editor!FileSet : Holds(f)'
  BY DEF Editor!BackupsHold, Holds, Excused, HasBackup
<1>3. Editor!EditsAlone' <=> \A f \in Editor!FileSet : Alone(f)'
  BY <1>1 DEF Editor!EditsAlone, Editor!EditsOf, Alone
<1>4. Editor!SavedFirst' <=> \A f \in Editor!FileSet : First(f)'
  BY <1>1 DEF Editor!SavedFirst, Editor!EditsOf, First, Excused, HasBackup
<1>5. QED
  BY <1>2, <1>3, <1>4 DEF BackupsHold

LEMMA EditorInitially == WebInit => EditorWhole
<1> SUFFICES ASSUME Editor!Init PROVE EditorWhole
  BY DEF WebInit
<1>1. /\ disk = Initial /\ last = Initial
      /\ edit = [s \in Slots |-> Editor!Idle] /\ excused = [f \in Editor!FileSet |-> {}]
  BY DEF Editor!Init
<1>2. EditorTyped
  BY <1>1, InitialAssumption DEF EditorTyped, KnownAt
<1>3. \A f \in Editor!FileSet : Alone(f) /\ First(f) /\ Holds(f)
  BY <1>1 DEF Alone, First, Holds, Editor!Idle
<1>4. QED
  BY <1>2, <1>3, Unfolded DEF EditorWhole

\* A request ends, or answers with an error: the files stay as they are.
LEMMA EditLeaves ==
  ASSUME EditorWhole, NEW s \in Slots, edit' = [edit EXCEPT ![s] = Editor!Idle],
         UNCHANGED <<disk, last>>, backups \subseteq backups', DOMAIN excused' = Editor!FileSet,
         \A f \in Editor!FileSet : excused[f] \subseteq excused'[f]
  PROVE  EditorWhole'
<1>1. EditorTyped /\ \A f \in Editor!FileSet : Alone(f) /\ First(f) /\ Holds(f)
  BY Unfolded DEF EditorWhole
<1>2. /\ edit'[s] = Editor!Idle /\ \A t \in Slots \ {s} : edit'[t] = edit[t]
      /\ edit'[s].at = "idle"
  BY <1>1 DEF EditorTyped, Editor!Idle
<1>3. EditorTyped'
  BY <1>1, <1>2 DEF EditorTyped, KnownAt
<1>4. ASSUME NEW f \in Editor!FileSet PROVE Alone(f)'
  <2>1. CASE "overlap" \in excused[f]
    BY <2>1 DEF Alone
  <2>2. CASE "overlap" \notin excused[f]
    BY <1>1, <1>2, <2>2 DEF Alone
  <2>3. QED
    BY <2>1, <2>2
<1>5. ASSUME NEW f \in Editor!FileSet PROVE First(f)' /\ Holds(f)'
  <2>1. (Excused(f) => Excused(f)') /\ (HasBackup(f) => HasBackup(f)')
    BY DEF Excused, HasBackup
  <2>2. QED
    BY <1>1, <1>2, <2>1 DEF First, Holds
<1>6. QED
  BY <1>3, <1>4, <1>5, UnfoldedNext DEF EditorWhole

\* A request goes on to save what it read, or to write what it saved.
LEMMA EditGoes ==
  ASSUME EditorWhole, NEW s \in Slots, edit[s] # Editor!Idle, NEW e, KnownAt(e),
         e.at \in {"backup", "write"}, e.f = edit[s].f, edit' = [edit EXCEPT ![s] = e],
         UNCHANGED <<disk, last>>, backups \subseteq backups', DOMAIN excused' = Editor!FileSet,
         \A f \in Editor!FileSet : excused[f] \subseteq excused'[f],
         e.at = "backup" => e.old = disk[e.f] \/ e.old = Editor!Normalise(disk[e.f]),
         e.at = "write" /\ e.f \in Editor!FileSet => Excused(e.f)' \/ HasBackup(e.f)'
  PROVE  EditorWhole'
<1>1. EditorTyped /\ \A f \in Editor!FileSet : Alone(f) /\ First(f) /\ Holds(f)
  BY Unfolded DEF EditorWhole
<1>2. /\ edit'[s] = e /\ \A t \in Slots \ {s} : edit'[t] = edit[t]
      /\ \A t \in Slots : edit'[t] # Editor!Idle => edit[t] # Editor!Idle /\ edit'[t].f = edit[t].f
  BY <1>1 DEF EditorTyped
<1>3. EditorTyped'
  BY <1>1, <1>2 DEF EditorTyped
<1>4. ASSUME NEW f \in Editor!FileSet PROVE Alone(f)'
  <2>1. CASE "overlap" \in excused[f]
    BY <2>1 DEF Alone
  <2>2. CASE "overlap" \notin excused[f]
    <3>1. \A t, u \in Slots : edit'[t] # Editor!Idle /\ edit'[t].f = f /\
                             edit'[u] # Editor!Idle /\ edit'[u].f = f => t = u
      BY <1>1, <1>2, <2>2 DEF Alone
    <3>2. \A t \in Slots : edit'[t].at = "backup" /\ edit'[t].f = f =>
            edit'[t].old = disk'[f] \/ edit'[t].old = Editor!Normalise(disk'[f])
      BY <1>1, <1>2, <2>2 DEF Alone
    <3>3. \A t \in Slots : edit'[t].at = "land" /\ edit'[t].f = f => disk'[f] = Editor!Torn
      BY <1>1, <1>2, <2>2 DEF Alone
    <3>4. QED
      BY <3>1, <3>2, <3>3 DEF Alone
  <2>3. QED
    BY <2>1, <2>2
<1>5. ASSUME NEW f \in Editor!FileSet PROVE First(f)' /\ Holds(f)'
  <2>1. (Excused(f) => Excused(f)') /\ (HasBackup(f) => HasBackup(f)')
    BY DEF Excused, HasBackup
  <2>2. QED
    BY <1>1, <1>2, <2>1 DEF First, Holds
<1>6. QED
  BY <1>3, <1>4, <1>5, UnfoldedNext DEF EditorWhole

LEMMA BeginKeeps ==
  ASSUME EditorWhole, NEW s \in Slots, NEW r, Editor!Begin(s, r) PROVE EditorWhole'
<1> DEFINE f == Editor!FileOf(r)
           why == IF \E t \in Slots \ {s} : edit[t] # Editor!Idle /\ edit[t].f = f
                  THEN {"overlap"} ELSE {}
<1>1. /\ edit[s] = Editor!Idle /\ UNCHANGED <<disk, last, backups>>
      /\ edit' = [edit EXCEPT ![s] = [at |-> "read", r |-> r, f |-> f]]
      /\ excused' = [excused EXCEPT ![f] = @ \cup why]
  BY DEF Editor!Begin, Editor!Excuse
<1> HIDE DEF f
<1>2. EditorTyped /\ \A g \in Editor!FileSet : Alone(g) /\ First(g) /\ Holds(g)
  BY Unfolded DEF EditorWhole
<1>3. /\ edit'[s] = [at |-> "read", r |-> r, f |-> f] /\ edit'[s].at = "read"
      /\ \A t \in Slots \ {s} : edit'[t] = edit[t]
  BY <1>1, <1>2 DEF EditorTyped
<1>4. /\ DOMAIN excused' = Editor!FileSet
      /\ \A g \in Editor!FileSet : excused[g] \subseteq excused'[g]
      /\ f \in Editor!FileSet => why \subseteq excused'[f]
  BY <1>1, <1>2 DEF EditorTyped
<1>5. EditorTyped'
  BY <1>1, <1>2, <1>3, <1>4 DEF EditorTyped, KnownAt
<1>6. ASSUME NEW g \in Editor!FileSet, "overlap" \notin excused'[g] PROVE Alone(g)'
  <2>1. "overlap" \notin excused[g]
    BY <1>4, <1>6
  <2>2. g = f => \A t \in Slots \ {s} : edit[t] = Editor!Idle \/ edit[t].f # g
    BY <1>4, <1>6
  <2>3. \A t, u \in Slots : edit'[t] # Editor!Idle /\ edit'[t].f = g /\
                           edit'[u] # Editor!Idle /\ edit'[u].f = g => t = u
    BY <1>2, <1>3, <2>1, <2>2 DEF Alone
  <2>4. \A t \in Slots : edit'[t].at = "backup" /\ edit'[t].f = g =>
          edit'[t].old = disk'[g] \/ edit'[t].old = Editor!Normalise(disk'[g])
    BY <1>1, <1>2, <1>3, <2>1 DEF Alone
  <2>5. \A t \in Slots : edit'[t].at = "land" /\ edit'[t].f = g => disk'[g] = Editor!Torn
    BY <1>1, <1>2, <1>3, <2>1 DEF Alone
  <2>6. QED
    BY <2>3, <2>4, <2>5 DEF Alone
<1>7. ASSUME NEW g \in Editor!FileSet PROVE First(g)' /\ Holds(g)'
  <2>1. (Excused(g) => Excused(g)') /\ (HasBackup(g) => HasBackup(g)')
    BY <1>1, <1>4 DEF Excused, HasBackup
  <2>2. QED
    BY <1>1, <1>2, <1>3, <2>1 DEF First, Holds
<1>8. \A g \in Editor!FileSet : Alone(g)'
  BY <1>6 DEF Alone
<1>9. QED
  BY <1>5, <1>7, <1>8, UnfoldedNext DEF EditorWhole

\* An operation on a file failed: only the editor of whole files goes on, and it is noted.
LEMMA FailKeeps ==
  ASSUME EditorWhole, NEW s \in Slots, edit[s] # Editor!Idle, Editor!Fail(s),
         UNCHANGED <<disk, last, backups>>
  PROVE  EditorWhole'
<1>1. EditorTyped
  BY DEF EditorWhole
<1>2. CASE edit[s].r.op = "put"
  <2>0. PICK e : e = [at |-> "write", r |-> edit[s].r, f |-> edit[s].f, new |-> edit[s].r.content]
    OBVIOUS
  <2>1. /\ edit' = [edit EXCEPT ![s] = e]
        /\ excused' = [excused EXCEPT ![edit[s].f] = @ \cup {"unsaved"}]
    BY <1>2, <2>0 DEF Editor!Fail, Editor!Go, Editor!Excuse
  <2>2. KnownAt(e) /\ e.at = "write" /\ e.f = edit[s].f
    BY <2>0 DEF KnownAt
  <2>3. /\ DOMAIN excused' = Editor!FileSet
        /\ \A g \in Editor!FileSet : excused[g] \subseteq excused'[g]
        /\ e.f \in Editor!FileSet => Excused(e.f)'
    BY <1>1, <2>1, <2>2 DEF EditorTyped, Excused
  <2>4. QED
    BY <2>1, <2>2, <2>3, EditGoes
<1>3. CASE edit[s].r.op # "put"
  <2>1. edit' = [edit EXCEPT ![s] = Editor!Idle] /\ excused' = excused
    BY <1>3 DEF Editor!Fail, Editor!Leave
  <2>2. QED
    BY <1>1, <2>1, EditLeaves DEF EditorTyped
<1>4. QED
  BY <1>2, <1>3

LEMMA ReadKeeps ==
  ASSUME EditorWhole, NEW s \in Slots, Editor!Read(s) PROVE EditorWhole'
<1>1. EditorTyped
  BY DEF EditorWhole
<1>2. edit[s].at = "read" /\ UNCHANGED <<disk, last, backups>>
  BY DEF Editor!Read
<1>3. edit[s] # Editor!Idle
  BY <1>2 DEF Editor!Idle
<1>4. CASE Editor!Fail(s)
  BY <1>2, <1>3, <1>4, FailKeeps
<1>5. CASE ~Editor!Fail(s)
  <2> DEFINE content == IF edit[s].r.op = "put" THEN disk[edit[s].f]
                        ELSE Editor!Loaded(disk[edit[s].f])
  <2>0. PICK e : e = [at |-> "backup", r |-> edit[s].r, f |-> edit[s].f, old |-> content]
    OBVIOUS
  <2>1. /\ content # Editor!Torn /\ excused' = excused
        /\ \/ edit' = [edit EXCEPT ![s] = Editor!Idle]
           \/ edit' = [edit EXCEPT ![s] = e]
    BY <1>5, <2>0 DEF Editor!Read, Editor!Leave, Editor!Go
  <2>2. content = disk[edit[s].f] \/ content = Editor!Normalise(disk[edit[s].f])
    BY DEF Editor!Loaded
  <2>3. KnownAt(e) /\ e.at = "backup" /\ e.f = edit[s].f /\ e.old = content
    BY <2>0 DEF KnownAt
  <2> HIDE DEF content
  <2>4. CASE edit' = [edit EXCEPT ![s] = Editor!Idle]
    BY <1>1, <1>2, <2>1, <2>4, EditLeaves DEF EditorTyped
  <2>5. CASE edit' = [edit EXCEPT ![s] = e]
    BY <1>1, <1>2, <1>3, <2>1, <2>2, <2>3, <2>5, EditGoes DEF EditorTyped
  <2>6. QED
    BY <2>1, <2>4, <2>5
<1>6. QED
  BY <1>4, <1>5

\* What is saved is what the file held, or what it held last was saved before.
LEMMA BackupKeeps ==
  ASSUME EditorWhole, NEW s \in Slots, Editor!Backup(s) PROVE EditorWhole'
<1>1. EditorTyped /\ \A g \in Editor!FileSet : Alone(g) /\ First(g) /\ Holds(g)
  BY Unfolded DEF EditorWhole
<1>2. edit[s].at = "backup" /\ UNCHANGED <<disk, last>>
  BY DEF Editor!Backup
<1>3. edit[s] # Editor!Idle
  BY <1>2 DEF Editor!Idle
<1>4. CASE Editor!Fail(s) /\ UNCHANGED backups
  BY <1>2, <1>3, <1>4, FailKeeps
<1>5. CASE ~(Editor!Fail(s) /\ UNCHANGED backups)
  <2>0. PICK e : e = [at |-> "write", r |-> edit[s].r, f |-> edit[s].f,
                      new |-> Editor!Edited(edit[s].old, edit[s].r)]
    OBVIOUS
  <2>1. /\ backups' = backups \cup {edit[s].old} /\ excused' = excused
        /\ \/ edit' = [edit EXCEPT ![s] = Editor!Idle]
           \/ edit' = [edit EXCEPT ![s] = e]
    BY <1>5, <2>0 DEF Editor!Backup, Editor!Leave, Editor!Go
  <2>2. KnownAt(e) /\ e.at = "write" /\ e.f = edit[s].f
    BY <2>0 DEF KnownAt
  <2>3. CASE edit' = [edit EXCEPT ![s] = Editor!Idle]
    BY <1>1, <1>2, <2>1, <2>3, EditLeaves DEF EditorTyped
  <2>4. CASE edit' = [edit EXCEPT ![s] = e]
    <3>1. ASSUME e.f \in Editor!FileSet, ~Excused(e.f) PROVE HasBackup(e.f)'
      <4>1. edit[s].old = disk[e.f] \/ edit[s].old = Editor!Normalise(disk[e.f])
        BY <1>1, <1>2, <2>2, <3>1 DEF Alone, Excused
      <4>2. disk[e.f] = last[e.f] \/ HasBackup(e.f)
        BY <1>1, <3>1 DEF Holds
      <4>3. QED
        BY <1>2, <2>1, <4>1, <4>2 DEF HasBackup
    <3>2. Excused(e.f)' <=> Excused(e.f)
      BY <2>1, <2>2 DEF Excused
    <3>3. QED
      BY <1>1, <1>2, <1>3, <2>1, <2>2, <2>4, <3>1, <3>2, EditGoes DEF EditorTyped
  <2>5. QED
    BY <2>1, <2>3, <2>4
<1>6. QED
  BY <1>4, <1>5

LEMMA RecordSteps ==
  ASSUME NEW e, e = [at |-> e.at, r |-> e.r, f |-> e.f, new |-> e.new], NEW step
  PROVE  [e EXCEPT !.at = step] = [at |-> step, r |-> e.r, f |-> e.f, new |-> e.new]
  OBVIOUS

\* The file is emptied: what it held is saved.
LEMMA OpenKeeps ==
  ASSUME EditorWhole, NEW s \in Slots, Editor!Open(s) PROVE EditorWhole'
<1>1. EditorTyped /\ \A g \in Editor!FileSet : Alone(g) /\ First(g) /\ Holds(g)
  BY Unfolded DEF EditorWhole
<1>2. edit[s].at = "write" /\ UNCHANGED <<last, excused, backups>>
  BY DEF Editor!Open
<1>3. CASE edit' = [edit EXCEPT ![s] = Editor!Idle] /\ UNCHANGED disk
  BY <1>1, <1>2, <1>3, EditLeaves DEF EditorTyped
<1>4. CASE /\ disk' = [disk EXCEPT ![edit[s].f] = Editor!Torn]
           /\ edit' = [edit EXCEPT ![s].at = "land"]
  <2>1. PICK e : e = edit[s]
    OBVIOUS
  <2>2. e = [at |-> "write", r |-> e.r, f |-> e.f, new |-> e.new] /\ e # Editor!Idle
    BY <1>1, <1>2, <2>1 DEF EditorTyped, KnownAt, Editor!Idle
  <2>3. edit'[s] = [at |-> "land", r |-> e.r, f |-> e.f, new |-> e.new]
    BY <1>1, <1>4, <2>1, <2>2 DEF EditorTyped
  <2>4. /\ \A t \in Slots \ {s} : edit'[t] = edit[t]
        /\ edit'[s].at = "land" /\ edit'[s].f = e.f /\ DOMAIN edit' = Slots
        /\ \A t \in Slots : edit'[t] # Editor!Idle =>
             edit[t] # Editor!Idle /\ edit'[t].f = edit[t].f
    BY <1>1, <1>4, <2>1, <2>2, <2>3 DEF EditorTyped
  <2>5. /\ DOMAIN disk' = Editor!FileSet
        /\ \A g \in Editor!FileSet : disk'[g] = IF g = e.f THEN Editor!Torn ELSE disk[g]
    BY <1>1, <1>4, <2>1 DEF EditorTyped
  <2>6. EditorTyped'
    BY <1>1, <1>2, <2>3, <2>4, <2>5 DEF EditorTyped, KnownAt
  <2>7. ASSUME NEW g \in Editor!FileSet, "overlap" \notin excused[g] PROVE Alone(g)'
    <3>1. \A t, u \in Slots : edit'[t] # Editor!Idle /\ edit'[t].f = g /\
                             edit'[u] # Editor!Idle /\ edit'[u].f = g => t = u
      BY <1>1, <2>4, <2>7 DEF Alone
    <3>2. \A t \in Slots : edit'[t].at = "backup" /\ edit'[t].f = g => t # s /\ g # e.f
      <4>1. SUFFICES ASSUME NEW t \in Slots, edit'[t].at = "backup", edit'[t].f = g
                     PROVE  t # s /\ g # e.f
        OBVIOUS
      <4>2. t # s /\ edit[t] # Editor!Idle
        BY <2>4, <4>1 DEF Editor!Idle
      <4>3. QED
        BY <1>1, <2>1, <2>2, <2>4, <2>7, <4>1, <4>2 DEF Alone
    <3>3. \A t \in Slots : edit'[t].at = "backup" /\ edit'[t].f = g =>
            edit'[t].old = disk'[g] \/ edit'[t].old = Editor!Normalise(disk'[g])
      BY <1>1, <2>4, <2>5, <2>7, <3>2 DEF Alone
    <3>4. \A t \in Slots : edit'[t].at = "land" /\ edit'[t].f = g => disk'[g] = Editor!Torn
      BY <1>1, <2>4, <2>5, <2>7 DEF Alone
    <3>5. QED
      BY <3>1, <3>3, <3>4 DEF Alone
  <2>8. \A g \in Editor!FileSet : Alone(g)'
    BY <1>2, <2>7 DEF Alone
  <2>9. ASSUME NEW g \in Editor!FileSet PROVE First(g)' /\ Holds(g)'
    <3>1. (Excused(g)' <=> Excused(g)) /\ (HasBackup(g)' <=> HasBackup(g))
      BY <1>2 DEF Excused, HasBackup
    <3>2. First(g)'
      BY <1>1, <1>2, <2>1, <2>4, <3>1 DEF First
    <3>3. g = e.f => Excused(g) \/ HasBackup(g)
      BY <1>1, <1>2, <2>1 DEF First
    <3>4. QED
      BY <1>1, <1>2, <2>5, <3>1, <3>2, <3>3 DEF Holds
  <2>10. QED
    BY <2>6, <2>8, <2>9, UnfoldedNext DEF EditorWhole
<1>5. QED
  BY <1>3, <1>4 DEF Editor!Open, Editor!Leave

\* The file is written: an edit that was alone writes all of it.
LEMMA LandKeeps ==
  ASSUME EditorWhole, NEW s \in Slots, Editor!Land(s) PROVE EditorWhole'
<1>1. EditorTyped /\ \A g \in Editor!FileSet : Alone(g) /\ First(g) /\ Holds(g)
  BY Unfolded DEF EditorWhole
<1>2. edit[s].at = "land" /\ UNCHANGED backups
  BY DEF Editor!Land
<1>3. CASE edit' = [edit EXCEPT ![s] = Editor!Idle] /\ UNCHANGED <<disk, last, excused>>
  BY <1>1, <1>2, <1>3, EditLeaves DEF EditorTyped
<1>4. CASE ~(edit' = [edit EXCEPT ![s] = Editor!Idle] /\ UNCHANGED <<disk, last, excused>>)
  <2>1. PICK e : e = edit[s]
    OBVIOUS
  <2>2. PICK content \in {e.new} \cup (IF disk[e.f] = Editor!Torn THEN {} ELSE {Editor!Torn}) :
          /\ disk' = [disk EXCEPT ![e.f] = content]
          /\ last' = [last EXCEPT ![e.f] = e.new]
          /\ excused' = [excused EXCEPT ![e.f] = (@ \ {"unsaved"}) \cup
                (IF Editor!Normalise(e.new) = e.new THEN {} ELSE {"ambiguous"})]
          /\ edit' = [edit EXCEPT ![s].at = "tell"]
    BY <1>4, <2>1 DEF Editor!Land, Editor!Leave
  <2>3. e = [at |-> "land", r |-> e.r, f |-> e.f, new |-> e.new] /\ e # Editor!Idle
    BY <1>1, <1>2, <2>1 DEF EditorTyped, KnownAt, Editor!Idle
  <2>4. edit'[s] = [at |-> "tell", r |-> e.r, f |-> e.f, new |-> e.new]
    BY <1>1, <2>1, <2>2, <2>3 DEF EditorTyped
  <2>5. /\ \A t \in Slots \ {s} : edit'[t] = edit[t]
        /\ edit'[s].at = "tell" /\ edit'[s].f = e.f /\ DOMAIN edit' = Slots
        /\ \A t \in Slots : edit'[t] # Editor!Idle =>
             edit[t] # Editor!Idle /\ edit'[t].f = edit[t].f
    BY <1>1, <2>1, <2>2, <2>3, <2>4 DEF EditorTyped
  <2>6. /\ DOMAIN disk' = Editor!FileSet /\ DOMAIN last' = Editor!FileSet
        /\ DOMAIN excused' = Editor!FileSet
        /\ \A g \in Editor!FileSet : g # e.f => /\ disk'[g] = disk[g] /\ last'[g] = last[g]
                                               /\ excused'[g] = excused[g]
        /\ e.f \in Editor!FileSet => /\ disk'[e.f] = content /\ last'[e.f] = e.new
                                     /\ "overlap" \in excused[e.f] => "overlap" \in excused'[e.f]
    BY <1>1, <2>2 DEF EditorTyped
  <2>7. EditorTyped'
    BY <1>1, <1>2, <2>4, <2>5, <2>6 DEF EditorTyped, KnownAt
  <2>8. ASSUME NEW t \in Slots, t # s, edit[t] # Editor!Idle, e.f \in Editor!FileSet,
               edit[t].f = e.f
        PROVE  "overlap" \in excused[e.f]
    BY <1>1, <2>1, <2>3, <2>8 DEF Alone
  <2>9. ASSUME NEW g \in Editor!FileSet, "overlap" \notin excused'[g] PROVE Alone(g)'
    <3>1. "overlap" \notin excused[g]
      BY <2>6, <2>9
    <3>2. \A t, u \in Slots : edit'[t] # Editor!Idle /\ edit'[t].f = g /\
                             edit'[u] # Editor!Idle /\ edit'[u].f = g => t = u
      BY <1>1, <2>5, <3>1 DEF Alone
    <3>3. \A t \in Slots : edit'[t].at \in {"backup", "land"} /\ edit'[t].f = g =>
            t # s /\ edit[t] # Editor!Idle /\ edit'[t] = edit[t]
      BY <2>5 DEF Editor!Idle
    <3>4. \A t \in Slots : edit'[t].at \in {"backup", "land"} /\ edit'[t].f = g => g # e.f
      BY <2>8, <3>1, <3>3
    <3>5. \A t \in Slots : edit'[t].at = "backup" /\ edit'[t].f = g =>
            edit'[t].old = disk'[g] \/ edit'[t].old = Editor!Normalise(disk'[g])
      BY <1>1, <2>6, <3>1, <3>3, <3>4 DEF Alone
    <3>6. \A t \in Slots : edit'[t].at = "land" /\ edit'[t].f = g => disk'[g] = Editor!Torn
      BY <1>1, <2>6, <3>1, <3>3, <3>4 DEF Alone
    <3>7. QED
      BY <3>2, <3>5, <3>6 DEF Alone
  <2>10. \A g \in Editor!FileSet : Alone(g)'
    BY <2>9 DEF Alone
  <2>11. ASSUME NEW g \in Editor!FileSet, g = e.f, "overlap" \notin excused'[g]
         PROVE  First(g)' /\ Holds(g)'
    <3>1. "overlap" \notin excused[g]
      BY <2>6, <2>11
    <3>2. \A t \in Slots : edit'[t].at \in {"write", "land"} => edit'[t].f # g
      <4>1. SUFFICES ASSUME NEW t \in Slots, edit'[t].at \in {"write", "land"}, edit'[t].f = g
                     PROVE  FALSE
        OBVIOUS
      <4>2. t # s /\ edit[t] # Editor!Idle /\ edit'[t] = edit[t]
        BY <2>5, <4>1 DEF Editor!Idle
      <4>3. QED
        BY <2>8, <2>11, <3>1, <4>1, <4>2
    <3>3. disk[g] = Editor!Torn
      BY <1>1, <1>2, <2>1, <2>11, <3>1 DEF Alone
    <3>4. disk'[g] = last'[g]
      BY <2>2, <2>6, <2>11, <3>3
    <3>5. QED
      BY <3>2, <3>4 DEF First, Holds
  <2>12. ASSUME NEW g \in Editor!FileSet, g # e.f PROVE First(g)' /\ Holds(g)'
    <3>1. (Excused(g)' <=> Excused(g)) /\ (HasBackup(g)' <=> HasBackup(g)) /\ disk'[g] = disk[g]
          /\ last'[g] = last[g]
      BY <1>2, <2>6, <2>12 DEF Excused, HasBackup
    <3>2. \A t \in Slots : edit'[t].at \in {"write", "land"} => edit'[t] = edit[t]
      BY <2>5
    <3>3. QED
      BY <1>1, <3>1, <3>2 DEF First, Holds
  <2>13. \A g \in Editor!FileSet : "overlap" \in excused'[g] => First(g)' /\ Holds(g)'
    BY DEF First, Holds, Excused
  <2>14. QED
    BY <2>7, <2>10, <2>11, <2>12, <2>13, UnfoldedNext DEF EditorWhole
<1>5. QED
  BY <1>3, <1>4

LEMMA FinishKeeps ==
  ASSUME EditorWhole, NEW s \in Slots, Editor!Finish(s) PROVE EditorWhole'
<1>1. EditorTyped
  BY DEF EditorWhole
<1>2. PICK why : /\ excused' = [excused EXCEPT ![edit[s].f] = @ \cup why]
                 /\ edit' = [edit EXCEPT ![s] = Editor!Idle] /\ UNCHANGED <<disk, backups, last>>
  BY DEF Editor!Finish, Editor!Excuse, Editor!Leave
<1>3. /\ DOMAIN excused' = Editor!FileSet
      /\ \A g \in Editor!FileSet : excused[g] \subseteq excused'[g]
  BY <1>1, <1>2 DEF EditorTyped
<1>4. QED
  BY <1>2, <1>3, EditLeaves

\* After a restart nothing is in progress; what is still excused was before.
LEMMA RestartKeeps == ASSUME EditorWhole, Editor!Restart PROVE EditorWhole'
<1>1. EditorTyped /\ \A g \in Editor!FileSet : Alone(g) /\ First(g) /\ Holds(g)
  BY Unfolded DEF EditorWhole
<1>2. /\ edit' = [s \in Slots |-> Editor!Idle] /\ UNCHANGED <<disk, backups, last>>
      /\ excused' = [f \in Editor!FileSet |-> IF disk[f] = last[f] THEN {}
                                              ELSE excused[f] \cap {"unsaved", "overlap"}]
  BY DEF Editor!Restart
<1>3. EditorTyped'
  BY <1>1, <1>2 DEF EditorTyped, KnownAt
<1>4. \A s \in Slots : edit'[s] = Editor!Idle /\ edit'[s].at = "idle"
  BY <1>2 DEF Editor!Idle
<1>5. ASSUME NEW g \in Editor!FileSet PROVE Alone(g)' /\ First(g)'
  BY <1>4 DEF Alone, First
<1>6. ASSUME NEW g \in Editor!FileSet PROVE Holds(g)'
  BY <1>1, <1>2 DEF Holds, Excused, HasBackup
<1>7. QED
  BY <1>3, <1>5, <1>6, UnfoldedNext DEF EditorWhole

LEMMA EditorKeeps == ASSUME EditorWhole, Editor!Next PROVE EditorWhole'
  BY BeginKeeps, ReadKeeps, BackupKeeps, OpenKeeps, LandKeeps, FinishKeeps, RestartKeeps
  DEF Editor!Next

LEMMA EditorRests == ASSUME EditorWhole, UNCHANGED editorVars PROVE EditorWhole'
<1>1. EditorTyped /\ \A g \in Editor!FileSet : Alone(g) /\ First(g) /\ Holds(g)
  BY Unfolded DEF EditorWhole
<1>2. UNCHANGED <<disk, backups, edit, last, excused>>
  BY DEF editorVars
<1>3. EditorTyped'
  BY <1>1, <1>2 DEF EditorTyped
<1>4. \A g \in Editor!FileSet : Alone(g)' /\ First(g)' /\ Holds(g)'
  BY <1>1, <1>2 DEF Alone, First, Holds, Excused, HasBackup
<1>5. QED
  BY <1>3, <1>4, UnfoldedNext DEF EditorWhole

\* Whatever fails and wherever the service stops, the last content of a file is on the
\* disk or in a backup, unless edits of it overlapped or the editor of whole files wrote
\* without a backup (saveBackup before writeFile in every route).
THEOREM BackupsHoldCorrect == WebSpec => []BackupsHold
<1>1. EditorWhole /\ [WebNext]_allVars => EditorWhole'
  <2> SUFFICES ASSUME EditorWhole, [WebNext]_allVars PROVE EditorWhole'
    OBVIOUS
  <2>1. CASE EditorStep
    BY <2>1, EditorKeeps DEF EditorStep
  <2>2. CASE ~EditorStep
    <3>1. UNCHANGED editorVars
      BY <2>2 DEF WebNext, ConsumersStep, LogsStep, StreamStep, LoadingStep, allVars
    <3>2. QED
      BY <3>1, EditorRests
  <2>3. QED
    BY <2>1, <2>2
<1>2. EditorWhole => BackupsHold
  BY DEF EditorWhole
<1>3. QED
  BY <1>1, <1>2, EditorInitially, PTL DEF WebSpec

-----------------------------------------------------------------------------
(* Numbers and sequences: what the recursive functions of the edits need.    *)

\* A set of numbers has a least one.
LEMMA LeastExists ==
  ASSUME NEW S, S \subseteq Nat, S # {}
  PROVE  \E m \in S : \A v \in S : m <= v
<1> DEFINE T == {0..m : m \in S}
           R == StrictSubsetOrdering(Nat)
           F == FiniteSubsetsOf(Nat)
<1>1. \A X \in T : X \in F
  <2> SUFFICES ASSUME NEW m \in S PROVE 0..m \in F
    OBVIOUS
  <2> HIDE DEF T, R
  <2>1. m \in Nat
    OBVIOUS
  <2>2. \A k \in 0..m : k \in Nat
    BY <2>1
  <2>3. IsFiniteSet(0..m)
    BY <2>1, FS_Interval
  <2>4. QED
    BY <2>2, <2>3 DEF FiniteSubsetsOf
<1>2. T \subseteq F /\ T # {}
  BY <1>1
<1>3. IsWellFoundedOn(R, F)
  BY FS_StrictSubsetOrderingWellFounded
<1>4. PICK X \in T : \A Y \in T : ~ (<<Y, X>> \in R)
  <2> HIDE DEF T, R, F
  <2> QED
    BY <1>2, <1>3, WFMin
<1>5. PICK m \in S : X = 0..m
  OBVIOUS
<1>6. \A v \in S : ~(v < m)
  <2> SUFFICES ASSUME NEW v \in S, v < m PROVE FALSE
    OBVIOUS
  <2>1. m \in Nat /\ v \in Nat /\ 0..v \in T
    OBVIOUS
  <2> HIDE DEF T
  <2>2. \A k \in 0..v : k \in 0..m /\ k \in Nat
    BY <2>1
  <2>3. m \in 0..m /\ m \notin 0..v /\ \A k \in 0..m : k \in Nat
    BY <2>1
  <2>4. <<0..v, 0..m>> \in (SUBSET Nat) \X (SUBSET Nat) /\ 0..v \subseteq 0..m /\ 0..v # 0..m
    BY <2>2, <2>3
  <2>5. <<0..v, 0..m>> \in R
    BY <2>4 DEF StrictSubsetOrdering
  <2> HIDE DEF R
  <2>6. <<0..v, X>> \in R
    BY <1>5, <2>5
  <2>7. QED
    BY <1>4, <2>1, <2>6
<1> HIDE DEF T, R, F
<1>7. ASSUME NEW v \in S PROVE m <= v
  <2>1. m \in Nat /\ v \in Nat /\ ~(v < m)
    BY <1>6, <1>7
  <2>2. QED
    BY <2>1
<1>8. QED
  BY <1>7

\* Induction, for a set.
LEMMA NatIsInduced ==
  ASSUME NEW S, 0 \in S, \A n \in Nat : n \in S => n + 1 \in S
  PROVE  \A n \in Nat : n \in S
<1> SUFFICES ASSUME NEW n \in Nat, n \notin S PROVE FALSE
  OBVIOUS
<1> DEFINE T == Nat \ S
<1>1. T \in SUBSET Nat /\ T # {}
  OBVIOUS
<1>2. PICK x \in T : \A y \in T : x <= y
  BY <1>1, LeastExists
<1>3. x # 0 /\ x \in Nat
  BY <1>2
<1>4. x - 1 \in Nat /\ x - 1 + 1 = x /\ ~ (x <= x - 1)
  BY <1>3, SMT
<1>5. x - 1 \notin T
  BY <1>2, <1>4
<1> QED
  BY <1>2, <1>4, <1>5


\* A function on 0 .. N is defined by its value at the number before.
Counted(g, N, first, onward) ==
  g[0] = first /\ \A n \in 1 .. N : g[n] = onward[<<n, g[n - 1]>>]

\* A function that counts up from its first value exists.
LEMMA CountedUp ==
  ASSUME NEW N \in Nat, NEW V, NEW first \in V, NEW onward \in [(1 .. N) \X V -> V]
  PROVE  \E g \in [0 .. N -> V] : Counted(g, N, first, onward)
<1> DEFINE Upto(k) == \E g \in [0 .. k -> V] :
                         g[0] = first /\ \A n \in 1 .. k : g[n] = onward[<<n, g[n - 1]>>]
           S == {k \in Nat : k <= N => Upto(k)}
<1>1. 0 \in S
  <2> DEFINE h == [n \in 0 .. 0 |-> first]
  <2>1. h \in [0 .. 0 -> V] /\ h[0] = first /\ \A n \in 1 .. 0 : FALSE
    OBVIOUS
  <2> HIDE DEF h
  <2>2. Upto(0)
    BY <2>1
  <2>3. QED
    BY <2>2
<1>2. ASSUME NEW k \in Nat, k \in S PROVE k + 1 \in S
  <2>1. SUFFICES ASSUME k + 1 <= N PROVE Upto(k + 1)
    OBVIOUS
  <2>2. PICK g \in [0 .. k -> V] :
          g[0] = first /\ \A n \in 1 .. k : g[n] = onward[<<n, g[n - 1]>>]
    BY <1>2, <2>1
  <2> DEFINE h == [n \in 0 .. k + 1 |-> IF n = k + 1 THEN onward[<<n, g[k]>>] ELSE g[n]]
  <2>3. k + 1 \in 1 .. N /\ g[k] \in V
    BY <2>1, <2>2
  <2>4. onward[<<k + 1, g[k]>>] \in V
    BY <2>3
  <2>5. h \in [0 .. k + 1 -> V]
    BY <2>2, <2>4
  <2>6. h[0] = first /\ \A n \in 1 .. k + 1 : h[n] = onward[<<n, h[n - 1]>>]
    BY <2>2, <2>3
  <2>7. QED
    BY <2>5, <2>6
<1> HIDE DEF S
<1>3. N \in S
  BY <1>1, <1>2, NatIsInduced
<1>4. Upto(N)
  BY <1>3 DEF S
<1>5. QED
  BY <1>4 DEF Counted

\* What holds at 0 and goes on holds up to N.
LEMMA InTurn ==
  ASSUME NEW N \in Nat, NEW S, 0 \in S, \A n \in 1 .. N : n - 1 \in S => n \in S
  PROVE  \A n \in 0 .. N : n \in S
<1> DEFINE T == {n \in Nat : n <= N => n \in S}
<1>1. 0 \in T
  OBVIOUS
<1>2. ASSUME NEW n \in Nat, n \in T PROVE n + 1 \in T
  <2>1. CASE n + 1 <= N
    <3>1. n + 1 \in 1 .. N /\ (n + 1) - 1 = n /\ n \in S
      BY <1>2, <2>1
    <3>2. QED
      BY <3>1
  <2>2. QED
    BY <2>1
<1> HIDE DEF T
<1>3. \A n \in Nat : n \in T
  BY <1>1, <1>2, NatIsInduced
<1>4. QED
  BY <1>3 DEF T

-----------------------------------------------------------------------------
(* Ids.                                                                    *)

Id == Seq(Nat)

\* There is one number more from 2 to c + 2 than there is from 1 to c.
LEMMA OneMore ==
  ASSUME NEW c \in Nat
  PROVE  /\ IsFiniteSet(2 .. c + 2) /\ Cardinality(2 .. c + 2) = c + 1
         /\ IsFiniteSet(1 .. c) /\ Cardinality(1 .. c) = c /\ c < c + 1
<1>1. IsFiniteSet(2 .. c + 2) /\ Cardinality(2 .. c + 2) = c + 1
  <2>1. 2 \in Int /\ c + 2 \in Int /\ ~(2 > c + 2) /\ (c + 2) - 2 + 1 = c + 1
    OBVIOUS
  <2>2. /\ IsFiniteSet(2 .. c + 2)
        /\ Cardinality(2 .. c + 2) = IF 2 > c + 2 THEN 0 ELSE (c + 2) - 2 + 1
    BY <2>1, FS_Interval
  <2>3. QED
    BY <2>1, <2>2
<1>2. IsFiniteSet(1 .. c) /\ Cardinality(1 .. c) = c
  <2>1. 1 \in Int /\ c \in Int /\ c - 1 + 1 = c /\ (1 > c => c = 0)
    OBVIOUS
  <2>2. IsFiniteSet(1 .. c) /\ Cardinality(1 .. c) = IF 1 > c THEN 0 ELSE c - 1 + 1
    BY <2>1, FS_Interval
  <2>3. QED
    BY <2>1, <2>2
<1>3. QED
  BY <1>1, <1>2

\* Of as many names as there are ids and one more, one is free.
LEMMA FreeIdIs ==
  ASSUME NEW id \in Id, NEW before \in Seq(Id)
  PROVE  /\ Editor!FreeId(id, before) \in Id
         /\ \A m \in 1 .. Len(before) : before[m] # Editor!FreeId(id, before)
<1> DEFINE c == Len(before)
           taken(x) == \E m \in DOMAIN before : before[m] = x
<1>0. c \in Nat /\ DOMAIN before = 1 .. c
  OBVIOUS
<1>1. CASE ~taken(id)
  <2>1. Editor!FreeId(id, before) = id
    BY <1>1 DEF Editor!FreeId
  <2>2. QED
    BY <1>0, <1>1, <2>1
<1>2. CASE taken(id)
  <2>2. \E n \in 2 .. c + 2 : ~taken(Append(id, n))
    <3>1. SUFFICES ASSUME \A n \in 2 .. c + 2 : taken(Append(id, n)) PROVE FALSE
      OBVIOUS
    <3> DEFINE f == [n \in 2 .. c + 2 |-> CHOOSE m \in 1 .. c : before[m] = Append(id, n)]
    <3>2. \A n, m \in 2 .. c + 2 : Append(id, n) = Append(id, m) => n = m
      <4>1. SUFFICES ASSUME NEW n \in 2 .. c + 2, NEW m \in 2 .. c + 2, Append(id, n) = Append(id, m)
                     PROVE  n = m
        OBVIOUS
      <4>2. n \in Nat /\ m \in Nat
        BY <1>0
      <4>3. Append(id, n)[Len(id) + 1] = n /\ Append(id, m)[Len(id) + 1] = m
        BY <4>2, AppendProperties DEF Id
      <4>4. QED
        BY <4>1, <4>3
    <3>3. \A n \in 2 .. c + 2 : f[n] \in 1 .. c /\ before[f[n]] = Append(id, n)
      BY <1>0, <3>1
    <3>4. f \in [2 .. c + 2 -> 1 .. c]
      BY <3>3
    <3>5. /\ IsFiniteSet(2 .. c + 2) /\ Cardinality(2 .. c + 2) = c + 1
          /\ IsFiniteSet(1 .. c) /\ Cardinality(1 .. c) = c /\ c < c + 1
      <4> HIDE DEF c
      <4>1. QED
        BY <1>0, OneMore
    <3> HIDE DEF f, c
    <3>6. \E n, m \in 2 .. c + 2 : n # m /\ f[n] = f[m]
      BY <3>4, <3>5, FS_PigeonHole
    <3>7. QED
      BY <3>2, <3>3, <3>6
  <2>3. PICK free \in 2 .. c + 2 : /\ ~taken(Append(id, free))
                                   /\ \A m \in 2 .. free - 1 : taken(Append(id, m))
    <3> DEFINE S == {n \in 2 .. c + 2 : ~taken(Append(id, n))}
    <3>1. S \subseteq Nat /\ S # {}
      BY <1>0, <2>2
    <3> HIDE DEF S
    <3>2. PICK n \in S : \A v \in S : n <= v
      BY <3>1, LeastExists
    <3>3. n \in 2 .. c + 2 /\ ~taken(Append(id, n))
      BY <3>2 DEF S
    <3>4. ASSUME NEW m \in 2 .. n - 1 PROVE taken(Append(id, m))
      <4>1. m \in 2 .. c + 2 /\ ~(n <= m)
        BY <1>0, <3>3, <3>4
      <4>2. QED
        BY <3>2, <4>1 DEF S
    <3>5. QED
      BY <3>3, <3>4
  <2> DEFINE k == CHOOSE n \in 2 .. c + 2 : /\ ~taken(Append(id, n))
                                            /\ \A m \in 2 .. n - 1 : taken(Append(id, m))
  <2>4. k \in 2 .. c + 2 /\ ~taken(Append(id, k))
    BY <2>3
  <2>5. Editor!FreeId(id, before) = Append(id, k)
    BY <1>2 DEF Editor!FreeId
  <2>6. k \in Nat
    BY <1>0, <2>4
  <2> HIDE DEF k
  <2>7. Append(id, k) \in Id
    BY <2>6, AppendProperties DEF Id
  <2>8. \A m \in 1 .. Len(before) : before[m] # Append(id, k)
    BY <1>0, <2>4
  <2>9. QED
    BY <2>5, <2>7, <2>8
<1>3. QED
  BY <1>1, <1>2

Different(list) == \A i, j \in DOMAIN list : list[i] = list[j] => i = j

\* The ids given to items: one each, all different.
LEMMA FreeIdsAre ==
  ASSUME NEW items \in Seq(Editor!Entry)
  PROVE  /\ Editor!FreeIds(items) \in Seq(Id) /\ Len(Editor!FreeIds(items)) = Len(items)
         /\ Different(Editor!FreeIds(items))
<1> DEFINE N == Len(items)
           V == Seq(Id)
           onward == [x \in (1 .. N) \X V |-> Append(x[2], Editor!FreeId(items[x[1]].id, x[2]))]
           ids == CHOOSE ids : ids = [n \in 0 .. N |->
                     IF n = 0 THEN <<>> ELSE Append(ids[n - 1], Editor!FreeId(items[n].id, ids[n - 1]))]
<1>1. N \in Nat /\ \A n \in 1 .. N : items[n].id \in Id
  <2>1. N \in Nat /\ \A n \in 1 .. N : items[n] \in Editor!Entry
    OBVIOUS
  <2>2. \A x \in Editor!Entry : x.id \in Id
    BY DEF Editor!Entry, Id
  <2>3. QED
    BY <2>1, <2>2
<1>2. \A n \in 1 .. N : \A before \in V : Editor!FreeId(items[n].id, before) \in Id
  BY <1>1, FreeIdIs
<1>3. onward \in [(1 .. N) \X V -> V]
  BY <1>2
<1>4. <<>> \in V
  OBVIOUS
<1>5. PICK g \in [0 .. N -> V] : g[0] = <<>> /\ \A n \in 1 .. N : g[n] = onward[<<n, g[n - 1]>>]
  <2>1. \E g \in [0 .. N -> V] : Counted(g, N, <<>>, onward)
    <3> HIDE DEF onward, N, V, ids
    <3>1. QED
      BY <1>1, <1>3, <1>4, CountedUp
  <2>2. QED
    BY <2>1 DEF Counted
<1>6. g = [n \in 0 .. N |->
             IF n = 0 THEN <<>> ELSE Append(g[n - 1], Editor!FreeId(items[n].id, g[n - 1]))]
  <2>1. ASSUME NEW n \in 0 .. N
        PROVE  g[n] = IF n = 0 THEN <<>> ELSE Append(g[n - 1], Editor!FreeId(items[n].id, g[n - 1]))
    <3>1. CASE n = 0
      BY <1>5, <3>1
    <3>2. CASE n # 0
      <4>1. n \in 1 .. N /\ g[n - 1] \in V
        BY <1>1, <1>5, <3>2
      <4>2. QED
        BY <1>5, <3>2, <4>1
    <3>3. QED
      BY <3>1, <3>2
  <2>2. QED
    BY <1>5, <2>1
<1>7. \A n \in 0 .. N :
         ids[n] = IF n = 0 THEN <<>> ELSE Append(ids[n - 1], Editor!FreeId(items[n].id, ids[n - 1]))
  <2>1. ids = [n \in 0 .. N |->
             IF n = 0 THEN <<>> ELSE Append(ids[n - 1], Editor!FreeId(items[n].id, ids[n - 1]))]
    BY <1>6
  <2>2. QED
    BY <2>1
<1>8. Editor!FreeIds(items) = ids[N]
  BY DEF Editor!FreeIds
<1> HIDE DEF ids, onward
<1> DEFINE S == {n \in 0 .. N : ids[n] \in V /\ Len(ids[n]) = n /\ Different(ids[n])}
<1>9. 0 \in S
  <2>1. ids[0] = <<>>
    BY <1>1, <1>7
  <2>2. <<>> \in Seq(Id) /\ Len(<<>>) = 0 /\ Different(<<>>)
    BY DEF Different
  <2>3. ids[0] \in Seq(Id) /\ Len(ids[0]) = 0 /\ Different(ids[0])
    BY <2>1, <2>2 DEF Different
  <2>4. QED
    BY <1>1, <2>3
<1>10. ASSUME NEW n \in 1 .. N, n - 1 \in S PROVE n \in S
  <2> DEFINE before == ids[n - 1]
             x == Editor!FreeId(items[n].id, before)
  <2>1. before \in Seq(Id) /\ Len(before) = n - 1 /\ Different(before) /\ n \in Nat /\ n # 0
    BY <1>1, <1>10
  <2>2. x \in Id /\ \A m \in 1 .. n - 1 : before[m] # x
    BY <1>1, <2>1, FreeIdIs
  <2>3. ids[n] = Append(before, x)
    BY <1>1, <1>7, <2>1
  <2> HIDE DEF x, before
  <2>4. /\ ids[n] \in Seq(Id) /\ Len(ids[n]) = n /\ ids[n][n] = x
        /\ \A m \in 1 .. n - 1 : ids[n][m] = before[m]
    BY <2>1, <2>2, <2>3, AppendProperties
  <2>5. DOMAIN ids[n] = 1 .. n /\ DOMAIN before = 1 .. n - 1
    BY <2>1, <2>4
  <2>6. ASSUME NEW i \in 1 .. n, NEW j \in 1 .. n, ids[n][i] = ids[n][j] PROVE i = j
    <3>1. CASE i = n /\ j = n
      BY <3>1
    <3>2. CASE i = n /\ j # n
      <4>1. j \in 1 .. n - 1
        BY <2>1, <3>2
      <4>2. QED
        BY <2>2, <2>4, <2>6, <3>2, <4>1
    <3>3. CASE i # n /\ j = n
      <4>1. i \in 1 .. n - 1
        BY <2>1, <3>3
      <4>2. QED
        BY <2>2, <2>4, <2>6, <3>3, <4>1
    <3>4. CASE i # n /\ j # n
      <4>1. i \in 1 .. n - 1 /\ j \in 1 .. n - 1
        BY <2>1, <3>4
      <4>2. QED
        BY <2>1, <2>4, <2>5, <2>6, <4>1 DEF Different
    <3>5. QED
      BY <3>1, <3>2, <3>3, <3>4
  <2>7. Different(ids[n])
    BY <2>5, <2>6 DEF Different
  <2>8. QED
    BY <1>1, <2>4, <2>7
<1> HIDE DEF S
<1>11. \A n \in 0 .. N : n \in S
  BY <1>1, <1>9, <1>10, InTurn
<1>12. N \in S
  BY <1>1, <1>11
<1>13. QED
  BY <1>8, <1>12 DEF S

-----------------------------------------------------------------------------
(* Contents.                                                               *)

Distinct(list) == \A i, j \in DOMAIN list : list[i].id = list[j].id => i = j
Others(list, i) == {list[j] : j \in (DOMAIN list) \ {i}}

\* The four lists of a content.
LEMMA ListsAre == Editor!Lists = {"light", "switch", "scripts", "automation"}
  BY DEF Editor!Lists, Editor!EntityTypes

\* A content did load, and its lists are sequences of items.
LEMMA ContentIs ==
  ASSUME NEW c \in Editor!Content
  PROVE  c # Editor!Torn /\ \A l \in Editor!Lists : c[l] \in Seq(Editor!Entry)
<1>1. DOMAIN c = Editor!Lists /\ DOMAIN Editor!Torn = {"torn"} /\ "light" \in Editor!Lists
  BY ListsAre DEF Editor!Content, Editor!Torn
<1>2. c # Editor!Torn
  BY <1>1
<1>3. QED
  BY <1>2 DEF Editor!Content

\* An item with another id.
LEMMA Renumbered ==
  ASSUME NEW x \in Editor!Entry, NEW id \in Id
  PROVE  [x EXCEPT !.id = id] \in Editor!Entry /\ [x EXCEPT !.id = id].id = id
  BY DEF Editor!Entry, Id

\* What normalizeConfig gives has no id twice.
LEMMA NormaliseIs ==
  ASSUME NEW c \in Editor!Content
  PROVE  /\ Editor!Normalise(c) \in Editor!Content
         /\ \A l \in Editor!Lists : Distinct(Editor!Normalise(c)[l])
<1> DEFINE all == Editor!AllItems(c)
           ids == Editor!FreeIds(all)
           list(l) == [i \in DOMAIN c[l] |-> [c[l][i] EXCEPT !.id = ids[Editor!Before(c, l) + i]]]
<1>1. PICK a \in Seq(Editor!Entry), b \in Seq(Editor!Entry), d \in Seq(Editor!Entry),
           e \in Seq(Editor!Entry) :
        a = c["light"] /\ b = c["switch"] /\ d = c["scripts"] /\ e = c["automation"]
  BY ListsAre, ContentIs
<1>2. /\ all = a \o b \o d \o e /\ Len(a) \in Nat /\ Len(b) \in Nat /\ Len(d) \in Nat /\ Len(e) \in Nat
      /\ Len(a \o b) = Len(a) + Len(b) /\ Len(a \o b \o d) = Len(a) + Len(b) + Len(d)
      /\ all \in Seq(Editor!Entry) /\ Len(all) = Len(a) + Len(b) + Len(d) + Len(e)
  <2>1. all = a \o b \o d \o e
    BY <1>1 DEF Editor!AllItems
  <2>2. a \o b \in Seq(Editor!Entry) /\ Len(a \o b) = Len(a) + Len(b)
    BY ConcatProperties
  <2>3. a \o b \o d \in Seq(Editor!Entry) /\ Len(a \o b \o d) = Len(a \o b) + Len(d)
    BY <2>2, ConcatProperties
  <2>4. a \o b \o d \o e \in Seq(Editor!Entry) /\ Len(a \o b \o d \o e) = Len(a \o b \o d) + Len(e)
    BY <2>3, ConcatProperties
  <2>5. Len(a) \in Nat /\ Len(b) \in Nat /\ Len(d) \in Nat /\ Len(e) \in Nat
    OBVIOUS
  <2> HIDE DEF all
  <2>6. QED
    BY <2>1, <2>2, <2>3, <2>4, <2>5
<1>3. ids \in Seq(Id) /\ Len(ids) = Len(all) /\ Different(ids)
  <2> HIDE DEF all
  <2>1. QED
    BY <1>2, FreeIdsAre
<1> HIDE DEF ids, all
<1>4. /\ Editor!Before(c, "light") = 0 /\ Editor!Before(c, "switch") = Len(a)
      /\ Editor!Before(c, "scripts") = Len(a) + Len(b)
      /\ Editor!Before(c, "automation") = Len(a) + Len(b) + Len(d)
  BY <1>1, <1>2 DEF Editor!Before
<1>5. ASSUME NEW l \in Editor!Lists, NEW i \in DOMAIN c[l]
      PROVE  Editor!Before(c, l) \in Nat /\ i \in Nat /\ Editor!Before(c, l) + i \in 1 .. Len(ids)
  <2>1. l \in {"light", "switch", "scripts", "automation"}
    BY ListsAre
  <2>2. CASE l = "light"
    <3>1. i \in 1 .. Len(a)
      BY <1>1, <2>2
    <3>2. QED
      BY <1>2, <1>3, <1>4, <2>2, <3>1
  <2>3. CASE l = "switch"
    <3>1. i \in 1 .. Len(b)
      BY <1>1, <2>3
    <3>2. QED
      BY <1>2, <1>3, <1>4, <2>3, <3>1
  <2>4. CASE l = "scripts"
    <3>1. i \in 1 .. Len(d)
      BY <1>1, <2>4
    <3>2. QED
      BY <1>2, <1>3, <1>4, <2>4, <3>1
  <2>5. CASE l = "automation"
    <3>1. i \in 1 .. Len(e)
      BY <1>1, <2>5
    <3>2. QED
      BY <1>2, <1>3, <1>4, <2>5, <3>1
  <2>6. QED
    BY <2>1, <2>2, <2>3, <2>4, <2>5
<1>6. ASSUME NEW l \in Editor!Lists
      PROVE  list(l) \in Seq(Editor!Entry) /\ Distinct(list(l))
  <2>1. c[l] \in Seq(Editor!Entry) /\ DOMAIN c[l] = 1 .. Len(c[l]) /\ Len(c[l]) \in Nat
    BY ContentIs
  <2>2. ASSUME NEW i \in DOMAIN c[l]
        PROVE  list(l)[i] \in Editor!Entry /\ list(l)[i].id = ids[Editor!Before(c, l) + i]
    <3>1. c[l][i] \in Editor!Entry /\ ids[Editor!Before(c, l) + i] \in Id
      <4>1. PICK k \in 1 .. Len(ids) : k = Editor!Before(c, l) + i
        BY <1>5
      <4>2. ids[k] \in Id
        BY <1>3
      <4>3. c[l][i] \in Editor!Entry
        BY <2>1
      <4>4. QED
        BY <4>1, <4>2, <4>3
    <3>2. list(l)[i] = [c[l][i] EXCEPT !.id = ids[Editor!Before(c, l) + i]]
      OBVIOUS
    <3> HIDE DEF list
    <3>3. QED
      BY <3>1, <3>2, Renumbered
  <2>3. DOMAIN list(l) = 1 .. Len(c[l]) /\ list(l) = [i \in 1 .. Len(c[l]) |-> list(l)[i]]
    BY <2>1
  <2> HIDE DEF list
  <2>4. list(l) \in [1 .. Len(c[l]) -> Editor!Entry]
    BY <2>1, <2>2, <2>3
  <2>5. list(l) \in Seq(Editor!Entry)
    BY <2>1, <2>4, SeqDef
  <2>6. \A i, j \in DOMAIN c[l] : list(l)[i].id = list(l)[j].id => i = j
    <3>1. SUFFICES ASSUME NEW i \in DOMAIN c[l], NEW j \in DOMAIN c[l],
                          list(l)[i].id = list(l)[j].id
                   PROVE  i = j
      OBVIOUS
    <3>2. ids[Editor!Before(c, l) + i] = ids[Editor!Before(c, l) + j]
      BY <2>2, <3>1
    <3>3. DOMAIN ids = 1 .. Len(ids)
      BY <1>3
    <3>4. Editor!Before(c, l) + i = Editor!Before(c, l) + j
      BY <1>3, <1>5, <3>2, <3>3 DEF Different
    <3>5. QED
      BY <1>5, <3>4
  <2>7. QED
    BY <2>1, <2>3, <2>5, <2>6 DEF Distinct
<1>7. Editor!Normalise(c) = [l \in Editor!Lists |-> list(l)]
  BY DEF Editor!Normalise, ids, all
<1> HIDE DEF list
<1>8. QED
  BY <1>6, <1>7 DEF Editor!Content

\* Where an id is found.
LEMMA PlaceIs ==
  ASSUME NEW list \in Seq(Editor!Entry), NEW id, id \in Editor!Ids(list)
  PROVE  /\ Editor!PlaceOf(list, id) \in 1 .. Len(list)
         /\ list[Editor!PlaceOf(list, id)].id = id
<1> DEFINE S == {i \in 1 .. Len(list) : list[i].id = id}
<1>0. Len(list) \in Nat /\ DOMAIN list = 1 .. Len(list)
  OBVIOUS
<1>1. S \subseteq Nat /\ S # {}
  BY <1>0 DEF Editor!Ids
<1>2. PICK i \in S : \A j \in S : i <= j
  <2> HIDE DEF S
  <2>1. QED
    BY <1>1, LeastExists
<1>3. \A j \in 1 .. i - 1 : list[j].id # id
  <2>1. SUFFICES ASSUME NEW j \in 1 .. i - 1, list[j].id = id PROVE FALSE
    OBVIOUS
  <2>2. j \in S /\ ~(i <= j)
    BY <1>0, <1>2, <2>1
  <2>3. QED
    BY <1>2, <2>2
<1>4. \E k \in DOMAIN list : list[k].id = id /\ \A j \in 1 .. k - 1 : list[j].id # id
  BY <1>0, <1>2, <1>3
<1>5. QED
  BY <1>0, <1>4 DEF Editor!PlaceOf

Kinds == {"entity", "scripts", "automation"}

\* No list.
Nowhere == ""

\* The list an id is found in has it, and is of the kind asked for.
LEMMA ListWithIs ==
  ASSUME NEW c \in Editor!Content, NEW kind \in Kinds, NEW id, NEW l,
         l = Editor!ListWith(c, kind, id)
  PROVE  /\ l # Nowhere => l \in Editor!Lists /\ id \in Editor!Ids(c[l])
         /\ l # Nowhere /\ kind = "entity" => l \in {"light", "switch"}
         /\ l # Nowhere /\ kind # "entity" => l = kind
         /\ kind # "entity" /\ id \in Editor!Ids(c[kind]) => l = kind
<1>1. c # Editor!Torn
  BY ContentIs
<1>2. CASE kind = "entity"
  BY <1>1, <1>2, ListsAre DEF Editor!ListWith, Nowhere
<1>3. CASE kind # "entity"
  <2>1. kind \in Editor!Lists
    BY <1>3, ListsAre DEF Kinds
  <2>2. l = IF id \in Editor!Ids(c[kind]) THEN kind ELSE Nowhere
    BY <1>1, <1>3 DEF Editor!ListWith, Nowhere
  <2>3. QED
    BY <1>3, <2>1, <2>2
<1>4. QED
  BY <1>2, <1>3

-----------------------------------------------------------------------------
(* What an edit makes of a content.                                        *)

\* The items of two lists put together.
LEMMA MembersOfBoth ==
  ASSUME NEW S, NEW s \in Seq(S), NEW t \in Seq(S)
  PROVE  Editor!Members(s \o t) = Editor!Members(s) \cup Editor!Members(t)
<1> DEFINE u == s \o t
<1>1. /\ DOMAIN s = 1 .. Len(s) /\ DOMAIN t = 1 .. Len(t) /\ DOMAIN u = 1 .. Len(s) + Len(t)
      /\ Len(s) \in Nat /\ Len(t) \in Nat
      /\ \A i \in 1 .. Len(s) + Len(t) : u[i] = IF i <= Len(s) THEN s[i] ELSE t[i - Len(s)]
  BY ConcatProperties
<1> HIDE DEF u
<1>2. \A x \in Editor!Members(u) : x \in Editor!Members(s) \cup Editor!Members(t)
  <2>1. SUFFICES ASSUME NEW i \in 1 .. Len(s) + Len(t) PROVE u[i] \in Editor!Members(s) \cup Editor!Members(t)
    BY <1>1 DEF Editor!Members
  <2>2. CASE i <= Len(s)
    <3>1. i \in 1 .. Len(s) /\ u[i] = s[i]
      BY <1>1, <2>2
    <3>2. QED
      BY <1>1, <3>1 DEF Editor!Members
  <2>3. CASE ~(i <= Len(s))
    <3>1. i - Len(s) \in 1 .. Len(t) /\ u[i] = t[i - Len(s)]
      BY <1>1, <2>3
    <3>2. QED
      BY <1>1, <3>1 DEF Editor!Members
  <2>4. QED
    BY <2>2, <2>3
<1>3. \A i \in DOMAIN s : s[i] \in Editor!Members(u)
  <2>1. \A i \in 1 .. Len(s) : i \in DOMAIN u /\ u[i] = s[i]
    BY <1>1
  <2>2. QED
    BY <1>1, <2>1 DEF Editor!Members
<1>4. \A i \in DOMAIN t : t[i] \in Editor!Members(u)
  <2>1. \A i \in 1 .. Len(t) : i + Len(s) \in DOMAIN u /\ u[i + Len(s)] = t[i]
    BY <1>1
  <2>2. QED
    BY <1>1, <2>1 DEF Editor!Members
<1>5. QED
  BY <1>2, <1>3, <1>4 DEF Editor!Members, u

\* The items of a part of a list.
LEMMA MembersOfPart ==
  ASSUME NEW S, NEW s \in Seq(S), NEW a \in 1 .. Len(s) + 1, NEW b \in 0 .. Len(s)
  PROVE  SubSeq(s, a, b) \in Seq(S) /\ Editor!Members(SubSeq(s, a, b)) = {s[k] : k \in a .. b}
<1> DEFINE u == SubSeq(s, a, b)
<1>0. Len(s) \in Nat /\ a \in Nat /\ b \in Nat
  OBVIOUS
<1>1. \A k \in a .. b : k \in 1 .. Len(s) /\ s[k] \in S
  BY <1>0
<1>2. /\ u \in Seq(S) /\ Len(u) = IF a <= b THEN b - a + 1 ELSE 0
      /\ \A i \in 1 .. b - a + 1 : u[i] = s[a + i - 1]
  BY <1>0, <1>1, SubSeqProperties
<1> HIDE DEF u
<1>3. ASSUME NEW i \in DOMAIN u PROVE \E k \in a .. b : u[i] = s[k]
  <2>1. i \in 1 .. b - a + 1 /\ a <= b
    BY <1>0, <1>2
  <2>2. a + i - 1 \in a .. b
    BY <1>0, <2>1
  <2>3. QED
    BY <1>2, <2>1, <2>2
<1>4. ASSUME NEW k \in a .. b PROVE \E i \in DOMAIN u : u[i] = s[k]
  <2>1. k - a + 1 \in 1 .. b - a + 1 /\ a + (k - a + 1) - 1 = k /\ a <= b
    BY <1>0
  <2>2. k - a + 1 \in DOMAIN u
    BY <1>0, <1>2, <2>1
  <2>3. QED
    BY <1>2, <2>1, <2>2
<1>5. Editor!Members(u) = {s[k] : k \in a .. b}
  BY <1>3, <1>4 DEF Editor!Members
<1>6. QED
  BY <1>2, <1>5 DEF u

\* A part of a sequence in place of one element.
Spliced(s, i, t) == SubSeq(s, 1, i - 1) \o t \o SubSeq(s, i + 1, Len(s))

\* The items of a list of which one was replaced.
LEMMA Replaced ==
  ASSUME NEW S, NEW s \in Seq(S), NEW i \in 1 .. Len(s), NEW t \in Seq(S), NEW u,
         u = Spliced(s, i, t)
  PROVE  u \in Seq(S) /\ Editor!Members(u) = Others(s, i) \cup Editor!Members(t)
<1>1. Len(s) \in Nat /\ DOMAIN s = 1 .. Len(s)
  OBVIOUS
<1>0. /\ 1 \in 1 .. Len(s) + 1 /\ i - 1 \in 0 .. Len(s)
      /\ i + 1 \in 1 .. Len(s) + 1 /\ Len(s) \in 0 .. Len(s)
  BY <1>1
<1>2. PICK a \in 1 .. Len(s) + 1, b \in 0 .. Len(s), d \in 1 .. Len(s) + 1, e \in 0 .. Len(s) :
        a = 1 /\ b = i - 1 /\ d = i + 1 /\ e = Len(s)
  BY <1>0, Zenon
<1>3. PICK head \in Seq(S) : head = SubSeq(s, a, b) /\ Editor!Members(head) = {s[k] : k \in a .. b}
  BY MembersOfPart
<1>4. PICK tail \in Seq(S) : tail = SubSeq(s, d, e) /\ Editor!Members(tail) = {s[k] : k \in d .. e}
  BY MembersOfPart
<1>5. PICK front \in Seq(S) : front = head \o t /\ Editor!Members(front) = Editor!Members(head) \cup Editor!Members(t)
  <2>1. head \o t \in Seq(S)
    BY ConcatProperties
  <2>2. QED
    BY <2>1, MembersOfBoth
<1>6. front \o tail \in Seq(S) /\ Editor!Members(front \o tail) = Editor!Members(front) \cup Editor!Members(tail)
  BY MembersOfBoth, ConcatProperties
<1>7. u = front \o tail
  BY <1>2, <1>3, <1>4, <1>5 DEF Spliced
<1>8. \A k : k \in (DOMAIN s) \ {i} <=> k \in 1 .. i - 1 \/ k \in i + 1 .. Len(s)
  BY <1>1
<1>9. Others(s, i) = {s[k] : k \in 1 .. i - 1} \cup {s[k] : k \in i + 1 .. Len(s)}
  BY <1>8 DEF Others
<1>10. Editor!Members(u) = {s[k] : k \in 1 .. i - 1} \cup Editor!Members(t) \cup {s[k] : k \in i + 1 .. Len(s)}
  BY <1>2, <1>3, <1>4, <1>5, <1>6, <1>7
<1>11. QED
  BY <1>6, <1>7, <1>9, <1>10

\* An item replaced: the others of its list stay, and so do the other lists.
LEMMA ReplaceIs ==
  ASSUME NEW c \in Editor!Content, NEW r, r.kind \in Kinds, NEW items \in Seq(Editor!Entry),
         NEW new, new = Editor!Replace(c, r, items), new # Editor!Torn,
         NEW l, l = Editor!ListWith(c, r.kind, r.id)
  PROVE  /\ new \in Editor!Content /\ l \in Editor!Lists /\ r.id \in Editor!Ids(c[l])
         /\ \A k \in Editor!Lists \ {l} : new[k] = c[k]
         /\ Editor!Members(new[l]) = Others(c[l], Editor!PlaceOf(c[l], r.id)) \cup Editor!Members(items)
<1> DEFINE i == Editor!PlaceOf(c[l], r.id)
           list == SubSeq(c[l], 1, i - 1) \o items \o SubSeq(c[l], i + 1, Len(c[l]))
<1>1. l # Nowhere /\ new = [c EXCEPT ![l] = list]
  BY DEF Editor!Replace, Nowhere
<1>2. l \in Editor!Lists /\ r.id \in Editor!Ids(c[l])
  <2>1. l # Nowhere
    BY <1>1
  <2> HIDE DEF list, i
  <2>2. QED
    BY <2>1, ListWithIs
<1>3. PICK s \in Seq(Editor!Entry) : s = c[l]
  BY <1>2, ContentIs
<1>4. i \in 1 .. Len(s)
  BY <1>2, <1>3, PlaceIs
<1> HIDE DEF i
<1>5. list = Spliced(s, i, items)
  BY <1>3 DEF Spliced
<1> HIDE DEF list
<1>6. list \in Seq(Editor!Entry) /\ Editor!Members(list) = Others(s, i) \cup Editor!Members(items)
  BY <1>3, <1>4, <1>5, Replaced
<1>7. new \in Editor!Content /\ new[l] = list /\ \A k \in Editor!Lists \ {l} : new[k] = c[k]
  BY <1>1, <1>2, <1>6 DEF Editor!Content
<1>8. QED
  BY <1>2, <1>3, <1>6, <1>7 DEF i

\* Of the ids a list has, each is of one item.
LEMMA OthersAre ==
  ASSUME NEW list \in Seq(Editor!Entry), Distinct(list), NEW id, id \in Editor!Ids(list)
  PROVE  Others(list, Editor!PlaceOf(list, id)) = {x \in Editor!Members(list) : x.id # id}
<1> DEFINE i == Editor!PlaceOf(list, id)
<1>1. i \in DOMAIN list /\ list[i].id = id
  BY PlaceIs
<1> HIDE DEF i
<1>2. \A j \in DOMAIN list : j # i <=> list[j].id # id
  BY <1>1 DEF Distinct
<1>3. Others(list, i) = {x \in Editor!Members(list) : x.id # id}
  BY <1>2 DEF Editor!Members, Others
<1>4. QED
  BY <1>3 DEF i

\* In a list whose ids differ an id names one item.
LEMMA SameId ==
  ASSUME NEW list, Distinct(list), NEW x \in Editor!Members(list), NEW y \in Editor!Members(list), x.id = y.id
  PROVE  x = y
  BY DEF Distinct, Editor!Members

\* The item a request names is in its list.
LEMMA ItemIs ==
  ASSUME NEW c \in Editor!Content, NEW r, r.kind \in Kinds,
         NEW l, l = Editor!ListWith(c, r.kind, r.id), l # Nowhere
  PROVE  /\ Editor!Item(c, r) \in Editor!Entry /\ Editor!Item(c, r).id = r.id
         /\ Editor!Item(c, r) \in Editor!Members(c[l])
<1>1. l \in Editor!Lists /\ r.id \in Editor!Ids(c[l])
  BY ListWithIs
<1>2. PICK s \in Seq(Editor!Entry) : s = c[l]
  BY <1>1, ContentIs
<1>3. PICK i : i = Editor!PlaceOf(s, r.id)
  OBVIOUS
<1>4. i \in 1 .. Len(s) /\ s[i].id = r.id /\ DOMAIN s = 1 .. Len(s)
  BY <1>1, <1>2, <1>3, PlaceIs
<1>5. Editor!Item(c, r) = s[i]
  BY <1>2, <1>3 DEF Editor!Item
<1>6. s[i] \in Editor!Entry
  BY <1>4
<1>7. QED
  BY <1>2, <1>4, <1>5, <1>6 DEF Editor!Members

\* Items of a snippet written into a list.
LEMMA AppendNewIs ==
  ASSUME NEW list \in Seq(Editor!Entry), NEW item \in Editor!Entry, NEW chosen \in Seq(Nat)
  PROVE  Editor!AppendNew(list, item, chosen) \in Seq(Editor!Entry)
<1>1. [item EXCEPT !.id = chosen] \in Editor!Entry
  BY DEF Editor!Entry
<1>2. Append(list, item) \in Seq(Editor!Entry) /\ Append(list, [item EXCEPT !.id = chosen]) \in Seq(Editor!Entry)
  BY <1>1, AppendProperties
<1>3. QED
  BY <1>2 DEF Editor!AppendNew, Editor!Under

\* The type of a list of which one item was overwritten.
LEMMA OverwriteIs ==
  ASSUME NEW list \in Seq(Editor!Entry), NEW item \in Editor!Entry, NEW i \in 1 .. Len(list)
  PROVE  [list EXCEPT ![i] = item] \in Seq(Editor!Entry)
  BY ExceptSeq

Resolutions == {"skip", "rename", "overwrite"}

\* The type of a list to which one item of a snippet was applied, ...
LEMMA AppliedItemIs ==
  ASSUME NEW list \in Seq(Editor!Entry), NEW item \in Editor!Entry, NEW chosen \in Seq(Nat),
         NEW resolution \in Resolutions
  PROVE  Editor!AppliedItem(list, item, resolution, chosen) \in Seq(Editor!Entry)
<1>1. Editor!AppendNew(list, item, chosen) \in Seq(Editor!Entry)
  BY AppendNewIs
<1>2. ASSUME item.id \in Editor!Ids(list)
      PROVE  [list EXCEPT ![Editor!PlaceOf(list, item.id)] = item] \in Seq(Editor!Entry)
  BY <1>2, PlaceIs, OverwriteIs
<1>3. CASE item.id \notin Editor!Ids(list)
  BY <1>1, <1>3 DEF Editor!AppliedItem
<1>4. CASE item.id \in Editor!Ids(list)
  BY <1>1, <1>2, <1>4 DEF Editor!AppliedItem, Resolutions
<1>5. QED
  BY <1>3, <1>4

\* ... an entity, ...
LEMMA AppliedEntityIs ==
  ASSUME NEW list \in Seq(Editor!Entry), NEW item \in Editor!Entry, NEW chosen \in Seq(Nat),
         NEW resolution \in Resolutions
  PROVE  Editor!AppliedEntity(list, item, resolution, chosen) \in Seq(Editor!Entry)
<1>1. Editor!AppliedItem(list, item, resolution, chosen) \in Seq(Editor!Entry)
  BY AppliedItemIs
<1>2. [item EXCEPT !.id = chosen] \in Editor!Entry
  BY DEF Editor!Entry
<1>3. ASSUME chosen \in Editor!Ids(list)
      PROVE  [list EXCEPT ![Editor!PlaceOf(list, chosen)] = [item EXCEPT !.id = chosen]]
                \in Seq(Editor!Entry)
  BY <1>2, <1>3, PlaceIs, OverwriteIs
<1>4. CASE resolution = "skip"
  BY <1>4 DEF Editor!AppliedEntity
<1>5. CASE resolution # "skip" /\ (resolution = "overwrite" /\ item.id \notin Editor!Ids(list)
                                     /\ chosen \in Editor!Ids(list))
  BY <1>3, <1>5 DEF Editor!AppliedEntity, Editor!Under
<1>6. CASE resolution # "skip" /\ ~(resolution = "overwrite" /\ item.id \notin Editor!Ids(list)
                                      /\ chosen \in Editor!Ids(list))
  <2>1. Editor!AppliedEntity(list, item, resolution, chosen)
          = Editor!AppliedItem(list, item, resolution, chosen)
    BY <1>6 DEF Editor!AppliedEntity
  <2>2. QED
    BY <1>1, <2>1
<1>7. QED
  BY <1>4, <1>5, <1>6

\* ... and all of them.
LEMMA AppliedItemsAre ==
  ASSUME NEW l, NEW list \in Seq(Editor!Entry), NEW items \in Seq(Editor!Entry), NEW r,
         r.chosen \in Seq(Nat), r.resolution \in Resolutions
  PROVE  Editor!AppliedItems(l, list, items, r) \in Seq(Editor!Entry)
<1> DEFINE N == Len(items)
           V == Seq(Editor!Entry)
           Step(n, before) ==
              IF l \in Editor!EntityTypes
              THEN Editor!AppliedEntity(before, items[n], r.resolution, r.chosen)
              ELSE Editor!AppliedItem(before, items[n], r.resolution, r.chosen)
           onward == [x \in (1 .. N) \X V |-> Step(x[1], x[2])]
           Is(h) == h = [n \in 0 .. N |-> IF n = 0 THEN list ELSE Step(n, h[n - 1])]
           lists == CHOOSE lists : Is(lists)
<1>1. N \in Nat /\ \A n \in 1 .. N : items[n] \in Editor!Entry
  OBVIOUS
<1>2. \A n \in 1 .. N : \A before \in V : Step(n, before) \in V
  BY <1>1, AppliedEntityIs, AppliedItemIs
<1> HIDE DEF Step
<1>3. onward \in [(1 .. N) \X V -> V]
  BY <1>2
<1>4. PICK g \in [0 .. N -> V] : g[0] = list /\ \A n \in 1 .. N : g[n] = onward[<<n, g[n - 1]>>]
  <2>1. \E g \in [0 .. N -> V] : Counted(g, N, list, onward)
    <3> HIDE DEF onward, N
    <3>1. QED
      BY <1>1, <1>3, CountedUp
  <2>2. QED
    BY <2>1 DEF Counted
<1>5. Is(g)
  <2>1. ASSUME NEW n \in 0 .. N PROVE g[n] = IF n = 0 THEN list ELSE Step(n, g[n - 1])
    <3>1. CASE n = 0
      BY <1>4, <3>1
    <3>2. CASE n # 0
      <4>1. n \in 1 .. N /\ n - 1 \in 0 .. N
        BY <1>1, <3>2
      <4>2. g[n - 1] \in V
        BY <1>4, <4>1
      <4>3. QED
        BY <1>4, <3>2, <4>1, <4>2
    <3>3. QED
      BY <3>1, <3>2
  <2>2. QED
    BY <1>4, <2>1
<1>6. Is(lists)
  BY <1>5
<1>7. \A n \in 0 .. N : lists[n] = IF n = 0 THEN list ELSE Step(n, lists[n - 1])
  <2> HIDE DEF lists
  <2>1. QED
    BY <1>6
<1>8. Editor!AppliedItems(l, list, items, r) = lists[N]
  BY DEF Editor!AppliedItems, Step
<1> HIDE DEF lists, onward, Is
<1> DEFINE S == {n \in 0 .. N : lists[n] \in V}
<1>9. 0 \in S
  BY <1>1, <1>7
<1>10. ASSUME NEW n \in 1 .. N, n - 1 \in S PROVE n \in S
  <2>1. n \in 0 .. N /\ n # 0 /\ lists[n - 1] \in V
    BY <1>1, <1>10
  <2>2. lists[n] = Step(n, lists[n - 1])
    BY <1>7, <2>1
  <2>3. QED
    BY <1>2, <2>1, <2>2
<1> HIDE DEF S
<1>11. \A n \in 0 .. N : n \in S
  BY <1>1, <1>9, <1>10, InTurn
<1>12. N \in S
  BY <1>1, <1>11
<1>13. QED
  BY <1>8, <1>12 DEF S

\* What a request carries.
LEMMA OpsAre ==
  ASSUME NEW r, Editor!IsRequest(r)
  PROVE  /\ r.op \in {"update", "rename", "flag", "delete", "add", "gallery", "put"}
         /\ r.op \in {"update", "rename", "flag", "delete"} => r.kind \in Kinds /\ r.id \in Seq(Nat)
         /\ r.op = "update" => r.item \in Editor!Entry
         /\ r.op = "rename" => r.kind = "entity" /\ r.body \in Nat
         /\ r.op = "flag" => r.kind \in {"entity", "automation"} /\ r.on \in BOOLEAN
         /\ r.op = "add" => r.items \in Editor!Content
         /\ r.op = "gallery" => /\ r.items \in Editor!Content /\ r.chosen \in Seq(Nat)
                                /\ r.resolution \in Resolutions
         /\ r.op = "put" => r.content \in Editor!Content
  BY DEF Editor!IsRequest, Kinds, Resolutions

\* What an edit makes of a content is a content, or it refuses.
LEMMA EditedIs ==
  ASSUME NEW c \in Editor!Content, NEW r, Editor!IsRequest(r)
  PROVE  Editor!Edited(c, r) \in Editor!Content \cup {Editor!Torn}
<1> DEFINE l == Editor!ListWith(c, r.kind, r.id)
           item == Editor!Item(c, r)
<1>1. ASSUME r.kind \in Kinds, NEW items \in Seq(Editor!Entry)
      PROVE  Editor!Replace(c, r, items) \in Editor!Content \cup {Editor!Torn}
  BY <1>1, ReplaceIs
<1>2. \A x \in Editor!Entry : <<x>> \in Seq(Editor!Entry)
  OBVIOUS
<1>3. ASSUME r.kind \in Kinds, l # Nowhere PROVE item \in Editor!Entry
  BY <1>3, ItemIs
<1> HIDE DEF l, item
<1>4. CASE r.op = "update"
  <2>1. Editor!Edited(c, r) = Editor!Replace(c, r, <<r.item>>)
    BY <1>4 DEF Editor!Edited, Editor!Updated
  <2>2. r.kind \in Kinds /\ <<r.item>> \in Seq(Editor!Entry)
    BY <1>2, <1>4, OpsAre
  <2>3. QED
    BY <1>1, <2>1, <2>2
<1>5. CASE r.op = "rename"
  <2>1. Editor!Edited(c, r) = IF l = Nowhere THEN Editor!Torn
                              ELSE Editor!Replace(c, r, <<[item EXCEPT !.body = r.body]>>)
    BY <1>5 DEF Editor!Edited, Editor!Renamed, l, item, Nowhere
  <2>2. r.kind \in Kinds /\ r.body \in Nat
    BY <1>5, OpsAre
  <2>3. CASE l # Nowhere
    <3>1. [item EXCEPT !.body = r.body] \in Editor!Entry
      BY <1>3, <2>2, <2>3 DEF Editor!Entry
    <3>2. <<[item EXCEPT !.body = r.body]>> \in Seq(Editor!Entry)
      BY <1>2, <3>1
    <3>3. QED
      BY <1>1, <2>1, <2>2, <2>3, <3>2
  <2>4. QED
    BY <2>1, <2>3
<1>6. CASE r.op = "flag"
  <2>1. Editor!Edited(c, r) = IF l = Nowhere THEN Editor!Torn
                              ELSE Editor!Replace(c, r, <<[item EXCEPT !.on = r.on]>>)
    BY <1>6 DEF Editor!Edited, Editor!Flagged, l, item, Nowhere
  <2>2. r.kind \in Kinds /\ r.on \in BOOLEAN
    BY <1>6, OpsAre
  <2>3. CASE l # Nowhere
    <3>1. [item EXCEPT !.on = r.on] \in Editor!Entry
      BY <1>3, <2>2, <2>3 DEF Editor!Entry
    <3>2. <<[item EXCEPT !.on = r.on]>> \in Seq(Editor!Entry)
      BY <1>2, <3>1
    <3>3. QED
      BY <1>1, <2>1, <2>2, <2>3, <3>2
  <2>4. QED
    BY <2>1, <2>3
<1>7. CASE r.op = "delete"
  <2>1. Editor!Edited(c, r) = Editor!Replace(c, r, <<>>)
    BY <1>7 DEF Editor!Edited, Editor!Deleted
  <2>2. r.kind \in Kinds /\ <<>> \in Seq(Editor!Entry)
    BY <1>7, OpsAre
  <2>3. QED
    BY <1>1, <2>1, <2>2
<1>8. CASE r.op = "add"
  <2>1. \/ Editor!Edited(c, r) = Editor!Torn
        \/ Editor!Edited(c, r) = [k \in Editor!Lists |-> c[k] \o r.items[k]]
    BY <1>8 DEF Editor!Edited, Editor!Added
  <2>2. r.items \in Editor!Content
    BY <1>8, OpsAre
  <2>3. ASSUME NEW k \in Editor!Lists PROVE c[k] \o r.items[k] \in Seq(Editor!Entry)
    <3>1. c[k] \in Seq(Editor!Entry) /\ r.items[k] \in Seq(Editor!Entry)
      BY <2>2, ContentIs
    <3>2. QED
      BY <3>1, ConcatProperties
  <2>4. [k \in Editor!Lists |-> c[k] \o r.items[k]] \in Editor!Content
    BY <2>3 DEF Editor!Content
  <2>5. QED
    BY <2>1, <2>4
<1>9. CASE r.op = "gallery"
  <2>1. Editor!Edited(c, r) = [k \in Editor!Lists |-> Editor!AppliedItems(k, c[k], r.items[k], r)]
    BY <1>9 DEF Editor!Edited, Editor!Applied
  <2>2. r.items \in Editor!Content /\ r.chosen \in Seq(Nat) /\ r.resolution \in Resolutions
    BY <1>9, OpsAre
  <2>3. ASSUME NEW k \in Editor!Lists
        PROVE  Editor!AppliedItems(k, c[k], r.items[k], r) \in Seq(Editor!Entry)
    <3>1. c[k] \in Seq(Editor!Entry) /\ r.items[k] \in Seq(Editor!Entry)
      BY <2>2, ContentIs
    <3>2. QED
      BY <2>2, <3>1, AppliedItemsAre
  <2>4. QED
    BY <2>1, <2>3 DEF Editor!Content
<1>10. CASE r.op = "put"
  BY <1>10, OpsAre DEF Editor!Edited
<1>11. QED
  BY <1>4, <1>5, <1>6, <1>7, <1>8, <1>9, <1>10, OpsAre

-----------------------------------------------------------------------------
(* What the bridge is told.                                                *)

\* What runs of a content.
LEMMA EnabledIs ==
  ASSUME NEW c \in Editor!Content
  PROVE  Editor!Enabled(c) = [automation |-> {a \in Editor!Members(c["automation"]) : a.on},
                              scripts    |-> Editor!Members(c["scripts"])]
  BY ContentIs DEF Editor!Enabled

RunOf(c) == [automation |-> {a \in Editor!Members(c["automation"]) : a.on},
             scripts    |-> Editor!Members(c["scripts"])]

Singles == {"update", "rename", "flag", "delete"}

\* An edit of one item, by what it leaves of the list it is in and what comes instead.
Changed(c, new, l, id, items) ==
  /\ \A k \in Editor!Lists \ {l} : new[k] = c[k]
  /\ Editor!Members(new[l]) = {x \in Editor!Members(c[l]) : x.id # id} \cup items

\* The list an edit of one item is about.
About(r, l) == /\ l \in Editor!Lists
               /\ r.kind = "entity" => l \notin {"automation", "scripts"}
               /\ r.kind # "entity" => l = r.kind

\* Which items an edit of one item leaves, takes and puts.
LEMMA ReplacedIn ==
  ASSUME NEW c \in Editor!Content, \A k \in Editor!Lists : Distinct(c[k]),
         NEW r, r.kind \in Kinds, NEW items \in Seq(Editor!Entry),
         NEW new, new = Editor!Replace(c, r, items), new # Editor!Torn
  PROVE  \E l : /\ l = Editor!ListWith(c, r.kind, r.id) /\ l # Nowhere /\ About(r, l)
                /\ Changed(c, new, l, r.id, Editor!Members(items))
<1>1. PICK l : l = Editor!ListWith(c, r.kind, r.id)
  OBVIOUS
<1>2. l # Nowhere
  BY <1>1 DEF Editor!Replace, Nowhere
<1>3. /\ l \in Editor!Lists /\ r.id \in Editor!Ids(c[l])
      /\ \A k \in Editor!Lists \ {l} : new[k] = c[k]
      /\ Editor!Members(new[l]) = Others(c[l], Editor!PlaceOf(c[l], r.id)) \cup Editor!Members(items)
  BY <1>1, ReplaceIs
<1>4. Others(c[l], Editor!PlaceOf(c[l], r.id)) = {x \in Editor!Members(c[l]) : x.id # r.id}
  BY <1>3, ContentIs, OthersAre
<1>5. About(r, l)
  BY <1>1, <1>2, <1>3, ListWithIs DEF About
<1>6. QED
  BY <1>1, <1>2, <1>3, <1>4, <1>5 DEF Changed

\* What an update, a toggle or a deletion tells the bridge is what is in the file now.
LEMMA UpdateTells ==
  ASSUME NEW c, NEW new, NEW r, NEW l, About(r, l), r.kind \in Kinds,
         Changed(c, new, l, r.id, {r.item}), \A k \in Editor!Lists : Distinct(new[k]),
         r.item.on \in BOOLEAN
  PROVE  Editor!TellUpdate(RunOf(c), r) = RunOf(new)
<1>1. \A x \in Editor!Members(new[l]) : x.id = r.item.id => x = r.item
  <2>1. r.item \in Editor!Members(new[l])
    BY DEF Changed
  <2>2. QED
    BY <2>1, SameId DEF About
<1>2. CASE r.kind = "automation"
  <2>1. l = "automation" /\ new["scripts"] = c["scripts"]
    BY <1>2, ListsAre DEF About, Changed
  <2>2. RunOf(new).scripts = RunOf(c).scripts
    BY <2>1 DEF RunOf
  <2> DEFINE rest == {x \in RunOf(c).automation : x.id # r.id}
             left == {x \in rest : x.id # r.item.id}
  <2>3. \A x : x \in RunOf(c).automation <=> x \in Editor!Members(c["automation"]) /\ x.on
    BY DEF RunOf
  <2>4. \A x : x \in RunOf(new).automation <=> x \in Editor!Members(new["automation"]) /\ x.on
    BY DEF RunOf
  <2>5. \A x : x \in Editor!Members(new["automation"]) <=>
                 (x \in Editor!Members(c["automation"]) /\ x.id # r.id) \/ x = r.item
    BY <2>1 DEF Changed
  <2>6. CASE r.item.on
    <3>1. RunOf(new).automation = left \cup {r.item}
      BY <1>1, <2>1, <2>3, <2>4, <2>5, <2>6
    <3>2. Editor!TellUpdate(RunOf(c), r) = [RunOf(c) EXCEPT !.automation = left \cup {r.item}]
      BY <1>2, <2>6 DEF Editor!TellUpdate, Editor!Upserted, Editor!Without
    <3>3. QED
      BY <2>2, <3>1, <3>2 DEF RunOf
  <2>7. CASE ~r.item.on
    <3>1. RunOf(new).automation = left
      BY <1>1, <2>1, <2>3, <2>4, <2>5, <2>7
    <3>2. Editor!TellUpdate(RunOf(c), r) = [RunOf(c) EXCEPT !.automation = left]
      BY <1>2, <2>7 DEF Editor!TellUpdate, Editor!Without
    <3>3. QED
      BY <2>2, <3>1, <3>2 DEF RunOf
  <2>8. QED
    BY <2>6, <2>7
<1>3. CASE r.kind = "scripts"
  <2>1. l = "scripts" /\ new["automation"] = c["automation"]
    BY <1>3, ListsAre DEF About, Changed
  <2> DEFINE rest == {x \in RunOf(c).scripts : x.id # r.id}
             left == {x \in rest : x.id # r.item.id}
  <2>2. RunOf(new).scripts = left \cup {r.item}
    <3>1. \A x : x \in RunOf(c).scripts <=> x \in Editor!Members(c["scripts"])
      BY DEF RunOf
    <3>2. \A x : x \in RunOf(new).scripts <=> x \in Editor!Members(new["scripts"])
      BY DEF RunOf
    <3>3. \A x : x \in Editor!Members(new["scripts"]) <=>
                   (x \in Editor!Members(c["scripts"]) /\ x.id # r.id) \/ x = r.item
      BY <2>1 DEF Changed
    <3>4. QED
      BY <1>1, <2>1, <3>1, <3>2, <3>3
  <2>3. Editor!TellUpdate(RunOf(c), r) = [RunOf(c) EXCEPT !.scripts = left \cup {r.item}]
    BY <1>3 DEF Editor!TellUpdate, Editor!Upserted, Editor!Without
  <2>4. QED
    BY <2>1, <2>2, <2>3 DEF RunOf
<1>4. CASE r.kind = "entity"
  <2>1. new["automation"] = c["automation"] /\ new["scripts"] = c["scripts"]
    BY <1>4, ListsAre DEF About, Changed
  <2>2. Editor!TellUpdate(RunOf(c), r) = RunOf(c)
    BY <1>4 DEF Editor!TellUpdate
  <2>3. QED
    BY <2>1, <2>2 DEF RunOf
<1>5. QED
  BY <1>2, <1>3, <1>4 DEF Kinds

\* A deletion is told to what runs, ...
LEMMA DeleteTells ==
  ASSUME NEW c, NEW new, NEW r, NEW l, About(r, l), r.kind \in Kinds, Changed(c, new, l, r.id, {})
  PROVE  Editor!TellDelete(RunOf(c), r) = RunOf(new)
<1>1. CASE r.kind = "automation"
  <2>1. l = "automation" /\ new["scripts"] = c["scripts"]
    BY <1>1, ListsAre DEF About, Changed
  <2>2. RunOf(new).automation = {x \in RunOf(c).automation : x.id # r.id}
    <3>1. \A x : x \in Editor!Members(new["automation"]) <=>
                   x \in Editor!Members(c["automation"]) /\ x.id # r.id
      BY <2>1 DEF Changed
    <3>2. QED
      BY <3>1 DEF RunOf
  <2>3. Editor!TellDelete(RunOf(c), r)
          = [RunOf(c) EXCEPT !.automation = {x \in RunOf(c).automation : x.id # r.id}]
    BY <1>1 DEF Editor!TellDelete, Editor!Without
  <2>4. QED
    BY <2>1, <2>2, <2>3 DEF RunOf
<1>2. CASE r.kind = "scripts"
  <2>1. l = "scripts" /\ new["automation"] = c["automation"]
    BY <1>2, ListsAre DEF About, Changed
  <2>2. RunOf(new).scripts = {x \in RunOf(c).scripts : x.id # r.id}
    BY <2>1 DEF Changed, RunOf
  <2>3. Editor!TellDelete(RunOf(c), r)
          = [RunOf(c) EXCEPT !.scripts = {x \in RunOf(c).scripts : x.id # r.id}]
    BY <1>2 DEF Editor!TellDelete, Editor!Without
  <2>4. QED
    BY <2>1, <2>2, <2>3 DEF RunOf
<1>3. CASE r.kind = "entity"
  <2>1. new["automation"] = c["automation"] /\ new["scripts"] = c["scripts"]
    BY <1>3, ListsAre DEF About, Changed
  <2>2. Editor!TellDelete(RunOf(c), r) = RunOf(c)
    BY <1>3 DEF Editor!TellDelete
  <2>3. QED
    BY <2>1, <2>2 DEF RunOf
<1>4. QED
  BY <1>1, <1>2, <1>3 DEF Kinds

\* ... and so is a flag.
LEMMA FlagTells ==
  ASSUME NEW c, NEW new \in Editor!Content, NEW r, NEW l, About(r, l),
         r.kind \in {"entity", "automation"}, r.on \in BOOLEAN,
         NEW x, x.id = r.id, x.on = r.on, Changed(c, new, l, r.id, {x}),
         \A k \in Editor!Lists : Distinct(new[k])
  PROVE  Editor!TellFlag(RunOf(c), r, new) = RunOf(new)
<1>1. CASE r.kind = "automation"
  <2>1. l = "automation" /\ new["scripts"] = c["scripts"] /\ r.kind \in Kinds
    BY <1>1, ListsAre DEF About, Changed, Kinds
  <2>2. \A y : y \in Editor!Members(new["automation"]) <=>
                 (y \in Editor!Members(c["automation"]) /\ y.id # r.id) \/ y = x
    BY <2>1 DEF Changed
  <2>3. RunOf(new).automation = {y \in RunOf(c).automation : y.id # r.id}
                                  \cup (IF r.on THEN {x} ELSE {})
    BY <2>2 DEF RunOf
  <2>4. Editor!Item(new, r) = x
    <3>1. x \in Editor!Members(new["automation"])
      BY <2>2
    <3>2. r.id \in Editor!Ids(new["automation"])
      BY <3>1 DEF Editor!Members, Editor!Ids
    <3>3. PICK k : k = Editor!ListWith(new, r.kind, r.id)
      OBVIOUS
    <3>4. k = "automation" /\ k # Nowhere
      <4>1. r.kind # "entity" /\ r.id \in Editor!Ids(new[r.kind])
        BY <1>1, <3>2
      <4>2. k = r.kind
        BY <2>1, <3>3, <4>1, ListWithIs
      <4>3. "automation" # Nowhere
        BY Zenon DEF Nowhere
      <4>4. QED
        BY <1>1, <4>2, <4>3
    <3>5. /\ Editor!Item(new, r).id = r.id
          /\ Editor!Item(new, r) \in Editor!Members(new["automation"])
      BY <2>1, <3>3, <3>4, ItemIs
    <3>6. QED
      BY <2>1, <3>1, <3>5, SameId DEF About
  <2>5. CASE r.on
    <3>1. Editor!TellFlag(RunOf(c), r, new) =
             [RunOf(c) EXCEPT !.automation = {y \in RunOf(c).automation : y.id # r.id} \cup {x}]
      BY <1>1, <2>4, <2>5 DEF Editor!TellFlag, Editor!Upserted, Editor!Without
    <3>2. QED
      BY <2>1, <2>3, <2>5, <3>1 DEF RunOf
  <2>6. CASE ~r.on
    <3>1. Editor!TellFlag(RunOf(c), r, new) =
             [RunOf(c) EXCEPT !.automation = {y \in RunOf(c).automation : y.id # r.id}]
      BY <1>1, <2>6 DEF Editor!TellFlag, Editor!Without
    <3>2. QED
      BY <2>1, <2>3, <2>6, <3>1 DEF RunOf
  <2>7. QED
    BY <2>5, <2>6
<1>2. CASE r.kind = "entity"
  <2>1. new["automation"] = c["automation"] /\ new["scripts"] = c["scripts"]
    BY <1>2, ListsAre DEF About, Changed
  <2>2. Editor!TellFlag(RunOf(c), r, new) = RunOf(c)
    BY <1>2 DEF Editor!TellFlag
  <2>3. QED
    BY <2>1, <2>2 DEF RunOf
<1>3. QED
  BY <1>1, <1>2

\* An edit that changes what runs tells the bridge; one that adds waits for a restart.
LEMMA ToldIs ==
  ASSUME NEW c \in Editor!Content, \A k \in Editor!Lists : Distinct(c[k]),
         NEW r, Editor!IsRequest(r), r.op \notin {"put", "add", "gallery"},
         NEW new \in Editor!Content, new = Editor!Edited(c, r),
         \A k \in Editor!Lists : Distinct(new[k])
  PROVE  Editor!Told(Editor!Enabled(c), r, new) = Editor!Enabled(new)
<1>1. Editor!Enabled(c) = RunOf(c) /\ Editor!Enabled(new) = RunOf(new)
  BY EnabledIs DEF RunOf
<1>2. r.op \in Singles /\ r.kind \in Kinds /\ new # Editor!Torn
  BY OpsAre, ContentIs DEF Singles
<1>3. \A x : Editor!Members(<<x>>) = {x}
  BY DEF Editor!Members
<1>4. CASE r.op = "update"
  <2>1. r.item \in Editor!Entry /\ new = Editor!Replace(c, r, <<r.item>>)
    BY <1>4, OpsAre DEF Editor!Edited, Editor!Updated
  <2>2. r.item.on \in BOOLEAN /\ <<r.item>> \in Seq(Editor!Entry)
    BY <2>1 DEF Editor!Entry
  <2>3. PICK l : About(r, l) /\ Changed(c, new, l, r.id, Editor!Members(<<r.item>>))
    BY <1>2, <2>1, <2>2, ReplacedIn
  <2>3a. Changed(c, new, l, r.id, {r.item})
    BY <1>3, <2>3
  <2>4. Editor!TellUpdate(RunOf(c), r) = RunOf(new)
    BY <1>2, <2>2, <2>3, <2>3a, UpdateTells
  <2>5. QED
    BY <1>1, <1>4, <2>4 DEF Editor!Told
<1>5. CASE r.op = "delete"
  <2>1. new = Editor!Replace(c, r, <<>>)
    BY <1>5 DEF Editor!Edited, Editor!Deleted
  <2>2. <<>> \in Seq(Editor!Entry) /\ Editor!Members(<<>>) = {}
    BY DEF Editor!Members
  <2>3. PICK l : About(r, l) /\ Changed(c, new, l, r.id, {})
    BY <1>2, <2>1, <2>2, ReplacedIn
  <2>4. Editor!TellDelete(RunOf(c), r) = RunOf(new)
    BY <1>2, <2>3, DeleteTells
  <2>5. QED
    BY <1>1, <1>5, <2>4 DEF Editor!Told
<1>6. CASE r.op \in {"rename", "flag"}
  <2>1. PICK l : l = Editor!ListWith(c, r.kind, r.id)
    OBVIOUS
  <2>2. l # Nowhere
    BY <1>2, <1>6, <2>1 DEF Editor!Edited, Editor!Renamed, Editor!Flagged, Nowhere
  <2>3. PICK item \in Editor!Entry : item = Editor!Item(c, r) /\ item.id = r.id
    BY <1>2, <2>1, <2>2, ItemIs
  <2>4. CASE r.op = "rename"
    <3> DEFINE x == [item EXCEPT !.body = r.body]
    <3>1. new = Editor!Replace(c, r, <<x>>)
      BY <1>2, <2>1, <2>2, <2>3, <2>4 DEF Editor!Edited, Editor!Renamed, Nowhere
    <3>2. x \in Editor!Entry /\ r.kind = "entity"
      BY <2>3, <2>4, OpsAre DEF Editor!Entry
    <3> HIDE DEF x
    <3>3. <<x>> \in Seq(Editor!Entry)
      BY <3>2
    <3>4. PICK k : About(r, k) /\ Changed(c, new, k, r.id, Editor!Members(<<x>>))
      BY <1>2, <3>1, <3>3, ReplacedIn
    <3>5. new["automation"] = c["automation"] /\ new["scripts"] = c["scripts"]
      BY <3>2, <3>4, ListsAre DEF About, Changed
    <3>6. Editor!Told(RunOf(c), r, new) = RunOf(c)
      BY <2>4 DEF Editor!Told
    <3>7. QED
      BY <1>1, <3>5, <3>6 DEF RunOf
  <2>5. CASE r.op = "flag"
    <3> DEFINE x == [item EXCEPT !.on = r.on]
    <3>1. new = Editor!Replace(c, r, <<x>>)
      BY <1>2, <2>1, <2>2, <2>3, <2>5 DEF Editor!Edited, Editor!Flagged, Nowhere
    <3>2. x \in Editor!Entry /\ r.kind \in {"entity", "automation"} /\ r.on \in BOOLEAN
      BY <2>3, <2>5, OpsAre DEF Editor!Entry
    <3>3. x.id = r.id /\ x.on = r.on
      BY <2>3 DEF Editor!Entry
    <3> HIDE DEF x
    <3>4. <<x>> \in Seq(Editor!Entry)
      BY <3>2
    <3>5. PICK k : About(r, k) /\ Changed(c, new, k, r.id, Editor!Members(<<x>>))
      BY <1>2, <3>1, <3>4, ReplacedIn
    <3>6. Editor!TellFlag(RunOf(c), r, new) = RunOf(new)
      BY <1>3, <3>2, <3>3, <3>5, FlagTells
    <3>7. QED
      BY <1>1, <2>5, <3>6 DEF Editor!Told
  <2>6. QED
    BY <1>6, <2>4, <2>5
<1>7. QED
  BY <1>2, <1>4, <1>5, <1>6 DEF Singles

-----------------------------------------------------------------------------
(* Memory, disk and what runs.                                             *)

\* What is known of a request in progress.
EditTyped(e) ==
  /\ e.f \in Editor!FileSet /\ Editor!IsRequest(e.r)
  /\ e.at = "backup" => e.old \in Editor!Content
  /\ e.at \in {"write", "land", "tell"} => e.new \in Editor!Content

ContentsTyped ==
  /\ DOMAIN memory = Editor!FileSet /\ DOMAIN running = Editor!FileSet
  /\ \A f \in Editor!FileSet : disk[f] \in Editor!Content \cup {Editor!Torn}
  /\ \A s \in Slots : edit[s] # Editor!Idle => EditTyped(edit[s])

Quiet(f) == excused[f] \subseteq {"unsaved"}

\* Of a file whose disk is d, whose memory is m, and which runs what.
Agree(d, m, run) ==
  d # Editor!Torn => m = Editor!Normalise(d) /\ run = Editor!Enabled(m)
Clear(m) == m # Editor!Torn => m \in Editor!Content /\ \A l \in Editor!Lists : Distinct(m[l])
GoesOn(e, d, m, run) ==
  e.r.op # "put" =>
     /\ e.at \in {"backup", "write"} => d # Editor!Torn
     /\ e.at = "backup" => e.old = m
     /\ e.at \in {"write", "land", "tell"} =>
           e.new = Editor!Edited(m, e.r) /\ m # Editor!Torn /\ run = Editor!Enabled(m)
     /\ e.at = "tell" => d = e.new /\ Editor!Normalise(e.new) = e.new

\* The file is not being written.
Early(e) == e = Editor!Idle \/ e.at \in {"read", "backup", "write"}

Consistent(f) ==
  Quiet(f) =>
    /\ Editor!Resting(f) => Agree(disk[f], memory[f], running[f])
    /\ Clear(memory[f])
    /\ \A s \in Slots : edit[s] # Editor!Idle /\ edit[s].f = f =>
          GoesOn(edit[s], disk[f], memory[f], running[f])

EditorInv == EditorWhole /\ ContentsTyped /\ \A f \in Editor!FileSet : Consistent(f)

\* What the run checks follows from the invariant, ...
LEMMA EditorInvMeans == EditorInv => EditsAgree
<1> SUFFICES ASSUME EditorInv PROVE Editor!EditsAgree /\ Editor!EditsInTime
  BY DEF EditsAgree
<1>1. \A f \in Editor!FileSet : Consistent(f)
  BY DEF EditorInv
<1>2. Editor!EditsAgree
  BY <1>1 DEF Editor!EditsAgree, Consistent, Quiet, Agree
<1>3. Editor!EditsInTime
  BY <1>1 DEF Editor!EditsInTime, Editor!EditsOf, Consistent, Quiet, GoesOn
<1>4. QED
  BY <1>2, <1>3

\* A file of one edit, before a step of it.
LEMMA OneEdit ==
  ASSUME EditorInv, NEW f \in Editor!FileSet, Quiet(f), NEW s \in Slots,
         edit[s] # Editor!Idle, edit[s].f = f
  PROVE  /\ \A t \in Slots \ {s} : edit[t] = Editor!Idle \/ edit[t].f # f
         /\ Early(edit[s]) => Agree(disk[f], memory[f], running[f])
         /\ Clear(memory[f]) /\ GoesOn(edit[s], disk[f], memory[f], running[f])
         /\ edit[s].at = "land" => disk[f] = Editor!Torn
<1>1. EditorTyped /\ Alone(f)
  BY Unfolded DEF EditorInv, EditorWhole
<1>2. "overlap" \notin excused[f]
  BY DEF Quiet
<1>3. /\ \A t \in Slots \ {s} : edit[t] = Editor!Idle \/ edit[t].f # f
      /\ edit[s].at = "land" => disk[f] = Editor!Torn
  BY <1>1, <1>2 DEF Alone
<1>4. Early(edit[s]) => Editor!Resting(f)
  BY <1>3 DEF Early, Editor!Resting
<1>5. QED
  BY <1>3, <1>4 DEF EditorInv, Consistent

\* A step of one request leaves the other files alone; its own file is judged by
\* this request, when nothing excuses it.
LEMMA OneMoves ==
  ASSUME EditorInv, EditorWhole', ContentsTyped', NEW s \in Slots, NEW f \in Editor!FileSet,
         edit[s] = Editor!Idle \/ edit[s].f = f, edit'[s] = Editor!Idle \/ edit'[s].f = f,
         edit[s] # Editor!Idle \/ edit'[s] # Editor!Idle,
         \A t \in Slots \ {s} : edit'[t] = edit[t],
         \A g \in Editor!FileSet \ {f} : /\ disk'[g] = disk[g] /\ memory'[g] = memory[g]
                                         /\ running'[g] = running[g] /\ excused'[g] = excused[g],
         Quiet(f)' => Quiet(f),
         Quiet(f)' => /\ Early(edit'[s]) => Agree(disk'[f], memory'[f], running'[f])
                      /\ Clear(memory'[f])
                      /\ edit'[s] # Editor!Idle => GoesOn(edit'[s], disk'[f], memory'[f], running'[f])
  PROVE  EditorInv'
<1>1. ASSUME NEW g \in Editor!FileSet \ {f} PROVE Consistent(g)'
  <2>1. Consistent(g)
    BY DEF EditorInv
  <2>2. Quiet(g)' <=> Quiet(g)
    BY DEF Quiet
  <2>3. \A t \in Slots : edit'[t] # Editor!Idle /\ edit'[t].f = g =>
           edit[t] # Editor!Idle /\ edit[t].f = g /\ edit'[t] = edit[t]
    OBVIOUS
  <2>4. \A t \in Slots : edit[t] # Editor!Idle /\ edit[t].f = g =>
           edit'[t] # Editor!Idle /\ edit'[t].f = g /\ edit'[t] = edit[t]
    OBVIOUS
  <2>5. Editor!Resting(g)' => Editor!Resting(g)
    BY <2>4 DEF Editor!Resting
  <2>6. QED
    BY <2>1, <2>2, <2>3, <2>5 DEF Consistent
<1>2. ASSUME Quiet(f)' PROVE Consistent(f)'
  <2>1. \A t \in Slots \ {s} : edit'[t] = Editor!Idle \/ edit'[t].f # f
    <3>1. CASE edit[s] # Editor!Idle
      BY <1>2, <3>1, OneEdit
    <3>2. CASE edit'[s] # Editor!Idle
      <4>1. Alone(f)'
        BY UnfoldedNext DEF EditorWhole
      <4>2. "overlap" \notin excused'[f]
        BY <1>2 DEF Quiet
      <4>3. QED
        BY <3>2, <4>1, <4>2 DEF Alone
    <3>3. QED
      BY <3>1, <3>2
  <2>2. Editor!Resting(f)' => Early(edit'[s])
    BY DEF Editor!Resting, Early
  <2>3. QED
    BY <1>2, <2>1, <2>2 DEF Consistent
<1>3. Consistent(f)'
  BY <1>2 DEF Consistent
<1>4. QED
  BY <1>1, <1>3 DEF EditorInv

\* A request arrives.
LEMMA BeginAgrees ==
  ASSUME EditorInv, NEW s \in Slots, NEW r \in Edits, Editor!Begin(s, r) PROVE EditorInv'
<1>1. EditorTyped /\ ContentsTyped /\ EditorWhole'
  BY BeginKeeps DEF EditorInv, EditorWhole
<1>2. PICK f : f = Editor!FileOf(r)
  OBVIOUS
<1>3. PICK why : /\ edit[s] = Editor!Idle /\ f \in Editor!FileSet
                 /\ edit' = [edit EXCEPT ![s] = [at |-> "read", r |-> r, f |-> f]]
                 /\ excused' = [excused EXCEPT ![f] = @ \cup why]
                 /\ UNCHANGED <<disk, memory, running>>
                 /\ why = IF \E t \in Slots \ {s} : edit[t] # Editor!Idle /\ edit[t].f = f
                          THEN {"overlap"} ELSE {}
  BY <1>2 DEF Editor!Begin, Editor!Excuse
<1>4. PICK e : e = [at |-> "read", r |-> r, f |-> f]
  OBVIOUS
<1>5. edit'[s] = e /\ e.at = "read" /\ e.f = f /\ e.r = r /\ e # Editor!Idle
      /\ \A t \in Slots \ {s} : edit'[t] = edit[t]
  BY <1>1, <1>3, <1>4 DEF EditorTyped, Editor!Idle
<1>6. EditTyped(e)
  BY <1>3, <1>5, EditsAssumption DEF EditTyped
<1>7. ContentsTyped'
  BY <1>1, <1>3, <1>5, <1>6 DEF ContentsTyped
<1>8. /\ \A g \in Editor!FileSet \ {f} : excused'[g] = excused[g]
      /\ excused'[f] = excused[f] \cup why
  BY <1>1, <1>3 DEF EditorTyped
<1>9. Quiet(f)' => Quiet(f)
  BY <1>8 DEF Quiet
<1>10. ASSUME Quiet(f)' PROVE Agree(disk[f], memory[f], running[f]) /\ Clear(memory[f])
  <2>1. \A t \in Slots : edit[t] = Editor!Idle \/ edit[t].f # f
    BY <1>3, <1>8, <1>10 DEF Quiet
  <2>2. Editor!Resting(f)
    BY <2>1 DEF Editor!Resting
  <2>3. QED
    BY <1>3, <1>9, <1>10, <2>2 DEF EditorInv, Consistent
<1>11. GoesOn(e, disk[f], memory[f], running[f])
  BY <1>5 DEF GoesOn
<1>12. QED
  BY <1>1, <1>3, <1>5, <1>7, <1>8, <1>9, <1>10, <1>11, OneMoves

\* A request ends early: nothing has changed.
LEMMA LeaveAgrees ==
  ASSUME EditorInv, EditorWhole', NEW s \in Slots, edit[s] # Editor!Idle,
         Early(edit[s]) \/ edit[s].at = "land",
         edit' = [edit EXCEPT ![s] = Editor!Idle], UNCHANGED <<disk, memory, running, excused>>
  PROVE  EditorInv'
<1>1. EditorTyped /\ ContentsTyped
  BY DEF EditorInv, EditorWhole
<1>2. edit'[s] = Editor!Idle /\ \A t \in Slots \ {s} : edit'[t] = edit[t]
  BY <1>1 DEF EditorTyped
<1>3. ContentsTyped'
  BY <1>1, <1>2 DEF ContentsTyped
<1>4. PICK f \in Editor!FileSet : edit[s].f = f
  BY <1>1 DEF ContentsTyped, EditTyped
<1>5. ASSUME Quiet(f)
      PROVE  Agree(disk[f], memory[f], running[f]) /\ Clear(memory[f])
  <2>1. /\ Early(edit[s]) => Agree(disk[f], memory[f], running[f])
        /\ Clear(memory[f])
        /\ edit[s].at = "land" => disk[f] = Editor!Torn
    BY <1>4, <1>5, OneEdit
  <2>2. CASE Early(edit[s])
    BY <2>1, <2>2
  <2>3. CASE edit[s].at = "land"
    BY <2>1, <2>3 DEF Agree
  <2>4. QED
    BY <2>2, <2>3
<1>6. Quiet(f)' <=> Quiet(f)
  BY DEF Quiet
<1>7. QED
  BY <1>2, <1>3, <1>4, <1>5, <1>6, OneMoves

\* A request goes on, before its file is written.
LEMMA EarlyAgrees ==
  ASSUME EditorInv, EditorWhole', NEW s \in Slots, edit[s] # Editor!Idle, Early(edit[s]),
         NEW e, EditTyped(e), Early(e), e # Editor!Idle, e.f = edit[s].f,
         edit' = [edit EXCEPT ![s] = e], UNCHANGED <<disk, memory, running>>,
         \A g \in Editor!FileSet : /\ excused[g] \subseteq excused'[g]
                                   /\ g # e.f => excused'[g] = excused[g],
         Quiet(e.f) /\ Agree(disk[e.f], memory[e.f], running[e.f]) => GoesOn(e, disk[e.f], memory[e.f], running[e.f])
  PROVE  EditorInv'
<1>1. EditorTyped /\ ContentsTyped
  BY DEF EditorInv, EditorWhole
<1>2. edit'[s] = e /\ \A t \in Slots \ {s} : edit'[t] = edit[t]
  BY <1>1 DEF EditorTyped
<1>3. ContentsTyped'
  BY <1>1, <1>2 DEF ContentsTyped
<1>4. PICK f \in Editor!FileSet : f = e.f
  BY DEF EditTyped
<1>5. /\ excused[f] \subseteq excused'[f]
      /\ \A g \in Editor!FileSet \ {f} : excused'[g] = excused[g]
  BY <1>4
<1>6. Quiet(f)' => Quiet(f)
  BY <1>5 DEF Quiet
<1>7. ASSUME Quiet(f)
      PROVE  /\ Agree(disk[f], memory[f], running[f]) /\ Clear(memory[f])
             /\ GoesOn(e, disk[f], memory[f], running[f])
  <2>1. Agree(disk[f], memory[f], running[f]) /\ Clear(memory[f])
    BY <1>4, <1>7, OneEdit
  <2>2. QED
    BY <1>4, <1>7, <2>1
<1>8. QED
  BY <1>2, <1>3, <1>4, <1>5, <1>6, <1>7, OneMoves

\* Reading, or saving a backup, fails: the editor of whole files goes on.
LEMMA FailAgrees ==
  ASSUME EditorInv, EditorWhole', NEW s \in Slots, edit[s].at \in {"read", "backup"},
         Editor!Fail(s), UNCHANGED <<disk, memory, running>>
  PROVE  EditorInv'
<1>1. Early(edit[s]) /\ edit[s] # Editor!Idle
  BY DEF Early, Editor!Idle
<1>2. EditTyped(edit[s])
  BY <1>1 DEF EditorInv, ContentsTyped
<1>3. CASE edit[s].r.op = "put"
  <2>1. PICK e : e = [at |-> "write", r |-> edit[s].r, f |-> edit[s].f, new |-> edit[s].r.content]
    OBVIOUS
  <2>2. PICK why : why = {"unsaved"}
    OBVIOUS
  <2>3. edit' = [edit EXCEPT ![s] = e] /\ excused' = [excused EXCEPT ![edit[s].f] = @ \cup why]
    BY <1>3, <2>1, <2>2 DEF Editor!Fail, Editor!Go, Editor!Excuse
  <2>4. e.at = "write" /\ e.r = edit[s].r /\ e.f = edit[s].f /\ e.new = e.r.content
        /\ e # Editor!Idle
    BY <2>1 DEF Editor!Idle
  <2>5. EditTyped(e)
    <3>1. e.f \in Editor!FileSet /\ Editor!IsRequest(e.r)
      BY <1>2, <2>4 DEF EditTyped
    <3>2. e.new \in Editor!Content
      BY <1>3, <2>4, <3>1, OpsAre
    <3>3. QED
      BY <2>4, <3>1, <3>2 DEF EditTyped
  <2>6. Early(e)
    BY <2>4 DEF Early
  <2>7. GoesOn(e, disk[e.f], memory[e.f], running[e.f])
    BY <1>3, <2>4 DEF GoesOn
  <2>8. \A g \in Editor!FileSet : /\ excused[g] \subseteq excused'[g]
                                  /\ g # e.f => excused'[g] = excused[g]
    BY <2>3, <2>4, <2>5 DEF EditorInv, EditorWhole, EditorTyped, EditTyped
  <2>9. QED
    BY <1>1, <2>3, <2>4, <2>5, <2>6, <2>7, <2>8, EarlyAgrees
<1>4. CASE edit[s].r.op # "put"
  <2>1. edit' = [edit EXCEPT ![s] = Editor!Idle] /\ UNCHANGED excused
    BY <1>4 DEF Editor!Fail, Editor!Leave
  <2>2. QED
    BY <1>1, <2>1, LeaveAgrees
<1>5. QED
  BY <1>3, <1>4

\* What is read is what the memory holds, once its ids are repaired.
LEMMA ReadAgrees ==
  ASSUME EditorInv, NEW s \in Slots, Editor!Read(s) PROVE EditorInv'
<1>1. edit[s].at = "read" /\ UNCHANGED <<disk, memory, running>> /\ EditorWhole'
  BY ReadKeeps DEF EditorInv, Editor!Read
<1>2. CASE Editor!Fail(s)
  BY <1>1, <1>2, FailAgrees
<1>3. CASE ~Editor!Fail(s)
  <2> DEFINE content == IF edit[s].r.op = "put" THEN disk[edit[s].f]
                        ELSE Editor!Loaded(disk[edit[s].f])
  <2>1. PICK e : e = [at |-> "backup", r |-> edit[s].r, f |-> edit[s].f, old |-> content]
    OBVIOUS
  <2>2. /\ content # Editor!Torn /\ excused' = excused
        /\ \/ edit' = [edit EXCEPT ![s] = Editor!Idle]
           \/ edit' = [edit EXCEPT ![s] = e]
    BY <1>3, <2>1 DEF Editor!Read, Editor!Leave, Editor!Go
  <2>3. /\ e.at = "backup" /\ e.r = edit[s].r /\ e.f = edit[s].f /\ e.old = content
        /\ e # Editor!Idle
    BY <2>1 DEF Editor!Idle
  <2>4. Early(edit[s]) /\ edit[s] # Editor!Idle
    BY <1>1 DEF Early, Editor!Idle
  <2>5. EditorTyped /\ EditTyped(edit[s])
        /\ \A f \in Editor!FileSet : disk[f] \in Editor!Content \cup {Editor!Torn}
    BY <2>4 DEF EditorInv, EditorWhole, ContentsTyped
  <2>6. e.f \in Editor!FileSet /\ Editor!IsRequest(e.r)
    BY <2>3, <2>5 DEF EditTyped
  <2>7. /\ content \in Editor!Content /\ disk[e.f] # Editor!Torn
        /\ e.r.op # "put" => content = Editor!Normalise(disk[e.f])
    <3>1. CASE e.r.op = "put"
      BY <2>2, <2>3, <2>5, <2>6, <3>1
    <3>2. CASE e.r.op # "put"
      <4>1. content = Editor!Loaded(disk[e.f])
        BY <2>3, <3>2
      <4>2. disk[e.f] # Editor!Torn /\ content = Editor!Normalise(disk[e.f])
        BY <2>2, <4>1 DEF Editor!Loaded
      <4>3. disk[e.f] \in Editor!Content
        BY <2>5, <2>6, <4>2
      <4>4. QED
        BY <3>2, <4>2, <4>3, NormaliseIs
    <3>3. QED
      BY <3>1, <3>2
  <2> HIDE DEF content
  <2>8. CASE edit' = [edit EXCEPT ![s] = Editor!Idle]
    BY <1>1, <2>2, <2>4, <2>8, LeaveAgrees
  <2>9. CASE edit' = [edit EXCEPT ![s] = e]
    <3>1. EditTyped(e)
      BY <2>3, <2>6, <2>7 DEF EditTyped
    <3>2. Early(e)
      BY <2>3 DEF Early
    <3>3. ASSUME Agree(disk[e.f], memory[e.f], running[e.f])
          PROVE  GoesOn(e, disk[e.f], memory[e.f], running[e.f])
      BY <2>3, <2>7, <3>3 DEF Agree, GoesOn
    <3>4. QED
      BY <1>1, <2>2, <2>3, <2>4, <2>9, <3>1, <3>2, <3>3, EarlyAgrees
  <2>10. QED
    BY <2>2, <2>8, <2>9
<1>4. QED
  BY <1>2, <1>3

\* What the edit makes is made of what the memory holds.
LEMMA BackupAgrees ==
  ASSUME EditorInv, NEW s \in Slots, Editor!Backup(s) PROVE EditorInv'
<1>1. edit[s].at = "backup" /\ UNCHANGED <<disk, memory, running>> /\ EditorWhole'
  BY BackupKeeps DEF EditorInv, Editor!Backup
<1>2. CASE Editor!Fail(s)
  BY <1>1, <1>2, FailAgrees
<1>3. CASE ~Editor!Fail(s)
  <2>1. PICK new : new = Editor!Edited(edit[s].old, edit[s].r)
    OBVIOUS
  <2>2. PICK e : e = [at |-> "write", r |-> edit[s].r, f |-> edit[s].f, new |-> new]
    OBVIOUS
  <2>3. /\ excused' = excused
        /\ \/ edit' = [edit EXCEPT ![s] = Editor!Idle]
           \/ new # Editor!Torn /\ edit' = [edit EXCEPT ![s] = e]
    BY <1>3, <2>1, <2>2 DEF Editor!Backup, Editor!Leave, Editor!Go
  <2>4. /\ e.at = "write" /\ e.r = edit[s].r /\ e.f = edit[s].f /\ e.new = new
        /\ e # Editor!Idle
    BY <2>2 DEF Editor!Idle
  <2>5. Early(edit[s]) /\ edit[s] # Editor!Idle
    BY <1>1 DEF Early, Editor!Idle
  <2>6. EditorTyped /\ EditTyped(edit[s])
    BY <2>5 DEF EditorInv, EditorWhole, ContentsTyped
  <2>7. e.f \in Editor!FileSet /\ Editor!IsRequest(e.r) /\ edit[s].old \in Editor!Content
    BY <1>1, <2>4, <2>6 DEF EditTyped
  <2>8. CASE edit' = [edit EXCEPT ![s] = Editor!Idle]
    BY <1>1, <2>3, <2>5, <2>8, LeaveAgrees
  <2>9. CASE new # Editor!Torn /\ edit' = [edit EXCEPT ![s] = e]
    <3>1. new \in Editor!Content
      <4>1. Editor!Edited(edit[s].old, e.r) \in Editor!Content \cup {Editor!Torn}
        BY <2>7, EditedIs
      <4>2. QED
        BY <2>1, <2>4, <2>9, <4>1
    <3>2. EditTyped(e) /\ Early(e)
      BY <2>4, <2>7, <3>1 DEF EditTyped, Early
    <3>3. ASSUME Quiet(e.f), Agree(disk[e.f], memory[e.f], running[e.f])
          PROVE  GoesOn(e, disk[e.f], memory[e.f], running[e.f])
      <4>1. GoesOn(edit[s], disk[e.f], memory[e.f], running[e.f])
        BY <2>4, <2>5, <2>7, <3>3, OneEdit
      <4>2. SUFFICES ASSUME e.r.op # "put" PROVE GoesOn(e, disk[e.f], memory[e.f], running[e.f])
        BY DEF GoesOn
      <4>3. disk[e.f] # Editor!Torn /\ edit[s].old = memory[e.f]
        BY <1>1, <2>4, <4>1, <4>2 DEF GoesOn
      <4>4. running[e.f] = Editor!Enabled(memory[e.f])
        BY <3>3, <4>3 DEF Agree
      <4>5. memory[e.f] # Editor!Torn
        BY <2>7, <4>3, ContentIs
      <4>6. new = Editor!Edited(memory[e.f], e.r)
        BY <2>1, <2>4, <4>3
      <4>7. QED
        BY <2>4, <4>3, <4>4, <4>5, <4>6 DEF GoesOn
    <3>4. QED
      BY <1>1, <2>3, <2>4, <2>5, <2>9, <3>2, <3>3, EarlyAgrees
  <2>10. QED
    BY <2>3, <2>8, <2>9
<1>4. QED
  BY <1>2, <1>3

\* While the file is empty, the edit of it still knows what the memory holds.
LEMMA OpenAgrees ==
  ASSUME EditorInv, NEW s \in Slots, Editor!Open(s) PROVE EditorInv'
<1>1. /\ edit[s].at = "write" /\ UNCHANGED <<memory, running, excused>> /\ EditorWhole'
      /\ edit[s] # Editor!Idle
  BY OpenKeeps DEF EditorInv, Editor!Open, Editor!Idle
<1>2. CASE edit' = [edit EXCEPT ![s] = Editor!Idle] /\ UNCHANGED disk
  BY <1>1, <1>2, LeaveAgrees DEF Early
<1>3. CASE /\ disk' = [disk EXCEPT ![edit[s].f] = Editor!Torn]
           /\ edit' = [edit EXCEPT ![s].at = "land"]
  <2>1. EditorTyped /\ ContentsTyped /\ EditTyped(edit[s])
    BY <1>1 DEF EditorInv, EditorWhole, ContentsTyped
  <2>2. PICK f \in Editor!FileSet : f = edit[s].f
    BY <2>1 DEF EditTyped
  <2>3. PICK e : e = edit'[s]
    OBVIOUS
  <2>4. e = [at |-> "land", r |-> edit[s].r, f |-> f, new |-> edit[s].new]
    BY <1>1, <1>3, <2>1, <2>2, <2>3, RecordSteps DEF EditorTyped, KnownAt, Editor!Idle
  <2>5. /\ e.at = "land" /\ e.r = edit[s].r /\ e.f = f /\ e.new = edit[s].new
        /\ e # Editor!Idle /\ \A t \in Slots \ {s} : edit'[t] = edit[t]
    BY <1>3, <2>1, <2>4 DEF Editor!Idle, EditorTyped
  <2>6. disk'[f] = Editor!Torn /\ \A g \in Editor!FileSet \ {f} : disk'[g] = disk[g]
    BY <1>3, <2>1, <2>2 DEF EditorTyped
  <2>7. EditTyped(e)
    BY <1>1, <2>1, <2>2, <2>5 DEF EditTyped
  <2>8. ContentsTyped'
    <3>1. \A g \in Editor!FileSet : disk'[g] \in Editor!Content \cup {Editor!Torn}
      BY <2>1, <2>6 DEF ContentsTyped
    <3>2. \A t \in Slots : edit'[t] # Editor!Idle => EditTyped(edit'[t])
      BY <2>1, <2>3, <2>5, <2>7 DEF ContentsTyped
    <3>3. QED
      BY <1>1, <2>1, <3>1, <3>2 DEF ContentsTyped
  <2>9. Quiet(f)' <=> Quiet(f)
    BY <1>1 DEF Quiet
  <2>10. ASSUME Quiet(f)
         PROVE  /\ Agree(disk'[f], memory[f], running[f]) /\ Clear(memory[f])
                /\ GoesOn(e, disk'[f], memory[f], running[f])
    <3>1. Clear(memory[f]) /\ GoesOn(edit[s], disk[f], memory[f], running[f])
      BY <1>1, <2>2, <2>10, OneEdit
    <3>2. GoesOn(e, disk'[f], memory[f], running[f])
      BY <1>1, <2>5, <3>1 DEF GoesOn
    <3>3. QED
      BY <2>6, <3>1, <3>2 DEF Agree
  <2>11. QED
    BY <1>1, <2>2, <2>3, <2>5, <2>6, <2>8, <2>9, <2>10, OneMoves
<1>4. QED
  BY <1>2, <1>3 DEF Editor!Open, Editor!Leave

\* What is written is what the edit made, with an id of its own for every item, or the
\* file is excused.
LEMMA LandAgrees ==
  ASSUME EditorInv, NEW s \in Slots, Editor!Land(s) PROVE EditorInv'
<1>0. edit[s].at = "land" /\ UNCHANGED <<memory, running>>
  BY DEF Editor!Land
<1>1. /\ edit[s].at = "land" /\ UNCHANGED <<memory, running>> /\ EditorWhole'
      /\ edit[s] # Editor!Idle
  BY <1>0, LandKeeps DEF EditorInv, Editor!Idle
<1>2. CASE edit' = [edit EXCEPT ![s] = Editor!Idle] /\ UNCHANGED <<disk, last, excused>>
  BY <1>1, <1>2, LeaveAgrees
<1>3. CASE ~(edit' = [edit EXCEPT ![s] = Editor!Idle] /\ UNCHANGED <<disk, last, excused>>)
  <2>1. EditorTyped /\ ContentsTyped /\ EditTyped(edit[s])
    BY <1>1 DEF EditorInv, EditorWhole, ContentsTyped
  <2>2. PICK f \in Editor!FileSet : f = edit[s].f
    BY <2>1 DEF EditTyped
  <2>3. PICK new \in Editor!Content : new = edit[s].new
    BY <1>1, <2>1 DEF EditTyped
  <2>4. PICK content \in {new} \cup (IF disk[f] = Editor!Torn THEN {} ELSE {Editor!Torn}) :
          /\ disk' = [disk EXCEPT ![f] = content]
          /\ excused' = [excused EXCEPT ![f] = (@ \ {"unsaved"}) \cup
                (IF Editor!Normalise(new) = new THEN {} ELSE {"ambiguous"})]
          /\ edit' = [edit EXCEPT ![s].at = "tell"]
    BY <1>3, <2>2, <2>3 DEF Editor!Land, Editor!Leave
  <2>5. PICK e : e = edit'[s]
    OBVIOUS
  <2>6. e = [at |-> "tell", r |-> edit[s].r, f |-> f, new |-> new]
    BY <1>1, <2>1, <2>2, <2>3, <2>4, <2>5, RecordSteps DEF EditorTyped, KnownAt, Editor!Idle
  <2>7. /\ e.at = "tell" /\ e.r = edit[s].r /\ e.f = f /\ e.new = new
        /\ e # Editor!Idle /\ ~Early(e) /\ \A t \in Slots \ {s} : edit'[t] = edit[t]
    BY <2>1, <2>4, <2>6 DEF Editor!Idle, EditorTyped, Early
  <2>8. /\ disk'[f] = content
        /\ \A g \in Editor!FileSet \ {f} : disk'[g] = disk[g] /\ excused'[g] = excused[g]
        /\ excused'[f] = (excused[f] \ {"unsaved"}) \cup
                         (IF Editor!Normalise(new) = new THEN {} ELSE {"ambiguous"})
    BY <2>1, <2>4 DEF EditorTyped
  <2>9. EditTyped(e)
    BY <2>1, <2>2, <2>3, <2>7 DEF EditTyped
  <2>10. ContentsTyped'
    <3>1. content \in Editor!Content \cup {Editor!Torn}
      BY <2>4
    <3>2. \A g \in Editor!FileSet : disk'[g] \in Editor!Content \cup {Editor!Torn}
      BY <2>1, <2>8, <3>1 DEF ContentsTyped
    <3>3. \A t \in Slots : edit'[t] # Editor!Idle => EditTyped(edit'[t])
      BY <2>1, <2>5, <2>7, <2>9 DEF ContentsTyped
    <3>4. QED
      BY <1>1, <2>1, <3>2, <3>3 DEF ContentsTyped
  <2>11. Quiet(f)' => Quiet(f) /\ Editor!Normalise(new) = new
    BY <2>8 DEF Quiet
  <2>12. ASSUME Quiet(f)'
         PROVE  Clear(memory[f]) /\ GoesOn(e, disk'[f], memory[f], running[f])
    <3>1. /\ Clear(memory[f]) /\ GoesOn(edit[s], disk[f], memory[f], running[f])
          /\ disk[f] = Editor!Torn
      BY <1>1, <2>2, <2>11, <2>12, OneEdit
    <3>2. disk'[f] = new
      BY <2>4, <2>8, <3>1
    <3>3. GoesOn(e, disk'[f], memory[f], running[f])
      BY <1>1, <2>3, <2>7, <2>11, <2>12, <3>1, <3>2 DEF GoesOn
    <3>4. QED
      BY <3>1, <3>3
  <2>13. QED
    BY <1>1, <2>2, <2>5, <2>7, <2>8, <2>10, <2>11, <2>12, OneMoves
<1>4. QED
  BY <1>2, <1>3

\* The service is told what the file now holds.
LEMMA FinishAgrees ==
  ASSUME EditorInv, NEW s \in Slots, Editor!Finish(s) PROVE EditorInv'
<1>0. /\ edit[s].at = "tell" /\ UNCHANGED disk /\ Editor!Leave(s)
  BY DEF Editor!Finish
<1>1. /\ edit[s].at = "tell" /\ UNCHANGED disk /\ EditorWhole' /\ edit[s] # Editor!Idle
      /\ edit' = [edit EXCEPT ![s] = Editor!Idle]
  <2>1. EditorWhole' /\ edit[s] # Editor!Idle
    BY <1>0, FinishKeeps DEF EditorInv, Editor!Idle
  <2>2. QED
    BY <1>0, <2>1 DEF Editor!Leave
<1>2. EditorTyped /\ ContentsTyped /\ EditTyped(edit[s])
  BY <1>1 DEF EditorInv, EditorWhole, ContentsTyped
<1>3. PICK f \in Editor!FileSet : f = edit[s].f
  BY <1>2 DEF EditTyped
<1>4a. PICK new \in Editor!Content : new = edit[s].new
  BY <1>1, <1>2 DEF EditTyped
<1>4b. PICK r : r = edit[s].r
  OBVIOUS
<1>4. r = edit[s].r /\ new = edit[s].new /\ Editor!IsRequest(r)
  BY <1>2, <1>4a, <1>4b DEF EditTyped
<1>5. PICK why : /\ excused' = [excused EXCEPT ![f] = @ \cup why]
                 /\ why = IF r.op \in {"put", "add", "gallery"} THEN {"restart"} ELSE {}
  BY <1>3, <1>4 DEF Editor!Finish, Editor!Excuse
<1>6. /\ DOMAIN memory' = Editor!FileSet /\ DOMAIN running' = Editor!FileSet
      /\ \A g \in Editor!FileSet \ {f} : memory'[g] = memory[g] /\ running'[g] = running[g]
      /\ r.op # "put" => memory'[f] = new /\ running'[f] = Editor!Told(running[f], r, new)
  BY <1>2, <1>3, <1>4 DEF Editor!Finish, ContentsTyped
<1>7. edit'[s] = Editor!Idle /\ \A t \in Slots \ {s} : edit'[t] = edit[t]
  BY <1>1, <1>2 DEF EditorTyped
<1>8. ContentsTyped'
  BY <1>1, <1>2, <1>6, <1>7 DEF ContentsTyped
<1>9. /\ excused'[f] = excused[f] \cup why
      /\ \A g \in Editor!FileSet \ {f} : excused'[g] = excused[g]
  BY <1>2, <1>5 DEF EditorTyped
<1>10. Quiet(f)' => Quiet(f) /\ r.op \notin {"put", "add", "gallery"}
  BY <1>5, <1>9 DEF Quiet
<1>11. ASSUME Quiet(f)'
       PROVE  Agree(disk[f], memory'[f], running'[f]) /\ Clear(memory'[f])
  <2>1. Clear(memory[f]) /\ GoesOn(edit[s], disk[f], memory[f], running[f])
    BY <1>1, <1>3, <1>10, <1>11, OneEdit
  <2>2. /\ new = Editor!Edited(memory[f], r) /\ memory[f] # Editor!Torn
        /\ running[f] = Editor!Enabled(memory[f])
        /\ disk[f] = new /\ Editor!Normalise(new) = new
    BY <1>1, <1>4, <1>10, <1>11, <2>1 DEF GoesOn
  <2>3. memory[f] \in Editor!Content /\ \A l \in Editor!Lists : Distinct(memory[f][l])
    BY <2>1, <2>2 DEF Clear
  <2>4. \A l \in Editor!Lists : Distinct(new[l])
    <3>1. \A l \in Editor!Lists : Distinct(Editor!Normalise(new)[l])
      BY NormaliseIs
    <3>2. QED
      BY <2>2, <3>1
  <2>5. Editor!Told(Editor!Enabled(memory[f]), r, new) = Editor!Enabled(new)
    BY <1>4, <1>10, <1>11, <2>2, <2>3, <2>4, ToldIs
  <2>6. memory'[f] = new /\ running'[f] = Editor!Enabled(new)
    BY <1>6, <1>10, <1>11, <2>2, <2>5
  <2>7. QED
    BY <2>2, <2>4, <2>6 DEF Agree, Clear
<1>12. QED
  BY <1>1, <1>3, <1>6, <1>7, <1>8, <1>9, <1>10, <1>11, OneMoves

\* A restart reads every file again.
LEMMA RestartAgrees == ASSUME EditorInv, Editor!Restart PROVE EditorInv'
<1>1. /\ memory' = [f \in Editor!FileSet |-> Editor!Loaded(disk[f])]
      /\ running' = [f \in Editor!FileSet |-> Editor!Enabled(Editor!Loaded(disk[f]))]
      /\ edit' = [s \in Slots |-> Editor!Idle] /\ UNCHANGED disk
  BY DEF Editor!Restart
<1>2. EditorWhole' /\ ContentsTyped
  BY RestartKeeps DEF EditorInv
<1>3. ContentsTyped'
  BY <1>1, <1>2 DEF ContentsTyped
<1>4. ASSUME NEW f \in Editor!FileSet PROVE Consistent(f)'
  <2>1. memory'[f] = Editor!Loaded(disk[f]) /\ running'[f] = Editor!Enabled(memory'[f])
    BY <1>1
  <2>2. Agree(disk'[f], memory'[f], running'[f])
    BY <1>1, <2>1 DEF Agree, Editor!Loaded
  <2>3. Clear(memory'[f])
    <3>1. CASE disk[f] = Editor!Torn
      BY <2>1, <3>1 DEF Clear, Editor!Loaded
    <3>2. CASE disk[f] # Editor!Torn
      <4>1. disk[f] \in Editor!Content /\ memory'[f] = Editor!Normalise(disk[f])
        BY <1>2, <2>1, <3>2 DEF ContentsTyped, Editor!Loaded
      <4>2. QED
        BY <4>1, NormaliseIs DEF Clear
    <3>3. QED
      BY <3>1, <3>2
  <2>4. \A s \in Slots : edit'[s] = Editor!Idle
    BY <1>1
  <2>5. QED
    BY <2>2, <2>3, <2>4 DEF Consistent
<1>5. QED
  BY <1>2, <1>3, <1>4 DEF EditorInv

\* ... which holds at first, ...
LEMMA EditorInvInitially == WebInit => EditorInv
<1> SUFFICES ASSUME WebInit PROVE EditorInv
  OBVIOUS
<1>1. /\ disk = Initial /\ edit = [s \in Slots |-> Editor!Idle]
      /\ memory = [f \in Editor!FileSet |-> Editor!Loaded(disk[f])]
      /\ running = [f \in Editor!FileSet |-> Editor!Enabled(Editor!Loaded(disk[f]))]
  BY DEF WebInit, Editor!Init, Editor!StartWith
<1>2. EditorWhole
  BY EditorInitially
<1>3. ContentsTyped
  BY <1>1, EditsAssumption DEF ContentsTyped
<1>4. ASSUME NEW f \in Editor!FileSet PROVE Consistent(f)
  <2>1. memory[f] = Editor!Loaded(disk[f]) /\ running[f] = Editor!Enabled(memory[f])
    BY <1>1
  <2>2. Agree(disk[f], memory[f], running[f])
    BY <2>1 DEF Agree, Editor!Loaded
  <2>3. Clear(memory[f])
    <3>1. CASE disk[f] = Editor!Torn
      BY <2>1, <3>1 DEF Clear, Editor!Loaded
    <3>2. CASE disk[f] # Editor!Torn
      <4>1. disk[f] \in Editor!Content /\ memory[f] = Editor!Normalise(disk[f])
        BY <1>3, <2>1, <3>2 DEF ContentsTyped, Editor!Loaded
      <4>2. QED
        BY <4>1, NormaliseIs DEF Clear
    <3>3. QED
      BY <3>1, <3>2
  <2>4. \A s \in Slots : edit[s] = Editor!Idle
    BY <1>1
  <2>5. QED
    BY <2>2, <2>3, <2>4 DEF Consistent
<1>5. QED
  BY <1>2, <1>3, <1>4 DEF EditorInv

\* ... after every step of the editor, ...
LEMMA EditorInvKept == ASSUME EditorInv, Editor!Next PROVE EditorInv'
  BY BeginAgrees, ReadAgrees, BackupAgrees, OpenAgrees, LandAgrees, FinishAgrees, RestartAgrees
  DEF Editor!Next

\* ... and while others move.
LEMMA EditorInvRests == ASSUME EditorInv, UNCHANGED editorVars PROVE EditorInv'
<1>1. UNCHANGED <<disk, memory, running, edit, excused>> /\ EditorWhole'
  BY EditorRests DEF editorVars, EditorInv
<1>2. ContentsTyped'
  BY <1>1 DEF EditorInv, ContentsTyped
<1>3. \A f \in Editor!FileSet : Consistent(f)'
  BY <1>1 DEF EditorInv, Consistent, Quiet, Editor!Resting
<1>4. QED
  BY <1>1, <1>2, <1>3 DEF EditorInv

\* Between edits the memory is the file with its ids repaired and the bridge runs its
\* enabled automations and its scripts, and an edit in progress works on what the memory
\* holds, unless a restart is due, two edits of the file overlapped, or an edit gave an id
\* twice (the routes of config.routes.ts, controls.routes.ts, entities.routes.ts).
THEOREM EditsAgreeCorrect == WebSpec => []EditsAgree
<1>1. EditorInv /\ [WebNext]_allVars => EditorInv'
  <2> SUFFICES ASSUME EditorInv, [WebNext]_allVars PROVE EditorInv'
    OBVIOUS
  <2>1. CASE EditorStep
    BY <2>1, EditorInvKept DEF EditorStep
  <2>2. CASE ~EditorStep
    <3>1. UNCHANGED editorVars
      BY <2>2 DEF WebNext, ConsumersStep, LogsStep, StreamStep, LoadingStep, allVars
    <3>2. QED
      BY <3>1, EditorInvRests
  <2>3. QED
    BY <2>1, <2>2
<1>2. QED
  BY <1>1, EditorInvInitially, EditorInvMeans, PTL DEF WebSpec

-----------------------------------------------------------------------------
(* The packet log of a page (WebLogs).                                     *)

Entry   == [id : Nat, at : Nat, packet : Packets]
Message == [packet : Packets, at : Nat]

LogsTyped ==
  /\ (\E S : packetLogs \in Seq(S)) /\ wire \in Seq(Message)
  /\ logs \in Seq(Entry) /\ buffer \in Seq(Entry)
  /\ packetIdCounter \in Nat /\ heard \subseteq Nat

\* What is on the page, entry by entry.
Descending == \A i, j \in DOMAIN logs : i < j => logs[i].at > logs[j].at
Owned(list) == \A i \in DOMAIN list : /\ list[i].id \in 1 .. packetIdCounter
                                      /\ packetDictionary[list[i].id] = list[i].packet
Told(list) == \A i \in DOMAIN list : list[i].at \in heard
Kept == \A t \in heard : \/ \E i \in DOMAIN logs : logs[i].at = t
                         \/ \E i \in DOMAIN buffer : buffer[i].at = t

LogsWhole ==
  /\ LogsTyped /\ Logs!KeepsOrder /\ DOMAIN packetDictionary = 1 .. packetIdCounter
  /\ Descending /\ Owned(logs) /\ Owned(buffer) /\ Told(logs) /\ Told(buffer) /\ Kept

LogsCore == history # Logs!Merged => LogsWhole

LEMMA LogsMean == LogsCore => LogsSound
<1> SUFFICES ASSUME history # Logs!Merged, LogsWhole
             PROVE  /\ Logs!OwnPackets /\ Descending /\ {e.at : e \in Logs!Entries} = heard
                    /\ \A e \in Logs!Entries : e.id \in 1 .. packetIdCounter
  BY DEF LogsCore, LogsSound, Logs!LogsSound, Logs!LogsInv, Logs!IdsCounted, LogsWhole, Descending
<1>1. \A e \in Logs!Entries : \/ \E i \in DOMAIN logs : e = logs[i]
                              \/ \E i \in DOMAIN buffer : e = buffer[i]
  BY DEF Logs!Entries, Logs!ToSet
<1>2. /\ \A i \in DOMAIN logs : logs[i] \in Logs!Entries
      /\ \A i \in DOMAIN buffer : buffer[i] \in Logs!Entries
  BY DEF Logs!Entries, Logs!ToSet
<1>3. \A e \in Logs!Entries : /\ e.id \in 1 .. packetIdCounter /\ e.at \in heard
                              /\ packetDictionary[e.id] = e.packet
  BY <1>1 DEF LogsWhole, Owned, Told
<1>4. \A t \in heard : \E e \in Logs!Entries : e.at = t
  BY <1>2 DEF LogsWhole, Kept
<1>5. QED
  BY <1>3, <1>4 DEF Logs!OwnPackets, LogsWhole

LEMMA LogsInitially == WebInit => LogsCore
<1> SUFFICES ASSUME Logs!Init PROVE LogsWhole
  BY DEF WebInit, LogsCore
<1>1. PICK n \in 0 .. 2, p \in [1 .. 2 -> Packets] :
        packetLogs = [i \in 1 .. n |-> [id |-> i, at |-> i, packet |-> p[i]]]
  BY DEF Logs!Init
<1>2. wire = <<>> /\ packetDictionary = <<>> /\ packetIdCounter = 0 /\ logs = <<>>
      /\ buffer = <<>> /\ heard = {}
  BY DEF Logs!Init
<1>3. packetLogs \in Seq(Entry)
  <2>1. packetLogs \in [1 .. n -> Entry]
    BY <1>1 DEF Entry
  <2>2. QED
    BY <2>1
<1>4. LogsTyped
  BY <1>2, <1>3 DEF LogsTyped
<1>5. QED
  BY <1>2, <1>4 DEF LogsWhole, Logs!KeepsOrder, Descending, Owned, Told, Kept

LEMMA ReceiveKeeps ==
  ASSUME LogsWhole, NEW packet \in Packets, Logs!Receive(packet) PROVE LogsWhole'
<1> DEFINE at == Len(packetLogs) + 1
<1>1. PICK id : packetLogs' = Append(packetLogs, [id |-> id, at |-> at, packet |-> packet])
  BY DEF Logs!Receive
<1>2. /\ wire' = Append(wire, [packet |-> packet, at |-> at])
      /\ UNCHANGED <<packetDictionary, packetIdCounter, logs, buffer, history, heard>>
  BY DEF Logs!Receive
<1>3. PICK S : packetLogs \in Seq(S)
  BY DEF LogsWhole, LogsTyped
<1>4. /\ packetLogs' \in Seq(S \cup {[id |-> id, at |-> at, packet |-> packet]})
      /\ Len(packetLogs') = at /\ Len(packetLogs) \in Nat
  BY <1>1, <1>3
<1>5. at \in Nat /\ wire \in Seq(Message)
  BY <1>4 DEF LogsWhole, LogsTyped
<1>6. wire' \in Seq(Message)
  <2>1. [packet |-> packet, at |-> at] \in Message
    BY <1>5 DEF Message
  <2>2. QED
    BY <1>2, <1>5, <2>1
<1>7. /\ DOMAIN wire' = DOMAIN wire \cup {Len(wire) + 1} /\ wire'[Len(wire) + 1].at = at
      /\ DOMAIN wire = 1 .. Len(wire) /\ Len(wire) \in Nat
      /\ \A i \in DOMAIN wire : wire'[i] = wire[i] /\ wire[i].at \in Nat
  <2>1. DOMAIN wire = 1 .. Len(wire) /\ Len(wire) \in Nat
    BY <1>5
  <2>2. \A i \in DOMAIN wire : wire[i] \in Message
    BY <1>5
  <2>3. /\ DOMAIN wire' = 1 .. Len(wire) + 1 /\ wire'[Len(wire) + 1] = [packet |-> packet, at |-> at]
        /\ \A i \in 1 .. Len(wire) : wire'[i] = wire[i]
    BY <1>2, <1>5
  <2>4. QED
    BY <2>1, <2>2, <2>3 DEF Message
<1> HIDE DEF at
<1>8. LogsTyped'
  BY <1>2, <1>4, <1>6 DEF LogsWhole, LogsTyped
<1>9. Logs!KeepsOrder'
  <2>1. /\ \A i \in DOMAIN wire : wire[i].at < at
        /\ \A t \in heard : t < at
    BY <1>4, <1>7 DEF LogsWhole, LogsTyped, Logs!KeepsOrder, at
  <2>2. \A i, j \in DOMAIN wire' : i < j => wire'[i].at < wire'[j].at
    BY <1>7, <2>1 DEF LogsWhole, Logs!KeepsOrder
  <2>3. \A i \in DOMAIN wire' : wire'[i].at <= at /\ \A t \in heard : t < wire'[i].at
    BY <1>5, <1>7, <2>1 DEF LogsWhole, Logs!KeepsOrder
  <2>4. \A t \in heard' : t <= Len(packetLogs')
    <3>1. SUFFICES ASSUME NEW t \in heard PROVE t <= at
      BY <1>2, <1>4
    <3>2. t \in Nat
      BY DEF LogsWhole, LogsTyped
    <3>3. QED
      BY <1>5, <2>1, <3>1, <3>2
  <2>5. \A i \in DOMAIN wire' : /\ wire'[i].at <= Len(packetLogs')
                                /\ \A t \in heard' : t < wire'[i].at
    BY <1>2, <1>4, <2>3
  <2>6. /\ \A i, j \in DOMAIN buffer : i < j => buffer[i].at < buffer[j].at
        /\ \A i \in DOMAIN logs, j \in DOMAIN buffer : logs[i].at < buffer[j].at
    BY DEF LogsWhole, Logs!KeepsOrder
  <2>7. UNCHANGED <<logs, buffer>>
    BY <1>2
  <2>8. QED
    BY <2>2, <2>4, <2>5, <2>6, <2>7 DEF Logs!KeepsOrder
<1>10. QED
  BY <1>2, <1>8, <1>9 DEF LogsWhole, Descending, Owned, Told, Kept

\* A packet has the id it had, or one that no packet has.
LEMMA HearKeepsLogs == ASSUME LogsWhole, Logs!Hear PROVE LogsWhole'
<1> DEFINE m == Head(wire)
           having == {id \in DOMAIN packetDictionary : packetDictionary[id] = m.packet}
<1>1. PICK id \in IF having # {} THEN having ELSE {packetIdCounter + 1} :
        /\ packetDictionary' = [i \in DOMAIN packetDictionary \cup {id} |->
                                  IF i = id THEN m.packet ELSE packetDictionary[i]]
        /\ packetIdCounter' = IF having = {} THEN id ELSE packetIdCounter
        /\ buffer' = Append(buffer, [id |-> id, at |-> m.at, packet |-> m.packet])
  BY DEF Logs!Hear
<1>2. /\ wire # <<>> /\ heard' = heard \cup {m.at} /\ wire' = Tail(wire)
      /\ UNCHANGED <<packetLogs, logs, history>>
  BY DEF Logs!Hear, Logs!serviceVars
<1>3. /\ m = wire[1] /\ 1 \in DOMAIN wire /\ m \in Message /\ m.at \in Nat
      /\ wire' \in Seq(Message)
      /\ \A i \in DOMAIN wire' : /\ i \in Nat \ {0} /\ wire'[i] = wire[i + 1]
                                /\ i + 1 \in DOMAIN wire /\ wire'[i].at \in Nat
  <2>1. wire \in Seq(Message)
    BY DEF LogsWhole, LogsTyped
  <2>2. /\ Len(wire) \in Nat \ {0} /\ DOMAIN wire = 1 .. Len(wire) /\ Head(wire) = wire[1]
        /\ wire' \in Seq(Message) /\ DOMAIN wire' = 1 .. Len(wire) - 1
        /\ \A i \in 1 .. Len(wire) - 1 : wire'[i] = wire[i + 1]
    BY <1>2, <2>1
  <2>3. \A i \in DOMAIN wire : wire[i] \in Message
    BY <2>1
  <2>4. \A x \in Message : x.at \in Nat
    BY DEF Message
  <2>5. 1 \in DOMAIN wire /\ m = wire[1] /\ m \in Message /\ m.at \in Nat
    BY <2>2, <2>3, <2>4
  <2>6. ASSUME NEW i \in DOMAIN wire'
        PROVE  /\ i \in Nat \ {0} /\ wire'[i] = wire[i + 1] /\ i + 1 \in DOMAIN wire
    BY <2>2
  <2>7. QED
    BY <2>2, <2>3, <2>4, <2>5, <2>6
<1>4. /\ packetIdCounter \in Nat /\ DOMAIN packetDictionary = 1 .. packetIdCounter
      /\ buffer \in Seq(Entry)
  BY DEF LogsWhole, LogsTyped
<1>5. /\ id \in Nat /\ DOMAIN packetDictionary' = 1 .. packetIdCounter'
      /\ packetIdCounter' \in Nat /\ packetIdCounter <= packetIdCounter'
      /\ id \in 1 .. packetIdCounter' /\ packetDictionary'[id] = m.packet
      /\ \A i \in 1 .. packetIdCounter : packetDictionary'[i] = packetDictionary[i]
  <2>1. CASE having # {}
    BY <1>1, <1>4, <2>1
  <2>2. CASE having = {}
    <3>1. id = packetIdCounter + 1 /\ packetIdCounter' = packetIdCounter + 1
      BY <1>1, <2>2
    <3> HIDE DEF having, m
    <3>2. QED
      BY <1>1, <1>4, <3>1
  <2>3. QED
    BY <2>1, <2>2
<1> DEFINE e == [id |-> id, at |-> m.at, packet |-> m.packet]
<1>6. e \in Entry /\ e.at = m.at /\ e.id = id /\ e.packet = m.packet /\ m.at \in Nat
  BY <1>3, <1>5 DEF Entry, Message
<1>7. buffer' = Append(buffer, e)
  BY <1>1
<1> HIDE DEF e, m, having
<1>8. /\ buffer' \in Seq(Entry) /\ DOMAIN buffer' = DOMAIN buffer \cup {Len(buffer) + 1}
      /\ buffer'[Len(buffer) + 1] = e /\ \A i \in DOMAIN buffer : buffer'[i] = buffer[i]
      /\ DOMAIN buffer = 1 .. Len(buffer) /\ Len(buffer) \in Nat
  BY <1>4, <1>6, <1>7
<1>9. LogsTyped'
  BY <1>2, <1>3, <1>5, <1>8 DEF LogsWhole, LogsTyped
<1>10. \A t \in heard : t < m.at
  BY <1>3 DEF LogsWhole, Logs!KeepsOrder
<1>11. Logs!KeepsOrder'
  <2>1. /\ \A i \in DOMAIN buffer : buffer[i].at < m.at
        /\ \A i \in DOMAIN logs : logs[i].at < m.at
    BY <1>10 DEF LogsWhole, Told
  <2>2. \A i, j \in DOMAIN buffer' : i < j => buffer'[i].at < buffer'[j].at
    BY <1>6, <1>8, <2>1 DEF LogsWhole, Logs!KeepsOrder
  <2>3. \A i \in DOMAIN logs', j \in DOMAIN buffer' : logs'[i].at < buffer'[j].at
    BY <1>2, <1>6, <1>8, <2>1 DEF LogsWhole, Logs!KeepsOrder
  <2>4. \A i, j \in DOMAIN wire' : i < j => wire'[i].at < wire'[j].at
    <3>1. SUFFICES ASSUME NEW i \in DOMAIN wire', NEW j \in DOMAIN wire', i < j
                   PROVE  wire'[i].at < wire'[j].at
      OBVIOUS
    <3>2. i + 1 \in DOMAIN wire /\ j + 1 \in DOMAIN wire /\ i + 1 < j + 1
      BY <1>3, <3>1
    <3>3. QED
      BY <1>3, <3>2 DEF LogsWhole, Logs!KeepsOrder
  <2>5. \A i \in DOMAIN wire' : m.at < wire'[i].at
    <3>1. SUFFICES ASSUME NEW i \in DOMAIN wire' PROVE m.at < wire'[i].at
      OBVIOUS
    <3>2. i + 1 \in DOMAIN wire /\ 1 < i + 1
      BY <1>3
    <3>3. QED
      BY <1>3, <3>2 DEF LogsWhole, Logs!KeepsOrder
  <2>6. \A i \in DOMAIN wire' : /\ wire'[i].at <= Len(packetLogs')
                                /\ \A t \in heard' : t < wire'[i].at
    BY <1>2, <1>3, <2>5 DEF LogsWhole, Logs!KeepsOrder
  <2>7. m.at <= Len(packetLogs)
    BY <1>3 DEF LogsWhole, Logs!KeepsOrder
  <2>8. QED
    BY <1>2, <2>2, <2>3, <2>4, <2>6, <2>7 DEF LogsWhole, Logs!KeepsOrder
<1>12. Owned(logs)' /\ Owned(buffer)'
  <2>1. \A n \in 1 .. packetIdCounter : n \in 1 .. packetIdCounter'
    BY <1>4, <1>5
  <2>2. Owned(logs)'
    BY <1>2, <1>5, <2>1 DEF LogsWhole, Owned
  <2>3. Owned(buffer)'
    BY <1>5, <1>6, <1>8, <2>1 DEF LogsWhole, Owned
  <2>4. QED
    BY <2>2, <2>3
<1>13. Told(logs)' /\ Told(buffer)'
  BY <1>2, <1>6, <1>8 DEF LogsWhole, Told
<1>14. Kept'
  <2>1. buffer'[Len(buffer) + 1].at = m.at /\ Len(buffer) + 1 \in DOMAIN buffer'
    BY <1>6, <1>8
  <2>2. QED
    BY <1>2, <1>8, <2>1 DEF LogsWhole, Kept
<1>15. Descending'
  BY <1>2 DEF LogsWhole, Descending
<1>16. QED
  BY <1>5, <1>9, <1>11, <1>12, <1>13, <1>14, <1>15 DEF LogsWhole

LEMMA NewestFirstSorts ==
  ASSUME NEW list \in Seq(Entry),
         \A i, j \in DOMAIN list : i < j => list[i].at < list[j].at
  PROVE  LET sorted == Logs!NewestFirst(list) IN
         /\ sorted \in Seq(Entry) /\ Len(sorted) = Len(list)
         /\ \A i \in DOMAIN sorted : \E j \in DOMAIN list : sorted[i] = list[j]
         /\ \A j \in DOMAIN list : \E i \in DOMAIN sorted : sorted[i] = list[j]
         /\ \A i, j \in DOMAIN sorted : i < j => sorted[i].at > sorted[j].at
<1> DEFINE sorted == Logs!NewestFirst(list)
           turned == [i \in DOMAIN list |-> list[Len(list) + 1 - i]]
<1>1. DOMAIN list = 1 .. Len(list) /\ Len(list) \in Nat /\ \A i \in DOMAIN list : list[i] \in Entry
  OBVIOUS
<1>2. \A i \in DOMAIN list : Len(list) + 1 - i \in DOMAIN list /\ turned[i] = list[Len(list) + 1 - i]
  BY <1>1
<1>3. turned \in [DOMAIN list -> Logs!ToSet(list)]
  BY <1>1, <1>2 DEF Logs!ToSet
<1>4. Logs!ToSet(turned) = Logs!ToSet(list)
  <2>1. \A i \in DOMAIN list : turned[Len(list) + 1 - i] = list[i]
    BY <1>1, <1>2
  <2>2. DOMAIN turned = DOMAIN list
    OBVIOUS
  <2> HIDE DEF turned
  <2>3. QED
    BY <1>1, <1>2, <2>1, <2>2 DEF Logs!ToSet
<1>5. \A i, j \in DOMAIN list : i < j => turned[i].at > turned[j].at
  <2>1. SUFFICES ASSUME NEW i \in DOMAIN list, NEW j \in DOMAIN list, i < j
                 PROVE  turned[i].at > turned[j].at
    OBVIOUS
  <2>2. Len(list) + 1 - j < Len(list) + 1 - i
    BY <1>1, <2>1
  <2>3. QED
    BY <1>1, <1>2, <2>2 DEF Entry
<1> HIDE DEF turned
<1>6. /\ sorted \in [DOMAIN list -> Logs!ToSet(list)] /\ Logs!ToSet(sorted) = Logs!ToSet(list)
      /\ \A i, j \in DOMAIN list : i < j => sorted[i].at > sorted[j].at
  BY <1>3, <1>4, <1>5 DEF Logs!NewestFirst
<1> HIDE DEF sorted
<1>7. \A x \in Logs!ToSet(list) : x \in Entry /\ \E j \in DOMAIN list : x = list[j]
  BY <1>1 DEF Logs!ToSet
<1>8. sorted \in [1 .. Len(list) -> Entry] /\ DOMAIN sorted = DOMAIN list
  BY <1>1, <1>6, <1>7
<1>9. sorted \in Seq(Entry) /\ Len(sorted) = Len(list)
  BY <1>1, <1>8
<1>10. \A j \in DOMAIN list : \E i \in DOMAIN sorted : sorted[i] = list[j]
  BY <1>6 DEF Logs!ToSet
<1>11. QED
  BY <1>6, <1>7, <1>8, <1>9, <1>10 DEF sorted

\* What is flushed is newer than what the log has, and goes in front of it.
LEMMA FlushKeeps == ASSUME LogsWhole, Logs!Flush PROVE LogsWhole'
<1> DEFINE sorted == Logs!NewestFirst(buffer)
<1>2. /\ buffer # <<>> /\ buffer' = <<>>
      /\ logs = <<>> \/ sorted[1].at >= logs[1].at => logs' = sorted \o logs
      /\ UNCHANGED <<packetLogs, wire, packetDictionary, packetIdCounter, history, heard>>
  BY DEF Logs!Flush, Logs!serviceVars
<1>3. /\ buffer \in Seq(Entry) /\ logs \in Seq(Entry)
      /\ \A i, j \in DOMAIN buffer : i < j => buffer[i].at < buffer[j].at
  BY DEF LogsWhole, LogsTyped, Logs!KeepsOrder
<1>4. /\ sorted \in Seq(Entry) /\ Len(sorted) = Len(buffer)
      /\ \A i \in DOMAIN sorted : \E j \in DOMAIN buffer : sorted[i] = buffer[j]
      /\ \A j \in DOMAIN buffer : \E i \in DOMAIN sorted : sorted[i] = buffer[j]
      /\ \A i, j \in DOMAIN sorted : i < j => sorted[i].at > sorted[j].at
  BY <1>3, NewestFirstSorts
<1> HIDE DEF sorted
<1>5. /\ DOMAIN sorted = 1 .. Len(sorted) /\ Len(sorted) \in Nat \ {0}
      /\ DOMAIN logs = 1 .. Len(logs) /\ Len(logs) \in Nat
      /\ logs # <<>> => 1 \in DOMAIN logs
      /\ \A i \in DOMAIN sorted : sorted[i].at \in Nat
      /\ \A i \in DOMAIN logs : logs[i].at \in Nat
  <2>1. Len(buffer) # 0
    BY <1>2, <1>3
  <2>2. /\ DOMAIN sorted = 1 .. Len(sorted) /\ Len(sorted) \in Nat
        /\ DOMAIN logs = 1 .. Len(logs) /\ Len(logs) \in Nat
        /\ \A i \in DOMAIN sorted : sorted[i] \in Entry
        /\ \A i \in DOMAIN logs : logs[i] \in Entry
    BY <1>3, <1>4
  <2>3. \A x \in Entry : x.at \in Nat
    BY DEF Entry
  <2>4. logs # <<>> => Len(logs) # 0
    BY <1>3
  <2>5. QED
    BY <1>4, <2>1, <2>2, <2>3, <2>4
<1>6. \A i \in DOMAIN sorted, j \in DOMAIN logs : sorted[i].at > logs[j].at
  BY <1>4, <1>5 DEF LogsWhole, Logs!KeepsOrder
<1>7. logs' = sorted \o logs
  BY <1>2, <1>5, <1>6
<1>8. /\ logs' \in Seq(Entry) /\ DOMAIN logs' = 1 .. Len(sorted) + Len(logs)
      /\ \A i \in DOMAIN sorted : i \in DOMAIN logs' /\ logs'[i] = sorted[i]
      /\ \A i \in DOMAIN logs : i + Len(sorted) \in DOMAIN logs' /\ logs'[i + Len(sorted)] = logs[i]
      /\ \A i \in DOMAIN logs' : i \notin DOMAIN sorted =>
           i - Len(sorted) \in DOMAIN logs /\ logs'[i] = logs[i - Len(sorted)]
  <2>1. logs' \in Seq(Entry) /\ Len(logs') = Len(sorted) + Len(logs)
    <3>1. sorted \in Seq(Entry) /\ logs \in Seq(Entry)
      BY <1>3, <1>4
    <3>2. sorted \o logs \in Seq(Entry)
      BY <3>1
    <3>3. Len(sorted \o logs) = Len(sorted) + Len(logs)
      BY <3>1
    <3>4. QED
      BY <1>7, <3>2, <3>3
  <2>2. DOMAIN logs' = 1 .. Len(sorted) + Len(logs)
    BY <2>1
  <2>3. ASSUME NEW i \in DOMAIN sorted PROVE i \in DOMAIN logs' /\ logs'[i] = sorted[i]
    BY <1>3, <1>4, <1>5, <1>7, <2>2
  <2>4. ASSUME NEW i \in DOMAIN logs
        PROVE  i + Len(sorted) \in DOMAIN logs' /\ logs'[i + Len(sorted)] = logs[i]
    <3>1. i + Len(sorted) \in 1 .. Len(sorted) + Len(logs) /\ ~(i + Len(sorted) <= Len(sorted))
          /\ i + Len(sorted) - Len(sorted) = i
      BY <1>5
    <3>2. QED
      BY <1>3, <1>4, <1>7, <2>2, <3>1
  <2>5. ASSUME NEW i \in DOMAIN logs', i \notin DOMAIN sorted
        PROVE  i - Len(sorted) \in DOMAIN logs /\ logs'[i] = logs[i - Len(sorted)]
    <3>1. i - Len(sorted) \in DOMAIN logs /\ i - Len(sorted) + Len(sorted) = i
      BY <1>5, <2>2, <2>5
    <3>2. QED
      BY <2>4, <3>1
  <2>6. QED
    BY <2>1, <2>2, <2>3, <2>4, <2>5
<1>9. \A i \in DOMAIN logs' : \/ \E j \in DOMAIN buffer : logs'[i] = buffer[j]
                              \/ \E j \in DOMAIN logs : logs'[i] = logs[j]
  BY <1>4, <1>8
<1>10. LogsTyped'
  <2>1. <<>> \in Seq(Entry)
    OBVIOUS
  <2>2. QED
    BY <1>2, <1>8, <2>1 DEF LogsWhole, LogsTyped
<1>11. Descending'
  <2>1. SUFFICES ASSUME NEW i \in DOMAIN logs', NEW j \in DOMAIN logs', i < j
                 PROVE  logs'[i].at > logs'[j].at
    BY DEF Descending
  <2>2. i \in Nat /\ j \in Nat
    BY <1>8
  <2>3. CASE j \in DOMAIN sorted
    <3>1. i \in DOMAIN sorted
      BY <1>5, <1>8, <2>1, <2>2, <2>3
    <3>2. QED
      BY <1>4, <1>8, <2>1, <2>3, <3>1
  <2>4. CASE j \notin DOMAIN sorted /\ i \in DOMAIN sorted
    BY <1>6, <1>8, <2>4
  <2>5. CASE j \notin DOMAIN sorted /\ i \notin DOMAIN sorted
    <3>1. i - Len(sorted) < j - Len(sorted)
      BY <1>5, <2>1, <2>2
    <3>2. QED
      BY <1>8, <2>5, <3>1 DEF LogsWhole, Descending
  <2>6. QED
    BY <2>3, <2>4, <2>5
<1>12. Logs!KeepsOrder'
  BY <1>2 DEF LogsWhole, Logs!KeepsOrder
<1>13. Owned(logs)' /\ Told(logs)'
  BY <1>2, <1>9 DEF LogsWhole, Owned, Told
<1>14. Owned(buffer)' /\ Told(buffer)'
  BY <1>2 DEF Owned, Told
<1>15. Kept'
  <2>1. SUFFICES ASSUME NEW t \in heard PROVE \E i \in DOMAIN logs' : logs'[i].at = t
    BY <1>2 DEF Kept
  <2>2. CASE \E i \in DOMAIN logs : logs[i].at = t
    BY <1>8, <2>2
  <2>3. CASE \E i \in DOMAIN buffer : buffer[i].at = t
    BY <1>4, <1>8, <2>3
  <2>4. QED
    BY <2>2, <2>3 DEF LogsWhole, Kept
<1>16. QED
  BY <1>2, <1>10, <1>11, <1>12, <1>13, <1>14, <1>15 DEF LogsWhole

\* A new connection counts on from the ids there are, which is where it was.
LEMMA ReconnectKeeps == ASSUME LogsWhole, Logs!Reconnect PROVE LogsWhole'
<1>1. /\ wire' = <<>> /\ packetIdCounter' = Cardinality(DOMAIN packetDictionary)
      /\ UNCHANGED <<packetLogs, packetDictionary, logs, buffer, history, heard>>
  <2>1. Logs!Cardinality(DOMAIN packetDictionary) = Cardinality(DOMAIN packetDictionary)
    BY DEF Logs!Cardinality, Cardinality
  <2>2. QED
    BY <2>1 DEF Logs!Reconnect, Logs!serviceVars
<1>2. packetIdCounter \in Nat /\ DOMAIN packetDictionary = 1 .. packetIdCounter
  BY DEF LogsWhole, LogsTyped
<1>3. Cardinality(1 .. packetIdCounter) = packetIdCounter
  BY <1>2, FS_Interval
<1>4. packetIdCounter' = packetIdCounter
  BY <1>1, <1>2, <1>3
<1>5. LogsTyped'
  <2>1. <<>> \in Seq(Message)
    OBVIOUS
  <2>2. QED
    BY <1>1, <1>4, <2>1 DEF LogsWhole, LogsTyped
<1>6. Logs!KeepsOrder'
  BY <1>1 DEF LogsWhole, Logs!KeepsOrder
<1>7. QED
  BY <1>1, <1>4, <1>5, <1>6 DEF LogsWhole, Descending, Owned, Told, Kept

LEMMA LogsRest ==
  ASSUME LogsWhole,
         UNCHANGED <<packetLogs, wire, packetDictionary, packetIdCounter, logs, buffer, heard>>
  PROVE  LogsWhole'
<1>1. LogsTyped' /\ Logs!KeepsOrder'
  BY DEF LogsWhole, LogsTyped, Logs!KeepsOrder
<1>2. QED
  BY <1>1 DEF LogsWhole, Descending, Owned, Told, Kept

\* The log of a page is what it was told of, in order, with its packets, over all its
\* connections, until the history is merged into it (LogsSound).
THEOREM LogsSoundCorrect == WebSpec => []LogsSound
<1>1. LogsCore /\ [WebNext]_allVars => LogsCore'
  <2> SUFFICES ASSUME LogsCore, [WebNext]_allVars, history' # Logs!Merged PROVE LogsWhole'
    BY DEF LogsCore
  <2>1. CASE LogsStep
    <3>1. Logs!Next
      BY <2>1 DEF LogsStep
    <3>2. history # Logs!Merged
      <4>1. Logs!AnswerHistory \/ Logs!HistoryFails => history.at # Logs!Merged.at
        BY DEF Logs!AnswerHistory, Logs!HistoryFails, Logs!Asked, Logs!Merged
      <4>2. Logs!Hear \/ Logs!Flush \/ Logs!Reconnect \/ (\E packet \in Packets : Logs!Receive(packet))
              => history' = history
        BY DEF Logs!Hear, Logs!Flush, Logs!Reconnect, Logs!Receive
      <4>3. ~Logs!HistoryArrives
        BY DEF Logs!HistoryArrives
      <4>4. QED
        BY <3>1, <4>1, <4>2, <4>3 DEF Logs!Next
    <3>3. LogsWhole
      BY <3>2 DEF LogsCore
    <3>4. CASE Logs!AnswerHistory \/ Logs!HistoryFails
      BY <3>3, <3>4, LogsRest DEF Logs!AnswerHistory, Logs!HistoryFails, Logs!serviceVars
    <3>5. ~Logs!HistoryArrives
      BY DEF Logs!HistoryArrives
    <3>6. QED
      BY <3>1, <3>3, <3>4, <3>5, ReceiveKeeps, HearKeepsLogs, FlushKeeps, ReconnectKeeps
         DEF Logs!Next
  <2>2. CASE ~LogsStep
    <3>1. UNCHANGED logsVars
      BY <2>2 DEF WebNext, ConsumersStep, StreamStep, EditorStep, LoadingStep, allVars
    <3>2. LogsWhole
      BY <3>1 DEF LogsCore, logsVars
    <3>3. QED
      BY <3>1, <3>2, LogsRest DEF logsVars
  <2>3. QED
    BY <2>1, <2>2
<1>2. QED
  BY <1>1, LogsInitially, LogsMean, PTL DEF WebSpec
=============================================================================

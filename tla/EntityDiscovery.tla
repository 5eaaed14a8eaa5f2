--------------------------- MODULE EntityDiscovery ---------------------------
(***************************************************************************)
(* What the bridge tells Home Assistant about its entities through the     *)
(* MQTT broker: the StateManager of packages/core/src/state, the           *)
(* DiscoveryManager of packages/core/src/mqtt, and the connection that     *)
(* bridge.service.ts gives them (last will, handlers of 'connect').        *)
(*                                                                         *)
(* Each entity has two retained topics, its state and its configuration;   *)
(* the bridge has one, its status.  A state is a number, 0 while nothing   *)
(* is known.  A configuration is the number of the entity's name, 0 when   *)
(* the empty message has cleared it.  Messages have QoS 0: mqtt.js keeps   *)
(* them in order, also while it is offline, and what is on its way when    *)
(* the connection breaks is lost.                                          *)
(***************************************************************************)
EXTENDS Integers, Sequences, SequencesExt

CONSTANTS
  Entities, NoEntity,
  Link,         \* discovery_linked_id of each entity, or NoEntity
  Always,       \* entities with discovery_always
  Internal,     \* entities with internal: true
  Skipped,      \* entities with discovery_skip
  Optimistic,   \* optimistic entities with a default state
  Values, Default,
  MaxInputs     \* bound: new states, renames, revocations, losses, restarts of Home Assistant

Hidden == Internal \cup Skipped
Names  == 1..(MaxInputs + 1)

Message(topic, e, payload) == [topic |-> topic, entity |-> e, payload |-> payload]
Key(m)   == <<m.topic, m.entity>>
Messages == [topic : {"config"}, entity : Entities, payload : Names \cup {0}]
       \cup [topic : {"state"}, entity : Entities, payload : Values]
       \cup {Message("online", NoEntity, 1)}

VARIABLES
  value,               \* deviceStates
  stateReceived,       \* DiscoveryManager.stateReceived
  discoveryPublished,  \* DiscoveryManager.discoveryPublished
  name,                \* the names in the configuration
  shownName,           \* the names in the copies that DiscoveryManager made
  renames,             \* pending timers of handleEntityRenamed
  connected,           \* client.connected
  discoverOnConnect,   \* initialize() found no connection
  outbox,              \* published and not yet at the broker
  retained,            \* at the broker: [config, state] of each entity
  status,              \* at the broker: the retained bridge status
  inputs,              \* counts towards MaxInputs
  lost,                \* history: topics whose last message was lost
  revoked              \* history: revoked and not published since

brokerVars == <<retained, status>>
vars == <<value, stateReceived, discoveryPublished, name, shownName, renames, connected,
          discoverOnConnect, outbox, brokerVars, inputs, lost, revoked>>

TypeOK ==
  /\ value \in [Entities -> Values \cup {0}]
  /\ stateReceived \subseteq Entities
  /\ discoveryPublished \subseteq Entities \ Hidden
  /\ name \in [Entities -> Names] /\ shownName \in [Entities -> Names]
  /\ renames \in Seq([entity : Entities, name : Names])
  /\ connected \in BOOLEAN /\ discoverOnConnect \in BOOLEAN
  /\ outbox \in Seq(Messages)
  /\ retained \in [config : [Entities -> Names \cup {0}],
                   state  : [Entities -> Values \cup {0}]]
  /\ status \in {"none", "online", "offline"}
  /\ inputs \in 0..MaxInputs
  /\ \A k \in lost : \E m \in Messages : k = Key(m)
  /\ revoked \subseteq Entities

-----------------------------------------------------------------------------
(* The parts of the handlers.                                              *)

\* handleStateReceived and publishDiscoveryIfEligible without force, for the
\* entities S: those it publishes when the states of received have arrived.
Eligible(S, received) ==
  {e \in S \ (Hidden \cup discoveryPublished) :
     e \in Always \/ e \in received \/ Link[e] \in received}

\* The order in which several entities are published is the configuration's.
Configs(S, names) == SetToSeq({Message("config", e, names[e]) : e \in S})

\* MqttPublisher.publish with retain, for each of messages.
Send(messages) ==
  /\ outbox' = outbox \o messages
  /\ lost' = lost \ {Key(messages[i]) : i \in DOMAIN messages}

\* publishDiscovery and the entry in discoveryPublished, for the entities S.
Publish(before, S, names) ==
  /\ Send(before \o Configs(S, names))
  /\ discoveryPublished' = discoveryPublished \cup S
  /\ revoked' = revoked \ S

Input == inputs < MaxInputs /\ inputs' = inputs + 1

-----------------------------------------------------------------------------
(* initialize(): the StateManager publishes the optimistic defaults before *)
(* there is a DiscoveryManager; setup() publishes 'online'; discover() at  *)
(* once if the client is connected, else at each 'connect'.                *)
Init ==
  LET preset == Optimistic \ Internal
      ready  == IF connected THEN Always \ Hidden ELSE {}
  IN /\ connected \in BOOLEAN
     /\ discoverOnConnect = ~connected
     /\ value = [e \in Entities |-> IF e \in Optimistic THEN Default ELSE 0]
     /\ stateReceived = {}
     /\ discoveryPublished = ready
     /\ name = [e \in Entities |-> 1] /\ shownName = name
     /\ renames = <<>>
     /\ outbox = SetToSeq({Message("state", e, Default) : e \in preset})
                 \o <<Message("online", NoEntity, 1)>> \o Configs(ready, shownName)
     /\ retained = [config |-> [e \in Entities |-> 0], state |-> [e \in Entities |-> 0]]
     /\ status = "none"
     /\ inputs = 0
     /\ lost = {} /\ revoked = {}

-----------------------------------------------------------------------------
(* The bridge.                                                             *)

\* A 'state' event that says nothing new: applyStateUpdate returns.
SameState(e) ==
  /\ value[e] # 0
  /\ UNCHANGED <<value, stateReceived, discoveryPublished, name, shownName, renames, connected,
                 discoverOnConnect, outbox, brokerVars, inputs, lost, revoked>>

\* A 'state' event with a new state: applyStateUpdate stores it and, unless the
\* entity is internal, publishes it; the event state:changed is handled by
\* handleStateReceived before publish returns to the packet processor.
NewState(e, v) ==
  /\ v # value[e]
  /\ Input
  /\ value' = [value EXCEPT ![e] = v]
  /\ UNCHANGED <<name, shownName, renames, connected, discoverOnConnect, brokerVars>>
  /\ IF e \in Internal
     THEN UNCHANGED <<stateReceived, discoveryPublished, outbox, lost, revoked>>
     ELSE /\ stateReceived' = stateReceived \cup {e}
          /\ Publish(<<Message("state", e, v)>>,
                     Eligible({d \in Entities : d = e \/ Link[d] = e}, stateReceived'), shownName)

\* Variant with a fault: the entity stays in discoveryPublished.
RevokeKeepsEntry(e) ==
  /\ Input
  /\ Send(<<Message("config", e, 0)>>)
  /\ revoked' = revoked \cup {e}
  /\ UNCHANGED <<value, stateReceived, discoveryPublished, name, shownName, renames, connected,
                 discoverOnConnect, brokerVars>>

\* revokeDiscovery.
Revoke(e) ==
  /\ Input
  /\ Send(<<Message("config", e, 0)>>)
  /\ discoveryPublished' = discoveryPublished \ {e}
  /\ revoked' = revoked \cup {e}
  /\ UNCHANGED <<value, stateReceived, name, shownName, renames, connected,
                 discoverOnConnect, brokerVars>>

\* renameEntity of the bridge and, through entity:renamed, handleEntityRenamed:
\* the configuration is cleared now and published again by the timer.
Rename(e) ==
  /\ Input
  /\ name' = [name EXCEPT ![e] = @ + 1]
  /\ Send(<<Message("config", e, 0)>>)
  /\ renames' = Append(renames, [entity |-> e, name |-> name'[e]])
  /\ UNCHANGED <<value, stateReceived, discoveryPublished, shownName, connected,
                 discoverOnConnect, brokerVars, revoked>>

\* Variant with a fault: without force, what is already published is skipped.
RenameTimerUnforced ==
  /\ renames # <<>>
  /\ renames' = Tail(renames)
  /\ LET r == Head(renames) IN
       /\ shownName' = [shownName EXCEPT ![r.entity] = r.name]
       /\ Publish(<<>>, {r.entity} \ (Hidden \cup discoveryPublished), shownName')
  /\ UNCHANGED <<value, stateReceived, name, connected, discoverOnConnect, brokerVars,
                 inputs>>

\* The timer of handleEntityRenamed: it publishes with force, that is without
\* looking at discoveryPublished or stateReceived.
RenameTimer ==
  /\ renames # <<>>
  /\ renames' = Tail(renames)
  /\ LET r == Head(renames) IN
       /\ shownName' = [shownName EXCEPT ![r.entity] = r.name]
       /\ Publish(<<>>, {r.entity} \ Hidden, shownName')
  /\ UNCHANGED <<value, stateReceived, name, connected, discoverOnConnect, brokerVars,
                 inputs>>

\* Home Assistant says 'online' after a restart: republishDiscovered.
HomeAssistantOnline ==
  /\ connected
  /\ Input
  /\ Publish(<<>>, discoveryPublished, shownName)
  /\ UNCHANGED <<value, stateReceived, name, shownName, renames, connected,
                 discoverOnConnect, brokerVars>>

-----------------------------------------------------------------------------
(* The connection and the broker.                                          *)

\* A message reaches the broker, which retains it; an empty one clears the topic.
Deliver ==
  /\ connected /\ outbox # <<>>
  /\ outbox' = Tail(outbox)
  /\ LET m == Head(outbox) IN
       \/ /\ m.topic = "config"
          /\ retained' = [retained EXCEPT !.config[m.entity] = m.payload]
          /\ UNCHANGED status
       \/ /\ m.topic = "state"
          /\ retained' = [retained EXCEPT !.state[m.entity] = m.payload]
          /\ UNCHANGED status
       \/ /\ m.topic = "online"
          /\ status' = "online"
          /\ UNCHANGED retained
  /\ UNCHANGED <<value, stateReceived, discoveryPublished, name, shownName, renames, connected,
                 discoverOnConnect, inputs, lost, revoked>>

\* The connection breaks: the broker publishes the last will.
ConnectionLost ==
  /\ connected
  /\ Input
  /\ connected' = FALSE
  /\ lost' = lost \cup {Key(outbox[i]) : i \in DOMAIN outbox}
  /\ outbox' = <<>>
  /\ status' = "offline"
  /\ UNCHANGED <<value, stateReceived, discoveryPublished, name, shownName, renames,
                 discoverOnConnect, retained, revoked>>

\* mqtt.js connects (again): the handlers of 'connect' that initialize() added.
Connect ==
  /\ ~connected
  /\ connected' = TRUE
  /\ UNCHANGED shownName
  /\ Publish(<<>>, IF discoverOnConnect THEN Eligible(Entities, stateReceived) ELSE {}, shownName)
  /\ UNCHANGED <<value, stateReceived, name, renames, discoverOnConnect,
                 brokerVars, inputs>>

Next ==
  \/ \E e \in Entities : SameState(e) \/ Revoke(e) \/ Rename(e)
  \/ \E e \in Entities, v \in Values : NewState(e, v)
  \/ RenameTimer \/ HomeAssistantOnline
  \/ Deliver \/ ConnectionLost \/ Connect

Spec == Init /\ [][Next]_vars

\* Timers fire, and a connected client writes out what it has.
Fairness == WF_vars(RenameTimer) /\ WF_vars(Deliver)
FairSpec == Spec /\ Fairness

-----------------------------------------------------------------------------
(* Properties.                                                             *)

Renaming == {renames[i].entity : i \in DOMAIN renames}

\* When everything published has arrived, the broker retains what the bridge
\* believes: the current state of each entity that is not internal, and the
\* current name of exactly the entities in discoveryPublished.  Except a topic
\* whose last message was lost with the connection, and an entity whose rename
\* is still waiting for its timer.  Every later message repairs a lost topic.
BrokerAgrees ==
  outbox = <<>> => \A e \in Entities :
    /\ <<"state", e>> \notin lost =>
         retained.state[e] = IF e \in Internal THEN 0 ELSE value[e]
    /\ <<"config", e>> \notin lost /\ e \notin Renaming =>
         retained.config[e] = IF e \in discoveryPublished THEN name[e] ELSE 0

\* An entity is announced to Home Assistant only when it exists for the bridge:
\* always by configuration, or its state or that of the linked entity changed,
\* or it was renamed.  Internal and skipped entities never appear.
DiscoveredForAReason ==
  \A e \in Entities : e \in discoveryPublished \/ retained.config[e] # 0 =>
    /\ e \notin Hidden
    /\ \/ e \in Always \/ shownName[e] > 1
       \/ \E d \in {e, Link[e]} \cap Entities : d \in stateReceived

\* An entity whose state has changed since the start is announced, and so is
\* every entity linked to it, until the user revokes it.
HeardIsDiscovered ==
  \A e \in Entities, d \in Entities :
    /\ d \notin Internal /\ e \notin Hidden \cup revoked
    /\ d = e \/ d = Link[e]
    /\ value[d] # (IF d \in Optimistic THEN Default ELSE 0)
    => e \in discoveryPublished

\* A rename removes the entity from Home Assistant for two seconds only: if the
\* client gets connected and no message is lost, its configuration comes back
\* under the newest name, whatever was renamed, revoked or republished meanwhile.
RenamedComesBack ==
  [](lost = {}) /\ <>[]connected =>
    \A e \in Entities \ Hidden :
      e \in Renaming ~> (retained.config[e] = name[e])

\* discovery-manager.ts:117 publishes the status of the bridge, which every
\* announced entity names as its availability: when a connected bridge has
\* nothing left to send, and 'online' was not lost on its way, it is online for
\* Home Assistant.
StatusIsTrue ==
  connected /\ outbox = <<>> /\ <<"online", NoEntity>> \notin lost => status = "online"

-----------------------------------------------------------------------------
(* What makes the first three inductive.                                   *)

\* Once what is in box has arrived, the topic of e, which holds kept, will hold x.
Carries(m, topic, e) == m.topic = topic /\ m.entity = e

Settles(box, kept, topic, e, x) ==
  /\ \A i \in 1..Len(box) :
       /\ Carries(box[i], topic, e)
       /\ \A j \in i + 1..Len(box) : ~Carries(box[j], topic, e)
       => box[i].payload = x
  /\ (\A i \in 1..Len(box) : ~Carries(box[i], topic, e)) => kept = x

BrokerWillAgree ==
  \A e \in Entities :
    /\ <<"state", e>> \notin lost =>
         Settles(outbox, retained.state[e], "state", e,
                 IF e \in Internal THEN 0 ELSE value[e])
    /\ <<"config", e>> \notin lost /\ e \notin Renaming =>
         Settles(outbox, retained.config[e], "config", e,
                 IF e \in discoveryPublished THEN name[e] ELSE 0)

\* Each rename is of a new name, the last one of an entity is its name, and what
\* DiscoveryManager knows of the others is up to date.
NamesFollow ==
  /\ \A e \in Entities : name[e] <= inputs + 1
  /\ \A e \in Entities : e \notin Renaming => shownName[e] = name[e]
  /\ \A i \in 1..Len(renames) :
       /\ renames[i].name > 1
       /\ (\A j \in i + 1..Len(renames) : renames[j].entity # renames[i].entity)
          => renames[i].name = name[renames[i].entity]

\* What an entity is announced for; nothing takes it back.
Reason(e) ==
  /\ e \notin Hidden
  /\ \/ e \in Always \/ shownName[e] > 1
     \/ \E d \in {e, Link[e]} \cap Entities : d \in stateReceived

OnlyForAReason ==
  /\ \A e \in Entities : e \in discoveryPublished \/ retained.config[e] # 0 => Reason(e)
  /\ \A i \in 1..Len(outbox) :
       outbox[i].topic = "config" /\ outbox[i].payload # 0 => Reason(outbox[i].entity)

\* What was heard is in stateReceived, and published unless revoked.
HeardIsKept ==
  /\ stateReceived \subseteq Entities \ Internal
  /\ \A d \in Entities \ Internal :
       value[d] # (IF d \in Optimistic THEN Default ELSE 0) => d \in stateReceived
  /\ \A e \in Entities \ (Hidden \cup revoked) :
       e \in stateReceived \/ Link[e] \in stateReceived => e \in discoveryPublished

BrokerInv == TypeOK /\ NamesFollow /\ OnlyForAReason /\ HeardIsKept /\ BrokerWillAgree
=============================================================================

--------------------------- MODULE PacketMatching ---------------------------
(***************************************************************************)
(* What a packet means: the matching of a packet with the schemas of the     *)
(* devices and of the triggers (packet-matching.ts, device.ts, state-        *)
(* normalizer.ts), what the bridge makes of it (ProtocolManager.processPacket, *)
(* StateManager.applyStateUpdate, the triggers of AutomationManager), and the *)
(* second implementation of the same in packet-analysis.ts, which tells the   *)
(* user of the web interface what a packet would do.                         *)
(*                                                                         *)
(* Values of states are numbers: On and Off of a binary sensor, a byte of a   *)
(* sensor, Unset.  A guard is the set of the last bytes its expression        *)
(* accepts: the expression of a guard sees the packet, and a state that is    *)
(* never filled (Device.updateState has no caller).                          *)
(***************************************************************************)
EXTENDS Integers, Sequences

CONSTANTS
    ByteSize,   \* values of a byte
    Setups,     \* configurations: header length, bounds, devices, triggers
    Packets,    \* packets received
    MaxSeen     \* bound: packets received one after another

VARIABLES
    setup,      \* the configuration
    states,     \* deviceStates: entity to property to value
    seen,       \* number of packets received
    last        \* the last packet, what it did and what was foretold (history)

vars == <<setup, states, seen, last>>

Start == -1     \* an offset that is not given: after the header
Unset == -1
Off == 0
On == 1
Properties == {"state", "value"}
NoState == [p \in Properties |-> Unset]
NoLength == 0

-----------------------------------------------------------------------------
(* Matching.                                                                *)

BitAnd(a, b) ==
    LET and[p \in Nat \X Nat] ==
            IF p[1] = 0 THEN 0
            ELSE 2 * and[<<p[1] \div 2, p[2] \div 2>>] + (p[1] % 2) * (p[2] % 2)
    IN and[<<a, b>>]

\* A mask may be shorter than the data, or not there.
MaskAt(s, i) == IF i \in DOMAIN s.mask THEN s.mask[i] ELSE ByteSize - 1

DataMatches(s, packet, base) ==
    LET from == base + (IF s.at = Start THEN 0 ELSE s.at)
    IN /\ from + Len(s.data) <= Len(packet)
       /\ \A i \in DOMAIN s.data :
              BitAnd(packet[from + i], MaskAt(s, i)) = BitAnd(s.data[i], MaskAt(s, i))

\* The schema without its exceptions.
PatternMatches(s, guard, packet, base, allowEmpty) ==
    /\ s.data # <<>> \/ allowEmpty
    /\ s.inverted # (s.data = <<>> \/ DataMatches(s, packet, base))
    /\ packet[Len(packet)] \in guard

\* The offset of a schema counts from the start of the packet, if it is given.
Base(s) == IF s.at = Start THEN setup.header ELSE 0

\* matchesPacket: an exception starts from the same place as the schema.  The
\* guard a device has prepared is used for the guards of the exceptions too.
MatchesPacket(s, packet, prepared, allowEmpty) ==
    /\ PatternMatches(s, s.guard, packet, Base(s), allowEmpty)
    /\ ~\E e \in s.except :
           PatternMatches(e, IF prepared THEN s.guard ELSE e.guard,
                          packet, Base(s), allowEmpty)

Guarded(s) == s.guard # 0 .. ByteSize - 1

\* Device.matchesPacket
Concerns(device, packet) == MatchesPacket(device.match, packet, Guarded(device.match), FALSE)

\* resolveFlag for state_on and state_off, which may have no data.
Flag(schemas, packet) == \E s \in schemas : MatchesPacket(s, packet, FALSE, TRUE)

\* extractValue
ByteAt(at, packet) ==
    LET i == IF at = Start THEN setup.header ELSE at
    IN IF i < Len(packet) THEN packet[i + 1] ELSE Unset

\* parseData: the properties a packet gives; an empty function for null.
ParseData(device, packet) ==
    LET found == IF device.type = "binary_sensor"
                 THEN [p \in {"state"} |-> IF Flag(device.on, packet) THEN On
                                           ELSE IF Flag(device.off, packet) THEN Off ELSE Unset]
                 ELSE [p \in {"value"} |-> ByteAt(device.at, packet)]
    IN [p \in {p \in DOMAIN found : Concerns(device, packet) /\ found[p] # Unset} |-> found[p]]

IsNull(updates) == DOMAIN updates = {}

-----------------------------------------------------------------------------
(* Triggers.                                                                *)

\* matchesValue, for a trigger without a match, with a value and with gte.
MatchesValue(trigger, value) ==
    CASE trigger.op = "any" -> TRUE
      [] trigger.op = "eq"  -> value = trigger.than
      [] trigger.op = "gte" -> value # Unset /\ value >= trigger.than

Property(state, p) == IF p \in DOMAIN state THEN state[p] ELSE Unset

\* handleStateTriggers and the state triggers of the analysis.
StateTriggers(entity, state) ==
    {i \in DOMAIN setup.triggers :
        LET t == setup.triggers[i]
        IN t.type = "state" /\ t.entity = entity /\ MatchesValue(t, Property(state, t.property))}

\* handlePacketTriggers and the packet triggers of the analysis.
PacketTriggers(packet) ==
    {i \in DOMAIN setup.triggers :
        /\ setup.triggers[i].type = "packet"
        /\ MatchesPacket(setup.triggers[i].match, packet, FALSE, FALSE)}

-----------------------------------------------------------------------------
(* The bridge and the analysis.                                             *)

\* processPacket: with state_proxy another entity takes what a device found.
Target(device) == IF device.proxy THEN device.target ELSE device.id

\* applyStateUpdate: states that do not change and those of internal entities
\* fire nothing; triggers see the merged state.
Apply(acc, device, packet) ==
    LET updates == ParseData(device, packet)
        entity  == Target(device)
        merged  == [p \in Properties |-> IF p \in DOMAIN updates THEN updates[p]
                                         ELSE acc.states[entity][p]]
        changed == ~IsNull(updates) /\ merged # acc.states[entity]
        public  == entity \notin setup.internal
    IN [states |-> [acc.states EXCEPT ![entity] = IF changed THEN merged ELSE @],
        fired  |-> acc.fired \cup (IF changed /\ public THEN StateTriggers(entity, merged) ELSE {})]

\* analyzePacketChunk for one packet: every device with its own id, and the
\* triggers on what this packet says.
Matches(packet) ==
    {[entity |-> setup.devices[i].id, state |-> ParseData(setup.devices[i], packet)] :
        i \in {j \in DOMAIN setup.devices : ~IsNull(ParseData(setup.devices[j], packet))}}

Foretold(packet) ==
    PacketTriggers(packet) \cup UNION {StateTriggers(m.entity, m.state) : m \in Matches(packet)}

\* isLengthAllowed
LengthAllowed(packet) == setup.minLength # NoLength => Len(packet) >= setup.minLength

Init ==
    /\ setup \in Setups
    /\ states = [e \in {setup.devices[i].id : i \in DOMAIN setup.devices} |-> NoState]
    /\ seen = 0
    /\ last = [packet |-> <<>>, before |-> states, fired |-> {}, foretold |-> {}, matches |-> {}]

\* The triggers on packets first, then device by device.
Processed(packet) ==
    LET acc[n \in 0 .. Len(setup.devices)] ==
            IF n = 0 THEN [states |-> states, fired |-> PacketTriggers(packet)]
            ELSE Apply(acc[n - 1], setup.devices[n], packet)
    IN acc[Len(setup.devices)]

\* A packet of the parser.
Receive(packet) ==
    /\ seen < MaxSeen
    /\ LengthAllowed(packet)
    /\ LET acc == Processed(packet)
       IN /\ states' = acc.states
          /\ last' = [packet |-> packet, before |-> states, fired |-> acc.fired,
                      foretold |-> Foretold(packet), matches |-> Matches(packet)]
    /\ seen' = seen + 1
    /\ UNCHANGED setup

Next == \E packet \in Packets : Receive(packet)

Spec == Init /\ [][Next]_vars

-----------------------------------------------------------------------------
(* Properties *)

Entity(i) == setup.triggers[i].entity
OnState(triggers) == {i \in triggers : setup.triggers[i].type = "state"}

\* Entities whose state only their own device writes.
Own(entity) == \A i \in DOMAIN setup.devices :
                   (setup.devices[i].id = entity) <=> (Target(setup.devices[i]) = entity)

SaidOf(entity) == {m.state : m \in {n \in last.matches : n.entity = entity}}

(***************************************************************************)
(* The analysis tells what the bridge does with a packet: the same triggers  *)
(* on packets; the states it shows are those the entities have afterwards;   *)
(* a trigger on a state that fires was foretold if the packet speaks of its  *)
(* property, and one foretold fires if it changes a state that is published  *)
(* (processPacket, applyStateUpdate and handleStateTriggers against          *)
(* analyzePacketChunk).  Entities with a proxy are left out: the analysis     *)
(* does not know state_proxy.  Of every entity the properties that no device  *)
(* speaks of stay, those of several devices are merged.                      *)
(***************************************************************************)
AnalysisForetells ==
    /\ \A e \in DOMAIN states, p \in Properties :
           \/ states[e][p] = last.before[e][p]
           \/ \E m \in last.matches : p \in DOMAIN m.state /\ states[e][p] = m.state[p]
    /\ last.fired \ OnState(last.fired) = last.foretold \ OnState(last.foretold)
    /\ \A m \in last.matches : Own(m.entity) =>
           \A p \in DOMAIN m.state : states[m.entity][p] = m.state[p]
    /\ \A i \in OnState(last.fired) :
           Own(Entity(i)) /\ (\E s \in SaidOf(Entity(i)) : setup.triggers[i].property \in DOMAIN s)
               => i \in last.foretold
    /\ \A i \in OnState(last.foretold) :
           Own(Entity(i)) /\ Entity(i) \notin setup.internal
           /\ states[Entity(i)] # last.before[Entity(i)]
               => i \in last.fired
=============================================================================

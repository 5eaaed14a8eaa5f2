---------------------------- MODULE EntityStates ----------------------------
(***************************************************************************)
(* The state of one entity: what a report of its device says (parseData of    *)
(* generic.device.ts and of the device classes, normalizeDeviceState of        *)
(* state-normalizer.ts), what an update_state action of an automation makes of *)
(* a packet (executeUpdateStateAction of automation-manager.ts,                *)
(* extractFromSchema of schema-utils.ts), and the store both write to          *)
(* (state-manager.ts), from the start of the bridge to the retained topic.     *)
(*                                                                         *)
(* A state, and an update of it, has three parts: values (numbers), words      *)
(* (state, mode, action) and flags, the booleans which only say a word.        *)
(* Schemas have one byte, the formats are those of DeviceCommands.  The types  *)
(* stand for all: select, text and the direction of a fan are left out.        *)
(***************************************************************************)
EXTENDS Integers, Sequences

CONSTANTS
    ByteSize,       \* values of a byte
    Descriptions,   \* entities with their schemas
    Reports,        \* packets of the entity
    FullyOpen,      \* the highest position of a valve (100)
    MaxSteps        \* bound: reports, updates and commands

VARIABLES
    described,      \* the entity
    deviceStates,   \* its state, in deviceStates and the shared states
    retained,       \* the payload of its state topic, {} if there is none
    cachedStates,   \* what getAllStates keeps, {} if nothing
    spoken,         \* the last update, its packet and what it names (history)
    steps

vars == <<described, deviceStates, retained, cachedStates, spoken, steps>>

Start == -1         \* an offset that is not given
Missing == -1
Says(flags, values, words) == [flags |-> flags, values |-> values, words |-> words]
None == [k \in {} |-> 0]
Nothing == Says(None, None, None)

\* What one part of an update adds to what another has: a key keeps its first value.
Joined(f, g) == [k \in DOMAIN f \cup DOMAIN g |-> IF k \in DOMAIN f THEN f[k] ELSE g[k]]
Else(one, other) == Says(Joined(one.flags, other.flags), Joined(one.values, other.values),
                         Joined(one.words, other.words))

Only(attribute, word) == [a \in {attribute} |-> word]

-----------------------------------------------------------------------------
(* Schemas.  One written as an expression gives, from the byte at its place,  *)
(* a flag or a number, or fails beyond the end of the packet.  It is a string  *)
(* for all other code: without offset, data or guard, and `length` is its own. *)

Place(schema, header) == IF schema.at = Start \/ schema.cel THEN header ELSE schema.at
InPacket(i, packet) == i < Len(packet)

\* matchesState: nothing is asked of an expression.
MatchesState(schema, packet, header) ==
    LET i == Place(schema, header)
    IN schema.cel \/ (InPacket(i, packet) /\ packet[i + 1] = schema.byte)

\* matchesSchemaWithHeader, for locks: the header is added to an offset that is
\* given, and an expression never matches.
MatchesWithHeader(schema, packet, header) ==
    LET i == header + (IF schema.at = Start THEN 0 ELSE schema.at)
    IN ~schema.cel /\ InPacket(i, packet) /\ packet[i + 1] = schema.byte

\* extractValue
Extract(schema, packet, header) ==
    LET from   == Place(schema, header)
        length == IF schema.cel THEN schema.size ELSE 1
        number[i \in 0 .. length] ==
            IF i = 0 THEN 0 ELSE number[i - 1] * ByteSize + packet[from + i]
    IN IF from + length > Len(packet) THEN Missing ELSE number[length]

\* extractFromSchema: an offset that is not given is the first byte.
ExtractFromSchema(schema, packet) == Extract(schema, packet, 0)

-----------------------------------------------------------------------------
(* normalizeDeviceState                                                     *)

Group(attribute, flags, words, how) ==
    [attribute |-> attribute, flags |-> flags, words |-> words, how |-> how]

\* The words an entity may show, each with its flag, in the order of the code.
\* "always": the flags are resolved even if the word is given; "unset": not
\* then; "first": nor after one that holds; "lock": only schemas count.
GroupsOf(type) ==
    CASE type \in {"switch", "light", "fan", "binary_sensor"} ->
           <<Group("state", <<"on", "off">>, <<"ON", "OFF">>, "always")>>
      [] type = "climate" ->
           <<Group("mode", <<"off", "heat", "cool">>, <<"off", "heat", "cool">>, "unset"),
             Group("action", <<"action_heating", "action_idle">>, <<"heating", "idle">>, "first"),
             Group("fan_mode", <<"fan_low", "fan_high">>, <<"low", "high">>, "first")>>
      [] type = "valve" ->
           <<Group("state", <<"open", "closed", "opening", "closing">>,
                   <<"OPEN", "CLOSED", "OPENING", "CLOSING">>, "unset")>>
      [] type = "lock" ->
           <<Group("state", <<"locked", "unlocked">>, <<"LOCKED", "UNLOCKED">>, "lock")>>
      [] type = "number" ->
           <<Group("action", <<"increment", "decrement">>, <<"increment", "decrement">>, "always")>>
      [] type = "sensor" -> <<>>

\* resolveFlag, and the match of a lock.
Holds(d, flag, how, packet, given) ==
    CASE how = "lock" -> /\ flag \in DOMAIN d.flags
                         /\ MatchesWithHeader(d.flags[flag], packet, d.header)
      [] how # "lock" /\ flag \in DOMAIN given.flags -> given.flags[flag]
      [] OTHER -> /\ flag \in DOMAIN d.flags
                  /\ MatchesState(d.flags[flag], packet, d.header)

\* The place of the first flag of a group that holds, if one does.
FirstHeld(d, group, packet, given) ==
    LET held == {i \in DOMAIN group.flags : Holds(d, group.flags[i], group.how, packet, given)}
    IN {i \in held : \A j \in held : i <= j}

\* A word that is given stays, but for the action of a number.
KeepsWord(d, group, given) == d.type # "number" /\ group.attribute \in DOMAIN given.words

WordsOf(d, group, packet, given) ==
    IF KeepsWord(d, group, given) THEN {given.words[group.attribute]}
    ELSE {group.words[i] : i \in FirstHeld(d, group, packet, given)}

\* cleanupKeys: the flags that were looked at.
Cleaned(d, group, packet, given) ==
    LET first == FirstHeld(d, group, packet, given)
    IN CASE group.how \in {"unset", "first"} /\ KeepsWord(d, group, given) -> {}
         [] group.how = "first" /\ first # {} ->
              {group.flags[j] : j \in {j \in DOMAIN group.flags : \A i \in first : j <= i}}
         [] OTHER -> {group.flags[j] : j \in DOMAIN group.flags}

\* A climate that is off and does nothing in particular.
OffAction(d, words) ==
    IF d.type = "climate" /\ "action" \notin DOMAIN words /\ "mode" \in DOMAIN words
       /\ words["mode"] = "off"
    THEN Only("action", "off") ELSE None

\* A value that is missing or zero is read from the packet.
Reread(d, key, packet, given) ==
    LET read == Extract(d.values[key], packet, d.header)
    IN IF key \in DOMAIN given.values /\ given.values[key] # 0 THEN given.values[key]
       ELSE IF read = Missing
       THEN IF key \in DOMAIN given.values THEN 0 ELSE Missing
       ELSE IF d.type = "valve" /\ read > FullyOpen THEN FullyOpen ELSE read

\* The word of each attribute; no two groups of a type have the same.
Words(d, packet, given) ==
    LET groups == GroupsOf(d.type)
        said(a) == UNION {WordsOf(d, groups[i], packet, given) :
                             i \in {i \in DOMAIN groups : groups[i].attribute = a}}
    IN [a \in {a \in {groups[i].attribute : i \in DOMAIN groups} : said(a) # {}} |->
           CHOOSE w \in said(a) : TRUE]

Numbers(d, packet, given) ==
    LET read == [k \in DOMAIN d.values |-> Reread(d, k, packet, given)]
    IN Joined([k \in {k \in DOMAIN d.values : read[k] # Missing} |-> read[k]], given.values)

\* The flags nobody looked at, and oscillating, which says itself if it holds.
Flags(d, packet, given) ==
    LET groups  == GroupsOf(d.type)
        cleaned == UNION {Cleaned(d, groups[i], packet, given) : i \in DOMAIN groups}
        swings  == d.type = "fan" /\ Holds(d, "oscillating", "always", packet, given)
    IN Joined([k \in {k \in {"oscillating"} : swings} |-> TRUE],
              [k \in DOMAIN given.flags \ (cleaned \cup {"oscillating"}) |-> given.flags[k]])

Normalize(d, packet, given) ==
    LET words == Words(d, packet, given)
    IN Says(Flags(d, packet, given), Numbers(d, packet, given),
            Joined(Joined(words, given.words), OffAction(d, words)))

-----------------------------------------------------------------------------
(* Reports and update_state.                                                *)

\* GenericDevice.parseData: the expressions of an entity; those that fail say
\* nothing.
Evaluated(d, packet) ==
    LET done(f) == {k \in DOMAIN f : f[k].cel /\ InPacket(f[k].at, packet)}
    IN Says([k \in done(d.flags) |-> packet[d.flags[k].at + 1] = d.flags[k].byte],
            [k \in done(d.values) |-> packet[d.values[k].at + 1]], None)

Report(d, packet) == Normalize(d, packet, Evaluated(d, packet))

\* An action gives schemas like some of the entity's, never as expressions, and a
\* word for the state.
Actions(d) == [schemas : SUBSET (DOMAIN d.flags \cup DOMAIN d.values),
               literal : {{}, {"ON"}}]

\* getAllowedUpdateStateKeys: other keys throw.
Allowed(d, action) == action.literal # {} => d.hasState \/ DOMAIN d.flags \cap {"on", "off"} # {}

Given(schema) == [schema EXCEPT !.cel = FALSE]

\* The updates of an action, before they are normalised: what its schemas find
\* in the whole packet.
Found(d, action, packet) ==
    LET flags  == action.schemas \cap DOMAIN d.flags
        values == {k \in action.schemas \cap DOMAIN d.values :
                      ExtractFromSchema(Given(d.values[k]), packet) # Missing}
        words  == IF action.literal = {} THEN None
                  ELSE Only("state", CHOOSE w \in action.literal : TRUE)
    IN IF packet = <<>> THEN Says(None, None, words)
       ELSE Says([k \in flags |-> MatchesState(Given(d.flags[k]), packet, d.header)],
                 [k \in values |-> ExtractFromSchema(Given(d.values[k]), packet)], words)

\* executeUpdateStateAction: the packet is normalised without its header, and the
\* header is counted once more.  Without a packet (<<>>) there is none to read.
Updated(d, action, packet) ==
    LET found == Found(d, action, packet)
    IN IF ~Allowed(d, action) \/ found = Nothing THEN Nothing
       ELSE Normalize(d, SubSeq(packet, d.header + 1, Len(packet)), found)

-----------------------------------------------------------------------------
(* The store.                                                               *)

\* applyStateUpdate: what changes nothing is passed over, the rest is merged,
\* kept, and published unless the entity is internal.
Apply(update) ==
    LET merged == Else(update, deviceStates)
    IN IF update = Nothing \/ merged = deviceStates
       THEN UNCHANGED <<deviceStates, retained, cachedStates>>
       ELSE /\ deviceStates' = merged
            /\ cachedStates' = {}
            /\ retained' = IF described.internal THEN retained ELSE {merged}

\* initializeOptimisticEntities: the default of the type.
Default(d) ==
    LET word == CASE d.type \in {"switch", "light", "fan", "binary_sensor"} -> {"OFF"}
                  [] d.type = "valve" -> {"CLOSED"}
                  [] d.type = "lock"  -> {"LOCKED"}
                  [] OTHER            -> {}
    IN IF d.optimistic /\ word # {} THEN Says(None, None, Only("state", CHOOSE w \in word : TRUE))
       ELSE Nothing

Published(d, update) == IF update = Nothing \/ d.internal THEN {} ELSE {update}

Init ==
    /\ described \in Descriptions
    /\ deviceStates = Default(described)
    /\ retained = Published(described, Default(described))
    /\ cachedStates = {}
    /\ spoken = [kind |-> "start", packet |-> <<>>, names |-> {}]
    /\ steps = 0

Step(kind, packet, names) ==
    /\ steps < MaxSteps
    /\ steps' = steps + 1
    /\ spoken' = [kind |-> kind, packet |-> packet, names |-> names]
    /\ UNCHANGED described

\* handleStateUpdate: packets of an entity without a state match nothing.
Hear(packet) ==
    /\ described.hasState
    /\ Step("report", packet, {})
    /\ Apply(Report(described, packet))

\* updateEntityState
Update(action, packet) ==
    /\ Step("update", packet, action.schemas \cup action.literal)
    /\ Apply(Updated(described, action, packet))

\* constructCommandPacket for an optimistic entity: getOptimisticState gives the
\* word of the command.
Command(group, i) ==
    /\ described.optimistic /\ described.type \notin {"number", "binary_sensor"}
    /\ group.attribute # "action"
    /\ Step("command", <<>>, {})
    /\ Apply(Says(None, None, Only(group.attribute, group.words[i])))

\* getAllStates
Read ==
    /\ cachedStates' = IF cachedStates = {} THEN {deviceStates} ELSE cachedStates
    /\ UNCHANGED <<described, deviceStates, retained, spoken, steps>>

\* The bridge starts again: its stores are new, the broker keeps the topic.
Restart ==
    /\ Step("start", <<>>, {})
    /\ deviceStates' = Default(described)
    /\ cachedStates' = {}
    /\ retained' = IF Published(described, Default(described)) = {} THEN retained
                   ELSE Published(described, Default(described))

Next ==
    \/ \E packet \in Reports : Hear(packet)
    \/ \E action \in Actions(described), packet \in Reports \cup {<<>>} : Update(action, packet)
    \/ \E i \in DOMAIN GroupsOf(described.type) :
           \E j \in 1 .. 2 : Command(GroupsOf(described.type)[i], j)
    \/ Read
    \/ Restart

Spec == Init /\ [][Next]_vars

-----------------------------------------------------------------------------
(* Properties *)

InSchemas(d) == /\ \A k \in DOMAIN d.flags : ~d.flags[k].cel
                /\ \A k \in DOMAIN d.values : ~d.values[k].cel

\* An update by schemas with a packet.
ByPacket == /\ spoken.kind = "update" /\ spoken.packet # <<>>
            /\ spoken.names \cap (DOMAIN described.flags \cup DOMAIN described.values) # {}
            /\ "ON" \notin spoken.names /\ InSchemas(described)

Shows(update) ==
    /\ \A k \in DOMAIN update.words : deviceStates.words[k] = update.words[k]
    /\ \A k \in DOMAIN update.values : deviceStates.values[k] = update.values[k]

(***************************************************************************)
(* "The same interpretation as parseData is applied for every type of entity" *)
(* (docs/config-schema/schemas.md): after an update_state with a packet the    *)
(* entity shows what a report of that packet would have shown, in all it says. *)
(* The code does so only where packets have no header: executeUpdateStateAction *)
(* cuts the header off and then has the places counted with it.             *)
(***************************************************************************)
UpdateMeansReport == ByPacket /\ Updated(described, [schemas |-> spoken.names, literal |-> {}],
                                         spoken.packet) # Nothing
                        => Shows(Report(described, spoken.packet))

(***************************************************************************)
(* The store holds together: an update means what a report means where packets *)
(* have no header and a valve is not opened beyond its limit; the retained      *)
(* topic has the state that automations see, from the first update after a      *)
(* start, and none of an internal entity; getAllStates is never stale; flags    *)
(* do not stay in a state, but of climates and valves, beside a word that is     *)
(* given or behind the first that holds (applyStateUpdate and                  *)
(* normalizeDeviceState as their callers use them).                          *)
(***************************************************************************)
StoreHolds ==
    /\ /\ described.header = 0
       /\ described.type = "valve" =>
              \A k \in DOMAIN deviceStates.values : deviceStates.values[k] <= FullyOpen
       => UpdateMeansReport
    /\ deviceStates # Nothing => retained = Published(described, deviceStates)
    /\ described.internal => retained = {}
    /\ cachedStates \in {{}, {deviceStates}}
    /\ described.type \notin {"climate", "valve"} => DOMAIN deviceStates.flags \subseteq {"oscillating"}
=============================================================================

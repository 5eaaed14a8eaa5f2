------------------------------ MODULE MCBytes ------------------------------
(***************************************************************************)
(* From bytes to state and back in one run, each part from its own initial  *)
(* states: chunks on their way to a parser (ProtocolManager), packets out of *)
(* chunks and packets built for the wire (PacketParser), commands              *)
(* and reports of a device (DeviceCommands), what packets mean to the entities *)
(* and the triggers (PacketMatching), the state of an entity of every type and *)
(* what update_state makes of it (EntityStates).                             *)
(* `part` says which one a behaviour is about; the others keep their initial *)
(* values.                                                                 *)
(***************************************************************************)
EXTENDS PacketParser

CONSTANTS MaxChunks, MaxPending, Entities, Values, MaxQueue, MaxAsked, Setups, Packets, MaxSeen,
          Descriptions, Reports, FullyOpen, MaxSteps

ASSUME BytesAssumption == {MaxChunks, MaxPending, MaxQueue, MaxAsked, MaxSeen, FullyOpen, MaxSteps} \subseteq Nat

VARIABLES
    part,
    worker, ready, pending, inbox, outbox, alive, terminated, next, out, posted,
    entity, queue, register, shown, asked, sent, count,
    setup, states, seen, last,
    described, deviceStates, retained, cachedStates, spoken, steps

Manager == INSTANCE ProtocolManager
Device  == INSTANCE DeviceCommands
Match   == INSTANCE PacketMatching
Store   == INSTANCE EntityStates

-----------------------------------------------------------------------------
(* What the constants may be.                                               *)

\* A byte read as it is.
byte == [encode |-> "none", length |-> 1, endian |-> "big", precision |-> 0, signed |-> FALSE]

FormatOK(f) ==
    /\ f.encode \in {"none", "bcd", "half"} /\ f.endian \in {"big", "little"}
    /\ f.length \in Nat \ {0} /\ f.precision \in Nat /\ f.signed \in BOOLEAN

\* Types that do not insert by format write a byte, and read it back as one.
EntityOK(e) ==
    /\ e.type \in Device!Types /\ e.schema \in Device!Schemas /\ FormatOK(e.format)
    /\ e.type \notin {"number", "climate"} => e.format = byte

\* No two devices have one id: the configuration is loaded with ids made different.
SetupOK(s) ==
    /\ s.header \in Nat
    /\ Len(s.devices) \in Nat /\ DOMAIN s.devices = 1 .. Len(s.devices)
    /\ \A i \in DOMAIN s.devices : s.devices[i].at \in Nat \cup {-1}
    /\ \A i, j \in DOMAIN s.devices : s.devices[i].id = s.devices[j].id => i = j
    /\ \A i \in DOMAIN s.triggers : /\ s.triggers[i].op \in {"any", "eq", "gte"}
                                    /\ s.triggers[i].than \in Nat

Schema == [cel : BOOLEAN, at : Nat \cup {-1}, byte : Int, size : Nat]
StoreTypes == {"switch", "light", "fan", "binary_sensor", "climate", "valve", "lock", "number", "sensor"}

\* The flags a type cleans away once it has read them.
FlagsOf(type) ==
    UNION {{Store!GroupsOf(type)[i].flags[j] : j \in DOMAIN Store!GroupsOf(type)[i].flags} :
              i \in DOMAIN Store!GroupsOf(type)}

\* Schemas by the names of the type's flags and values; no name is the word ON.
DescriptionOK(d) ==
    /\ d.type \in StoreTypes /\ d.header \in Nat
    /\ d.internal \in BOOLEAN /\ d.optimistic \in BOOLEAN
    /\ d.flags = [k \in DOMAIN d.flags |-> d.flags[k]] /\ \A k \in DOMAIN d.flags : d.flags[k] \in Schema
    /\ d.values = [k \in DOMAIN d.values |-> d.values[k]] /\ \A k \in DOMAIN d.values : d.values[k] \in Schema
    /\ DOMAIN d.flags \subseteq FlagsOf(d.type) \cup {"oscillating"}
    /\ "ON" \notin DOMAIN d.flags \cup DOMAIN d.values

ASSUME EntitiesAssumption == (\A e \in Entities : EntityOK(e)) /\ Values \subseteq Int

ASSUME SetupsAssumption == (\A s \in Setups : SetupOK(s)) /\ Packets \subseteq Seq(Nat)

ASSUME DescriptionsAssumption ==
    /\ \A d \in Descriptions : DescriptionOK(d)
    /\ Reports \subseteq Seq(Nat) /\ FullyOpen \in Nat /\ ByteSize \in Nat

-----------------------------------------------------------------------------
managerVars == <<worker, ready, pending, inbox, outbox, alive, terminated, next, out, posted>>
deviceVars  == <<entity, queue, register, shown, asked, sent, count>>
matchVars   == <<setup, states, seen, last>>
storeVars   == <<described, deviceStates, retained, cachedStates, spoken, steps>>
allVars     == <<part, vars, managerVars, deviceVars, matchVars, storeVars>>

\* One initial state for the parts a behaviour is not about.
BytesInit ==
    /\ part \in {"parser", "manager", "device", "match", "store"}
    /\ Init /\ (part # "parser" => config = CHOOSE c \in Configs : TRUE)
    /\ Manager!Init /\ (part # "manager" => ~worker)
    /\ Device!Init /\ (part # "device" => entity = CHOOSE e \in Entities : TRUE)
    /\ Match!Init /\ (part # "match" => setup = CHOOSE s \in Setups : TRUE)
    /\ Store!Init /\ (part # "store" => described = CHOOSE d \in Descriptions : TRUE)

ParserStep  == part = "parser" /\ Next
               /\ UNCHANGED <<part, managerVars, deviceVars, matchVars, storeVars>>
ManagerStep == part = "manager" /\ Manager!Next
               /\ UNCHANGED <<part, vars, deviceVars, matchVars, storeVars>>
DeviceStep  == part = "device" /\ Device!Next
               /\ UNCHANGED <<part, vars, managerVars, matchVars, storeVars>>
MatchStep   == part = "match" /\ Match!Next
               /\ UNCHANGED <<part, vars, managerVars, deviceVars, storeVars>>
StoreStep   == part = "store" /\ Store!Next
               /\ UNCHANGED <<part, vars, managerVars, deviceVars, matchVars>>

BytesNext == ParserStep \/ ManagerStep \/ DeviceStep \/ MatchStep \/ StoreStep

BytesSpec ==
    /\ BytesInit /\ [][BytesNext]_allVars
    /\ WF_managerVars(part = "manager" /\ Manager!Handle)
    /\ WF_managerVars(part = "manager" /\ Manager!WorkerTakes)

-----------------------------------------------------------------------------
\* Of PacketParser: packets are those of the stream however it is cut into chunks, they
\* verify and come from their places, and the lengths the sweep does not try
\* again are those of the buffer's own start; packets the bridge builds are read,
\* and its builders agree.
FramesAreSound ==
    /\ FramesOfTheStream /\ PacketsAreGenuine /\ ScannedInVain
    /\ BuiltIsRead
    /\ part = "parser" /\ received = <<>> /\ pc = "idle" => BuildersAgree

\* Of ProtocolManager: no chunk is processed twice, those lost were posted to a
\* worker that failed, all come in order while the worker is used, and each of
\* the two parsers keeps the order after that.
ChunksAccountedFor ==
    /\ Manager!ProcessedOnce /\ Manager!LostOnlyByWorker
    /\ Manager!WorkerInOrder /\ Manager!EachParserInOrder /\ Manager!HandOverInv

\* Every iteration of the parser consumes bytes or ends, and in ProtocolManager
\* kept chunks do not wait for ever.
BytesMoveOn == IterationsConsume /\ Manager!PendingIsTaken

\* Of DeviceCommands: the value reported is the one asked for, and a command is
\* the same packet over MQTT and from the web interface.  Of PacketMatching: the
\* analysis of a packet tells what the bridge does with it.  Of EntityStates: the
\* state automations see, the retained one and the cached one agree, and an update
\* by an automation means what a report means.
DeviceDoesAsAsked ==
    /\ Device!ReportedAsAsked /\ Device!ChannelsAgree
    /\ Match!AnalysisForetells /\ Store!StoreHolds

\* Of DeviceCommands: a number is sent with its value.
NumberIsInserted == Device!NumberIsInserted

-----------------------------------------------------------------------------
(* Parser configurations: bytes of two bits, one configuration for each way *)
(* through the parser.                                                      *)

plain == [header |-> <<>>, footer |-> <<>>, length |-> 0, minLength |-> 0,
          maxLength |-> 0, lengthAt |-> 0, validHeaders |-> {}, checksum |-> "add",
          timeout |-> FALSE]

MCConfigs == {
    \* fixed length
    [plain EXCEPT !.length = 3],
    [plain EXCEPT !.length = 3, !.checksum = "samsung_rx", !.timeout = TRUE],
    [plain EXCEPT !.length = 4, !.checksum = "xor_add"],
    [plain EXCEPT !.length = 3, !.validHeaders = {1, 2, 3}, !.checksum = "xor"],
    [plain EXCEPT !.length = 3, !.validHeaders = {1}, !.checksum = "bestin_sum"],
    [plain EXCEPT !.length = 3, !.header = <<1>>],
    [plain EXCEPT !.length = 3, !.minLength = 4],
    [plain EXCEPT !.length = 3, !.header = <<1>>, !.checksum = "samsung_xor"],
    \* footer
    [plain EXCEPT !.header = <<1>>, !.footer = <<0>>],
    [plain EXCEPT !.header = <<1>>, !.footer = <<0>>, !.minLength = 5, !.checksum = "xor"],
    [plain EXCEPT !.footer = <<2>>, !.maxLength = 4, !.checksum = "none"],
    [plain EXCEPT !.footer = <<0>>, !.validHeaders = {1, 2}, !.checksum = "xor_add"],
    \* sweep
    [plain EXCEPT !.header = <<1, 2>>, !.timeout = TRUE],
    [plain EXCEPT !.header = <<1>>, !.checksum = "add_no_header"],
    [plain EXCEPT !.validHeaders = {1, 3}, !.minLength = 3, !.checksum = "samsung_tx"],
    [plain EXCEPT !.header = <<3>>, !.checksum = "samsung_xor"],
    [plain EXCEPT !.header = <<2>>, !.checksum = "xor_add"],
    [plain EXCEPT !.header = <<1>>, !.lengthAt = 2],
    [plain EXCEPT !.header = <<0, 1>>, !.lengthAt = 2, !.checksum = "add_no_header"],
    [plain EXCEPT !.header = <<1>>, !.maxLength = 3]}


\* For the runs about a device.
OneConfig == {plain}
MCHeaders == {<<>>, <<1>>, <<2, 1>>}
MCFooters == {<<>>, <<3>>}
MCScripts == {Failed, Number(9), List(<<1>>), List(<<7, 2>>)}

-----------------------------------------------------------------------------
(* Entities: every type by every schema, and a number and a climate by every *)
(* format.                                                                  *)

Formats == {byte, [byte EXCEPT !.encode = "bcd"], [byte EXCEPT !.encode = "half"],
            [byte EXCEPT !.encode = "half", !.signed = TRUE],
            [byte EXCEPT !.signed = TRUE], [byte EXCEPT !.precision = 1],
            [byte EXCEPT !.encode = "bcd", !.length = 2, !.precision = 1],
            [byte EXCEPT !.length = 2], [byte EXCEPT !.length = 2, !.endian = "little"],
            [byte EXCEPT !.length = 2, !.endian = "little", !.signed = TRUE, !.precision = 1]}

EntityTypes == {"number", "select", "text", "light", "fan", "valve", "climate", "switch"}
EntitySchemas == {"missing", "cel", "data", "valued"}

MCEntities ==
    [type : {"number", "climate"}, schema : {"cel", "valued"}, optimistic : {FALSE}, format : Formats]
    \cup [type : EntityTypes, schema : EntitySchemas, optimistic : BOOLEAN, format : {byte}]

\* The number of the documentation, whose command has a place for the value.
OneNumber == {[type |-> "number", schema |-> "valued", optimistic |-> FALSE, format |-> byte]}

MCValues == {-26, 0, 45, 139, 255, 598}

-----------------------------------------------------------------------------
(* Configurations for the matching: schemas with every option, two devices   *)
(* that share a packet, an internal one and a proxy.                         *)

Every == 0 .. 3
schema == [at |-> 1, data |-> <<1>>, mask |-> <<>>, inverted |-> FALSE, guard |-> Every, except |-> {}]
second == [schema EXCEPT !.at = 2]

sensor == [id |-> "a", type |-> "sensor", match |-> schema, on |-> {}, off |-> {}, at |-> 2,
           proxy |-> FALSE, target |-> "a"]
binary == [sensor EXCEPT !.id = "b", !.type = "binary_sensor", !.on = {[second EXCEPT !.data = <<2>>]},
                         !.off = {[second EXCEPT !.data = <<2>>, !.inverted = TRUE]}]

OnPacket(match) == [type |-> "packet", match |-> match, entity |-> "a", property |-> "value",
                    op |-> "any", than |-> 0]
OnChange(id, property, op, than) ==
    [type |-> "state", match |-> schema, entity |-> id, property |-> property,
     op |-> op, than |-> than]

allTriggers ==
    <<OnChange("a", "value", "any", 0), OnChange("a", "value", "eq", 3), OnChange("a", "value", "gte", 2),
      OnChange("b", "state", "eq", 1), OnChange("b", "state", "any", 0), OnChange("b", "value", "any", 0),
      OnPacket([schema EXCEPT !.at = -1, !.mask = <<2>>]),
      OnPacket([second EXCEPT !.guard = {0, 1}, !.except = {[schema EXCEPT !.data = <<2>>]}])>>

oneSetup == [header |-> 1, minLength |-> 0, devices |-> <<sensor, binary>>, internal |-> {},
             triggers |-> allTriggers]

\* Ways to match the first device.
MCSchemas == {
    schema,
    [schema EXCEPT !.at = -1, !.data = <<1, 1>>, !.mask = <<2>>],
    [schema EXCEPT !.data = <<3>>, !.mask = <<1>>, !.inverted = TRUE],
    [schema EXCEPT !.data = <<>>],
    [schema EXCEPT !.guard = {1, 2}, !.mask = <<1>>, !.except = {[second EXCEPT !.guard = {1}]}],
    [schema EXCEPT !.at = -1, !.except = {[second EXCEPT !.at = 1, !.guard = {0, 1}]}]}

MCSetups ==
    {[oneSetup EXCEPT !.devices[1].match = s, !.devices[1].at = at] : s \in MCSchemas, at \in {-1, 2}}
    \cup {[oneSetup EXCEPT !.internal = {"b"}, !.minLength = 3],
          [oneSetup EXCEPT !.devices[2].proxy = TRUE, !.internal = {"b"},
                           !.devices[2].match.data = <<2>>],
          [oneSetup EXCEPT !.devices[2].on = {}],
          [oneSetup EXCEPT !.devices[2].on = {[schema EXCEPT !.data = <<>>, !.guard = {1}]}]}

MCPackets == {<<1, a, b>> : a \in Every, b \in Every} \cup {<<1, 1>>, <<1>>}

-----------------------------------------------------------------------------
(* Entities for the store: each type, by schemas and by expressions (of two   *)
(* letters); bytes 1 and 2 carry what a state says.                          *)

Read(at, data)  == [cel |-> FALSE, at |-> at, byte |-> data, size |-> 0]
Asked(at, data) == [cel |-> TRUE, at |-> at, byte |-> data, size |-> 2]

lamp == [type |-> "light", header |-> 0, hasState |-> TRUE, internal |-> FALSE,
         optimistic |-> FALSE,
         flags |-> [k \in {"on", "off"} |-> Read(2, IF k = "on" THEN 1 ELSE 0)],
         values |-> [k \in {"brightness"} |-> Read(1, 0)]]

MCDescriptions == {
    lamp,
    [lamp EXCEPT !.header = 1],
    [lamp EXCEPT !.internal = TRUE],
    [lamp EXCEPT !.optimistic = TRUE, !.hasState = FALSE],
    [lamp EXCEPT !.flags = [k \in {"on", "off"} |-> Asked(2, IF k = "on" THEN 1 ELSE 0)],
                 !.values = [k \in {"brightness"} |-> Asked(1, 0)]],
    [lamp EXCEPT !.type = "fan",
                 !.flags = [k \in {"on", "oscillating"} |-> Read(2, IF k = "on" THEN 1 ELSE 0)],
                 !.values = [k \in {"speed"} |-> Read(-1, 0)]],
    [lamp EXCEPT !.type = "climate", !.optimistic = TRUE,
                 !.flags = [k \in {"off", "heat", "action_heating"} |->
                               CASE k = "off" -> Read(2, 0) [] k = "heat" -> Read(2, 1)
                                 [] OTHER -> Read(1, 1)],
                 !.values = [k \in {"target_temperature"} |-> Read(1, 0)]],
    [lamp EXCEPT !.type = "climate",
                 !.flags = [k \in {"off", "heat", "action_heating", "action_idle"} |->
                               CASE k = "off" -> Asked(2, 0) [] k = "heat" -> Asked(2, 1)
                                 [] k = "action_heating" -> Asked(1, 1) [] OTHER -> Asked(1, 0)]],
    [lamp EXCEPT !.type = "valve", !.optimistic = TRUE,
                 !.flags = [k \in {"open", "closed"} |-> Read(-1, IF k = "open" THEN 1 ELSE 0)],
                 !.values = [k \in {"position"} |-> Read(2, 0)]],
    [lamp EXCEPT !.type = "lock", !.values = [k \in {} |-> lamp],
                 !.flags = [k \in {"locked", "unlocked"} |-> Read(1, IF k = "locked" THEN 1 ELSE 0)]],
    [lamp EXCEPT !.type = "number", !.flags = [k \in {"increment"} |-> Read(2, 1)],
                 !.values = [k \in {"value"} |-> Read(1, 0)]],
    [lamp EXCEPT !.type = "sensor", !.flags = [k \in {} |-> lamp],
                 !.values = [k \in {"value"} |-> Asked(1, 0)]]}

MCReports == {<<1, a, b>> : a \in {0, 3}, b \in {0, 1}} \cup {<<1, 3>>}
=============================================================================

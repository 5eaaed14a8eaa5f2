--------------------------- MODULE DeviceCommands ---------------------------
(***************************************************************************)
(* One entity between its users and its device: a command comes over MQTT   *)
(* (subscriber.ts), from the web UI (controls.routes.ts, bridge.service.ts)  *)
(* or from an automation, becomes a packet (packet-processor.ts, the device  *)
(* classes), changes the device, and the device's report comes back as state *)
(* (state-normalizer.ts).  Names of commands differ from channel to channel, *)
(* values are encoded one way and decoded the other.                        *)
(*                                                                         *)
(* A packet is the bytes at the place of its value; the bytes around them    *)
(* are left out.  Values are counted in halves, the finest a format knows.   *)
(***************************************************************************)
EXTENDS Integers, Sequences

CONSTANTS
    Entities,       \* configurations of the entity
    Values,         \* values asked for, in halves
    MaxQueue, MaxAsked  \* bounds: commands waiting, commands in all

VARIABLES
    entity,     \* its configuration
    queue,      \* packets handed to the CommandManager
    register,   \* what the device is set to, as bytes
    shown,      \* the state: a value, and where it comes from
    asked,      \* the value of the last command, and whether the
                \* packet carried it, was refused, and a report followed (history)
    sent,       \* the packets by channel and value (history)
    count

vars == <<entity, queue, register, shown, asked, sent, count>>

Types    == {"number", "select", "text", "light", "fan", "valve", "climate", "switch"}
Schemas  == {"missing", "cel", "data", "valued"}
Channels == {"mqtt", "ui", "automation"}
Unknown  == [value |-> 0, from |-> "nowhere"]
NoPacket == [kind |-> "null", bytes |-> <<>>]

-----------------------------------------------------------------------------
(* Values and bytes.                                                        *)

Power(base, k) == LET p[i \in 0 .. k] == IF i = 0 THEN 1 ELSE base * p[i - 1] IN p[k]

\* Math.round of a value in halves, scaled by the precision.
Rounded(v, precision) == (v * Power(10, precision) + 1) \div 2

Clamp(n) == IF n < 0 THEN 0 ELSE IF n > 100 THEN 100 ELSE n

Place(i, format) == IF format.endian = "little" THEN i - 1 ELSE format.length - i

\* Variant with a fault: the first byte is always the lowest.
EncodeFromLowest(n, format) ==
    [i \in 1 .. format.length |-> (n \div Power(256, (i - 1) % 4)) % 256]

\* encodeInteger: >> takes the low five bits of the shift, four places.
EncodeInteger(n, format) ==
    [i \in 1 .. format.length |-> (n \div Power(256, Place(i, format) % 4)) % 256]

\* encodeBcd: two digits a byte, the last byte is the lowest; no sign.
EncodeBcd(n, format) ==
    [i \in 1 .. format.length |->
        LET pair == ((IF n < 0 THEN -n ELSE n) \div Power(100, format.length - i)) % 100
        IN (pair \div 10) * 16 + (pair % 10)]

\* encodeSignedByteHalfDegree: bit 7 is the half, the rest the integer part.
EncodeHalf(v) == LET abs == IF v < 0 THEN -v ELSE v
                 IN <<((abs \div 2) % 128) + 128 * (abs % 2)>>

\* insertValueIntoCommand
Insert(v, format) ==
    CASE format.encode = "bcd"  -> EncodeBcd(Rounded(v, format.precision), format)
      [] format.encode = "half" -> EncodeHalf(v * Power(10, format.precision))
      [] format.encode = "none" -> EncodeInteger(Rounded(v, format.precision), format)

\* The device classes: numbers and climates insert by format, the others write
\* their byte themselves.
Encoded(e, v) ==
    CASE e.type \in {"number", "climate"} -> Insert(v, e.format)
      [] e.type = "valve"                 -> <<Clamp(Rounded(v, 0))>>
      [] OTHER                            -> <<Rounded(v, 0) % 256>>

Unsigned(digits, format, base) ==
    LET n == Len(digits)
        acc[i \in 0 .. n] ==
            IF i = 0 THEN 0
            ELSE acc[i - 1] * base + digits[IF format.endian = "little" THEN n + 1 - i ELSE i]
    IN acc[n]

Digits(b) == (b \div 16) * 10 + (b % 16)

\* extractValue, twice the value before it is divided by the precision.
Decoded(bytes, format) ==
    CASE format.encode = "half" ->
           LET b == IF format.endian = "little" THEN bytes[Len(bytes)] ELSE bytes[1]
               abs == 2 * (b % 128) + (b \div 128)
           IN IF format.signed /\ (b \div 64) % 2 = 1 THEN -abs ELSE abs
      [] format.encode = "bcd" ->
           2 * Unsigned([i \in DOMAIN bytes |-> Digits(bytes[i])], format, 100)
      [] format.encode = "none" ->
           LET n == Unsigned(bytes, format, 256)
               full == Power(256, Len(bytes))
           IN 2 * (IF format.signed /\ n >= full \div 2 THEN n - full ELSE n)

-----------------------------------------------------------------------------
(* From a command to a packet.                                              *)

\* The key of the command in the configuration, which the UI lists.
KeyName(type) ==
    CASE type = "light"   -> "brightness"  [] type = "fan"    -> "speed"
      [] type = "climate" -> "temperature" [] type = "valve"  -> "position"
      [] type = "number"  -> "number"      [] type = "select" -> "select"
      [] type = "text"    -> "text"        [] type = "switch" -> "on"

\* handleMqttMessage: the last part of the topic, or deduced from the type;
\* the topic of a fan says percentage.
MqttName(type) == IF type = "select" THEN "option" ELSE KeyName(type)

\* Automations name a command freely.
NamesOf(channel, type) ==
    CASE channel = "mqtt" -> {MqttName(type)}
      [] channel = "ui"   -> {KeyName(type)}
      [] channel = "automation" -> {KeyName(type), "set"}

Packet(bytes) == [kind |-> "packet", bytes |-> bytes]
Empty         == [kind |-> "empty", bytes |-> <<>>]

\* GenericDevice.constructCommand: an expression takes the value, data is sent
\* as it stands, with zeros where a value would go.
Generic(e, name, v) ==
    IF name # KeyName(e.type) \/ e.schema = "missing" THEN NoPacket
    ELSE CASE e.schema = "cel"    -> Packet(Encoded(e, v))
           [] e.schema = "valued" -> Packet([i \in DOMAIN Encoded(e, v) |-> 0])
           [] e.schema = "data"   -> Packet(<<>>)

\* Data with the value put in, where the schema has a place for it.
WithValue(e, v) == Packet(IF e.schema = "valued" THEN Encoded(e, v) ELSE <<>>)

HasData(e) == e.schema \in {"data", "valued"}

\* constructCommand of the device classes.
Construct(e, name, v) ==
    LET generic == Generic(e, name, v) IN
    CASE e.type = "number" ->
           IF generic = NoPacket /\ name = "set" /\ HasData(e) THEN WithValue(e, v) ELSE generic
      [] e.type = "text" ->
           IF generic = NoPacket /\ name = "set"
           THEN IF HasData(e) THEN WithValue(e, v) ELSE Empty
           ELSE generic
      [] e.type \in {"select", "light", "fan", "valve", "climate"} ->
           IF name = KeyName(e.type) /\ HasData(e) THEN WithValue(e, v) ELSE generic
      [] e.type = "switch" -> generic

\* getOptimisticState; "none" if the class has none for the command.
Optimistic(e, name, v) ==
    CASE e.type = "text" /\ name = "set"            -> {v}
      [] e.type = "valve" /\ name = "position"      -> {2 * Clamp(Rounded(v, 0))}
      [] e.type = "climate" /\ name = "temperature" -> {v}
      [] e.type = "switch" /\ name = "on"           -> {2}
      [] OTHER                                      -> {}

\* constructCommandPacket
Result(e, name, v) ==
    LET cmd == Construct(e, name, v)
    IN IF cmd = NoPacket /\ e.optimistic THEN Empty ELSE cmd

\* Only the subscriber asks whether the packet is empty.
Sends(channel, packet) ==
    \/ packet.kind = "packet"
    \/ packet.kind = "empty" /\ channel # "mqtt"

-----------------------------------------------------------------------------
Init ==
    /\ entity \in Entities
    /\ queue = <<>>
    /\ register = <<>>
    /\ shown = Unknown
    /\ asked = [value |-> 0, carried |-> FALSE, refused |-> TRUE, reported |-> FALSE]
    /\ sent = {}
    /\ count = 0

Command(channel, name, v) ==
    /\ count < MaxAsked /\ Len(queue) < MaxQueue
    /\ name \in NamesOf(channel, entity.type)
    /\ LET packet == Result(entity, name, v)
           optimistic == IF entity.optimistic THEN Optimistic(entity, name, v) ELSE {}
       IN /\ queue' = IF Sends(channel, packet) THEN Append(queue, packet) ELSE queue
          /\ shown' = IF optimistic = {} THEN shown
                      ELSE [value |-> CHOOSE w \in optimistic : TRUE, from |-> "optimistic"]
          /\ asked' = [value |-> v,
                       carried |-> packet.bytes # <<>> /\ packet.bytes = Encoded(entity, v),
                       refused |-> packet = NoPacket, reported |-> FALSE]
          /\ sent' = sent \cup {[channel |-> channel, value |-> v, packet |-> packet]}
    /\ count' = count + 1
    /\ UNCHANGED <<entity, register>>

\* The command manager writes, the device takes what is in the packet.
Transmit ==
    /\ queue # <<>>
    /\ queue' = Tail(queue)
    /\ register' = IF Head(queue).bytes # <<>> THEN Head(queue).bytes ELSE register
    /\ UNCHANGED <<entity, shown, asked, sent, count>>

\* Types whose state is a number at a place of the report.
Numeric == {"number", "light", "fan", "valve", "climate"}

\* A report of the device, whenever it likes, is parsed at once.
Report ==
    /\ register # <<>> /\ entity.type \in Numeric
    /\ shown' = [value |-> Decoded(register, entity.format), from |-> "report"]
    /\ asked' = [asked EXCEPT !.reported = queue = <<>>]
    /\ UNCHANGED <<entity, queue, register, sent, count>>

Next ==
    \/ \E c \in Channels, v \in Values :
         \E name \in NamesOf(c, entity.type) : Command(c, name, v)
    \/ Transmit
    \/ Report

Spec == Init /\ [][Next]_vars

-----------------------------------------------------------------------------
(* Properties *)

\* Values a format can carry: bcd has no sign and its highest digits first,
\* a signed half degree keeps bit 6 for a sign it never sets, an integer has up
\* to four bytes (the fifth is the first again).
FitsFormat(v, f) ==
    LET n    == Rounded(v, f.precision)
        half == Power(256, f.length) \div 2
    IN /\ f.encode = "bcd"  => /\ n \in 0 .. Power(100, f.length) - 1
                               /\ f.endian = "little" => f.length = 1
       /\ f.encode = "half" => v * Power(10, f.precision) \in 0 .. (IF f.signed THEN 127 ELSE 255)
       /\ f.encode = "none" =>
              /\ f.length <= 4
              /\ n \in IF f.signed THEN -half .. half - 1 ELSE 0 .. Power(256, f.length) - 1

Fits(v, e) ==
    /\ e.type = "valve" => v \in 0 .. 200
    /\ e.type \in {"light", "fan"} => Rounded(v, 0) \in 0 .. 255
    /\ e.type \in {"number", "climate"} => FitsFormat(v, e.format)

Close(a, v, precision) == LET d == a - v * Power(10, precision) IN d \in -1 .. 1

(***************************************************************************)
(* What the users see agrees with what they asked for: a device that reports *)
(* after the last command shows its value, up to the rounding of the format, *)
(* if the packet carried it and the format can hold it (insertValueIntoCommand *)
(* against extractValue).                                                   *)
(***************************************************************************)
ReportedAsAsked ==
    asked.reported /\ asked.carried /\ Fits(asked.value, entity)
        => Close(shown.value, asked.value, entity.format.precision)

(***************************************************************************)
(* The channels agree: a value asked of a light, fan, valve or climate is the *)
(* same packet over MQTT, from the UI, and from an automation that uses the  *)
(* key of the command.                                                      *)
(***************************************************************************)
ChannelsAgree ==
    entity.type \in {"light", "fan", "valve", "climate", "switch"} =>
        \A a, b \in sent :
            a.value = b.value /\ "automation" \notin {a.channel, b.channel}
                => a.packet = b.packet

(***************************************************************************)
(* "Value setting: command_number - inserts the entered value into the       *)
(* packet" (docs/config-schema/number.md): a number with a place for its     *)
(* value is sent with the value.                                            *)
(***************************************************************************)
NumberIsInserted ==
    entity.type = "number" /\ entity.schema = "valued" /\ count > 0 /\ ~asked.refused
        => asked.carried
=============================================================================

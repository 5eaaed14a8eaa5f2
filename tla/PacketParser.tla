---------------------------- MODULE PacketParser ----------------------------
(***************************************************************************)
(* PacketParser of packages/core/src/protocol/packet-parser.ts: the bytes  *)
(* that arrive in chunks are appended to a bounded buffer, and the loop of  *)
(* parseChunk takes packets out of it, by a fixed length, by a footer or by *)
(* a sweep for the shortest length whose checksum fits.                    *)
(*                                                                         *)
(* buffer is what lies between readOffset and writeOffset; moving these    *)
(* bytes to the front of the array (compactBuffer) changes nothing here.   *)
(* One step of the model is the arrival of a chunk or one iteration of the  *)
(* loop.  received and emitted are histories: the bytes since the parser    *)
(* last started afresh, and the packets found in them with their places.    *)
(*                                                                         *)
(* The checksums are those of packages/core/src/protocol/utils/checksum.ts. *)
(* A byte has ByteSize values (256 in the code, fewer in a small instance), *)
(* so every sum wraps where the code masks with 0xff.  The constants of the *)
(* Samsung variants scale with it: TopBit is 0x80, SamsungSeed 0xb0 and      *)
(* SamsungLimit 0x7c.                                                       *)
(***************************************************************************)
EXTENDS Integers, Sequences, FiniteSets, SequencesExt

CONSTANTS ByteSize, SamsungSeed, SamsungLimit

ASSUME ByteAssumption ==
    /\ ByteSize \in Nat \ {0} /\ ByteSize % 2 = 0
    /\ SamsungSeed \in 0 .. (ByteSize - 1)
    /\ SamsungLimit \in Nat

Byte == 0 .. (ByteSize - 1)
TopBit == ByteSize \div 2
Wrap(n) == n % ByteSize

\* Exclusive or, from the lowest bit on.
Xor(a, b) ==
    LET xor[p \in Nat \X Nat] ==
            IF p = <<0, 0>> THEN 0
            ELSE 2 * xor[<<p[1] \div 2, p[2] \div 2>>] + ((p[1] + p[2]) % 2)
    IN xor[<<a, b>>]

Standard1Byte == {"add", "add_no_header", "xor", "xor_no_header",
                  "samsung_rx", "samsung_tx", "samsung_xor", "bestin_sum"}
AddsBytes == {"add", "add_no_header"}
SkipsHeader == {"add_no_header", "xor_no_header", "samsung_rx", "samsung_tx"}

Seed(type) == CASE type = "samsung_rx" -> SamsungSeed
                [] type = "bestin_sum" -> Wrap(3)
                [] OTHER -> 0

\* One more byte in a running checksum.
Update(type, sum, byte) ==
    CASE type \in AddsBytes -> Wrap(sum + byte)
      [] type = "bestin_sum" -> Wrap(Xor(byte, sum) + 1)
      [] OTHER -> Xor(sum, byte)

\* What a variant does to the running value once the data has ended.
Finish(type, sum, data) ==
    CASE type = "samsung_tx" -> Xor(sum, TopBit)
      [] type = "samsung_rx" /\ data # <<>> /\ data[1] < SamsungLimit -> Xor(sum, TopBit)
      [] type = "samsung_xor" -> sum % TopBit
      [] OTHER -> sum

Running(type, data) ==
    LET sum[n \in 0 .. Len(data)] ==
            IF n = 0 THEN Seed(type) ELSE Update(type, sum[n - 1], data[n])
    IN sum[Len(data)]

\* bytes holds header and data, without the checksum and the footer.
CalculateChecksum(type, headerLength, bytes) ==
    LET data == IF type \in SkipsHeader
                THEN SubSeq(bytes, headerLength + 1, Len(bytes)) ELSE bytes
    IN Finish(type, Running(type, data), data)

\* The two-byte checksum: exclusive or, then sum plus exclusive or.
XorAdd(bytes) ==
    LET temp == Running("xor", bytes)
    IN <<temp, Wrap(Running("add", bytes) + temp)>>
-----------------------------------------------------------------------------
(* The parser.                                                             *)

CONSTANTS
    Configs,        \* packet_defaults: records with the fields of ConfigType
    MaxBuffer,      \* MAX_BUFFER_SIZE
    SparseLimit,    \* fewer valid headers than this: no sliding window
    MaxChunk,       \* bound: bytes of a chunk
    MaxReceived     \* bound: bytes since the last fresh start

ConfigType == [header: Seq(Byte), footer: Seq(Byte), length: Nat, minLength: Nat,
               maxLength: Nat, lengthAt: Nat, validHeaders: SUBSET Byte,
               checksum: Standard1Byte \cup {"xor_add", "none"}, timeout: BOOLEAN]

ASSUME ParserAssumption ==
    /\ \A c \in Configs : c \in ConfigType
    /\ {MaxBuffer, MaxChunk, MaxReceived} \subseteq Nat \ {0}
    /\ SparseLimit \in Nat

VARIABLES
    config,     \* the configuration the parser was built with
    buffer,     \* the bytes not consumed yet
    scanned,    \* lastScannedLength: lengths the sweep need not try again
    pc,         \* "loop" inside parseChunk, "idle" between two chunks
    received, emitted, overflowed

vars == <<config, buffer, scanned, pc, received, emitted, overflowed>>

-----------------------------------------------------------------------------
(* What the constructor derives from the configuration.                    *)

headerLength == Len(config.header)
footerLength == Len(config.footer)
getChecksumLength == CASE config.checksum = "xor_add" -> 2
                       [] config.checksum = "none" -> 0
                       [] OTHER -> 1

isLengthAllowed(length) ==
    /\ length >= config.minLength
    /\ config.maxLength > 0 => length <= config.maxLength

\* With a table of valid headers, a packet starts with one of them.
ValidStart(byte) == config.validHeaders # {} => byte \in config.validHeaders

\* Does the checksum just before the last `trailing` bytes fit the packet?
ChecksumFits(packet, trailing) ==
    LET stop == Len(packet) - trailing - getChecksumLength
    IN CASE config.checksum = "none" -> TRUE
         [] config.checksum = "xor_add" ->
              XorAdd(SubSeq(packet, 1, stop)) = <<packet[stop + 1], packet[stop + 2]>>
         [] OTHER -> CalculateChecksum(config.checksum, headerLength, SubSeq(packet, 1, stop))
                       = packet[stop + 1]

verifyChecksum(packet) ==
    /\ isLengthAllowed(Len(packet))
    /\ config.checksum = "xor_add" => Len(packet) - 2 - footerLength >= headerLength
    /\ ChecksumFits(packet, footerLength)

Drop(s, n) == SubSeq(s, n + 1, Len(s))
Take(s, n) == SubSeq(s, 1, n)
HeaderPlaces(s) == {i \in 0 .. (Len(s) - headerLength) :
                        SubSeq(s, i + 1, i + headerLength) = config.header}

-----------------------------------------------------------------------------
(* Strategy A.  The checksum of the window slides over the buffer: a byte  *)
(* leaves, a byte enters.                                                  *)

UsesWindow == /\ ~(config.validHeaders # {} /\ Cardinality(config.validHeaders) < SparseLimit)
              /\ config.checksum \notin {"bestin_sum", "none"}

\* Variant with a fault: the byte that leaves the window stays in the sum.
SlideWithoutLeaving(type, sum, leaving, entering) ==
    IF type \in AddsBytes THEN Wrap(sum + entering) ELSE Xor(sum, entering)

\* One byte leaves the window and one enters it.
Slide(type, sum, leaving, entering) ==
    IF type \in AddsBytes THEN Wrap(sum - leaving + entering)
    ELSE Xor(Xor(sum, leaving), entering)

WindowStart == IF config.checksum \in SkipsHeader \cup {"samsung_xor"}
               THEN headerLength ELSE 0
WindowEnd == config.length - getChecksumLength - footerLength

\* The window holds what the checksum covers.  Under samsung_xor it leaves out the
\* header, which verifyChecksum counts; and a length may leave no room for a window.
WindowCovers ==
    config.length > 0 /\ UsesWindow =>
        /\ headerLength <= WindowEnd
        /\ config.checksum = "samsung_xor" => headerLength = 0

\* The running value of the window at each offset of s.
Window(type, s) ==
    LET run[o \in 0 .. (Len(s) - config.length)] ==
            IF o = 0 THEN Running(type, SubSeq(s, WindowStart + 1, WindowEnd))
            ELSE Slide(type, run[o - 1], s[o + WindowStart], s[o + WindowEnd])
    IN run

\* The offsets of s at which a packet of the fixed length fits.
FixedMatches(s) ==
    {o \in 0 .. (Len(s) - config.length) :
        /\ ValidStart(s[o + 1])
        /\ CASE ~UsesWindow -> verifyChecksum(SubSeq(s, o + 1, o + config.length))
             [] UsesWindow /\ config.checksum = "xor_add" ->
                  LET temp == Window("xor", s)[o]
                  IN /\ temp = s[o + WindowEnd + 1]
                     /\ Wrap(Window("add", s)[o] + temp) = s[o + WindowEnd + 2]
             [] OTHER ->
                  Finish(config.checksum, Window(config.checksum, s)[o],
                         SubSeq(s, o + headerLength + 1, o + WindowEnd))
                    = s[o + WindowEnd + 1]}

-----------------------------------------------------------------------------
(* The steps of the loop.  s is the buffer once it starts with the header,  *)
(* n the value of lastScannedLength that goes with it.                      *)

Stop(s, n) ==
    /\ pc' = "idle"
    /\ buffer' = s
    /\ scanned' = n
    /\ UNCHANGED <<config, received, emitted, overflowed>>

\* consumeBytes, then the next iteration.
Skip(s, n) ==
    /\ buffer' = Drop(s, n)
    /\ scanned' = 0
    /\ UNCHANGED <<config, pc, received, emitted, overflowed>>

\* A packet of n bytes is taken out of s after o bytes of noise.
Emit(s, o, n) ==
    /\ emitted' = Append(emitted, [at |-> Len(received) - Len(s) + o,
                                   packet |-> SubSeq(s, o + 1, o + n)])
    /\ buffer' = Drop(s, o + n)
    /\ scanned' = 0
    /\ UNCHANGED <<config, pc, received, overflowed>>

\* Variant with a fault: the loop goes on without giving up the byte.
RetryAtMaximum(s) ==
    IF config.maxLength > 0 /\ Len(s) > config.maxLength
    THEN Skip(s, 0) ELSE Stop(s, Len(s))

\* Nothing fits yet: beyond the maximum length one byte is given up.
WaitOrShift(s) ==
    IF config.maxLength > 0 /\ Len(s) > config.maxLength
    THEN Skip(s, 1) ELSE Stop(s, Len(s))

FixedLength(s, n) ==
    /\ config.length > 0
    /\ \/ /\ Len(s) < config.length
          /\ Stop(s, n)
       \/ /\ Len(s) >= config.length
          /\ ~isLengthAllowed(config.length)
          /\ Skip(s, 1)
       \/ /\ Len(s) >= config.length
          /\ isLengthAllowed(config.length)
          /\ IF FixedMatches(s) # {} THEN Emit(s, Min(FixedMatches(s)), config.length)
             ELSE Stop(Drop(s, Len(s) - config.length + 1), 0)

\* The lengths at which a footer ends.
FooterEnds(s, minLength) ==
    {k \in minLength .. Len(s) : SubSeq(s, k - footerLength + 1, k) = config.footer}

\* The lengths that decide: one that is not allowed, or whose checksum, carried
\* on from footer to footer, fits.
Decisive(s, minLength) ==
    {k \in FooterEnds(s, minLength) :
        isLengthAllowed(k) => ChecksumFits(Take(s, k), footerLength)}

\* Strategy B: the first footer that decides.
FooterDelimited(s) ==
    LET minLength == headerLength + 1 + getChecksumLength + footerLength
        decisive == Decisive(s, minLength)
    IN /\ config.length = 0 /\ config.footer # <<>>
       /\ CASE Len(s) < minLength -> WaitOrShift(s)
            [] Len(s) >= minLength /\ ~ValidStart(s[1]) -> Skip(s, 1)
            [] OTHER -> IF decisive = {} THEN WaitOrShift(s)
                        ELSE LET k == Min(decisive)
                             IN IF isLengthAllowed(k) THEN Emit(s, 0, k) ELSE Skip(s, k)

\* rx_length_expr, an expression over the buffer: here the value of one of its
\* bytes, 0 when there is none (the expression fails and the sweep decides).
DynamicLength(s) == IF config.lengthAt \in 1 .. Len(s) THEN s[config.lengthAt] ELSE 0

\* The lengths whose checksum, carried on from length to length, fits.
SweepFits(s, startLength, scanLimit) ==
    {k \in startLength .. scanLimit : ChecksumFits(Take(s, k), 0)}

\* Strategy C: the shortest length whose checksum fits.  Lengths tried in an
\* earlier chunk are not tried again.
ChecksumSweep(s, n) ==
    LET minLength == headerLength + getChecksumLength
        dynamic == DynamicLength(s)
        startLength == Max({minLength, n + 1, config.minLength})
        scanLimit == IF config.maxLength > 0 THEN Min({Len(s), config.maxLength}) ELSE Len(s)
        fits == SweepFits(s, startLength, scanLimit)
    IN /\ config.length = 0 /\ config.footer = <<>>
       /\ CASE getChecksumLength = 0 \/ Len(s) < minLength -> WaitOrShift(s)
            [] getChecksumLength > 0 /\ Len(s) >= minLength /\ ~ValidStart(s[1]) -> Skip(s, 1)
            [] OTHER ->
                 CASE dynamic \in 1 .. Len(s) /\ ~isLengthAllowed(dynamic) -> Skip(s, dynamic)
                   [] dynamic \in 1 .. Len(s) /\ verifyChecksum(Take(s, dynamic)) ->
                        Emit(s, 0, dynamic)
                   [] OTHER -> CASE startLength > scanLimit -> Stop(s, Len(s))
                                 [] fits # {} -> Emit(s, 0, Min(fits))
                                 [] OTHER -> WaitOrShift(s)

\* One iteration of the loop.  The header is enforced first: what precedes it
\* goes, and without one only the bytes that may be its beginning stay.
Iterate ==
    /\ pc = "loop"
    /\ \/ /\ Len(buffer) = 0 \/ Len(buffer) < headerLength
          /\ Stop(buffer, scanned)
       \/ /\ Len(buffer) >= headerLength /\ headerLength > 0
          /\ HeaderPlaces(buffer) = {}
          /\ Stop(Drop(buffer, Len(buffer) - (headerLength - 1)), 0)
       \/ /\ Len(buffer) > 0 /\ HeaderPlaces(buffer) # {}
          /\ LET first == Min(HeaderPlaces(buffer))
                 s == Drop(buffer, first)
                 n == IF first = 0 THEN scanned ELSE 0
             IN FixedLength(s, n) \/ FooterDelimited(s) \/ ChecksumSweep(s, n)

\* appendChunk: what does not fit drives out the oldest bytes.
AppendChunk(s, chunk) ==
    LET all == s \o chunk
    IN Drop(all, Max({0, Len(all) - MaxBuffer}))

\* parseChunk is called with a chunk.  After rx_timeout of silence the parser
\* starts afresh.
ParseChunk(chunk, silent) ==
    /\ pc = "idle"
    /\ silent => config.timeout
    /\ Len(received) + Len(chunk) <= MaxReceived \/ silent
    /\ LET kept == IF silent THEN <<>> ELSE buffer
           fits == Len(kept) + Len(chunk) <= MaxBuffer
       IN /\ buffer' = AppendChunk(kept, chunk)
          /\ scanned' = IF silent \/ ~fits THEN 0 ELSE scanned
          /\ received' = (IF silent THEN <<>> ELSE received) \o chunk
          /\ emitted' = IF silent THEN <<>> ELSE emitted
          /\ overflowed' = ((~silent /\ overflowed) \/ ~fits)
    /\ pc' = "loop"
    /\ UNCHANGED config

Init ==
    /\ config \in Configs
    /\ buffer = <<>>
    /\ scanned = 0
    /\ pc = "idle"
    /\ received = <<>>
    /\ emitted = <<>>
    /\ overflowed = FALSE

Next ==
    \/ \E chunk \in BoundedSeq(Byte, MaxChunk) \ {<<>>}, silent \in BOOLEAN :
            ParseChunk(chunk, silent)
    \/ Iterate

Spec == Init /\ [][Next]_vars

-----------------------------------------------------------------------------
(* What the parser should find: the packets of the whole stream, read at   *)
(* once from left to right, with every checksum computed afresh.           *)

\* Offsets of a stream at which a packet may start.
StreamStarts(stream) ==
    {o \in HeaderPlaces(stream) : o < Len(stream) /\ ValidStart(stream[o + 1])}

\* The lengths of s at which a packet may end.
Candidates(s) ==
    IF config.footer # <<>>
    THEN {k \in FooterEnds(s, headerLength + 1 + getChecksumLength + footerLength) :
              isLengthAllowed(k) => verifyChecksum(Take(s, k))}
    ELSE {k \in (headerLength + getChecksumLength) .. Len(s) :
              getChecksumLength > 0 /\ verifyChecksum(Take(s, k))}

\* The offsets, from p on, at which a packet of the fixed length verifies.
FixedStarts(stream, p) ==
    {o \in p .. (Len(stream) - config.length) :
        /\ ValidStart(stream[o + 1])
        /\ verifyChecksum(SubSeq(stream, o + 1, o + config.length))}

\* Where the stream is looked at next, from offset p on: nowhere, or the bytes from
\* `at` to `end`.
Nowhere == [at |-> 0, end |-> 0]
NextPiece(stream, p) ==
    LET found == IF config.length > 0 THEN FixedStarts(stream, p)
                 ELSE {o \in StreamStarts(stream) : o >= p}
        first == Min(found)
        ends  == IF config.length > 0 THEN {config.length} ELSE Candidates(Drop(stream, first))
    IN IF found = {} THEN Nowhere
       ELSE IF ends = {} THEN Nowhere
       ELSE [at |-> first, end |-> first + Min(ends)]

Frame(stream, piece) ==
    [at |-> piece.at, packet |-> SubSeq(stream, piece.at + 1, piece.end)]

\* The packets of a stream from offset p on.
FramesFrom(stream, from) ==
    LET frames[p \in 0 .. Len(stream)] ==
            LET piece == NextPiece(stream, p)
            IN IF piece = Nowhere THEN <<>>
               ELSE IF isLengthAllowed(piece.end - piece.at)
                    THEN <<Frame(stream, piece)>> \o frames[piece.end]
                    ELSE frames[piece.end]
    IN frames[from]

\* The configurations whose packets are a matter of the stream alone: with a
\* maximum length the parser gives up bytes when a chunk ends, a dynamic length
\* counts only once the buffer holds that much, and the fixed-length scan
\* looks for the header only where a chunk leaves the buffer.
DependsOnChunks ==
    \/ config.maxLength > 0
    \/ config.lengthAt > 0
    \/ config.length > 0 /\ headerLength > 0

(***************************************************************************)
(* However the stream is cut into chunks, the packets are those of the      *)
(* stream: the sliding window, the lengths remembered by the sweep and the  *)
(* bytes kept for a split header (parseChunk) lose and invent nothing.      *)
(***************************************************************************)
FramesOfTheStream ==
    pc = "idle" /\ ~overflowed /\ ~DependsOnChunks /\ WindowCovers
        => emitted = FramesFrom(received, 0)

(***************************************************************************)
(* The lengths the sweep skips because an earlier chunk tried them          *)
(* (lastScannedLength) are lengths at which the packet at the front of the  *)
(* buffer does not verify: the memory is never that of another start.       *)
(***************************************************************************)
ScannedInVain ==
    (pc = "idle" /\ config.length = 0 /\ config.footer = <<>> /\ getChecksumLength > 0) =>
        \A k \in (headerLength + getChecksumLength) .. Min({scanned, Len(buffer)}) :
            (HeaderPlaces(buffer) # {} /\ Min(HeaderPlaces(buffer)) = 0) =>
                ~verifyChecksum(Take(buffer, k))

(***************************************************************************)
(* Whatever the chunks, the silences and the overflows: a packet verifies   *)
(* on its own, and the packets and the bytes still buffered are separate    *)
(* pieces of the stream in its order.                                      *)
(***************************************************************************)
PacketsAreGenuine ==
    /\ \A i \in DOMAIN emitted :
         LET e == emitted[i]
             end == e.at + Len(e.packet)
         IN /\ WindowCovers => verifyChecksum(e.packet)
            /\ config.length = 0 /\ (config.lengthAt > 0 => Len(e.packet) >= headerLength)
                 => SubSeq(e.packet, 1, headerLength) = config.header
            /\ e.packet = SubSeq(received, e.at + 1, end)
            /\ end <= (IF i = Len(emitted) THEN Len(received) - Len(buffer)
                       ELSE emitted[i + 1].at)
    /\ buffer = Drop(received, Len(received) - Len(buffer))

(***************************************************************************)
(* Every iteration of the loop ends the call or takes a byte off the        *)
(* buffer, so the guard against endless loops (maxIterations) never has to  *)
(* drop a byte.                                                            *)
(***************************************************************************)
IterationsConsume ==
    [][pc = "loop" => pc' = "idle" \/ Len(buffer') < Len(buffer)]_vars

-----------------------------------------------------------------------------
(***************************************************************************)
(* The packets that the bridge builds itself, for the same wire:             *)
(* framePacket of generic.device.ts for the commands of entities,             *)
(* constructCommandPacket of command.generator.ts, which it superseded,        *)
(* constructCustomPacket of bridge.service.ts, with which the packet sender of *)
(* the web UI builds what it previews and sends, and                         *)
(* executeSendPacketAction of automation-manager.ts.  Each frames its payload *)
(* with a code of its own.                                                   *)
(***************************************************************************)
CONSTANTS
    Headers, Footers,   \* of the settings
    Scripts,            \* what an expression given for a checksum evaluates to
    MaxPayload          \* bound: bytes of a payload

ASSUME BuildersAssumption ==
    /\ Headers \subseteq Seq(Byte) /\ Footers \subseteq Seq(Byte)
    /\ \A given \in Scripts : given.is = "number" => given.value \in Int
    /\ MaxPayload \in Nat

\* packet_defaults of one direction.  An expression gives a number, a list of
\* bytes, or fails.
Settings == [header : Headers, footer : Footers, checksum : Standard1Byte \cup {"none", "script"},
             checksum2 : {"none", "xor_add", "script"}, script : Scripts]

Failed    == [is |-> "failure", value |-> 0]
Number(n) == [is |-> "number", value |-> n]
List(s)   == [is |-> "list", value |-> s]

\* What reaches the port: Buffer.from keeps the low bits of every number.
OnTheWire(bytes) == [i \in DOMAIN bytes |-> Wrap(bytes[i])]

Standard(s, covered) == CalculateChecksum(s.checksum, Len(s.header), covered)

\* framePacket: an expression for one byte may give as many as it likes.
FrameChecksum(s, covered) ==
    CASE s.checksum \in Standard1Byte -> <<Standard(s, covered)>>
      [] s.checksum = "script" ->
           (CASE s.script.is = "number" -> <<s.script.value>>
              [] s.script.is = "list" -> s.script.value
              [] OTHER -> <<>>)
      [] s.checksum = "none" /\ s.checksum2 = "xor_add" -> XorAdd(covered)
      [] s.checksum = "none" /\ s.checksum2 = "script" ->
           (IF s.script.is = "list" THEN s.script.value ELSE <<>>)
      [] OTHER -> <<>>

Framed(s, payload) ==
    s.header \o payload \o FrameChecksum(s, s.header \o payload) \o s.footer

\* constructCommandPacket: bestin_sum is not among its types, so that it is taken
\* for an expression, which fails; a checksum it cannot compute is zero.
GeneratedChecksum(s, covered) ==
    CASE s.checksum \in Standard1Byte \ {"bestin_sum"} -> <<Standard(s, covered)>>
      [] s.checksum = "bestin_sum" -> <<0>>
      [] s.checksum = "script" ->
           (IF s.script.is = "number" THEN <<Wrap(s.script.value)>> ELSE <<0>>)
      [] s.checksum = "none" /\ s.checksum2 = "xor_add" -> XorAdd(covered)
      [] s.checksum = "none" /\ s.checksum2 = "script" ->
           (IF s.script.is = "list" /\ Len(s.script.value) = 2
            THEN s.script.value ELSE <<0, 0>>)
      [] OTHER -> <<>>

Generated(s, payload) ==
    s.header \o payload \o GeneratedChecksum(s, s.header \o payload) \o s.footer

\* constructCustomPacket, with the settings for received packets and the parts
\* the user ticked: here the two bytes go first, and the header that is left out
\* is not part of the sum.  An expression throws.
CustomPacket(s, parts, payload) ==
    LET header  == IF "header" \in parts THEN s.header ELSE <<>>
        footer  == IF "footer" \in parts THEN s.footer ELSE <<>>
        covered == header \o payload
        sum == CASE "checksum" \notin parts -> <<>>
                 [] "checksum" \in parts /\ s.checksum2 = "xor_add" -> XorAdd(covered)
                 [] "checksum" \in parts /\ s.checksum2 = "none" /\ s.checksum # "none" ->
                      <<CalculateChecksum(s.checksum, Len(header), covered)>>
                 [] OTHER -> <<>>
    IN covered \o sum \o footer

\* executeSendPacketAction, with the parts the action asks for: the sum counts the
\* header as data, whatever its type.  An expression throws, so that nothing is sent.
SentPackets(s, parts, payload) ==
    LET header  == IF "header" \in parts THEN s.header ELSE <<>>
        footer  == IF "footer" \in parts THEN s.footer ELSE <<>>
        covered == header \o payload
        sums == CASE "checksum" \notin parts -> {<<>>}
                  [] "checksum" \in parts /\ s.checksum \in Standard1Byte ->
                       {<<CalculateChecksum(s.checksum, 0, covered)>>}
                  [] "checksum" \in parts /\ s.checksum = "none" /\ s.checksum2 # "script" ->
                       {IF s.checksum2 = "xor_add" THEN XorAdd(covered) ELSE <<>>}
                  [] OTHER -> {}
    IN {covered \o sum \o footer : sum \in sums}

AllParts == {"header", "checksum", "footer"}

-----------------------------------------------------------------------------
(***************************************************************************)
(* The four agree on what a payload looks like on the wire for the same        *)
(* settings, where all of them know the checksum: one of the standard types     *)
(* but bestin_sum, or an expression that gives as many bytes as its setting      *)
(* asks for; and, for an action of an automation, one that counts the header.  *)
(***************************************************************************)
BuildersAgree ==
    \A s \in Settings, payload \in BoundedSeq(Byte, MaxPayload) :
        LET used == IF s.checksum # "none" THEN s.checksum ELSE s.checksum2
            fits == /\ s.checksum # "none" => s.script.is = "number"
                    /\ s.checksum = "none" => s.script.is = "list" /\ Len(s.script.value) = 2
        IN /\ s.checksum # "bestin_sum" /\ (used = "script" => fits)
                => OnTheWire(Framed(s, payload)) = OnTheWire(Generated(s, payload))
           /\ "none" \in {s.checksum, s.checksum2} /\ "script" \notin {s.checksum, s.checksum2}
                => CustomPacket(s, AllParts, payload) = Framed(s, payload)
           /\ used # "script" /\ (s.header # <<>> => s.checksum \notin SkipsHeader)
                => SentPackets(s, AllParts, payload) = {Framed(s, payload)}

\* The settings of the parser that runs.
Own == [header |-> config.header, footer |-> config.footer,
        checksum  |-> IF config.checksum = "xor_add" THEN "none" ELSE config.checksum,
        checksum2 |-> IF config.checksum = "xor_add" THEN "xor_add" ELSE "none"]

IsBuilt(packet) ==
    LET length == Len(packet) - headerLength - getChecksumLength - footerLength
    IN length > 0 /\ packet = CustomPacket(Own, AllParts,
                                           SubSeq(packet, headerLength + 1, headerLength + length))

\* The parser takes part of the packet for a packet.
Anticipated(packet) ==
    IF config.footer # <<>>
    THEN \E k \in FooterEnds(packet, headerLength + 1 + getChecksumLength + footerLength)
                    \ {Len(packet)} :
             isLengthAllowed(k) => verifyChecksum(Take(packet, k))
    ELSE config.length = 0 /\ \E k \in (headerLength + getChecksumLength) .. (Len(packet) - 1) :
             verifyChecksum(Take(packet, k))

(***************************************************************************)
(* What the packet sender builds, the parser reads: a built packet of a length  *)
(* and a first byte the settings allow is found whole, however it is cut,       *)
(* unless a part of it is a packet already.                                  *)
(***************************************************************************)
BuiltIsRead ==
    /\ pc = "idle" /\ ~overflowed /\ ~DependsOnChunks /\ received # <<>>
    /\ getChecksumLength > 0 \/ config.footer # <<>> \/ config.length > 0
    /\ config.length \in {0, Len(received)}
    /\ isLengthAllowed(Len(received)) /\ ValidStart(received[1])
    /\ IsBuilt(received) /\ ~Anticipated(received)
    => emitted = <<[at |-> 0, packet |-> received]>>
=============================================================================

-------------------------- MODULE RawPacketLogger --------------------------
(***************************************************************************)
(* Recording the bus into a file:                                           *)
(* packages/service/src/raw-packet-logger.service.ts.  start waits for      *)
(* mkdir between the check of isLogging and its assignment, the route       *)
(* (logs.routes.ts) does not wait for start, and a stream may report an     *)
(* error at any time, even after its recording.                             *)
(***************************************************************************)
EXTENDS Integers, Sequences, FiniteSets

CONSTANTS
    MaxRecordings,  \* bound on the files opened
    MaxPackets      \* bound on the packets of the bus

VARIABLES
    isLogging,
    logMode,
    stream,     \* writeStream: the number of its file, 0 for null
    opened,     \* files opened so far
    starts,     \* calls of start awaiting mkdir
    on,         \* registrations on the event bus, per event
    packetCount,
    file,       \* packets written to the current file
    bus,        \* packets sent or received so far (bound)
    due,        \* packets of the mode since the recording began (history)
    overlapped  \* two starts have awaited mkdir together (history)

vars == <<isLogging, logMode, stream, opened, starts, on, packetCount, file,
          bus, due, overlapped>>

Modes  == {"all", "valid"}
Events == {"raw-data-with-interval", "raw-valid-packet", "raw-tx-packet"}

\* The events a mode listens to.
Heard(mode) == {"raw-tx-packet",
                IF mode = "valid" THEN "raw-valid-packet" ELSE "raw-data-with-interval"}

Init ==
    /\ isLogging = FALSE
    /\ logMode = "all"
    /\ stream = 0
    /\ opened = 0
    /\ starts = 0
    /\ on = [e \in Events |-> 0]
    /\ packetCount = 0
    /\ file = <<>>
    /\ bus = 0
    /\ due = <<>>
    /\ overlapped = FALSE

\* start, up to the await of mkdir
Start(mode) ==
    /\ ~isLogging
    /\ opened + starts < MaxRecordings
    /\ logMode' = mode
    /\ starts' = starts + 1
    /\ overlapped' = (overlapped \/ starts > 0)
    /\ UNCHANGED <<isLogging, stream, opened, on, packetCount, file, bus, due>>

\* start, after mkdir
Resume ==
    /\ starts > 0
    /\ starts' = starts - 1
    /\ opened' = opened + 1
    /\ stream' = opened'
    /\ isLogging' = TRUE
    /\ packetCount' = 0
    /\ file' = <<>>
    /\ due' = <<>>
    /\ on' = [e \in Events |-> on[e] + (IF e \in Heard(logMode) THEN 1 ELSE 0)]
    /\ UNCHANGED <<logMode, bus, overlapped>>

\* removeListeners: off takes one registration of each event.
RemovedListeners == [e \in Events |-> IF on[e] = 0 THEN 0 ELSE on[e] - 1]

\* stop, when a recording is on; nothing happens otherwise.
Stop == IF isLogging
        THEN /\ stream' = 0
             /\ on' = RemovedListeners
             /\ isLogging' = FALSE
        ELSE UNCHANGED <<stream, on, isLogging>>

UserStops ==
    /\ isLogging
    /\ Stop
    /\ UNCHANGED <<logMode, opened, starts, packetCount, file, bus, due, overlapped>>

MkdirFails ==
    /\ starts > 0
    /\ starts' = starts - 1
    /\ Stop
    /\ UNCHANGED <<logMode, opened, packetCount, file, bus, due, overlapped>>

\* The error handler of any stream opened so far stops what goes on now.
StreamError ==
    /\ opened > 0 /\ isLogging
    /\ Stop
    /\ UNCHANGED <<logMode, opened, starts, packetCount, file, bus, due, overlapped>>

\* handleRxPacket and handleTxPacket
Packet(event) ==
    /\ bus < MaxPackets
    /\ bus' = bus + 1
    /\ IF stream # 0
       THEN /\ packetCount' = packetCount + on[event]
            /\ file' = file \o [i \in 1 .. on[event] |-> bus']
       ELSE UNCHANGED <<packetCount, file>>
    /\ due' = IF isLogging /\ event \in Heard(logMode) THEN Append(due, bus') ELSE due
    /\ UNCHANGED <<isLogging, logMode, stream, opened, starts, on, overlapped>>

Next ==
    \/ \E mode \in Modes : Start(mode)
    \/ Resume
    \/ UserStops
    \/ MkdirFails
    \/ StreamError
    \/ \E event \in Events : Packet(event)

Spec == Init /\ [][Next]_vars

-----------------------------------------------------------------------------

\* Unless two starts overlapped, a recording holds every packet of its mode
\* exactly once and in order, the summary counts them, and between recordings
\* the logger listens to nothing; whatever overlapped, it has a stream to write
\* to exactly during a recording.
RecordingIsExact ==
    /\ isLogging <=> stream # 0
    /\ ~overlapped =>
         /\ isLogging => file = due /\ packetCount = Len(file)
         /\ \A e \in Events :
              on[e] = IF isLogging /\ e \in Heard(logMode) THEN 1 ELSE 0

\* What makes it inductive: a start that did not overlap with another found no
\* recording, and none can begin before it has come back from mkdir.
RecorderInv == ~overlapped => starts \in 0 .. 1 /\ (starts > 0 => ~isLogging)
=============================================================================

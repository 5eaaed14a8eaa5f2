------------------------------ MODULE WebLogs ------------------------------
(***************************************************************************)
(* The packet logs of a page of the web interface: the dictionary of packets *)
(* and the logs in packages/ui/src/App.svelte, filled from the stream and    *)
(* from the history of LogRetentionService, whose answer is asked for while  *)
(* the stream begins (loadBridgeInfo).                                      *)
(*                                                                         *)
(* Both sides name a packet by an id p1, p2, ... of their own, here the      *)
(* number.  A log entry is the id and the time of one reception; `packet` is *)
(* what was received, which the program looks up by the id.  Of the two logs *)
(* (commands and parsed packets), which work alike, one is modelled.         *)
(***************************************************************************)
EXTENDS Integers, Sequences, FiniteSets, SequencesExt

CONSTANTS
    Packets,       \* what may be received
    MaxEntries,    \* bound: receptions
    MaxReconnects  \* bound: connections after the first

VARIABLES
    cached,           \* packetDictionary of the service, in the order of its ids
    packetLogs,       \* parsedPacketLogs of the service
    wire,             \* entries on their way to the page: [packet, at]
    packetDictionary, \* of the page: id to packet
    packetIdCounter,  \* of the page's connection
    logs,             \* parsedPacketLogs of the page, newest first
    buffer,           \* parsedLogBuffer
    history,          \* the request: "asked", the answer on its way, "merged", "failed"
    reconnects,
    heard             \* history: the receptions the page was told of

serviceVars == <<cached, packetLogs>>
vars == <<serviceVars, wire, packetDictionary, packetIdCounter, logs, buffer, history, reconnects, heard>>

Asked == [at |-> "asked"]
Merged == [at |-> "merged"]
Failed == [at |-> "failed"]

Init ==
    /\ \E n \in 0 .. 2, p \in [1 .. 2 -> Packets] :   \* what was received before
         /\ n = 2 => p[1] # p[2]
         /\ cached = SubSeq(p, 1, n)
         /\ packetLogs = [i \in 1 .. n |-> [id |-> i, at |-> i, packet |-> p[i]]]
    /\ wire = <<>>
    /\ packetDictionary = <<>> /\ packetIdCounter = 0
    /\ logs = <<>> /\ buffer = <<>>
    /\ history = Asked
    /\ reconnects = 0
    /\ heard = {}

-----------------------------------------------------------------------------
(* The service.                                                            *)

\* A packet is parsed: the service keeps it and tells the page.
Receive(packet) ==
    LET at == Len(packetLogs) + 1
        id == IF Contains(cached, packet) THEN SelectInSeq(cached, LAMBDA p : p = packet)
              ELSE Len(cached) + 1
    IN /\ at <= MaxEntries
       /\ cached' = IF id > Len(cached) THEN Append(cached, packet) ELSE cached
       /\ packetLogs' = Append(packetLogs, [id |-> id, at |-> at, packet |-> packet])
       /\ wire' = Append(wire, [packet |-> packet, at |-> at])
       /\ UNCHANGED <<packetDictionary, packetIdCounter, logs, buffer, history, reconnects, heard>>

\* GET /api/packets/parsed/history
AnswerHistory ==
    /\ history = Asked
    /\ history' = [at |-> "answered", dictionary |-> cached, logs |-> packetLogs]
    /\ UNCHANGED <<serviceVars, wire, packetDictionary, packetIdCounter, logs, buffer, reconnects, heard>>

-----------------------------------------------------------------------------
(* The page.                                                               *)

\* handleParsedPacket: the id the packet has, or a new one.  The counter counts
\* on from the number of ids at the connection.
Hear ==
    /\ wire # <<>>
    /\ LET m     == Head(wire)
           known == {id \in DOMAIN packetDictionary : packetDictionary[id] = m.packet}
       IN \E id \in IF known # {} THEN known ELSE {packetIdCounter + 1} :
          /\ packetDictionary' = [i \in DOMAIN packetDictionary \cup {id} |->
                                    IF i = id THEN m.packet ELSE packetDictionary[i]]
          /\ packetIdCounter' = IF known = {} THEN id ELSE packetIdCounter
          /\ buffer' = Append(buffer, [id |-> id, at |-> m.at, packet |-> m.packet])
    /\ heard' = heard \cup {Head(wire).at}
    /\ wire' = Tail(wire)
    /\ UNCHANGED <<serviceVars, logs, history, reconnects>>

\* insertSortedLogEntry: behind the entries that are newer or as old.
Inserted(list, entry) ==
    LET i == Cardinality({j \in DOMAIN list : list[j].at >= entry.at})
    IN SubSeq(list, 1, i) \o <<entry>> \o SubSeq(list, i + 1, Len(list))

\* The entries of a list, of different times, the newest first.
NewestFirst(list) ==
    CHOOSE sorted \in [DOMAIN list -> ToSet(list)] :
        /\ ToSet(sorted) = ToSet(list)
        /\ \A i, j \in DOMAIN list : i < j => sorted[i].at > sorted[j].at

\* flushLogBuffers, every 250 ms: the buffer, newest first, is put in front when
\* its newest entry is, otherwise entry by entry in its place.
Flush ==
    /\ buffer # <<>>
    /\ LET newestFirst == NewestFirst(buffer)
       IN logs' = IF logs = <<>> \/ newestFirst[1].at >= logs[1].at THEN newestFirst \o logs
                  ELSE FoldLeft(Inserted, logs, newestFirst)
    /\ buffer' = <<>>
    /\ UNCHANGED <<serviceVars, wire, packetDictionary, packetIdCounter, history, reconnects, heard>>

\* loadPacketHistory goes on: the dictionaries are merged, the logs replaced.
HistoryArrives ==
    /\ history.at = "answered"
    /\ packetDictionary' = [i \in DOMAIN packetDictionary \cup DOMAIN history.dictionary |->
                              IF i \in DOMAIN history.dictionary THEN history.dictionary[i]
                              ELSE packetDictionary[i]]
    /\ logs' = NewestFirst(history.logs)
    /\ history' = Merged
    /\ UNCHANGED <<serviceVars, wire, packetIdCounter, buffer, reconnects, heard>>

\* The request fails, which the page only writes to the console.
HistoryFails ==
    /\ history.at = "asked" /\ history' = Failed
    /\ UNCHANGED <<serviceVars, wire, packetDictionary, packetIdCounter, logs, buffer, reconnects, heard>>

\* Variant with a fault: the counter of a new connection starts again.
ReconnectFromZero ==
    /\ reconnects < MaxReconnects /\ reconnects' = reconnects + 1
    /\ wire' = <<>>
    /\ packetIdCounter' = 0
    /\ UNCHANGED <<serviceVars, packetDictionary, logs, buffer, history, heard>>

\* Another connection (WebStream): what was on its way is lost.
Reconnect ==
    /\ reconnects < MaxReconnects /\ reconnects' = reconnects + 1
    /\ wire' = <<>>
    /\ packetIdCounter' = Cardinality(DOMAIN packetDictionary)
    /\ UNCHANGED <<serviceVars, packetDictionary, logs, buffer, history, heard>>

Next ==
    \/ \E packet \in Packets : Receive(packet)
    \/ AnswerHistory \/ Hear \/ Flush \/ HistoryArrives \/ HistoryFails \/ Reconnect

Spec == Init /\ [][Next]_vars

-----------------------------------------------------------------------------
(* Properties                                                              *)

Entries == ToSet(logs) \cup ToSet(buffer)
OwnPackets == \A e \in Entries : packetDictionary[e.id] = e.packet

(***************************************************************************)
(* Until the history is merged, over all connections: each entry shows the   *)
(* packet that was received, the log holds the receptions the page was told  *)
(* of, each once and the newest first ("we need to maintain DESCENDING       *)
(* order", App.svelte:161).                                                  *)
(***************************************************************************)
LogsSound ==
    history # Merged =>
        /\ OwnPackets
        /\ \A i, j \in DOMAIN logs : i < j => logs[i].at > logs[j].at
        /\ {e.at : e \in Entries} = heard

\* "Packet dictionary cache (packetId -> hex string)" (App.svelte:287): what an
\* entry shows is the packet that was received.
ShownPacketIsOwn == OwnPackets

-----------------------------------------------------------------------------
(* What makes this inductive                                               *)

\* From the log over the buffer to the wire, the receptions are in order: what
\* is flushed always goes in front.
KeepsOrder ==
    /\ \A i, j \in DOMAIN buffer : i < j => buffer[i].at < buffer[j].at
    /\ \A i \in DOMAIN logs, j \in DOMAIN buffer : logs[i].at < buffer[j].at
    /\ \A i, j \in DOMAIN wire : i < j => wire[i].at < wire[j].at
    /\ \A i \in DOMAIN wire : /\ wire[i].at <= Len(packetLogs)
                             /\ \A t \in heard : t < wire[i].at
    /\ \A t \in heard : t <= Len(packetLogs)

\* The ids of the page are those it has counted, over all connections.
IdsCounted ==
    /\ DOMAIN packetDictionary = 1 .. packetIdCounter
    /\ \A e \in Entries : e.id \in 1 .. packetIdCounter

LogsInv == history # Merged => KeepsOrder /\ IdsCounted
=============================================================================

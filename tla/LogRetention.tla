---------------------------- MODULE LogRetention ----------------------------
(***************************************************************************)
(* The log cache (packages/service/src/log-retention.service.ts): in memory *)
(* the history of packets, its dictionary, and the activity log that feeds  *)
(* it (activity-log.service.ts); on disk the files it is saved to.          *)
(*                                                                         *)
(* The history keeps the id of a packet, the dictionary its bytes; entries  *)
(* expire and the dictionary is pruned while the user switches the cache    *)
(* off and on.  Activity entries wait for setImmediate, unless a reader     *)
(* comes first.  Stored entries are sets: expiry, pruning and the limit ask  *)
(* for their age and number only.                                          *)
(*                                                                         *)
(* On disk, automatic saves with the removal of old files meet saves and    *)
(* removals asked for by the user, with an await before every operation on  *)
(* the directory.  Files are numbered by creation.                         *)
(***************************************************************************)
EXTENDS Integers, Sequences, FiniteSets

CONSTANTS
    Packets,        \* packets of the bus
    Ttl,            \* ttlHours, in ticks
    ActivityTtl,    \* LOG_TTL, in ticks
    MaxLogs,        \* MAX_LOGS
    RetentionCount, \* retentionCount
    MaxTime,        \* bound on the clock
    MaxEvents,      \* bound on the packets heard and the calls of addLog
    MaxFiles        \* bound on the files written

VARIABLES
    clock,
    enabled,        \* LogRetentionService.enabled
    listeners,      \* times the handlers are registered on the event bus
    connected,      \* init has been called and setEnabledCallback too
    early,          \* the settings were changed before init (history)
    byPacket,       \* packetDictionary
    byId,           \* packetDictionaryReverse
    packetIdCounter,
    history,        \* parsedPacketLogs and commandPacketLogs, by kind
    unmatched,      \* validButUnparsedPackets, of one port
    kept,           \* activityLogs of LogRetentionService
    pending,        \* pendingLogs of ActivityLogService
    flushScheduled,
    immediates,     \* calls of setImmediate not yet run
    logs,           \* logs of ActivityLogService
    announced,      \* entries emitted as activity-log:added (history)
    heard,          \* packets heard so far (bound)
    written,        \* files written so far
    files,          \* the files in the directory
    auto,           \* autoSave: what it awaits
    user,           \* cleanupFiles: the files it still has to delete
    removed         \* files the automatic removal deleted (history)

settings   == <<enabled, listeners, connected, early>>
dictionary == <<byPacket, byId, packetIdCounter>>
packets    == <<history, unmatched, heard>>
activity   == <<kept, pending, flushScheduled, immediates, logs, announced>>
memory     == <<clock, settings, dictionary, packets, activity>>
disk       == <<written, files, auto, user, removed>>
vars == <<memory, disk>>

Kinds == {"parsed", "command"}
Added == Len(announced) + Len(pending)
MoreEvents == heard + Added < MaxEvents

Idle == [at |-> "idle", todo |-> {}]

MemoryInit ==
    /\ clock = 0
    /\ enabled = TRUE
    /\ listeners = 0
    /\ connected = FALSE
    /\ early = FALSE
    /\ byPacket = <<>>
    /\ byId = <<>>
    /\ packetIdCounter = 0
    /\ history = [k \in Kinds |-> {}]
    /\ unmatched = {}
    /\ kept = {}
    /\ pending = <<>>
    /\ flushScheduled = FALSE
    /\ immediates = 0
    /\ logs = {}
    /\ announced = <<>>
    /\ heard = 0

DiskInit ==
    /\ written = 0
    /\ files = {}
    /\ auto = Idle
    /\ user = {}
    /\ removed = {}

Init == MemoryInit /\ DiskInit

Tick == /\ clock < MaxTime
        /\ clock' = clock + 1
        /\ UNCHANGED <<settings, dictionary, packets, activity>>

-----------------------------------------------------------------------------
(* Settings *)

\* init with the saved settings, then the callback of the activity log.
Connect ==
    /\ ~connected
    /\ \E saved \in BOOLEAN :
         /\ enabled' = saved
         /\ listeners' = listeners + (IF saved THEN 1 ELSE 0)
         /\ logs' = IF saved THEN logs ELSE {}
    /\ connected' = TRUE
    /\ UNCHANGED <<clock, early, dictionary, packets, kept, pending,
                   flushScheduled, immediates, announced>>

\* EventEmitter.off takes one registration away.
Off == IF listeners = 0 THEN 0 ELSE listeners - 1

\* updateSettings, for the setting `enabled`.
UpdateSettings(wanted) ==
    /\ enabled' = wanted
    /\ early' = (early \/ (~connected /\ wanted # enabled))
    /\ listeners' = IF wanted = enabled THEN listeners
                    ELSE IF wanted THEN listeners + 1 ELSE Off
    /\ IF enabled /\ ~wanted
       THEN /\ history' = [k \in Kinds |-> {}]
            /\ unmatched' = {}
            /\ kept' = {}
       ELSE UNCHANGED <<history, unmatched, kept>>
    /\ UNCHANGED <<clock, connected, dictionary, heard, pending,
                   flushScheduled, immediates, logs, announced>>

-----------------------------------------------------------------------------
(* Packets *)

\* Variant with a fault: ids are numbered by the size of the dictionary.
IdBySize(p) == IF p \in DOMAIN byPacket THEN byPacket[p]
               ELSE Cardinality(DOMAIN byId) + 1

\* getOrCreatePacketId
PacketId(p) == IF p \in DOMAIN byPacket THEN byPacket[p] ELSE packetIdCounter + 1

\* handleParsedPacket and handleCommandPacket; `packet` is not stored, it is
\* what the id stood for.
HearPacket(kind, p) ==
    /\ MoreEvents
    /\ heard' = heard + 1
    /\ IF enabled /\ listeners > 0
       THEN LET id == PacketId(p)
            IN /\ byPacket' = [q \in DOMAIN byPacket \cup {p} |->
                                 IF q = p THEN id ELSE byPacket[q]]
               /\ byId' = [i \in DOMAIN byId \cup {id} |->
                                 IF i = id THEN p ELSE byId[i]]
               /\ packetIdCounter' = packetIdCounter
                                   + (IF p \in DOMAIN byPacket THEN 0 ELSE 1)
               /\ history' = [history EXCEPT ![kind] =
                                 @ \cup {[id |-> id, packet |-> p, at |-> clock]}]
       ELSE UNCHANGED <<dictionary, history>>
    /\ UNCHANGED <<clock, settings, unmatched, activity>>

\* handleUnmatchedPacket
HearUnmatched(p) ==
    /\ MoreEvents
    /\ heard' = heard + 1
    /\ unmatched' = IF enabled /\ listeners > 0 THEN unmatched \cup {p} ELSE unmatched
    /\ UNCHANGED <<clock, settings, dictionary, history, activity>>

Young(s, ttl) == {e \in s : e.at >= clock - ttl}

Used(h) == {e.id : e \in UNION {h[k] : k \in Kinds}}

\* cleanupOldLogs of LogRetentionService, with pruneDictionary.
Cleanup ==
    /\ connected /\ enabled
    /\ history' = [k \in Kinds |-> Young(history[k], Ttl)]
    /\ kept' = Young(kept, Ttl)
    /\ LET pruned == DOMAIN byId \ Used(history')
       IN /\ byId' = [i \in DOMAIN byId \ pruned |-> byId[i]]
          /\ byPacket' = [p \in DOMAIN byPacket \ {byId[i] : i \in pruned} |-> byPacket[p]]
    /\ UNCHANGED <<clock, settings, packetIdCounter, unmatched, heard, pending,
                   flushScheduled, immediates, logs, announced>>

-----------------------------------------------------------------------------
(* Activity *)

\* addLog with scheduleFlush
AddLog ==
    /\ MoreEvents
    /\ pending' = Append(pending, [n |-> Added + 1, at |-> clock])
    /\ flushScheduled' = TRUE
    /\ immediates' = immediates + (IF flushScheduled THEN 0 ELSE 1)
    /\ UNCHANGED <<clock, settings, dictionary, packets, kept, logs, announced>>

\* The newest entries, as many as the log may have.
Newest(s) == {e \in s : Cardinality({f \in s : f.n > e.n}) < MaxLogs}

\* cleanupOldLogs of ActivityLogService: by age, then by number.
Cleaned(s) == Newest(Young(s, ActivityTtl))

\* flushPendingLogs: the entries are announced, the retention hears them, the
\* activity log stores them if the cache is enabled.
Flush ==
    LET flushed == {pending[i] : i \in DOMAIN pending}
    IN /\ flushScheduled' = FALSE
       /\ pending' = <<>>
       /\ announced' = announced \o pending
       /\ kept' = IF enabled /\ listeners > 0 THEN kept \cup flushed ELSE kept
       /\ logs' = IF connected => enabled
                  THEN IF Cardinality(logs \cup flushed) > MaxLogs
                       THEN Cleaned(logs \cup flushed) ELSE logs \cup flushed
                  ELSE logs

Immediate ==
    /\ immediates > 0
    /\ immediates' = immediates - 1
    /\ IF pending = <<>> THEN /\ flushScheduled' = FALSE
                              /\ UNCHANGED <<pending, announced, kept, logs>>
       ELSE Flush
    /\ UNCHANGED <<clock, settings, dictionary, packets>>

\* getRecentLogs
ReadRecent ==
    /\ pending # <<>>
    /\ Flush
    /\ UNCHANGED <<clock, settings, dictionary, packets, immediates>>

\* The hourly cleanup of ActivityLogService.
CleanupActivity ==
    /\ logs' = Cleaned(logs)
    /\ UNCHANGED <<clock, settings, dictionary, packets, kept, pending,
                   flushScheduled, immediates, announced>>

MemoryNext ==
    \/ Tick
    \/ Connect
    \/ \E wanted \in BOOLEAN : UpdateSettings(wanted)
    \/ \E k \in Kinds, p \in Packets : HearPacket(k, p)
    \/ \E p \in Packets : HearUnmatched(p)
    \/ Cleanup
    \/ AddLog
    \/ Immediate
    \/ ReadRecent
    \/ CleanupActivity

-----------------------------------------------------------------------------
(* Files *)

Write == /\ written < MaxFiles
         /\ written' = written + 1
         /\ files' = files \cup {written'}

\* saveToFile called by the route
UserSaves == Write /\ UNCHANGED <<auto, user, removed>>

\* autoSave: saveToFile
AutoSaves ==
    /\ auto.at = "idle"
    /\ Write
    /\ auto' = [Idle EXCEPT !.at = "saved"]
    /\ UNCHANGED <<user, removed>>

\* listSavedFiles sorts the files by creation; all but the newest `keep`.
Older(keep) == {f \in files : Cardinality({g \in files : g > f}) >= keep}

\* Variant with a fault: the list is taken in the order it comes, newest first.
ExcessOfNewest == {f \in files : Cardinality({g \in files : g < f}) >= RetentionCount}

\* cleanupOldFiles: all but the last retentionCount
Excess == Older(RetentionCount)

AutoLists ==
    /\ auto.at = "saved"
    /\ auto' = IF Excess # {} THEN [at |-> "deleting", todo |-> Excess] ELSE Idle
    /\ UNCHANGED <<written, files, user, removed>>

\* One unlink, oldest first; if the file is gone the error ends the removal.
AutoDeletes ==
    /\ auto.at = "deleting"
    /\ \E f \in auto.todo :
         /\ \A g \in auto.todo : f <= g
         /\ files' = files \ {f}
         /\ removed' = removed \cup (files \cap {f})
         /\ auto' = IF f \notin files \/ auto.todo = {f} THEN Idle
                    ELSE [auto EXCEPT !.todo = @ \ {f}]
    /\ UNCHANGED <<written, user>>

\* cleanupFiles: all, or all but the newest `keep`
UserLists(keep) ==
    /\ user = {}
    /\ user' = Older(keep)
    /\ UNCHANGED <<written, files, auto, removed>>

\* deleteFile, newest first: a file that is gone is passed over
UserDeletes ==
    /\ \E f \in user :
         /\ \A g \in user : f >= g
         /\ files' = files \ {f}
         /\ user' = user \ {f}
    /\ UNCHANGED <<written, auto, removed>>

DiskNext ==
    \/ UserSaves
    \/ AutoSaves
    \/ AutoLists
    \/ AutoDeletes
    \/ \E keep \in 0 .. RetentionCount : UserLists(keep)
    \/ UserDeletes

Next == \/ MemoryNext /\ UNCHANGED disk
        \/ DiskNext /\ UNCHANGED memory

Spec == Init /\ [][Next]_vars

-----------------------------------------------------------------------------
(* Properties *)

\* Every entry of the history resolves to the packet it was made for, however
\* the dictionary was pruned since, and the two directions of the dictionary
\* agree.  The API hands out the ids with the dictionary (packets.routes.ts).
IdsResolve ==
    /\ \A k \in Kinds : \A e \in history[k] :
         e.id \in DOMAIN byId /\ byId[e.id] = e.packet
    /\ \A i \in DOMAIN byId : byId[i] \in DOMAIN byPacket /\ byPacket[byId[i]] = i
    /\ \A p \in DOMAIN byPacket : byPacket[p] \in DOMAIN byId /\ byId[byPacket[p]] = p

\* Unless a request came before the service was ready, the handlers are
\* registered once while the cache is enabled, so that nothing is logged twice,
\* and a disabled cache listens to nothing and holds nothing.
CacheFollowsSetting ==
    connected /\ ~early =>
        /\ listeners = IF enabled THEN 1 ELSE 0
        /\ ~enabled => history = [k \in Kinds |-> {}] /\ unmatched = {} /\ kept = {}

\* Activity entries are announced exactly once and in the order of addLog,
\* whoever flushes; one that waits is sure of a flush; the log stays bounded.
ActivityIsFlushed ==
    /\ LET all == announced \o pending IN \A i \in DOMAIN all : all[i].n = i
    /\ pending # <<>> => flushScheduled /\ immediates > 0
    /\ Cardinality(logs) <= MaxLogs

\* The automatic removal never takes one of the newest retentionCount files,
\* whatever the user saves and deletes between the listing and the unlink.
NewestAreKept == \A f \in removed : written - f >= RetentionCount

-----------------------------------------------------------------------------
(* What makes these inductive *)

\* A number is given once: those in the dictionary lie below the counter.
IdsAreGivenOnce == \A i \in DOMAIN byId : i \in 1 .. packetIdCounter

\* Before init nothing is registered, unless the settings were changed.
NothingBeforeInit ==
    ~connected /\ ~early =>
        /\ enabled /\ listeners = 0
        /\ history = [k \in Kinds |-> {}] /\ unmatched = {} /\ kept = {}

\* A scheduled flush has its setImmediate, and what is stored was announced.
FlushIsUnderWay ==
    /\ flushScheduled => immediates > 0
    /\ \A e \in logs : \E i \in DOMAIN announced : e = announced[i]

\* Files that wait for their removal are old enough.
RemovalIsDue == \A f \in auto.todo : written - f >= RetentionCount

CacheInv == IdsAreGivenOnce /\ NothingBeforeInit /\ FlushIsUnderWay
=============================================================================

------------------------------ MODULE MCService ------------------------------
(***************************************************************************)
(* The service around the bridges in one run, each part from its own initial *)
(* states: its start-up and its files (ServiceLifecycle), the log cache in   *)
(* memory and on disk (LogRetention), the recorder of the bus               *)
(* (RawPacketLogger), the limiter of requests (RateLimiter).  They share no  *)
(* state; `part` says which one a behaviour is about, the others keep their  *)
(* initial values.                                                         *)
(***************************************************************************)
EXTENDS ServiceLifecycle, TLC

CONSTANTS r1, r2, x, y, p1, p2, ip1, ip2, ip3,
          Packets, Ttl, ActivityTtl, MaxLogs, MaxTime, MaxEvents,
          MaxRecordings, MaxPackets,
          RetentionCount, MaxFiles,
          Ips, WindowMs, MaxHits, MaxTracked, LimiterTime, MaxAllowed

ASSUME StorageAssumption ==
    /\ {Ttl, ActivityTtl, MaxLogs, RetentionCount, WindowMs, MaxHits, MaxTracked}
         \subseteq Nat \ {0}
    /\ {MaxTime, MaxEvents, MaxRecordings, MaxPackets, MaxFiles, LimiterTime, MaxAllowed}
         \subseteq Nat

VARIABLES
    part,
    clock, enabled, listeners, connected, early, byPacket, byId, packetIdCounter,
    history, unmatched, kept, pending, flushScheduled, immediates, logs, announced, heard,
    isLogging, logMode, stream, opened, starts, on, packetCount, file, bus, due,
    overlapped,
    written, saved, auto, user, removed,
    now, hits, older, allowed, refused, evicted

Cache    == INSTANCE LogRetention WITH files <- saved
Recorder == INSTANCE RawPacketLogger
Limiter  == INSTANCE RateLimiter WITH MaxTime <- LimiterTime, MaxRequests <- MaxHits

memoryVars   == <<clock, enabled, listeners, connected, early, byPacket, byId,
                  packetIdCounter, history, unmatched, kept, pending, flushScheduled,
                  immediates, logs, announced, heard>>
recorderVars == <<isLogging, logMode, stream, opened, starts, on, packetCount,
                  file, bus, due, overlapped>>
savedVars    == <<written, saved, auto, user, removed>>
limiterVars  == <<now, hits, older, allowed, refused, evicted>>
storeVars    == <<memoryVars, recorderVars, savedVars, limiterVars>>
allVars      == <<part, vars, storeVars>>

ServiceInit ==
    /\ part \in {"service", "memory", "recorder", "saved", "limiter"}
    /\ Init
    /\ part # "service" => disk = [f \in Files |-> Absent] /\ ~marker
    /\ Cache!Init /\ Recorder!Init /\ Limiter!Init

LifecycleStep == /\ part = "service" /\ Next
                 /\ UNCHANGED <<part, storeVars>>
MemoryStep    == /\ part = "memory" /\ Cache!MemoryNext
                 /\ UNCHANGED <<part, vars, recorderVars, savedVars, limiterVars>>
RecorderStep  == /\ part = "recorder" /\ Recorder!Next
                 /\ UNCHANGED <<part, vars, memoryVars, savedVars, limiterVars>>
SavedStep     == /\ part = "saved" /\ Cache!DiskNext
                 /\ UNCHANGED <<part, vars, memoryVars, recorderVars, limiterVars>>
LimiterStep   == /\ part = "limiter" /\ Limiter!Next
                 /\ UNCHANGED <<part, vars, memoryVars, recorderVars, savedVars>>

ServiceNext == LifecycleStep \/ MemoryStep \/ RecorderStep \/ SavedStep \/ LimiterStep

\* The fairness of ServiceLifecycle.
ServiceSpec ==
    /\ ServiceInit /\ [][ServiceNext]_allVars
    /\ WF_vars(part = "service" /\ Startup)
    /\ WF_vars(part = "service" /\ Container)

-----------------------------------------------------------------------------
\* Of ServiceLifecycle: the service stops restarting itself.
ServiceRestartsEnd == part = "service" => RestartsEnd

\* Of LogRetention: every entry of the history resolves to its packet, an enabled
\* cache listens once, a disabled one holds nothing; activity entries are announced
\* once, in order, and surely.  Of RawPacketLogger: a recording holds each packet
\* of its mode once, in order.
CacheHolds ==
    /\ Cache!IdsResolve /\ Cache!CacheFollowsSetting /\ Cache!ActivityIsFlushed
    /\ Cache!CacheInv
    /\ Recorder!RecordingIsExact /\ Recorder!RecorderInv

\* At their limits, LogRetention never removes the newest files automatically, and
\* RateLimiter grants less than two allowances within one window, refuses only
\* after one allowance, and keeps its table of clients within its size.
LimitsHold ==
    /\ Cache!NewestAreKept /\ Cache!RemovalIsDue
    /\ Limiter!AllowanceIsBounded /\ Limiter!TableIsBounded /\ Limiter!LimiterInv
=============================================================================

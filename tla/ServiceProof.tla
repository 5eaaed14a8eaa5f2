---------------------------- MODULE ServiceProof ----------------------------
(***************************************************************************)
(* Proofs about the service, as MCService puts it together: ports and      *)
(* statuses of the start-up (ServiceLifecycle), the log cache in memory    *)
(* and on disk (LogRetention), recordings (RawPacketLogger) and the        *)
(* limiter of requests (RateLimiter).                                      *)
(***************************************************************************)
EXTENDS MCService, FiniteSetTheorems, WellFoundedInduction, TLAPS

\* The instances take Cardinality from FiniteSets, each under a name of its own.
LEMMA SameCardinality ==
  ASSUME NEW S
  PROVE  Cache!Cardinality(S) = Cardinality(S) /\ Limiter!Cardinality(S) = Cardinality(S)
BY DEF Cache!Cardinality, Limiter!Cardinality, Cardinality

-----------------------------------------------------------------------------
(* The start-up.                                                           *)

Places == {"idle", "check", "fix", "load", "collect", "started"}

\* The kinds of values the argument is about.
StartupTyped ==
  /\ DOMAIN disk = Files /\ DOMAIN statuses = Files
  /\ loader \in Places
  /\ chosen \subseteq Files /\ bridges \subseteq Files /\ link \subseteq Files
  /\ boot = "look" => loader = "idle"
  /\ loader # "check" => unread = {}
  /\ \E S : fixes \in Seq(S)

StartupInv == StartupTyped /\ DuplicatePortsApart /\ StatusesTell

LEMMA ServiceInitially == ServiceInit => StartupInv
<1> SUFFICES ASSUME ServiceInit PROVE StartupInv
  OBVIOUS
<1>1. DOMAIN disk = Files
  <2>1. disk \in [Files -> {Absent} \cup ConfigFor({<<p>> : p \in PortNames})]
    BY DEF ServiceInit, Init
  <2>2. QED
    BY <2>1
<1>2. /\ loader = "idle" /\ chosen = {} /\ unread = {} /\ bridges = {} /\ link = {} /\ fixes = <<>>
      /\ statuses = [f \in Files |-> "none"]
  BY DEF ServiceInit, Init
<1>3. \E S : fixes \in Seq(S)
  <2>1. fixes \in Seq({})
    BY <1>2
  <2>2. QED
    BY <2>1
<1>4. QED
  BY <1>1, <1>2, <1>3
     DEF StartupInv, StartupTyped, Places, DuplicatePortsApart, PortsRead, StatusesTell,
         NothingLoaded

-----------------------------------------------------------------------------
(* Which variables the steps of each kind may change.                      *)

\* What the argument is about does not change.
StartupAlike ==
  /\ UNCHANGED <<disk, loader, chosen, unread, used, fixes, fixed, tampered,
                 loaded, statuses, bridges, link>>
  /\ boot' = "look" => boot = "look"

LEMMA AlikeKeeps == StartupInv /\ StartupAlike => StartupInv'
BY DEF StartupInv, StartupAlike, StartupTyped, DuplicatePortsApart, PortsRead, Apart, Good,
       StatusesTell, NothingLoaded

\* With the process everything it knew is gone.
LEMMA ForgetKeeps ==
  ASSUME StartupInv, Forget, UNCHANGED disk
  PROVE  StartupInv'
<1>1. /\ loader' = "idle" /\ chosen' = {} /\ unread' = {} /\ fixes' = <<>>
      /\ bridges' = {} /\ link' = {}
      /\ statuses' = [f \in Files |-> "none"] /\ DOMAIN disk' = Files
  BY DEF Forget, StartupInv, StartupTyped
<1>2. \E S : fixes' \in Seq(S)
  <2>1. fixes' \in Seq({})
    BY <1>1
  <2>2. QED
    BY <2>1
<1>3. QED
  BY <1>1, <1>2
     DEF StartupInv, StartupTyped, Places, DuplicatePortsApart, PortsRead, StatusesTell,
         NothingLoaded

\* A request touches one file that may have been read, which is noted, and may
\* take others away.
LEMMA RequestKeeps ==
  ASSUME StartupInv, NEW f,
         UNCHANGED <<boot, loader, chosen, unread, used, fixes, fixed,
                    loaded, statuses, bridges, link>>,
         DOMAIN disk' = Files,
         \A g \in Files : g = f \/ disk'[g] = disk[g] \/ disk'[g] = Absent,
         tampered => tampered',
         \/ disk'[f] = disk[f] \/ disk'[f] = Absent
         \/ loader \in {"check", "fix", "load"} /\ f \in chosen \ unread => tampered'
  PROVE  StartupInv'
<1>1. StartupTyped'
  BY DEF StartupInv, StartupTyped
<1>2. StatusesTell'
  BY DEF StartupInv, StatusesTell, NothingLoaded
<1>3. PortsRead'
  <2> SUFFICES ASSUME ~tampered'
               PROVE  /\ loader = "check" /\ fixes = <<>> =>
                           /\ \A g, h \in chosen \ unread : g # h /\ Good(g)' /\ Good(h)' =>
                                disk'[g].port # disk'[h].port
                           /\ \A g \in chosen \ unread : Good(g)' => disk'[g].port \in used
                      /\ loader = "fix" => fixes # <<>> \/ fixed # {}
                      /\ loader = "load" =>
                           \A g, h \in chosen : g # h /\ Good(g)' /\ Good(h)' =>
                                disk'[g].port # disk'[h].port
    BY DEF PortsRead, Apart, Good
  <2>1. PortsRead /\ ~tampered
    BY DEF StartupInv, DuplicatePortsApart
  <2>2. loader = "check" \/ loader = "load" =>
          \A g \in chosen \ unread : disk'[g] = disk[g] \/ disk'[g] = Absent
    BY DEF StartupInv, StartupTyped
  <2>3. loader = "load" => chosen \ unread = chosen
    BY DEF StartupInv, StartupTyped
  <2>4. \A g : disk'[g] = disk[g] \/ disk'[g] = Absent =>
               (Good(g)' => Good(g) /\ disk'[g].port = disk[g].port)
    BY DEF Good
  <2>5. QED
    BY <2>1, <2>2, <2>3, <2>4 DEF PortsRead, Apart
<1>4. DuplicatePortsApart'
  BY <1>3 DEF StartupInv, DuplicatePortsApart
<1>5. QED
  BY <1>1, <1>2, <1>4 DEF StartupInv

-----------------------------------------------------------------------------
(* Every step.                                                             *)

LEMMA LookKeeps == StartupInv /\ Look => StartupInv'
<1> SUFFICES ASSUME StartupInv, Look PROVE StartupInv'
  OBVIOUS
<1>1. UNCHANGED <<disk, used, fixes, fixed, tampered, loaded, statuses, bridges, link>>
  BY DEF Look, files, memory
<1>2. CASE UNCHANGED <<loader, chosen, unread>>
  BY <1>1, <1>2, AlikeKeeps DEF StartupAlike, Look
<1>3. CASE loader' = "check" /\ chosen' = Chosen /\ unread' = Chosen
  <2>1. Chosen \subseteq Files
    BY LifecycleAssumption DEF Chosen, Present
  <2>2. loader = "idle"
    BY DEF Look, StartupInv, StartupTyped
  <2>3. QED
    BY <1>1, <1>3, <2>1, <2>2
       DEF StartupInv, StartupTyped, Places, DuplicatePortsApart, PortsRead, Apart, StatusesTell,
           NothingLoaded, Look
<1>4. QED
  BY <1>2, <1>3 DEF Look

LEMMA CheckPortKeeps == ASSUME StartupInv, NEW f \in Files, CheckPort(f) PROVE StartupInv'
<1>1. /\ UNCHANGED <<disk, chosen, fixed, tampered, loaded, statuses, bridges, link>>
      /\ boot' = boot /\ loader = "check" /\ f \in unread /\ unread' = unread \ {f}
      /\ loader' = IF unread' # {} THEN "check" ELSE IF fixes' = <<>> THEN "load" ELSE "fix"
  BY DEF CheckPort, files, memory
<1>2. \/ ~Good(f) /\ UNCHANGED <<used, fixes>>
      \/ \E e : fixes' = Append(fixes, e)
      \/ Good(f) /\ disk[f].port \notin used /\ used' = used \cup {disk[f].port} /\ fixes' = fixes
  BY DEF CheckPort, Seen, Good
<1>3. /\ \E S : fixes' \in Seq(S)
      /\ fixes' = <<>> => fixes = <<>> /\ \A e : fixes' # Append(fixes, e)
  <2>1. PICK S : fixes \in Seq(S)
    BY DEF StartupInv, StartupTyped
  <2>2. ASSUME NEW e, fixes' = Append(fixes, e)
        PROVE  fixes' \in Seq(S \cup {e}) /\ fixes' # <<>>
    <3>1. fixes \in Seq(S \cup {e})
      BY <2>1
    <3>2. QED
      BY <3>1, <2>2
  <2>3. QED
    BY <1>2, <2>1, <2>2
<1>4. StartupTyped'
  BY <1>1, <1>3 DEF StartupInv, StartupTyped, Places
<1>5. StatusesTell'
  BY <1>1 DEF StartupInv, StatusesTell, NothingLoaded
<1>6. ASSUME ~tampered, fixes' = <<>>
      PROVE  /\ \A g, h \in chosen \ unread' : g # h /\ Good(g) /\ Good(h) =>
                  disk[g].port # disk[h].port
             /\ \A g \in chosen \ unread' : Good(g) => disk[g].port \in used'
  <2>1. /\ Apart(chosen \ unread)
        /\ \A g \in chosen \ unread : Good(g) => disk[g].port \in used
    BY <1>1, <1>3, <1>6 DEF StartupInv, DuplicatePortsApart, PortsRead
  <2>2. \/ ~Good(f) /\ used' = used
        \/ Good(f) /\ disk[f].port \notin used /\ used' = used \cup {disk[f].port}
    BY <1>2, <1>3, <1>6
  <2>3. \A g \in chosen \ unread' : g = f \/ g \in chosen \ unread
    BY <1>1
  <2>4. QED
    BY <2>1, <2>2, <2>3 DEF Apart
<1>7. PortsRead'
  <2>1. unread' = {} => chosen \ unread' = chosen
    OBVIOUS
  <2>2. QED
    BY <1>1, <1>6, <2>1 DEF PortsRead, Apart, Good
<1>8. DuplicatePortsApart'
  BY <1>1, <1>7 DEF StartupInv, DuplicatePortsApart
<1>9. QED
  BY <1>4, <1>5, <1>8 DEF StartupInv

\* A repair leaves a mark, whether it succeeds or not.
LEMMA FixPortKeeps == StartupInv /\ FixPort => StartupInv'
<1> SUFFICES ASSUME StartupInv, FixPort PROVE StartupInv'
  OBVIOUS
<1>1. /\ UNCHANGED <<boot, loader, chosen, unread, used, loaded, statuses, bridges, link>>
      /\ loader = "fix" /\ fixes # <<>> /\ fixes' = Tail(fixes)
      /\ DOMAIN disk' = Files
      /\ tampered' \/ (tampered' = tampered /\ fixed' # {})
      /\ tampered => tampered'
  BY DEF FixPort, checking, memory, StartupInv, StartupTyped
<1>2. \E S : fixes' \in Seq(S)
  <2>1. PICK S : fixes \in Seq(S)
    BY DEF StartupInv, StartupTyped
  <2>2. Tail(fixes) \in Seq(S)
    BY <2>1, <1>1
  <2>3. QED
    BY <2>2, <1>1
<1>3. StartupTyped'
  BY <1>1, <1>2 DEF StartupInv, StartupTyped
<1>4. StatusesTell'
  BY <1>1 DEF StartupInv, StatusesTell, NothingLoaded
<1>5. DuplicatePortsApart'
  BY <1>1 DEF StartupInv, DuplicatePortsApart, PortsRead
<1>6. QED
  BY <1>3, <1>4, <1>5 DEF StartupInv

LEMMA FixesWrittenKeeps == StartupInv /\ FixesWritten => StartupInv'
<1> SUFFICES ASSUME StartupInv, FixesWritten PROVE StartupInv'
  OBVIOUS
<1>1. /\ UNCHANGED <<disk, boot, chosen, unread, used, fixes, fixed, tampered,
                     loaded, statuses, bridges, link>>
      /\ loader = "fix" /\ fixes = <<>>
      /\ loader' = IF fixed # {} THEN "idle" ELSE "load"
  BY DEF FixesWritten, checking, memory
<1>2. StartupTyped'
  BY <1>1 DEF StartupInv, StartupTyped, Places
<1>3. StatusesTell'
  BY <1>1 DEF StartupInv, StatusesTell, NothingLoaded
<1>4. DuplicatePortsApart'
  BY <1>1 DEF StartupInv, DuplicatePortsApart, PortsRead
<1>5. QED
  BY <1>2, <1>3, <1>4 DEF StartupInv

LEMMA LoadKeeps == StartupInv /\ Load => StartupInv'
<1> SUFFICES ASSUME StartupInv, Load PROVE StartupInv'
  OBVIOUS
<1> DEFINE good == {f \in chosen : disk[f] # Absent /\ ~disk[f].broken}
<1>1. /\ UNCHANGED <<disk, boot, chosen, unread, used, fixes, fixed, tampered, link>>
      /\ loader = "load" /\ loader' = IF good = {} THEN "idle" ELSE "collect"
      /\ loaded' = [f \in Files |-> IF f \in good THEN disk[f] ELSE Absent]
      /\ statuses' = [f \in Files |-> IF f \in good THEN "starting"
                                      ELSE IF f \in chosen THEN "error" ELSE "none"]
      /\ bridges' = good
  BY DEF Load, files, checking
<1>2. StartupTyped /\ link = {} /\ PortsRead
  BY <1>1 DEF StartupInv, StatusesTell, NothingLoaded, DuplicatePortsApart
<1>3. good \subseteq Files /\ good \subseteq chosen
  BY <1>2 DEF StartupTyped
<1>4. StartupTyped'
  BY <1>1, <1>2, <1>3 DEF StartupTyped, Places
<1>5. StatusesTell'
  BY <1>1, <1>2, <1>3 DEF StatusesTell, NothingLoaded
<1>6. ~tampered => \A f, g \in good : f # g => loaded'[f].port # loaded'[g].port
  BY <1>1, <1>2, <1>3 DEF PortsRead, Apart, Good
<1>7. DuplicatePortsApart'
  BY <1>1, <1>2, <1>6 DEF DuplicatePortsApart, PortsRead
<1>8. QED
  BY <1>4, <1>5, <1>7 DEF StartupInv

LEMMA CollectKeeps == StartupInv /\ Collect => StartupInv'
BY DEF Collect, files, checking, memory, StartupInv, StartupTyped, Places, DuplicatePortsApart,
       PortsRead, Apart, Good, StatusesTell, NothingLoaded

\* The steps of a bridge change its status with its connection or its place.
LEMMA BridgeKeeps == ASSUME StartupInv, NEW f \in Files, Bridge(f) PROVE StartupInv'
<1>1. UNCHANGED <<disk, boot, loader, chosen, unread, used, fixes, fixed, tampered, loaded>>
  BY DEF Bridge, BridgeStarts, BridgeFails, Reconnecting, Reconnected, files, loading, checking
<1>2. /\ bridges' \subseteq bridges /\ link' \subseteq Files
      /\ DOMAIN statuses' = Files
  BY DEF Bridge, BridgeStarts, BridgeFails, Reconnecting, Reconnected, StartupInv, StartupTyped
<1>3. StartupTyped'
  BY <1>1, <1>2 DEF StartupInv, StartupTyped
<1>4. DuplicatePortsApart'
  BY <1>1, <1>2 DEF StartupInv, DuplicatePortsApart, PortsRead, Apart, Good
<1>5. StatusesTell'
  <2>1. StatusesTell /\ StartupTyped
    BY DEF StartupInv
  <2>2. CASE BridgeStarts(f)
    BY <2>1, <2>2, <1>1 DEF BridgeStarts, StatusesTell, NothingLoaded, StartupTyped
  <2>3. CASE BridgeFails(f)
    BY <2>1, <2>3, <1>1 DEF BridgeFails, StatusesTell, NothingLoaded, StartupTyped
  <2>4. CASE Reconnecting(f)
    BY <2>1, <2>4, <1>1 DEF Reconnecting, StatusesTell, NothingLoaded, StartupTyped, Places
  <2>5. CASE Reconnected(f)
    BY <2>1, <2>5, <1>1 DEF Reconnected, StatusesTell, NothingLoaded, StartupTyped, Places
  <2>6. QED
    BY <2>2, <2>3, <2>4, <2>5 DEF Bridge
<1>6. QED
  BY <1>3, <1>4, <1>5 DEF StartupInv

LEMMA RequestStepKeeps == ASSUME StartupInv, NEW r \in Requests, Request(r) PROVE StartupInv'
<1>1. UNCHANGED <<boot, loader, chosen, unread, used, fixes, fixed, loaded, statuses,
                  bridges, link>>
  BY DEF Request, Select, Delete, SelectWrites, Promote, Unmark, SetFlag, Serve, checking, memory
<1>2. DOMAIN disk = Files
  BY DEF StartupInv, StartupTyped
<1>3. CASE UNCHANGED <<disk, tampered>>
  BY <1>1, <1>3, AlikeKeeps DEF StartupAlike
<1>4. CASE SelectWrites(r)
  <2>1. /\ disk' = [disk EXCEPT ![requests[r].file] = requests[r].config]
        /\ tampered' = (tampered \/ /\ loader \in {"check", "fix", "load"}
                                    /\ requests[r].file \in chosen \ unread)
    BY <1>4 DEF SelectWrites, Tampers
  <2>2. QED
    BY <1>1, <1>2, <2>1, RequestKeeps
<1>5. ASSUME NEW f \in Files, Delete(r, f) PROVE StartupInv'
  <2>1. disk' = [disk EXCEPT ![f] = Absent] /\ tampered' = tampered
    BY <1>5 DEF Delete
  <2>2. QED
    BY <1>1, <1>2, <2>1, RequestKeeps
<1>6. CASE Promote(r) /\ ~UNCHANGED <<disk, tampered>>
  <2>1. PICK first :
          /\ disk' = [disk EXCEPT ![1] = disk[first], ![first] = Absent]
          /\ tampered' = (tampered \/ /\ loader \in {"check", "fix", "load"}
                                      /\ 1 \in chosen \ unread)
    BY <1>6 DEF Promote, Tampers
  <2>2. \A g \in Files : g = 1 \/ disk'[g] = disk[g] \/ disk'[g] = Absent
    BY <1>2, <2>1
  <2>3. QED
    BY <1>1, <1>2, <2>1, <2>2, RequestKeeps
<1>7. QED
  BY <1>3, <1>4, <1>5, <1>6 DEF Request, Select, Unmark, SetFlag, files

LEMMA StartupStep == StartupInv /\ [ServiceNext]_allVars => StartupInv'
<1> SUFFICES ASSUME StartupInv, [ServiceNext]_allVars PROVE StartupInv'
  OBVIOUS
<1>1. CASE UNCHANGED vars
  BY <1>1, AlikeKeeps DEF StartupAlike, vars, files, loading, checking, memory
<1>2. CASE Startup
  <2>1. CASE AskFlag \/ UnlinkFlag
    BY <2>1, AlikeKeeps DEF StartupAlike, AskFlag, UnlinkFlag, files, loading, checking, memory
  <2>2. QED
    BY <1>2, <2>1, LookKeeps, CheckPortKeeps, FixPortKeeps, FixesWrittenKeeps, LoadKeeps,
       CollectKeeps DEF Startup
<1>3. CASE Consent \/ Restart
  BY <1>3, AlikeKeeps DEF StartupAlike, Consent, Restart, loading, checking, memory
<1>4. CASE Exit \/ ContainerStops
  BY <1>4, ForgetKeeps DEF Exit, ContainerStops, files
<1>5. CASE Relaunch \/ ContainerStarts
  BY <1>5, AlikeKeeps DEF StartupAlike, Relaunch, ContainerStarts, files, loading, checking, memory
<1>6. CASE Next
  BY <1>2, <1>3, <1>4, <1>5, <1>6, BridgeKeeps, RequestStepKeeps DEF Next, Container
<1>7. QED
  BY <1>1, <1>6
     DEF ServiceNext, LifecycleStep, MemoryStep, RecorderStep, SavedStep, LimiterStep, allVars

\* Two bridges never have one port id, unless a repair failed or a file was
\* written between the check of its port and the load
\* (checkAndFixDuplicatePortIds of server.ts), for any files and port names.
THEOREM DuplicatePortsApartCorrect == ServiceSpec => []DuplicatePortsApart
<1>1. StartupInv => DuplicatePortsApart
  BY DEF StartupInv
<1>2. QED
  BY <1>1, ServiceInitially, StartupStep, PTL DEF ServiceSpec

\* Bridges and the statuses shown tell the same, whichever bridges start, fail
\* and lose their connections, in any order (startBridgesInBackground).
THEOREM StatusesTellCorrect == ServiceSpec => []StatusesTell
<1>1. StartupInv => StatusesTell
  BY DEF StartupInv
<1>2. QED
  BY <1>1, ServiceInitially, StartupStep, PTL DEF ServiceSpec

-----------------------------------------------------------------------------
(* The files of the log cache.                                             *)

DiskTyped ==
  /\ written \in Nat /\ saved \subseteq 1..written
  /\ auto \in [at : {"idle", "saved", "deleting"}, todo : SUBSET Nat]
  /\ removed \subseteq Nat

DiskInv == DiskTyped /\ Cache!RemovalIsDue /\ Cache!NewestAreKept

\* A file with so many newer ones beside it is that much older than the last.
LEMMA NewerAreLater ==
  ASSUME NEW w \in Nat, NEW F \in SUBSET (1..w), NEW f \in F, NEW c \in Nat,
         Cardinality({g \in F : g > f}) >= c
  PROVE  w - f >= c
<1>1. f \in 1..w
  OBVIOUS
<1>2. IsFiniteSet((f + 1)..w) /\ Cardinality((f + 1)..w) = IF f + 1 > w THEN 0 ELSE w - (f + 1) + 1
  BY <1>1, FS_Interval
<1>3. {g \in F : g > f} \subseteq (f + 1)..w
  <2> SUFFICES ASSUME NEW g \in F, g > f PROVE g \in (f + 1)..w
    OBVIOUS
  <2>1. g \in 1..w
    OBVIOUS
  <2>2. QED
    BY <1>1, <2>1
<1>4. Cardinality({g \in F : g > f}) <= Cardinality((f + 1)..w)
  BY <1>2, <1>3, FS_Subset
<1>5. IsFiniteSet({g \in F : g > f})
  BY <1>2, <1>3, FS_Subset
<1>6. Cardinality({g \in F : g > f}) \in Nat
  BY <1>5, FS_CardinalityType
<1>7. QED
  BY <1>1, <1>2, <1>4, <1>6

LEMMA DiskInitially == ServiceInit => DiskInv
BY DEF ServiceInit, Cache!Init, Cache!DiskInit, Cache!Idle, DiskInv, DiskTyped,
       Cache!RemovalIsDue, Cache!NewestAreKept

\* What is saved later only makes the files older.
LEMMA WriteKeeps ==
  ASSUME DiskInv, Cache!Write, removed' = removed,
         auto' = auto \/ auto' = [Cache!Idle EXCEPT !.at = "saved"]
  PROVE  DiskInv'
<1>1. written' = written + 1 /\ saved' = saved \cup {written + 1}
  BY DEF Cache!Write
<1>2. DiskTyped'
  BY <1>1 DEF DiskInv, DiskTyped, Cache!Idle
<1>3. Cache!RemovalIsDue'
  BY <1>1, StorageAssumption DEF DiskInv, DiskTyped, Cache!RemovalIsDue, Cache!Idle
<1>4. Cache!NewestAreKept'
  BY <1>1, StorageAssumption DEF DiskInv, DiskTyped, Cache!NewestAreKept
<1>5. QED
  BY <1>2, <1>3, <1>4 DEF DiskInv

LEMMA DiskStep == DiskInv /\ [ServiceNext]_allVars => DiskInv'
<1> SUFFICES ASSUME DiskInv, [ServiceNext]_allVars PROVE DiskInv'
  OBVIOUS
<1>1. RetentionCount \in Nat
  BY StorageAssumption
<1>2. CASE UNCHANGED savedVars
  BY <1>2 DEF savedVars, DiskInv, DiskTyped, Cache!RemovalIsDue, Cache!NewestAreKept
<1>3. CASE Cache!DiskNext
  <2>1. CASE Cache!UserSaves \/ Cache!AutoSaves
    BY <2>1, WriteKeeps DEF Cache!UserSaves, Cache!AutoSaves
  <2>2. CASE Cache!AutoLists
    <3>1. Cache!Excess \subseteq saved
      BY DEF Cache!Excess, Cache!Older
    <3>2. \A f \in Cache!Excess : written - f >= RetentionCount
      <4> SUFFICES ASSUME NEW f \in Cache!Excess PROVE written - f >= RetentionCount
        OBVIOUS
      <4>1. f \in saved /\ Cardinality({g \in saved : g > f}) >= RetentionCount
        BY SameCardinality DEF Cache!Excess, Cache!Older
      <4>2. written \in Nat /\ saved \in SUBSET (1..written)
        BY DEF DiskInv, DiskTyped
      <4>3. QED
        BY <1>1, <4>1, <4>2, NewerAreLater
    <3>3. /\ UNCHANGED <<written, saved, removed>>
          /\ \/ auto' = [at |-> "deleting", todo |-> Cache!Excess]
             \/ auto' = [at |-> "idle", todo |-> {}]
      BY <2>2 DEF Cache!AutoLists, Cache!Idle
    <3>4. Cache!Excess \subseteq Nat
      BY <3>1 DEF DiskInv, DiskTyped
    <3>5. DiskTyped'
      <4>1. /\ Cache!Excess \in SUBSET Nat /\ {} \in SUBSET Nat
            /\ "idle" \in {"idle", "saved", "deleting"}
            /\ "deleting" \in {"idle", "saved", "deleting"}
        BY <3>4
      <4>2. /\ [at |-> "deleting", todo |-> Cache!Excess]
                  \in [at : {"idle", "saved", "deleting"}, todo : SUBSET Nat]
            /\ [at |-> "idle", todo |-> {}]
                  \in [at : {"idle", "saved", "deleting"}, todo : SUBSET Nat]
        BY <4>1
      <4>3. QED
        BY <3>3, <4>2 DEF DiskInv, DiskTyped
    <3>6. Cache!RemovalIsDue'
      BY <3>2, <3>3 DEF Cache!RemovalIsDue
    <3>7. QED
      BY <3>3, <3>5, <3>6 DEF DiskInv, Cache!NewestAreKept
  <2>3. CASE Cache!AutoDeletes
    <3>1. PICK f \in auto.todo :
            /\ saved' = saved \ {f}
            /\ removed' = removed \cup (saved \cap {f})
            /\ auto' = IF f \notin saved \/ auto.todo = {f} THEN Cache!Idle
                       ELSE [auto EXCEPT !.todo = @ \ {f}]
      BY <2>3 DEF Cache!AutoDeletes
    <3>2. written' = written
      BY <2>3 DEF Cache!AutoDeletes
    <3>3. DiskTyped'
      BY <3>1, <3>2 DEF DiskInv, DiskTyped, Cache!Idle
    <3>4. Cache!RemovalIsDue'
      BY <3>1, <3>2 DEF DiskInv, DiskTyped, Cache!Idle, Cache!RemovalIsDue
    <3>5. Cache!NewestAreKept'
      BY <3>1, <3>2 DEF DiskInv, Cache!RemovalIsDue, Cache!NewestAreKept
    <3>6. QED
      BY <3>3, <3>4, <3>5 DEF DiskInv
  <2>4. CASE (\E keep \in 0..RetentionCount : Cache!UserLists(keep)) \/ Cache!UserDeletes
    BY <2>4
       DEF Cache!UserLists, Cache!UserDeletes, DiskInv, DiskTyped, Cache!RemovalIsDue,
           Cache!NewestAreKept
  <2>5. QED
    BY <1>3, <2>1, <2>2, <2>3, <2>4 DEF Cache!DiskNext
<1>4. QED
  BY <1>2, <1>3
     DEF ServiceNext, LifecycleStep, MemoryStep, RecorderStep, SavedStep, LimiterStep, allVars,
         storeVars

-----------------------------------------------------------------------------
(* Recordings.                                                             *)

RecorderTyped ==
  /\ opened \in Nat /\ starts \in Nat /\ stream \in Nat /\ packetCount \in Nat
  /\ on \in [Recorder!Events -> Nat]
  /\ file \in Seq(Nat) /\ due \in Seq(Nat) /\ bus \in Nat

RecordingInv == RecorderTyped /\ Recorder!RecordingIsExact /\ Recorder!RecorderInv

LEMMA RecordingInitially == ServiceInit => RecordingInv
<1> SUFFICES ASSUME Recorder!Init PROVE RecordingInv
  BY DEF ServiceInit
<1>1. RecorderTyped
  <2>1. <<>> \in Seq(Nat) /\ [e \in Recorder!Events |-> 0] \in [Recorder!Events -> Nat]
    OBVIOUS
  <2>2. QED
    BY <2>1 DEF Recorder!Init, RecorderTyped
<1>2. Recorder!RecordingIsExact /\ Recorder!RecorderInv
  BY DEF Recorder!Init, Recorder!RecordingIsExact, Recorder!RecorderInv
<1>3. QED
  BY <1>1, <1>2 DEF RecordingInv

LEMMA Concatenated ==
  ASSUME NEW S, NEW s \in Seq(S), NEW t \in Seq(S)
  PROVE  /\ s \o t \in Seq(S)
         /\ Len(s \o t) = Len(s) + Len(t) /\ DOMAIN (s \o t) = 1..(Len(s) + Len(t))
         /\ \A i \in 1..Len(s) : (s \o t)[i] = s[i]
         /\ \A i \in 1..Len(t) : (s \o t)[Len(s) + i] = t[i]
OBVIOUS

\* One registration writes a packet once.
LEMMA WrittenOnce ==
  ASSUME NEW s \in Seq(Nat), NEW e \in Nat
  PROVE  /\ s \o [i \in 1..1 |-> e] = Append(s, e)
         /\ s \o [i \in 1..0 |-> e] = s
         /\ Len(Append(s, e)) = Len(s) + 1
         /\ Append(s, e) \in Seq(Nat)
<1> DEFINE one == [i \in 1..1 |-> e]
           none == [i \in 1..0 |-> e]
<1>1. one \in Seq(Nat) /\ Len(one) = 1 /\ one[1] = e
  OBVIOUS
<1>2. none \in Seq(Nat) /\ Len(none) = 0
  OBVIOUS
<1>3. s \o one = Append(s, e)
  BY <1>1
<1>4. s \o none = s
  BY <1>2
<1>5. QED
  BY <1>3, <1>4

LEMMA RecorderStepKeeps ==
  ASSUME RecordingInv, Recorder!Next
  PROVE  RecordingInv'
<1>1. /\ RecorderTyped /\ Recorder!RecordingIsExact /\ Recorder!RecorderInv
  BY DEF RecordingInv
<1>2. ASSUME NEW mode \in Recorder!Modes, Recorder!Start(mode) PROVE RecordingInv'
  <2>1. /\ UNCHANGED <<isLogging, stream, opened, on, packetCount, file, bus, due>>
        /\ ~isLogging /\ starts' = starts + 1
        /\ ~overlapped' => ~overlapped /\ ~(starts > 0)
    BY <1>2 DEF Recorder!Start
  <2>2. RecorderTyped'
    BY <1>1, <2>1 DEF RecorderTyped
  <2>3. Recorder!RecorderInv'
    <3>1. ~overlapped' => starts' = 1
      BY <1>1, <2>1 DEF RecorderTyped
    <3>2. QED
      BY <2>1, <3>1 DEF Recorder!RecorderInv
  <2>4. \A e \in Recorder!Events : ~overlapped' => on'[e] = 0
    BY <1>1, <2>1 DEF Recorder!RecordingIsExact
  <2>5. Recorder!RecordingIsExact'
    BY <1>1, <2>1, <2>4 DEF Recorder!RecordingIsExact
  <2>6. QED
    BY <2>2, <2>3, <2>5 DEF RecordingInv
<1>3. CASE Recorder!Resume
  <2>1. /\ UNCHANGED <<logMode, bus, overlapped>>
        /\ starts > 0 /\ starts' = starts - 1
        /\ opened' = opened + 1 /\ stream' = opened + 1 /\ isLogging' = TRUE
        /\ packetCount' = 0 /\ file' = <<>> /\ due' = <<>>
        /\ on' = [e \in Recorder!Events |->
                    on[e] + (IF e \in Recorder!Heard(logMode) THEN 1 ELSE 0)]
    BY <1>3 DEF Recorder!Resume
  <2>2. RecorderTyped'
    BY <1>1, <2>1 DEF RecorderTyped
  <2>3. Recorder!RecorderInv'
    BY <1>1, <2>1 DEF RecorderTyped, Recorder!RecorderInv
  <2>4. ~overlapped => \A e \in Recorder!Events : on[e] = 0
    BY <1>1, <2>1 DEF Recorder!RecorderInv, Recorder!RecordingIsExact
  <2>5. Recorder!RecordingIsExact'
    <3>1. stream' # 0
      BY <1>1, <2>1 DEF RecorderTyped
    <3>2. ~overlapped => \A e \in Recorder!Events :
                           on'[e] = IF e \in Recorder!Heard(logMode) THEN 1 ELSE 0
      BY <2>1, <2>4
    <3>3. packetCount' = Len(file') /\ file' = due'
      BY <2>1
    <3>4. QED
      BY <2>1, <3>1, <3>2, <3>3 DEF Recorder!RecordingIsExact, Recorder!Heard
  <2>6. QED
    BY <2>2, <2>3, <2>5 DEF RecordingInv
<1>4. ASSUME Recorder!Stop, UNCHANGED <<logMode, opened, packetCount, file, bus, due, overlapped>>,
             starts' \in Nat, starts' <= starts, isLogging \/ starts > 0
      PROVE  RecordingInv'
  <2>1. ~isLogging' /\ stream' = 0
    BY <1>1, <1>4 DEF Recorder!Stop, Recorder!RecordingIsExact, RecorderTyped
  <2>2. RecorderTyped'
    <3>1. on' \in [Recorder!Events -> Nat]
      BY <1>1, <1>4 DEF Recorder!Stop, Recorder!RemovedListeners, RecorderTyped
    <3>2. stream' \in Nat
      BY <2>1
    <3>3. QED
      BY <1>1, <1>4, <3>1, <3>2 DEF RecorderTyped
  <2>3. Recorder!RecorderInv'
    BY <1>1, <1>4, <2>1 DEF RecorderTyped, Recorder!RecorderInv
  <2>4. ~overlapped => \A e \in Recorder!Events : on'[e] = 0
    BY <1>1, <1>4
       DEF Recorder!Stop, Recorder!RemovedListeners, RecorderTyped, Recorder!RecordingIsExact
  <2>5. Recorder!RecordingIsExact'
    BY <1>4, <2>1, <2>4 DEF Recorder!RecordingIsExact
  <2>6. QED
    BY <2>2, <2>3, <2>5 DEF RecordingInv
<1>5. CASE Recorder!UserStops \/ Recorder!StreamError \/ Recorder!MkdirFails
  <2>1. CASE Recorder!UserStops \/ Recorder!StreamError
    BY <2>1, <1>1, <1>4 DEF Recorder!UserStops, Recorder!StreamError, RecorderTyped
  <2>2. CASE Recorder!MkdirFails
    BY <2>2, <1>1, <1>4 DEF Recorder!MkdirFails, RecorderTyped
  <2>3. QED
    BY <1>5, <2>1, <2>2
<1>6. ASSUME NEW event \in Recorder!Events, Recorder!Packet(event) PROVE RecordingInv'
  <2>1. /\ UNCHANGED <<isLogging, logMode, stream, opened, starts, on, overlapped>>
        /\ bus' = bus + 1
        /\ IF stream # 0
           THEN /\ packetCount' = packetCount + on[event]
                /\ file' = file \o [i \in 1 .. on[event] |-> bus + 1]
           ELSE UNCHANGED <<packetCount, file>>
        /\ due' = IF isLogging /\ event \in Recorder!Heard(logMode)
                  THEN Append(due, bus + 1) ELSE due
    BY <1>6 DEF Recorder!Packet
  <2>2. bus + 1 \in Nat /\ on[event] \in Nat
    BY <1>1 DEF RecorderTyped
  <2>3. file' \in Seq(Nat) /\ due' \in Seq(Nat) /\ packetCount' \in Nat /\ bus' \in Nat
    <3>1. [i \in 1 .. on[event] |-> bus + 1] \in Seq(Nat)
      BY <2>2
    <3>2. file' \in Seq(Nat)
      <4>1. file \in Seq(Nat)
        BY <1>1 DEF RecorderTyped
      <4>2. QED
        BY <2>1, <3>1, <4>1, Concatenated
    <3>3. due' \in Seq(Nat)
      BY <1>1, <2>1, <2>2 DEF RecorderTyped
    <3>4. QED
      BY <1>1, <2>1, <2>2, <3>2, <3>3 DEF RecorderTyped
  <2>4. RecorderTyped'
    BY <1>1, <2>1, <2>3 DEF RecorderTyped
  <2>5. Recorder!RecorderInv'
    BY <1>1, <2>1 DEF Recorder!RecorderInv
  <2>6. ASSUME ~overlapped, isLogging PROVE file' = due' /\ packetCount' = Len(file')
    <3>1. stream # 0 /\ file = due /\ packetCount = Len(file)
      BY <1>1, <2>6 DEF Recorder!RecordingIsExact
    <3>2. CASE event \in Recorder!Heard(logMode)
      <4>1. on[event] = 1
        BY <1>1, <2>6, <3>2 DEF Recorder!RecordingIsExact
      <4>2. /\ file' = file \o [i \in 1 .. 1 |-> bus + 1] /\ packetCount' = packetCount + 1
            /\ due' = Append(due, bus + 1)
        BY <2>1, <2>6, <3>1, <3>2, <4>1
      <4>3. file \in Seq(Nat)
        BY <1>1 DEF RecorderTyped
      <4>4. file' = Append(file, bus + 1) /\ Len(Append(file, bus + 1)) = Len(file) + 1
        BY <2>2, <4>2, <4>3, WrittenOnce
      <4>5. QED
        BY <3>1, <4>2, <4>4
    <3>3. CASE event \notin Recorder!Heard(logMode)
      <4>1. on[event] = 0
        BY <1>1, <2>6, <3>3 DEF Recorder!RecordingIsExact
      <4>2. /\ file' = file \o [i \in 1 .. 0 |-> bus + 1] /\ packetCount' = packetCount + 0
            /\ due' = due
        BY <2>1, <2>6, <3>1, <3>3, <4>1
      <4>3. file \in Seq(Nat) /\ packetCount \in Nat
        BY <1>1 DEF RecorderTyped
      <4>4. file' = file
        BY <2>2, <4>2, <4>3, WrittenOnce
      <4>5. QED
        BY <3>1, <4>2, <4>3, <4>4
    <3>4. QED
      BY <3>2, <3>3
  <2>7. Recorder!RecordingIsExact'
    BY <1>1, <2>1, <2>6 DEF Recorder!RecordingIsExact
  <2>8. QED
    BY <2>4, <2>5, <2>7 DEF RecordingInv
<1>7. QED
  BY <1>2, <1>3, <1>4, <1>5, <1>6 DEF Recorder!Next

LEMMA RecordingStep == RecordingInv /\ [ServiceNext]_allVars => RecordingInv'
<1> SUFFICES ASSUME RecordingInv, [ServiceNext]_allVars PROVE RecordingInv'
  OBVIOUS
<1>1. CASE UNCHANGED recorderVars
  BY <1>1
     DEF recorderVars, RecordingInv, RecorderTyped, Recorder!RecordingIsExact, Recorder!RecorderInv
<1>2. QED
  BY <1>1, RecorderStepKeeps
     DEF ServiceNext, LifecycleStep, MemoryStep, RecorderStep, SavedStep, LimiterStep, allVars,
         storeVars

-----------------------------------------------------------------------------
(* The log cache in memory.                                                *)

\* A set of numbers has a least one.
LEMMA LeastExists ==
  ASSUME NEW S, S \subseteq Nat, S # {}
  PROVE  \E m \in S : \A v \in S : m <= v
<1> DEFINE T == {0..m : m \in S}
           R == StrictSubsetOrdering(Nat)
           F == FiniteSubsetsOf(Nat)
<1>1. \A X \in T : X \in F
  <2> SUFFICES ASSUME NEW m \in S PROVE 0..m \in F
    OBVIOUS
  <2> HIDE DEF T, R
  <2>1. m \in Nat
    OBVIOUS
  <2>2. \A k \in 0..m : k \in Nat
    BY <2>1
  <2>3. IsFiniteSet(0..m)
    BY <2>1, FS_Interval
  <2>4. QED
    BY <2>2, <2>3 DEF FiniteSubsetsOf
<1>2. T \subseteq F /\ T # {}
  BY <1>1
<1>3. IsWellFoundedOn(R, F)
  BY FS_StrictSubsetOrderingWellFounded
<1>4. PICK X \in T : \A Y \in T : ~ (<<Y, X>> \in R)
  <2> HIDE DEF T, R, F
  <2> QED
    BY <1>2, <1>3, WFMin
<1>5. PICK m \in S : X = 0..m
  OBVIOUS
<1>6. \A v \in S : ~(v < m)
  <2> SUFFICES ASSUME NEW v \in S, v < m PROVE FALSE
    OBVIOUS
  <2>1. m \in Nat /\ v \in Nat /\ 0..v \in T
    OBVIOUS
  <2> HIDE DEF T
  <2>2. \A k \in 0..v : k \in 0..m /\ k \in Nat
    BY <2>1
  <2>3. m \in 0..m /\ m \notin 0..v /\ \A k \in 0..m : k \in Nat
    BY <2>1
  <2>4. <<0..v, 0..m>> \in (SUBSET Nat) \X (SUBSET Nat) /\ 0..v \subseteq 0..m /\ 0..v # 0..m
    BY <2>2, <2>3
  <2>5. <<0..v, 0..m>> \in R
    BY <2>4 DEF StrictSubsetOrdering
  <2> HIDE DEF R
  <2>6. <<0..v, X>> \in R
    BY <1>5, <2>5
  <2>7. QED
    BY <1>4, <2>1, <2>6
<1> HIDE DEF T, R, F
<1>7. ASSUME NEW v \in S PROVE m <= v
  <2>1. m \in Nat /\ v \in Nat /\ ~(v < m)
    BY <1>6, <1>7
  <2>2. QED
    BY <2>1
<1>8. QED
  BY <1>7

\* Numbers that are close are few.
LEMMA FewWithin ==
  ASSUME NEW S, S \subseteq Nat, NEW d \in Nat, \A i, j \in S : j <= i + d
  PROVE  IsFiniteSet(S) /\ Cardinality(S) <= d + 1
<1>1. CASE S = {}
  BY <1>1, FS_EmptySet
<1>2. CASE S # {}
  <2>1. PICK k \in S : \A v \in S : k <= v
    BY <1>2, LeastExists
  <2>2. S \subseteq k .. k + d /\ k \in Nat
    BY <2>1
  <2>3. IsFiniteSet(k .. k + d) /\ Cardinality(k .. k + d) = d + 1
    BY <2>2, FS_Interval
  <2>4. QED
    BY <2>2, <2>3, FS_Subset, FS_CardinalityType
<1>3. QED
  BY <1>1, <1>2

\* A sequence has finitely many elements.
LEMMA ImageFinite ==
  ASSUME NEW S, NEW f \in Seq(S)
  PROVE  IsFiniteSet({f[i] : i \in DOMAIN f})
<1>1. IsFiniteSet(1 .. Len(f)) /\ DOMAIN f = 1 .. Len(f)
  BY FS_Interval
<1> DEFINE T == {f[i] : i \in 1 .. Len(f)}
           g == [i \in 1 .. Len(f) |-> f[i]]
<1>2. g \in Surjection(1 .. Len(f), T)
  BY DEF Surjection
<1>3. IsFiniteSet(T)
  BY <1>1, <1>2, FS_Surjection
<1>4. QED
  BY <1>1, <1>3

\* The newest entries, told apart by their numbers, are not more than the log may have.
LEMMA NewestAreFew ==
  ASSUME NEW s, IsFiniteSet(s), \A e \in s : e.n \in Nat,
         \A e, f \in s : e.n = f.n => e = f
  PROVE  Cardinality(Cache!Newest(s)) <= MaxLogs
<1> DEFINE K == Cache!Newest(s)
<1>1. K \subseteq s /\ \A e \in K : Cardinality({f \in s : f.n > e.n}) < MaxLogs
  BY SameCardinality DEF Cache!Newest
<1>2. IsFiniteSet(K) /\ MaxLogs \in Nat \ {0}
  BY <1>1, FS_Subset, StorageAssumption
<1> HIDE DEF K
<1>3. CASE K = {}
  BY <1>2, <1>3, FS_EmptySet DEF K
<1>4. CASE K # {}
  <2> DEFINE N == {e.n : e \in K}
  <2>1. N \subseteq Nat /\ N # {}
    BY <1>1, <1>4
  <2>2. PICK m \in N : \A v \in N : m <= v
    BY <2>1, LeastExists
  <2>3. PICK e \in K : m = e.n
    OBVIOUS
  <2> DEFINE L == {f \in s : f.n > e.n}
  <2>4. K \ {e} \subseteq L
    <3> SUFFICES ASSUME NEW f \in K, f # e PROVE f \in s /\ f.n > e.n
      OBVIOUS
    <3>1. f \in s /\ e \in s /\ f.n \in Nat /\ e.n \in Nat /\ f.n # e.n /\ f.n \in N
      BY <1>1
    <3>2. QED
      BY <2>2, <2>3, <3>1
  <2>5. IsFiniteSet(L) /\ Cardinality(L) < MaxLogs
    BY <1>1, FS_Subset
  <2>6. Cardinality(K \ {e}) <= Cardinality(L) /\ Cardinality(K \ {e}) = Cardinality(K) - 1
    BY <1>2, <2>4, <2>5, FS_Subset, FS_RemoveElement
  <2>7. Cardinality(K) \in Nat /\ Cardinality(L) \in Nat
    BY <1>2, <2>5, FS_CardinalityType
  <2>8. QED
    BY <1>2, <2>5, <2>6, <2>7 DEF K
<1>5. QED
  BY <1>3, <1>4

MemoryTyped ==
  /\ enabled \in BOOLEAN /\ listeners \in Nat /\ packetIdCounter \in Nat /\ immediates \in Nat
  /\ DOMAIN byId \subseteq Nat /\ DOMAIN history = Cache!Kinds
  /\ \E S : pending \in Seq(S) /\ announced \in Seq(S)

CachedInv ==
  /\ MemoryTyped
  /\ Cache!IdsResolve /\ Cache!CacheFollowsSetting /\ Cache!ActivityIsFlushed /\ Cache!CacheInv

LEMMA CacheInitially == ServiceInit => CachedInv
<1> SUFFICES ASSUME Cache!MemoryInit PROVE CachedInv
  BY DEF ServiceInit, Cache!Init
<1>1. MemoryTyped
  <2>1. <<>> \in Seq({})
    OBVIOUS
  <2>2. QED
    BY <2>1 DEF Cache!MemoryInit, MemoryTyped
<1>2. Cache!IdsResolve
  BY DEF Cache!MemoryInit, Cache!IdsResolve
<1>3. Cache!CacheFollowsSetting
  BY DEF Cache!MemoryInit, Cache!CacheFollowsSetting
<1>4. Cache!ActivityIsFlushed
  <2>1. Cardinality({}) = 0
    BY FS_EmptySet
  <2>2. \A i \in DOMAIN (<<>> \o <<>>) : FALSE
    OBVIOUS
  <2>3. QED
    BY <2>1, <2>2, SameCardinality, StorageAssumption DEF Cache!MemoryInit, Cache!ActivityIsFlushed
<1>5. Cache!CacheInv
  BY DEF Cache!MemoryInit, Cache!CacheInv, Cache!IdsAreGivenOnce, Cache!NothingBeforeInit,
         Cache!FlushIsUnderWay
<1>6. QED
  BY <1>1, <1>2, <1>3, <1>4, <1>5 DEF CachedInv

LEMMA DictionaryKeeps ==
  ASSUME CachedInv, [Cache!MemoryNext]_memoryVars
  PROVE  /\ Cache!IdsResolve' /\ Cache!IdsAreGivenOnce'
         /\ packetIdCounter' \in Nat /\ DOMAIN byId' \subseteq Nat
         /\ DOMAIN history' = Cache!Kinds
<1> DEFINE Goal == /\ Cache!IdsResolve' /\ Cache!IdsAreGivenOnce'
                   /\ packetIdCounter' \in Nat /\ DOMAIN byId' \subseteq Nat
                   /\ DOMAIN history' = Cache!Kinds
<1>0. /\ packetIdCounter \in Nat /\ DOMAIN byId \subseteq Nat /\ DOMAIN history = Cache!Kinds
      /\ Cache!IdsAreGivenOnce
      /\ \A k \in Cache!Kinds : \A e \in history[k] : e.id \in DOMAIN byId /\ byId[e.id] = e.packet
      /\ \A i \in DOMAIN byId : byId[i] \in DOMAIN byPacket /\ byPacket[byId[i]] = i
      /\ \A p \in DOMAIN byPacket : byPacket[p] \in DOMAIN byId /\ byId[byPacket[p]] = p
  BY DEF CachedInv, MemoryTyped, Cache!CacheInv, Cache!IdsResolve
<1>1. ASSUME UNCHANGED <<byPacket, byId, packetIdCounter>>, DOMAIN history' = Cache!Kinds,
             \A k \in Cache!Kinds : history'[k] \subseteq history[k]
      PROVE  Goal
  BY <1>0, <1>1 DEF Cache!IdsResolve, Cache!IdsAreGivenOnce
<1>2. ASSUME NEW kind \in Cache!Kinds, NEW p \in Packets, Cache!HearPacket(kind, p) PROVE Goal
  <2>1. CASE ~(enabled /\ listeners > 0)
    BY <1>0, <1>1, <1>2, <2>1 DEF Cache!HearPacket, Cache!dictionary
  <2>2. CASE enabled /\ listeners > 0
    <3> DEFINE id == Cache!PacketId(p)
               new == [id |-> id, packet |-> p, at |-> clock]
    <3>1. /\ DOMAIN byPacket' = DOMAIN byPacket \cup {p}
          /\ \A q \in DOMAIN byPacket' : byPacket'[q] = IF q = p THEN id ELSE byPacket[q]
          /\ DOMAIN byId' = DOMAIN byId \cup {id}
          /\ \A i \in DOMAIN byId' : byId'[i] = IF i = id THEN p ELSE byId[i]
      BY <1>2, <2>2 DEF Cache!HearPacket
    <3>2. packetIdCounter' = packetIdCounter + (IF p \in DOMAIN byPacket THEN 0 ELSE 1)
      BY <1>2, <2>2 DEF Cache!HearPacket
    <3>3. /\ DOMAIN history' = Cache!Kinds
          /\ \A k \in Cache!Kinds : \A e \in history'[k] : e \in history[k] \/ e = new
      BY <1>0, <1>2, <2>2 DEF Cache!HearPacket
    <3>4. /\ id \in Nat /\ id >= 1 /\ id <= packetIdCounter'
          /\ packetIdCounter' \in Nat /\ packetIdCounter <= packetIdCounter'
          /\ IF p \in DOMAIN byPacket THEN id = byPacket[p] ELSE id \notin DOMAIN byId
      BY <1>0, <3>2 DEF Cache!PacketId, Cache!IdsAreGivenOnce
    <3>5. new.id = id /\ new.packet = p
      OBVIOUS
    <3> HIDE DEF id, new
    <3>6. \A k \in Cache!Kinds : \A e \in history'[k] :
            e.id \in DOMAIN byId' /\ byId'[e.id] = e.packet
      <4> SUFFICES ASSUME NEW k \in Cache!Kinds, NEW e \in history'[k]
                   PROVE  e.id \in DOMAIN byId' /\ byId'[e.id] = e.packet
        OBVIOUS
      <4>1. CASE e = new
        BY <3>1, <3>5, <4>1
      <4>2. CASE e \in history[k]
        BY <1>0, <3>1, <3>4, <4>2
      <4>3. QED
        BY <3>3, <4>1, <4>2
    <3>7. \A i \in DOMAIN byId' : byId'[i] \in DOMAIN byPacket' /\ byPacket'[byId'[i]] = i
      BY <1>0, <3>1, <3>4
    <3>8. \A q \in DOMAIN byPacket' : byPacket'[q] \in DOMAIN byId' /\ byId'[byPacket'[q]] = q
      BY <1>0, <3>1, <3>4
    <3>9. \A i \in DOMAIN byId' : i \in 1 .. packetIdCounter' /\ i \in Nat
      BY <1>0, <3>1, <3>4 DEF Cache!IdsAreGivenOnce
    <3>10. QED
      BY <3>3, <3>4, <3>6, <3>7, <3>8, <3>9 DEF Cache!IdsResolve, Cache!IdsAreGivenOnce
  <2>3. QED
    BY <2>1, <2>2
<1>3. CASE Cache!Cleanup
  <2> DEFINE used0 == Cache!Used(history')
             pruned == DOMAIN byId \ used0
             gone == {byId[i] : i \in pruned}
  <2>1. /\ DOMAIN byId' = DOMAIN byId \ pruned /\ \A i \in DOMAIN byId' : byId'[i] = byId[i]
        /\ DOMAIN byPacket' = DOMAIN byPacket \ gone
        /\ \A q \in DOMAIN byPacket' : byPacket'[q] = byPacket[q]
        /\ packetIdCounter' = packetIdCounter
    BY <1>3 DEF Cache!Cleanup
  <2>2. DOMAIN history' = Cache!Kinds /\ \A k \in Cache!Kinds : history'[k] \subseteq history[k]
    BY <1>3 DEF Cache!Cleanup, Cache!Young
  <2>3. \A k \in Cache!Kinds : \A e \in history'[k] : e.id \in used0
    BY DEF Cache!Used
  <2> HIDE DEF used0
  <2>4. \A k \in Cache!Kinds : \A e \in history'[k] :
          e.id \in DOMAIN byId' /\ byId'[e.id] = e.packet
    BY <1>0, <2>1, <2>2, <2>3
  <2>5. \A i \in DOMAIN byId' : byId'[i] \in DOMAIN byPacket' /\ byPacket'[byId'[i]] = i
    BY <1>0, <2>1
  <2>6. \A q \in DOMAIN byPacket' : byPacket'[q] \in DOMAIN byId' /\ byId'[byPacket'[q]] = q
    BY <1>0, <2>1
  <2>7. \A i \in DOMAIN byId' : i \in 1 .. packetIdCounter' /\ i \in Nat
    BY <1>0, <2>1 DEF Cache!IdsAreGivenOnce
  <2>8. QED
    BY <1>0, <2>1, <2>2, <2>4, <2>5, <2>6, <2>7 DEF Cache!IdsResolve, Cache!IdsAreGivenOnce
<1>4. ASSUME NEW wanted \in BOOLEAN, Cache!UpdateSettings(wanted) PROVE Goal
  <2>1. UNCHANGED <<byPacket, byId, packetIdCounter>>
    BY <1>4 DEF Cache!UpdateSettings, Cache!dictionary
  <2>2. history' = [k \in Cache!Kinds |-> {}] \/ history' = history
    BY <1>4 DEF Cache!UpdateSettings
  <2>3. QED
    BY <1>0, <1>1, <2>1, <2>2
<1>5. CASE UNCHANGED <<byPacket, byId, packetIdCounter, history>>
  BY <1>0, <1>1, <1>5
<1>6. QED
  <2>1. CASE Cache!Tick \/ Cache!Connect \/ Cache!AddLog \/ Cache!ReadRecent \/ Cache!Immediate
             \/ Cache!CleanupActivity \/ (\E p \in Packets : Cache!HearUnmatched(p))
             \/ UNCHANGED memoryVars
    BY <1>5, <2>1 DEF Cache!Tick, Cache!Connect, Cache!AddLog, Cache!ReadRecent, Cache!Immediate,
       Cache!CleanupActivity, Cache!HearUnmatched, memoryVars, Cache!dictionary, Cache!packets
  <2>2. QED
    BY <1>2, <1>3, <1>4, <2>1 DEF Cache!MemoryNext

LEMMA SettingsKeep ==
  ASSUME CachedInv, [Cache!MemoryNext]_memoryVars
  PROVE  Cache!CacheFollowsSetting' /\ Cache!NothingBeforeInit'
         /\ enabled' \in BOOLEAN /\ listeners' \in Nat
<1> DEFINE Empty == history = [k \in Cache!Kinds |-> {}] /\ unmatched = {} /\ kept = {}
           Goal == /\ Cache!CacheFollowsSetting' /\ Cache!NothingBeforeInit'
                   /\ enabled' \in BOOLEAN /\ listeners' \in Nat
<1>0. /\ enabled \in BOOLEAN /\ listeners \in Nat
      /\ connected /\ ~early => listeners = (IF enabled THEN 1 ELSE 0) /\ (~enabled => Empty)
      /\ ~connected /\ ~early => enabled /\ listeners = 0 /\ Empty
  BY DEF CachedInv, MemoryTyped, Cache!CacheInv, Cache!CacheFollowsSetting,
     Cache!NothingBeforeInit
<1>1. ASSUME enabled' \in BOOLEAN, listeners' \in Nat,
             connected' /\ ~early' =>
               listeners' = (IF enabled' THEN 1 ELSE 0) /\ (~enabled' => Empty'),
             ~connected' /\ ~early' => enabled' /\ listeners' = 0 /\ Empty'
      PROVE  Goal
  BY <1>1 DEF Cache!CacheFollowsSetting, Cache!NothingBeforeInit
<1>2. ASSUME UNCHANGED <<listeners, enabled, connected, early>>,
             \/ enabled /\ listeners > 0
             \/ UNCHANGED <<history, unmatched, kept>>
             \/ connected /\ enabled
      PROVE  Goal
  BY <1>0, <1>1, <1>2
<1>3. CASE Cache!Connect
  <2>1. PICK b \in BOOLEAN : enabled' = b /\ listeners' = listeners + (IF b THEN 1 ELSE 0)
    BY <1>3 DEF Cache!Connect
  <2>2. ~connected /\ connected' /\ early' = early /\ UNCHANGED <<history, unmatched, kept>>
    BY <1>3 DEF Cache!Connect, Cache!packets
  <2>3. QED
    BY <1>0, <1>1, <2>1, <2>2
<1>4. ASSUME NEW wanted \in BOOLEAN, Cache!UpdateSettings(wanted) PROVE Goal
  <2>1. /\ enabled' = wanted /\ connected' = connected
        /\ ~early' => ~early /\ (connected \/ (wanted <=> enabled))
    <3>1. early' = (early \/ (~connected /\ wanted # enabled))
      BY <1>4 DEF Cache!UpdateSettings
    <3>2. early' <=> early \/ (~connected /\ wanted # enabled)
      BY <3>1, Zenon
    <3>3. enabled' = wanted /\ connected' = connected
      BY <1>4 DEF Cache!UpdateSettings
    <3>4. QED
      BY <3>2, <3>3
  <2>2. /\ enabled /\ ~wanted => Empty'
        /\ ~(enabled /\ ~wanted) => UNCHANGED <<history, unmatched, kept>>
    BY <1>4 DEF Cache!UpdateSettings
  <2>3. /\ (wanted <=> enabled) => listeners' = listeners
        /\ wanted /\ ~enabled => listeners' = listeners + 1
        /\ ~wanted /\ enabled => listeners' = IF listeners = 0 THEN 0 ELSE listeners - 1
    <3>1. listeners' = IF wanted = enabled THEN listeners
                       ELSE IF wanted THEN listeners + 1 ELSE Cache!Off
      BY <1>4 DEF Cache!UpdateSettings
    <3>2. (wanted = enabled) <=> (wanted <=> enabled)
      BY <1>0
    <3>3. QED
      BY <3>1, <3>2 DEF Cache!Off
  <2>4. listeners' \in Nat
    BY <1>0, <2>3
  <2>5. CASE ~connected /\ ~early'
    BY <1>0, <1>1, <2>1, <2>2, <2>3, <2>4, <2>5
  <2>6. CASE connected /\ ~early'
    BY <1>0, <1>1, <2>1, <2>2, <2>3, <2>4, <2>6
  <2>7. QED
    BY <1>1, <2>1, <2>4, <2>5, <2>6
<1>5. ASSUME NEW kind \in Cache!Kinds, NEW p \in Packets, Cache!HearPacket(kind, p) PROVE Goal
  BY <1>2, <1>5 DEF Cache!HearPacket, Cache!settings, Cache!activity
<1>6. ASSUME NEW p \in Packets, Cache!HearUnmatched(p) PROVE Goal
  BY <1>2, <1>6 DEF Cache!HearUnmatched, Cache!settings, Cache!activity
<1>7. CASE Cache!Cleanup
  BY <1>2, <1>7 DEF Cache!Cleanup, Cache!settings
<1>8. CASE Cache!Immediate \/ Cache!ReadRecent
  BY <1>2, <1>8 DEF Cache!Immediate, Cache!ReadRecent, Cache!Flush, Cache!settings, Cache!packets
<1>9. CASE Cache!Tick \/ Cache!AddLog \/ Cache!CleanupActivity \/ UNCHANGED memoryVars
  BY <1>2, <1>9 DEF Cache!Tick, Cache!AddLog, Cache!CleanupActivity, Cache!settings,
     Cache!packets, Cache!activity, memoryVars
<1>10. QED
  BY <1>3, <1>4, <1>5, <1>6, <1>7, <1>8, <1>9 DEF Cache!MemoryNext

\* The log keeps to its limit whatever is cleaned, if its entries were announced.
LEMMA LogIsBounded ==
  ASSUME NEW S, NEW a \in Seq(S), \A i \in DOMAIN a : a[i].n = i,
         NEW s, \A e \in s : \E i \in DOMAIN a : e = a[i]
  PROVE  /\ IsFiniteSet(s) /\ Cardinality(Cache!Cleaned(s)) <= MaxLogs
         /\ Cache!Cleaned(s) \subseteq s
<1>1. Cache!Cleaned(s) \subseteq s
  BY DEF Cache!Cleaned, Cache!Newest, Cache!Young
<1>2. IsFiniteSet(s)
  <2>1. s \subseteq {a[i] : i \in DOMAIN a}
    OBVIOUS
  <2>2. IsFiniteSet({a[i] : i \in DOMAIN a})
    BY ImageFinite
  <2>3. QED
    BY <2>1, <2>2, FS_Subset
<1> DEFINE t == Cache!Young(s, ActivityTtl)
<1>3. t \subseteq s /\ IsFiniteSet(t)
  BY <1>2, FS_Subset DEF Cache!Young
<1>4. \A e \in t : e.n \in Nat
  BY <1>3
<1>5. \A e, f \in t : e.n = f.n => e = f
  BY <1>3
<1> HIDE DEF t
<1>6. Cardinality(Cache!Newest(t)) <= MaxLogs
  BY <1>3, <1>4, <1>5, NewestAreFew
<1>7. QED
  BY <1>1, <1>2, <1>6 DEF Cache!Cleaned, t

LEMMA ActivityKeeps ==
  ASSUME CachedInv, [Cache!MemoryNext]_memoryVars
  PROVE  /\ Cache!ActivityIsFlushed' /\ Cache!FlushIsUnderWay'
         /\ immediates' \in Nat /\ \E S : pending' \in Seq(S) /\ announced' \in Seq(S)
<1> DEFINE all == announced \o pending
           AllTyped == \E S : pending \in Seq(S) /\ announced \in Seq(S)
           Goal == /\ Cache!ActivityIsFlushed' /\ Cache!FlushIsUnderWay'
                   /\ immediates' \in Nat /\ AllTyped'
<1>0. /\ \A i \in DOMAIN all : all[i].n = i
      /\ pending # <<>> => flushScheduled /\ immediates > 0
      /\ Cardinality(logs) <= MaxLogs
      /\ flushScheduled => immediates > 0
      /\ \A e \in logs : \E i \in DOMAIN announced : e = announced[i]
      /\ immediates \in Nat
  BY SameCardinality
     DEF CachedInv, MemoryTyped, Cache!ActivityIsFlushed, Cache!FlushIsUnderWay, Cache!CacheInv
<1>1. PICK S : pending \in Seq(S) /\ announced \in Seq(S)
  BY DEF CachedInv, MemoryTyped
<1>2. /\ DOMAIN pending = 1 .. Len(pending) /\ DOMAIN announced = 1 .. Len(announced)
      /\ Len(pending) \in Nat /\ Len(announced) \in Nat
      /\ all \in Seq(S) /\ DOMAIN all = 1 .. Len(announced) + Len(pending)
      /\ \A i \in 1 .. Len(announced) : all[i] = announced[i]
      /\ \A i \in 1 .. Len(pending) : all[Len(announced) + i] = pending[i]
  <2>1. all \in Seq(S) /\ Len(all) = Len(announced) + Len(pending)
    BY <1>1, Concatenated
  <2>2. DOMAIN all = 1 .. Len(announced) + Len(pending)
    BY <2>1
  <2> HIDE DEF all
  <2>3. QED
    BY <1>1, <2>1, <2>2, Concatenated DEF all
<1>3. \A i \in DOMAIN announced : announced[i].n = i
  <2> HIDE DEF all
  <2>1. QED
    BY <1>0, <1>2
<1>4. ASSUME UNCHANGED <<announced, pending>>, immediates' \in Nat,
             pending # <<>> => flushScheduled' /\ immediates' > 0,
             flushScheduled' => immediates' > 0, Cardinality(logs') <= MaxLogs,
             logs' \subseteq logs
      PROVE  Goal
  <2>1. all' = all
    BY <1>4
  <2>2. Cache!ActivityIsFlushed'
    BY <1>0, <1>4, <2>1, SameCardinality DEF Cache!ActivityIsFlushed
  <2>3. Cache!FlushIsUnderWay'
    BY <1>0, <1>4 DEF Cache!FlushIsUnderWay
  <2>4. AllTyped'
    BY <1>1, <1>4
  <2>5. QED
    BY <1>4, <2>2, <2>3, <2>4
<1>5. CASE Cache!AddLog
  <2> DEFINE new == [n |-> Cache!Added + 1, at |-> clock]
             T == S \cup {new}
  <2>1. /\ pending' = Append(pending, new) /\ announced' = announced /\ logs' = logs
        /\ flushScheduled' = TRUE
        /\ immediates' = immediates + (IF flushScheduled THEN 0 ELSE 1)
    BY <1>5 DEF Cache!AddLog
  <2>2. new.n = Len(announced) + Len(pending) + 1 /\ new \in T
    BY DEF Cache!Added
  <2> HIDE DEF new, all
  <2>3. pending \in Seq(T) /\ announced \in Seq(T)
    BY <1>1, <1>2
  <2>4. pending' \in Seq(T) /\ Len(pending') = Len(pending) + 1
        /\ pending'[Len(pending) + 1] = new
        /\ \A i \in 1 .. Len(pending) : pending'[i] = pending[i]
    BY <2>1, <2>2, <2>3
  <2> DEFINE b == announced \o pending'
  <2>5. /\ DOMAIN b = 1 .. Len(announced) + Len(pending) + 1
        /\ \A i \in 1 .. Len(announced) : b[i] = announced[i]
        /\ \A i \in 1 .. Len(pending) + 1 : b[Len(announced) + i] = pending'[i]
    <3>1. Len(b) = Len(announced) + Len(pending) + 1 /\ b \in Seq(T)
      BY <1>2, <2>3, <2>4, Concatenated
    <3>2. DOMAIN b = 1 .. Len(announced) + Len(pending) + 1
      BY <3>1
    <3> HIDE DEF b
    <3>3. QED
      BY <2>3, <2>4, <3>2, Concatenated DEF b
  <2> HIDE DEF b
  <2>6. ASSUME NEW i \in DOMAIN b PROVE b[i].n = i
    <3>1. CASE i \in 1 .. Len(announced)
      BY <1>3, <1>2, <2>5, <3>1
    <3>2. CASE i \notin 1 .. Len(announced)
      <4>1. /\ i - Len(announced) \in 1 .. Len(pending) + 1
            /\ Len(announced) + (i - Len(announced)) = i
        BY <1>2, <2>5, <2>6, <3>2
      <4>2. b[i] = pending'[i - Len(announced)]
        BY <2>5, <4>1
      <4>3. CASE i - Len(announced) = Len(pending) + 1
        BY <1>2, <2>2, <2>4, <4>1, <4>2, <4>3
      <4>4. CASE i - Len(announced) \in 1 .. Len(pending)
        <5>1. b[i] = pending[i - Len(announced)]
          BY <2>4, <4>2, <4>4
        <5>2. b[i] = all[i] /\ i \in DOMAIN all
          BY <1>2, <4>1, <4>4, <5>1
        <5>3. QED
          BY <1>0, <5>2
      <4>5. QED
        BY <1>2, <4>1, <4>3, <4>4
    <3>3. QED
      BY <3>1, <3>2
  <2>7. immediates' \in Nat /\ immediates' > 0
    BY <1>0, <2>1
  <2>8. Cache!ActivityIsFlushed'
    <3>1. announced' \o pending' = b
      BY <2>1 DEF b
    <3>2. QED
      BY <1>0, <2>1, <2>6, <2>7, <3>1, SameCardinality DEF Cache!ActivityIsFlushed
  <2>9. Cache!FlushIsUnderWay'
    BY <1>0, <2>1, <2>7 DEF Cache!FlushIsUnderWay
  <2>10. AllTyped'
    BY <2>1, <2>3, <2>4
  <2>11. QED
    BY <2>7, <2>8, <2>9, <2>10
<1>6. ASSUME Cache!Flush, immediates' \in Nat PROVE Goal
  <2> DEFINE flushed == {pending[i] : i \in DOMAIN pending}
  <2>1. announced' = all /\ pending' = <<>> /\ flushScheduled' = FALSE
    BY <1>6 DEF Cache!Flush
  <2>2. \/ logs' = logs
        \/ logs' = Cache!Cleaned(logs \cup flushed)
        \/ logs' = logs \cup flushed /\ ~(Cardinality(logs \cup flushed) > MaxLogs)
    BY <1>6, SameCardinality DEF Cache!Flush
  <2>3. ASSUME NEW e \in logs \cup flushed PROVE \E i \in DOMAIN all : e = all[i]
    <3> HIDE DEF all
    <3>1. CASE e \in logs
      BY <1>0, <1>2, <3>1
    <3>2. CASE e \in flushed
      <4>1. PICK i \in DOMAIN pending : e = pending[i]
        BY <3>2
      <4>2. Len(announced) + i \in DOMAIN all /\ all[Len(announced) + i] = e
        BY <1>2, <4>1
      <4>3. QED
        BY <4>2
    <3>3. QED
      BY <2>3, <3>1, <3>2
  <2> HIDE DEF flushed, all
  <2>4. /\ IsFiniteSet(logs \cup flushed)
        /\ Cardinality(Cache!Cleaned(logs \cup flushed)) <= MaxLogs
        /\ Cache!Cleaned(logs \cup flushed) \subseteq logs \cup flushed
    BY <1>0, <1>2, <2>3, LogIsBounded
  <2>5. logs' \subseteq logs \cup flushed /\ Cardinality(logs') <= MaxLogs
    <3>1. Cardinality(logs \cup flushed) \in Nat /\ MaxLogs \in Nat
      BY <2>4, FS_CardinalityType, StorageAssumption
    <3>2. CASE logs' = logs
      BY <1>0, <3>2
    <3>3. CASE logs' = Cache!Cleaned(logs \cup flushed)
      BY <2>4, <3>3
    <3>4. CASE logs' = logs \cup flushed /\ ~(Cardinality(logs \cup flushed) > MaxLogs)
      BY <3>1, <3>4
    <3>5. QED
      BY <2>2, <3>2, <3>3, <3>4
  <2>6. announced' \o pending' = all
    BY <1>2, <2>1
  <2>7. Cache!ActivityIsFlushed'
    BY <1>0, <2>1, <2>5, <2>6, SameCardinality DEF Cache!ActivityIsFlushed
  <2>8. Cache!FlushIsUnderWay'
    BY <2>1, <2>3, <2>5 DEF Cache!FlushIsUnderWay
  <2>9. AllTyped'
    BY <1>2, <2>1
  <2>10. QED
    BY <1>6, <2>7, <2>8, <2>9
<1>7. CASE Cache!Immediate
  <2>1. immediates' \in Nat
    BY <1>0, <1>7 DEF Cache!Immediate
  <2>2. CASE pending = <<>>
    BY <1>0, <1>4, <1>7, <2>1, <2>2 DEF Cache!Immediate
  <2>3. CASE pending # <<>>
    BY <1>6, <1>7, <2>1, <2>3 DEF Cache!Immediate
  <2>4. QED
    BY <2>2, <2>3
<1>8. CASE Cache!ReadRecent
  BY <1>0, <1>6, <1>8 DEF Cache!ReadRecent
<1>9. CASE Cache!CleanupActivity
  <2>1. Cardinality(Cache!Cleaned(logs)) <= MaxLogs /\ Cache!Cleaned(logs) \subseteq logs
    BY <1>0, <1>1, <1>3, LogIsBounded
  <2>2. QED
    BY <1>0, <1>4, <1>9, <2>1 DEF Cache!CleanupActivity
<1>10. CASE Cache!Connect
  <2>1. logs' = logs \/ logs' = {}
    BY <1>10 DEF Cache!Connect
  <2>2. Cardinality({}) <= MaxLogs
    BY FS_EmptySet, StorageAssumption
  <2>3. Cardinality(logs') <= MaxLogs
    <3>1. CASE logs' = logs
      BY <1>0, <3>1
    <3>2. CASE logs' = {}
      BY <2>2, <3>2
    <3>3. QED
      BY <2>1, <3>1, <3>2
  <2>4. QED
    BY <1>0, <1>4, <1>10, <2>1, <2>3 DEF Cache!Connect
<1>11. CASE UNCHANGED <<pending, flushScheduled, immediates, logs, announced>>
  BY <1>0, <1>4, <1>11
<1>12. QED
  <2>1. CASE \/ Cache!Tick \/ Cache!Cleanup \/ (\E p \in Packets : Cache!HearUnmatched(p))
             \/ (\E k \in Cache!Kinds, p \in Packets : Cache!HearPacket(k, p))
             \/ (\E wanted \in BOOLEAN : Cache!UpdateSettings(wanted))
             \/ UNCHANGED memoryVars
    BY <1>11, <2>1 DEF Cache!Tick, Cache!Cleanup, Cache!HearUnmatched, Cache!HearPacket,
       Cache!UpdateSettings, Cache!activity, memoryVars
  <2>2. QED
    BY <1>5, <1>7, <1>8, <1>9, <1>10, <2>1 DEF Cache!MemoryNext

LEMMA CachedStep == CachedInv /\ [ServiceNext]_allVars => CachedInv'
<1> SUFFICES ASSUME CachedInv, [ServiceNext]_allVars PROVE CachedInv'
  OBVIOUS
<1>1. [Cache!MemoryNext]_memoryVars
  BY DEF ServiceNext, LifecycleStep, MemoryStep, RecorderStep, SavedStep, LimiterStep,
     allVars, storeVars
<1>2. QED
  BY <1>1, DictionaryKeeps, SettingsKeep, ActivityKeeps DEF CachedInv, MemoryTyped, Cache!CacheInv

\* Every entry resolves to its packet however the dictionary was pruned, an enabled
\* cache listens once and a disabled one holds nothing, activity is announced once,
\* in order and surely (log-retention.service.ts, activity-log.service.ts), and a
\* recording holds each packet once, in order (raw-packet-logger.service.ts).
THEOREM CacheHoldsCorrect == ServiceSpec => []CacheHolds
<1>1. CachedInv /\ RecordingInv => CacheHolds
  BY DEF CachedInv, RecordingInv, CacheHolds
<1>2. QED
  BY <1>1, CacheInitially, CachedStep, RecordingInitially, RecordingStep, PTL DEF ServiceSpec

-----------------------------------------------------------------------------
(* The limiter of requests.                                                *)

LimiterTyped ==
  /\ now \in Nat
  /\ hits \in [DOMAIN hits -> [count : Nat, resetTime : Nat]]
  /\ IsFiniteSet(DOMAIN hits)
  /\ allowed \in [Ips -> Seq(Nat)]
  /\ refused \in [Ips -> Int]

LimitedInv == LimiterTyped /\ Limiter!TableIsBounded /\ Limiter!LimiterInv

LEMMA LimiterInitially == ServiceInit => LimitedInv
<1> SUFFICES ASSUME Limiter!Init PROVE LimitedInv
  BY DEF ServiceInit
<1>1. <<>> \in Seq(Nat) /\ DOMAIN <<>> = {} /\ -1 \in Int /\ ~(-1 >= 0)
  OBVIOUS
<1>2. IsFiniteSet({}) /\ Cardinality({}) = 0
  BY FS_EmptySet
<1>3. LimiterTyped
  <2>1. hits = <<>> /\ allowed = [ip \in Ips |-> <<>>] /\ refused = [ip \in Ips |-> -1] /\ now = 0
    BY DEF Limiter!Init
  <2>2. hits \in [DOMAIN hits -> [count : Nat, resetTime : Nat]]
    BY <1>1, <2>1
  <2>3. allowed \in [Ips -> Seq(Nat)] /\ refused \in [Ips -> Int]
    BY <1>1, <2>1
  <2>4. now \in Nat /\ IsFiniteSet(DOMAIN hits)
    <3>1. DOMAIN hits = {}
      BY <1>1, <2>1
    <3>2. QED
      BY <1>2, <2>1, <3>1
  <2>5. QED
    BY <2>2, <2>3, <2>4 DEF LimiterTyped
<1>4. Limiter!TableIsBounded
  <2>1. DOMAIN hits = {}
    BY <1>1 DEF Limiter!Init
  <2>2. 0 <= MaxTracked
    BY StorageAssumption
  <2>3. QED
    BY <1>2, <2>1, <2>2, SameCardinality DEF Limiter!TableIsBounded, Limiter!Tracked
<1>5. Limiter!LimiterInv
  BY <1>1 DEF Limiter!Init, Limiter!LimiterInv, Limiter!TimesAreOrdered, Limiter!RecordCounts,
     Limiter!WindowsApart, Limiter!AllowancesApart, Limiter!RefusalHadCause, Limiter!Tracked
<1>6. QED
  BY <1>3, <1>4, <1>5 DEF LimitedInv

\* What is known of one client; its parts hold together.
ClientInv(ip) ==
  /\ Limiter!TimesAreOrdered(ip) /\ Limiter!RecordCounts(ip) /\ Limiter!WindowsApart(ip)
  /\ Limiter!AllowancesApart(ip) /\ Limiter!RefusalHadCause(ip)

\* When a window is over, its requests but the last ones lie a window back.
LEMMA WindowIsOver ==
  ASSUME LimiterTyped, NEW ip \in Ips, ClientInv(ip),
         ip \in DOMAIN hits => now > hits[ip].resetTime
  PROVE  \A i \in 1 .. Len(allowed[ip]) :
           i + MaxHits <= Len(allowed[ip]) + 1 => allowed[ip][i] + WindowMs < now
<1>1. allowed[ip] \in Seq(Nat) /\ MaxHits \in Nat \ {0} /\ WindowMs \in Nat \ {0}
  BY StorageAssumption DEF LimiterTyped
<1>2. DOMAIN allowed[ip] = 1 .. Len(allowed[ip]) /\ Len(allowed[ip]) \in Nat
      /\ \A i \in 1 .. Len(allowed[ip]) : allowed[ip][i] \in Nat
  BY <1>1
<1>3. CASE ip \notin DOMAIN hits
  BY <1>1, <1>2, <1>3 DEF ClientInv, Limiter!WindowsApart, Limiter!Tracked
<1>4. CASE ip \in DOMAIN hits
  <2> DEFINE c == hits[ip].count
             r == hits[ip].resetTime
  <2>1. c \in 1 .. MaxHits /\ c <= Len(allowed[ip]) /\ r \in Nat
        /\ allowed[ip][Len(allowed[ip]) + 1 - c] = r - WindowMs
    BY <1>4 DEF ClientInv, Limiter!RecordCounts, Limiter!Tracked, LimiterTyped
  <2>2. \A i, j \in 1 .. Len(allowed[ip]) : i <= j => allowed[ip][i] <= allowed[ip][j]
    BY <1>2 DEF ClientInv, Limiter!TimesAreOrdered
  <2>3. r < now /\ now \in Nat
    BY <1>4 DEF LimiterTyped
  <2> DEFINE a == allowed[ip]
             n == Len(allowed[ip])
  <2> SUFFICES ASSUME NEW i \in 1 .. n, i + MaxHits <= n + 1 PROVE a[i] + WindowMs < now
    OBVIOUS
  <2> HIDE DEF c, r, a, n
  <2>4. n + 1 - c \in 1 .. n /\ i <= n + 1 - c
    <3>1. n \in Nat /\ c \in 1 .. MaxHits /\ c <= n
      BY <1>2, <2>1 DEF n
    <3>2. QED
      BY <1>1, <3>1
  <2>5. a[i] \in Nat /\ a[n + 1 - c] \in Nat /\ a[i] <= a[n + 1 - c] /\ a[n + 1 - c] = r - WindowMs
    BY <1>2, <2>1, <2>2, <2>4 DEF a, n
  <2>6. QED
    BY <1>1, <2>1, <2>3, <2>5
<1>5. QED
  BY <1>3, <1>4

\* One more request of a client, in a window that counts it.
LEMMA AllowKeeps ==
  ASSUME LimiterTyped, LimiterTyped', NEW ip \in Ips, ClientInv(ip),
         allowed'[ip] = Append(allowed[ip], now), now' = now, refused' = refused,
         ip \in DOMAIN hits',
         \/ /\ ip \in DOMAIN hits => now > hits[ip].resetTime
            /\ hits'[ip] = [count |-> 1, resetTime |-> now + WindowMs]
         \/ /\ ip \in DOMAIN hits /\ hits[ip].count < MaxHits
            /\ hits'[ip].count = hits[ip].count + 1
            /\ hits'[ip].resetTime = hits[ip].resetTime
  PROVE  ClientInv(ip)'
<1> DEFINE a == allowed[ip]
           b == allowed'[ip]
           n == Len(allowed[ip])
<1>1. a \in Seq(Nat) /\ MaxHits \in Nat \ {0} /\ WindowMs \in Nat \ {0} /\ now \in Nat
  BY StorageAssumption DEF LimiterTyped
<1>2. n \in Nat /\ DOMAIN a = 1 .. n /\ \A i \in 1 .. n : a[i] \in Nat
  BY <1>1
<1>3. DOMAIN b = 1 .. n + 1 /\ Len(b) = n + 1 /\ b[n + 1] = now
      /\ \A i \in 1 .. n : b[i] = a[i]
  BY <1>1, <1>2
<1> DEFINE c == hits'[ip].count
           r == hits'[ip].resetTime
<1>4. \A i, j \in 1 .. n : a[i] <= now /\ (i <= j => a[i] <= a[j])
  BY <1>2 DEF ClientInv, Limiter!TimesAreOrdered
<1>5. \A i, j \in 1 .. n : i + 2 * MaxHits <= j + 1 => a[i] + WindowMs < a[j]
  BY <1>2 DEF ClientInv, Limiter!AllowancesApart
<1>6. /\ c \in 1 .. MaxHits /\ c <= n + 1 /\ b[n + 2 - c] = r - WindowMs
      /\ \A i \in 1 .. n + 1 : i + MaxHits <= n + 2 - c => b[i] + WindowMs < r - WindowMs
      /\ \A i \in 1 .. n : i + 2 * MaxHits <= n + 2 => a[i] + WindowMs < now
  <2>1. CASE /\ ip \in DOMAIN hits => now > hits[ip].resetTime
             /\ hits'[ip] = [count |-> 1, resetTime |-> now + WindowMs]
    <3>1. c = 1 /\ r = now + WindowMs
      BY <2>1
    <3>2. \A i \in 1 .. n : i + MaxHits <= n + 1 => a[i] + WindowMs < now
      BY <2>1, WindowIsOver
    <3> HIDE DEF a, b, c, r, n
    <3>3. c \in 1 .. MaxHits /\ c <= n + 1 /\ n + 2 - c = n + 1 /\ r - WindowMs = now
      BY <1>1, <1>2, <3>1
    <3>4. \A i \in 1 .. n : i + MaxHits <= n + 1 => b[i] + WindowMs < now
      BY <1>3, <3>2
    <3>5. \A i \in 1 .. n : i + 2 * MaxHits <= n + 2 => i + MaxHits <= n + 1
      BY <1>1, <1>2
    <3>6. \A i \in 1 .. n + 1 : i + MaxHits <= n + 1 => i \in 1 .. n
      BY <1>1, <1>2
    <3>7. QED
      BY <1>3, <3>2, <3>3, <3>4, <3>5, <3>6
  <2>2. CASE /\ ip \in DOMAIN hits /\ hits[ip].count < MaxHits
             /\ hits'[ip].count = hits[ip].count + 1
             /\ hits'[ip].resetTime = hits[ip].resetTime
    <3> DEFINE d == hits[ip].count
    <3>1. c = d + 1 /\ r = hits[ip].resetTime /\ d < MaxHits
      BY <2>2
    <3>2. d \in 1 .. MaxHits /\ d <= n /\ r \in Nat /\ a[n + 1 - d] = r - WindowMs
      BY <2>2, <3>1 DEF ClientInv, Limiter!RecordCounts, Limiter!Tracked, LimiterTyped
    <3>3. \A i \in 1 .. n : i + MaxHits <= n + 1 - d => a[i] + WindowMs < r - WindowMs
      BY <1>2, <2>2, <3>1 DEF ClientInv, Limiter!WindowsApart, Limiter!Tracked
    <3> HIDE DEF a, b, c, r, n, d
    <3>4. n + 2 - c = n + 1 - d /\ n + 1 - d \in 1 .. n
      BY <1>2, <3>1, <3>2
    <3>5. r - WindowMs <= now
      BY <1>4, <3>2, <3>4
    <3>6. \A i \in 1 .. n : i + 2 * MaxHits <= n + 2 => i + MaxHits <= n + 1 - d
      BY <1>1, <1>2, <3>1, <3>2
    <3>7. \A i \in 1 .. n + 1 : i + MaxHits <= n + 2 - c => i \in 1 .. n
      BY <1>1, <1>2, <3>2, <3>4
    <3>8. \A i \in 1 .. n : a[i] + WindowMs < r - WindowMs => a[i] + WindowMs < now
      BY <1>1, <1>2, <3>2, <3>5
    <3>9. c \in 1 .. MaxHits /\ c <= n + 1
      BY <1>1, <1>2, <3>1, <3>2
    <3>10. QED
      BY <1>3, <3>2, <3>3, <3>4, <3>6, <3>7, <3>8, <3>9
  <2>3. QED
    BY <2>1, <2>2
<1> HIDE DEF a, n
<1>7. Limiter!TimesAreOrdered(ip)'
  <2>1. ASSUME NEW i \in 1 .. n + 1, NEW j \in 1 .. n + 1
        PROVE  b[i] <= now /\ (i <= j => b[i] <= b[j])
    <3> HIDE DEF b, c, r
    <3>1. \A k \in 1 .. n + 1 : k = n + 1 \/ k \in 1 .. n
      BY <1>2
    <3>2. CASE i \in 1 .. n
      BY <1>3, <1>4, <3>1, <3>2
    <3>3. CASE i = n + 1
      <4>1. i <= j => j = n + 1
        BY <1>2, <2>1, <3>3
      <4>2. QED
        BY <1>1, <1>3, <3>3, <4>1
    <3>4. QED
      BY <3>1, <3>2, <3>3
  <2>2. QED
    BY <1>3, <2>1 DEF Limiter!TimesAreOrdered
<1>8. Limiter!RecordCounts(ip)'
  <2>1. c \in 1 .. MaxHits /\ c <= Len(b) /\ b[Len(b) + 1 - c] = r - WindowMs
    <3> HIDE DEF b, c, r
    <3>1. Len(b) + 1 - c = n + 2 - c
      BY <1>1, <1>2, <1>3, <1>6
    <3>2. QED
      BY <1>2, <1>3, <1>6, <3>1
  <2>2. QED
    BY <2>1 DEF Limiter!RecordCounts
<1>9. Limiter!WindowsApart(ip)'
  <2>1. \A i \in DOMAIN b : i + MaxHits <= Len(b) + 1 - c => b[i] + WindowMs < r - WindowMs
    <3> HIDE DEF b, c, r
    <3>1. Len(b) + 1 - c = n + 2 - c
      BY <1>1, <1>2, <1>3, <1>6
    <3>2. QED
      BY <1>2, <1>3, <1>6, <3>1
  <2>2. QED
    BY <2>1 DEF Limiter!WindowsApart, Limiter!Tracked
<1>10. Limiter!AllowancesApart(ip)'
  <2>1. ASSUME NEW i \in 1 .. n + 1, NEW j \in 1 .. n + 1, i + 2 * MaxHits <= j + 1
        PROVE  b[i] + WindowMs < b[j]
    <3> HIDE DEF b, c, r
    <3>1. i \in 1 .. n
      BY <1>1, <1>2, <2>1
    <3>2. CASE j \in 1 .. n
      BY <1>3, <1>5, <2>1, <3>1, <3>2
    <3>3. CASE j = n + 1
      <4>1. i + 2 * MaxHits <= n + 2
        BY <1>1, <1>2, <2>1, <3>3
      <4>2. QED
        BY <1>3, <1>6, <3>1, <3>3, <4>1
    <3>4. QED
      BY <1>2, <3>2, <3>3
  <2>2. QED
    BY <1>3, <2>1 DEF Limiter!AllowancesApart
<1>11. Limiter!RefusalHadCause(ip)'
  <2> SUFFICES ASSUME refused[ip] >= 0
               PROVE  \E k \in DOMAIN b : /\ k + MaxHits - 1 \in DOMAIN b
                        /\ b[k] >= refused[ip] - WindowMs
                        /\ b[k + MaxHits - 1] <= refused[ip]
    BY DEF Limiter!RefusalHadCause
  <2>1. PICK k \in DOMAIN a : /\ k + MaxHits - 1 \in DOMAIN a
                        /\ a[k] >= refused[ip] - WindowMs
                        /\ a[k + MaxHits - 1] <= refused[ip]
    BY DEF ClientInv, Limiter!RefusalHadCause, a
  <2>2. k \in DOMAIN b /\ k + MaxHits - 1 \in DOMAIN b /\ b[k] = a[k]
        /\ b[k + MaxHits - 1] = a[k + MaxHits - 1]
    <3> HIDE DEF b
    <3>1. QED
      BY <1>2, <1>3, <2>1
  <2>3. QED
    BY <2>1, <2>2
<1>12. QED
  BY <1>7, <1>8, <1>9, <1>10, <1>11 DEF ClientInv

\* A client about which nothing is done, whether its record stays or goes.
LEMMA OthersKeep ==
  ASSUME LimiterTyped, LimiterTyped', NEW ip \in Ips, ClientInv(ip),
         allowed'[ip] = allowed[ip], refused'[ip] = refused[ip], now <= now',
         \/ ip \in DOMAIN hits /\ ip \in DOMAIN hits' /\ hits'[ip] = hits[ip]
         \/ /\ ip \notin DOMAIN hits'
            /\ ip \in DOMAIN hits => now > hits[ip].resetTime
  PROVE  ClientInv(ip)'
<1> DEFINE a == allowed[ip]
           n == Len(allowed[ip])
<1>1. a \in Seq(Nat) /\ MaxHits \in Nat \ {0} /\ WindowMs \in Nat \ {0}
      /\ now \in Nat /\ now' \in Nat
  BY StorageAssumption DEF LimiterTyped
<1>2. n \in Nat /\ DOMAIN a = 1 .. n /\ \A i \in 1 .. n : a[i] \in Nat
  BY <1>1
<1>3. Limiter!TimesAreOrdered(ip)'
  <2>1. \A i, j \in DOMAIN a : a[i] <= now /\ (i <= j => a[i] <= a[j])
    BY DEF ClientInv, Limiter!TimesAreOrdered
  <2>2. \A i \in DOMAIN a : a[i] <= now'
    <3> HIDE DEF a, n
    <3>1. QED
      BY <1>1, <1>2, <2>1
  <2>3. QED
    BY <2>1, <2>2 DEF Limiter!TimesAreOrdered
<1>4. Limiter!RecordCounts(ip)'
  BY DEF ClientInv, Limiter!RecordCounts, Limiter!Tracked
<1>5. Limiter!WindowsApart(ip)'
  <2>1. CASE ip \in DOMAIN hits /\ ip \in DOMAIN hits' /\ hits'[ip] = hits[ip]
    BY <2>1 DEF ClientInv, Limiter!WindowsApart, Limiter!Tracked
  <2>2. CASE /\ ip \notin DOMAIN hits'
             /\ ip \in DOMAIN hits => now > hits[ip].resetTime
    <3>1. \A i \in 1 .. n : i + MaxHits <= n + 1 => a[i] + WindowMs < now
      BY <2>2, WindowIsOver
    <3>2. \A i \in DOMAIN a : i + MaxHits <= n + 1 => a[i] + WindowMs < now'
      <4> HIDE DEF a, n
      <4>1. QED
        BY <1>1, <1>2, <3>1
    <3>3. QED
      BY <2>2, <3>2 DEF Limiter!WindowsApart, Limiter!Tracked
  <2>3. QED
    BY <2>1, <2>2
<1>6. Limiter!AllowancesApart(ip)'
  BY DEF ClientInv, Limiter!AllowancesApart
<1>7. Limiter!RefusalHadCause(ip)'
  BY DEF ClientInv, Limiter!RefusalHadCause
<1>8. QED
  BY <1>3, <1>4, <1>5, <1>6, <1>7 DEF ClientInv

\* A refused client has an allowance of requests in its window.
LEMMA RefuseKeeps ==
  ASSUME LimiterTyped, LimiterTyped', NEW ip \in Ips, ClientInv(ip), Limiter!Refuse(ip)
  PROVE  ClientInv(ip)'
<1> DEFINE a == allowed[ip]
           n == Len(allowed[ip])
           c == hits[ip].count
           r == hits[ip].resetTime
<1>0. /\ now' = now /\ hits' = hits /\ allowed' = allowed /\ refused'[ip] = now
      /\ ip \in DOMAIN hits /\ ~(now > r) /\ c >= MaxHits
  BY DEF Limiter!Refuse, Limiter!Tracked, Limiter!Expired, LimiterTyped
<1>1. a \in Seq(Nat) /\ MaxHits \in Nat \ {0} /\ WindowMs \in Nat \ {0} /\ now \in Nat
  BY StorageAssumption DEF LimiterTyped
<1>2. n \in Nat /\ DOMAIN a = 1 .. n /\ \A i \in 1 .. n : a[i] \in Nat
  BY <1>1
<1>3. Limiter!TimesAreOrdered(ip)' /\ Limiter!RecordCounts(ip)' /\ Limiter!WindowsApart(ip)'
      /\ Limiter!AllowancesApart(ip)'
  BY <1>0 DEF ClientInv, Limiter!TimesAreOrdered, Limiter!RecordCounts, Limiter!WindowsApart,
     Limiter!AllowancesApart, Limiter!Tracked
<1>4. Limiter!RefusalHadCause(ip)'
  <2>1. c \in 1 .. MaxHits /\ c <= n /\ a[n + 1 - c] = r - WindowMs /\ r \in Nat
    BY <1>0 DEF ClientInv, Limiter!RecordCounts, Limiter!Tracked, LimiterTyped
  <2>2. \A i \in DOMAIN a : a[i] <= now
    BY DEF ClientInv, Limiter!TimesAreOrdered
  <2>3. \E k \in DOMAIN a : /\ k + MaxHits - 1 \in DOMAIN a
                           /\ a[k] >= now - WindowMs
                           /\ a[k + MaxHits - 1] <= now
    <3> HIDE DEF a, n, c, r
    <3>1. c = MaxHits /\ n + 1 - c \in 1 .. n /\ n + 1 - c + MaxHits - 1 = n /\ n \in 1 .. n
      BY <1>0, <1>1, <1>2, <2>1
    <3>2. r - WindowMs >= now - WindowMs
      BY <1>0, <1>1, <2>1
    <3>3. QED
      BY <1>2, <2>1, <2>2, <3>1, <3>2
  <2>4. QED
    BY <1>0, <2>3 DEF Limiter!RefusalHadCause
<1>5. QED
  BY <1>3, <1>4 DEF ClientInv

LEMMA LimiterTypes ==
  ASSUME LimiterTyped, [Limiter!Next]_limiterVars PROVE LimiterTyped'
<1>1. WindowMs \in Nat
  BY StorageAssumption
<1>2. \A ip \in Ips : \A other \in Ips :
        [allowed EXCEPT ![ip] = Append(@, now)][other] \in Seq(Nat)
  BY DEF LimiterTyped
<1>3. ASSUME NEW ip \in Ips, Limiter!Allow(ip)
      PROVE  /\ now' \in Nat /\ allowed' \in [Ips -> Seq(Nat)]
             /\ refused' \in [Ips -> Int]
  BY <1>2, <1>3 DEF Limiter!Allow, LimiterTyped
<1>4. Limiter!Fresh \in [count : Nat, resetTime : Nat]
  BY <1>1 DEF Limiter!Fresh, LimiterTyped
<1>5. ASSUME NEW ip \in Ips, Limiter!NewClient(ip) PROVE LimiterTyped'
  <2>1. PICK stay \in SUBSET DOMAIN hits :
          hits' = [c \in stay \cup {ip} |-> IF c = ip THEN Limiter!Fresh ELSE hits[c]]
    BY <1>5 DEF Limiter!NewClient, Limiter!Tracked
  <2>2. DOMAIN hits' = stay \cup {ip} /\ IsFiniteSet(stay \cup {ip})
    BY <2>1, FS_Subset, FS_AddElement DEF LimiterTyped
  <2>3. hits' \in [DOMAIN hits' -> [count : Nat, resetTime : Nat]]
    BY <1>4, <2>1, <2>2 DEF LimiterTyped
  <2>4. QED
    BY <1>3, <1>5, <2>2, <2>3 DEF LimiterTyped, Limiter!NewClient
<1>6. ASSUME NEW ip \in Ips, Limiter!NewWindow(ip) PROVE LimiterTyped'
  <2>1. DOMAIN hits' = DOMAIN hits
        /\ hits' \in [DOMAIN hits -> [count : Nat, resetTime : Nat]]
    BY <1>4, <1>6 DEF Limiter!NewWindow, LimiterTyped
  <2>2. QED
    BY <1>3, <1>6, <2>1 DEF LimiterTyped, Limiter!NewWindow
<1>7. ASSUME NEW ip \in Ips, Limiter!CountHit(ip) PROVE LimiterTyped'
  <2>1. DOMAIN hits' = DOMAIN hits
        /\ hits' \in [DOMAIN hits -> [count : Nat, resetTime : Nat]]
    <3>1. hits[ip] \in [count : Nat, resetTime : Nat]
      BY <1>7 DEF Limiter!CountHit, Limiter!Tracked, LimiterTyped
    <3>2. [hits[ip] EXCEPT !.count = @ + 1] \in [count : Nat, resetTime : Nat]
      BY <3>1
    <3>3. hits' = [hits EXCEPT ![ip] = [hits[ip] EXCEPT !.count = @ + 1]]
      BY <1>7 DEF Limiter!CountHit
    <3>4. QED
      BY <3>2, <3>3 DEF LimiterTyped
  <2>2. QED
    BY <1>3, <1>7, <2>1 DEF LimiterTyped, Limiter!CountHit
<1>8. ASSUME NEW ip \in Ips, Limiter!Refuse(ip) PROVE LimiterTyped'
  BY <1>8 DEF Limiter!Refuse, LimiterTyped
<1>9. CASE Limiter!CleanupInterval
  <2>1. DOMAIN hits' \subseteq DOMAIN hits
        /\ hits' \in [DOMAIN hits' -> [count : Nat, resetTime : Nat]]
    BY <1>9 DEF Limiter!CleanupInterval, Limiter!Live, Limiter!Tracked, LimiterTyped
  <2>2. QED
    BY <1>9, <2>1, FS_Subset DEF LimiterTyped, Limiter!CleanupInterval
<1>10. CASE Limiter!Tick
  BY <1>10 DEF Limiter!Tick, LimiterTyped
<1>11. CASE UNCHANGED limiterVars
  BY <1>11 DEF limiterVars, LimiterTyped
<1>12. QED
  BY <1>5, <1>6, <1>7, <1>8, <1>9, <1>10, <1>11 DEF Limiter!Next

LEMMA ClientsKeep ==
  ASSUME LimiterTyped, Limiter!LimiterInv, [Limiter!Next]_limiterVars PROVE Limiter!LimiterInv'
<1>0. LimiterTyped'
  BY LimiterTypes
<1> SUFFICES ASSUME NEW ip \in Ips, ip \notin evicted' PROVE ClientInv(ip)'
  BY DEF Limiter!LimiterInv, ClientInv
<1>1. evicted \subseteq evicted'
  BY DEF Limiter!Next, Limiter!NewClient, Limiter!NewWindow, Limiter!CountHit, Limiter!Refuse,
     Limiter!CleanupInterval, Limiter!Tick, limiterVars
<1>2. ClientInv(ip)
  BY <1>1 DEF Limiter!LimiterInv, ClientInv
<1>3. now \in Nat
  BY DEF LimiterTyped
<1>4. ASSUME NEW c \in Ips, Limiter!Allow(c)
      PROVE  /\ now' = now /\ refused' = refused
             /\ allowed'[ip] = IF ip = c THEN Append(allowed[ip], now) ELSE allowed[ip]
  BY <1>4 DEF Limiter!Allow, LimiterTyped
<1>5. ASSUME NEW c \in Ips, Limiter!NewClient(c) PROVE ClientInv(ip)'
  <2>1. PICK stay \in SUBSET DOMAIN hits :
          /\ hits' = [d \in stay \cup {c} |-> IF d = c THEN Limiter!Fresh ELSE hits[d]]
          /\ evicted' = evicted \cup (Limiter!Live \ stay)
    BY <1>5 DEF Limiter!NewClient, Limiter!Tracked
  <2>2. c \notin DOMAIN hits /\ Limiter!Allow(c)
    BY <1>5 DEF Limiter!NewClient, Limiter!Tracked
  <2>3. CASE ip = c
    <3>1. ip \in DOMAIN hits' /\ ip \notin DOMAIN hits
          /\ hits'[ip] = [count |-> 1, resetTime |-> now + WindowMs]
      BY <2>1, <2>2, <2>3 DEF Limiter!Fresh
    <3>2. QED
      BY <1>0, <1>2, <1>4, <2>2, <2>3, <3>1, AllowKeeps
  <2>4. CASE ip # c /\ ip \in stay
    <3>1. ip \in DOMAIN hits /\ ip \in DOMAIN hits' /\ hits'[ip] = hits[ip]
      BY <2>1, <2>4
    <3>2. QED
      BY <1>0, <1>2, <1>3, <1>4, <2>2, <2>4, <3>1, OthersKeep
  <2>5. CASE ip # c /\ ip \notin stay
    <3>1. ip \notin DOMAIN hits' /\ (ip \in DOMAIN hits => now > hits[ip].resetTime)
      BY <2>1, <2>5 DEF Limiter!Live, Limiter!Tracked, Limiter!Expired
    <3>2. QED
      BY <1>0, <1>2, <1>3, <1>4, <2>2, <2>5, <3>1, OthersKeep
  <2>6. QED
    BY <2>3, <2>4, <2>5
<1>6. ASSUME NEW c \in Ips, Limiter!NewWindow(c) PROVE ClientInv(ip)'
  <2>1. /\ Limiter!Allow(c) /\ c \in DOMAIN hits /\ now > hits[c].resetTime
        /\ hits' = [hits EXCEPT ![c] = [count |-> 1, resetTime |-> now + WindowMs]]
    BY <1>6 DEF Limiter!NewWindow, Limiter!Tracked, Limiter!Expired, Limiter!Fresh
  <2>2. CASE ip = c
    <3>1. ip \in DOMAIN hits' /\ now > hits[ip].resetTime
          /\ hits'[ip] = [count |-> 1, resetTime |-> now + WindowMs]
      BY <2>1, <2>2
    <3>2. QED
      BY <1>0, <1>2, <1>4, <2>1, <2>2, <3>1, AllowKeeps
  <2>3. CASE ip # c
    <3>1. DOMAIN hits' = DOMAIN hits /\ (ip \in DOMAIN hits => hits'[ip] = hits[ip])
      BY <2>1, <2>3
    <3>2. \/ ip \in DOMAIN hits /\ ip \in DOMAIN hits' /\ hits'[ip] = hits[ip]
          \/ ip \notin DOMAIN hits'  /\ ip \notin DOMAIN hits
      BY <3>1
    <3>3. QED
      BY <1>0, <1>2, <1>3, <1>4, <2>1, <2>3, <3>2, OthersKeep
  <2>4. QED
    BY <2>2, <2>3
<1>7. ASSUME NEW c \in Ips, Limiter!CountHit(c) PROVE ClientInv(ip)'
  <2>1. /\ Limiter!Allow(c) /\ c \in DOMAIN hits /\ hits[c].count < MaxHits
        /\ hits' = [hits EXCEPT ![c].count = @ + 1]
        /\ hits \in [DOMAIN hits -> [count : Nat, resetTime : Nat]]
    BY <1>7 DEF Limiter!CountHit, Limiter!Tracked, LimiterTyped
  <2>2. CASE ip = c
    <3>1. ip \in DOMAIN hits' /\ hits'[ip].count = hits[ip].count + 1
          /\ hits'[ip].resetTime = hits[ip].resetTime
      BY <2>1, <2>2
    <3>2. QED
      BY <1>0, <1>2, <1>4, <2>1, <2>2, <3>1, AllowKeeps
  <2>3. CASE ip # c
    <3>1. DOMAIN hits' = DOMAIN hits /\ (ip \in DOMAIN hits => hits'[ip] = hits[ip])
      BY <2>1, <2>3
    <3>2. \/ ip \in DOMAIN hits /\ ip \in DOMAIN hits' /\ hits'[ip] = hits[ip]
          \/ ip \notin DOMAIN hits'  /\ ip \notin DOMAIN hits
      BY <3>1
    <3>3. QED
      BY <1>0, <1>2, <1>3, <1>4, <2>1, <2>3, <3>2, OthersKeep
  <2>4. QED
    BY <2>2, <2>3
<1>8. ASSUME NEW c \in Ips, Limiter!Refuse(c) PROVE ClientInv(ip)'
  <2>1. CASE ip = c
    BY <1>0, <1>2, <1>8, <2>1, RefuseKeeps
  <2>2. CASE ip # c
    <3>1. /\ allowed' = allowed /\ now' = now /\ hits' = hits /\ refused'[ip] = refused[ip]
      BY <1>8, <2>2 DEF Limiter!Refuse, LimiterTyped
    <3>2. \/ ip \in DOMAIN hits /\ ip \in DOMAIN hits' /\ hits'[ip] = hits[ip]
          \/ ip \notin DOMAIN hits'  /\ ip \notin DOMAIN hits
      BY <3>1
    <3>3. QED
      BY <1>0, <1>2, <1>3, <3>1, <3>2, OthersKeep
  <2>3. QED
    BY <2>1, <2>2
<1>9. CASE Limiter!CleanupInterval
  <2>1. /\ allowed' = allowed /\ now' = now /\ refused' = refused
        /\ hits' = [c \in Limiter!Live |-> hits[c]]
    BY <1>9 DEF Limiter!CleanupInterval
  <2>2. \/ ip \in DOMAIN hits /\ ip \in DOMAIN hits' /\ hits'[ip] = hits[ip]
        \/ /\ ip \notin DOMAIN hits'
           /\ ip \in DOMAIN hits => now > hits[ip].resetTime
    BY <2>1 DEF Limiter!Live, Limiter!Tracked, Limiter!Expired
  <2>3. QED
    BY <1>0, <1>2, <1>3, <2>1, <2>2, OthersKeep
<1>10. CASE Limiter!Tick \/ UNCHANGED limiterVars
  <2>1. /\ allowed' = allowed /\ now <= now' /\ refused' = refused /\ hits' = hits
    BY <1>3, <1>10 DEF Limiter!Tick, limiterVars
  <2>2. \/ ip \in DOMAIN hits /\ ip \in DOMAIN hits' /\ hits'[ip] = hits[ip]
        \/ ip \notin DOMAIN hits'  /\ ip \notin DOMAIN hits
    BY <2>1
  <2>3. QED
    BY <1>0, <1>2, <2>1, <2>2, OthersKeep
<1>11. QED
  BY <1>5, <1>6, <1>7, <1>8, <1>9, <1>10 DEF Limiter!Next

LEMMA TableKeeps ==
  ASSUME LimiterTyped, Limiter!TableIsBounded, [Limiter!Next]_limiterVars
  PROVE  Limiter!TableIsBounded'
<1>1. /\ IsFiniteSet(DOMAIN hits) /\ Cardinality(DOMAIN hits) <= MaxTracked
      /\ MaxTracked \in Nat \ {0}
  BY SameCardinality, StorageAssumption
     DEF LimiterTyped, Limiter!TableIsBounded, Limiter!Tracked
<1>2. SUFFICES Cardinality(DOMAIN hits') <= MaxTracked
  BY SameCardinality DEF Limiter!TableIsBounded, Limiter!Tracked
<1>3. CASE \E c \in Ips : Limiter!NewClient(c)
  <2>1. PICK c \in Ips : Limiter!NewClient(c)
    BY <1>3
  <2>2. PICK stay \in SUBSET DOMAIN hits :
          /\ Limiter!Room(stay)
          /\ hits' = [d \in stay \cup {c} |-> IF d = c THEN Limiter!Fresh ELSE hits[d]]
    BY <2>1 DEF Limiter!NewClient, Limiter!Tracked
  <2>3. IsFiniteSet(stay) /\ Cardinality(stay) < MaxTracked
    <3>1. PICK left \in SUBSET DOMAIN hits :
            IF Cardinality(left) < MaxTracked THEN stay = left
            ELSE \E ip \in left : stay = left \ {ip}
      BY <2>2, SameCardinality DEF Limiter!Room, Limiter!Live, Limiter!Tracked
    <3>2. IsFiniteSet(left) /\ Cardinality(left) \in Nat /\ Cardinality(left) <= MaxTracked
      <4>1. IsFiniteSet(left) /\ Cardinality(left) <= Cardinality(DOMAIN hits)
        BY <1>1, FS_Subset
      <4>2. Cardinality(left) \in Nat /\ Cardinality(DOMAIN hits) \in Nat
        BY <1>1, <4>1, FS_CardinalityType
      <4>3. QED
        BY <1>1, <4>1, <4>2
    <3>3. ASSUME NEW ip \in left, stay = left \ {ip} PROVE Cardinality(stay) = Cardinality(left) - 1
      BY <3>2, <3>3, FS_RemoveElement
    <3>4. IsFiniteSet(stay)
      BY <3>1, <3>2, FS_Subset
    <3>5. QED
      BY <1>1, <3>1, <3>2, <3>3, <3>4
  <2>4. Cardinality(stay \cup {c}) <= Cardinality(stay) + 1 /\ Cardinality(stay) \in Nat
    BY <2>3, FS_AddElement, FS_CardinalityType
  <2>5. DOMAIN hits' = stay \cup {c} /\ Cardinality(stay \cup {c}) \in Nat
    BY <2>2, <2>3, FS_AddElement, FS_CardinalityType
  <2>6. QED
    BY <1>1, <2>3, <2>4, <2>5
<1>4. CASE ~ \E c \in Ips : Limiter!NewClient(c)
  <2>1. DOMAIN hits' \subseteq DOMAIN hits
    BY <1>4 DEF Limiter!Next, Limiter!NewWindow, Limiter!CountHit, Limiter!Refuse,
       Limiter!CleanupInterval, Limiter!Tick, Limiter!Live, Limiter!Tracked, limiterVars
  <2>2. Cardinality(DOMAIN hits') <= Cardinality(DOMAIN hits) /\ IsFiniteSet(DOMAIN hits')
    BY <1>1, <2>1, FS_Subset
  <2>3. Cardinality(DOMAIN hits') \in Nat /\ Cardinality(DOMAIN hits) \in Nat
    BY <1>1, <2>2, FS_CardinalityType
  <2>4. QED
    BY <1>1, <2>2, <2>3
<1>5. QED
  BY <1>3, <1>4

LEMMA LimitedStep == LimitedInv /\ [ServiceNext]_allVars => LimitedInv'
<1> SUFFICES ASSUME LimitedInv, [ServiceNext]_allVars PROVE LimitedInv'
  OBVIOUS
<1>1. [Limiter!Next]_limiterVars
  BY DEF ServiceNext, LifecycleStep, MemoryStep, RecorderStep, SavedStep, LimiterStep,
     allVars, storeVars
<1>2. QED
  BY <1>1, LimiterTypes, ClientsKeep, TableKeeps DEF LimitedInv

\* What is known of each client bounds what it is granted, and when it is refused.
LEMMA GrantsAreBounded ==
  ASSUME LimiterTyped, Limiter!LimiterInv PROVE Limiter!AllowanceIsBounded
<1> SUFFICES ASSUME NEW ip \in Ips, ip \notin evicted
             PROVE  /\ \A t \in 0 .. LimiterTime : Cardinality(Limiter!InSpan(ip, t)) < 2 * MaxHits
                    /\ refused[ip] >= 0 =>
                         Cardinality(Limiter!InSpan(ip, refused[ip] - WindowMs)) >= MaxHits
  BY SameCardinality DEF Limiter!AllowanceIsBounded
<1> DEFINE a == allowed[ip]
           n == Len(allowed[ip])
           Span(t) == Limiter!InSpan(ip, t)
<1>1. a \in Seq(Nat) /\ MaxHits \in Nat \ {0} /\ WindowMs \in Nat \ {0}
  BY StorageAssumption DEF LimiterTyped
<1>2. n \in Nat /\ DOMAIN a = 1 .. n /\ \A i \in 1 .. n : a[i] \in Nat
  BY <1>1
<1>3. ClientInv(ip)
  BY DEF Limiter!LimiterInv, ClientInv
<1>4. \A t \in Int : \A i : i \in Span(t) <=> i \in 1 .. n /\ t <= a[i] /\ a[i] <= t + WindowMs
  <2>1. \A t : \A i : i \in Span(t) <=> i \in DOMAIN a /\ a[i] \in t .. t + WindowMs
    BY DEF Limiter!InSpan
  <2> HIDE DEF a, n, Span
  <2>2. QED
    BY <1>1, <1>2, <2>1
<1>5. \A t \in Int : IsFiniteSet(Span(t))
  <2> SUFFICES ASSUME NEW t \in Int PROVE IsFiniteSet(Span(t))
    OBVIOUS
  <2> HIDE DEF a, n, Span
  <2>1. Span(t) \subseteq 1 .. n /\ IsFiniteSet(1 .. n)
    BY <1>2, <1>4, FS_Interval
  <2>2. QED
    BY <2>1, FS_Subset
<1>6. ASSUME NEW t \in 0 .. LimiterTime PROVE Cardinality(Span(t)) < 2 * MaxHits
  <2>1. \A i, j \in 1 .. n : i + 2 * MaxHits <= j + 1 => a[i] + WindowMs < a[j]
    BY <1>2, <1>3 DEF ClientInv, Limiter!AllowancesApart
  <2>2. Span(t) \subseteq Nat /\ t \in Int
    <3>1. t \in Int
      BY <1>6, StorageAssumption
    <3> HIDE DEF a, n, Span
    <3>2. QED
      BY <1>2, <1>4, <3>1
  <2> DEFINE d == 2 * MaxHits - 2
  <2>3. d \in Nat /\ d + 1 < 2 * MaxHits
    BY <1>1
  <2>4. ASSUME NEW i \in Span(t), NEW j \in Span(t), ~(j <= i + d) PROVE FALSE
    <3>1. /\ i \in 1 .. n /\ j \in 1 .. n /\ t <= a[i] /\ a[j] <= t + WindowMs
      BY <1>4, <2>2
    <3> HIDE DEF a, n, Span
    <3>2. i + 2 * MaxHits <= j + 1
      BY <1>1, <1>2, <2>4, <3>1
    <3>3. a[i] + WindowMs < a[j] /\ a[i] \in Nat /\ a[j] \in Nat
      BY <1>2, <2>1, <3>1, <3>2
    <3>4. QED
      BY <1>1, <2>2, <3>1, <3>3
  <2> HIDE DEF d, Span
  <2>5. Cardinality(Span(t)) <= d + 1 /\ IsFiniteSet(Span(t))
    BY <2>2, <2>3, <2>4, FewWithin
  <2>6. QED
    BY <2>3, <2>5, <1>1, FS_CardinalityType
<1>7. ASSUME refused[ip] >= 0
      PROVE  Cardinality(Span(refused[ip] - WindowMs)) >= MaxHits
  <2> DEFINE t == refused[ip] - WindowMs
  <2>1. PICK k \in DOMAIN a : /\ k + MaxHits - 1 \in DOMAIN a /\ a[k] >= t
                        /\ a[k + MaxHits - 1] <= refused[ip]
    BY <1>3, <1>7 DEF ClientInv, Limiter!RefusalHadCause
  <2>2. \A i, j \in 1 .. n : i <= j => a[i] <= a[j]
    BY <1>2, <1>3 DEF ClientInv, Limiter!TimesAreOrdered
  <2>3. refused[ip] \in Int /\ t \in Int /\ t + WindowMs = refused[ip]
    BY <1>1 DEF LimiterTyped
  <2>4. ASSUME NEW j \in k .. k + MaxHits - 1 PROVE j \in Span(t)
    <3> HIDE DEF a, n, Span, t
    <3>1. /\ j \in 1 .. n /\ k \in 1 .. n /\ k + MaxHits - 1 \in 1 .. n
          /\ k <= j /\ j <= k + MaxHits - 1
      BY <1>1, <1>2, <2>1
    <3>2. a[k] <= a[j] /\ a[j] <= a[k + MaxHits - 1] /\ a[k] \in Nat /\ a[j] \in Nat
          /\ a[k + MaxHits - 1] \in Nat
      BY <1>2, <2>2, <3>1
    <3>3. QED
      BY <1>4, <2>1, <2>3, <3>1, <3>2
  <2> HIDE DEF Span, t
  <2>5. Cardinality(k .. k + MaxHits - 1) = MaxHits
    BY <1>1, <1>2, <2>1, FS_Interval
  <2>6. k .. k + MaxHits - 1 \subseteq Span(t) /\ IsFiniteSet(Span(t))
    BY <1>5, <2>3, <2>4
  <2>7. Cardinality(k .. k + MaxHits - 1) <= Cardinality(Span(t)) /\ Cardinality(Span(t)) \in Nat
    BY <2>6, FS_Subset, FS_CardinalityType
  <2>8. QED
    BY <1>1, <2>5, <2>7 DEF t
<1>8. QED
  BY <1>6, <1>7

\* The newest files are never removed automatically (log-retention.service.ts); a
\* client that was never evicted is granted less than two allowances within one
\* window and refused only after one, and the table of clients keeps its size
\* (rate-limiter.ts).
THEOREM LimitsHoldCorrect == ServiceSpec => []LimitsHold
<1>1. DiskInv /\ LimitedInv => LimitsHold
  BY GrantsAreBounded DEF DiskInv, LimitedInv, LimitsHold
<1>2. QED
  BY <1>1, DiskInitially, DiskStep, LimiterInitially, LimitedStep, PTL DEF ServiceSpec
=============================================================================

-------------------------- MODULE ServiceLifecycle --------------------------
(***************************************************************************)
(* The service process over its configuration directory: the start-up of    *)
(* packages/service/src/server.ts, the requests that write and delete       *)
(* configuration files (setup.routes.ts, config-editor.routes.ts), the      *)
(* markers, and the loop of hassio-addon/run.sh that starts the process     *)
(* again.                                                                  *)
(*                                                                         *)
(* One step of the model is the code between two awaits on the file system, *)
(* except for the reads of a load, which are one step.  File n of Files is  *)
(* default_n.homenet_bridge.yaml, file 1 is the default file.               *)
(***************************************************************************)
EXTENDS Integers, Sequences, FiniteSets
LOCAL INSTANCE FiniteSetsExt

CONSTANTS
    Files,          \* 1 .. n
    PortNames,      \* port ids the users write
    EnvFiles,       \* CONFIG_FILES, or {}: the files that are found
    Requests,       \* HTTP requests that may be under way together
    MaxRequests, MaxStops   \* bounds: requests in all, containers stopped

ASSUME LifecycleAssumption ==
    /\ Files = 1 .. Cardinality(Files) /\ Files # {}
    /\ EnvFiles \subseteq Files
    /\ MaxRequests \in Nat /\ MaxStops \in Nat

VARIABLES
    disk,       \* content of each file, or Absent
    marker,     \* .initialized
    flag,       \* .restart-required
    process,    \* "up"; "exited" with code 0; "stopped" with the container
    boot,       \* where the listen callback is
    loader,     \* where loadAndStartBridges is
    chosen,     \* filenames
    unread,     \* those whose port id is still to be checked
    used,       \* usedPortIds
    fixes,      \* portIdUpdates still to write: file and new port id
    fixed,      \* fixedFiles
    tampered,   \* a fix failed, or a file changed between check and load (history)
    loaded,     \* currentConfigs: the configuration or Absent
    statuses,   \* currentConfigStatuses
    bridges,    \* the array bridges
    link,       \* files whose bridge has a connection
    exiting,    \* setTimeout of process.exit(0)
    requests,   \* the requests under way
    served, stops

files == <<disk, marker, flag>>
memory == <<loaded, statuses, bridges, link>>
checking == <<chosen, unread, used>>
loading == <<loader, checking, fixes, fixed, tampered>>
vars == <<files, process, boot, loading, memory, exiting, requests, served, stops>>

Absent == [port |-> <<>>, broken |-> FALSE]
ConfigFor(ports) == [port : ports, broken : BOOLEAN]
Present == {f \in Files : disk[f] # Absent}
Idle == [at |-> "idle", file |-> 1, config |-> Absent]

-----------------------------------------------------------------------------
(* Start-up.                                                               *)

\* With the process its memory goes, and the requests it was serving.
Forget ==
    /\ boot' = "look"
    /\ loader' = "idle"
    /\ chosen' = {} /\ unread' = {} /\ used' = {}
    /\ fixes' = <<>>
    /\ fixed' = {}
    /\ tampered' = FALSE
    /\ loaded' = [f \in Files |-> Absent]
    /\ statuses' = [f \in Files |-> "none"]
    /\ bridges' = {}
    /\ link' = {}
    /\ exiting' = FALSE
    /\ requests' = [r \in Requests |-> Idle]

\* Files the service starts with.
Chosen == IF EnvFiles = {} THEN Present ELSE EnvFiles

\* The listen callback up to loadAndStartBridges, which returns at once.
\* Without marker or files it shows the wizard.
Look ==
    /\ process = "up" /\ boot = "look"
    /\ IF marker /\ Chosen # {}
       THEN boot' = "ask flag" /\ loader' = "check" /\ chosen' = Chosen /\ unread' = Chosen
       ELSE boot' = "done" /\ UNCHANGED <<loader, chosen, unread>>
    /\ UNCHANGED <<files, process, used, fixes, fixed, tampered, memory, exiting, requests, served, stops>>

AskFlag ==
    /\ process = "up" /\ boot = "ask flag"
    /\ boot' = IF flag THEN "unlink flag" ELSE "done"
    /\ UNCHANGED <<files, process, loading, memory, exiting, requests, served, stops>>

UnlinkFlag ==
    /\ process = "up" /\ boot = "unlink flag"
    /\ boot' = "done"
    /\ flag' = FALSE
    /\ UNCHANGED <<disk, marker, process, loading, memory, exiting, requests, served, stops>>

\* Variants with a fault: a file keeps its port id, or is compared with the one
\* before it only.
Unsuffixed(port) == port
SeenLast(port) == {port}

\* A port id that was seen gets the first free suffix.
Suffixed(port) ==
    Append(port, Min({n \in 2 .. Cardinality(used) + 2 : Append(port, n) \notin used}))

Seen(port) == used \cup {port}

\* checkAndFixDuplicatePortIds, step 1, for one file, in any order: one whose port
\* id was seen has to be renamed; a file that cannot be read is passed over.
CheckPort(f) ==
    /\ process = "up" /\ loader = "check" /\ f \in unread
    /\ LET port == disk[f].port
           new == Suffixed(port)
       IN IF disk[f] = Absent \/ disk[f].broken THEN UNCHANGED <<used, fixes>>
          ELSE IF port \in used
          THEN used' = Seen(new) /\ fixes' = Append(fixes, [file |-> f, port |-> new])
          ELSE used' = Seen(port) /\ UNCHANGED fixes
    /\ unread' = unread \ {f}
    /\ loader' = IF unread' # {} THEN "check" ELSE IF fixes' = <<>> THEN "load" ELSE "fix"
    /\ UNCHANGED <<files, process, boot, chosen, fixed, tampered, memory, exiting, requests, served, stops>>

\* Step 2: backup, new port id, write; a failure is logged and passed over.
FixPort ==
    /\ process = "up" /\ loader = "fix" /\ fixes # <<>>
    /\ LET f == Head(fixes).file
       IN \/ /\ disk[f] # Absent
             /\ disk' = [disk EXCEPT ![f].port = Head(fixes).port]
             /\ fixed' = fixed \cup {f}
             /\ UNCHANGED tampered
          \/ /\ tampered' = TRUE
             /\ UNCHANGED <<disk, fixed>>
    /\ fixes' = Tail(fixes)
    /\ UNCHANGED <<marker, flag, process, boot, loader, checking, memory, exiting, requests, served, stops>>

\* handleDuplicatePorts: triggerRestart and the timer that exits.
FixesWritten ==
    /\ process = "up" /\ loader = "fix" /\ fixes = <<>>
    /\ IF fixed # {}
       THEN loader' = "idle" /\ flag' = TRUE /\ exiting' = TRUE
       ELSE loader' = "load" /\ UNCHANGED <<flag, exiting>>
    /\ UNCHANGED <<disk, marker, process, boot, checking, fixes, fixed, tampered, memory, requests, served, stops>>

\* loadConfigs and instantiateBridges; with no good file nothing is started.
Load ==
    /\ process = "up" /\ loader = "load"
    /\ LET good == {f \in chosen : disk[f] # Absent /\ ~disk[f].broken}
       IN /\ loader' = IF good = {} THEN "idle" ELSE "collect"
          /\ loaded' = [f \in Files |-> IF f \in good THEN disk[f] ELSE Absent]
          /\ statuses' = [f \in Files |-> IF f \in good THEN "starting"
                                          ELSE IF f \in chosen THEN "error" ELSE "none"]
          /\ bridges' = good
    /\ UNCHANGED <<files, process, boot, checking, fixes, fixed, tampered, link, exiting, requests, served, stops>>

\* The log collector is ready; the bridges start in the background.
Collect ==
    /\ process = "up" /\ loader = "collect"
    /\ loader' = "started"
    /\ UNCHANGED <<files, process, boot, checking, fixes, fixed, tampered, memory, exiting, requests, served, stops>>

BridgeStarts(f) ==
    /\ process = "up" /\ loader = "started" /\ f \in bridges /\ statuses[f] = "starting"
    /\ statuses' = [statuses EXCEPT ![f] = "started"]
    /\ link' = link \cup {f}
    /\ UNCHANGED <<files, process, boot, loading, loaded, bridges, exiting, requests, served, stops>>

\* Variant with a fault: a failed bridge stays in the array.
BridgeFailsAndStays(f) ==
    /\ process = "up" /\ loader = "started" /\ f \in bridges /\ statuses[f] = "starting"
    /\ statuses' = [statuses EXCEPT ![f] = "error"]
    /\ UNCHANGED <<files, process, boot, loading, loaded, bridges, link, exiting, requests, served, stops>>

BridgeFails(f) ==
    /\ process = "up" /\ loader = "started" /\ f \in bridges /\ statuses[f] = "starting"
    /\ statuses' = [statuses EXCEPT ![f] = "error"]
    /\ bridges' = bridges \ {f}
    /\ UNCHANGED <<files, process, boot, loading, loaded, link, exiting, requests, served, stops>>

\* The socket of a bridge loses its connection and finds it again.
Reconnecting(f) ==
    /\ process = "up" /\ f \in link
    /\ link' = link \ {f}
    /\ statuses' = [statuses EXCEPT ![f] = "reconnecting"]
    /\ UNCHANGED <<files, process, boot, loading, loaded, bridges, exiting, requests, served, stops>>

Reconnected(f) ==
    /\ process = "up" /\ statuses[f] = "reconnecting"
    /\ link' = link \cup {f}
    /\ statuses' = [statuses EXCEPT ![f] = "started"]
    /\ UNCHANGED <<files, process, boot, loading, loaded, bridges, exiting, requests, served, stops>>

-----------------------------------------------------------------------------
(* Requests.                                                               *)

\* A file written between the check of its port and the load escapes the check.
Tampers(f) == tampered' = (tampered \/ /\ loader \in {"check", "fix", "load"}
                                       /\ f \in chosen \ unread)

Serve(r, step) ==
    /\ process = "up"
    /\ requests' = [requests EXCEPT ![r] = step]
    /\ UNCHANGED <<process, boot, loader, checking, fixes, fixed, memory, stops>>

\* getNextConfigFilename.
NextFile == IF Present = {} THEN 1 ELSE Max(Present) + 1

\* POST /api/config/examples/select up to the write: in mode add no loaded
\* configuration may have the port, and the next free name is taken.
Select(r, port, add) ==
    LET file == IF add THEN NextFile ELSE 1
    IN /\ requests[r] = Idle /\ served < MaxRequests
       /\ add => file \in Files /\ \A f \in Files : loaded[f].port # port
       /\ Serve(r, [at |-> IF add THEN "add" ELSE "overwrite", file |-> file,
                    config |-> [port |-> port, broken |-> FALSE]])
       /\ served' = served + 1
       /\ UNCHANGED <<files, tampered, exiting>>

SelectWrites(r) ==
    /\ requests[r].at \in {"add", "overwrite"}
    /\ disk' = [disk EXCEPT ![requests[r].file] = requests[r].config]
    /\ Tampers(requests[r].file)
    /\ Serve(r, [requests[r] EXCEPT !.at = "flag"])
    /\ UNCHANGED <<marker, flag, exiting, served>>

\* DELETE /api/config/files/:filename.
Delete(r, f) ==
    /\ requests[r] = Idle /\ served < MaxRequests /\ f \in Present
    /\ disk' = [disk EXCEPT ![f] = Absent]
    /\ Serve(r, [Idle EXCEPT !.at = IF f = 1 THEN "promote" ELSE "unmark"])
    /\ served' = served + 1
    /\ UNCHANGED <<marker, flag, tampered, exiting>>

\* The first of the other files takes the name of the deleted default file.
Promote(r) ==
    /\ requests[r].at = "promote"
    /\ LET others == Present \ {1}
           first == Min(others)
       IN IF others = {} THEN UNCHANGED <<disk, tampered>>
          ELSE /\ disk' = [disk EXCEPT ![1] = disk[first], ![first] = Absent]
               /\ Tampers(1)
    /\ Serve(r, [requests[r] EXCEPT !.at = "unmark"])
    /\ UNCHANGED <<marker, flag, exiting, served>>

\* With the last file the marker goes.
Unmark(r) ==
    /\ requests[r].at = "unmark"
    /\ marker' = (marker /\ Present # {})
    /\ Serve(r, [requests[r] EXCEPT !.at = "flag"])
    /\ UNCHANGED <<disk, flag, tampered, exiting, served>>

\* Both kinds of request end by asking for a restart.
SetFlag(r) ==
    /\ requests[r].at = "flag"
    /\ flag' = TRUE
    /\ Serve(r, Idle)
    /\ UNCHANGED <<disk, marker, tampered, exiting, served>>

\* POST /api/log-sharing/consent ends the initialisation.
Consent ==
    /\ process = "up"
    /\ marker' = TRUE
    /\ UNCHANGED <<disk, flag, process, boot, loading, memory, exiting, requests, served, stops>>

\* POST /api/system/restart with a valid token.
Restart ==
    /\ process = "up" /\ served < MaxRequests
    /\ flag' = TRUE
    /\ exiting' = TRUE
    /\ served' = served + 1
    /\ UNCHANGED <<disk, marker, process, boot, loading, memory, requests, stops>>

-----------------------------------------------------------------------------
(* The process and its container.                                          *)

Exit ==
    /\ process = "up" /\ exiting
    /\ process' = "exited"
    /\ Forget
    /\ UNCHANGED <<files, served, stops>>

\* run.sh: with the flag the service starts again, else the container ends.
Relaunch ==
    /\ process = "exited"
    /\ process' = IF flag THEN "up" ELSE "stopped"
    /\ flag' = FALSE
    /\ UNCHANGED <<disk, marker, boot, loading, memory, exiting, requests, served, stops>>

\* The container is stopped at any moment, and started by its user.
ContainerStops ==
    /\ process = "up" /\ stops < MaxStops
    /\ process' = "stopped"
    /\ stops' = stops + 1
    /\ Forget
    /\ UNCHANGED <<files, served>>

ContainerStarts ==
    /\ process = "stopped"
    /\ process' = "up"
    /\ UNCHANGED <<files, boot, loading, memory, exiting, requests, served, stops>>

Init ==
    /\ disk \in {d \in [Files -> {Absent} \cup ConfigFor({<<p>> : p \in PortNames})] :
                    \A f \in Files : d[f].port # <<>> => \A g \in 1 .. f : d[g].port # <<>>}
    /\ marker \in BOOLEAN
    /\ flag = FALSE
    /\ process = "stopped"
    /\ boot = "look"
    /\ loader = "idle"
    /\ chosen = {} /\ unread = {} /\ used = {}
    /\ fixes = <<>>
    /\ fixed = {}
    /\ tampered = FALSE
    /\ loaded = [f \in Files |-> Absent]
    /\ statuses = [f \in Files |-> "none"]
    /\ bridges = {}
    /\ link = {}
    /\ exiting = FALSE
    /\ requests = [r \in Requests |-> Idle]
    /\ served = 0
    /\ stops = 0

Startup ==
    \/ Look \/ AskFlag \/ UnlinkFlag
    \/ \E f \in Files : CheckPort(f)
    \/ FixPort \/ FixesWritten \/ Load \/ Collect
Bridge(f) == BridgeStarts(f) \/ BridgeFails(f) \/ Reconnecting(f) \/ Reconnected(f)
Request(r) ==
    \/ \E p \in PortNames : \E add \in BOOLEAN : Select(r, <<p>>, add)
    \/ \E f \in Files : Delete(r, f)
    \/ SelectWrites(r) \/ Promote(r) \/ Unmark(r) \/ SetFlag(r)
Container == Exit \/ Relaunch \/ ContainerStarts

Next ==
    \/ Startup
    \/ \E f \in Files : Bridge(f)
    \/ \E r \in Requests : Request(r)
    \/ Consent \/ Restart
    \/ Container \/ ContainerStops

\* Promises and timers of the process, run.sh, and whoever starts containers.
Fairness == WF_vars(Startup) /\ WF_vars(Container)

Spec == Init /\ [][Next]_vars /\ Fairness
-----------------------------------------------------------------------------
\* What makes these inductive: the ports that were read differ if none has to be
\* renamed, and an attempt to rename leaves a mark.
Good(f) == disk[f] # Absent /\ ~disk[f].broken

Apart(fs) == \A f, g \in fs : f # g /\ Good(f) /\ Good(g) => disk[f].port # disk[g].port

PortsRead ==
    ~tampered =>
        /\ loader = "check" /\ fixes = <<>> =>
             /\ Apart(chosen \ unread)
             /\ \A f \in chosen \ unread : Good(f) => disk[f].port \in used
        /\ loader = "fix" => fixes # <<>> \/ fixed # {}
        /\ loader = "load" => Apart(chosen)

\* Without a load there is nothing to tell of.
NothingLoaded ==
    loader \notin {"collect", "started"} =>
        /\ bridges = {} /\ link = {}
        /\ \A f \in Files : statuses[f] # "reconnecting"

(***************************************************************************)
(* Two bridges never have one port id, unless renaming failed or a file was *)
(* written between the check and the load (checkAndFixDuplicatePortIds).    *)
(***************************************************************************)
DuplicatePortsApart ==
    /\ \A f, g \in bridges : f # g /\ loaded[f].port = loaded[g].port => tampered
    /\ PortsRead

(***************************************************************************)
(* The array of bridges and the statuses the UI is shown tell of the same   *)
(* bridges: those that failed or were not loaded are marked and gone, the    *)
(* others are there, "started" with a connection (startBridgesInBackground). *)
(***************************************************************************)
StatusesTell ==
    /\ loader \in {"collect", "started"} =>
         \A f \in Files :
            /\ statuses[f] \in {"none", "error"} <=> f \notin bridges
            /\ statuses[f] = "started" <=> f \in link
    /\ NothingLoaded

(***************************************************************************)
(* Renaming converges: when nobody asks for anything any more, the service   *)
(* stops restarting itself (handleDuplicatePorts).                          *)
(***************************************************************************)
RestartsEnd == <>[](process = "up" /\ ~exiting)
=============================================================================

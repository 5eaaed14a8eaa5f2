------------------------------- MODULE FileLists -------------------------------
(***************************************************************************)
(* The files of the log cache, of the packet recorder and of the backups as    *)
(* the page of settings lists them (Settings.svelte): three lists that are      *)
(* fetched, and whose files are deleted one by one or cleaned up.  A file is    *)
(* numbered by its age.  What the service does to the files is in LogRetention *)
(* and ConfigEdits.                                                        *)
(***************************************************************************)
EXTENDS Integers, FiniteSets

CONSTANTS
    MaxFiles, KeepCount,
    MaxRequests        \* bound: requests of the page

VARIABLES
    files, added,      \* of the service; the files there have ever been
    list,              \* as shown
    deleting, working, \* the file being deleted or 0, a cleanup under way
    requests,          \* [id, asks, file, after, read, upto]
    sent,
    applied,           \* history: the last fetch that was applied, the files until then
    overtaken, failed  \* history: a fetch came late, or not at all

vars == <<files, added, list, deleting, working, requests, sent, applied, overtaken, failed>>

\* A fetch has found nothing yet, or `read` when there were `upto`.
Unread == {0}
Request(asks, file, after) ==
    [id |-> sent + 1, asks |-> asks, file |-> file, after |-> after, read |-> Unread, upto |-> 0]
Fetch(after) == Request("list", 0, after)
Ask(request) == sent' = sent + 1 /\ requests' = requests \cup {request}

Init ==
    /\ added \in 0 .. MaxFiles - 1 /\ files = 1 .. added
    /\ list = {} /\ deleting = 0 /\ working = FALSE
    /\ sent = 1
    /\ requests = {[Fetch("none") EXCEPT !.id = 1]}
    /\ applied = [id |-> 0, upto |-> 0]
    /\ overtaken = FALSE /\ failed = FALSE

\* The service saves a file.
Save ==
    /\ added < MaxFiles
    /\ added' = added + 1 /\ files' = files \cup {added + 1}
    /\ UNCHANGED <<list, deleting, working, requests, sent, applied, overtaken, failed>>

\* Saving by hand lists the files too.
SaveByHand ==
    /\ added < MaxFiles /\ sent < MaxRequests
    /\ added' = added + 1 /\ files' = files \cup {added + 1}
    /\ Ask(Fetch("none"))
    /\ UNCHANGED <<list, deleting, working, applied, overtaken, failed>>

\* deleteBackupFile and its like: one button is held down.
DeleteFile(f) ==
    /\ f \in list /\ f # deleting /\ sent < MaxRequests
    /\ deleting' = f
    /\ Ask(Request("delete", f, "none"))
    /\ UNCHANGED <<files, added, list, working, applied, overtaken, failed>>

\* cleanupBackups and its like: all, or all but the most recent.
CleanUp(keep) ==
    /\ ~working /\ Cardinality(list) > keep /\ sent < MaxRequests
    /\ working' = TRUE
    /\ Ask(Request("cleanup", keep, "none"))
    /\ UNCHANGED <<files, added, list, deleting, applied, overtaken, failed>>

-----------------------------------------------------------------------------
Recent(keep) == {f \in files : Cardinality({g \in files : g >= f}) <= keep}

\* The answer of the service to a deletion or a cleanup: the list is fetched and
\* the button comes back after that, or at once.
Removed(r, ok) ==
    /\ r.asks # "list"
    /\ ok => r.asks = "cleanup" \/ r.file \in files
    /\ files' = IF ~ok THEN files ELSE IF r.asks = "delete" THEN files \ {r.file} ELSE Recent(r.file)
    /\ requests' = (requests \ {r}) \cup (IF ok THEN {Fetch(r.asks)} ELSE {})
    /\ sent' = IF ok THEN sent + 1 ELSE sent
    /\ deleting' = IF ~ok /\ r.asks = "delete" THEN 0 ELSE deleting
    /\ working' = (working /\ (ok \/ r.asks = "delete"))
    /\ UNCHANGED <<added, list, applied, overtaken, failed>>

Read(r) ==
    /\ r.asks = "list" /\ r.read = Unread
    /\ requests' = (requests \ {r}) \cup {[r EXCEPT !.read = files, !.upto = added]}
    /\ UNCHANGED <<files, added, list, deleting, working, sent, applied, overtaken, failed>>

\* The list, or an error.
Listed(r, ok) ==
    /\ r.asks = "list" /\ (ok => r.read # Unread)
    /\ requests' = requests \ {r}
    /\ list' = IF ok THEN r.read ELSE list
    /\ overtaken' = (overtaken \/ (ok /\ r.id < applied.id))
    /\ failed' = (failed \/ ~ok)
    /\ applied' = IF ok THEN [id |-> r.id, upto |-> r.upto] ELSE applied
    /\ deleting' = IF r.after = "delete" THEN 0 ELSE deleting
    /\ working' = (working /\ r.after # "cleanup")
    /\ UNCHANGED <<files, added, sent>>

Next ==
    \/ Save \/ SaveByHand
    \/ \E f \in list : DeleteFile(f)
    \/ \E keep \in {0, KeepCount} : CleanUp(keep)
    \/ \E r \in requests : Read(r) \/ \E ok \in BOOLEAN : Removed(r, ok) \/ Listed(r, ok)

Spec == Init /\ [][Next]_vars

-----------------------------------------------------------------------------
(***************************************************************************)
(* The lists are right once everything has come back: no file is shown that    *)
(* is gone and none is missing but those saved since, unless a list came late  *)
(* or not at all; and no button is held down (Settings.svelte,                *)
(* backups.routes.ts, logs.routes.ts).                                      *)
(***************************************************************************)
FileListsSettle ==
    requests = {} =>
        /\ deleting = 0 /\ ~working
        /\ ~overtaken /\ ~failed => /\ list \subseteq files
                                    /\ files \ list \subseteq applied.upto + 1 .. added
=============================================================================

------------------------------ MODULE Recording ------------------------------
(***************************************************************************)
(* Recording the bus from the analysis page: RawPacketLog.svelte, the state    *)
(* App.svelte keeps for it, and the routes of logs.routes.ts around the         *)
(* recorder, whose own hazards are in RawPacketLogger.  Nothing keeps the user    *)
(* from pressing the button while an answer is out; at its limits the page        *)
(* stops a recording itself, with every further packet again.  The page lasts     *)
(* while the view is shown; what the application keeps outlives it.               *)
(***************************************************************************)
EXTENDS Integers, FiniteSets
LOCAL INSTANCE FiniteSetsExt

CONSTANTS
    MaxRecordings,  \* bound: files the recorder opens
    Slots           \* numbers that tell requests apart: a bound on those out together

VARIABLES
    logging,         \* the recorder's file, 0: none
    newest,          \* the last file it opened; they are numbered
    logs,            \* the files there are
    isRecording, recordedFile,              \* of the application; 0: null
    shown,           \* the analysis page is open
    showSaveDialog, autoStopped, dialog,    \* of the page; dialog: [open, loading, kind, about]
    alertDue,        \* an alert to come in 300 ms, or "none"
    requests,        \* [id, kind, file, stage, result, own]; own: by the page that is open
    misdeleted,      \* history: a file was deleted that nobody had been asked about
    astray           \* history: why page and recorder may disagree

pageLocal == <<showSaveDialog, autoStopped, dialog, alertDue>>
vars == <<logging, newest, logs, isRecording, recordedFile, shown, pageLocal, requests,
          misdeleted, astray>>

NoDialog == [open |-> FALSE, loading |-> FALSE, kind |-> "none", about |-> 0]
Alert    == [NoDialog EXCEPT !.open = TRUE, !.kind = "alert"]
Closed   == [dialog EXCEPT !.open = FALSE, !.loading = FALSE]

Request(id, kind, file) ==
    [id |-> id, kind |-> kind, file |-> file, stage |-> "sent", result |-> 0, own |-> shown]

Free(out) == Slots \ {r.id : r \in out}

\* A request is made; others that are out may overtake it.
Ask(kind, file) ==
    /\ Free(requests) # {}
    /\ requests' = requests \cup {Request(Min(Free(requests)), kind, file)}
    /\ astray' = (astray \/ requests # {})

\* The application starts, and asks twice how things are.
AskTwice(out) ==
    LET first == {Request(Min(Free(out)), "status", 0)}
    IN out \cup first \cup {Request(Min(Free(out \cup first)), "status", 0)}

Init ==
    /\ logging \in {0, 1} /\ newest = logging /\ logs = {logging} \ {0}
    /\ isRecording = FALSE /\ recordedFile = 0 /\ shown = FALSE
    /\ showSaveDialog = FALSE /\ autoStopped = FALSE /\ dialog = NoDialog /\ alertDue = "none"
    /\ requests = AskTwice({})
    /\ misdeleted = FALSE /\ astray = FALSE

-----------------------------------------------------------------------------
(* The page.                                                               *)

recorder == <<logging, newest, logs>>

\* The view is entered or left; the page of the next visit is another one.
ShowView ==
    /\ shown' = ~shown
    /\ showSaveDialog' = FALSE /\ autoStopped' = FALSE /\ dialog' = NoDialog /\ alertDue' = "none"
    /\ requests' = {[r EXCEPT !.own = FALSE] : r \in requests}
    /\ UNCHANGED <<recorder, isRecording, recordedFile, misdeleted, astray>>

ToggleRecording ==
    /\ shown /\ ~dialog.open
    /\ Ask(IF isRecording THEN "stop" ELSE "start", 0)
    /\ autoStopped' = (isRecording /\ autoStopped)
    /\ UNCHANGED <<recorder, isRecording, recordedFile, shown, showSaveDialog, dialog, alertDue,
                   misdeleted>>

\* 10 000 packets or 20 minutes: looked at with every packet and every second.
LimitReached ==
    /\ shown /\ isRecording
    /\ Ask("stop", 0)
    /\ autoStopped' = TRUE
    /\ UNCHANGED <<recorder, isRecording, recordedFile, shown, showSaveDialog, dialog, alertDue,
                   misdeleted>>

DeleteLog ==
    /\ shown /\ showSaveDialog /\ recordedFile # 0 /\ ~dialog.open
    /\ dialog' = [NoDialog EXCEPT !.open = TRUE, !.kind = "delete", !.about = recordedFile]
    /\ astray' = (astray \/ requests # {})
    /\ UNCHANGED <<recorder, isRecording, recordedFile, shown, showSaveDialog, autoStopped,
                   alertDue, requests, misdeleted>>

\* The file is the one recorded by now; where there is none the action fails.
ConfirmDelete ==
    /\ dialog.open /\ dialog.kind = "delete" /\ ~dialog.loading
    /\ IF recordedFile # 0
       THEN /\ Ask("delete", recordedFile)
            /\ dialog' = [dialog EXCEPT !.loading = TRUE]
            /\ misdeleted' = (misdeleted \/ recordedFile # dialog.about)
            /\ UNCHANGED alertDue
       ELSE /\ dialog' = Closed /\ alertDue' = "error"
            /\ UNCHANGED <<requests, astray, misdeleted>>
    /\ UNCHANGED <<recorder, isRecording, recordedFile, shown, showSaveDialog, autoStopped>>

\* By its button, or by Esc while an action runs.
CloseConfirmDialog ==
    /\ dialog.open
    /\ dialog' = [dialog EXCEPT !.open = FALSE]
    /\ astray' = (astray \/ dialog.loading)
    /\ UNCHANGED <<recorder, isRecording, recordedFile, shown, showSaveDialog, autoStopped,
                   alertDue, requests, misdeleted>>

CloseSaveDialog ==
    /\ showSaveDialog /\ ~dialog.open
    /\ showSaveDialog' = FALSE
    /\ UNCHANGED <<recorder, isRecording, recordedFile, shown, autoStopped, dialog, alertDue,
                   requests, misdeleted, astray>>

AlertShown ==
    /\ alertDue # "none"
    /\ dialog' = Alert /\ alertDue' = "none"
    /\ UNCHANGED <<recorder, isRecording, recordedFile, shown, showSaveDialog, autoStopped,
                   requests, misdeleted, astray>>

OnTheirWay == {[r EXCEPT !.stage = "unheard"] :
                   r \in {q \in requests : q.stage \in {"sent", "unheard"}}}

\* The browser loads the application anew; of its requests the service still
\* gets those on their way.
Reload ==
    /\ Cardinality(OnTheirWay) + 1 < Cardinality(Slots)
    /\ isRecording' = FALSE /\ recordedFile' = 0 /\ shown' = FALSE
    /\ showSaveDialog' = FALSE /\ autoStopped' = FALSE /\ dialog' = NoDialog /\ alertDue' = "none"
    /\ requests' = {[r EXCEPT !.own = FALSE] : r \in AskTwice(OnTheirWay)}
    /\ astray' = (requests # {}) /\ misdeleted' = FALSE
    /\ UNCHANGED recorder

-----------------------------------------------------------------------------
(* The service.                                                            *)

\* It gives an answer, or the request had no one waiting for one.
Reply(r, result) ==
    /\ requests' = (requests \ {r}) \cup
                   (IF r.stage = "unheard" THEN {} ELSE {[r EXCEPT !.stage = "served", !.result = result]})
    /\ UNCHANGED <<isRecording, recordedFile, shown, pageLocal, misdeleted>>

Started(r) ==
    /\ r.kind = "start" /\ (logging = 0 => newest < MaxRecordings)
    /\ logging' = IF logging = 0 THEN newest + 1 ELSE logging
    /\ newest' = IF logging = 0 THEN newest + 1 ELSE newest
    /\ logs' = logs \cup {newest'}
    /\ Reply(r, logging')
    /\ UNCHANGED astray

\* The route does not wait for start: without a directory it succeeds as well.
StartedNothing(r) ==
    /\ r.kind = "start" /\ logging = 0
    /\ Reply(r, newest + 1)
    /\ astray' = TRUE
    /\ UNCHANGED recorder

Stopped(r) ==
    /\ r.kind = "stop"
    /\ Reply(r, logging)
    /\ logging' = 0
    /\ UNCHANGED <<newest, logs, astray>>

Deleted(r) ==
    /\ r.kind = "delete" /\ r.file \in logs
    /\ logs' = logs \ {r.file}
    /\ Reply(r, r.file)
    /\ UNCHANGED <<logging, newest, astray>>

StatusGiven(r) == r.kind = "status" /\ Reply(r, logging) /\ UNCHANGED <<recorder, astray>>

\* The limit of requests, a lost connection, a file that is gone.  After a stop
\* the page takes the recording to be over in any case.
Refused(r) ==
    /\ Reply(r, -1)
    /\ astray' = (astray \/ r.kind \in {"stop", "status"})
    /\ UNCHANGED recorder

\* A stream breaks, or the service is restarted.
ServiceEnds ==
    /\ logging # 0
    /\ logging' = 0
    /\ astray' = TRUE
    /\ UNCHANGED <<newest, logs, isRecording, recordedFile, shown, pageLocal, requests,
                   misdeleted>>

-----------------------------------------------------------------------------
(* The answers.                                                            *)

Settle(r) == requests' = requests \ {r} /\ UNCHANGED <<recorder, shown, misdeleted>>

StartAnswered(r) ==
    /\ r.kind = "start"
    /\ Settle(r)
    /\ IF r.result >= 0
       THEN /\ isRecording' = TRUE /\ recordedFile' = 0
            /\ showSaveDialog' = (showSaveDialog /\ ~r.own)
            /\ UNCHANGED dialog
       ELSE /\ dialog' = IF r.own THEN Alert ELSE dialog
            /\ UNCHANGED <<isRecording, recordedFile, showSaveDialog>>
    /\ UNCHANGED <<autoStopped, alertDue, astray>>

StopAnswered(r) ==
    /\ r.kind = "stop"
    /\ Settle(r)
    /\ isRecording' = FALSE
    /\ recordedFile' = IF r.result > 0 THEN r.result ELSE recordedFile
    /\ showSaveDialog' = (showSaveDialog \/ (r.own /\ r.result > 0))
    /\ dialog' = IF r.own /\ autoStopped THEN Alert ELSE dialog
    /\ UNCHANGED <<autoStopped, alertDue, astray>>

\* The dialog is closed, whichever it is by then.
DeleteAnswered(r) ==
    /\ r.kind = "delete"
    /\ Settle(r)
    /\ recordedFile' = IF r.result > 0 THEN 0 ELSE recordedFile
    /\ showSaveDialog' = (showSaveDialog /\ ~(r.own /\ r.result > 0))
    /\ IF r.own
       THEN dialog' = Closed /\ alertDue' = (IF r.result > 0 THEN "success" ELSE "error")
       ELSE UNCHANGED <<dialog, alertDue>>
    /\ UNCHANGED <<isRecording, autoStopped, astray>>

\* The last answer about the state puts the page right.
StatusAnswered(r) ==
    /\ r.kind = "status"
    /\ Settle(r)
    /\ isRecording' = IF r.result >= 0 THEN r.result # 0 ELSE isRecording
    /\ UNCHANGED <<recordedFile, pageLocal, astray>>

Serve(r) == /\ r.stage \in {"sent", "unheard"}
            /\ \/ Started(r) \/ StartedNothing(r) \/ Stopped(r) \/ Deleted(r) \/ StatusGiven(r)
               \/ Refused(r)
Answer(r) == /\ r.stage = "served"
             /\ \/ StartAnswered(r) \/ StopAnswered(r) \/ DeleteAnswered(r) \/ StatusAnswered(r)

Next ==
    \/ ShowView \/ ToggleRecording \/ LimitReached \/ DeleteLog \/ ConfirmDelete
    \/ CloseConfirmDialog \/ CloseSaveDialog \/ AlertShown \/ Reload \/ ServiceEnds
    \/ \E r \in requests : Serve(r) \/ Answer(r)

Spec == Init /\ [][Next]_vars

-----------------------------------------------------------------------------
(***************************************************************************)
(* When every answer is in, and unless requests were out together or the        *)
(* service failed, the page shows a recording exactly while there is one, offers  *)
(* the file of the last one and no older, waits for nothing, and has deleted only  *)
(* what it asked about.                                                      *)
(***************************************************************************)
RecordingIsShown ==
    requests = {} /\ ~astray =>
        /\ isRecording <=> logging # 0
        /\ recordedFile # 0 => recordedFile = newest /\ recordedFile \in logs /\ ~isRecording
        /\ ~dialog.loading /\ ~misdeleted
=============================================================================

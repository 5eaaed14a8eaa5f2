----------------------------- MODULE SettingsPage -----------------------------
(***************************************************************************)
(* What the page of settings does to the service: it restarts it, clears the   *)
(* retained messages, deletes a configuration or a file of the log cache, all   *)
(* behind the one dialog of the page (Settings.svelte, Dialog.svelte), and the  *)
(* editor of configurations restarts it too (BridgeConfigEditorModal.svelte).   *)
(* A restart takes a token and then a request (appControl.ts,                 *)
(* system.routes.ts).  The dialog does not know which action it waits for: it   *)
(* can be closed under way and opened for another.                          *)
(***************************************************************************)
EXTENDS Integers, FiniteSets, TLC

CONSTANTS
    Files, Configs,        \* files of the log cache, configurations
    NoArg,
    MaxActs                \* bound: dialogs and editors opened

VARIABLES
    up, exiting,           \* the service, and its exit after 500 ms
    restartTokens,         \* the actions whose token is good
    savedFiles, configFiles,
    cacheFiles,            \* the list of the page
    dialog,                \* [open, loading, showCancel, kind, arg]
    running,               \* actions: [id, kind, arg, stage, editor]
    isRestarting, isClearingMqtt, deletingFile,
    alertDue,              \* showAlertDialog after 300 ms
    reloadDue,             \* the page reloads after 5 s
    editor,                \* the opening of the editor: its id, or 0
    acts,
    confirmed,             \* history: the deletions that were confirmed
    stranded               \* history: what an action left behind

flags == <<isRestarting, isClearingMqtt, deletingFile>>
vars == <<up, exiting, restartTokens, savedFiles, configFiles, cacheFiles, dialog, running, flags,
          alertDue, reloadDue, editor, acts, confirmed, stranded>>
serviceVars == <<up, exiting, restartTokens, savedFiles, configFiles>>

Closed == [open |-> FALSE, loading |-> FALSE, showCancel |-> TRUE, kind |-> "none", arg |-> NoArg]

Init ==
    /\ up = TRUE /\ exiting = FALSE /\ restartTokens = {}
    /\ savedFiles = Files /\ cacheFiles = Files /\ configFiles = Configs
    /\ dialog = Closed /\ running = {}
    /\ isRestarting = FALSE /\ isClearingMqtt = FALSE /\ deletingFile = NoArg
    /\ alertDue = FALSE /\ reloadDue = FALSE /\ editor = 0 /\ acts = 0
    /\ confirmed = {} /\ stranded = {}

-----------------------------------------------------------------------------
(* The user.                                                               *)

\* showConfirmDialog, from the buttons that are enabled.
Ask(kind, arg) ==
    /\ ~dialog.open /\ editor = 0 /\ acts < MaxActs
    /\ CASE kind = "restart" -> ~isRestarting
         [] kind = "mqtt"    -> ~isRestarting /\ ~isClearingMqtt
         [] kind = "file"    -> arg \in cacheFiles /\ arg # deletingFile
         [] kind = "config"  -> TRUE
    /\ acts' = acts + 1
    /\ dialog' = [Closed EXCEPT !.open = TRUE, !.kind = kind, !.arg = arg]
    /\ UNCHANGED <<serviceVars, cacheFiles, running, flags, alertDue, reloadDue, editor,
                   confirmed, stranded>>

\* The backdrop and the escape key close it, also while it is loading.
Cancel ==
    /\ dialog.open /\ dialog.showCancel
    /\ dialog' = [dialog EXCEPT !.open = FALSE]
    /\ UNCHANGED <<serviceVars, cacheFiles, running, flags, alertDue, reloadDue, editor, acts,
                   confirmed, stranded>>

\* triggerSystemRestart: the dialog tells, whoever asked.
ShowRestarting ==
    /\ isRestarting' = TRUE
    /\ dialog' = [dialog EXCEPT !.open = TRUE, !.loading = TRUE, !.showCancel = FALSE]

Confirm ==
    /\ dialog.open /\ ~dialog.loading
    /\ IF dialog.kind = "alert"
       THEN dialog' = [dialog EXCEPT !.open = FALSE] /\ UNCHANGED <<running, flags, confirmed>>
       ELSE /\ running' = running \cup
                 {[id |-> acts, kind |-> dialog.kind, arg |-> dialog.arg, editor |-> 0,
                   stage |-> IF dialog.kind = "restart" THEN "token" ELSE "first"]}
            /\ confirmed' = confirmed \cup {dialog.arg}
            /\ IF dialog.kind = "restart" THEN ShowRestarting
               ELSE dialog' = [dialog EXCEPT !.loading = TRUE] /\ UNCHANGED isRestarting
            /\ isClearingMqtt' = (isClearingMqtt \/ dialog.kind = "mqtt")
            /\ deletingFile' = IF dialog.kind = "file" THEN dialog.arg ELSE deletingFile
    /\ UNCHANGED <<serviceVars, cacheFiles, alertDue, reloadDue, editor, acts, stranded>>

\* The editor of a configuration, in front of the page.
OpenEditor ==
    /\ ~dialog.open /\ editor = 0 /\ acts < MaxActs
    /\ acts' = acts + 1 /\ editor' = acts + 1
    /\ UNCHANGED <<serviceVars, cacheFiles, dialog, running, flags, alertDue, reloadDue,
                   confirmed, stranded>>

CloseEditor ==
    /\ editor # 0 /\ ~dialog.open
    /\ editor' = 0
    /\ UNCHANGED <<serviceVars, cacheFiles, dialog, running, flags, alertDue, reloadDue, acts,
                   confirmed, stranded>>

\* handleSave(true): save and restart.
SaveAndRestart ==
    /\ editor # 0 /\ ~dialog.open
    /\ \A r \in running : r.editor # editor
    /\ running' = running \cup {[id |-> editor, kind |-> "edit", arg |-> NoArg, editor |-> editor,
                                 stage |-> "first"]}
    /\ UNCHANGED <<serviceVars, cacheFiles, dialog, flags, alertDue, reloadDue, editor, acts,
                   confirmed, stranded>>

-----------------------------------------------------------------------------
(* The actions under way.                                                  *)

Goes(r, stage) == running' = (running \ {r}) \cup {[r EXCEPT !.stage = stage]}
Ends(r)        == running' = running \ {r}

\* An error: the dialog is closed, whatever it is open for, and an alert follows.
\* One in the editor is shown there, and the dialog stays.
Fails(r) ==
    /\ Ends(r)
    /\ IF r.editor = 0
       THEN dialog' = [dialog EXCEPT !.open = FALSE] /\ alertDue' = TRUE
       ELSE UNCHANGED <<dialog, alertDue>>
    /\ stranded' = stranded
         \cup (IF r.stage \in {"token", "restart"} THEN {"restart failed"} ELSE {})
         \cup (IF r.editor # 0 /\ r.stage # "first" THEN {"dialog"} ELSE {})
         \cup (IF r.kind = "file" THEN {"deletion failed"} ELSE {})

\* onSuccess: the dialog is shown as restarting, also when it was closed.
Restarts(r) ==
    /\ Ends(r)
    /\ reloadDue' = TRUE
    /\ dialog' = IF r.editor = 0 THEN [dialog EXCEPT !.loading = TRUE, !.open = TRUE] ELSE dialog

DeleteFile(r, outcome) ==
    /\ r.kind = "file" /\ r.stage = "first"
    /\ IF outcome = "ok" /\ r.arg \in savedFiles
       THEN /\ savedFiles' = savedFiles \ {r.arg} /\ Goes(r, "list")
            /\ UNCHANGED <<dialog, alertDue, stranded>>
       ELSE Fails(r) /\ UNCHANGED savedFiles
    /\ UNCHANGED <<up, exiting, restartTokens, configFiles, cacheFiles, flags, reloadDue, editor,
                   acts, confirmed>>

\* The list is fetched again; the dialog is left as it is.
ListFiles(r, outcome) ==
    /\ r.kind = "file" /\ r.stage = "list"
    /\ cacheFiles' = IF outcome = "ok" THEN savedFiles ELSE cacheFiles
    /\ Ends(r)
    /\ deletingFile' = NoArg
    /\ stranded' = stranded \cup (IF dialog.open /\ dialog.loading THEN {"dialog"} ELSE {})
                          \cup (IF outcome = "ok" THEN {} ELSE {"list"})
    /\ UNCHANGED <<serviceVars, dialog, isRestarting, isClearingMqtt, alertDue, reloadDue, editor,
                   acts, confirmed>>

\* Variant with a fault: a refusal leaves the button as it is.
ClearMqttKeepsButton(r, outcome) ==
    /\ r.kind = "mqtt"
    /\ UNCHANGED isClearingMqtt
    /\ IF outcome = "ok" THEN Restarts(r) /\ UNCHANGED <<exiting, alertDue, stranded>>
       ELSE Fails(r) /\ UNCHANGED <<exiting, reloadDue>>
    /\ UNCHANGED <<up, restartTokens, savedFiles, configFiles, cacheFiles, isRestarting,
                   deletingFile, editor, acts, confirmed>>

\* triggerMqttCleanup: the service exits when messages were cleared, the page
\* reloads in any case; the button comes back unless there is no answer.
ClearMqtt(r, outcome) ==
    /\ r.kind = "mqtt"
    /\ isClearingMqtt' = (outcome = "unreachable")
    /\ IF outcome = "ok"
       THEN Restarts(r) /\ exiting' \in {exiting, TRUE} /\ UNCHANGED <<alertDue, stranded>>
       ELSE /\ Ends(r) /\ UNCHANGED <<exiting, reloadDue>>
            /\ dialog' = [dialog EXCEPT !.open = FALSE] /\ alertDue' = TRUE
            /\ stranded' = IF outcome = "unreachable" THEN stranded \cup {"mqtt"} ELSE stranded
    /\ UNCHANGED <<up, restartTokens, savedFiles, configFiles, cacheFiles, isRestarting,
                   deletingFile, editor, acts, confirmed>>

\* A deleted or a saved configuration is followed by a restart.
ChangeConfig(r, outcome) ==
    /\ r.kind \in {"config", "edit"} /\ r.stage = "first"
    /\ IF outcome = "ok" /\ (r.kind = "config" => r.arg \in configFiles)
       THEN /\ configFiles' = configFiles \ {r.arg}
            /\ Goes(r, "token") /\ ShowRestarting
            /\ UNCHANGED <<alertDue, stranded>>
       ELSE Fails(r) /\ UNCHANGED <<configFiles, isRestarting>>
    /\ UNCHANGED <<up, exiting, restartTokens, savedFiles, cacheFiles, isClearingMqtt,
                   deletingFile, reloadDue, editor, acts, confirmed>>

Token(r, outcome) ==
    /\ r.stage = "token"
    /\ IF outcome = "ok"
       THEN /\ restartTokens' = restartTokens \cup {r.id} /\ Goes(r, "restart")
            /\ UNCHANGED <<dialog, alertDue, stranded>>
       ELSE Fails(r) /\ UNCHANGED restartTokens
    /\ UNCHANGED <<up, exiting, savedFiles, configFiles, cacheFiles, flags, reloadDue, editor, acts,
                   confirmed>>

\* POST /api/system/restart: a token is good once.
Restart(r, outcome) ==
    /\ r.stage = "restart"
    /\ IF outcome = "ok" /\ r.id \in restartTokens
       THEN /\ restartTokens' = restartTokens \ {r.id} /\ exiting' = TRUE
            /\ Restarts(r) /\ UNCHANGED <<alertDue, stranded>>
       ELSE Fails(r) /\ UNCHANGED <<restartTokens, exiting, reloadDue>>
    /\ UNCHANGED <<up, savedFiles, configFiles, cacheFiles, flags, editor, acts, confirmed>>

-----------------------------------------------------------------------------
(* Timers, the service, and another page.                                   *)

\* It takes the place of whatever the dialog shows.
Alert ==
    /\ alertDue
    /\ alertDue' = FALSE
    /\ dialog' = [Closed EXCEPT !.open = TRUE, !.showCancel = FALSE, !.kind = "alert"]
    /\ UNCHANGED <<serviceVars, cacheFiles, running, flags, reloadDue, editor, acts, confirmed,
                   stranded>>

\* The page begins anew; its requests are given up, whose tokens stay good.
Reload ==
    /\ reloadDue /\ up
    /\ reloadDue' = FALSE /\ alertDue' = FALSE
    /\ dialog' = Closed /\ running' = {} /\ editor' = 0
    /\ isRestarting' = FALSE /\ isClearingMqtt' = FALSE /\ deletingFile' = NoArg
    /\ cacheFiles' = savedFiles
    /\ stranded' = {}
    /\ UNCHANGED <<serviceVars, acts, confirmed>>

\* One minute.
ExpireToken(t) ==
    /\ t \in restartTokens
    /\ restartTokens' = restartTokens \ {t}
    /\ UNCHANGED <<up, exiting, savedFiles, configFiles, cacheFiles, dialog, running, flags,
                   alertDue, reloadDue, editor, acts, confirmed, stranded>>

Exit ==
    /\ exiting
    /\ up' = FALSE /\ exiting' = FALSE /\ restartTokens' = {}
    /\ UNCHANGED <<savedFiles, configFiles, cacheFiles, dialog, running, flags, alertDue,
                   reloadDue, editor, acts, confirmed, stranded>>

Start ==
    /\ ~up
    /\ up' = TRUE
    /\ UNCHANGED <<exiting, restartTokens, savedFiles, configFiles, cacheFiles, dialog, running,
                   flags, alertDue, reloadDue, editor, acts, confirmed, stranded>>

Kinds == {<<"restart", NoArg>>, <<"mqtt", NoArg>>} \cup ({"file"} \X Files) \cup ({"config"} \X configFiles)

Next ==
    \/ \E k \in Kinds : Ask(k[1], k[2])
    \/ Cancel \/ Confirm \/ OpenEditor \/ CloseEditor \/ SaveAndRestart
    \/ \E r \in running, outcome \in {"ok", "refused", "unreachable"} :
         /\ up \/ outcome = "unreachable"
         /\ \/ DeleteFile(r, outcome) \/ ListFiles(r, outcome) \/ ClearMqtt(r, outcome)
            \/ ChangeConfig(r, outcome) \/ Token(r, outcome) \/ Restart(r, outcome)
    \/ Alert \/ Reload \/ Exit \/ Start
    \/ \E t \in restartTokens : ExpireToken(t)

Spec == Init /\ [][Next]_vars

-----------------------------------------------------------------------------
AtRest == running = {} /\ ~alertDue /\ ~reloadDue

(***************************************************************************)
(* The page comes back from every action: once it waits for nothing, no       *)
(* dialog keeps it closed and no button is held down, unless a file was       *)
(* deleted (its dialog is never closed), the restart after an edit failed, a    *)
(* restart or a deletion failed or the broker's cleanup had no answer; and     *)
(* only what was confirmed is gone (Settings.svelte, showConfirmDialog).       *)
(***************************************************************************)
SettingsPageSettles ==
    /\ AtRest =>
         /\ dialog.open /\ dialog.loading => "dialog" \in stranded
         /\ isRestarting => "restart failed" \in stranded
         /\ isClearingMqtt => "mqtt" \in stranded
         /\ deletingFile # NoArg => "deletion failed" \in stranded
         /\ "list" \notin stranded => cacheFiles = savedFiles
    /\ Files \ savedFiles \subseteq confirmed /\ Configs \ configFiles \subseteq confirmed
=============================================================================

----------------------------- MODULE EntityDetail -----------------------------
(***************************************************************************)
(* The page of one entity (EntityDetail.svelte) in front of the dashboard that   *)
(* opens it (App.svelte): renaming, showing it always, its configuration,       *)
(* revoking its discovery, deleting it, for automations switching, running and   *)
(* deleting them, and the restart that is asked for after a change.  Every      *)
(* opening of the page is a new component, whose answers are lost when it has    *)
(* been closed; what the dashboard does with an answer takes place in any case.  *)
(* An entity is an id and a port; the ids of two ports may be the same, and      *)
(* some of the routes look for the id alone.  Ports are numbered in the order    *)
(* of the configurations.  A script is an automation that nobody switches.      *)
(* The routes behind it are in ConfigEdits.                                  *)
(***************************************************************************)
EXTENDS Integers, FiniteSets

CONSTANTS
    Devices, Automations,   \* pairs <<id, port>>
    Commanded,              \* the devices that have commands
    Reporting,              \* the devices that have a state
    Names,
    Nothing,
    MaxAsked                \* bound: openings, and requests by a user

VARIABLES
    file,            \* of each entity there is: [name, on]
    configuredEntities, availableCommands,   \* of the dashboard, the same
    showInactiveEntities,
    selected, opening,           \* the entity of the page or Nothing, the opening it is of
    renamingEntityId, renameError,   \* an error: the entity it is about
    configLoading, editingConfig, isSaving, isToggling, isExecuting,
    dialog,          \* [open, loading, showCancel, kind, leaves]
    asked,           \* the requests: [id, is, of, by, value, stage]
    alertDue, reloadDue,
    requested,
    misled           \* history: why the dashboard may show something else

buttons  == <<configLoading, editingConfig, isSaving, isToggling, isExecuting>>
vars == <<file, configuredEntities, availableCommands, showInactiveEntities, selected, opening,
          renamingEntityId, renameError, buttons, dialog, asked, alertDue, reloadDue, requested, misled>>
listVars == <<configuredEntities, availableCommands>>

Entities == Devices \cup Automations
NoDialog == [open |-> FALSE, loading |-> FALSE, showCancel |-> TRUE, kind |-> "none", leaves |-> FALSE]
NoText   == [name |-> Nothing, on |-> FALSE, of |-> Nothing]   \* it could not be loaded

-----------------------------------------------------------------------------
(* The list of the dashboard.                                              *)

\* The service's /api/entities (with the automations) and /api/commands.
ServedCommands(of) == [e \in DOMAIN of \cap Commanded |-> of[e]]

\* allUnifiedEntities: a flag is on that any of its sources has on; the name of
\* a command goes before the name of the entity.
Known(conf, comm) == DOMAIN conf \cup DOMAIN comm
On(conf, comm, e) == (e \in DOMAIN conf /\ conf[e].on) \/ (e \in DOMAIN comm /\ comm[e].on)
Name(e) == IF e \in DOMAIN availableCommands THEN availableCommands[e].name
           ELSE configuredEntities[e].name

\* unifiedEntities
Listed(conf, comm) ==
    {e \in Known(conf, comm) : showInactiveEntities \/ On(conf, comm, e)
                                 \/ e \in Reporting}
Unified == Listed(configuredEntities, availableCommands)

FreshButtons ==
    /\ configLoading' = FALSE /\ editingConfig' = Nothing /\ isSaving' = FALSE
    /\ isToggling' = FALSE /\ isExecuting' = FALSE

\* The lists change: the page of an entity that they show no more is closed.
Lists(conf, comm) ==
    /\ configuredEntities' = conf /\ availableCommands' = comm
    /\ selected' = IF selected \in Listed(conf, comm) THEN selected ELSE Nothing

Init ==
    /\ file \in [Entities -> [name : {CHOOSE n \in Names : TRUE}, on : BOOLEAN]]
    /\ \A e \in Automations : file[e].on
    /\ configuredEntities = file /\ availableCommands = ServedCommands(file)
    /\ showInactiveEntities \in BOOLEAN
    /\ selected = Nothing /\ opening = 0 /\ renamingEntityId = Nothing /\ renameError = Nothing
    /\ configLoading = FALSE /\ editingConfig = Nothing /\ isSaving = FALSE
    /\ isToggling = FALSE /\ isExecuting = FALSE
    /\ dialog = NoDialog /\ asked = {} /\ alertDue = 0 /\ reloadDue = FALSE
    /\ requested = 0 /\ misled = {}

-----------------------------------------------------------------------------
(* The user.                                                               *)

Open(e) ==
    /\ selected = Nothing /\ e \in Unified /\ requested < MaxAsked
    /\ selected' = e /\ opening' = opening + 1 /\ requested' = requested + 1
    /\ dialog' = NoDialog /\ FreshButtons
    /\ UNCHANGED <<file, listVars, showInactiveEntities, renamingEntityId, renameError, asked,
                   alertDue, reloadDue, misled>>

\* Also the effect that follows when the entity is not listed any more.
Closes == selected' = Nothing /\ renameError' = Nothing /\ renamingEntityId' = Nothing

Close ==
    /\ selected # Nothing /\ ~dialog.open
    /\ Closes
    /\ UNCHANGED <<file, listVars, showInactiveEntities, opening, buttons, dialog, asked, alertDue,
                   reloadDue, requested, misled>>

Request(is, value) ==
    [id |-> requested + 1, is |-> is, of |-> selected, by |-> opening, value |-> value, stage |-> "sent"]

\* A request by the page itself; a button that a dialog covers cannot be pressed.
Press(is, value) ==
    /\ selected # Nothing /\ ~dialog.open /\ requested < MaxAsked
    /\ asked' = asked \cup {Request(is, value)}
    /\ requested' = requested + 1

\* handleRename and renameEntityRequest
Rename(n) ==
    /\ selected \in Devices /\ n # Name(selected)
    /\ renamingEntityId # selected[1]
    /\ Press("rename", n)
    /\ renamingEntityId' = selected[1] /\ renameError' = Nothing
    /\ UNCHANGED <<file, listVars, showInactiveEntities, selected, opening, buttons, dialog,
                   alertDue, reloadDue, misled>>

\* handleToggleDiscoveryAlways, where the page shows it: for a device that is not
\* active by itself; handleToggleAutomationEnabled.
Toggle ==
    LET on == On(configuredEntities, availableCommands, selected) IN
    /\ ~isToggling
    /\ selected \in Devices => selected \notin Reporting \/ on
    /\ Press("toggle", ~on)
    /\ isToggling' = TRUE
    /\ UNCHANGED <<file, listVars, showInactiveEntities, selected, opening, renamingEntityId,
                   renameError, configLoading, editingConfig, isSaving, isExecuting, dialog,
                   alertDue, reloadDue, misled>>

\* The tab of the configuration, once for an opening.
LoadRawConfig ==
    /\ editingConfig = Nothing /\ ~configLoading
    /\ Press("load", Nothing)
    /\ configLoading' = TRUE
    /\ UNCHANGED <<file, listVars, showInactiveEntities, selected, opening, renamingEntityId,
                   renameError, editingConfig, isSaving, isToggling, isExecuting, dialog, alertDue,
                   reloadDue, misled>>

\* saveConfig, of another text.
SaveConfig ==
    /\ editingConfig \notin {Nothing, NoText} /\ ~configLoading /\ ~isSaving
    /\ \E on \in BOOLEAN : Press("save", [name |-> editingConfig.name, on |-> on])
    /\ isSaving' = TRUE
    /\ UNCHANGED <<file, listVars, showInactiveEntities, selected, opening, renamingEntityId,
                   renameError, configLoading, editingConfig, isToggling, isExecuting, dialog,
                   alertDue, reloadDue, misled>>

\* handleExecuteAutomation
Execute ==
    /\ selected \in Automations /\ ~isExecuting
    /\ Press("execute", Nothing)
    /\ isExecuting' = TRUE
    /\ UNCHANGED <<file, listVars, showInactiveEntities, selected, opening, renamingEntityId,
                   renameError, configLoading, editingConfig, isSaving, isToggling, dialog, alertDue,
                   reloadDue, misled>>

\* handleDeleteEntity, handleRevokeDiscovery, handleDeleteAutomation
AskTo(kind) ==
    /\ selected # Nothing /\ ~dialog.open
    /\ kind = "revoke" => selected \in Devices /\ selected \in Unified
    /\ dialog' = [NoDialog EXCEPT !.open = TRUE, !.kind = kind]
    /\ UNCHANGED <<file, listVars, showInactiveEntities, selected, opening, renamingEntityId,
                   renameError, buttons, asked, alertDue, reloadDue, requested, misled>>

\* closeDialog, by its button, the escape key or the backdrop, also while it is
\* loading; after a deletion it closes the page as well.
CancelDialog ==
    /\ selected # Nothing /\ dialog.open /\ dialog.showCancel
    /\ dialog' = [dialog EXCEPT !.open = FALSE]
    /\ IF dialog.leaves THEN Closes ELSE UNCHANGED <<selected, renameError, renamingEntityId>>
    /\ UNCHANGED <<file, listVars, showInactiveEntities, opening, buttons, asked, alertDue,
                   reloadDue, requested, misled>>

Confirm ==
    /\ selected # Nothing /\ dialog.open /\ ~dialog.loading
    /\ IF dialog.kind = "alert"
       THEN dialog' = [dialog EXCEPT !.open = FALSE] /\ UNCHANGED <<asked, requested>>
       ELSE /\ requested < MaxAsked
            /\ asked' = asked \cup {Request(dialog.kind, Nothing)} /\ requested' = requested + 1
            /\ dialog' = [dialog EXCEPT !.loading = TRUE,
                                        !.showCancel = dialog.kind # "restart"]
    /\ UNCHANGED <<file, listVars, showInactiveEntities, selected, opening, renamingEntityId,
                   renameError, buttons, alertDue, reloadDue, misled>>

-----------------------------------------------------------------------------
(* The service.                                                            *)

Overlaps(r) == \E q \in asked \ {r} : q.of = r.of /\ q.is \in {"rename", "toggle", "save", "delete"}

\* The entities that have the id of this one, and the first of them that there
\* is in the configurations.
Namesakes(e) == {f \in Entities : f[1] = e[1] /\ (f \in Devices <=> e \in Devices)}
First(e) ==
    LET found == Namesakes(e) \cap DOMAIN file
    IN {f \in found : \A g \in found : f[2] <= g[2]}

\* What a request is carried out on: some changes of a device name its port, all
\* else is found by the id.
Targets(r) ==
    IF r.of \in Devices /\ r.is \in {"rename", "toggle", "save", "delete"}
    THEN {r.of} \cap DOMAIN file ELSE First(r.of)

\* The configuration of an entity as text, with the entity it is of.
Text(e) == [name |-> file[e].name, on |-> file[e].on, of |-> e]

Done(r, value) == asked' = (asked \ {r}) \cup {[r EXCEPT !.stage = "done", !.value = value]}

ServeAt(r, e) ==
    /\ Done(r, IF r.is = "load" THEN Text(e) ELSE r.value)
    /\ file' = CASE r.is = "rename" -> [file EXCEPT ![e].name = r.value]
                 [] r.is = "toggle" -> [file EXCEPT ![e].on = r.value]
                 [] r.is = "save"   -> [file EXCEPT ![e] = r.value]
                 [] r.is = "delete" -> [f \in DOMAIN file \ {e} |-> file[f]]
                 [] OTHER           -> file
    /\ misled' = misled \cup (IF Overlaps(r) THEN {"overlap"} ELSE {})
                        \cup (IF r.is \in {"save", "delete"} THEN {"restart"} ELSE {})
                        \cup (IF r.is = "toggle" /\ e # r.of THEN {"port"} ELSE {})

\* A request is carried out, or refused; a restart needs no entity.
Serve(r) ==
    /\ r.stage = "sent"
    /\ \/ r.is # "restart" /\ \E e \in Targets(r) : ServeAt(r, e)
       \/ r.is = "restart" /\ Done(r, r.value) /\ UNCHANGED <<file, misled>>
       \/ /\ asked' = (asked \ {r}) \cup {[r EXCEPT !.stage = "refused"]}
          /\ UNCHANGED <<file, misled>>
    /\ UNCHANGED <<listVars, showInactiveEntities, selected, opening, renamingEntityId, renameError,
                   buttons, dialog, alertDue, reloadDue, requested>>

-----------------------------------------------------------------------------
(* The answers.                                                            *)

Answered(r, is) == r.is = is /\ r.stage \in {"done", "refused"}
IsHere(r)       == selected # Nothing /\ r.by = opening
Over(r)         == asked' = asked \ {r}

\* promptForRestart: it takes the place of what the dialog shows.
Prompt(leaves) == dialog' = [NoDialog EXCEPT !.open = TRUE, !.kind = "restart", !.leaves = leaves]

\* The dashboard changes the names it has by id, and fetches its two lists, first
\* the commands.
Renamed(r) ==
    /\ Answered(r, "rename")
    /\ IF r.stage = "done"
       THEN /\ asked' = (asked \ {r}) \cup {[r EXCEPT !.is = "commands", !.stage = "fetch"]}
            /\ availableCommands' = [e \in DOMAIN availableCommands |->
                   IF e[1] = r.of[1] THEN [availableCommands[e] EXCEPT !.name = r.value]
                   ELSE availableCommands[e]]
            /\ UNCHANGED <<renamingEntityId, renameError, misled>>
       ELSE /\ Over(r) /\ renameError' = r.of /\ renamingEntityId' = Nothing
            /\ misled' = misled \cup (IF selected = r.of THEN {} ELSE {"error"})
            /\ UNCHANGED availableCommands
    /\ UNCHANGED <<file, configuredEntities, showInactiveEntities, selected, opening, buttons,
                   dialog, alertDue, reloadDue, requested>>

\* loadCommands keeps what there was when it fails.
LoadCommands(r) ==
    /\ r.is = "commands"
    /\ asked' = (asked \ {r}) \cup {[r EXCEPT !.is = "entities"]}
    /\ \/ Lists(configuredEntities, ServedCommands(file)) /\ UNCHANGED misled
       \/ misled' = misled \cup {"lists"} /\ UNCHANGED <<listVars, selected>>
    /\ renameError' = IF selected' = Nothing THEN Nothing ELSE renameError
    /\ renamingEntityId' = IF selected' = Nothing THEN Nothing ELSE renamingEntityId
    /\ UNCHANGED <<file, showInactiveEntities, opening, buttons, dialog, alertDue, reloadDue, requested>>

\* loadConfiguredEntities empties the list when it fails; the automations have
\* one of their own.
LoadConfiguredEntities(r) ==
    /\ r.is = "entities"
    /\ Over(r)
    /\ renamingEntityId' = Nothing
    /\ \/ /\ Lists([e \in DOMAIN file \cup (DOMAIN configuredEntities \cap Automations) |->
                       IF e \in Automations THEN configuredEntities[e] ELSE file[e]],
                   availableCommands)
          /\ UNCHANGED misled
       \/ /\ Lists([e \in DOMAIN configuredEntities \cap Automations |-> configuredEntities[e]],
                   availableCommands)
          /\ misled' = misled \cup {"lists"}
    /\ renameError' = IF selected' = Nothing THEN Nothing ELSE renameError
    /\ UNCHANGED <<file, showInactiveEntities, opening, buttons, dialog, alertDue, reloadDue, requested>>

\* Variant with a fault: a refusal leaves the switch disabled.
ToggledOnly(r) ==
    /\ Answered(r, "toggle")
    /\ Over(r)
    /\ isToggling' = (isToggling /\ (r.stage = "refused" \/ ~IsHere(r)))
    /\ IF r.stage = "done" /\ IsHere(r) THEN Prompt(FALSE) ELSE UNCHANGED dialog
    /\ UNCHANGED <<file, listVars, showInactiveEntities, selected, opening, renamingEntityId,
                   renameError, configLoading, editingConfig, isSaving, isExecuting, alertDue,
                   reloadDue, requested, misled>>

\* handleEntityUpdate, which is given the entity that is selected by then and
\* does not look at the port of the configured ones.  An entity that is not
\* listed any more takes its page with it, and the question for a restart.
Toggled(r) ==
    /\ Answered(r, "toggle")
    /\ Over(r)
    /\ isToggling' = (isToggling /\ ~IsHere(r))
    /\ IF r.stage = "refused" \/ r.of \in Automations \/ selected = Nothing
       THEN UNCHANGED <<listVars, selected, renameError, renamingEntityId>>
       ELSE /\ Lists([e \in DOMAIN configuredEntities |->
                         IF e[1] = selected[1] /\ e \in Devices
                         THEN [configuredEntities[e] EXCEPT !.on = r.value]
                         ELSE configuredEntities[e]],
                     [e \in DOMAIN availableCommands |->
                         IF e = selected THEN [availableCommands[e] EXCEPT !.on = r.value]
                         ELSE availableCommands[e]])
            /\ renameError' = IF selected' = Nothing THEN Nothing ELSE renameError
            /\ renamingEntityId' = IF selected' = Nothing THEN Nothing ELSE renamingEntityId
    /\ IF r.stage = "done" /\ IsHere(r) THEN Prompt(FALSE) ELSE UNCHANGED dialog
    /\ misled' = misled
         \cup (IF r.stage = "done" /\ selected # r.of THEN {"moved"} ELSE {})
         \cup (IF r.stage = "done" /\ \E e \in Devices \ {r.of} : e[1] = r.of[1] THEN {"port"} ELSE {})
         \cup (IF r.of \in Automations THEN {"restart"} ELSE {})
    /\ UNCHANGED <<file, showInactiveEntities, opening, configLoading, editingConfig, isSaving,
                   isExecuting, alertDue, reloadDue, requested>>

\* loadRawConfig
RawConfigLoaded(r) ==
    /\ Answered(r, "load")
    /\ Over(r)
    /\ IF IsHere(r)
       THEN /\ configLoading' = FALSE
            /\ editingConfig' = IF r.stage = "done" THEN r.value ELSE NoText
       ELSE UNCHANGED <<configLoading, editingConfig>>
    /\ UNCHANGED <<file, listVars, showInactiveEntities, selected, opening, renamingEntityId,
                   renameError, isSaving, isToggling, isExecuting, dialog, alertDue, reloadDue,
                   requested, misled>>

ConfigSaved(r) ==
    /\ Answered(r, "save")
    /\ Over(r)
    /\ isSaving' = (isSaving /\ ~IsHere(r))
    /\ IF r.stage = "done" /\ IsHere(r) THEN Prompt(FALSE) ELSE UNCHANGED dialog
    /\ UNCHANGED <<file, listVars, showInactiveEntities, selected, opening, renamingEntityId,
                   renameError, configLoading, editingConfig, isToggling, isExecuting, alertDue,
                   reloadDue, requested, misled>>

Executed(r) ==
    /\ Answered(r, "execute")
    /\ Over(r)
    /\ isExecuting' = (isExecuting /\ ~IsHere(r))
    /\ UNCHANGED <<file, listVars, showInactiveEntities, selected, opening, renamingEntityId,
                   renameError, configLoading, editingConfig, isSaving, isToggling, dialog, alertDue,
                   reloadDue, requested, misled>>

\* onConfirm: what was asked in the dialog is answered, whatever the dialog shows
\* by then.  An automation that was deleted closes the page and reloads the UI, a
\* restart does so after a while; an error is told in an alert.
DialogAnswered(r) ==
    /\ r.is \in {"delete", "revoke", "restart"} /\ r.stage \in {"done", "refused"}
    /\ Over(r)
    /\ CASE r.stage = "refused" ->
              /\ IF IsHere(r) THEN /\ dialog' = [dialog EXCEPT !.open = FALSE, !.leaves = FALSE]
                                   /\ alertDue' = opening
                 ELSE UNCHANGED <<dialog, alertDue>>
              /\ UNCHANGED <<selected, renameError, renamingEntityId, reloadDue>>
         [] r.stage = "done" /\ r.is = "restart" ->
              /\ reloadDue' = TRUE
              /\ dialog' = [dialog EXCEPT !.leaves = FALSE]
              /\ UNCHANGED <<selected, renameError, renamingEntityId, alertDue>>
         [] r.stage = "done" /\ r.is = "delete" /\ r.of \in Automations ->
              /\ reloadDue' = TRUE
              /\ Closes
              /\ UNCHANGED <<dialog, alertDue>>
         [] OTHER ->
              /\ IF ~IsHere(r) THEN UNCHANGED dialog
                 ELSE IF r.is = "delete" THEN Prompt(TRUE)
                 ELSE dialog' = [NoDialog EXCEPT !.open = TRUE, !.showCancel = FALSE, !.kind = "alert"]
              /\ UNCHANGED <<selected, renameError, renamingEntityId, alertDue, reloadDue>>
    /\ UNCHANGED <<file, listVars, showInactiveEntities, opening, buttons, requested, misled>>

-----------------------------------------------------------------------------
\* showAlertDialog, 300 ms after an error.
Alert ==
    /\ alertDue # 0
    /\ alertDue' = 0
    /\ dialog' = IF selected # Nothing /\ alertDue = opening
                 THEN [NoDialog EXCEPT !.open = TRUE, !.showCancel = FALSE, !.kind = "alert"]
                 ELSE dialog
    /\ UNCHANGED <<file, listVars, showInactiveEntities, selected, opening, renamingEntityId,
                   renameError, buttons, asked, reloadDue, requested, misled>>

\* The whole UI begins anew.
Reload ==
    /\ reloadDue
    /\ reloadDue' = FALSE /\ alertDue' = 0 /\ asked' = {}
    /\ configuredEntities' = file /\ availableCommands' = ServedCommands(file)
    /\ Closes /\ dialog' = NoDialog /\ FreshButtons
    /\ misled' = IF \E r \in asked : r.stage = "sent" THEN {"overlap"} ELSE {}
    /\ UNCHANGED <<file, showInactiveEntities, opening, requested>>

Next ==
    \/ \E e \in Entities : Open(e)
    \/ \E n \in Names : Rename(n)
    \/ Close \/ Toggle \/ LoadRawConfig \/ SaveConfig \/ Execute \/ CancelDialog \/ Confirm
    \/ \E kind \in {"delete", "revoke"} : AskTo(kind)
    \/ \E r \in asked :
         \/ Serve(r) \/ Renamed(r) \/ LoadCommands(r) \/ LoadConfiguredEntities(r) \/ Toggled(r)
         \/ RawConfigLoaded(r) \/ ConfigSaved(r) \/ Executed(r) \/ DialogAnswered(r)
    \/ Alert \/ Reload

Spec == Init /\ [][Next]_vars

-----------------------------------------------------------------------------
(***************************************************************************)
(* A page lets its user edit no text but that of its entity, or of one with the *)
(* same id on another port (loadRawConfig), and comes to rest: once every       *)
(* answer has come, its buttons can be pressed, no dialog waits, an error is     *)
(* about the entity that is shown, and the dashboard shows the names and flags    *)
(* of the file, unless the answer came when another page was open or none       *)
(* (onUpdate of App.svelte takes the selected entity), two ports have the id,     *)
(* changes of the entity overlapped, a list could not be fetched, or a restart    *)
(* is due.                                                                  *)
(***************************************************************************)
EntityPageSettles ==
    /\ selected # Nothing /\ editingConfig \notin {Nothing, NoText} =>
         editingConfig.of \in Namesakes(selected)
    /\ asked = {} /\ alertDue = 0 /\ ~reloadDue =>
        /\ selected # Nothing =>
             /\ ~configLoading /\ ~isSaving /\ ~isToggling /\ ~isExecuting
             /\ renamingEntityId = Nothing
             /\ ~dialog.loading \/ ~dialog.open
        /\ "error" \notin misled => renameError \in {Nothing, selected}
        /\ misled \subseteq {"error"} =>
             \A e \in Known(configuredEntities, availableCommands) :
                 /\ On(configuredEntities, availableCommands, e) = file[e].on
                 /\ Name(e) = file[e].name
=============================================================================

---------------------------- MODULE DashboardPage ----------------------------
(***************************************************************************)
(* Adding an entity, an automation or a script on the dashboard               *)
(* (Dashboard.svelte), and the restarts asked for there.  One dialog serves     *)
(* every question and can be closed by Esc while its action runs; ports and       *)
(* errors change underneath as the application reloads what it shows.             *)
(***************************************************************************)
EXTENDS FiniteSets

CONSTANTS
    PortIds,        \* of the bridges
    EntityTypes,    \* entityTypeOptions
    Nothing

VARIABLES
    activePortId,    \* the port the page is about, or Nothing
    trouble,         \* "none", "infoError" or "hasCriticalError"
    isAddModalOpen, addStep, selectedCategory, selectedEntityType,
    yamlDraft,       \* what it is a draft of
    isAdding, isRestarting,
    addDialog,       \* [open, loading, showCancel, kind, and for an addition what it is
                     \* about and whether the port has changed since]
    adds,            \* requests to add: [key, draft, port, shown, stage]; shown: the dialog agreed to
    restarts,        \* calls of triggerSystemRestart that are out, by what began them
    reloadDue,
    restartFailed    \* history

modal == <<isAddModalOpen, addStep, selectedCategory, selectedEntityType, yamlDraft>>
shownInfo == <<activePortId, trouble>>
vars == <<shownInfo, modal, isAdding, isRestarting, addDialog, adds, restarts, reloadDue, restartFailed>>

Categories == {"entity", "automation", "script"}
NoQuestion == [open |-> FALSE, loading |-> FALSE, showCancel |-> TRUE, kind |-> "none",
               about |-> Nothing, port |-> Nothing, left |-> FALSE]
\* What a closed dialog keeps is set anew when one is asked.
Question(kind, about, port) ==
    [NoQuestion EXCEPT !.open = TRUE, !.kind = kind, !.about = about, !.port = port]
Restarting == [addDialog EXCEPT !.open = TRUE, !.loading = TRUE, !.showCancel = FALSE]

Init ==
    /\ isAddModalOpen = FALSE /\ addStep = "select-category"
    /\ selectedCategory = Nothing /\ selectedEntityType = Nothing /\ yamlDraft = Nothing
    /\ isAdding = FALSE /\ isRestarting = FALSE /\ addDialog = NoQuestion
    /\ restarts = {} /\ reloadDue = FALSE /\ restartFailed = FALSE
    /\ activePortId \in PortIds \cup {Nothing}
    /\ trouble = "none"
    /\ adds = {}

-----------------------------------------------------------------------------
(* The steps of the modal, which a dialog covers.                           *)

InModal(step) == isAddModalOpen /\ addStep = step /\ ~addDialog.open

Elsewhere == <<shownInfo, isAdding, isRestarting, addDialog, adds, restarts, reloadDue, restartFailed>>

ClearedModal == /\ addStep' = "select-category" /\ yamlDraft' = Nothing
                /\ selectedCategory' = Nothing /\ selectedEntityType' = Nothing

OpenAddModal ==
    /\ ~isAddModalOpen /\ ~addDialog.open /\ trouble = "none"
    /\ isAddModalOpen' = TRUE /\ ClearedModal
    /\ UNCHANGED Elsewhere

\* By its button, which a save disables, or by Esc, which it does not.
CloseAddModal ==
    /\ isAddModalOpen /\ ~addDialog.open
    /\ isAddModalOpen' = FALSE
    /\ UNCHANGED <<Elsewhere, addStep, selectedCategory, selectedEntityType, yamlDraft>>

HandleCategorySelect(category) ==
    /\ InModal("select-category")
    /\ selectedCategory' = category
    /\ IF category = "entity"
       THEN /\ addStep' = "select-entity-type"
            /\ UNCHANGED <<selectedEntityType, yamlDraft>>
       ELSE /\ addStep' = "edit-yaml" /\ selectedEntityType' = Nothing /\ yamlDraft' = category
    /\ UNCHANGED <<Elsewhere, isAddModalOpen>>

HandleEntityTypeSelect(type) ==
    /\ InModal("select-entity-type")
    /\ selectedEntityType' = type /\ selectedCategory' = "entity"
    /\ yamlDraft' = type /\ addStep' = "edit-yaml"
    /\ UNCHANGED <<Elsewhere, isAddModalOpen>>

HandleAddStepBack ==
    /\ isAddModalOpen /\ ~addDialog.open /\ addStep # "select-category"
    /\ addStep' = IF addStep = "edit-yaml" /\ selectedCategory = "entity"
                  THEN "select-entity-type" ELSE "select-category"
    /\ UNCHANGED <<Elsewhere, isAddModalOpen, selectedCategory, selectedEntityType, yamlDraft>>

GoToConfirmation ==
    /\ InModal("edit-yaml") /\ ~isAdding /\ activePortId # Nothing
    /\ addDialog' = Question("add", yamlDraft, activePortId)
    /\ UNCHANGED <<shownInfo, modal, isAdding, isRestarting, adds, restarts, reloadDue, restartFailed>>

-----------------------------------------------------------------------------
(* The dialog.                                                             *)

CloseDialog ==
    /\ addDialog.open /\ addDialog.showCancel
    /\ addDialog' = NoQuestion
    /\ UNCHANGED <<shownInfo, modal, isAdding, isRestarting, adds, restarts, reloadDue, restartFailed>>

\* The key the draft goes under.
RootKey == CASE selectedCategory = "automation" -> "automation"
             [] selectedCategory = "script" -> "script"
             [] OTHER -> IF selectedEntityType = Nothing THEN "light" ELSE selectedEntityType

\* executeSaveAndRestart, with the port of now.
ConfirmAdd ==
    /\ addDialog.open /\ addDialog.kind = "add" /\ ~addDialog.loading
    /\ \/ /\ activePortId = Nothing \/ isAdding
          /\ addDialog' = NoQuestion
          /\ UNCHANGED <<adds, isAdding>>
       \/ /\ activePortId # Nothing /\ ~isAdding
          /\ addDialog' = [addDialog EXCEPT !.loading = TRUE]
          /\ adds' = adds \cup {[key |-> RootKey, draft |-> yamlDraft, port |-> activePortId,
                                 shown |-> addDialog, stage |-> "sent"]}
          /\ isAdding' = TRUE
    /\ UNCHANGED <<shownInfo, modal, isRestarting, restarts, reloadDue, restartFailed>>

HandleRestart ==
    /\ trouble = "hasCriticalError" /\ ~isAddModalOpen /\ ~isRestarting /\ ~addDialog.open
    /\ addDialog' = Question("restart", Nothing, Nothing)
    /\ UNCHANGED <<shownInfo, modal, isAdding, isRestarting, adds, restarts, reloadDue, restartFailed>>

\* triggerSystemRestart, awaited here but not after an item was added.
BeginRestart(by) ==
    /\ isRestarting' = TRUE
    /\ addDialog' = Restarting
    /\ restarts' = restarts \cup {by}

ConfirmRestart ==
    /\ addDialog.open /\ addDialog.kind = "restart" /\ ~addDialog.loading
    /\ BeginRestart("question")
    /\ UNCHANGED <<shownInfo, modal, isAdding, adds, reloadDue, restartFailed>>

-----------------------------------------------------------------------------
(* Requests and answers.                                                   *)

AddServed(r) ==
    /\ r.stage = "sent"
    /\ \E stage \in {"added", "failed"} :
        adds' = (adds \ {r}) \cup {[r EXCEPT !.stage = stage]}
    /\ UNCHANGED <<shownInfo, modal, isAdding, isRestarting, addDialog, restarts, reloadDue,
                   restartFailed>>

\* onSuccess closes the modal, be it the one of the next item.
ItemAdded(r) ==
    /\ r.stage = "added"
    /\ adds' = adds \ {r} /\ isAdding' = FALSE
    /\ isAddModalOpen' = FALSE
    /\ BeginRestart("add")
    /\ UNCHANGED <<shownInfo, addStep, selectedCategory, selectedEntityType, yamlDraft, reloadDue,
                   restartFailed>>

\* The dialog is closed, whatever it asks by now.
AddFailed(r) ==
    /\ r.stage = "failed"
    /\ adds' = adds \ {r} /\ isAdding' = FALSE
    /\ addDialog' = NoQuestion
    /\ UNCHANGED <<shownInfo, modal, isRestarting, restarts, reloadDue, restartFailed>>

RestartAccepted(by) ==
    /\ restarts' = restarts \ {by} /\ reloadDue' = TRUE
    /\ UNCHANGED <<shownInfo, modal, isAdding, isRestarting, addDialog, adds, restartFailed>>

\* Nobody resets isRestarting; after an addition nobody closes the dialog either.
RestartRefused(by) ==
    /\ restarts' = restarts \ {by} /\ restartFailed' = TRUE
    /\ addDialog' = IF by = "question" THEN NoQuestion ELSE addDialog
    /\ UNCHANGED <<shownInfo, modal, isAdding, isRestarting, adds, reloadDue>>

-----------------------------------------------------------------------------
(* What happens around the page.                                           *)

\* The application loads the bridges anew: ports go and come, errors too.
BridgeInfoLoaded ==
    /\ activePortId' \in PortIds \cup {Nothing}
    /\ trouble' \in {"none", "infoError", "hasCriticalError"}
    /\ (activePortId' = activePortId \/ trouble' = trouble)
    /\ addDialog' = [addDialog EXCEPT
                       !.left = @ \/ (addDialog.open /\ activePortId' # activePortId)]
    /\ UNCHANGED <<modal, isAdding, isRestarting, adds, restarts, reloadDue, restartFailed>>

\* 5 s after a restart was accepted, 10 s after the bridges could not be loaded,
\* whatever is being written, or by its button.
Reload ==
    /\ reloadDue \/ trouble # "none"
    /\ isAddModalOpen' = FALSE /\ ClearedModal
    /\ isAdding' = FALSE /\ isRestarting' = FALSE /\ addDialog' = NoQuestion
    /\ restarts' = {} /\ reloadDue' = FALSE /\ restartFailed' = FALSE
    /\ adds' = {}
    /\ UNCHANGED shownInfo

Next ==
    \/ OpenAddModal \/ CloseAddModal \/ HandleAddStepBack \/ GoToConfirmation
    \/ \E category \in Categories : HandleCategorySelect(category)
    \/ \E type \in EntityTypes : HandleEntityTypeSelect(type)
    \/ CloseDialog \/ ConfirmAdd \/ HandleRestart \/ ConfirmRestart
    \/ \E r \in adds : AddServed(r) \/ ItemAdded(r) \/ AddFailed(r)
    \/ \E by \in restarts : RestartAccepted(by) \/ RestartRefused(by)
    \/ BridgeInfoLoaded \/ Reload

Spec == Init /\ [][Next]_vars

-----------------------------------------------------------------------------
(***************************************************************************)
(* What is added is what the user was shown when asked, under the key of its     *)
(* kind, and for the port of the page unless that changed under the dialog; and   *)
(* once no answer is out the page waits for nothing but its own reload, unless a   *)
(* restart was refused.                                                      *)
(***************************************************************************)
DashboardSettles ==
    /\ \A r \in adds : /\ r.key = r.draft /\ r.draft = r.shown.about
                       /\ (r.shown.left \/ r.port = r.shown.port)
    /\ adds = {} /\ restarts = {} /\ ~restartFailed /\ ~reloadDue =>
            ~isAdding /\ ~isRestarting /\ ~(addDialog.open /\ addDialog.loading)
=============================================================================

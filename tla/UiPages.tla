------------------------------- MODULE UiPages -------------------------------
(***************************************************************************)
(* The pages of the web UI with the routes behind them, each part from its own  *)
(* initial states: the selection of a port in the gallery (GalleryView), the    *)
(* preview and the application of a snippet (GalleryPreview), the set-up wizard (SetupWizard), the settings (FrontendSettings, SettingsPage,   *)
(* LogSharing, FileLists), the page of one entity (EntityDetail), the recording *)
(* of packets (Recording) and the dashboard (DashboardPage).  `part` says which *)
(* one a behaviour is about; the others keep their initial values.  How a       *)
(* snippet is expanded is a parameter here; MCPages has the templates.        *)
(***************************************************************************)
EXTENDS Integers, Sequences, FiniteSets

CONSTANTS
    Ports, NoPort, MaxSelections,
    Examples, Empty, ExampleEntities, PortOf, Paths, PortIds, LoadedPorts, MaxActs,
    OpenPages, Locales, Editors, MaxChanges, MaxStops,
    LogFiles, Configs, NoArg, MaxDialogs,
    MaxConsents, MaxFiles, KeepCount, MaxListings,
    Devices, Automations, Commanded, Reporting, Names, Nothing, MaxAsked,
    MaxRecordings, Slots,
    DashboardPorts, EntityTypes,
    GallerySnippets, Typed, NewIds, Configuration, SerialSettings, OtherIds, MaxTouches, MaxOthers,
    ExpandSnippet(_, _, _)

\* There is a name to begin with, an automation is no device, and the values that
\* stand for nothing are none.
ASSUME UiAssumption ==
    /\ MaxFiles \in Nat /\ KeepCount \in Nat
    /\ Names # {} /\ Nothing \notin EntityTypes /\ "unset" \notin Editors
    /\ NoArg \notin LogFiles \cup Configs
    /\ Devices \cap Automations = {} /\ Nothing \notin Devices \cup Automations

VARIABLES
    part,
    activePortId, compatibilityTimeout, discoveryTimeout, compatibilityRequest, discoveryRequest,
    compatibilityRequestId, compatibilityCache, compatibilityByVendor, discoveryResults,
    discoveryPortId, discoveryRequestInFlight, discoveryLoading, selections, failed, stray,
    mode, marker, asked, customConfig, loading, currentStep, error, form, exampleRequests,
    packetDefaults, hasTested, testPackets, checks, test, entityRequests, entities,
    selectedEntities, submitting, consentSubmitting, written, checked, unlike, late, acts,
    settingsFile, up, logRetention, frontendSettings, settingsLoading, put, cachePut, changes, stops,
    saver, causes,
    running, exiting, restartTokens, savedFiles, configFiles, cacheFiles, dialog, actions,
    isRestarting, isClearingMqtt, deletingFile, alertDue, reloadDue, editor, dialogs, confirmed,
    stranded,
    consented, initialized, logSharingStatus, showConsentModal, isConsenting, consents, sent,
    settled, astray,
    files, added, list, deleting, working, listings, listed, applied, overtaken, unlisted,
    entityFile, configuredEntities, availableCommands, showInactiveEntities, selected, opening,
    renamingEntityId, renameError, configLoading, editingConfig, isSaving, isToggling, isExecuting,
    entityDialog, entityAsked, entityAlertDue, entityReloadDue, requested, misled,
    logging, newest, logs, isRecording, recordedFile, shown, showSaveDialog, autoStopped,
    logDialog, logAlertDue, logRequests, misdeleted, logAstray,
    dashboardPort, trouble, isAddModalOpen, addStep, selectedCategory, selectedEntityType, yamlDraft,
    isAdding, dashboardRestarting, addDialog, adds, restarts, dashboardReloadDue, restartFailed,
    config, snippet, inputs, step, expansion, matches, compatible, forceApply, matchActions,
    matchTargets, renames, before, touches, others

View    == INSTANCE GalleryView
Wizard  == INSTANCE SetupWizard WITH Entities <- ExampleEntities
Stored  == INSTANCE FrontendSettings WITH Pages <- OpenPages, file <- settingsFile
Page    == INSTANCE SettingsPage WITH Files <- LogFiles, MaxActs <- MaxDialogs, up <- running,
                                      running <- actions, acts <- dialogs
Sharing == INSTANCE LogSharing WITH MaxRequests <- MaxConsents, requests <- consents
Listed  == INSTANCE FileLists WITH MaxRequests <- MaxListings, requests <- listings,
                                   sent <- listed, failed <- unlisted
Detail  == INSTANCE EntityDetail WITH file <- entityFile, dialog <- entityDialog,
                                      asked <- entityAsked, alertDue <- entityAlertDue,
                                      reloadDue <- entityReloadDue
Record  == INSTANCE Recording WITH dialog <- logDialog, alertDue <- logAlertDue,
                                   requests <- logRequests, astray <- logAstray
Board   == INSTANCE DashboardPage WITH PortIds <- DashboardPorts, activePortId <- dashboardPort,
                                       isRestarting <- dashboardRestarting,
                                       reloadDue <- dashboardReloadDue
Preview == INSTANCE GalleryPreview WITH Snippets <- GallerySnippets, Settings <- SerialSettings,
                                        Others <- OtherIds

\* Items have ids, in the configuration, what a snippet brings along and what its
\* templates become; what other clients add has one too (gallery-validation.ts).
ASSUME PreviewAssumption ==
    /\ DOMAIN Configuration = {"light", "automation"}
    /\ \A l \in {"light", "automation"} : Preview!AreItems(Configuration[l])
    /\ Preview!NoId \notin OtherIds
    /\ \A s \in GallerySnippets :
         /\ Preview!AreItems(s.automation)
         /\ \A given \in Preview!InputsOf(s) :
              LET expanded == ExpandSnippet(s.lights, s.parameters, given)
              IN expanded = Preview!Throws \/ Preview!AreItems(expanded.of)

viewVars    == <<activePortId, compatibilityTimeout, discoveryTimeout, compatibilityRequest,
                 discoveryRequest, compatibilityRequestId, compatibilityCache,
                 compatibilityByVendor, discoveryResults, discoveryPortId,
                 discoveryRequestInFlight, discoveryLoading, selections, failed, stray>>
wizardVars  == <<mode, marker, asked, customConfig, loading, currentStep, error, form,
                 exampleRequests, packetDefaults, hasTested, testPackets, checks, test,
                 entityRequests, entities, selectedEntities, submitting, consentSubmitting, written,
                 checked, unlike, late, acts>>
storedVars  == <<settingsFile, up, logRetention, frontendSettings, settingsLoading, put, cachePut,
                 changes, stops, saver, causes>>
pageVars    == <<running, exiting, restartTokens, savedFiles, configFiles, cacheFiles, dialog,
                 actions, isRestarting, isClearingMqtt, deletingFile, alertDue, reloadDue, editor,
                 dialogs, confirmed, stranded>>
sharingVars == <<consented, initialized, logSharingStatus, showConsentModal, isConsenting,
                 consents, sent, settled, astray>>
listedVars  == <<files, added, list, deleting, working, listings, listed, applied, overtaken,
                 unlisted>>
detailVars  == <<entityFile, configuredEntities, availableCommands, showInactiveEntities, selected,
                 opening, renamingEntityId, renameError, configLoading, editingConfig, isSaving,
                 isToggling, isExecuting, entityDialog, entityAsked, entityAlertDue,
                 entityReloadDue, requested, misled>>
recordVars  == <<logging, newest, logs, isRecording, recordedFile, shown, showSaveDialog,
                 autoStopped, logDialog, logAlertDue, logRequests, misdeleted, logAstray>>
boardVars   == <<dashboardPort, trouble, isAddModalOpen, addStep, selectedCategory,
                 selectedEntityType, yamlDraft, isAdding, dashboardRestarting, addDialog, adds,
                 restarts, dashboardReloadDue, restartFailed>>
previewVars == <<config, snippet, inputs, step, expansion, matches, compatible, forceApply,
                 matchActions, matchTargets, renames, before, touches, others>>
uiVars == <<part, viewVars, wizardVars, storedVars, pageVars, sharingVars, listedVars, detailVars,
            recordVars, boardVars, previewVars>>

Parts == {"preview", "view", "seen", "wizard", "stored", "page", "sharing", "listed",
          "detail", "record", "board"}

UiInit ==
    /\ part \in Parts
    /\ View!Init
    /\ Wizard!Init
    /\ (part # "wizard" => mode = "add")
    /\ Stored!Init /\ (part # "stored" => settingsFile = Stored!Missing)
    /\ Page!Init
    /\ Sharing!Init /\ (part # "sharing" => consented = "no" /\ ~initialized)
    /\ Listed!Init /\ (part # "listed" => added = 0)
    /\ Detail!Init
    /\ (part # "detail" => showInactiveEntities /\ \A e \in DOMAIN entityFile : entityFile[e].on)
    /\ Record!Init /\ (part # "record" => logging = 0)
    /\ Board!Init /\ (part # "board" => dashboardPort = Nothing)
    /\ Preview!Init /\ (part # "preview" => snippet = CHOOSE s \in GallerySnippets : TRUE)

ViewStep    == /\ part = "view" /\ View!Next
               /\ UNCHANGED <<part, wizardVars, storedVars, pageVars,
                              sharingVars, listedVars, detailVars, recordVars, boardVars, previewVars>>
WizardStep  == /\ part = "wizard" /\ Wizard!Next
               /\ UNCHANGED <<part, viewVars, storedVars, pageVars, sharingVars,
                              listedVars, detailVars, recordVars, boardVars, previewVars>>
StoredStep  == /\ part = "stored" /\ Stored!Next
               /\ UNCHANGED <<part, viewVars, wizardVars, pageVars, sharingVars,
                              listedVars, detailVars, recordVars, boardVars, previewVars>>
PageStep    == /\ part = "page" /\ Page!Next
               /\ UNCHANGED <<part, viewVars, wizardVars, storedVars,
                              sharingVars, listedVars, detailVars, recordVars, boardVars, previewVars>>
SharingStep == /\ part = "sharing" /\ Sharing!Next
               /\ UNCHANGED <<part, viewVars, wizardVars, storedVars, pageVars,
                              listedVars, detailVars, recordVars, boardVars, previewVars>>
ListedStep  == /\ part = "listed" /\ Listed!Next
               /\ UNCHANGED <<part, viewVars, wizardVars, storedVars, pageVars,
                              sharingVars, detailVars, recordVars, boardVars, previewVars>>
DetailStep  == /\ part = "detail" /\ Detail!Next
               /\ UNCHANGED <<part, viewVars, wizardVars, storedVars, pageVars,
                              sharingVars, listedVars, recordVars, boardVars, previewVars>>
RecordStep  == /\ part = "record" /\ Record!Next
               /\ UNCHANGED <<part, viewVars, wizardVars, storedVars, pageVars,
                              sharingVars, listedVars, detailVars, boardVars, previewVars>>
BoardStep   == /\ part = "board" /\ Board!Next
               /\ UNCHANGED <<part, viewVars, wizardVars, storedVars, pageVars,
                              sharingVars, listedVars, detailVars, recordVars, previewVars>>
PreviewStep == /\ part = "preview" /\ Preview!Next
               /\ UNCHANGED <<part, viewVars, wizardVars, storedVars, pageVars, sharingVars,
                              listedVars, detailVars, recordVars, boardVars>>

UiNext == \/ ViewStep \/ WizardStep \/ StoredStep \/ PageStep \/ SharingStep \/ ListedStep
          \/ DetailStep \/ RecordStep \/ BoardStep \/ PreviewStep
UiSpec == UiInit /\ [][UiNext]_uiVars

-----------------------------------------------------------------------------
\* Of GalleryView: the gallery shows what it knows of the port.
GalleryFollowsThePort == part = "view" => View!GalleryFollowsThePort

\* Of GalleryPreview: an application touches what the modal showed, no more.
SnippetIsApplied == part = "preview" => Preview!SnippetIsApplied

\* Of SetupWizard: a file that is written is what the pages showed.
WizardWritesItsChoice == part = "wizard" => Wizard!WizardWritesItsChoice

\* Of FrontendSettings: file, memory and pages agree.
SettingsAgree == part = "stored" => Stored!SettingsAgree

\* Of FrontendSettings, what helpers.ts:168 says of the locale.
LocaleIsKept == part = "stored" => Stored!LocaleIsKept

\* Of SettingsPage, LogSharing, FileLists, Recording and DashboardPage: a page
\* comes back from every action and shows the consent, the files and the
\* recording there are; what is added is what was shown.
PagesSettle ==
    /\ part = "page" => Page!SettingsPageSettles
    /\ part = "sharing" => Sharing!ConsentIsShown
    /\ part = "listed" => Listed!FileListsSettle
    /\ part = "record" => Record!RecordingIsShown
    /\ part = "board" => Board!DashboardSettles

\* Of EntityDetail: the page of an entity comes to rest and the dashboard shows
\* what the file has.
EntityPageSettles == part = "detail" => Detail!EntityPageSettles
=============================================================================

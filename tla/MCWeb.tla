-------------------------------- MODULE MCWeb --------------------------------
(***************************************************************************)
(* The web interface in one run, each part from its own initial states: the  *)
(* consumers of raw packets in the service (RawConsumers), a page and its     *)
(* connection (WebStream), its packet logs (WebLogs), the edits of the        *)
(* configuration (ConfigEdits), what a file that was edited loads as         *)
(* (ConfigLoading).  `part` says which one a behaviour is about; the others   *)
(* keep their initial values.                                               *)
(***************************************************************************)
EXTENDS RawConsumers, TLC

CONSTANTS
    b1, b2, c1, c2, r1, r2, p1, p2, p3,
    Connections, MaxStates, MaxChoices,
    Packets, MaxEntries, MaxReconnects,
    Files, Initial, Edits, Slots, MaxEdits,
    Written, NewEntities, MaxReloads

ASSUME WebAssumption ==
    /\ Connections \subseteq Nat \ {0} /\ 1 \in Connections
    /\ MaxStates \in Nat

VARIABLES
    part,
    view, isRecording, mode, bridgeInfo, socket, isSocketOpen, isStreaming, appliedMode,
    reconnectTimer, shown, end, accepted, up, down, subscribers, latest, state, publishing,
    choices,
    cached, packetLogs, wire, packetDictionary, packetIdCounter, logs, buffer, history,
    reconnects, heard,
    disk, memory, running, backups, edit, made, last, excused,
    configFile, loaded, known, clash, unsound, edits

Stream == INSTANCE WebStream
Logs   == INSTANCE WebLogs
Editor == INSTANCE ConfigEdits WITH Requests <- Edits
Loading == INSTANCE ConfigLoading WITH
               file <- configFile, memory <- loaded, MaxEdits <- MaxReloads

ASSUME InitialAssumption == DOMAIN Initial = Editor!FileSet
ASSUME EditsAssumption ==
    /\ \A f \in Editor!FileSet : Initial[f] \in Editor!Content \cup {Editor!Torn}
    /\ \A r \in Edits : Editor!IsRequest(r)

streamVars == <<view, isRecording, mode, bridgeInfo, socket, isSocketOpen, isStreaming,
                appliedMode, reconnectTimer, shown, end, accepted, up, down, subscribers,
                latest, state, publishing, choices>>
logsVars   == <<cached, packetLogs, wire, packetDictionary, packetIdCounter, logs, buffer,
                history, reconnects, heard>>
editorVars == <<disk, memory, running, backups, edit, made, last, excused>>
loadVars   == <<configFile, loaded, known, clash, unsound, edits>>
allVars    == <<part, vars, streamVars, logsVars, editorVars, loadVars>>

WebInit ==
    /\ part \in {"consumers", "stream", "logs", "editor", "loading"}
    /\ Init /\ (part # "consumers" => file = [consent |-> "no", uid |-> FALSE])
    /\ Stream!Init
    /\ Logs!Init /\ (part # "logs" => cached = <<>>)
    /\ Editor!Init
    /\ Loading!Init /\ (part # "loading" => configFile = CHOOSE f \in Written : TRUE)

ConsumersStep == /\ part = "consumers" /\ Next
                 /\ UNCHANGED <<part, streamVars, logsVars, editorVars, loadVars>>
StreamStep    == /\ part = "stream" /\ Stream!Next
                 /\ UNCHANGED <<part, vars, logsVars, editorVars, loadVars>>
LogsStep      == /\ part = "logs" /\ Logs!Next
                 /\ UNCHANGED <<part, vars, streamVars, editorVars, loadVars>>
EditorStep    == /\ part = "editor" /\ Editor!Next
                 /\ UNCHANGED <<part, vars, streamVars, logsVars, loadVars>>
LoadingStep   == /\ part = "loading" /\ Loading!Next
                 /\ UNCHANGED <<part, vars, streamVars, logsVars, editorVars>>

WebNext == ConsumersStep \/ StreamStep \/ LogsStep \/ EditorStep \/ LoadingStep
WebSpec == WebInit /\ [][WebNext]_allVars

-----------------------------------------------------------------------------
\* Of RawConsumers: packets are collected with consent, into buffers that agree
\* with the counter.
CollectionIsSound == TypeOK /\ ConsentRespected /\ CountsAgree

\* Of WebStream: who looks at raw packets gets them, in the mode shown, a page
\* that does not look gets none, and the page shows the state of the entity and
\* keeps reconnecting.
StreamMatches == /\ Stream!TypeOK /\ Stream!StreamMatches /\ Stream!PageFollows
                 /\ Stream!StreamInv

\* Of WebLogs: the log of a page is what it was told of, in order.
LogsSound == Logs!LogsSound /\ Logs!LogsInv

\* Of WebLogs, what App.svelte:287 says of the dictionary.
ShownPacketIsOwn == Logs!ShownPacketIsOwn

\* Of ConfigEdits: memory, disk and what runs agree after an edit.
EditsAgree == Editor!EditsAgree /\ Editor!EditsInTime

\* Of ConfigLoading: entities keep their ids over edits and restarts, what was
\* normalised stays, what was written loads.
LoadingHolds ==
    part = "loading" =>
        Loading!IdentityIsStable /\ Loading!NormalFormHolds /\ Loading!WrittenLoads

\* Of ConfigEdits: no edit loses a configuration.
BackupsHold == Editor!BackupsHold /\ Editor!EditsAlone /\ Editor!SavedFirst

-----------------------------------------------------------------------------
(* Two configuration files; ids occur twice, in one file and in both.       *)

Thing(x, body, on) == [id |-> <<x>>, body |-> body, on |-> on]
Nothing == [light |-> <<>>, switch |-> <<>>, scripts |-> <<>>, automation |-> <<>>]

MCFiles   == <<"a.yaml", "b.yaml">>
MCInitial ==
    ("a.yaml" :> [light |-> <<Thing(1, 0, FALSE)>>, switch |-> <<Thing(2, 0, FALSE)>>,
                  scripts |-> <<Thing(3, 0, TRUE)>>,
                  automation |-> <<Thing(1, 0, TRUE), Thing(4, 0, FALSE)>>]) @@
    ("b.yaml" :> [Nothing EXCEPT !.automation = <<Thing(4, 1, TRUE)>>])

Ask(op, kind, id) == [op |-> op, kind |-> kind, id |-> id, file |-> ""]

\* Every kind of request; updates that give an item another id, additions and a
\* snippet of the gallery with ids that exist.
MCEdits ==
    {Ask("update", "automation", <<1, 2>>) @@ [item |-> Thing(5, 1, TRUE)],
     Ask("update", "scripts", <<3>>) @@ [item |-> Thing(4, 1, TRUE)],
     [file |-> "a.yaml"] @@ Ask("update", "entity", <<2>>) @@ [item |-> Thing(1, 1, TRUE)],
     Ask("rename", "entity", <<2>>) @@ [body |-> 2],
     Ask("flag", "automation", <<4>>) @@ [on |-> TRUE],
     Ask("delete", "automation", <<1, 2>>),
     Ask("delete", "scripts", <<3>>),
     [file |-> "a.yaml"] @@ Ask("delete", "entity", <<1>>),
     [op |-> "add", file |-> "a.yaml",
      items |-> [Nothing EXCEPT !.light = <<Thing(6, 0, FALSE)>>,
                                !.automation = <<Thing(4, 2, TRUE)>>]],
     [op |-> "add", file |-> "b.yaml",
      items |-> [Nothing EXCEPT !.switch = <<Thing(6, 0, FALSE)>>]],
     [op |-> "gallery", file |-> "a.yaml", resolution |-> "overwrite", chosen |-> <<1>>,
      items |-> [Nothing EXCEPT !.light = <<Thing(7, 1, FALSE)>>,
                                !.automation = <<Thing(4, 2, TRUE)>>]],
     [op |-> "gallery", file |-> "b.yaml", resolution |-> "rename", chosen |-> <<7>>,
      items |-> [Nothing EXCEPT !.automation = <<Thing(4, 2, TRUE)>>]],
     [op |-> "put", file |-> "b.yaml",
      content |-> [Nothing EXCEPT !.automation = <<Thing(8, 0, TRUE)>>]]}

-----------------------------------------------------------------------------
(* Files to load: ids and unique_ids that are missing, given, generated and   *)
(* taken, proxies, buttons, automations under every key.                    *)

entity == [key |-> 1, type |-> "light", hasId |-> TRUE, id |-> <<1>>, name |-> <<>>,
           unique |-> [is |-> "none", of |-> <<>>], always |-> "unset", linked |-> FALSE,
           internal |-> "unset", proxy |-> FALSE, target |-> <<>>, command |-> FALSE]

WithId(k, x)   == [entity EXCEPT !.key = k, !.id = <<x>>]
WithName(k, x) == [entity EXCEPT !.key = k, !.hasId = FALSE, !.id = <<>>, !.name = <<x>>]
Unique(is, x)  == [is |-> is, of |-> <<x>>]

MCEntityLists ==
    {<<WithId(1, 1), WithId(2, 1), [WithId(3, 1) EXCEPT !.id = <<1, 2>>]>>,
     <<[WithId(1, 1) EXCEPT !.unique = Unique("legacy", 1)], WithName(2, 1),
       [WithId(3, 2) EXCEPT !.unique = Unique("port", 1)]>>,
     <<WithId(1, 1), [WithId(2, 1) EXCEPT !.proxy = TRUE, !.target = <<1>>],
       [WithId(3, 3) EXCEPT !.proxy = TRUE, !.target = <<1, 2>>, !.internal = "no"]>>,
     <<[WithId(1, 1) EXCEPT !.unique = Unique("given", 9)],
       [WithId(2, 2) EXCEPT !.unique = Unique("given", 9), !.type = "button"],
       [WithId(3, 1) EXCEPT !.type = "button", !.linked = TRUE]>>,
     <<WithId(1, 1), [WithId(2, 2) EXCEPT !.proxy = TRUE, !.target = <<1>>, !.command = TRUE]>>}

Automated(x, under) ==
    [id |-> <<x>>, under |-> under, wait |-> "alias", scheduled |-> under = "then", low |-> "unset"]

MCWritten ==
    [entities    : MCEntityLists,
     automation  : {<<Automated(1, "then")>>, <<Automated(3, "actions"), Automated(3, "then")>>,
                    <<Automated(1, "both")>>},
     automations : {<<>>, <<Automated(1, "actions")>>}]

MCNewEntities ==
    {WithId(4, 5), [WithName(5, 1) EXCEPT !.type = "button"],
     [WithId(6, 1) EXCEPT !.unique = Unique("given", 9)],
     [WithId(7, 6) EXCEPT !.proxy = TRUE, !.target = <<1>>],
     [WithId(8, 7) EXCEPT !.unique = Unique("legacy", 7), !.type = "button"]}

MCSymmetry ==
    Permutations({c1, c2}) \cup Permutations({r1, r2}) \cup Permutations({p1, p2, p3})
=============================================================================

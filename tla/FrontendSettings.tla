-------------------------- MODULE FrontendSettings --------------------------
(***************************************************************************)
(* The settings of the web UI.  Every page has a copy (App.svelte); the       *)
(* service keeps them in one file (frontend-settings.service.ts,              *)
(* system.routes.ts), with the settings of the log cache, which it also has   *)
(* in memory and which pages change by a request of their own                *)
(* (Settings.svelte, logs.routes.ts).  Settings are abstracted to the editor,   *)
(* which can be chosen while the page still loads, the locale, which can not,  *)
(* and whether the log cache is on.                                        *)
(***************************************************************************)
EXTENDS Integers, FiniteSets

CONSTANTS
    Pages, Locales, Editors,
    MaxChanges, MaxStops      \* bounds: changes by the user, stops of the service

VARIABLES
    file,          \* the settings, Missing or Torn
    up,            \* the service runs
    logRetention,  \* of the LogRetentionService: "on" or "off"
    frontendSettings, settingsLoading,   \* of each page
    put,           \* the request of a page that saves the settings
    cachePut,      \* the request of a page that changes the log cache
    changes, stops,
    saver,         \* history: what was saved last, and by which page that had loaded
    causes         \* history: why the file may not be what was last asked for

vars == <<file, up, logRetention, frontendSettings, settingsLoading, put, cachePut, changes,
          stops, saver, causes>>
pageVars    == <<frontendSettings, settingsLoading>>
serviceVars == <<file, up, logRetention>>
bounds      == <<changes, stops>>

Unset    == "unset"
Given(editor, locale, on) == [editor |-> editor, locale |-> locale, on |-> on]
Missing  == Given("missing", Unset, Unset)
Torn     == Given("torn", Unset, Unset)
Unloaded == Given("unloaded", Unset, Unset)
\* DEFAULT_FRONTEND_SETTINGS of the service and of the page.
Defaults     == Given("monaco", "ko", "on")
PageDefaults == Given(Unset, Unset, Unset)

NoPut   == [stage |-> "none", next |-> Unloaded, previous |-> Unloaded]
NoCache == [stage |-> "none", on |-> Unset, read |-> Unloaded]

\* normalizeFrontendSettings: the locale is dropped.
Normalized(s) ==
    Given(IF s.editor = Unset THEN Defaults.editor ELSE s.editor, Unset,
          IF s.on = Unset THEN Defaults.on ELSE s.on)

Readable == file \notin {Missing, Torn}

\* What a write leaves: another that ended since this one began may be longer.
Overwritten(s) == {s} \cup (IF Readable THEN {Torn} ELSE {})
Causes(s) == causes \cup (IF Readable THEN {"overlap"} ELSE {}) \cup
                 (IF s.on # logRetention THEN {"stale"} ELSE {})

Init ==
    /\ file \in {Missing} \cup {Given(e, Unset, on) : e \in Editors, on \in {"on", "off"}}
    /\ up = FALSE /\ logRetention = "on"
    /\ frontendSettings = [p \in Pages |-> Unloaded]
    /\ settingsLoading = [p \in Pages |-> TRUE]
    /\ put = [p \in Pages |-> NoPut] /\ cachePut = [p \in Pages |-> NoCache]
    /\ changes = 0 /\ stops = 0
    /\ saver = [page |-> Unset, next |-> PageDefaults] /\ causes = {}

-----------------------------------------------------------------------------
(* The service starts and stops.                                           *)

\* server.listen: settings that cannot be read leave the cache as constructed.
Start ==
    /\ ~up
    /\ up' = TRUE
    /\ file' = IF file = Missing THEN Defaults ELSE file
    /\ logRetention' = IF file \in {Missing, Torn} THEN Defaults.on ELSE Normalized(file).on
    /\ UNCHANGED <<pageVars, put, cachePut, bounds, saver, causes>>

\* Every request under way fails; a file being written is cut off.
Stop ==
    /\ up /\ stops < MaxStops
    /\ up' = FALSE /\ stops' = stops + 1
    /\ frontendSettings' = [p \in Pages |-> IF put[p] = NoPut THEN frontendSettings[p]
                                            ELSE put[p].previous]
    /\ put' = [p \in Pages |-> NoPut] /\ cachePut' = [p \in Pages |-> NoCache]
    /\ causes' = IF \A p \in Pages : put[p] = NoPut /\ cachePut[p] = NoCache THEN causes
                 ELSE causes \cup {"stop"}
    /\ UNCHANGED <<file, logRetention, settingsLoading, changes, saver>>

-----------------------------------------------------------------------------
(* A page.                                                                 *)

\* loadFrontendSettings
Loaded(p) ==
    /\ settingsLoading[p]
    /\ settingsLoading' = [settingsLoading EXCEPT ![p] = FALSE]
    /\ frontendSettings' = [frontendSettings EXCEPT ![p] =
                              IF up /\ Readable THEN Normalized(file) ELSE PageDefaults]
    /\ UNCHANGED <<serviceVars, put, cachePut, bounds, saver, causes>>

\* updateEditorSetting, updateLocaleSetting and their like: shown at once.
Update(p, next) ==
    /\ put[p] = NoPut /\ changes < MaxChanges
    /\ changes' = changes + 1
    /\ frontendSettings' = [frontendSettings EXCEPT ![p] = next]
    /\ put' = [put EXCEPT ![p] = [stage |-> "sent", next |-> next,
                                  previous |-> IF frontendSettings[p] = Unloaded THEN PageDefaults
                                               ELSE frontendSettings[p]]]
    /\ UNCHANGED <<serviceVars, settingsLoading, cachePut, stops, saver, causes>>

Previous(p) == IF frontendSettings[p] = Unloaded THEN PageDefaults ELSE frontendSettings[p]
UpdateEditor(p) == \E e \in Editors : Update(p, [Previous(p) EXCEPT !.editor = e])
UpdateLocale(p) == ~settingsLoading[p] /\ \E l \in Locales : Update(p, [Previous(p) EXCEPT !.locale = l])

\* updateCacheSettings: the settings of the page are not told.
UpdateCache(p, on) ==
    /\ cachePut[p] = NoCache /\ changes < MaxChanges
    /\ changes' = changes + 1
    /\ cachePut' = [cachePut EXCEPT ![p] = [NoCache EXCEPT !.stage = "sent", !.on = on]]
    /\ UNCHANGED <<serviceVars, pageVars, put, stops, saver, causes>>

-----------------------------------------------------------------------------
(* PUT /api/frontend-settings                                              *)

\* writeFile begins: the file is cut to nothing.
BeginPut(p) ==
    /\ up /\ put[p].stage = "sent"
    /\ put' = [put EXCEPT ![p].stage = "writing"]
    /\ file' = Torn
    /\ UNCHANGED <<up, logRetention, pageVars, cachePut, bounds, saver, causes>>

EndPut(p) ==
    LET payload == Normalized(put[p].next) IN
    /\ put[p].stage = "writing"
    /\ file' \in Overwritten(payload)
    /\ put' = [put EXCEPT ![p] = NoPut]
    /\ frontendSettings' = [frontendSettings EXCEPT ![p] = payload]
    /\ saver' = [page |-> IF settingsLoading[p] THEN Unset ELSE p, next |-> put[p].next]
    /\ causes' = Causes(payload)
    /\ UNCHANGED <<up, logRetention, settingsLoading, cachePut, bounds>>

\* Variant with a fault: what was shown at once is not taken back.
FailAndKeep(p) ==
    /\ put[p] # NoPut
    /\ put' = [put EXCEPT ![p] = NoPut]
    /\ causes' = IF put[p].stage = "writing" THEN causes \cup {"failed"} ELSE causes
    /\ UNCHANGED <<serviceVars, pageVars, cachePut, bounds, saver>>

\* Refused by the limiter, no service, or the file cannot be written.
FailPut(p) ==
    /\ put[p] # NoPut
    /\ put' = [put EXCEPT ![p] = NoPut]
    /\ frontendSettings' = [frontendSettings EXCEPT ![p] = put[p].previous]
    /\ causes' = IF put[p].stage = "writing" THEN causes \cup {"failed"} ELSE causes
    /\ UNCHANGED <<serviceVars, settingsLoading, cachePut, bounds, saver>>

-----------------------------------------------------------------------------
(* PUT /api/logs/cache/settings                                            *)

\* In memory first.
ChangeCache(p) ==
    /\ up /\ cachePut[p].stage = "sent"
    /\ logRetention' = cachePut[p].on
    /\ cachePut' = [cachePut EXCEPT ![p].stage = "changed"]
    /\ UNCHANGED <<file, up, pageVars, put, bounds, saver, causes>>

ReadForCache(p) ==
    /\ cachePut[p].stage = "changed" /\ Readable
    /\ cachePut' = [cachePut EXCEPT ![p].stage = "read", ![p].read = Normalized(file),
                                    ![p].on = logRetention]
    /\ UNCHANGED <<serviceVars, pageVars, put, bounds, saver, causes>>

BeginCache(p) ==
    /\ cachePut[p].stage = "read"
    /\ cachePut' = [cachePut EXCEPT ![p].stage = "writing"]
    /\ causes' = IF Readable /\ Normalized(file) = cachePut[p].read THEN causes
                 ELSE causes \cup {"overlap"}
    /\ file' = Torn
    /\ UNCHANGED <<up, logRetention, pageVars, put, bounds, saver>>

EndCache(p) ==
    LET payload == [cachePut[p].read EXCEPT !.on = cachePut[p].on] IN
    /\ cachePut[p].stage = "writing"
    /\ file' \in Overwritten(payload)
    /\ cachePut' = [cachePut EXCEPT ![p] = NoCache]
    /\ causes' = Causes(payload)
    /\ UNCHANGED <<up, logRetention, pageVars, put, bounds, saver>>

\* A file that cannot be read or written fails the request; what is in memory
\* stays changed.
FailCache(p) ==
    /\ cachePut[p] # NoCache
    /\ cachePut' = [cachePut EXCEPT ![p] = NoCache]
    /\ causes' = IF cachePut[p].stage = "sent" THEN causes ELSE causes \cup {"failed"}
    /\ UNCHANGED <<serviceVars, pageVars, put, bounds, saver>>

Next ==
    \/ Start \/ Stop
    \/ \E p \in Pages :
         \/ Loaded(p) \/ UpdateEditor(p) \/ UpdateLocale(p)
         \/ \E on \in {"on", "off"} : UpdateCache(p, on)
         \/ BeginPut(p) \/ EndPut(p) \/ FailPut(p)
         \/ ChangeCache(p) \/ ReadForCache(p) \/ BeginCache(p) \/ EndCache(p) \/ FailCache(p)

Spec == Init /\ [][Next]_vars

-----------------------------------------------------------------------------
(* Properties                                                              *)

AtRest == up /\ \A p \in Pages : put[p] = NoPut /\ cachePut[p] = NoCache

(***************************************************************************)
(* The copies of the settings agree: once every request has come back, the    *)
(* file can be read, says of the log cache what the service does, and has the   *)
(* settings of the page that saved last, which shows them; unless writes of    *)
(* the file overlapped, one failed or was cut off, or a page saved a state of   *)
(* the cache it had not been told to be over (logs.routes.ts, App.svelte).    *)
(***************************************************************************)
SettingsAgree ==
    AtRest /\ causes = {} =>
        /\ Readable /\ Normalized(file).on = logRetention
        /\ saver.next.editor \in {Unset, file.editor}
        /\ saver.page # Unset =>
             frontendSettings[saver.page] = [file EXCEPT !.on = frontendSettings[saver.page].on]

\* helpers.ts:168 says of the locale that it "will be set below if valid": the
\* locale of the settings saved last is in the file.
LocaleIsKept ==
    AtRest /\ causes = {} /\ saver.next.locale # Unset => file.locale = saver.next.locale
=============================================================================

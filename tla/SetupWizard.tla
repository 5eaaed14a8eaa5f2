----------------------------- MODULE SetupWizard -----------------------------
(***************************************************************************)
(* The set-up wizard (SetupWizard.svelte) and the service behind it            *)
(* (setup.routes.ts, setup.service.ts): an example is chosen, its serial       *)
(* settings and packet defaults are fetched, the serial line is tested, the    *)
(* entities of the example are ticked, a file is written, consent is asked.    *)
(* Nothing is disabled while an answer is awaited, except by `submitting` and   *)
(* by the test of the serial line.  Packet defaults are abstracted to the      *)
(* example they come from, packets to the form they were received with.        *)
(***************************************************************************)
EXTENDS Integers, Sequences, FiniteSets
LOCAL INSTANCE SequencesExt

CONSTANTS
    Examples, Empty,   \* example files; the choice to begin with an empty one
    Entities,          \* example to its types of entities to their ids
    PortOf,            \* the port id in each example
    Paths, PortIds,    \* what the user may type
    LoadedPorts,       \* [path, port] of the configurations that run
    MaxActs            \* bound: acts of the user

VARIABLES
    mode,              \* "init" or "add"
    marker, asked,     \* .initialized, and whether consent has been asked
    customConfig,      \* CONFIG_FILES is set
    loading, currentStep, error,
    form,              \* [example, path, port, serial], serial as typed for Empty
    exampleRequests,   \* serial settings being fetched: examples
    packetDefaults,    \* the example they are of, or "default"
    hasTested, testPackets,        \* the form the packets came with, or NoForm
    checks,            \* check-duplicate-serial under way: forms
    test,              \* the test under way: its form and who waits
    entityRequests,    \* entities being fetched: sequence of examples
    entities,          \* the example whose entities are listed, or NoExample
    selectedEntities,
    submitting,        \* the request under way: {} or a file to be written
    consentSubmitting,
    written,           \* the files written
    checked,           \* history: the form last found to be no duplicate
    unlike, late,      \* history: the ticks, the defaults may be of another example
    acts

tested   == <<hasTested, testPackets, test>>
defaults == <<exampleRequests, packetDefaults, late>>
ticks    == <<entityRequests, entities, selectedEntities, unlike>>
service  == <<mode, marker, asked, customConfig, written>>
vars == <<loading, currentStep, error, form, defaults, tested, checks, checked, ticks, submitting,
          consentSubmitting, service, acts>>

NoExample == "none"
NoForm    == [example |-> NoExample, path |-> "", port |-> "", serial |-> ""]
NoTest    == [form |-> NoForm, submits |-> FALSE]

\* buildSerialConfigPayload: an example brings its own serial settings.
FormReady(f) == /\ f.example # NoExample /\ f.path # ""
                /\ f.example = Empty => f.port # "" /\ f.serial # "missing"

\* parseSerialConfigPayload asks for more than the wizard.
Accepted(f) == FormReady(f) /\ (f.example = Empty => f.serial = "valid")

Act == acts < MaxActs /\ acts' = acts + 1

Init ==
    /\ mode \in {"init", "add"} /\ marker \in BOOLEAN /\ asked \in BOOLEAN
    /\ customConfig \in BOOLEAN
    /\ mode = "add" => marker /\ asked /\ ~customConfig
    /\ written = {}
    /\ loading = TRUE /\ currentStep = "config" /\ error = FALSE
    /\ form = [NoForm EXCEPT !.port = "main", !.serial = "valid"]
    /\ exampleRequests = {} /\ packetDefaults = "default" /\ late = FALSE
    /\ hasTested = FALSE /\ testPackets = NoForm /\ test = NoTest
    /\ checks = {} /\ checked = NoForm
    /\ entityRequests = <<>> /\ entities = NoExample /\ selectedEntities = <<>> /\ unlike = FALSE
    /\ submitting = {} /\ consentSubmitting = FALSE
    /\ acts = 0

-----------------------------------------------------------------------------
(* The form.                                                               *)

\* The effects of a new form: the result of the test is reset, and the settings
\* of another example are fetched; a fetch before is not aborted.
Changed(f) ==
    /\ form' = IF f.example # form.example /\ f.example = Empty
               THEN [f EXCEPT !.port = "custom_port"] ELSE f
    /\ hasTested' = FALSE /\ testPackets' = NoForm
    /\ IF f.example = form.example THEN UNCHANGED defaults
       ELSE IF f.example = Empty
       THEN packetDefaults' = "default" /\ late' = FALSE /\ UNCHANGED exampleRequests
       ELSE /\ exampleRequests' = exampleRequests \cup {f.example} /\ late' = FALSE
            /\ UNCHANGED packetDefaults

\* loadExamples: who has been through the wizard sees its end.
ExamplesLoaded(ok) ==
    /\ loading
    /\ loading' = FALSE
    /\ error' = ~ok
    /\ IF ok THEN \E e \in Examples : Changed([form EXCEPT !.example = e])
       ELSE UNCHANGED <<form, hasTested, testPackets, defaults>>
    /\ currentStep' = IF ~ok \/ mode = "add" THEN currentStep
                      ELSE IF asked THEN "complete"
                      ELSE IF marker /\ customConfig THEN "consent" ELSE currentStep
    /\ UNCHANGED <<test, checks, checked, ticks, submitting, consentSubmitting, service, acts>>

\* The form is shown, and its fields and buttons can be used.
AtForm == ~loading /\ currentStep = "config" /\ submitting = {}

Type(f) ==
    /\ AtForm /\ Act
    /\ Changed(f)
    /\ UNCHANGED <<loading, currentStep, error, test, checks, checked, ticks, submitting,
                   consentSubmitting, service>>

\* The settings of an example, whichever is chosen by now.
ExampleAnswered(e, ok) ==
    /\ e \in exampleRequests
    /\ exampleRequests' = exampleRequests \ {e}
    /\ packetDefaults' = IF ok THEN e ELSE "default"
    /\ late' = (ok /\ e # form.example)
    /\ IF ok /\ PortOf[e] # form.port
       THEN /\ form' = [form EXCEPT !.port = PortOf[e]]
            /\ hasTested' = FALSE /\ testPackets' = NoForm
       ELSE UNCHANGED <<form, hasTested, testPackets>>
    /\ UNCHANGED <<loading, currentStep, error, test, checks, checked, ticks, submitting,
                   consentSubmitting, service, acts>>

-----------------------------------------------------------------------------
(* The test of the serial line.                                            *)

\* handleSerialTest; the service does one test at a time and refuses another.
StartTest(submits) ==
    /\ hasTested' = TRUE /\ testPackets' = NoForm
    /\ IF test = NoTest THEN test' = [form |-> form, submits |-> submits] /\ UNCHANGED error
       ELSE error' = TRUE /\ UNCHANGED test

Test ==
    /\ AtForm /\ test = NoTest
    /\ FormReady(form) /\ Act
    /\ StartTest(FALSE)
    /\ UNCHANGED <<loading, currentStep, form, defaults, checks, checked, ticks, submitting,
                   consentSubmitting, service>>

\* collectSerialPackets: packets until there are enough or the time is up, none,
\* or an error, or another client's test.  Packets are shown whatever became of
\* the form; a submission goes on when there are any.
TestAnswered(packets) ==
    /\ test # NoTest
    /\ packets => Accepted(test.form)
    /\ test' = NoTest
    /\ testPackets' = IF packets THEN test.form ELSE testPackets
    /\ error' = IF packets THEN (error /\ ~test.submits) ELSE TRUE
    /\ currentStep' = IF packets /\ test.submits THEN "packet_defaults" ELSE currentStep
    /\ UNCHANGED <<loading, form, defaults, hasTested, checks, checked, ticks, submitting,
                   consentSubmitting, service, acts>>

-----------------------------------------------------------------------------
(* The steps.                                                              *)

\* handleConfigSubmit after the check: an untested form is tested first, a form
\* whose test failed goes on.
Proceed ==
    IF hasTested
    THEN currentStep' = "packet_defaults" /\ error' = FALSE /\ UNCHANGED tested
    ELSE StartTest(TRUE) /\ UNCHANGED currentStep

SubmitForm ==
    /\ AtForm /\ test = NoTest
    /\ FormReady(form) /\ Act
    /\ IF mode = "add" THEN checks' = checks \cup {form} /\ UNCHANGED <<currentStep, error, tested>>
       ELSE Proceed /\ UNCHANGED checks
    /\ UNCHANGED <<loading, form, defaults, checked, ticks, submitting, consentSubmitting, service>>

\* checkDuplicateSerial, over the configurations that were loaded at the start.
Duplicate(f) == \E p \in LoadedPorts : p.path = f.path \/ (f.port # "" /\ p.port = f.port)

CheckAnswered(f, ok) ==
    /\ ok => ~Duplicate(f)
    /\ checks' = checks \ {f}
    /\ IF ok THEN checked' = f /\ Proceed
       ELSE error' = TRUE /\ UNCHANGED <<currentStep, tested, checked>>
    /\ UNCHANGED <<loading, form, defaults, ticks, submitting, consentSubmitting, service, acts>>

\* From the packet defaults to the entities of the example.
LoadEntities ==
    /\ currentStep = "packet_defaults" /\ submitting = {} /\ Act
    /\ IF form.example = Empty
       THEN /\ entities' = NoExample /\ selectedEntities' = <<>> /\ unlike' = FALSE
            /\ currentStep' = "entity_selection"
            /\ UNCHANGED entityRequests
       ELSE /\ entityRequests' = Append(entityRequests, form.example)
            /\ UNCHANGED <<entities, selectedEntities, unlike, currentStep>>
    /\ UNCHANGED <<loading, error, form, defaults, tested, checks, checked, submitting,
                   consentSubmitting, service>>

\* Everything is ticked; on an error the ticks stay.
EntitiesAnswered(i, ok) ==
    /\ entityRequests' = RemoveAt(entityRequests, i)
    /\ entities' = IF ok THEN entityRequests[i] ELSE NoExample
    /\ selectedEntities' = IF ok THEN Entities[entityRequests[i]] ELSE selectedEntities
    /\ unlike' = IF ok THEN entityRequests[i] # form.example ELSE selectedEntities # <<>>
    /\ currentStep' = "entity_selection"
    /\ UNCHANGED <<loading, error, form, defaults, tested, checks, checked, submitting,
                   consentSubmitting, service, acts>>

\* toggleType and toggleEntity: the ticks of one type.
Toggle(type, ids) ==
    /\ currentStep = "entity_selection" /\ Act
    /\ selectedEntities[type] # ids
    /\ selectedEntities' = [selectedEntities EXCEPT ![type] = ids]
    /\ UNCHANGED <<loading, currentStep, error, form, defaults, tested, checks, checked,
                   entityRequests, entities, unlike, submitting, consentSubmitting, service>>

Previous ==
    /\ currentStep \in {"packet_defaults", "entity_selection", "consent"}
    /\ submitting = {} /\ ~consentSubmitting /\ Act
    /\ currentStep' = CASE currentStep = "packet_defaults" -> "config"
                        [] currentStep = "entity_selection" -> "packet_defaults"
                        [] currentStep = "consent" -> "entity_selection"
    /\ UNCHANGED <<loading, error, form, defaults, tested, checks, checked, ticks, submitting,
                   consentSubmitting, service>>

-----------------------------------------------------------------------------
(* POST /api/config/examples/select and what follows.                       *)

\* Variant with a fault: a type of entities that is not sent is left out.
FilteredStrictly(e, selected) ==
    LET kept == [t \in DOMAIN Entities[e] |->
                    IF t \in DOMAIN selected THEN Entities[e][t] \cap selected[t] ELSE {}]
    IN [t \in {u \in DOMAIN kept : kept[u] # {}} |-> kept[t]]

\* The entities of an example that are sent; a type without any is left out.
Filtered(e, selected) ==
    LET kept == [t \in DOMAIN Entities[e] |->
                    IF t \in DOMAIN selected THEN Entities[e][t] \cap selected[t] ELSE Entities[e][t]]
    IN [t \in {u \in DOMAIN kept : kept[u] # {}} |-> kept[t]]

\* What the request asks for.
Submit ==
    /\ currentStep = "entity_selection" /\ submitting = {} /\ Act
    /\ submitting' = {[form |-> form, defaults |-> packetDefaults, ticked |-> selectedEntities,
                       unlike |-> unlike, late |-> late \/ exampleRequests # {}]}
    /\ error' = FALSE
    /\ UNCHANGED <<loading, currentStep, form, defaults, tested, checks, checked, ticks,
                   consentSubmitting, service>>

\* In mode add the route looks for duplicates too, but not for an empty file,
\* whose path comes in other fields.
Refused(f) == ~Accepted(f) \/ (mode = "add" /\ f.example # Empty /\ Duplicate(f))

\* applySerialPathToConfig or buildEmptyConfig, then what is left of the entities.
Written(r) ==
    [form |-> r.form, defaults |-> r.defaults, ticked |-> r.ticked, unlike |-> r.unlike, late |-> r.late,
     port |-> IF r.form.port # "" THEN r.form.port ELSE PortOf[r.form.example],
     entities |-> IF r.form.example = Empty THEN <<>> ELSE Filtered(r.form.example, r.ticked)]

\* Written, over the default file or as another one, or refused.
SelectAnswered(r, ok) ==
    /\ ok => ~Refused(r.form)
    /\ submitting' = {}
    /\ error' = ~ok
    /\ written' =
         IF ~ok THEN written
         ELSE (IF mode = "add" THEN written ELSE {}) \cup {Written(r)}
    /\ currentStep' = IF ~ok THEN currentStep ELSE IF mode = "add" THEN "complete" ELSE "consent"
    /\ UNCHANGED <<loading, form, defaults, tested, checks, checked, ticks, consentSubmitting,
                   mode, marker, asked, customConfig, acts>>

\* handleConsent: the wizard is complete whatever the service says.
Consent ==
    /\ currentStep = "consent" /\ ~consentSubmitting /\ Act
    /\ consentSubmitting' = TRUE
    /\ UNCHANGED <<loading, currentStep, error, form, defaults, tested, checks, checked, ticks,
                   submitting, service>>

ConsentAnswered(ok) ==
    /\ consentSubmitting
    /\ consentSubmitting' = FALSE
    /\ currentStep' = "complete"
    /\ marker' = (marker \/ ok) /\ asked' = (asked \/ ok)
    /\ UNCHANGED <<loading, error, form, defaults, tested, checks, checked, ticks, submitting,
                   mode, customConfig, written, acts>>

\* One field at a time; the serial settings only of an empty file.
Edits ==
    {[form EXCEPT !.example = e] : e \in (Examples \cup {Empty}) \ {form.example}}
    \cup {[form EXCEPT !.path = p] : p \in Paths \ {form.path}}
    \cup {[form EXCEPT !.port = p] : p \in PortIds \ {form.port}}
    \cup {[form EXCEPT !.serial = v] :
             v \in IF form.example = Empty THEN {"valid", "out of range", "missing"} \ {form.serial} ELSE {}}

Next ==
    \/ \E f \in Edits : Type(f)
    \/ Test \/ SubmitForm \/ LoadEntities \/ Previous \/ Submit \/ Consent
    \/ \E type \in DOMAIN selectedEntities :
         entities # NoExample /\ \E ids \in SUBSET Entities[entities][type] : Toggle(type, ids)
    \/ \E e \in Examples, ok \in BOOLEAN : ExampleAnswered(e, ok)
    \/ \E f \in checks, ok \in BOOLEAN : CheckAnswered(f, ok)
    \/ \E i \in DOMAIN entityRequests, ok \in BOOLEAN : EntitiesAnswered(i, ok)
    \/ \E r \in submitting, ok \in BOOLEAN : SelectAnswered(r, ok)
    \/ \E ok \in BOOLEAN : ExamplesLoaded(ok) \/ TestAnswered(ok) \/ ConsentAnswered(ok)

Spec == Init /\ [][Next]_vars

-----------------------------------------------------------------------------
(* Properties                                                              *)

(***************************************************************************)
(* A file that the wizard writes is what its pages showed: the entities of    *)
(* the example are the ticked ones, or all when no list of them was shown,     *)
(* and the packet defaults are those of the example or the general ones,      *)
(* except when an answer for another example came late; and a file that is    *)
(* added takes neither the path nor the typed port id of a bridge that runs,   *)
(* an empty one when its form is as it was checked (setup.routes.ts).         *)
(***************************************************************************)
WizardWritesItsChoice ==
    \A w \in written :
        LET e == w.form.example IN
        /\ e # Empty /\ ~w.unlike =>
             \A t \in DOMAIN Entities[e] :
                 (IF t \in DOMAIN w.entities THEN w.entities[t] ELSE {})
                    = IF w.ticked = <<>> THEN Entities[e][t] ELSE w.ticked[t]
        /\ ~w.late => w.defaults \in {e, "default"}
        /\ mode = "add" /\ (e = Empty => checked = w.form) =>
             \A p \in LoadedPorts : p.path # w.form.path /\ (w.form.port # "" => p.port # w.form.port)
=============================================================================

--------------------------- MODULE GalleryPreview ---------------------------
(***************************************************************************)
(* From the preview of a gallery snippet to its application:                 *)
(* GalleryPreviewModal.svelte and the routes /api/gallery/check-conflicts and *)
(* /api/gallery/apply.  The user fills in parameters, the service expands the *)
(* snippet and says what each item resembles, the user decides per item, the  *)
(* service expands the snippet again and writes it.  Meanwhile other clients  *)
(* may edit the configuration.  How a file is written is in ConfigEdits, how   *)
(* a snippet is expanded under the values of its parameters in MCPages.       *)
(***************************************************************************)
EXTENDS Integers, Sequences, Snippets
LOCAL INSTANCE SequencesExt

CONSTANTS
    Snippets,      \* [parameters, lights, automation, requirements, discovered]
    Typed,         \* what the user may type into a parameter
    NewIds,        \* ids the user may type for an item
    Configuration, \* [light, automation] at the start
    Settings,      \* settings of the port: field to value, absent or present
    Others,        \* ids of items other clients may delete, or give to a new light
    MaxTouches, MaxOthers,     \* bounds: inputs of the user, edits by other clients
    ExpandSnippet(_, _, _)     \* of its nodes, parameters and their values: the
                               \* items, or Throws (gallery-template.ts)

VARIABLES
    config,        \* the lists of the configuration
    snippet, inputs, step,
    expansion,     \* the items of the snippet as last expanded
    matches, compatible, forceApply, matchActions, matchTargets, renames,
    before,        \* history: the lists the application found
    touches, others  \* counts towards the bounds

choices == <<matchActions, matchTargets, renames>>
vars == <<config, snippet, inputs, step, expansion, matches, compatible, forceApply, choices,
          before, touches, others>>

NoId == <<>>

\* A list of items that have an id, and one in which no two have the same.
AreItems(list) ==
    /\ list \in Seq({list[i] : i \in DOMAIN list})
    /\ \A i \in DOMAIN list : /\ list[i] = [k \in DOMAIN list[i] |-> list[i][k]]
                             /\ "id" \in DOMAIN list[i] /\ list[i].id # NoId
Apart(list) == \A i, j \in DOMAIN list : list[i].id = list[j].id => i = j

\* Items of one id have one place among the choices, which the last one writes.
LastOf(list, id) ==
    CHOOSE i \in DOMAIN list : list[i].id = id /\ \A j \in i + 1 .. Len(list) : list[j].id # id

-----------------------------------------------------------------------------
(* Parameters in the modal.                                                *)

\* initializeParameterInputs: a number that the discovery found, else the default.
InitialInputs(s) ==
    [name \in {d.name : d \in ToSet(s.parameters)} |->
        IF name \in DOMAIN s.discovered /\ s.discovered[name].is = "integer"
        THEN s.discovered[name]
        ELSE (CHOOSE d \in ToSet(s.parameters) : d.name = name).default]

\* What the parameters of a snippet may be given.
InputsOf(s) ==
    [DOMAIN InitialInputs(s) -> Typed \cup {InitialInputs(s)[name] : name \in DOMAIN InitialInputs(s)}]

\* buildParameterValues: what the modal itself refuses.
ModalRefuses(d, v) ==
    \/ v = None
    \/ d.type = "integer" /\ v.is # "integer"
    \/ d.type = "integer[]" /\ v.is # "list"
    \/ d.type = "object[]" /\ (v.is # "list" \/ \E i \in DOMAIN v.of : v.of[i].is # "object")

-----------------------------------------------------------------------------
(* The service: what the requirements of a vendor say, what items resemble.  *)

\* matchRequirement: one value, one of several, or a range of numbers.
MatchRequirement(expected, actual) ==
    CASE expected.is = "one"   -> actual = expected.value
      [] expected.is = "any"   -> actual \in expected.values
      [] expected.is = "range" -> actual.is = "integer" /\ actual.n \in expected.min .. expected.max

Actual(field) == IF field \in DOMAIN Settings THEN Settings[field] ELSE None

\* The compatibility in check-conflicts: a setting of the serial line that is
\* not there is not compared, one of packet_defaults is.
Compatible(requirements) ==
    \A field \in DOMAIN requirements :
        \/ requirements[field].serial /\ Actual(field) = None
        \/ MatchRequirement(requirements[field].expected, Actual(field))

\* An entity: its own id first, then what is similar enough, else it is new.
Best(entity, list, candidates) ==
    LET high == SelectInSeq(candidates, LAMBDA c : c.similarity >= High)
    IN [id |-> entity.id, candidates |-> candidates,
        matchedId |-> IF entity.id \in Ids(list) THEN entity.id
                      ELSE IF high = 0 THEN NoId ELSE candidates[high].id]

WithOwn(entity, list, found) ==
    IF entity.id \in Ids(list) \ Ids(found)
    THEN <<[id |-> entity.id, similarity |-> Whole]>> \o found
    ELSE [i \in DOMAIN found |->
            IF found[i].id = entity.id THEN [found[i] EXCEPT !.similarity = Whole] ELSE found[i]]

EntityMatch(entity, list) == Best(entity, list, WithOwn(entity, list, Candidates(entity, list)))

\* An automation: its own id or new.
ItemMatch(item, list) ==
    [id |-> item.id, candidates |-> <<>>,
     matchedId |-> IF item.id \in Ids(list) THEN item.id ELSE NoId]

Expansion == ExpandSnippet(snippet.lights, snippet.parameters, inputs)

Matches ==
    [i \in DOMAIN expansion' |-> EntityMatch(expansion'[i], config.light)]
    \o [i \in DOMAIN snippet.automation |-> ItemMatch(snippet.automation[i], config.automation)]

-----------------------------------------------------------------------------
Init ==
    /\ config = Configuration /\ before = Configuration
    /\ snippet \in Snippets
    /\ inputs = InitialInputs(snippet)
    /\ step = "open"
    /\ expansion = <<>> /\ matches = <<>> /\ compatible = TRUE /\ forceApply = FALSE
    /\ matchActions = <<>> /\ matchTargets = <<>> /\ renames = <<>>
    /\ touches = 0 /\ others = 0

Touch == touches < MaxTouches /\ touches' = touches + 1

\* updateParameterInput
Type(name, v) ==
    /\ step = "open" /\ Touch
    /\ inputs' = [inputs EXCEPT ![name] = v]
    /\ UNCHANGED <<config, snippet, step, expansion, matches, compatible, forceApply, choices,
                   before, others>>

\* initializeMatchTargets: an item that resembles nothing is offered the first
\* candidate that no item before it overwrites.
DefaultTargets(all) ==
    LET Used(n) == {all[i].matchedId : i \in 1 .. n - 1}
        Target(n) ==
            LET m == all[n]
                i == SelectInSeq(m.candidates, LAMBDA c : c.id \notin Used(n))
            IN IF m.matchedId # NoId THEN m.matchedId
               ELSE IF m.candidates = <<>> THEN NoId
               ELSE IF i = 0 THEN m.candidates[1].id ELSE m.candidates[i].id
    IN [id \in Ids(all) |-> Target(LastOf(all, id))]

\* confirmAndCheckConflicts and the route it asks.  Either may refuse the
\* parameters.
Check ==
    /\ step = "open"
    /\ \A d \in ToSet(snippet.parameters) : ~ModalRefuses(d, inputs[d.name])
    /\ Expansion # Throws
    /\ expansion' = Expansion.of
    /\ matches' = Matches
    /\ compatible' = Compatible(snippet.requirements)
    /\ matchActions' = [id \in Ids(matches') |->
         IF matches'[LastOf(matches', id)].matchedId = NoId THEN "add" ELSE "overwrite"]
    /\ matchTargets' = DefaultTargets(matches')
    /\ renames' = [id \in Ids(matches') |-> NoId]
    /\ step' = IF matches' = <<>> /\ (compatible' \/ forceApply) THEN "apply" ELSE "choose"
    /\ UNCHANGED <<config, snippet, inputs, forceApply, before, touches, others>>

\* selectOption
SelectOption(m, c) ==
    /\ step = "choose" /\ Touch
    /\ matchActions[m.id] = "overwrite" /\ matchTargets[m.id] # c.id
    /\ matchTargets' = [matchTargets EXCEPT ![m.id] = c.id]
    /\ UNCHANGED <<config, snippet, inputs, step, expansion, matches, compatible, forceApply,
                   matchActions, renames, before, others>>

\* The three buttons of an item.
Decide(m, action) ==
    /\ step = "choose" /\ matchActions[m.id] # action /\ Touch
    /\ action = "overwrite" => m.candidates # <<>> \/ m.matchedId # NoId
    /\ matchActions' = [matchActions EXCEPT ![m.id] = action]
    /\ renames' = IF action = "add" /\ renames[m.id] = NoId
                  THEN [renames EXCEPT ![m.id] = m.id] ELSE renames
    /\ UNCHANGED <<config, snippet, inputs, step, expansion, matches, compatible, forceApply,
                   matchTargets, before, others>>

\* The input for a new id: one that exists is pointed out, and accepted.
TypeId(m, id) ==
    /\ step = "choose" /\ matchActions[m.id] = "add" /\ renames[m.id] # id /\ Touch
    /\ renames' = [renames EXCEPT ![m.id] = id]
    /\ UNCHANGED <<config, snippet, inputs, step, expansion, matches, compatible, forceApply,
                   matchActions, matchTargets, before, others>>

Force ==
    /\ step = "choose" /\ ~compatible
    /\ forceApply' = ~forceApply
    /\ UNCHANGED <<config, snippet, inputs, step, expansion, matches, compatible, choices, before,
                   touches, others>>

\* applyWithResolutions
Confirm ==
    /\ step = "choose" /\ (compatible \/ forceApply)
    /\ step' = "apply"
    /\ UNCHANGED <<config, snippet, inputs, expansion, matches, compatible, forceApply, choices,
                   before, touches, others>>

\* The choices are made anew by the next check, and dropped here.
Reopen ==
    /\ step' = "open"
    /\ expansion' = <<>> /\ matches' = <<>> /\ compatible' = TRUE
    /\ matchActions' = <<>> /\ matchTargets' = <<>> /\ renames' = <<>>

\* cancelConflictModal
Cancel ==
    /\ step = "choose"
    /\ Reopen
    /\ UNCHANGED <<config, snippet, inputs, forceApply, before, touches, others>>

\* buildResolutionPayload: an item to be added is sent without its new id.
Resolution(id) == IF matchActions[id] = "skip" THEN "skip" ELSE "overwrite"
Chosen(id) ==
    IF matchActions[id] # "overwrite" THEN NoId
    ELSE IF matchTargets[id] # NoId THEN matchTargets[id]
    ELSE matches[LastOf(matches, id)].matchedId

\* One item after the other.
Written(list, items, Applied(_, _, _, _)) ==
    LET lists[n \in 0 .. Len(items)] ==
            IF n = 0 THEN list
            ELSE Applied(lists[n - 1], items[n], Resolution(items[n].id), Chosen(items[n].id))
    IN lists[Len(items)]

\* applySnippet and the route it asks, which expands the snippet again; reading
\* or writing the file may fail.
Apply ==
    /\ step = "apply"
    /\ \/ /\ step' = "done"
          /\ before' = config
          /\ config' =
               [light      |-> Written(config.light, expansion, AppliedEntity),
                automation |-> Written(config.automation, snippet.automation, AppliedItem)]
          /\ UNCHANGED <<expansion, matches, compatible, choices>>
       \/ Reopen /\ UNCHANGED <<config, before>>
    /\ UNCHANGED <<snippet, inputs, forceApply, touches, others>>

Without(list, id) ==
    LET i == PlaceOf(list, id)
    IN IF id \in Ids(list) THEN SubSeq(list, 1, i - 1) \o SubSeq(list, i + 1, Len(list)) ELSE list
PlainLight(id) == [is |-> "item", id |-> id, state |-> <<>>, commands |-> <<>>]

\* Another client deletes an item, or adds a light.
OtherEdit(id) ==
    /\ step # "done" /\ others < MaxOthers
    /\ others' = others + 1
    /\ config' = IF id \in Ids(config.light) \cup Ids(config.automation)
                 THEN [l \in DOMAIN config |-> Without(config[l], id)]
                 ELSE [config EXCEPT !.light =
                        Append(@, PlainLight(id))]
    /\ UNCHANGED <<snippet, inputs, step, expansion, matches, compatible, forceApply, choices,
                   before, touches>>

Next ==
    \/ \E name \in DOMAIN inputs, v \in Typed : Type(name, v)
    \/ Check \/ Force \/ Confirm \/ Cancel \/ Apply
    \/ \E n \in DOMAIN matches :
         LET m == matches[n] IN
         \/ \E k \in DOMAIN m.candidates : SelectOption(m, m.candidates[k])
         \/ \E action \in {"overwrite", "skip", "add"} : Decide(m, action)
         \/ \E id \in NewIds : TypeId(m, id)
    \/ \E id \in Others : OtherEdit(id)

Spec == Init /\ [][Next]_vars

-----------------------------------------------------------------------------
(* Properties                                                              *)

Items == [light |-> expansion, automation |-> snippet.automation]

\* The items that are written under an id, by their place among the matches.
Writers(id) ==
    {n \in DOMAIN matches : /\ matchActions[matches[n].id] # "skip"
                            /\ id \in {matches[n].id, Chosen(matches[n].id)}}
Twice(id) == id # NoId /\ \E m, n \in Writers(id) : m # n

(***************************************************************************)
(* An application touches only what the modal showed: an item that no item   *)
(* of the snippet has the id of, or was told to overwrite, is as it was, a    *)
(* skipped item changes none, no id is lost or given twice, and an item    *)
(* that is not skipped is there under its id or the one it overwrites unless  *)
(* another item was written to the same (gallery.routes.ts, apply).          *)
(***************************************************************************)
SnippetIsApplied ==
    step = "done" => \A l \in {"light", "automation"} :
        LET old == before[l]  new == config[l] IN
        /\ Ids(old) \subseteq Ids(new)
        /\ Apart(old) => Apart(new)
        /\ \A i \in DOMAIN old : Writers(old[i].id) = {} => new[i] = old[i]
        /\ \A n \in DOMAIN Items[l] :
             LET item == Items[l][n] IN
             matchActions[item.id] # "skip" =>
                \E id \in {item.id, Chosen(item.id)} :
                    \/ \E i \in DOMAIN new : new[i] = Under(item, id)
                    \/ Twice(id)
=============================================================================

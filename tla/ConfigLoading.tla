---------------------------- MODULE ConfigLoading ----------------------------
(***************************************************************************)
(* What the service makes of a configuration file: normalizeConfig with its  *)
(* ids, unique_ids, defaults and aliases, and validateConfig                 *)
(* (packages/core/src/config/index.ts).  The routes edit what               *)
(* normalizeConfig returned and write it back, so its result is read and     *)
(* normalised again, at the next edit and at the next start.                 *)
(*                                                                         *)
(* An id is a sequence: <<x>>, <<x, 2>> once "_2" is appended, <<>> when it is *)
(* not given or empty.  `key` stands for the item a user means; the program   *)
(* has no such thing.                                                       *)
(***************************************************************************)
EXTENDS Integers, Sequences, FiniteSets
LOCAL INSTANCE SequencesExt

CONSTANTS
    Written,    \* files as users write them
    NewEntities,\* what users enter for an entity
    MaxEdits    \* bound: edits

VARIABLES
    file,       \* the file: entities, automation, automations (the alias)
    memory,     \* currentConfigs, or Refused when it did not load
    known,      \* key to the identity an item first had (history)
    clash,      \* whether a user gave an item an identity another one has (history)
    unsound,    \* whether a user took away what a proxy refers to, or
                \* entered an item that is not valid (history)
    edits

vars == <<file, memory, known, clash, unsound, edits>>

Refused == [refused |-> TRUE]

NoId == <<>>

\* Two of ENTITY_TYPE_KEYS, in their order; `entities` lists the types one after
\* another.
Rank(type) == IF type = "light" THEN 1 ELSE 2

\* Kinds of unique_id: given by the user, "homenet_" with an id, or
\* "homenet_" with the port and an id.
NoUnique == [is |-> "none", of |-> NoId]
Legacy(id) == [is |-> "legacy", of |-> id]
WithPort(id) == [is |-> "port", of |-> id]

-----------------------------------------------------------------------------
(* normalizeConfig                                                          *)

Suffixed(id, n) == IF n = 1 THEN id ELSE Append(id, n)

\* The first of x, x_2, x_3 ... that is not used.
FirstFree(x, used, With(_, _)) ==
    With(x, CHOOSE n \in 1 .. Cardinality(used) + 1 :
                With(x, n) \notin used /\ \A m \in 1 .. n - 1 : With(x, m) \in used)

SuffixedUnique(u, n) == [u EXCEPT !.of = Suffixed(u.of, n)]

\* An entity without an id gets one from its name.
FromName(e) == IF e.hasId THEN e.id ELSE e.name

UniqueOf(e, id) ==
    IF id # NoId /\ e.unique \in {NoUnique, Legacy(id)} THEN WithPort(id) ELSE e.unique

\* discovery_always of a button and internal of a proxy, when they are not given.
Defaults(e) ==
    [e EXCEPT !.always = IF e.type = "button" /\ ~e.linked /\ @ = "unset" THEN "yes" ELSE @,
              !.internal = IF e.proxy /\ @ = "unset" THEN "yes" ELSE @]

\* One entity after those before it.
Entity(acc, e) ==
    LET given  == FromName(e)
        id     == IF given = NoId THEN NoId ELSE FirstFree(given, acc.ids, Suffixed)
        wanted == UniqueOf(e, id)
        unique == IF wanted = NoUnique THEN NoUnique
                  ELSE FirstFree(wanted, acc.uniques, SuffixedUnique)
        item   == [Defaults(e) EXCEPT !.id = id, !.hasId = @ \/ e.name # NoId, !.unique = unique]
    IN [ids |-> acc.ids \cup ({id} \ {NoId}), uniques |-> acc.uniques \cup ({unique} \ {NoUnique}),
        list |-> Append(acc.list, item)]

\* Variant with a fault: an automation keeps the id it was given.
AutomationAsNamed(acc, a) ==
    [ids  |-> acc.ids \cup {a.id},
     list |-> Append(acc.list, [a EXCEPT !.under = IF @ = "actions" THEN "then" ELSE @,
                                         !.wait = IF @ = "alias" THEN "milliseconds" ELSE @,
                                         !.low = IF a.scheduled /\ @ = "unset" THEN "yes" ELSE @])]

\* The aliases of an automation: actions for then, duration or delay for
\* milliseconds; commands of a schedule get low priority.
Automation(acc, a) ==
    LET id == IF a.id = NoId THEN NoId ELSE FirstFree(a.id, acc.ids, Suffixed)
    IN [ids |-> acc.ids \cup ({id} \ {NoId}),
        list |-> Append(acc.list,
                        [a EXCEPT !.id = id, !.under = IF @ = "actions" THEN "then" ELSE @,
                                  !.wait = IF @ = "alias" THEN "milliseconds" ELSE @,
                                  !.low = IF a.scheduled /\ @ = "unset" THEN "yes" ELSE @])]

\* The key automations stays where it is; its items are those of the merged
\* list, so the changes show in both.
Normalise(c) ==
    LET entities == FoldLeft(Entity, [ids |-> {}, uniques |-> {}, list |-> <<>>], c.entities)
        merged   == FoldLeft(Automation, [ids |-> entities.ids, list |-> <<>>],
                             c.automation \o c.automations).list
    IN [entities    |-> entities.list,
        automation  |-> merged,
        automations |-> SubSeq(merged, Len(c.automation) + 1, Len(merged))]

-----------------------------------------------------------------------------
(* validateConfig                                                           *)

ValidEntity(e, entities) ==
    /\ e.id # NoId
    /\ e.proxy => /\ ~e.command
                  /\ \E t \in ToSet(entities) : t.type = e.type /\ t.id = e.target

\* The configuration as it is used, and as it was read.
Valid(c, raw) ==
    /\ \A e \in ToSet(c.entities) : ValidEntity(e, c.entities)
    /\ \A a \in ToSet(raw.automation \o raw.automations) : a.under # "both"

\* loadConfig, loadConfigFile
Loaded(c) == IF Valid(Normalise(c), c) THEN Normalise(c) ELSE Refused

Identity(e) == [id |-> e.id, unique |-> e.unique]
Items(c) == ToSet(c.entities)

Init ==
    /\ file \in Written
    /\ memory = Loaded(file)
    /\ known = IF memory = Refused THEN {}
               ELSE {[key |-> e.key, as |-> Identity(e)] : e \in Items(memory)}
    /\ clash = FALSE
    /\ unsound = FALSE
    /\ edits = 0

\* What an edit leaves: written and kept as it is, without another look at it.
Write(content, clashes, breaks) ==
    /\ edits < MaxEdits
    /\ file' = content
    /\ memory' = content
    /\ clash' = (clash \/ clashes)
    /\ unsound' = (unsound \/ breaks)
    /\ edits' = edits + 1
    /\ UNCHANGED known

IsTarget(id, type, entities) ==
    \E p \in ToSet(entities) : p.proxy /\ p.type = type /\ p.target = id

Clashes(e, entities) ==
    \E o \in ToSet(entities) : FromName(e) = o.id \/ UniqueOf(e, FromName(e)) = o.unique

\* Deletion of an entity.
Delete(i) ==
    LET c == Normalise(file) IN
    /\ memory # Refused /\ i \in DOMAIN c.entities
    /\ Write([c EXCEPT !.entities = RemoveAt(@, i)], FALSE,
             IsTarget(c.entities[i].id, c.entities[i].type, c.entities))

\* The item a user entered takes the place of the old one.
Update(i, e) ==
    LET c    == Normalise(file)
        rest == RemoveAt(c.entities, i)
    IN /\ memory # Refused /\ i \in DOMAIN c.entities
       /\ e.type = c.entities[i].type
       /\ Write([c EXCEPT !.entities[i] = e], Clashes(e, rest),
                \/ IsTarget(c.entities[i].id, e.type, c.entities)
                \/ ~ValidEntity([e EXCEPT !.id = FromName(e)], rest))

AfterType(type, entities) ==
    Cardinality({i \in DOMAIN entities : Rank(entities[i].type) <= Rank(type)}) + 1

\* An id that an entity has is refused; one without an id is not looked at.
Add(e) ==
    LET c == Normalise(file) IN
    /\ memory # Refused
    /\ e.hasId => \A o \in Items(c) : o.id # e.id
    /\ Write([c EXCEPT !.entities = InsertAt(@, AfterType(e.type, @), e)], Clashes(e, c.entities),
             ~ValidEntity([e EXCEPT !.id = FromName(e)], c.entities))

\* The service starts again.
Restart ==
    /\ memory' = Loaded(file)
    /\ UNCHANGED <<file, known, clash, unsound, edits>>

Next ==
    \/ \E i \in 1 .. Len(file.entities) : Delete(i) \/ \E e \in NewEntities : Update(i, e)
    \/ \E e \in NewEntities : Add(e)
    \/ Restart

Spec == Init /\ [][Next]_vars

-----------------------------------------------------------------------------
(* Properties *)

Distinct(list, Field(_)) ==
    \A i, j \in DOMAIN list : Field(list[i]) = Field(list[j]) => i = j \/ Field(list[i]) = NoId

(***************************************************************************)
(* Home Assistant keeps an entity by its unique_id, automations name it by    *)
(* its id: over edits of other entities and restarts it keeps both, unless a  *)
(* user gave another one the same.                                          *)
(***************************************************************************)
IdentityIsStable ==
    ~clash => \A e \in Items(Normalise(file)), k \in known :
                  k.key = e.key => k.as = Identity(e)

(***************************************************************************)
(* What normalizeConfig returns is in its own form: written and read again it *)
(* stays, in a file without the alias automations, and no two items have an   *)
(* id or unique_id.                                                         *)
(***************************************************************************)
NormalFormHolds ==
    LET c == Normalise(file) IN
    /\ Normalise(c).entities = c.entities
    /\ file.automations = <<>> => Normalise(c) = c
    /\ Distinct(c.entities, LAMBDA e : e.id) /\ Distinct(c.automation, LAMBDA a : a.id)
    /\ Distinct(c.entities, LAMBDA e : IF e.unique = NoUnique THEN NoId ELSE <<e.unique>>)
    /\ \A e \in Items(c), a \in ToSet(c.automation) : e.id # a.id \/ a.id = NoId

(***************************************************************************)
(* A file that the service writes loads at the next start, unless the user    *)
(* took away the target of a proxy or entered what is not valid: the routes   *)
(* do not call validateConfig.                                              *)
(***************************************************************************)
WrittenLoads == edits > 0 /\ ~unsound /\ ~clash => Loaded(file) # Refused
=============================================================================

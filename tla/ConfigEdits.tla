---------------------------- MODULE ConfigEdits ----------------------------
(***************************************************************************)
(* Edits of the configuration files while the service runs: the routes that *)
(* update, add, rename, flag and delete entities, automations and scripts   *)
(* (config.routes.ts, entities.routes.ts, controls.routes.ts), that apply a *)
(* snippet of the gallery (gallery.routes.ts) and that replace a whole file *)
(* (config-editor.routes.ts).  Each reads the file, repairs its ids          *)
(* (normalizeConfig), saves a backup, edits what it read, writes it, and     *)
(* tells the running service.  Every `await` ends a step, nothing orders the *)
(* requests, a file operation may fail, the service may restart anywhere.   *)
(*                                                                         *)
(* An item is an entity, script or automation: an id, a body and a flag      *)
(* (`enabled`, for entities `discovery_always`).  An id is a sequence: <<x>>, *)
(* or <<x, 2>> once normalizeConfig appended "_2".                          *)
(***************************************************************************)
EXTENDS Integers, Sequences, Snippets
LOCAL INSTANCE SequencesExt

CONSTANTS
    Files,      \* the configuration files, in their order
    Initial,    \* the content of each file at the start
    Requests,   \* what the clients ask for
    Slots,      \* requests that may be in progress together
    MaxEdits    \* bound: requests ever made

VARIABLES
    disk,       \* file to content, or Torn
    memory,     \* currentConfigs and currentRawConfigs; Torn: did not load
    running,    \* what each file's bridge runs: automations and scripts by id
    backups,    \* contents saved by saveBackup
    edit,       \* the requests in progress
    made,       \* requests so far
    last,       \* the content each file last had in full (history)
    excused     \* what happened to each file since the start (history)

vars == <<disk, memory, running, backups, edit, made, last, excused>>

EntityTypes == {"light", "switch"}                \* ENTITY_TYPE_KEYS, in this order
Lists       == EntityTypes \cup {"scripts", "automation"}
FileSet     == ToSet(Files)

\* A file that was truncated and not written: it does not parse.
Torn == [torn |-> TRUE]
Idle == [at |-> "idle"]

-----------------------------------------------------------------------------
(* Contents and ids.                                                       *)

\* A body is a number.
Entry   == [id : Seq(Nat), body : Nat, on : BOOLEAN]
Content == [Lists -> Seq(Entry)]

\* The list an id is found in, in the order the routes look; "" for none.
ListWith(content, kind, id) ==
    LET Has(l) == content # Torn /\ id \in Ids(content[l])
    IN IF kind # "entity" THEN IF Has(kind) THEN kind ELSE ""
       ELSE IF Has("light") THEN "light" ELSE IF Has("switch") THEN "switch" ELSE ""

\* The first of id, id_2, id_3 ... that is none of the ids before.
FreeId(id, before) ==
    LET taken(x) == \E m \in DOMAIN before : before[m] = x
    IN IF ~taken(id) THEN id
       ELSE Append(id, CHOOSE n \in 2 .. Len(before) + 2 :
                ~taken(Append(id, n)) /\ \A m \in 2 .. n - 1 : taken(Append(id, m)))

\* The items in the order of normalizeConfig, and how many are before a list.
AllItems(content) == content.light \o content.switch \o content.scripts \o content.automation
Before(content, l) ==
    CASE l = "light"      -> 0
      [] l = "switch"     -> Len(content.light)
      [] l = "scripts"    -> Len(content.light \o content.switch)
      [] l = "automation" -> Len(content.light \o content.switch \o content.scripts)

\* The ids of items: one that an item before has is changed.
FreeIds(items) ==
    LET ids[n \in 0 .. Len(items)] ==
            IF n = 0 THEN <<>> ELSE Append(ids[n - 1], FreeId(items[n].id, ids[n - 1]))
    IN ids[Len(items)]

\* normalizeConfig: entities, scripts and automations share one space of ids.
Normalise(content) ==
    LET ids == FreeIds(AllItems(content))
    IN [l \in Lists |-> [i \in DOMAIN content[l] |->
            [content[l][i] EXCEPT !.id = ids[Before(content, l) + i]]]]

\* What a bridge started with the content runs.
Members(list)    == {list[i] : i \in DOMAIN list}
Enabled(content) == IF content = Torn THEN [automation |-> {}, scripts |-> {}]
                    ELSE [automation |-> {a \in Members(content.automation) : a.on},
                          scripts    |-> Members(content.scripts)]

\* What the service knows of a content it starts with.
Loaded(content) == IF content = Torn THEN Torn ELSE Normalise(content)

-----------------------------------------------------------------------------
(* The edits: what a request makes of a content, Torn when it refuses.      *)

\* The item of a request replaced by others.
Replace(content, r, items) ==
    LET l == ListWith(content, r.kind, r.id)
    IN IF l = "" THEN Torn
       ELSE LET i == PlaceOf(content[l], r.id)
            IN [content EXCEPT ![l] = SubSeq(@, 1, i - 1) \o items \o SubSeq(@, i + 1, Len(@))]

Item(content, r) ==
    LET list == content[ListWith(content, r.kind, r.id)] IN list[PlaceOf(list, r.id)]

\* /api/config/update: the item as it was sent, whose id may be another one.
Updated(content, r) == Replace(content, r, <<r.item>>)

\* /api/entities/rename
Renamed(content, r) ==
    IF ListWith(content, r.kind, r.id) = "" THEN Torn
    ELSE Replace(content, r, <<[Item(content, r) EXCEPT !.body = r.body]>>)

\* /api/automations/:id/enabled and /api/entities/:id/discovery-always
Flagged(content, r) ==
    IF ListWith(content, r.kind, r.id) = "" THEN Torn
    ELSE Replace(content, r, <<[Item(content, r) EXCEPT !.on = r.on]>>)

\* DELETE of an entity, automation or script.
Deleted(content, r) == Replace(content, r, <<>>)

\* /api/config/add: an id the list has, for an entity one that any entity has,
\* refuses the whole request.
Added(content, r) ==
    LET Taken(l, id) ==
            \/ id \in Ids(content[l])
            \/ l \in EntityTypes /\ ListWith(content, "entity", id) # ""
            \/ l = "switch" /\ id \in Ids(r.items["light"])     \* just added
    IN IF \E l \in Lists : \E id \in Ids(r.items[l]) : Taken(l, id) THEN Torn
       ELSE [l \in Lists |-> content[l] \o r.items[l]]

\* /api/gallery/apply: item after item.
AppliedItems(l, list, items, r) ==
    LET lists[n \in 0 .. Len(items)] ==
            IF n = 0 THEN list
            ELSE IF l \in EntityTypes
                 THEN AppliedEntity(lists[n - 1], items[n], r.resolution, r.chosen)
                 ELSE AppliedItem(lists[n - 1], items[n], r.resolution, r.chosen)
    IN lists[Len(items)]

Applied(content, r) == [l \in Lists |-> AppliedItems(l, content[l], r.items[l], r)]

Edited(content, r) ==
    CASE r.op = "update"  -> Updated(content, r)
      [] r.op = "rename"  -> Renamed(content, r)
      [] r.op = "flag"    -> Flagged(content, r)
      [] r.op = "delete"  -> Deleted(content, r)
      [] r.op = "add"     -> Added(content, r)
      [] r.op = "gallery" -> Applied(content, r)
      [] r.op = "put"     -> r.content

\* What the routes take from a request.
IsRequest(r) ==
    /\ r.op \in {"update", "rename", "flag", "delete"} =>
           r.kind \in {"entity", "scripts", "automation"} /\ r.id \in Seq(Nat)
    /\ CASE r.op = "update"  -> r.item \in Entry
         [] r.op = "rename"  -> r.kind = "entity" /\ r.body \in Nat
         [] r.op = "flag"    -> r.kind \in {"entity", "automation"} /\ r.on \in BOOLEAN
         [] r.op = "add"     -> r.items \in Content
         [] r.op = "gallery" -> /\ r.items \in Content /\ r.chosen \in Seq(Nat)
                                /\ r.resolution \in {"skip", "rename", "overwrite"}
         [] r.op = "put"     -> r.content \in Content
         [] OTHER            -> r.op = "delete"

\* Whether the item is looked for before the backup is made.
RefusesEarly(r) == r.op \in {"rename", "flag"} \/ (r.op = "delete" /\ r.kind # "entity")

-----------------------------------------------------------------------------
(* What the bridge is told once the file is written.                        *)

Without(items, id)   == {x \in items : x.id # id}
Upserted(items, new) == Without(items, new.id) \cup {new}

\* Variant with a fault: an update leaves what ran under the old id.
TellUpdateKeepingOld(run, r) ==
    CASE r.kind = "automation" -> [run EXCEPT !.automation = IF r.item.on THEN Upserted(@, r.item)
                                                            ELSE Without(@, r.item.id)]
      [] r.kind = "scripts" -> [run EXCEPT !.scripts = Upserted(@, r.item)]
      [] r.kind = "entity" -> run

TellUpdate(run, r) ==
    CASE r.kind = "automation" ->
           LET rest == Without(run.automation, r.id)
           IN [run EXCEPT !.automation = IF r.item.on THEN Upserted(rest, r.item)
                                         ELSE Without(rest, r.item.id)]
      [] r.kind = "scripts" -> [run EXCEPT !.scripts = Upserted(Without(@, r.id), r.item)]
      [] r.kind = "entity" -> run

\* The toggle hands over the automation it found in the file.
TellFlag(run, r, content) ==
    IF r.kind # "automation" THEN run
    ELSE [run EXCEPT !.automation = IF r.on THEN Upserted(@, Item(content, r))
                                    ELSE Without(@, r.id)]

TellDelete(run, r) ==
    CASE r.kind = "automation" -> [run EXCEPT !.automation = Without(@, r.id)]
      [] r.kind = "scripts"    -> [run EXCEPT !.scripts = Without(@, r.id)]
      [] r.kind = "entity"     -> run

\* What was added or applied waits for a restart; the new name of an entity goes
\* to its discovery (EntityDiscovery).
Told(run, r, content) ==
    CASE r.op = "update" -> TellUpdate(run, r)
      [] r.op = "flag"   -> TellFlag(run, r, content)
      [] r.op = "delete" -> TellDelete(run, r)
      [] OTHER           -> run

-----------------------------------------------------------------------------
StartWith(content) ==
    /\ memory = [f \in FileSet |-> Loaded(content[f])]
    /\ running = [f \in FileSet |-> Enabled(Loaded(content[f]))]

Init ==
    /\ disk = Initial
    /\ StartWith(Initial)
    /\ backups = {}
    /\ edit = [s \in Slots |-> Idle]
    /\ made = 0
    /\ last = Initial
    /\ excused = [f \in FileSet |-> {}]

Excuse(f, why) == excused' = [excused EXCEPT ![f] = @ \cup why]

\* findConfigIndex...: the port names the file, or the first file that has the
\* id in memory.
FileOf(r) ==
    LET i == SelectInSeq(Files, LAMBDA f : IF r.file # "" THEN f = r.file
                                           ELSE ListWith(memory[f], r.kind, r.id) # "")
    IN IF i = 0 THEN "" ELSE Files[i]

\* A request arrives.  The editor of whole files does not need a loaded one.
Begin(s, r) ==
    LET f == FileOf(r) IN
    /\ edit[s] = Idle /\ made < MaxEdits
    /\ f \in FileSet /\ (memory[f] # Torn \/ r.op = "put")
    /\ edit' = [edit EXCEPT ![s] = [at |-> "read", r |-> r, f |-> f]]
    /\ made' = made + 1
    /\ Excuse(f, IF \E t \in Slots \ {s} : edit[t] # Idle /\ edit[t].f = f THEN {"overlap"} ELSE {})
    /\ UNCHANGED <<disk, memory, running, backups, last>>

Leave(s)     == edit' = [edit EXCEPT ![s] = Idle]
Go(s, step)  == edit' = [edit EXCEPT ![s] = step]

\* The editor goes on without a backup, the other routes answer with an error.
Fail(s) ==
    LET e == edit[s]
    IN IF e.r.op = "put"
       THEN /\ Go(s, [at |-> "write", r |-> e.r, f |-> e.f, new |-> e.r.content])
            /\ Excuse(e.f, {"unsaved"})
       ELSE Leave(s) /\ UNCHANGED excused

Read(s) ==
    /\ edit[s].at = "read"
    /\ \/ Fail(s)
       \/ LET e == edit[s]
              content == IF e.r.op = "put" THEN disk[e.f] ELSE Loaded(disk[e.f])
          IN /\ content # Torn
             /\ UNCHANGED excused
             /\ IF RefusesEarly(e.r) /\ Edited(content, e.r) = Torn THEN Leave(s)
                ELSE Go(s, [at |-> "backup", r |-> e.r, f |-> e.f, old |-> content])
    /\ UNCHANGED <<disk, memory, running, backups, made, last>>

\* Variant with a fault: an edit goes on when its backup could not be written.
BackupOrNot(s) ==
    /\ edit[s].at = "backup"
    /\ LET e == edit[s]
           new == Edited(e.old, e.r)
       IN /\ \/ UNCHANGED backups
             \/ backups' = backups \cup {e.old}
          /\ IF new = Torn THEN Leave(s)
             ELSE Go(s, [at |-> "write", r |-> e.r, f |-> e.f, new |-> new])
    /\ UNCHANGED <<disk, memory, running, made, last, excused>>

Backup(s) ==
    /\ edit[s].at = "backup"
    /\ \/ Fail(s) /\ UNCHANGED backups
       \/ LET e == edit[s]
              new == Edited(e.old, e.r)
          IN /\ backups' = backups \cup {e.old}
             /\ UNCHANGED excused
             /\ IF new = Torn THEN Leave(s)
                ELSE Go(s, [at |-> "write", r |-> e.r, f |-> e.f, new |-> new])
    /\ UNCHANGED <<disk, memory, running, made, last>>

\* writeFile opens the file, which empties it, ...
Open(s) ==
    /\ edit[s].at = "write"
    /\ \/ Leave(s) /\ UNCHANGED disk
       \/ /\ disk' = [disk EXCEPT ![edit[s].f] = Torn]
          /\ edit' = [edit EXCEPT ![s].at = "land"]
    /\ UNCHANGED <<memory, running, backups, made, last, excused>>

\* ... and writes it.  Over what another write put there in the meantime the
\* end of the longer one may stay.
Land(s) ==
    /\ edit[s].at = "land"
    /\ LET e == edit[s]
       IN \/ Leave(s) /\ UNCHANGED <<disk, last, excused>>
          \/ \E content \in {e.new} \cup (IF disk[e.f] = Torn THEN {} ELSE {Torn}) :
                /\ disk' = [disk EXCEPT ![e.f] = content]
                /\ last' = [last EXCEPT ![e.f] = e.new]
                /\ excused' = [excused EXCEPT ![e.f] =
                        (@ \ {"unsaved"}) \cup (IF Normalise(e.new) = e.new THEN {} ELSE {"ambiguous"})]
                /\ edit' = [edit EXCEPT ![s].at = "tell"]
    /\ UNCHANGED <<memory, running, backups, made>>

\* The rest of the handler: memory, the bridge, the answer.
Finish(s) ==
    /\ edit[s].at = "tell"
    /\ LET e == edit[s]
       IN IF e.r.op = "put" THEN UNCHANGED <<memory, running>>
          ELSE /\ memory' = [memory EXCEPT ![e.f] = e.new]
               /\ running' = [running EXCEPT ![e.f] = Told(@, e.r, e.new)]
    /\ Excuse(edit[s].f, IF edit[s].r.op \in {"put", "add", "gallery"} THEN {"restart"} ELSE {})
    /\ Leave(s)
    /\ UNCHANGED <<disk, backups, made, last>>

\* The service stops, by itself or because it was asked to, and starts again.
Restart ==
    /\ memory' = [f \in FileSet |-> Loaded(disk[f])]
    /\ running' = [f \in FileSet |-> Enabled(Loaded(disk[f]))]
    /\ edit' = [s \in Slots |-> Idle]
    /\ excused' = [f \in FileSet |-> IF disk[f] = last[f] THEN {}
                                      ELSE excused[f] \cap {"unsaved", "overlap"}]
    /\ UNCHANGED <<disk, backups, made, last>>

Next ==
    \/ \E s \in Slots :
         \/ \E r \in Requests : Begin(s, r)
         \/ Read(s) \/ Backup(s) \/ Open(s) \/ Land(s) \/ Finish(s)
    \/ Restart

Spec == Init /\ [][Next]_vars

-----------------------------------------------------------------------------
(* Properties                                                              *)

Resting(f) == \A s \in Slots : edit[s] = Idle \/ edit[s].f # f \/ edit[s].at \in {"read", "backup", "write"}

(***************************************************************************)
(* What a client sees is what is on the disk and what runs: between edits    *)
(* the memory is the file and the bridge runs its enabled automations and    *)
(* its scripts, unless a restart is due, two edits of the file overlapped, or *)
(* an edit gave an id twice (the routes of config.routes.ts, controls.routes.ts). *)
(***************************************************************************)
EditsAgree ==
    \A f \in FileSet :
        Resting(f) /\ disk[f] # Torn /\ excused[f] \subseteq {"unsaved"} =>
            /\ memory[f] = Normalise(disk[f])
            /\ running[f] = Enabled(memory[f])

(***************************************************************************)
(* No edit loses a configuration: whatever fails, and wherever the service   *)
(* stops, the last content of a file is on the disk or in a backup, unless    *)
(* edits of the file overlapped or the editor wrote without a backup         *)
(* (saveBackup before writeFile in every route).                            *)
(***************************************************************************)
BackupsHold ==
    \A f \in FileSet :
        excused[f] \cap {"overlap", "unsaved"} = {} =>
            \/ disk[f] = last[f]
            \/ {last[f], Normalise(last[f])} \cap backups # {}

-----------------------------------------------------------------------------
(* What makes this inductive                                               *)

EditsOf(f) == {s \in Slots : edit[s] # Idle /\ edit[s].f = f}

\* Unless it was noted, a file has one edit at a time; this one read what is
\* there, and a file it has emptied is still empty.
EditsAlone ==
    \A f \in FileSet : "overlap" \notin excused[f] =>
        /\ \A s, t \in EditsOf(f) : s = t
        /\ \A s \in EditsOf(f) :
             /\ edit[s].at = "backup" => edit[s].old \in {disk[f], Normalise(disk[f])}
             /\ edit[s].at = "land" => disk[f] = Torn

\* Who is about to write a file has saved it, but for the editor of whole files.
SavedFirst ==
    \A f \in FileSet : excused[f] \cap {"overlap", "unsaved"} = {} =>
        \A s \in EditsOf(f) : edit[s].at \in {"write", "land"} =>
            {last[f], Normalise(last[f])} \cap backups # {}

\* Until something excuses it, the edit of a file goes on from what is in memory,
\* which is what the file holds until it is emptied, and writes what it notes.
EditsInTime ==
    \A f \in FileSet : excused[f] \subseteq {"unsaved"} =>
        \A s \in EditsOf(f) :
            LET e == edit[s]
            IN e.r.op # "put" =>
                /\ e.at \in {"backup", "write"} => disk[f] # Torn
                /\ e.at = "backup" => e.old = memory[f]
                /\ e.at \in {"write", "land", "tell"} =>
                      /\ e.new = Edited(memory[f], e.r)
                      /\ memory[f] # Torn /\ running[f] = Enabled(memory[f])
                /\ e.at = "tell" => disk[f] = e.new /\ Normalise(e.new) = e.new
=============================================================================

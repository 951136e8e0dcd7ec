------------------------------ MODULE Project -------------------------------
(***************************************************************************)
(* The desktop application's multi-APK project: project.rs and the         *)
(* commands of commands.rs that change it, with project.json, the cache of *)
(* extracted APKs, commands that run concurrently, crashes and restarts.   *)
(*                                                                         *)
(* A file is its content, and a content is its SHA-256: Hashes.  Slots     *)
(* keep the fields the commands decide on; names, manifests and parsed     *)
(* code are left out.  The slot list is a set: where the code takes the    *)
(* first of several slots, the model takes any of them.                    *)
(***************************************************************************)
EXTENDS FiniteSets, Naturals

CONSTANTS
    Hashes,       \* contents of whole, loadable files
    Embeds,       \* [Hashes -> SUBSET Hashes], the APKs inside a file
    ApkPaths,     \* files of the user that are loaded as APKs
    SplitPaths,   \* and those that are attached as splits
    CachePath,    \* [Hashes -> file of <cache>/extracted named after the hash]
    Marks,        \* (class, method) pairs the user marks
    Tasks,        \* commands in flight at the same time
    Missing,      \* no file
    Partial,      \* a file whose writing was cut short
    NoId,         \* Option::None
    NoProject,    \* project.json absent or unreadable
    Changing      \* files of the user that others rewrite while the program runs

UserPaths == ApkPaths \cup SplitPaths
CachePaths == {CachePath[h] : h \in Hashes}
Paths == UserPaths \cup CachePaths

ASSUME ProjectConstantsOK ==
    /\ Embeds \in [Hashes -> SUBSET Hashes]
    /\ DOMAIN CachePath = Hashes
    /\ \A g, h \in Hashes : CachePath[g] = CachePath[h] => g = h
    /\ ApkPaths \cap SplitPaths = {}
    /\ UserPaths \cap CachePaths = {}
    /\ NoId \notin Hashes
    /\ {Missing, Partial} \cap Hashes = {}
    /\ Missing # Partial
    /\ Changing \subseteq UserPaths

VARIABLES
    disk,         \* Paths -> content
    slots,        \* Project::slots
    active,       \* active_slot_id
    compare,      \* compare_slot_id
    json,         \* project.json
    saving,       \* Project::save under the write lock: "no", "begin", "torn"
    task,         \* what each command that is between two phases holds
    unsaved       \* (history) the latest save failed

memVars == <<slots, active, compare>>
vars == <<disk, memVars, json, saving, task, unsaved>>

-----------------------------------------------------------------------------
Slot == [id : Hashes, sha : Hashes, base : Paths, splits : SUBSET SplitPaths,
         cached : BOOLEAN, marks : SUBSET Marks]

\* What project.json holds once a save has filled it.
SavedProject ==
    [slots : SUBSET Slot, active : Hashes \cup {NoId}, compare : Hashes \cup {NoId}]

ASSUME NoProjectSaved == NoProject \notin SavedProject

Ids(S) == {s.id : s \in S}

Exists(p) == disk[p] # Missing

\* Whether load_slot_from_disk succeeds, and the fresh slot it then builds: the
\* hash is recomputed, and the marks are empty.
Whole(p) == disk[p] \in Hashes
Loadable(base, splits) == Whole(base) /\ \A p \in splits : Whole(p)

FreshSlot(id, base, splits, cached) ==
    [id |-> id, sha |-> disk[base], base |-> base, splits |-> splits,
     cached |-> cached, marks |-> {}]

Idle == [phase |-> "idle"]

\* The RwLock around the project: a save holds it for writing, an extraction
\* for reading.
WriteLockFreeForReaders == saving = "no"                    \* mutant of WriteLockFree
WriteLockFree == saving = "no" /\ \A t \in Tasks : task[t].phase # "extracting"
ReadLockFree == saving = "no"

\* Change the project in memory, then save it.
Commit(newSlots, newActive, newCompare) ==
    /\ slots' = newSlots
    /\ active' = newActive
    /\ compare' = newCompare
    /\ saving' = "begin"

Init ==
    /\ disk \in [Paths -> Hashes \cup {Missing}]
    /\ \A p \in CachePaths : disk[p] = Missing
    /\ slots = {}
    /\ active = NoId
    /\ compare = NoId
    /\ json = NoProject
    /\ saving = "no"
    /\ task = [t \in Tasks |-> Idle]
    /\ unsaved = FALSE

-----------------------------------------------------------------------------
\* Project::save: fs::write truncates project.json, then fills it.

SaveTruncates ==
    /\ saving = "begin"
    /\ saving' = "torn"
    /\ json' = NoProject
    /\ UNCHANGED <<disk, memVars, task, unsaved>>

SaveEnds ==
    /\ saving = "torn"
    /\ saving' = "no"
    /\ json' = [slots |-> slots, active |-> active, compare |-> compare]
    /\ unsaved' = FALSE
    /\ UNCHANGED <<disk, memVars, task>>

\* The command answers with an error, the memory keeps the change.
SaveFails ==
    /\ saving # "no"
    /\ saving' = "no"
    /\ unsaved' = TRUE
    /\ UNCHANGED <<disk, memVars, json, task>>

-----------------------------------------------------------------------------
\* load_file, load_file_b and project_add_apk parse without the lock, ...

LoadParses(t, p, focus, cached) ==
    /\ task[t] = Idle
    /\ Loadable(p, {})
    /\ task' = [task EXCEPT ![t] =
                   [phase |-> "parsed", focus |-> focus,
                    slot |-> FreshSlot(disk[p], p, {}, cached)]]
    /\ UNCHANGED <<disk, memVars, json, saving, unsaved>>

LoadFile(t) == \E p \in ApkPaths : LoadParses(t, p, "active", FALSE)
LoadFileB(t) == \E p \in ApkPaths : LoadParses(t, p, "compare", FALSE)
AddApk(t) == \E p \in ApkPaths \cup CachePaths : LoadParses(t, p, "active", p \in CachePaths)

\* Mutant of Upserted: slots are matched by path.
UpsertedByPath(slot, id) ==
    IF \E old \in slots : old.base = slot.base
    THEN \E old \in slots :
            /\ old.base = slot.base
            /\ id = old.id
            /\ slots' = (slots \ {old}) \cup {[slot EXCEPT !.id = old.id]}
    ELSE id = slot.id /\ slots' = slots \cup {slot}

\* ... then insert under it.  Project::upsert replaces a slot with the same
\* hash whole, but for its id.
Upserted(slot, id) ==
    IF \E old \in slots : old.sha = slot.sha
    THEN \E old \in slots :
            /\ old.sha = slot.sha
            /\ id = old.id
            /\ slots' = (slots \ {old}) \cup {[slot EXCEPT !.id = old.id]}
    ELSE id = slot.id /\ slots' = slots \cup {slot}

LoadInserts(t) ==
    /\ task[t].phase = "parsed"
    /\ WriteLockFree
    /\ \E id \in Hashes :
          /\ Upserted(task[t].slot, id)
          /\ active' = IF task[t].focus = "active" THEN id ELSE active
          /\ compare' = IF task[t].focus = "compare" THEN id ELSE compare
    /\ saving' = "begin"
    /\ task' = [task EXCEPT ![t] = Idle]
    /\ UNCHANGED <<disk, json, unsaved>>

\* project_load_embedded and its nested variant, phase 1: find the parent and
\* extract the entry.  cache_bytes keeps a file that is already there, whatever
\* it holds, and otherwise creates it, then fills it.
ExtractBegins(t, s, h, focus) ==
    /\ task[t] = Idle
    /\ ReadLockFree
    /\ s \in slots
    /\ \E p \in {s.base} \cup s.splits : Whole(p) /\ h \in Embeds[disk[p]]
    /\ IF Exists(CachePath[h])
       THEN /\ task' = [task EXCEPT ![t] =
                  [phase |-> "extracted", hash |-> h, focus |-> focus]]
            /\ UNCHANGED disk
       ELSE /\ task' = [task EXCEPT ![t] =
                  [phase |-> "extracting", hash |-> h, focus |-> focus]]
            /\ disk' = [disk EXCEPT ![CachePath[h]] = Partial]
    /\ UNCHANGED <<memVars, json, saving, unsaved>>

ExtractEnds(t) ==
    /\ task[t].phase = "extracting"
    /\ disk' = [disk EXCEPT ![CachePath[task[t].hash]] = task[t].hash]
    /\ task' = [task EXCEPT ![t].phase = "extracted"]
    /\ UNCHANGED <<memVars, json, saving, unsaved>>

\* Phase 2, without a lock: parse the cached file.  Phase 3 is LoadInserts.
ExtractParses(t) ==
    LET p == CachePath[task[t].hash] IN
    /\ task[t].phase = "extracted"
    /\ task' = [task EXCEPT ![t] =
                  IF Loadable(p, {})
                  THEN [phase |-> "parsed", focus |-> task[t].focus,
                        slot |-> FreshSlot(disk[p], p, {}, TRUE)]
                  ELSE Idle]
    /\ UNCHANGED <<disk, memVars, json, saving, unsaved>>

-----------------------------------------------------------------------------
\* Commands that hold the write lock from beginning to end.  Each answers with
\* an error, and changes nothing, when its guard does not hold.

\* project_add_split and project_force_reload_slot rebuild a slot under its id.
Rebuild(s, splits) ==
    /\ WriteLockFree
    /\ s \in slots
    /\ Loadable(s.base, splits)
    /\ Commit((slots \ {s}) \cup {FreshSlot(s.id, s.base, splits, s.cached)},
              active, compare)
    /\ UNCHANGED <<disk, json, task, unsaved>>

AddSplit(s, p) == Rebuild(s, s.splits \cup {p})
ForceReload(s) == Rebuild(s, s.splits)

\* Project::remove of the ids in R: each takes every slot with that id along,
\* the active slot falls back to the first one left.
Removed(R) == {s \in slots : s.id \notin R}

\* Mutant of RemoveIds: the compare slot is not cleared.
RemoveIdsKeepsCompare(R) ==
    /\ slots' = Removed(R)
    /\ IF active \in R
       THEN active' \in IF Removed(R) = {} THEN {NoId} ELSE Ids(Removed(R))
       ELSE UNCHANGED active
    /\ UNCHANGED compare

RemoveIds(R) ==
    /\ slots' = Removed(R)
    /\ IF active \in R
       THEN active' \in IF Removed(R) = {} THEN {NoId} ELSE Ids(Removed(R))
       ELSE UNCHANGED active
    /\ compare' = IF compare \in R THEN NoId ELSE compare

RemoveSlot(id) ==
    /\ WriteLockFree
    /\ RemoveIds({id})
    /\ saving' = "begin"
    /\ UNCHANGED <<disk, json, task, unsaved>>

SetActive(id) ==
    /\ WriteLockFree
    /\ id \in Ids(slots)
    /\ Commit(slots, id, compare)
    /\ UNCHANGED <<disk, json, task, unsaved>>

SetCompare(id) ==
    /\ WriteLockFree
    /\ id \in Ids(slots) \cup {NoId}
    /\ Commit(slots, active, id)
    /\ UNCHANGED <<disk, json, task, unsaved>>

\* project_clear_extracted: drop the cached slots and wipe their directory; when
\* wiping stops half way the command answers with an error before it saves.
Wiped(P) == [p \in Paths |-> IF p \in P THEN Missing ELSE disk[p]]
CachedIds == {s.id : s \in {x \in slots : x.cached}}

ClearExtracted ==
    /\ WriteLockFree
    /\ RemoveIds(CachedIds)
    /\ saving' = "begin"
    /\ disk' = Wiped(CachePaths)
    /\ UNCHANGED <<json, task, unsaved>>

ClearFails ==
    /\ WriteLockFree
    /\ RemoveIds(CachedIds)
    /\ \E P \in SUBSET CachePaths : P # CachePaths /\ disk' = Wiped(P)
    /\ unsaved' = TRUE
    /\ UNCHANGED <<json, saving, task>>

\* deobf_mark_method and deobf_unmark_method on the active slot.
SetMarks(s, marks) ==
    /\ WriteLockFree
    /\ s \in slots
    /\ s.id = active
    /\ Commit((slots \ {s}) \cup {[s EXCEPT !.marks = marks]}, active, compare)
    /\ UNCHANGED <<disk, json, task, unsaved>>

MarkMethod(s, m) == SetMarks(s, s.marks \cup {m})
UnmarkMethod(s, m) == SetMarks(s, s.marks \ {m})

-----------------------------------------------------------------------------
\* Mutants of Restored: a missing file is not noticed; the marks are not layered.
RestoredMissingToo(S) ==
    {[FreshSlot(s.id, s.base, {p \in s.splits : Exists(p)}, s.cached)
        EXCEPT !.marks = s.marks] : s \in S}

RestoredUnmarked(S) ==
    {FreshSlot(s.id, s.base, {p \in s.splits : Exists(p)}, s.cached) :
        s \in {x \in S : Whole(x.base)}}

\* Project::load: slots whose file is gone or unreadable and splits that are
\* gone are dropped, the id and the marks are kept, the hash is recomputed.
Restored(S) ==
    {[FreshSlot(s.id, s.base, {p \in s.splits : Exists(p)}, s.cached)
        EXCEPT !.marks = s.marks] : s \in {x \in S : Whole(x.base)}}

\* The process dies, at any point, and is started again.
Restart ==
    /\ saving' = "no"
    /\ task' = [t \in Tasks |-> Idle]
    /\ IF json = NoProject
       THEN slots' = {} /\ active' = NoId /\ compare' = NoId
       ELSE LET S == Restored(json.slots) IN
            /\ slots' = S
            /\ IF json.active \in Ids(S)
               THEN active' = json.active
               ELSE active' \in IF S = {} THEN {NoId} ELSE Ids(S)
            /\ compare' = IF json.compare \in Ids(S) THEN json.compare ELSE NoId
    /\ unsaved' = (json = NoProject)
    /\ UNCHANGED <<disk, json>>

\* Another program rewrites, moves or deletes a file of the user.
FileChanges(p) ==
    /\ \E c \in Hashes \cup {Missing} : disk' = [disk EXCEPT ![p] = c]
    /\ UNCHANGED <<memVars, json, saving, task, unsaved>>

TaskStep(t) ==
    \/ LoadFile(t)
    \/ LoadFileB(t)
    \/ AddApk(t)
    \/ LoadInserts(t)
    \/ \E s \in slots, h \in Hashes, f \in {"active", "none"} :
          ExtractBegins(t, s, h, f)
    \/ ExtractEnds(t)
    \/ ExtractParses(t)

Command ==
    \/ \E s \in slots :
          \/ \E p \in SplitPaths : AddSplit(s, p)
          \/ ForceReload(s)
          \/ \E m \in Marks : MarkMethod(s, m) \/ UnmarkMethod(s, m)
    \/ \E id \in Hashes : RemoveSlot(id) \/ SetActive(id)
    \/ \E id \in Hashes \cup {NoId} : SetCompare(id)
    \/ ClearExtracted
    \/ ClearFails

Next ==
    \/ \E t \in Tasks : TaskStep(t)
    \/ Command
    \/ SaveTruncates
    \/ SaveEnds
    \/ SaveFails
    \/ Restart
    \/ \E p \in Changing : FileChanges(p)

Spec == Init /\ [][Next]_vars

-----------------------------------------------------------------------------
TaskStates ==
    {Idle}
      \cup [phase : {"parsed"}, focus : {"active", "compare", "none"}, slot : Slot]
      \cup [phase : {"extracting", "extracted"}, hash : Hashes,
            focus : {"active", "none"}]

\* Type invariant.
ProjectTypeOK ==
    /\ disk \in [Paths -> Hashes \cup {Missing, Partial}]
    /\ slots \subseteq Slot
    /\ active \in Hashes \cup {NoId}
    /\ compare \in Hashes \cup {NoId}
    /\ json \in SavedProject \cup {NoProject}
    /\ saving \in {"no", "begin", "torn"}
    /\ task \in [Tasks -> TaskStates]
    /\ unsaved \in BOOLEAN

\* The slot every command reads through active_slot_id and compare_slot_id is
\* there ("Active slot lookup failed" never shows), whatever was removed,
\* replaced, wiped or lost by a restart in between.
PointersRefer ==
    /\ active # NoId => active \in Ids(slots)
    /\ compare # NoId => compare \in Ids(slots)

\* As long as nobody rewrites the files that are loaded as APKs, a slot's id is
\* the hash of its base file and no content has two slots, whichever of the racing loads,
\* extractions and reloads came first.
SlotIdentity ==
    /\ \A s \in slots : s.id = s.sha
    /\ \A r, s \in slots : r.sha = s.sha => r = s

\* When no save is under way and the latest did not fail, a crash loses
\* nothing: what project.json restores has every slot whose file is there, with
\* its marks and with the splits that are there.
RestartKeepsWork ==
    saving = "no" /\ ~unsaved /\ slots # {} =>
        /\ json # NoProject
        /\ \A s \in slots : Whole(s.base) =>
              \E r \in Restored(json.slots) :
                  /\ r.id = s.id /\ r.base = s.base /\ r.marks = s.marks
                  /\ {p \in s.splits : Exists(p)} \subseteq r.splits

\* Action property.  A wipe of the cache never pulls a file from under an
\* extraction that is being written.
ExtractionKeepsItsFile ==
    [][\A t \in Tasks :
          task[t].phase = "extracting" /\ task'[t].phase = "extracting"
             => disk'[CachePath[task[t].hash]] # Missing]_vars

-----------------------------------------------------------------------------
\* What comments of the code say and the code does not do.

\* project.rs:589-590: the path cache_bytes returns holds a copy of the bytes.
ExtractedIsWhole ==
    [][\A t \in Tasks :
          task[t].phase # "extracted" /\ task'[t].phase = "extracted"
             => disk'[CachePath[task'[t].hash]] = task'[t].hash]_vars
=============================================================================

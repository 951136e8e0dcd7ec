---------------------------- MODULE ProjectProofs ----------------------------
(***************************************************************************)
(* Proofs about Project, for every set of contents, files, marks and       *)
(* concurrent commands.                                                    *)
(***************************************************************************)
EXTENDS Project, TLAPS

-----------------------------------------------------------------------------
\* What load_slot_from_disk builds is a slot.
LEMMA FreshSlotType ==
    ASSUME ProjectTypeOK, NEW id \in Hashes, NEW base \in Paths,
           NEW splits \in SUBSET SplitPaths, NEW cached \in BOOLEAN, Whole(base)
    PROVE  FreshSlot(id, base, splits, cached) \in Slot
BY DEF FreshSlot, Slot, Whole

\* The cache's files are files.
LEMMA CachePathType == \A h \in Hashes : CachePath[h] \in Paths
BY DEF Paths, CachePaths

\* Writing or deleting a file leaves a disk.
LEMMA WriteInsideDisk ==
    ASSUME ProjectTypeOK, NEW p \in Paths, NEW c \in Hashes \cup {Missing, Partial}
    PROVE  [disk EXCEPT ![p] = c] \in [Paths -> Hashes \cup {Missing, Partial}]
BY DEF ProjectTypeOK

\* A restored slot is the fresh slot of a persisted one whose file is whole.
LEMMA RestoredType ==
    ASSUME ProjectTypeOK, NEW S \in SUBSET Slot
    PROVE  /\ Restored(S) \subseteq Slot
           /\ \A r \in Restored(S) : \E s \in S :
                 /\ r.id = s.id /\ r.base = s.base /\ r.sha = disk[s.base]
                 /\ Whole(s.base)
                 /\ r = [FreshSlot(s.id, s.base,
                                   {p \in s.splits : Exists(p)}, s.cached)
                            EXCEPT !.marks = s.marks]
<1> SUFFICES ASSUME NEW r \in Restored(S)
             PROVE  /\ r \in Slot
                    /\ \E s \in S :
                          /\ r.id = s.id /\ r.base = s.base /\ r.sha = disk[s.base]
                          /\ Whole(s.base)
                          /\ r = [FreshSlot(s.id, s.base,
                                     {p \in s.splits : Exists(p)}, s.cached)
                                     EXCEPT !.marks = s.marks]
  OBVIOUS
<1>1. PICK s \in S :
         /\ Whole(s.base)
         /\ r = [FreshSlot(s.id, s.base, {p \in s.splits : Exists(p)}, s.cached)
                    EXCEPT !.marks = s.marks]
  BY DEF Restored
<1>2. s \in Slot
  OBVIOUS
<1>3. FreshSlot(s.id, s.base, {p \in s.splits : Exists(p)}, s.cached) \in Slot
  <2>1. {p \in s.splits : Exists(p)} \in SUBSET SplitPaths
    BY <1>2 DEF Slot
  <2> QED BY <1>1, <1>2, <2>1, FreshSlotType, ZenonT(60) DEF Slot
<1>4. r \in Slot
  BY <1>1, <1>2, <1>3 DEF Slot
<1>5. r.id = s.id /\ r.base = s.base /\ r.sha = disk[s.base]
  BY <1>1, <1>3 DEF FreshSlot, Slot
<1> QED BY <1>1, <1>4, <1>5

\* upsert keeps every id, and the id it returns is there.
LEMMA UpsertedType ==
    ASSUME ProjectTypeOK, NEW slot \in Slot, NEW id \in Hashes,
           Upserted(slot, id)
    PROVE  /\ slots' \subseteq Slot
           /\ id \in Ids(slots')
           /\ Ids(slots) \subseteq Ids(slots')
<1>1. CASE \E old \in slots : old.sha = slot.sha
  <2>1. PICK old \in slots :
           /\ id = old.id
           /\ slots' = (slots \ {old}) \cup {[slot EXCEPT !.id = old.id]}
    BY <1>1 DEF Upserted
  <2>2. old \in Slot
    BY DEF ProjectTypeOK
  <2>3. [slot EXCEPT !.id = old.id] \in Slot /\ [slot EXCEPT !.id = old.id].id = old.id
    BY <2>2 DEF Slot
  <2> QED BY <2>1, <2>3 DEF ProjectTypeOK, Ids
<1>2. CASE ~(\E old \in slots : old.sha = slot.sha)
  BY <1>2 DEF Upserted, ProjectTypeOK, Ids
<1> QED BY <1>1, <1>2

\* Replacing a slot under its id keeps every id.
LEMMA ReplacedType ==
    ASSUME ProjectTypeOK, NEW s \in slots, NEW r \in Slot, r.id = s.id
    PROVE  /\ (slots \ {s}) \cup {r} \subseteq Slot
           /\ Ids(slots) \subseteq Ids((slots \ {s}) \cup {r})
BY DEF ProjectTypeOK, Ids

\* remove leaves slots, and pointers to slots that are left.
LEMMA RemoveIdsType ==
    ASSUME ProjectTypeOK, PointersRefer, NEW R, RemoveIds(R)
    PROVE  /\ slots' \subseteq Slot
           /\ active' \in Hashes \cup {NoId}
           /\ compare' \in Hashes \cup {NoId}
           /\ PointersRefer'
<1>1. slots' = Removed(R) /\ Removed(R) \subseteq slots
  BY DEF RemoveIds, Removed
<1>2. Ids(Removed(R)) \subseteq Hashes
  BY DEF ProjectTypeOK, Removed, Ids, Slot
<1>3. \A id : id \in Ids(slots) /\ id \notin R => id \in Ids(Removed(R))
  BY DEF Ids, Removed
<1>4. active' \in Hashes \cup {NoId} /\ (active' # NoId => active' \in Ids(slots'))
  <2>1. CASE active \in R
    BY <1>1, <1>2, <2>1 DEF RemoveIds
  <2>2. CASE active \notin R
    BY <1>1, <1>3, <2>2 DEF RemoveIds, PointersRefer, ProjectTypeOK
  <2> QED BY <2>1, <2>2
<1>5. compare' \in Hashes \cup {NoId} /\ (compare' # NoId => compare' \in Ids(slots'))
  BY <1>1, <1>3 DEF RemoveIds, PointersRefer, ProjectTypeOK
<1> QED BY <1>1, <1>4, <1>5 DEF ProjectTypeOK, PointersRefer

-----------------------------------------------------------------------------
\* The pointers need the types, and nothing else, to be kept by every step.
Inv == ProjectTypeOK /\ PointersRefer

\* A new application has an empty project.
LEMMA InitInv == Init => Inv
<1> SUFFICES ASSUME Init PROVE Inv
  OBVIOUS
<1>1. task \in [Tasks -> TaskStates]
  BY DEF Init, TaskStates, Idle
<1>2. disk \in [Paths -> Hashes \cup {Missing, Partial}]
  BY DEF Init
<1> QED BY <1>1, <1>2 DEF Init, Inv, ProjectTypeOK, PointersRefer

\* The phases of a command that loads or extracts.
LEMMA TaskInv == ASSUME Inv, NEW t \in Tasks, TaskStep(t) PROVE Inv'
<1> USE DEF Inv
<1>1. ASSUME NEW p \in Paths, NEW focus \in {"active", "compare"},
             NEW cached \in BOOLEAN, LoadParses(t, p, focus, cached)
      PROVE  Inv'
  <2>1. FreshSlot(disk[p], p, {}, cached) \in Slot
    BY <1>1, FreshSlotType DEF LoadParses, Loadable, Whole
  <2>2. [phase |-> "parsed", focus |-> focus,
         slot |-> FreshSlot(disk[p], p, {}, cached)] \in TaskStates
    BY <2>1 DEF TaskStates
  <2>3. task' \in [Tasks -> TaskStates]
    BY <1>1, <2>2 DEF LoadParses, ProjectTypeOK
  <2> QED BY <1>1, <2>3 DEF LoadParses, memVars, ProjectTypeOK, PointersRefer, Ids
<1>2. CASE LoadInserts(t)
  <2>1. task[t] \in TaskStates /\ task[t].phase = "parsed"
    BY <1>2 DEF LoadInserts, ProjectTypeOK
  <2>2. task[t].slot \in Slot
    BY <2>1 DEF TaskStates, Idle
  <2>3. PICK id \in Hashes :
           /\ Upserted(task[t].slot, id)
           /\ active' = IF task[t].focus = "active" THEN id ELSE active
           /\ compare' = IF task[t].focus = "compare" THEN id ELSE compare
    BY <1>2 DEF LoadInserts
  <2>4. slots' \subseteq Slot /\ id \in Ids(slots') /\ Ids(slots) \subseteq Ids(slots')
    BY <2>2, <2>3, UpsertedType
  <2>5. task' \in [Tasks -> TaskStates]
    BY <1>2 DEF LoadInserts, ProjectTypeOK, TaskStates
  <2> QED BY <1>2, <2>3, <2>4, <2>5 DEF LoadInserts, ProjectTypeOK, PointersRefer
<1>3. ASSUME NEW s \in slots, NEW h \in Hashes, NEW f \in {"active", "none"},
             ExtractBegins(t, s, h, f)
      PROVE  Inv'
  <2>1. \A ph \in {"extracting", "extracted"} :
           [phase |-> ph, hash |-> h, focus |-> f] \in TaskStates
    BY DEF TaskStates
  <2>2. task' \in [Tasks -> TaskStates]
    BY <1>3, <2>1 DEF ExtractBegins, ProjectTypeOK
  <2>3. disk' \in [Paths -> Hashes \cup {Missing, Partial}]
    BY <1>3, CachePathType, WriteInsideDisk DEF ExtractBegins, ProjectTypeOK
  <2> QED BY <1>3, <2>2, <2>3 DEF ExtractBegins, memVars, ProjectTypeOK, PointersRefer, Ids
<1>4. CASE ExtractEnds(t)
  <2>1. task[t] \in TaskStates /\ task[t].phase = "extracting"
    BY <1>4 DEF ExtractEnds, ProjectTypeOK
  <2>2. task[t].hash \in Hashes /\ [task[t] EXCEPT !.phase = "extracted"] \in TaskStates
    BY <2>1 DEF TaskStates, Idle
  <2>3. task' \in [Tasks -> TaskStates]
    BY <1>4, <2>2 DEF ExtractEnds, ProjectTypeOK
  <2>4. disk' \in [Paths -> Hashes \cup {Missing, Partial}]
    BY <1>4, <2>2, CachePathType, WriteInsideDisk DEF ExtractEnds
  <2> QED BY <1>4, <2>3, <2>4 DEF ExtractEnds, memVars, ProjectTypeOK, PointersRefer, Ids
<1>5. CASE ExtractParses(t)
  <2> DEFINE p == CachePath[task[t].hash]
             new == IF Loadable(p, {})
                    THEN [phase |-> "parsed", focus |-> task[t].focus,
                          slot |-> FreshSlot(disk[p], p, {}, TRUE)]
                    ELSE Idle
  <2>1. task[t] \in TaskStates /\ task[t].phase = "extracted"
    BY <1>5 DEF ExtractParses, ProjectTypeOK
  <2>2. task[t].hash \in Hashes /\ task[t].focus \in {"active", "none"}
    BY <2>1 DEF TaskStates, Idle
  <2>3. p \in Paths
    BY <2>2, CachePathType
  <2>4. Loadable(p, {}) => FreshSlot(disk[p], p, {}, TRUE) \in Slot
    BY <2>3, FreshSlotType DEF Loadable, Whole
  <2>5. new \in TaskStates
    BY <2>2, <2>4 DEF TaskStates
  <2>6. task' = [task EXCEPT ![t] = new]
    BY <1>5 DEF ExtractParses
  <2>7. task' \in [Tasks -> TaskStates]
    BY <2>5, <2>6 DEF ProjectTypeOK
  <2> QED BY <1>5, <2>7 DEF ExtractParses, memVars, ProjectTypeOK, PointersRefer, Ids
<1>6. CASE LoadFile(t) \/ LoadFileB(t)
  BY <1>1, <1>6 DEF LoadFile, LoadFileB, Paths, UserPaths
<1>7. CASE AddApk(t)
  <2>1. PICK p \in ApkPaths \cup CachePaths :
           LoadParses(t, p, "active", p \in CachePaths)
    BY <1>7 DEF AddApk
  <2>2. p \in Paths
    BY DEF Paths, UserPaths
  <2>3. (p \in CachePaths) \in BOOLEAN
    OBVIOUS
  <2> QED BY <1>1, <2>1, <2>2, <2>3, Zenon
<1> QED BY <1>2, <1>3, <1>4, <1>5, <1>6, <1>7 DEF TaskStep

\* The commands that hold the write lock from beginning to end.
LEMMA CommandInv == ASSUME Inv, Command PROVE Inv'
<1> USE DEF Inv
<1>1. ASSUME NEW s \in slots, NEW r \in Slot, r.id = s.id,
             slots' = (slots \ {s}) \cup {r}, active' = active, compare' = compare,
             saving' = "begin", UNCHANGED <<disk, json, task, unsaved>>
      PROVE  Inv'
  BY <1>1, ReplacedType DEF ProjectTypeOK, PointersRefer
<1>2. ASSUME NEW s \in slots, NEW splits \in SUBSET SplitPaths, Rebuild(s, splits)
      PROVE  Inv'
  <2>1. s \in Slot
    BY DEF ProjectTypeOK
  <2>2. FreshSlot(s.id, s.base, splits, s.cached) \in Slot
    BY <1>2, <2>1, FreshSlotType DEF Rebuild, Loadable, Slot
  <2>3. FreshSlot(s.id, s.base, splits, s.cached).id = s.id
    BY DEF FreshSlot
  <2> QED BY <1>1, <1>2, <2>2, <2>3 DEF Rebuild, Commit
<1>3. ASSUME NEW s \in slots, NEW marks \in SUBSET Marks, SetMarks(s, marks)
      PROVE  Inv'
  <2>1. s \in Slot
    BY DEF ProjectTypeOK
  <2>2. [s EXCEPT !.marks = marks] \in Slot /\ [s EXCEPT !.marks = marks].id = s.id
    BY <2>1 DEF Slot
  <2> QED BY <1>1, <1>3, <2>2 DEF SetMarks, Commit
<1>4. \A s \in slots : s.splits \subseteq SplitPaths /\ s.marks \subseteq Marks
  BY DEF ProjectTypeOK, Slot
<1>5. ASSUME NEW s \in slots, NEW p \in SplitPaths, AddSplit(s, p)
      PROVE  Inv'
  BY <1>2, <1>4, <1>5 DEF AddSplit
<1>6. ASSUME NEW s \in slots, ForceReload(s)
      PROVE  Inv'
  BY <1>2, <1>4, <1>6 DEF ForceReload
<1>7. ASSUME NEW s \in slots, NEW m \in Marks, MarkMethod(s, m) \/ UnmarkMethod(s, m)
      PROVE  Inv'
  BY <1>3, <1>4, <1>7 DEF MarkMethod, UnmarkMethod
<1>8. ASSUME NEW id \in Hashes, RemoveSlot(id)
      PROVE  Inv'
  BY <1>8, RemoveIdsType DEF RemoveSlot, ProjectTypeOK
<1>9. ASSUME NEW id \in Hashes, SetActive(id)
      PROVE  Inv'
  BY <1>9 DEF SetActive, Commit, ProjectTypeOK, PointersRefer, Ids
<1>10. ASSUME NEW id \in Hashes \cup {NoId}, SetCompare(id)
       PROVE  Inv'
  BY <1>10 DEF SetCompare, Commit, ProjectTypeOK, PointersRefer, Ids
<1>11. \A P : Wiped(P) \in [Paths -> Hashes \cup {Missing, Partial}]
  BY DEF Wiped, ProjectTypeOK
<1>12. CASE ClearExtracted
  BY <1>11, <1>12, RemoveIdsType DEF ClearExtracted, ProjectTypeOK
<1>13. CASE ClearFails
  BY <1>11, <1>13, RemoveIdsType DEF ClearFails, ProjectTypeOK
<1> QED BY <1>5, <1>6, <1>7, <1>8, <1>9, <1>10, <1>12, <1>13 DEF Command

\* Starting again: what Project::load builds from project.json.
LEMMA RestartInv == ASSUME Inv, Restart PROVE Inv'
<1> USE DEF Inv
<1>1. task' \in [Tasks -> TaskStates]
  BY DEF Restart, TaskStates
<1>2. slots' \subseteq Slot /\ active' \in Hashes \cup {NoId}
        /\ compare' \in Hashes \cup {NoId} /\ PointersRefer'
  <2>1. CASE json = NoProject
    BY <2>1 DEF Restart, PointersRefer
  <2>2. CASE json # NoProject
    <3> DEFINE S == Restored(json.slots)
    <3>1. json.slots \in SUBSET Slot
      BY <2>2 DEF ProjectTypeOK, SavedProject
    <3>2. S \subseteq Slot
      BY <3>1, RestoredType
    <3>3. Ids(S) \subseteq Hashes
      BY <3>2 DEF Ids, Slot
    <3>4. /\ slots' = S
          /\ IF json.active \in Ids(S)
             THEN active' = json.active
             ELSE active' \in IF S = {} THEN {NoId} ELSE Ids(S)
          /\ compare' = IF json.compare \in Ids(S) THEN json.compare ELSE NoId
      BY <2>2 DEF Restart
    <3>5. Ids(slots') = Ids(S)
      BY <3>4
    <3> HIDE DEF S
    <3> QED BY <3>2, <3>3, <3>4, <3>5 DEF PointersRefer
  <2> QED BY <2>1, <2>2
<1> QED BY <1>1, <1>2 DEF Restart, ProjectTypeOK, SavedProject

\* Every step keeps the invariant.
LEMMA StepInv == Inv /\ [Next]_vars => Inv'
<1> SUFFICES ASSUME Inv, [Next]_vars PROVE Inv'
  OBVIOUS
<1>1. CASE SaveTruncates
  BY <1>1 DEF Inv, SaveTruncates, memVars, ProjectTypeOK, PointersRefer, Ids
<1>2. CASE SaveEnds
  BY <1>2 DEF Inv, SaveEnds, memVars, ProjectTypeOK, SavedProject, PointersRefer, Ids
<1>3. CASE SaveFails
  BY <1>3 DEF Inv, SaveFails, memVars, ProjectTypeOK, PointersRefer, Ids
<1>4. ASSUME NEW p \in Changing, FileChanges(p) PROVE Inv'
  <2>1. disk' \in [Paths -> Hashes \cup {Missing, Partial}]
    BY <1>4, WriteInsideDisk, ProjectConstantsOK DEF Inv, FileChanges, Paths
  <2> QED BY <1>4, <2>1 DEF Inv, FileChanges, memVars, ProjectTypeOK, PointersRefer, Ids
<1>5. CASE UNCHANGED vars
  BY <1>5 DEF Inv, vars, memVars, ProjectTypeOK, PointersRefer, Ids
<1> QED BY <1>1, <1>2, <1>3, <1>4, <1>5, TaskInv, CommandInv, RestartInv DEF Next

-----------------------------------------------------------------------------
\* The invariant holds throughout.
THEOREM Invariant == Spec => []Inv
<1>1. Init => Inv
  BY InitInv
<1>2. Inv /\ [Next]_vars => Inv'
  BY StepInv
<1> QED BY <1>1, <1>2, PTL DEF Spec

\* Every variable keeps its type: in particular no restored slot lacks a hash.
THEOREM TypeCorrect == Spec => []ProjectTypeOK
BY Invariant, PTL DEF Inv

\* The active and the compare slot exist in every run, with files that change,
\* crashes, failing saves and any number of commands in flight.
THEOREM PointersSafe == Spec => []PointersRefer
BY Invariant, PTL DEF Inv

-----------------------------------------------------------------------------
\* Identity of slots while the files that are loaded as APKs stay as they are.  The operators
\* take the disk as a parameter: d is the one before or after a step.

\* A file of the cache holds the content it is named after, or no whole one.
CacheOn(d) == \A h \in Hashes : d[CachePath[h]] \in {h, Partial, Missing}

\* A slot's id is its hash, and the content of its file as long as that exists.
Faithful(d, s) ==
    /\ s.id = s.sha
    /\ s.base \notin SplitPaths
    /\ s.base \in ApkPaths => s.id = d[s.base]
    /\ \A h \in Hashes : s.base = CachePath[h] => s.id = h

Named(d, S) ==
    /\ \A s \in S : Faithful(d, s)
    /\ \A r, s \in S : r.id = s.id => r = s

\* The same of the slots in memory, in project.json, and on their way in.
Identity ==
    /\ CacheOn(disk)
    /\ Named(disk, slots)
    /\ json # NoProject => Named(disk, json.slots)
    /\ \A t \in Tasks : task[t].phase = "parsed" => Faithful(disk, task[t].slot)

\* A freshly loaded slot is faithful.
LEMMA FreshFaithful ==
    ASSUME ProjectTypeOK, CacheOn(disk), NEW base \in Paths \ SplitPaths,
           NEW splits, NEW cached, Whole(base)
    PROVE  Faithful(disk, FreshSlot(disk[base], base, splits, cached))
<1>1. disk[base] \in Hashes
  BY DEF Whole
<1>2. \A h \in Hashes : base = CachePath[h] => disk[base] = h
  BY <1>1, ProjectConstantsOK DEF CacheOn
<1> QED BY <1>2 DEF Faithful, FreshSlot

\* A faithful slot whose file is whole still has the content it is named after.
LEMMA WholeIsSame ==
    ASSUME ProjectTypeOK, CacheOn(disk), NEW s \in Slot, Faithful(disk, s),
           Whole(s.base)
    PROVE  disk[s.base] = s.id
<1>1. CASE s.base \in ApkPaths
  BY <1>1 DEF Faithful
<1>2. CASE s.base \in CachePaths
  <2>1. PICK h \in Hashes : s.base = CachePath[h]
    BY <1>2 DEF CachePaths
  <2>2. disk[s.base] = h
    BY <2>1, ProjectConstantsOK DEF CacheOn, Whole
  <2> QED BY <2>1, <2>2 DEF Faithful
<1> QED BY <1>1, <1>2 DEF Slot, Paths, UserPaths, Faithful

\* Faithfulness does not depend on the files of the cache and the splits.
LEMMA FaithfulStays ==
    ASSUME NEW d, NEW e, \A p \in ApkPaths : e[p] = d[p]
    PROVE  /\ \A s : Faithful(d, s) => Faithful(e, s)
           /\ \A S : Named(d, S) => Named(e, S)
BY DEF Faithful, Named

\* A fresh slot can take the place of one with its id.
LEMMA ReplacedNamed ==
    ASSUME NEW d, NEW S, Named(d, S), NEW s \in S, NEW r, Faithful(d, r), r.id = s.id
    PROVE  Named(d, (S \ {s}) \cup {r})
BY DEF Named

\* Writing a file of the cache leaves the user's APKs as they are.
LEMMA CacheWrite ==
    ASSUME ProjectTypeOK, CacheOn(disk), NEW h \in Hashes, NEW c \in {h, Partial, Missing}
    PROVE  /\ CacheOn([disk EXCEPT ![CachePath[h]] = c])
           /\ \A p \in ApkPaths : [disk EXCEPT ![CachePath[h]] = c][p] = disk[p]
<1>1. CachePath[h] \in CachePaths /\ \A g \in Hashes : CachePath[g] \in Paths
  BY CachePathType DEF CachePaths
<1>2. \A p \in ApkPaths : p \in Paths /\ p # CachePath[h]
  BY <1>1, ProjectConstantsOK DEF Paths, UserPaths
<1>3. \A g \in Hashes : CachePath[g] = CachePath[h] => g = h
  BY ProjectConstantsOK
<1>4. DOMAIN disk = Paths
  BY DEF ProjectTypeOK
<1> QED BY <1>1, <1>2, <1>3, <1>4 DEF CacheOn

\* Deleting files of the cache does too.
LEMMA CacheWipe ==
    ASSUME ProjectTypeOK, CacheOn(disk), NEW P \in SUBSET CachePaths
    PROVE  /\ CacheOn(Wiped(P))
           /\ \A p \in ApkPaths : Wiped(P)[p] = disk[p]
<1>1. \A g \in Hashes : CachePath[g] \in Paths
  BY CachePathType
<1>2. \A p \in ApkPaths : p \in Paths /\ p \notin P
  BY ProjectConstantsOK DEF Paths, UserPaths
<1> QED BY <1>1, <1>2 DEF CacheOn, Wiped

\* Restoring gives every slot the id it had.
LEMMA RestoredNamed ==
    ASSUME ProjectTypeOK, CacheOn(disk), NEW S \in SUBSET Slot, Named(disk, S)
    PROVE  Named(disk, Restored(S))
<1>1. \A r \in Restored(S) : \E s \in S :
         /\ r.id = s.id /\ r.base = s.base /\ r.sha = disk[s.base]
         /\ Whole(s.base)
         /\ r = [FreshSlot(s.id, s.base, {p \in s.splits : Exists(p)}, s.cached)
                    EXCEPT !.marks = s.marks]
  BY RestoredType, Zenon
<1>2. ASSUME NEW s \in S, Whole(s.base)
      PROVE  disk[s.base] = s.id /\ Faithful(disk, s)
  BY <1>2, WholeIsSame DEF Named
<1>3. ASSUME NEW r \in Restored(S) PROVE Faithful(disk, r)
  <2>1. PICK s \in S : r.id = s.id /\ r.base = s.base /\ r.sha = disk[s.base] /\ Whole(s.base)
    BY <1>1
  <2> QED BY <1>2, <2>1 DEF Faithful
<1>4. \A q, r \in Restored(S) : q.id = r.id => q = r
  <2> SUFFICES ASSUME NEW q \in Restored(S), NEW r \in Restored(S), q.id = r.id
               PROVE  q = r
    OBVIOUS
  <2>1. PICK s \in S :
           /\ q.id = s.id
           /\ q = [FreshSlot(s.id, s.base, {p \in s.splits : Exists(p)}, s.cached)
                      EXCEPT !.marks = s.marks]
    BY <1>1
  <2>2. PICK u \in S :
           /\ r.id = u.id
           /\ r = [FreshSlot(u.id, u.base, {p \in u.splits : Exists(p)}, u.cached)
                      EXCEPT !.marks = u.marks]
    BY <1>1
  <2>3. s = u
    BY <2>1, <2>2 DEF Named
  <2> QED BY <2>1, <2>2, <2>3
<1> QED BY <1>3, <1>4 DEF Named

\* Inserting a faithful slot: whatever has its hash is it.
LEMMA UpsertedNamed ==
    ASSUME ProjectTypeOK, Named(disk, slots), NEW slot \in Slot, NEW id,
           Faithful(disk, slot), Upserted(slot, id)
    PROVE  Named(disk, slots')
<1>1. CASE \E old \in slots : old.sha = slot.sha
  <2>1. PICK old \in slots :
           /\ old.sha = slot.sha
           /\ slots' = (slots \ {old}) \cup {[slot EXCEPT !.id = old.id]}
    BY <1>1 DEF Upserted
  <2>2. old.id = slot.id
    BY <2>1 DEF Named, Faithful
  <2>3. [slot EXCEPT !.id = old.id] = slot
    BY <2>2 DEF Slot
  <2> QED BY <2>1, <2>2, <2>3, ReplacedNamed
<1>2. CASE ~(\E old \in slots : old.sha = slot.sha)
  <2>1. slots' = slots \cup {slot}
    BY <1>2 DEF Upserted
  <2>2. \A old \in slots : old.id # slot.id
    BY <1>2 DEF Named, Faithful
  <2> QED BY <2>1, <2>2 DEF Named
<1> QED BY <1>1, <1>2

\* Every step keeps the identities.
LEMMA IdentityStep ==
    ASSUME Changing \cap ApkPaths = {}, Inv, Identity, [Next]_vars
    PROVE  Identity'
<1> USE DEF Inv
<1>1. ASSUME UNCHANGED <<disk, task>>, Named(disk, slots'),
             json' = json \/ json' = NoProject \/ json'.slots = slots
      PROVE  Identity'
  BY <1>1 DEF Identity
<1>2. ASSUME NEW t \in Tasks, TaskStep(t) PROVE Identity'
  <2>1. ASSUME NEW p \in Paths \ SplitPaths, NEW focus, NEW cached, LoadParses(t, p, focus, cached)
        PROVE  Identity'
    <3>1. Faithful(disk, FreshSlot(disk[p], p, {}, cached))
      BY <2>1, FreshFaithful DEF LoadParses, Loadable, Identity
    <3>2. \A u \in Tasks : task'[u].phase = "parsed" => Faithful(disk, task'[u].slot)
      BY <2>1, <3>1 DEF LoadParses, Identity, ProjectTypeOK
    <3> QED BY <2>1, <3>2 DEF LoadParses, memVars, Identity
  <2>2. CASE LoadInserts(t)
    <3>1. task[t] \in TaskStates /\ task[t].phase = "parsed"
      BY <2>2 DEF LoadInserts, ProjectTypeOK
    <3>2. task[t].slot \in Slot /\ Faithful(disk, task[t].slot)
      BY <3>1 DEF TaskStates, Idle, Identity
    <3>3. Named(disk, slots')
      BY <2>2, <3>2, UpsertedNamed DEF LoadInserts, Identity
    <3>4. \A u \in Tasks : task'[u].phase = "parsed" => Faithful(disk, task'[u].slot)
      BY <2>2 DEF LoadInserts, Identity, ProjectTypeOK, Idle
    <3> QED BY <2>2, <3>3, <3>4 DEF LoadInserts, Identity
  <2>3. ASSUME NEW s \in slots, NEW h \in Hashes, NEW f, ExtractBegins(t, s, h, f)
        PROVE  Identity'
    <3>1. CacheOn(disk') /\ \A p \in ApkPaths : disk'[p] = disk[p]
      <4>1. CASE Exists(CachePath[h])
        BY <2>3, <4>1 DEF ExtractBegins, Identity
      <4>2. CASE ~Exists(CachePath[h])
        <5>1. disk' = [disk EXCEPT ![CachePath[h]] = Partial]
          BY <2>3, <4>2 DEF ExtractBegins
        <5> QED BY <5>1, CacheWrite DEF Identity
      <4> QED BY <4>1, <4>2
    <3>2. \A u \in Tasks : task'[u].phase = "parsed"
             => task[u].phase = "parsed" /\ task'[u].slot = task[u].slot
      BY <2>3 DEF ExtractBegins, ProjectTypeOK
    <3> QED BY <2>3, <3>1, <3>2, FaithfulStays DEF ExtractBegins, memVars, Identity
  <2>4. CASE ExtractEnds(t)
    <3>1. task[t] \in TaskStates /\ task[t].phase = "extracting"
      BY <2>4 DEF ExtractEnds, ProjectTypeOK
    <3>2. task[t].hash \in Hashes
      BY <3>1 DEF TaskStates, Idle
    <3>3. CacheOn(disk') /\ \A p \in ApkPaths : disk'[p] = disk[p]
      BY <2>4, <3>2, CacheWrite DEF ExtractEnds, Identity
    <3>4. task' = [task EXCEPT ![t] = [task[t] EXCEPT !.phase = "extracted"]]
      BY <2>4 DEF ExtractEnds
    <3>5. [task[t] EXCEPT !.phase = "extracted"].phase = "extracted"
      BY <3>1 DEF TaskStates, Idle
    <3>6. \A u \in Tasks : task'[u].phase = "parsed"
             => task[u].phase = "parsed" /\ task'[u].slot = task[u].slot
      BY <3>4, <3>5 DEF ProjectTypeOK
    <3>7. slots' = slots /\ json' = json
      BY <2>4 DEF ExtractEnds, memVars
    <3> QED BY <3>3, <3>6, <3>7, FaithfulStays DEF Identity
  <2>5. CASE ExtractParses(t)
    <3> DEFINE p == CachePath[task[t].hash]
               new == IF Loadable(p, {})
                      THEN [phase |-> "parsed", focus |-> task[t].focus,
                            slot |-> FreshSlot(disk[p], p, {}, TRUE)]
                      ELSE Idle
    <3>1. task[t] \in TaskStates /\ task[t].phase = "extracted"
      BY <2>5 DEF ExtractParses, ProjectTypeOK
    <3>2. p \in Paths \ SplitPaths
      BY <3>1, CachePathType, ProjectConstantsOK DEF TaskStates, Idle, CachePaths, UserPaths
    <3>3. Loadable(p, {}) => Faithful(disk, FreshSlot(disk[p], p, {}, TRUE))
      BY <3>2, FreshFaithful DEF Loadable, Identity
    <3>4. new.phase = "parsed" => Faithful(disk, new.slot)
      BY <3>3 DEF Idle
    <3>5. task' = [task EXCEPT ![t] = new]
      BY <2>5 DEF ExtractParses
    <3> HIDE DEF new
    <3>6. \A u \in Tasks : task'[u].phase = "parsed" => Faithful(disk, task'[u].slot)
      BY <3>4, <3>5 DEF Identity, ProjectTypeOK
    <3> QED BY <2>5, <3>6 DEF ExtractParses, memVars, Identity
  <2>6. CASE LoadFile(t) \/ LoadFileB(t) \/ AddApk(t)
    BY <2>1, <2>6, ProjectConstantsOK DEF LoadFile, LoadFileB, AddApk, Paths, UserPaths
  <2> QED BY <1>2, <2>2, <2>3, <2>4, <2>5, <2>6 DEF TaskStep
<1>3. CASE Command
  <2>1. ASSUME NEW s \in slots, NEW splits, Rebuild(s, splits) PROVE Identity'
    <3>1. s \in Slot /\ Faithful(disk, s) /\ Whole(s.base)
      BY <2>1 DEF Rebuild, Loadable, Identity, Named, ProjectTypeOK
    <3>2. disk[s.base] = s.id /\ s.base \in Paths \ SplitPaths
      BY <3>1, WholeIsSame DEF Identity, Slot, Faithful
    <3>3. Faithful(disk, FreshSlot(s.id, s.base, splits, s.cached))
      BY <3>1, <3>2, FreshFaithful DEF Identity
    <3>4. FreshSlot(s.id, s.base, splits, s.cached).id = s.id
      BY DEF FreshSlot
    <3>5. Named(disk, (slots \ {s}) \cup {FreshSlot(s.id, s.base, splits, s.cached)})
      BY <3>3, <3>4, ReplacedNamed DEF Identity
    <3> QED BY <1>1, <2>1, <3>5 DEF Rebuild, Commit
  <2>2. ASSUME NEW s \in slots, NEW marks, SetMarks(s, marks) PROVE Identity'
    <3>1. s \in Slot /\ Faithful(disk, s)
      BY DEF Identity, Named, ProjectTypeOK
    <3>2. /\ [s EXCEPT !.marks = marks].id = s.id
          /\ [s EXCEPT !.marks = marks].sha = s.sha
          /\ [s EXCEPT !.marks = marks].base = s.base
      BY <3>1 DEF Slot
    <3>3. Faithful(disk, [s EXCEPT !.marks = marks])
      BY <3>1, <3>2 DEF Faithful
    <3>4. Named(disk, (slots \ {s}) \cup {[s EXCEPT !.marks = marks]})
      BY <3>2, <3>3, ReplacedNamed DEF Identity
    <3> QED BY <1>1, <2>2, <3>4 DEF SetMarks, Commit
  <2>3. ASSUME NEW R, RemoveIds(R) PROVE Named(disk, slots')
    BY <2>3 DEF RemoveIds, Removed, Named, Identity
  <2>4. ASSUME NEW id, RemoveSlot(id) PROVE Identity'
    BY <1>1, <2>3, <2>4 DEF RemoveSlot
  <2>5. ASSUME NEW id, SetActive(id) \/ SetCompare(id) PROVE Identity'
    <3>1. slots' = slots /\ UNCHANGED <<disk, json, task>>
      BY <2>5 DEF SetActive, SetCompare, Commit
    <3> QED BY <3>1 DEF Identity
  <2>6. ASSUME NEW P \in SUBSET CachePaths, NEW R, RemoveIds(R), disk' = Wiped(P),
               UNCHANGED <<json, task>>
        PROVE  Identity'
    <3>1. CacheOn(disk') /\ \A p \in ApkPaths : disk'[p] = disk[p]
      BY <2>6, CacheWipe DEF Identity
    <3>2. Named(disk, slots')
      BY <2>3, <2>6
    <3> QED BY <2>6, <3>1, <3>2, FaithfulStays DEF Identity
  <2>7. CASE ClearExtracted
    BY <2>6, <2>7 DEF ClearExtracted
  <2>8. CASE ClearFails
    BY <2>6, <2>8 DEF ClearFails
  <2> QED BY <1>3, <2>1, <2>2, <2>4, <2>5, <2>7, <2>8
          DEF Command, AddSplit, ForceReload, MarkMethod, UnmarkMethod
<1>4. CASE SaveTruncates \/ SaveEnds \/ SaveFails
  <2>1. slots' = slots /\ UNCHANGED <<disk, task>>
    BY <1>4 DEF SaveTruncates, SaveEnds, SaveFails, memVars
  <2>2. json' = json \/ json' = NoProject \/ json'.slots = slots
    BY <1>4 DEF SaveTruncates, SaveEnds, SaveFails
  <2> QED BY <1>1, <2>1, <2>2 DEF Identity
<1>5. CASE Restart
  <2>1. Named(disk, slots')
    <3>1. CASE json = NoProject
      BY <1>5, <3>1 DEF Restart, Named
    <3>2. CASE json # NoProject
      BY <1>5, <3>2, RestoredNamed DEF Restart, Identity, ProjectTypeOK, SavedProject
    <3> QED BY <3>1, <3>2
  <2>2. \A t \in Tasks : task'[t].phase # "parsed"
    BY <1>5 DEF Restart, Idle
  <2> QED BY <1>5, <2>1, <2>2 DEF Restart, Identity
<1>6. ASSUME NEW p \in Changing, FileChanges(p) PROVE Identity'
  <2>1. p \in Paths /\ p \notin ApkPaths /\ p \notin CachePaths
    BY ProjectConstantsOK DEF Paths
  <2>2. \A q \in Paths : q # p => disk'[q] = disk[q]
    BY <1>6, <2>1 DEF FileChanges, ProjectTypeOK
  <2>3. \A q \in ApkPaths \cup CachePaths : q \in Paths
    BY DEF Paths, UserPaths
  <2>4. CacheOn(disk') /\ \A q \in ApkPaths : disk'[q] = disk[q]
    BY <2>1, <2>2, <2>3 DEF CacheOn, CachePaths, Identity
  <2> QED BY <1>6, <2>4, FaithfulStays DEF FileChanges, memVars, Identity
<1>7. CASE UNCHANGED vars
  BY <1>7 DEF vars, memVars, Identity
<1> QED BY <1>2, <1>3, <1>4, <1>5, <1>6, <1>7 DEF Next

\* As long as nobody rewrites the files that are loaded as APKs (the splits may
\* change), a slot's id is the hash of its file, and no content has two slots: for every set of contents and files, any
\* number of commands in flight, crashes and failing saves.
THEOREM IdentitySafe ==
    ASSUME Changing \cap ApkPaths = {}
    PROVE  Spec => []SlotIdentity
<1>1. Init => Identity
  <2> SUFFICES ASSUME Init PROVE Identity
    OBVIOUS
  <2>1. CacheOn(disk)
    BY DEF Init, CacheOn, CachePaths
  <2> QED BY <2>1 DEF Init, Identity, Named, Idle
<1>2. Inv /\ Identity /\ [Next]_vars => Identity'
  BY IdentityStep
<1>3. Identity => SlotIdentity
  BY DEF Identity, Named, Faithful, SlotIdentity
<1> QED BY <1>1, <1>2, <1>3, Invariant, PTL DEF Spec

-----------------------------------------------------------------------------
\* What a crash can lose, with every file free to change.

\* A persisted slot that a restart would build s from, if the file is there.
Covers(j, s) ==
    /\ j.id = s.id /\ j.base = s.base /\ j.marks = s.marks
    /\ s.splits \subseteq j.splits

\* Between two saves project.json covers the memory, unless the latest failed.
Persisted ==
    saving = "no" /\ ~unsaved /\ slots # {} =>
        json # NoProject /\ \A s \in slots : \E j \in json.slots : Covers(j, s)

\* What a restart builds is covered by what it was built from.
LEMMA RestoredCovered ==
    ASSUME ProjectTypeOK, NEW S \in SUBSET Slot
    PROVE  \A r \in Restored(S) : \E s \in S : Covers(s, r)
<1>. SUFFICES ASSUME NEW r \in Restored(S) PROVE \E s \in S : Covers(s, r)
  OBVIOUS
<1>1. PICK s \in S :
         /\ r.id = s.id /\ r.base = s.base
         /\ Whole(s.base)
         /\ r = [FreshSlot(s.id, s.base, {p \in s.splits : Exists(p)}, s.cached)
                    EXCEPT !.marks = s.marks]
  <2>1. \E s \in S :
           /\ r.id = s.id /\ r.base = s.base /\ r.sha = disk[s.base]
           /\ Whole(s.base)
           /\ r = [FreshSlot(s.id, s.base, {p \in s.splits : Exists(p)}, s.cached)
                      EXCEPT !.marks = s.marks]
    BY RestoredType, ZenonT(60)
  <2>. QED BY <2>1, Zenon
<1>2. r.marks = s.marks /\ r.splits = {p \in s.splits : Exists(p)}
  BY <1>1 DEF FreshSlot
<1>. QED BY <1>1, <1>2 DEF Covers

\* A change of the memory is under a save until it is written or the save
\* fails; loading only what is written brings nothing that is not.
LEMMA PersistedStep ==
    ASSUME Inv, Persisted, [Next]_vars
    PROVE  Persisted'
<1>. USE DEF Inv
<1>1. ASSUME UNCHANGED <<slots, json, saving, unsaved>> PROVE Persisted'
  BY <1>1 DEF Persisted
<1>2. ASSUME NEW t \in Tasks, TaskStep(t) PROVE Persisted'
  <2>1. CASE LoadInserts(t)
    BY <2>1 DEF LoadInserts, Persisted
  <2>2. CASE ~LoadInserts(t)
    BY <1>1, <1>2, <2>2 DEF TaskStep, LoadFile, LoadFileB, AddApk, LoadParses,
       ExtractBegins, ExtractEnds, ExtractParses, memVars
  <2>. QED BY <2>1, <2>2
<1>3. CASE Command
  <2>1. saving' = "begin" \/ unsaved'
    BY <1>3 DEF Command, AddSplit, ForceReload, Rebuild, MarkMethod, UnmarkMethod,
       SetMarks, RemoveSlot, SetActive, SetCompare, ClearExtracted, ClearFails, Commit
  <2>. QED BY <2>1 DEF Persisted
<1>4. CASE SaveTruncates \/ SaveFails
  BY <1>4 DEF SaveTruncates, SaveFails, Persisted
<1>5. CASE SaveEnds
  <2>1. slots' = slots /\ json' = [slots |-> slots, active |-> active, compare |-> compare]
    BY <1>5 DEF SaveEnds, memVars
  <2>2. json' \in SavedProject
    BY <2>1 DEF SavedProject, ProjectTypeOK
  <2>. QED BY <2>1, <2>2, NoProjectSaved DEF Persisted, Covers
<1>6. CASE Restart
  <2>1. CASE json = NoProject
    BY <1>6, <2>1 DEF Restart, Persisted
  <2>2. CASE json # NoProject
    <3>1. json.slots \in SUBSET Slot
      BY <2>2 DEF ProjectTypeOK, SavedProject
    <3>2. slots' = Restored(json.slots) /\ json' = json
      BY <1>6, <2>2 DEF Restart
    <3>. QED BY <2>2, <3>1, <3>2, RestoredCovered DEF Persisted
  <2>. QED BY <2>1, <2>2
<1>7. ASSUME NEW p \in Changing, FileChanges(p) PROVE Persisted'
  BY <1>1, <1>7 DEF FileChanges, memVars
<1>8. CASE UNCHANGED vars
  BY <1>1, <1>8 DEF vars, memVars
<1>. QED BY <1>2, <1>3, <1>4, <1>5, <1>6, <1>7, <1>8 DEF Next

\* With no save under way and none failed, a crash at any moment loses no slot
\* whose file is there, no mark, and no split that is there.
THEOREM WorkSurvivesRestart == Spec => []RestartKeepsWork
<1>1. Init => Persisted
  BY DEF Init, Persisted
<1>2. Inv /\ Persisted /\ [Next]_vars => Persisted'
  BY PersistedStep
<1>3. Inv /\ Persisted => RestartKeepsWork
  <2>. SUFFICES ASSUME Inv, Persisted, saving = "no", ~unsaved, NEW s \in slots, Whole(s.base)
                PROVE  \E r \in Restored(json.slots) :
                          /\ r.id = s.id /\ r.base = s.base /\ r.marks = s.marks
                          /\ {p \in s.splits : Exists(p)} \subseteq r.splits
    BY DEF RestartKeepsWork, Persisted
  <2>1. PICK j \in json.slots : Covers(j, s)
    BY DEF Persisted
  <2>. DEFINE r == [FreshSlot(j.id, j.base, {p \in j.splits : Exists(p)}, j.cached)
                       EXCEPT !.marks = j.marks]
  <2>2. r \in Restored(json.slots)
    BY <2>1 DEF Covers, Restored
  <2>3. /\ r.id = j.id /\ r.base = j.base /\ r.marks = j.marks
        /\ r.splits = {p \in j.splits : Exists(p)}
    BY DEF FreshSlot
  <2>. QED BY <2>1, <2>2, <2>3 DEF Covers
<1>. QED BY <1>1, <1>2, <1>3, Invariant, PTL DEF Spec

-----------------------------------------------------------------------------
\* The file that an extraction is writing.

\* It was created when the extraction began, and is not deleted meanwhile.
Claimed ==
    \A t \in Tasks :
        task[t].phase = "extracting" => disk[CachePath[task[t].hash]] # Missing

\* A command writes what it is extracting, or leaves that as it is: nobody else
\* deletes files of the cache while it holds the lock.
LEMMA ClaimedStep ==
    ASSUME Inv, Claimed, [Next]_vars
    PROVE  /\ Claimed'
           /\ \A t \in Tasks :
                 task[t].phase = "extracting" /\ task'[t].phase = "extracting"
                    => disk'[CachePath[task[t].hash]] # Missing
<1>. USE DEF Inv
<1>. DEFINE Kept ==
       \A t \in Tasks :
          task[t].phase = "extracting" /\ task'[t].phase = "extracting"
             => disk'[CachePath[task[t].hash]] # Missing
<1>1. ASSUME UNCHANGED task,
             \A h \in Hashes : disk[CachePath[h]] # Missing => disk'[CachePath[h]] # Missing
      PROVE  Claimed' /\ Kept
  <2>1. \A t \in Tasks : task[t].phase = "extracting" => task[t].hash \in Hashes
    BY DEF ProjectTypeOK, TaskStates, Idle
  <2>. QED BY <1>1, <2>1 DEF Claimed
<1>2. ASSUME UNCHANGED disk, NEW t \in Tasks, NEW new, new.phase # "extracting",
             task' = [task EXCEPT ![t] = new]
      PROVE  Claimed' /\ Kept
  BY <1>2 DEF Claimed, ProjectTypeOK
<1>3. ASSUME NEW t \in Tasks, TaskStep(t) PROVE Claimed' /\ Kept
  <2>1. CASE LoadFile(t) \/ LoadFileB(t) \/ AddApk(t)
    BY <1>2, <2>1 DEF LoadFile, LoadFileB, AddApk, LoadParses
  <2>2. CASE LoadInserts(t)
    BY <1>2, <2>2 DEF LoadInserts, Idle
  <2>3. CASE ExtractParses(t)
    BY <1>2, <2>3 DEF ExtractParses, Idle
  <2>4. ASSUME NEW s \in slots, NEW h \in Hashes, NEW f, ExtractBegins(t, s, h, f)
        PROVE  Claimed' /\ Kept
    <3>1. CASE Exists(CachePath[h])
      BY <1>2, <2>4, <3>1 DEF ExtractBegins
    <3>2. CASE ~Exists(CachePath[h])
      <4>1. /\ disk' = [disk EXCEPT ![CachePath[h]] = Partial]
            /\ task' = [task EXCEPT ![t] = [phase |-> "extracting", hash |-> h, focus |-> f]]
        BY <2>4, <3>2 DEF ExtractBegins
      <4>2. \A q \in Paths : disk[q] # Missing => disk'[q] # Missing
        BY <4>1, ProjectConstantsOK DEF ProjectTypeOK
      <4>3. disk'[CachePath[h]] # Missing
        BY <4>1, CachePathType, ProjectConstantsOK DEF ProjectTypeOK
      <4>4. \A u \in Tasks : task[u].phase = "extracting" => task[u].hash \in Hashes
        BY DEF ProjectTypeOK, TaskStates, Idle
      <4>5. \A u \in Tasks : u # t => task'[u] = task[u]
        BY <4>1 DEF ProjectTypeOK
      <4>6. task[t] = Idle /\ task'[t].phase = "extracting" /\ task'[t].hash = h
        BY <2>4, <4>1 DEF ExtractBegins, ProjectTypeOK
      <4>7. Claimed'
        BY <4>2, <4>3, <4>4, <4>5, <4>6, CachePathType DEF Claimed
      <4>8. Kept
        BY <4>2, <4>4, CachePathType DEF Claimed
      <4>. QED BY <4>7, <4>8
    <3>. QED BY <3>1, <3>2
  <2>5. CASE ExtractEnds(t)
    <3>1. task[t].phase = "extracting" /\ task[t] \in TaskStates
      BY <2>5 DEF ExtractEnds, ProjectTypeOK
    <3>2. task[t].hash \in Hashes
      BY <3>1 DEF TaskStates, Idle
    <3>. DEFINE new == [task[t] EXCEPT !.phase = "extracted"]
    <3>3. new.phase = "extracted"
      BY <3>1 DEF TaskStates, Idle
    <3>4. task' = [task EXCEPT ![t] = new]
      BY <2>5 DEF ExtractEnds
    <3>5. \A q \in Paths : disk[q] # Missing => disk'[q] # Missing
      BY <2>5, <3>2, ProjectConstantsOK DEF ExtractEnds, ProjectTypeOK
    <3>6. \A u \in Tasks : task[u].phase = "extracting" => task[u].hash \in Hashes
      BY DEF ProjectTypeOK, TaskStates, Idle
    <3>. HIDE DEF new
    <3>7. \A u \in Tasks : task'[u].phase = "extracting" => u # t /\ task'[u] = task[u]
      BY <3>3, <3>4 DEF ProjectTypeOK
    <3>. QED BY <3>5, <3>6, <3>7, CachePathType DEF Claimed
  <2>. QED BY <1>3, <2>1, <2>2, <2>3, <2>4, <2>5 DEF TaskStep
<1>4. ASSUME UNCHANGED <<disk, task>> PROVE Claimed' /\ Kept
  BY <1>1, <1>4
<1>5. CASE Command
  <2>1. CASE ClearExtracted \/ ClearFails
    <3>1. \A t \in Tasks : task[t].phase # "extracting"
      BY <2>1 DEF ClearExtracted, ClearFails, WriteLockFree
    <3>2. task' = task
      BY <2>1 DEF ClearExtracted, ClearFails
    <3>. QED BY <3>1, <3>2 DEF Claimed
  <2>2. CASE ~(ClearExtracted \/ ClearFails)
    BY <1>4, <1>5, <2>2 DEF Command, AddSplit, ForceReload, Rebuild, MarkMethod,
       UnmarkMethod, SetMarks, RemoveSlot, SetActive, SetCompare, Commit
  <2>. QED BY <2>1, <2>2
<1>6. CASE SaveTruncates \/ SaveEnds \/ SaveFails
  BY <1>4, <1>6 DEF SaveTruncates, SaveEnds, SaveFails
<1>7. CASE Restart
  BY <1>7 DEF Restart, Idle, Claimed
<1>8. ASSUME NEW p \in Changing, FileChanges(p) PROVE Claimed' /\ Kept
  <2>1. p \notin CachePaths
    BY ProjectConstantsOK
  <2>2. task' = task /\ \A h \in Hashes : disk'[CachePath[h]] = disk[CachePath[h]]
    BY <1>8, <2>1, CachePathType DEF FileChanges, CachePaths, ProjectTypeOK
  <2>. QED BY <1>1, <2>2
<1>9. CASE UNCHANGED vars
  BY <1>4, <1>9 DEF vars
<1>. QED BY <1>3, <1>5, <1>6, <1>7, <1>8, <1>9 DEF Next

\* No wipe of the cache takes a file away from under the command that is
\* writing it, with any number of extractions under way.
THEOREM ExtractionsKeepFiles == Spec => ExtractionKeepsItsFile
<1>1. Init => Claimed
  BY DEF Init, Claimed, Idle
<1>2. Inv /\ Claimed /\ [Next]_vars => Claimed'
  BY ClaimedStep
<1>3. Inv /\ Claimed /\ [Next]_vars
        => [\A t \in Tasks :
              task[t].phase = "extracting" /\ task'[t].phase = "extracting"
                 => disk'[CachePath[task[t].hash]] # Missing]_vars
  BY ClaimedStep
<1>. QED BY <1>1, <1>2, <1>3, Invariant, PTL DEF Spec, ExtractionKeepsItsFile
=============================================================================

----------------------------- MODULE HostProofs -----------------------------
(***************************************************************************)
(* What is proved of the hosts' services: of the scripts and of the        *)
(* durable UI state, for every set of runs, kills, process ids and files;  *)
(* of the web server's shared state, for any number of requests in flight, *)
(* loads and kinds of file; and of the APK builder with the signer behind  *)
(* it, for every APK, set of keys and sequence of repackings and signings. *)
(***************************************************************************)
EXTENDS ScriptRunner, UiState, WebServer, ApkBuild, TLAPS

-----------------------------------------------------------------------------
\* Scripts.

Watched(r) == run[r].phase \in {"waiting", "ended", "failed"}

\* The inductive invariant: an id is recorded only while a run that will clear
\* it is between its recording and its clearing.
PidWatched ==
    /\ ScriptTypeOK
    /\ running_script_pid # NoPid => \E r \in Runs : Watched(r)

LEMMA ScriptInitOK == ScriptInit => PidWatched
<1>. SUFFICES ASSUME ScriptInit PROVE PidWatched
  OBVIOUS
<1>1. run \in [Runs -> [phase : {"none", "started", "spawned", "waiting", "ended",
                                "failed", "answered"},
                       pid : Pids \cup {NoPid}]]
  BY DEF ScriptInit, NoRun
<1>2. kill \in [Kills -> [phase : {"none", "taken"}, pid : Pids \cup {NoPid}]]
  BY DEF ScriptInit, NoKill
<1>3. process \in [Pids -> {"free", "script", "signalled", "zombie"}]
  BY DEF ScriptInit
<1>. QED BY <1>1, <1>2, <1>3 DEF ScriptInit, PidWatched, ScriptTypeOK

\* A run that changes its phase to one of the watched ones, or stays there.
LEMMA ScriptStep == PidWatched /\ [ScriptNext]_scriptVars => PidWatched'
<1>. SUFFICES ASSUME PidWatched, [ScriptNext]_scriptVars PROVE PidWatched'
  OBVIOUS
<1>. USE DEF PidWatched, ScriptTypeOK, Watched
<1>1. ASSUME NEW r \in Runs, StartRun(r) PROVE PidWatched'
  <2>1. run[r].phase = "none" /\ run'[r].phase = "started"
    BY <1>1 DEF StartRun, NoRun
  <2>2. ScriptTypeOK'
    BY <1>1 DEF StartRun
  <2>3. \A q \in Runs : Watched(q) => q # r /\ run'[q] = run[q]
    BY <1>1, <2>1 DEF StartRun
  <2>4. running_script_pid' = running_script_pid
    BY <1>1 DEF StartRun
  <2>. QED BY <2>2, <2>3, <2>4
<1>2. ASSUME NEW r \in Runs, SpawnFails(r) PROVE PidWatched'
  <2>1. run[r].phase = "started" /\ run'[r].phase = "answered"
    BY <1>2 DEF SpawnFails
  <2>2. ScriptTypeOK'
    BY <1>2 DEF SpawnFails
  <2>3. \A q \in Runs : Watched(q) => q # r /\ run'[q] = run[q]
    BY <1>2, <2>1 DEF SpawnFails
  <2>4. running_script_pid' = running_script_pid
    BY <1>2 DEF SpawnFails
  <2>. QED BY <2>2, <2>3, <2>4
<1>3. ASSUME NEW r \in Runs, Spawn(r) PROVE PidWatched'
  BY <1>3 DEF Spawn
<1>4. ASSUME NEW r \in Runs, RecordPid(r) PROVE PidWatched'
  <2>1. run'[r].phase = "waiting" BY <1>4 DEF RecordPid
  <2>. QED BY <1>4, <2>1 DEF RecordPid
<1>5. ASSUME NEW r \in Runs, Reap(r) PROVE PidWatched'
  <2>1. run'[r].phase = "ended" BY <1>5 DEF Reap
  <2>2. ScriptTypeOK'
    <3>1. /\ run' \in [Runs -> [phase : {"none", "started", "spawned", "waiting", "ended",
                                         "failed", "answered"},
                                pid : Pids \cup {NoPid}]]
      BY <1>5 DEF Reap
    <3>. QED BY <1>5, <3>1 DEF Reap
  <2>3. \A q \in Runs : Watched(q) => q = r \/ run'[q] = run[q]
    BY <1>5 DEF Reap
  <2>4. running_script_pid' = running_script_pid
    BY <1>5 DEF Reap
  <2>. QED BY <2>1, <2>2, <2>3, <2>4
<1>6. ASSUME NEW r \in Runs, WaitFails(r) PROVE PidWatched'
  <2>1. run'[r].phase = "failed" BY <1>6 DEF WaitFails
  <2>. QED BY <1>6, <2>1 DEF WaitFails
<1>7. ASSUME NEW r \in Runs, ClearPid(r) PROVE PidWatched'
  BY <1>7 DEF ClearPid, Cleared
<1>8. ASSUME NEW r \in Runs, RunAnswered(r) PROVE PidWatched'
  BY <1>8 DEF RunAnswered, NoRun
<1>9. ASSUME NEW k \in Kills, TakePid(k) PROVE PidWatched'
  BY <1>9 DEF TakePid
<1>10. ASSUME NEW k \in Kills, Signal(k) PROVE PidWatched'
  BY <1>10 DEF Signal, Signalled, NoKill
<1>11. ASSUME NEW p \in Pids, ScriptEnds(p) \/ ReapOrphan(p) PROVE PidWatched'
  BY <1>11 DEF ScriptEnds, ReapOrphan
<1>12. CASE UNCHANGED scriptVars
  BY <1>12 DEF scriptVars
<1>. QED
  BY <1>1, <1>2, <1>3, <1>4, <1>5, <1>6, <1>7, <1>8, <1>9, <1>10, <1>11, <1>12
     DEF ScriptNext, RunGoesOn

\* running_script_pid is cleared by every way out of run_script after the id
\* was recorded: with no run under way there is nothing a stop could signal,
\* for any number of runs and stops in flight.
THEOREM LateKillHarmless == ScriptSpec => []LateKillIsNoOp
<1>1. PidWatched => LateKillIsNoOp
  BY DEF PidWatched, Watched, LateKillIsNoOp
<1>. QED BY <1>1, ScriptInitOK, ScriptStep, PTL DEF ScriptSpec

-----------------------------------------------------------------------------
\* The durable UI state.

WriterSet == [phase : {"none", "sent", "open", "full"}, value : Nat,
              file : Inodes \cup {NoFile}]

UiTypes ==
    /\ name \in [{"tmp", "key"} -> Inodes \cup {NoFile}]
    /\ content \in [Inodes -> Int]
    /\ writer \in [Writers -> WriterSet]
    /\ sets \in Nat
    /\ crossed \in SUBSET Writers
    /\ kept \in Nat
    /\ voided \in BOOLEAN

\* Of two writes under way, both overlapped another one.
CrossingTold ==
    \A v, w \in Writers : writer[v] # Rest /\ writer[w] # Rest /\ v # w => v \in crossed

\* A write that overlapped no other has the temporary file to itself, and its
\* value is in that file by the time it is renamed.
LoneWriter(w) ==
    /\ writer[w].phase = "open" =>
          /\ name["tmp"] = writer[w].file
          /\ content[writer[w].file] = Torn
    /\ writer[w].phase = "full" =>
          /\ name["tmp"] # NoFile
          /\ content[name["tmp"]] = writer[w].value

\* The file of the value that was kept is nobody's to write to.
KeptApart ==
    kept > 0 /\ ~voided =>
        /\ name["key"] # NoFile
        /\ content[name["key"]] = kept
        /\ \A w \in Writers : writer[w].file # name["key"]

\* The inductive invariant.
Orderly ==
    /\ UiTypes
    /\ name["tmp"] # NoFile => name["tmp"] # name["key"]
    /\ \A w \in Writers :
          /\ writer[w].phase = "none" => writer[w] = Rest
          /\ writer[w].phase = "open" => writer[w].file # NoFile
          /\ writer[w].phase \in {"none", "sent", "full"} => writer[w].file = NoFile
    /\ CrossingTold
    /\ \A w \in Writers \ crossed : LoneWriter(w)
    /\ KeptApart

LEMMA UiInitOK == ASSUME UiConstantsOK PROVE UiInit => Orderly
<1>. SUFFICES ASSUME UiInit PROVE Orderly
  OBVIOUS
<1>1. \A w \in Writers : writer[w] = Rest BY DEF UiInit
<1>2. UiTypes
  <2>1. voided \in BOOLEAN BY DEF UiInit
  <2>2. /\ name \in [{"tmp", "key"} -> Inodes \cup {NoFile}]
        /\ content \in [Inodes -> Int]
        /\ sets \in Nat /\ crossed \in SUBSET Writers /\ kept \in Nat
    BY DEF UiInit, Torn
  <2>3. writer \in [Writers -> WriterSet]
    BY DEF UiInit, Rest, WriterSet
  <2>. QED BY <2>1, <2>2, <2>3 DEF UiTypes
<1>3. CrossingTold BY <1>1 DEF CrossingTold
<1>4. \A w \in Writers : LoneWriter(w) BY <1>1 DEF LoneWriter, Rest
<1>5. KeptApart BY DEF UiInit, KeptApart
<1>. QED BY <1>1, <1>2, <1>3, <1>4, <1>5 DEF UiInit, Orderly, Rest

LEMMA UiStep ==
    ASSUME UiConstantsOK
    PROVE  Orderly /\ [UiNext]_uiVars => Orderly'
<1>. SUFFICES ASSUME Orderly, [UiNext]_uiVars PROVE Orderly'
  OBVIOUS
<1>. USE DEF Orderly, UiTypes, WriterSet, diskVars, promiseVars
<1>1. ASSUME NEW w \in Writers, PersistSet(w) PROVE Orderly'
  <2>. DEFINE sent == [phase |-> "sent", value |-> sets + 1, file |-> NoFile]
  <2>1. /\ writer[w] = Rest /\ writer' = [writer EXCEPT ![w] = sent]
        /\ sets' = sets + 1
        /\ crossed' = IF InFlight = {} THEN {} ELSE InFlight \cup {w}
        /\ UNCHANGED <<name, content, kept, voided>>
    BY <1>1 DEF PersistSet
  <2>2. UiTypes' BY <2>1 DEF InFlight
  <2>3. writer'[w] = sent /\ \A v \in Writers : v # w => writer'[v] = writer[v]
    BY <2>1
  <2>4. CrossingTold' BY <2>1, <2>3 DEF CrossingTold, InFlight
  <2>5. ASSUME NEW v \in Writers, v \notin crossed' PROVE LoneWriter(v)'
    <3>1. CASE v = w BY <3>1, <2>3 DEF LoneWriter
    <3>2. CASE v # w
      <4>1. writer'[v] = Rest BY <3>2, <2>1, <2>3, <2>5 DEF InFlight
      <4>. QED BY <4>1 DEF LoneWriter, Rest
    <3>. QED BY <3>1, <3>2
  <2>6. KeptApart'
    <3>1. \A v \in Writers : writer'[v].file = writer[v].file BY <2>1, <2>3 DEF Rest
    <3>. QED BY <3>1, <2>1 DEF KeptApart
  <2>. QED BY <2>1, <2>2, <2>3, <2>4, <2>5, <2>6 DEF Rest
<1>2. ASSUME NEW w \in Writers, OpenFile(w) PROVE Orderly'
  <2>. PICK i \in Inodes :
         /\ IF name["tmp"] = NoFile THEN Unused(i) ELSE i = name["tmp"]
         /\ name' = [name EXCEPT !["tmp"] = i]
         /\ content' = [content EXCEPT ![i] = Torn]
         /\ writer' = [writer EXCEPT ![w].phase = "open", ![w].file = i]
    BY <1>2 DEF OpenFile
  <2>1. /\ i # name["key"] /\ i # NoFile /\ name'["key"] = name["key"] /\ name'["tmp"] = i
        /\ writer[w].phase = "sent" /\ UNCHANGED <<sets, crossed, kept, voided>>
    BY <1>2 DEF Unused, UiConstantsOK, OpenFile
  <2>2. /\ writer'[w].phase = "open" /\ writer'[w].file = i
        /\ writer'[w].value = writer[w].value
        /\ \A v \in Writers : v # w => writer'[v] = writer[v]
    OBVIOUS
  <2>3. UiTypes' BY <2>1 DEF Torn
  <2>4. writer[w] # Rest BY <2>1 DEF Rest
  <2>5. CrossingTold' BY <2>1, <2>2, <2>4 DEF CrossingTold
  <2>6. ASSUME NEW v \in Writers, v \notin crossed' PROVE LoneWriter(v)'
    <3>1. CASE v = w BY <3>1, <2>1, <2>2 DEF LoneWriter
    <3>2. CASE v # w
      <4>1. writer[v] = Rest BY <3>2, <2>1, <2>4, <2>6 DEF CrossingTold
      <4>. QED BY <4>1, <3>2, <2>2 DEF LoneWriter, Rest
    <3>. QED BY <3>1, <3>2
  <2>7. KeptApart'
    <3>. SUFFICES ASSUME kept > 0, ~voided PROVE /\ name["key"] # NoFile
                                                 /\ content'[name["key"]] = kept
                                                 /\ \A v \in Writers : writer'[v].file # name["key"]
      BY <2>1 DEF KeptApart
    <3>1. /\ name["key"] \in Inodes /\ content[name["key"]] = kept
          /\ \A v \in Writers : writer[v].file # name["key"]
      BY DEF KeptApart
    <3>. QED BY <3>1, <2>1, <2>2
  <2>. QED BY <2>1, <2>2, <2>3, <2>5, <2>6, <2>7 DEF Rest
<1>3. ASSUME NEW w \in Writers, FillFile(w) PROVE Orderly'
  <2>. DEFINE f == writer[w].file
  <2>1. writer[w].phase = "open" /\ f \in Inodes BY <1>3 DEF FillFile
  <2>. PICK c \in {writer[w].value, Mixed} :
         /\ c = Mixed => content[f] # Torn
         /\ content' = [content EXCEPT ![f] = c]
    BY <1>3 DEF FillFile
  <2>2. /\ writer' = [writer EXCEPT ![w].phase = "full", ![w].file = NoFile]
        /\ UNCHANGED <<name, sets, crossed, kept, voided>>
    BY <1>3 DEF FillFile
  <2>3. /\ writer'[w].phase = "full" /\ writer'[w].file = NoFile
        /\ writer'[w].value = writer[w].value
        /\ \A v \in Writers : v # w => writer'[v] = writer[v]
    BY <2>2
  <2>4. UiTypes'
    <3>1. c \in Int BY DEF Mixed
    <3>2. writer' \in [Writers -> WriterSet]
      <4>1. [writer[w] EXCEPT !.phase = "full", !.file = NoFile] \in WriterSet
        BY writer[w] \in WriterSet
      <4>. HIDE DEF WriterSet
      <4>. QED BY <4>1, <2>2
    <3>. QED BY <3>1, <3>2, <2>2
  <2>5. writer[w] # Rest BY <2>1 DEF Rest
  <2>6. CrossingTold' BY <2>2, <2>3, <2>5 DEF CrossingTold
  <2>7. ASSUME NEW v \in Writers, v \notin crossed' PROVE LoneWriter(v)'
    <3>1. CASE v = w
      <4>1. name["tmp"] = f /\ content[f] = Torn BY <3>1, <2>1, <2>2, <2>7 DEF LoneWriter
      <4>2. content'[f] = writer[w].value BY <4>1, <2>1
      <4>3. f # NoFile BY <2>1
      <4>. QED BY <3>1, <4>1, <4>2, <4>3, <2>2, <2>3 DEF LoneWriter
    <3>2. CASE v # w
      <4>1. writer[v] = Rest BY <3>2, <2>2, <2>5, <2>7 DEF CrossingTold
      <4>. QED BY <4>1, <3>2, <2>3 DEF LoneWriter, Rest
    <3>. QED BY <3>1, <3>2
  <2>8. KeptApart'
    <3>. SUFFICES ASSUME kept > 0, ~voided PROVE /\ name["key"] # NoFile
                                                 /\ content'[name["key"]] = kept
                                                 /\ \A v \in Writers : writer'[v].file # name["key"]
      BY <2>2 DEF KeptApart
    <3>1. /\ name["key"] # NoFile /\ content[name["key"]] = kept
          /\ \A v \in Writers : writer[v].file # name["key"]
      BY DEF KeptApart
    <3>2. name["key"] \in Inodes BY <3>1
    <3>. QED BY <3>1, <3>2, <2>2, <2>3
  <2>. QED BY <2>2, <2>3, <2>4, <2>6, <2>7, <2>8 DEF Rest
<1>4. ASSUME NEW w \in Writers, FillFails(w) \/ RenameFails(w) PROVE Orderly'
  <2>1. /\ writer' = [writer EXCEPT ![w] = Rest] /\ crossed' = crossed \ {w}
        /\ UNCHANGED <<name, content, sets, kept, voided>>
    BY <1>4 DEF FillFails, RenameFails
  <2>2. UiTypes' BY <2>1 DEF Rest
  <2>3. writer'[w] = Rest /\ \A v \in Writers : v # w => writer'[v] = writer[v] BY <2>1
  <2>4. CrossingTold' BY <2>1, <2>3 DEF CrossingTold
  <2>5. \A v \in Writers \ crossed' : LoneWriter(v)'
    BY <2>1, <2>3 DEF LoneWriter, Rest
  <2>6. KeptApart'
    <3>. SUFFICES ASSUME kept > 0, ~voided PROVE /\ name["key"] # NoFile
                                                 /\ content[name["key"]] = kept
                                                 /\ \A v \in Writers : writer'[v].file # name["key"]
      BY <2>1 DEF KeptApart
    <3>1. Rest.file = NoFile BY DEF Rest
    <3>. QED BY <3>1, <2>3 DEF KeptApart
  <2>. QED BY <2>1, <2>2, <2>3, <2>4, <2>5, <2>6 DEF Rest
<1>5. ASSUME NEW w \in Writers, RenameFile(w) PROVE Orderly'
  <2>1. /\ writer[w].phase = "full" /\ name["tmp"] # NoFile
        /\ name' = [tmp |-> NoFile, key |-> name["tmp"]]
        /\ writer' = [writer EXCEPT ![w] = Rest] /\ crossed' = crossed \ {w}
        /\ UNCHANGED <<content, sets>>
    BY <1>5 DEF RenameFile
  <2>2. name'["tmp"] = NoFile /\ name'["key"] = name["tmp"] BY <2>1
  <2>3. writer'[w] = Rest /\ \A v \in Writers : v # w => writer'[v] = writer[v] BY <2>1
  <2>4. writer[w] # Rest BY <2>1 DEF Rest
  <2>5. UiTypes'
    <3>1. name' \in [{"tmp", "key"} -> Inodes \cup {NoFile}] BY <2>1
    <3>2. Rest \in WriterSet BY DEF Rest
    <3>3. kept' \in Nat BY <1>5 DEF RenameFile
    <3>4. voided' \in BOOLEAN
      <4>1. voided' = TRUE \/ voided' = FALSE BY <1>5 DEF RenameFile
      <4>. QED BY <4>1
    <3>. QED BY <3>1, <3>2, <3>3, <3>4, <2>1
  <2>6. CrossingTold' BY <2>1, <2>3 DEF CrossingTold
  <2>7. ASSUME NEW v \in Writers, v \notin crossed' PROVE LoneWriter(v)'
    <3>1. writer'[v] = Rest
      <4>1. CASE v # w /\ writer[v] # Rest
        BY <4>1, <2>1, <2>4, <2>7 DEF CrossingTold
      <4>. QED BY <4>1, <2>3
    <3>. QED BY <3>1 DEF LoneWriter, Rest
  <2>8. KeptApart'
    <3>1. CASE w \in crossed BY <3>1, <1>5 DEF RenameFile, KeptApart
    <3>2. CASE w \notin crossed
      <4>1. kept' = writer[w].value /\ content[name["tmp"]] = writer[w].value
        BY <3>2, <1>5, <2>1 DEF RenameFile, LoneWriter
      <4>2. \A v \in Writers : writer'[v] = Rest
        BY <3>2, <2>3, <2>4 DEF CrossingTold
      <4>3. Rest.file = NoFile BY DEF Rest
      <4>. QED BY <4>1, <4>2, <4>3, <2>1, <2>2 DEF KeptApart
    <3>. QED BY <3>1, <3>2
  <2>. QED BY <2>1, <2>2, <2>3, <2>5, <2>6, <2>7, <2>8 DEF Rest
<1>6. ASSUME NEW w \in Writers, DeleteFile(w) PROVE Orderly'
  <2>1. /\ name' = [name EXCEPT !["key"] = NoFile] /\ kept' = 0 /\ voided' = FALSE
        /\ UNCHANGED <<content, writer, sets, crossed>>
    BY <1>6 DEF DeleteFile
  <2>2. name'["key"] = NoFile /\ name'["tmp"] = name["tmp"] BY <2>1
  <2>3. KeptApart' BY <2>1 DEF KeptApart
  <2>. QED BY <2>1, <2>2, <2>3 DEF CrossingTold, LoneWriter
<1>7. CASE UiCrash
  <2>1. /\ writer' = [w \in Writers |-> Rest] /\ crossed' = {}
        /\ UNCHANGED <<name, content, sets, kept, voided>>
    BY <1>7 DEF UiCrash
  <2>2. UiTypes' BY <2>1 DEF Rest
  <2>3. \A w \in Writers : writer'[w] = Rest BY <2>1
  <2>. QED BY <2>1, <2>2, <2>3 DEF CrossingTold, LoneWriter, KeptApart, Rest
<1>8. CASE UNCHANGED uiVars
  BY <1>8 DEF uiVars, CrossingTold, LoneWriter, KeptApart
<1>. QED
  BY <1>1, <1>2, <1>3, <1>4, <1>5, <1>6, <1>7, <1>8 DEF UiNext

\* ui_state_write, for any number of writes of the key under way: the newest
\* value whose write overlapped no other is whole on disk after a crash, a full
\* disk or a restart at any point, until the key is deleted or a write that did
\* overlap another is renamed over it.
THEOREM CompletedValuesKept == UiSpec => []DurableKept
<1>1. Orderly => DurableKept
  BY DEF Orderly, KeptApart, DurableKept
<1>. QED BY <1>1, UiInitOK, UiStep, UiConstantsOK, PTL DEF UiSpec
-----------------------------------------------------------------------------
\* The web server.

LoadRequests == [handler : LoadHandlers, next : Nat \ {0}, by : Nat \ {0},
                 fills : [Parts -> BOOLEAN]]
ReadRequests == [handler : ReadHandlers, next : Nat \ {0}, seen : Seq(Nat),
                 since : [WebSlots -> Nat]]

\* What is proved needs nothing of the queues but that a lock is granted to
\* one request, and a write lock to nobody while a reader holds it.
Types ==
    /\ part \in [Parts -> [by : Nat, some : BOOLEAN]]
    /\ request \in [Workers -> Requests]
    /\ loads \in [WebSlots -> Nat]
    /\ mixed \in [WebSlots -> SUBSET Nat]
    /\ answered \in [WebSlots -> Nat]

DexOf(slot) == IF slot = "A" THEN "dex" ELSE "dex_b"

\* A part is the load's, and is there if it is the DEX.
Wrote(n, p) == part[p].by = n /\ (p \in {"dex", "dex_b"} => part[p].some)

\* A load under way that overlapped no other is the latest and the only one,
\* and the parts whose locks it has had are its own.
Alone(w, slot) ==
    /\ request[w].by = loads[slot]
    /\ \A v \in Loading(slot) : v = w
    /\ \A i \in DOMAIN LoadLocks(slot) :
          i < request[w].next => Wrote(request[w].by, LoadLocks(slot)[i])

\* The inductive invariant of a slot.  SettledWhole and FreshReads speak of the
\* time when no load is under way; this says how a load gets there.
SlotInv(slot) ==
    /\ \A w \in Loading(slot) :
          /\ answered[slot] < request[w].by
          /\ request[w].by <= loads[slot]
          /\ request[w].fills[DexOf(slot)]
          /\ request[w].by \notin mixed[slot] => Alone(w, slot)
    /\ loads[slot] \notin mixed[slot] =>
          \/ \E w \in Loading(slot) : request[w].by = loads[slot]
          \/ /\ Loading(slot) = {}
             /\ \A p \in PartsOf(slot) :
                   /\ part[p].by = loads[slot]
                   /\ p \in {"dex", "dex_b"} => part[p].some = (loads[slot] > 0)
    /\ answered[slot] <= loads[slot]
    /\ \A p \in PartsOf(slot) : answered[slot] <= part[p].by /\ part[p].by <= loads[slot]
    /\ slot = "A" /\ {part["dex"].by, part["resources"].by} \cap mixed["A"] = {}
          => part["resources"].by <= part["dex"].by

\* The inductive invariant of a reader: a run still sees the code that it read
\* under the resources' lock, for it has the guard on it.
ReaderInv(w) ==
    LET r == request[w] IN
    r.handler \in ReadHandlers =>
        /\ Len(r.seen) = r.next - 1
        /\ r.next <= Len(Locks[r.handler]) + 1
        /\ \A slot \in WebSlots : r.since[slot] <= answered[slot]
        /\ \A i \in DOMAIN r.seen : r.since[SlotOf(Locks[r.handler][i])] <= r.seen[i]
        /\ r.handler = "run" =>
              /\ r.next = 2 => r.seen[1] = part["dex"].by
              /\ r.next = 3 /\ {r.seen[1], r.seen[2]} \cap mixed["A"] = {}
                    => r.seen[2] <= r.seen[1]

WebInv ==
    /\ Types
    /\ \A slot \in WebSlots : SlotInv(slot)
    /\ \A w \in Workers : ReaderInv(w)

-----------------------------------------------------------------------------
\* Handlers and locks.

LEMMA HandlerKinds ==
    /\ LoadHandlers = {"load", "upload", "load_b", "upload_b"}
    /\ LoadHandlers \cap ReadHandlers = {}
    /\ "none" \notin LoadHandlers \cup ReadHandlers
    /\ "refused" \notin LoadHandlers \cup ReadHandlers
    /\ LoadsOf("A") \cap LoadsOf("B") = {}
BY DEF LoadHandlers, ReadHandlers, LoadsOf

LEMMA LoadTable ==
    ASSUME NEW slot \in WebSlots, NEW h \in LoadsOf(slot)
    PROVE  Locks[h] = LoadLocks(slot)
<1>1. h \in LoadHandlers \cup ReadHandlers \cup {"none", "refused"}
  BY DEF LoadHandlers, WebSlots
<1>2. LocksOf(h) = LoadLocks(slot)
  BY DEF LocksOf, LoadsOf, WebSlots
<1>. QED BY <1>1, <1>2 DEF Locks

LEMMA ReadTable ==
    /\ Locks["run"] = <<"dex", "resources">>
    /\ \A h \in ReadHandlers :
          \/ \E p \in Parts : Locks[h] = <<p>>
          \/ h = "run"
<1>1. \A h \in ReadHandlers : Locks[h] = LocksOf(h)
  BY DEF Locks
<1>2. LocksOf("run") = <<"dex", "resources">>
  BY DEF LocksOf, LoadsOf, RunLocks
<1>3. /\ LocksOf("code") = <<"dex">>
      /\ LocksOf("code_b") = <<"dex_b">>
      /\ LocksOf("manifest") = <<"manifest">>
      /\ LocksOf("resources") = <<"resources">>
      /\ LocksOf("entry") = <<"path">>
  BY DEF LocksOf, LoadsOf
<1>4. ASSUME NEW h \in ReadHandlers, h # "run" PROVE \E p \in Parts : LocksOf(h) = <<p>>
  BY <1>3, <1>4 DEF ReadHandlers, Parts
<1>. QED BY <1>1, <1>2, <1>4 DEF ReadHandlers

\* The locks of a reader are locks of parts.
LEMMA ReadLocks ==
    ASSUME NEW h \in ReadHandlers
    PROVE  /\ Len(Locks[h]) \in 1..2
           /\ \A i \in 1..Len(Locks[h]) : Locks[h][i] \in Parts
<1>1. CASE h = "run"
  BY <1>1, ReadTable DEF Parts
<1>2. CASE h # "run"
  <2>1. PICK p \in Parts : Locks[h] = <<p>>
    BY <1>2, ReadTable
  <2>. QED BY <2>1
<1>. QED BY <1>1, <1>2

\* A load takes the lock of every part of its slot, and of no other.
LEMMA LoadLocksCover ==
    ASSUME NEW slot \in WebSlots
    PROVE  /\ Len(LoadLocks(slot)) \in Nat
           /\ DOMAIN LoadLocks(slot) = 1..Len(LoadLocks(slot))
           /\ \A i \in DOMAIN LoadLocks(slot) : LoadLocks(slot)[i] \in PartsOf(slot)
           /\ \A p \in PartsOf(slot) : \E i \in DOMAIN LoadLocks(slot) : LoadLocks(slot)[i] = p
           /\ PartsOf(slot) \subseteq Parts
<1>1. PartsOf("A") = {"path", "dex", "resources", "manifest"}
  BY DEF PartsOf, Parts, SlotOf
<1>2. PartsOf("B") = {"path_b", "dex_b"}
  BY DEF PartsOf, Parts, SlotOf
<1>3. CASE slot = "A"
  <2>1. LoadLocks(slot) = <<"path", "dex", "resources", "manifest">>
    BY <1>3 DEF LoadLocks
  <2>2. DOMAIN LoadLocks(slot) = 1..4 /\ Len(LoadLocks(slot)) = 4
    BY <2>1
  <2>3. /\ LoadLocks(slot)[1] = "path" /\ LoadLocks(slot)[2] = "dex"
        /\ LoadLocks(slot)[3] = "resources" /\ LoadLocks(slot)[4] = "manifest"
    BY <2>1
  <2>4. \A i \in 1..4 : i = 1 \/ i = 2 \/ i = 3 \/ i = 4
    OBVIOUS
  <2>5. \A i \in DOMAIN LoadLocks(slot) : LoadLocks(slot)[i] \in PartsOf(slot)
    BY <1>1, <1>3, <2>2, <2>3, <2>4
  <2>6. ASSUME NEW p \in PartsOf(slot)
        PROVE  \E i \in DOMAIN LoadLocks(slot) : LoadLocks(slot)[i] = p
    <3>1. p \in {"path", "dex", "resources", "manifest"}
      BY <1>1, <1>3
    <3>. QED BY <3>1, <2>2, <2>3
  <2>. QED BY <2>2, <2>5, <2>6 DEF PartsOf
<1>4. CASE slot = "B"
  <2>1. LoadLocks(slot) = <<"path_b", "dex_b">>
    BY <1>4 DEF LoadLocks
  <2>2. DOMAIN LoadLocks(slot) = 1..2 /\ Len(LoadLocks(slot)) = 2
    BY <2>1
  <2>3. LoadLocks(slot)[1] = "path_b" /\ LoadLocks(slot)[2] = "dex_b"
    BY <2>1
  <2>4. \A i \in 1..2 : i = 1 \/ i = 2
    OBVIOUS
  <2>5. \A i \in DOMAIN LoadLocks(slot) : LoadLocks(slot)[i] \in PartsOf(slot)
    BY <1>2, <1>4, <2>2, <2>3, <2>4
  <2>6. ASSUME NEW p \in PartsOf(slot)
        PROVE  \E i \in DOMAIN LoadLocks(slot) : LoadLocks(slot)[i] = p
    <3>1. p \in {"path_b", "dex_b"}
      BY <1>2, <1>4
    <3>. QED BY <3>1, <2>2, <2>3
  <2>. QED BY <2>2, <2>5, <2>6 DEF PartsOf
<1>. QED BY <1>3, <1>4 DEF WebSlots

LEMMA RequestKinds ==
    ASSUME Types, NEW w \in Workers
    PROVE  /\ request[w].handler \in LoadHandlers => request[w] \in LoadRequests
           /\ request[w].handler \in ReadHandlers => request[w] \in ReadRequests
<1>1. request[w] \in Requests
  BY DEF Types
<1>2. CASE request[w] = Free
  BY <1>2, HandlerKinds DEF Free
<1>3. CASE request[w] \in [handler : {"refused"}, next : {1}]
  BY <1>3, HandlerKinds
<1>4. CASE request[w] \in LoadRequests
  BY <1>4, HandlerKinds DEF LoadRequests
<1>5. CASE request[w] \in ReadRequests
  BY <1>5, HandlerKinds DEF ReadRequests
<1>. QED BY <1>1, <1>2, <1>3, <1>4, <1>5 DEF Requests, LoadRequests, ReadRequests

-----------------------------------------------------------------------------
\* Types.

LEMMA InitTypes == WebInit => WebInv
<1>. SUFFICES ASSUME WebInit PROVE WebInv
  OBVIOUS
<1>1. Types
  BY DEF WebInit, Types, Requests
<1>2. \A w \in Workers : request[w].handler = "none"
  BY DEF WebInit, Free
<1>3. ASSUME NEW w \in Workers PROVE ReaderInv(w)
  BY <1>2, HandlerKinds DEF ReaderInv
<1>4. ASSUME NEW slot \in WebSlots PROVE SlotInv(slot)
  <2>1. Loading(slot) = {}
    BY <1>2, HandlerKinds DEF Loading, LoadHandlers, WebSlots, LoadsOf
  <2>2. \A p \in Parts : part[p].by = 0 /\ part[p].some = FALSE
    BY DEF WebInit
  <2>3. {"dex", "resources"} \subseteq Parts
    BY DEF Parts
  <2>4. loads[slot] = 0 /\ answered[slot] = 0
    BY DEF WebInit
  <2>5. ASSUME NEW p \in PartsOf(slot)
        PROVE  /\ part[p].by = loads[slot]
               /\ part[p].some = (loads[slot] > 0)
    <3>1. p \in Parts
      BY LoadLocksCover
    <3>2. (loads[slot] > 0) = FALSE
      BY <2>4
    <3>. QED BY <2>2, <2>4, <3>1, <3>2
  <2>6. part["resources"].by <= part["dex"].by
    BY <2>2, <2>3
  <2>. QED BY <2>1, <2>4, <2>5, <2>6 DEF SlotInv
<1>. QED BY <1>1, <1>3, <1>4 DEF WebInv

LEMMA NextLockType ==
    ASSUME Types, NEW w \in Workers, Lacks(w),
           request[w].handler \in LoadHandlers \cup ReadHandlers
    PROVE  /\ request[w].next \in Nat \ {0}
           /\ request[w].next \in 1..Len(Locks[request[w].handler])
           /\ NextLock(w) \in Parts
<1>1. CASE request[w].handler \in LoadHandlers
  <2>1. PICK slot \in WebSlots : request[w].handler \in LoadsOf(slot)
    BY <1>1 DEF LoadHandlers, WebSlots
  <2>2. Locks[request[w].handler] = LoadLocks(slot)
    BY <2>1, LoadTable
  <2>3. request[w].next \in Nat \ {0}
    BY <1>1, RequestKinds DEF LoadRequests
  <2>4. request[w].next \in DOMAIN LoadLocks(slot)
    BY <2>2, <2>3, LoadLocksCover DEF Lacks
  <2>. QED BY <2>2, <2>3, <2>4, LoadLocksCover DEF NextLock
<1>2. CASE request[w].handler \in ReadHandlers
  <2>1. request[w].next \in Nat \ {0}
    BY <1>2, RequestKinds DEF ReadRequests
  <2>2. request[w].next \in 1..Len(Locks[request[w].handler])
    BY <1>2, <2>1, ReadLocks DEF Lacks
  <2>. QED BY <1>2, <2>1, <2>2, ReadLocks DEF NextLock
<1>. QED BY <1>1, <1>2

\* What a granted write lock changes.
LEMMA WriteStep ==
    ASSUME Types, NEW w \in Workers, Write(w)
    PROVE  /\ part' = [part EXCEPT ![NextLock(w)] =
                          [by |-> request[w].by, some |-> request[w].fills[NextLock(w)]]]
           /\ NextLock(w) \in Parts
           /\ request[w] \in LoadRequests
           /\ request'[w] = [request[w] EXCEPT !.next = @ + 1]
           /\ request'[w] \in LoadRequests
           /\ request'[w].next = request[w].next + 1
           /\ request'[w].by = request[w].by
           /\ request'[w].fills = request[w].fills
           /\ request'[w].handler = request[w].handler
           /\ \A v \in Workers : v # w => request'[v] = request[v]
           /\ UNCHANGED <<loads, mixed, answered>>
           /\ Types'
<1>1. request[w].handler \in LoadHandlers /\ Lacks(w)
  BY DEF Write, IsLoad
<1>2. request[w] \in LoadRequests
  BY <1>1, RequestKinds
<1>3. NextLock(w) \in Parts
  BY <1>1, NextLockType
<1>4. /\ part' = [part EXCEPT ![NextLock(w)] =
                     [by |-> request[w].by, some |-> request[w].fills[NextLock(w)]]]
      /\ request' = [request EXCEPT ![w].next = @ + 1]
      /\ UNCHANGED <<loads, mixed, answered>>
  BY DEF Write, Stored
<1>5. request \in [Workers -> Requests]
  BY DEF Types
<1>6. request'[w] = [request[w] EXCEPT !.next = @ + 1]
  BY <1>4, <1>5
<1>7. request'[w] \in LoadRequests
  BY <1>2, <1>6 DEF LoadRequests
<1>8. request' \in [Workers -> Requests]
  <2>1. request'[w] \in Requests
    BY <1>7 DEF LoadRequests, Requests
  <2>. QED BY <1>4, <1>5, <2>1
<1>9. part' \in [Parts -> [by : Nat, some : BOOLEAN]]
  BY <1>2, <1>3, <1>4 DEF Types, LoadRequests
<1>. QED BY <1>2, <1>3, <1>4, <1>5, <1>6, <1>7, <1>8, <1>9, SMTT(40) DEF Types, LoadRequests

\* What a granted read lock changes.
LEMMA ReadStep ==
    ASSUME Types, NEW w \in Workers, Read(w)
    PROVE  /\ NextLock(w) \in Parts
           /\ request[w] \in ReadRequests
           /\ request'[w] \in ReadRequests
           /\ request'[w].next = request[w].next + 1
           /\ request'[w].seen = Append(request[w].seen, part[NextLock(w)].by)
           /\ request'[w].since = request[w].since
           /\ request'[w].handler = request[w].handler
           /\ \A v \in Workers : v # w => request'[v] = request[v]
           /\ UNCHANGED <<part, loads, mixed, answered>>
           /\ Types'
<1>1. request[w].handler \in ReadHandlers /\ Lacks(w)
  BY DEF Read
<1>2. request[w] \in ReadRequests
  BY <1>1, RequestKinds
<1>3. NextLock(w) \in Parts
  BY <1>1, NextLockType
<1>4. /\ request' = [request EXCEPT ![w].next = @ + 1,
                                   ![w].seen = Append(@, part[NextLock(w)].by)]
      /\ UNCHANGED <<part, loads, mixed, answered>>
  BY DEF Read
<1>5. request \in [Workers -> Requests]
  BY DEF Types
<1>6. part[NextLock(w)].by \in Nat
  BY <1>3 DEF Types
<1>7. request'[w] = [[request[w] EXCEPT !.next = @ + 1]
                        EXCEPT !.seen = Append(@, part[NextLock(w)].by)]
  BY <1>4, <1>5
<1>8. request'[w] \in ReadRequests
  <2>. DEFINE turned == [request[w] EXCEPT !.next = @ + 1]
  <2>1. turned \in ReadRequests /\ turned.seen \in Seq(Nat)
    BY <1>2, SMTT(40) DEF ReadRequests
  <2>2. Append(turned.seen, part[NextLock(w)].by) \in Seq(Nat)
    BY <1>6, <2>1
  <2>. HIDE DEF turned
  <2>3. [turned EXCEPT !.seen = Append(@, part[NextLock(w)].by)] \in ReadRequests
    BY <2>1, <2>2 DEF ReadRequests
  <2>. QED BY <1>7, <2>3 DEF turned
<1>9. request' \in [Workers -> Requests]
  <2>1. request'[w] \in Requests
    BY <1>8 DEF ReadRequests, Requests
  <2>. QED BY <1>4, <1>5, <2>1
<1>. QED BY <1>2, <1>3, <1>4, <1>5, <1>7, <1>8, <1>9, SMTT(40) DEF Types, ReadRequests

\* What the arrival of a reader changes.
LEMMA ArriveReadStep ==
    ASSUME Types, NEW w \in Workers, NEW h \in ReadHandlers, ArriveRead(w, h)
    PROVE  /\ request[w] = Free
           /\ request'[w] = [handler |-> h, next |-> 1, seen |-> <<>>, since |-> answered]
           /\ \A v \in Workers : v # w => request'[v] = request[v]
           /\ UNCHANGED <<part, loads, mixed, answered>>
           /\ Types'
<1>1. [handler |-> h, next |-> 1, seen |-> <<>>, since |-> answered] \in Requests
  BY DEF Types, Requests
<1>. QED BY <1>1 DEF ArriveRead, Types

\* The slot that a load is for, and the other one.
LEMMA LoadSlots ==
    ASSUME NEW h \in LoadHandlers
    PROVE  \E slot \in WebSlots :
              /\ h \in LoadsOf(slot)
              /\ slot = (IF h \in LoadsOf("A") THEN "A" ELSE "B")
              /\ \A other \in WebSlots : other # slot => h \notin LoadsOf(other)
BY DEF LoadHandlers, WebSlots, LoadsOf

\* A file that is not refused has a DEX.
LEMMA AcceptedHasDex ==
    ASSUME NEW h \in LoadHandlers, NEW f \in WebFiles, ~Refuses(h, f)
    PROVE  /\ Fills(h, f) \in [Parts -> BOOLEAN]
           /\ Fills(h, f)["dex"] = TRUE
           /\ Fills(h, f)["dex_b"] = TRUE
<1>. DEFINE zip == f.name = "dir" \/ AsZip(h, f)
            fill(p) == CASE p \in {"path", "path_b"} -> TRUE
                         [] p \in {"dex", "dex_b"}   -> ~zip \/ f.dex
                         [] p = "resources"          -> zip /\ f.resources
                         [] p = "manifest"           -> zip /\ f.manifest
<1>1. Fills(h, f) = [p \in Parts |-> fill(p)]
  BY DEF Fills
<1>2. f \in FileRecords
  BY WebConstantsOK
<1>3. f.dex \in BOOLEAN /\ f.resources \in BOOLEAN /\ f.manifest \in BOOLEAN
  BY <1>2 DEF FileRecords
<1>4. zip \in BOOLEAN
  BY DEF AsZip
<1>. HIDE DEF zip
<1>5. \A p \in Parts : fill(p) \in BOOLEAN
  <2>. SUFFICES ASSUME NEW p \in Parts PROVE fill(p) \in BOOLEAN
    OBVIOUS
  <2>1. CASE p \in {"path", "path_b"}
    BY <2>1
  <2>2. CASE p \in {"dex", "dex_b"}
    BY <2>2, <1>3, <1>4
  <2>3. CASE p = "resources"
    BY <2>3, <1>3, <1>4
  <2>4. CASE p = "manifest"
    BY <2>4, <1>3, <1>4
  <2>. QED BY <2>1, <2>2, <2>3, <2>4 DEF Parts
<1>6. ~zip \/ f.dex
  BY DEF Refuses, zip
<1>7. fill("dex") = TRUE /\ fill("dex_b") = TRUE
  BY <1>6
<1>. QED BY <1>1, <1>5, <1>7, ZenonT(60) DEF Parts

\* What the arrival of a load changes: nothing of any slot if it is refused.
LEMMA ArriveRefused ==
    ASSUME Types, NEW w \in Workers, NEW h \in LoadHandlers, NEW f \in WebFiles,
           ArriveLoad(w, h, f), Refuses(h, f)
    PROVE  /\ request[w] = Free
           /\ request'[w].handler = "refused"
           /\ \A v \in Workers : v # w => request'[v] = request[v]
           /\ UNCHANGED <<part, loads, mixed, answered>>
           /\ Types'
<1>1. [handler |-> "refused", next |-> 1] \in Requests
  BY DEF Requests
<1>. QED BY <1>1 DEF ArriveLoad, Types

LEMMA ArriveAccepted ==
    ASSUME Types, NEW w \in Workers, NEW h \in LoadHandlers, NEW f \in WebFiles,
           ArriveLoad(w, h, f), ~Refuses(h, f), NEW slot \in WebSlots, h \in LoadsOf(slot)
    PROVE  /\ request[w] = Free
           /\ request'[w] = [handler |-> h, next |-> 1,
                             by |-> loads[slot] + 1, fills |-> Fills(h, f)]
           /\ \A v \in Workers : v # w => request'[v] = request[v]
           /\ loads'[slot] = loads[slot] + 1
           /\ mixed'[slot] = IF Loading(slot) = {} THEN mixed[slot]
                             ELSE mixed[slot] \cup {loads[slot] + 1}
                                    \cup {request[v].by : v \in Loading(slot)}
           /\ \A other \in WebSlots : other # slot =>
                 loads'[other] = loads[other] /\ mixed'[other] = mixed[other]
           /\ UNCHANGED <<part, answered>>
           /\ Types'
<1>1. slot = (IF h \in LoadsOf("A") THEN "A" ELSE "B")
  BY DEF LoadsOf, WebSlots
<1>. DEFINE n == loads[slot] + 1
            load == [handler |-> h, next |-> 1, by |-> n, fills |-> Fills(h, f)]
            more == IF Loading(slot) = {} THEN mixed[slot]
                    ELSE mixed[slot] \cup {n} \cup {request[v].by : v \in Loading(slot)}
<1>2. /\ request[w] = Free
      /\ loads' = [loads EXCEPT ![slot] = n]
      /\ request' = [request EXCEPT ![w] = load]
      /\ mixed' = [mixed EXCEPT ![slot] = more]
      /\ UNCHANGED <<part, answered>>
  BY <1>1 DEF ArriveLoad
<1>3. n \in Nat \ {0}
  BY DEF Types
<1>4. load \in Requests
  <2>1. Fills(h, f) \in [Parts -> BOOLEAN]
    BY AcceptedHasDex
  <2>. HIDE DEF n
  <2>2. load \in [handler : LoadHandlers, next : Nat \ {0}, by : Nat \ {0},
                  fills : [Parts -> BOOLEAN]]
    BY <1>3, <2>1
  <2>. HIDE DEF load
  <2>. QED BY <2>2 DEF Requests
<1>5. ASSUME NEW v \in Loading(slot) PROVE request[v].by \in Nat
  <2>1. v \in Workers /\ request[v].handler \in LoadHandlers
    BY DEF Loading, LoadHandlers, WebSlots
  <2>. QED BY <2>1, RequestKinds DEF LoadRequests
<1>6. mixed[slot] \in SUBSET Nat
  BY DEF Types
<1>. HIDE DEF n, load
<1>7. more \in SUBSET Nat
  BY <1>3, <1>5, <1>6
<1>. HIDE DEF more
<1>8. Types'
  BY <1>2, <1>3, <1>4, <1>7 DEF Types
<1>9. /\ request'[w] = load
      /\ \A v \in Workers : v # w => request'[v] = request[v]
      /\ loads'[slot] = n
      /\ mixed'[slot] = more
      /\ \A other \in WebSlots : other # slot =>
            loads'[other] = loads[other] /\ mixed'[other] = mixed[other]
  BY <1>2 DEF Types
<1>. QED BY <1>2, <1>8, <1>9 DEF n, load, more

\* What an answer changes.
LEMMA AnswerStep ==
    ASSUME Types, NEW w \in Workers, Answer(w)
    PROVE  /\ request[w] # Free
           /\ ~Lacks(w)
           /\ request'[w] = Free
           /\ \A v \in Workers : v # w => request'[v] = request[v]
           /\ \A slot \in WebSlots :
                 answered'[slot] = IF w \in Loading(slot) /\ request[w].by \notin mixed[slot]
                                   THEN request[w].by ELSE answered[slot]
           /\ UNCHANGED <<part, loads, mixed>>
           /\ Types'
<1>1. /\ request[w] # Free
      /\ ~Lacks(w)
      /\ request' = [request EXCEPT ![w] = Free]
      /\ answered' = [slot \in WebSlots |->
                        IF w \in Loading(slot) /\ request[w].by \notin mixed[slot]
                        THEN request[w].by ELSE answered[slot]]
      /\ UNCHANGED <<part, loads, mixed>>
  BY DEF Answer
<1>2. Free \in Requests
  BY DEF Requests
<1>3. ASSUME NEW slot \in WebSlots, w \in Loading(slot) PROVE request[w].by \in Nat
  <2>1. request[w].handler \in LoadHandlers
    BY <1>3 DEF Loading, LoadHandlers, WebSlots
  <2>. QED BY <2>1, RequestKinds DEF LoadRequests
<1>4. answered' \in [WebSlots -> Nat]
  BY <1>1, <1>3 DEF Types
<1>. QED BY <1>1, <1>2, <1>4 DEF Types

-----------------------------------------------------------------------------
\* The slots.

\* What SlotInv knows of a load that is under way.
LEMMA LoaderFacts ==
    ASSUME Types, NEW slot \in WebSlots, NEW w \in Loading(slot)
    PROVE  /\ w \in Workers
           /\ request[w] \in LoadRequests
           /\ request[w].by \in Nat \ {0}
           /\ Locks[request[w].handler] = LoadLocks(slot)
           /\ request[w] # Free
<1>1. w \in Workers /\ request[w].handler \in LoadsOf(slot)
  BY DEF Loading
<1>2. request[w].handler \in LoadHandlers
  BY <1>1 DEF LoadHandlers, WebSlots
<1>3. request[w] \in LoadRequests
  BY <1>1, <1>2, RequestKinds
<1>. QED BY <1>1, <1>2, <1>3, LoadTable, HandlerKinds DEF LoadRequests, Free

\* A step that touches neither the parts nor the loads of a slot.
LEMMA SameSlot ==
    ASSUME NEW slot \in WebSlots, SlotInv(slot),
           \A p \in PartsOf(slot) : part'[p] = part[p],
           loads'[slot] = loads[slot],
           mixed'[slot] = mixed[slot],
           answered'[slot] = answered[slot],
           Loading(slot)' = Loading(slot),
           \A v \in Loading(slot) : request'[v] = request[v]
    PROVE  SlotInv(slot)'
<1>1. \A i \in DOMAIN LoadLocks(slot) : LoadLocks(slot)[i] \in PartsOf(slot)
  BY LoadLocksCover
<1>2. ASSUME NEW v \in Loading(slot), Alone(v, slot) PROVE Alone(v, slot)'
  BY <1>1, <1>2 DEF Alone, Wrote
<1>3. slot = "A" => {"dex", "resources"} \subseteq PartsOf(slot)
  BY DEF PartsOf, Parts, SlotOf
<1>. QED BY <1>2, <1>3 DEF SlotInv

\* Which requests load does not change when one that does not load becomes
\* another that does not.
LEMMA SameLoading ==
    ASSUME NEW slot \in WebSlots, NEW w \in Workers,
           \A v \in Workers : v # w => request'[v] = request[v],
           request[w].handler \notin LoadsOf(slot),
           request'[w].handler \notin LoadsOf(slot)
    PROVE  /\ Loading(slot)' = Loading(slot)
           /\ \A v \in Loading(slot) : request'[v] = request[v]
BY DEF Loading

LEMMA OneSlot ==
    ASSUME NEW slot \in WebSlots, NEW other \in WebSlots, other # slot
    PROVE  /\ LoadsOf(slot) \cap LoadsOf(other) = {}
           /\ PartsOf(slot) \cap PartsOf(other) = {}
BY DEF WebSlots, LoadsOf, PartsOf

\* Neither free nor refused requests, nor readers, load.
LEMMA NotLoads ==
    ASSUME NEW slot \in WebSlots
    PROVE  /\ Free.handler \notin LoadsOf(slot)
           /\ "refused" \notin LoadsOf(slot)
           /\ ReadHandlers \cap LoadsOf(slot) = {}
BY DEF Free, LoadsOf, ReadHandlers, WebSlots

LEMMA WriteSlot ==
    ASSUME Types, NEW slot \in WebSlots, SlotInv(slot), NEW w \in Workers, Write(w)
    PROVE  SlotInv(slot)'
<1>. DEFINE p == NextLock(w)
            n == request[w].by
<1>1. PICK own \in WebSlots : request[w].handler \in LoadsOf(own)
  BY DEF Write, IsLoad, LoadHandlers, WebSlots
<1>2. w \in Loading(own)
  BY <1>1 DEF Loading
<1>3. p \in PartsOf(own)
  <2>1. Locks[request[w].handler] = LoadLocks(own)
    BY <1>1, LoadTable
  <2>2. request[w].next \in DOMAIN LoadLocks(own)
    BY <2>1, NextLockType, WriteStep, LoadLocksCover, ZenonT(60) DEF LoadRequests, Write
  <2>. QED BY <2>1, <2>2, LoadLocksCover DEF NextLock
<1>4. /\ \A q \in Parts : q # p => part'[q] = part[q]
      /\ part'[p] = [by |-> n, some |-> request[w].fills[p]]
  BY WriteStep, ZenonT(60) DEF Types
<1>5. PartsOf(slot) \subseteq Parts
  BY LoadLocksCover
<1>6. Loading(slot)' = Loading(slot)
  BY WriteStep DEF Loading
<1>7. CASE own # slot
  <2>1. w \notin Loading(slot)
    BY <1>1, <1>7, OneSlot DEF Loading
  <2>2. \A v \in Loading(slot) : request'[v] = request[v]
    BY <2>1, WriteStep DEF Loading
  <2>3. \A q \in PartsOf(slot) : part'[q] = part[q]
    BY <1>3, <1>4, <1>5, <1>7, OneSlot
  <2>. QED BY <1>6, <2>2, <2>3, WriteStep, SameSlot
<1>8. CASE own = slot
  <2>. DEFINE L == LoadLocks(slot)
  <2>1. /\ w \in Loading(slot) /\ p \in PartsOf(slot)
        /\ n \in Nat \ {0}
        /\ loads[slot] \in Nat /\ answered[slot] \in Nat
        /\ answered[slot] < n /\ n <= loads[slot]
        /\ request[w].fills[DexOf(slot)]
    BY <1>2, <1>3, <1>8, LoaderFacts DEF SlotInv, Types
  <2>2. \A v \in Loading(slot) : /\ request'[v].by = request[v].by
                                 /\ request'[v].fills = request[v].fills
                                 /\ v # w => request'[v] = request[v]
    BY WriteStep, ZenonT(60) DEF Loading
  <2>3. /\ loads'[slot] = loads[slot] /\ mixed'[slot] = mixed[slot]
        /\ answered'[slot] = answered[slot] /\ mixed' = mixed
    BY WriteStep
  <2>4. request[w].next \in DOMAIN L /\ L[request[w].next] = p
    <3>1. Locks[request[w].handler] = L
      BY <1>1, <1>8, LoadTable
    <3>. QED BY <3>1, NextLockType, WriteStep, LoadLocksCover, ZenonT(60) DEF LoadRequests, Write, NextLock
  <2>5. /\ DOMAIN L = 1..Len(L) /\ Len(L) \in Nat
        /\ \A i \in DOMAIN L : L[i] \in PartsOf(slot)
    BY LoadLocksCover
  <2>6. ASSUME p \in {"dex", "dex_b"} PROVE p = DexOf(slot)
    BY <2>1, <2>6 DEF PartsOf, SlotOf, DexOf, WebSlots
  <2>. HIDE DEF L, p
  <2>7. ASSUME n \notin mixed[slot] PROVE Alone(w, slot)'
    <3>1. Alone(w, slot)
      BY <2>1, <2>7 DEF SlotInv
    <3>2. ASSUME NEW i \in DOMAIN L, i < request'[w].next
          PROVE  part'[L[i]].by = n /\ (L[i] \in {"dex", "dex_b"} => part'[L[i]].some)
      <4>1. CASE L[i] = p
        BY <1>4, <2>1, <2>6, <4>1
      <4>2. CASE L[i] # p
        <5>1. i < request[w].next
          <6>1. request'[w].next = request[w].next + 1
            BY WriteStep
          <6>2. i \in Nat /\ request[w].next \in Nat
            BY <2>4, <2>5
          <6>3. i # request[w].next
            BY <2>4, <4>2
          <6>. QED BY <3>2, <6>1, <6>2, <6>3
        <5>2. Wrote(n, L[i])
          BY <3>1, <5>1 DEF Alone, L
        <5>3. L[i] \in Parts
          BY <1>5, <2>5
        <5>. QED BY <1>4, <4>2, <5>2, <5>3 DEF Wrote
      <4>. QED BY <4>1, <4>2
    <3>3. \A i \in DOMAIN LoadLocks(slot) :
             i < request'[w].next => Wrote(request[w].by, LoadLocks(slot)[i])'
      BY <2>1, <2>2, <3>2 DEF Wrote, L
    <3>. QED BY <1>6, <2>1, <2>2, <2>3, <3>1, <3>3 DEF Alone
  <2>8. ASSUME NEW v \in Loading(slot)', (request[v].by \notin mixed[slot])'
        PROVE  Alone(v, slot)'
    <3>1. v \in Loading(slot) /\ request[v].by \notin mixed[slot]
      BY <1>6, <2>2, <2>3, <2>8
    <3>2. Alone(v, slot)
      BY <3>1 DEF SlotInv
    <3>3. v = w
      BY <2>1, <3>2 DEF Alone
    <3>. QED BY <2>7, <3>1, <3>3
  <2>9. ASSUME NEW v \in Loading(slot)'
        PROVE  (/\ answered[slot] < request[v].by
                /\ request[v].by <= loads[slot]
                /\ request[v].fills[DexOf(slot)])'
    BY <1>6, <2>2, <2>3 DEF SlotInv
  <2>10. ASSUME (loads[slot] \notin mixed[slot])'
         PROVE  (\E v \in Loading(slot) : request[v].by = loads[slot])'
    <3>1. \E v \in Loading(slot) : request[v].by = loads[slot]
      BY <2>1, <2>3, <2>10 DEF SlotInv
    <3>. QED BY <1>6, <2>2, <2>3, <3>1
  <2>11. ASSUME NEW q \in PartsOf(slot)
         PROVE  (answered[slot] <= part[q].by /\ part[q].by <= loads[slot])'
    <3>1. CASE q = p
      BY <1>4, <2>1, <2>3, <3>1
    <3>2. CASE q # p
      BY <1>4, <1>5, <2>3, <3>2 DEF SlotInv
    <3>. QED BY <3>1, <3>2
  <2>12. ASSUME slot = "A", ({part["dex"].by, part["resources"].by} \cap mixed["A"] = {})'
         PROVE  (part["resources"].by <= part["dex"].by)'
    <3>1. {"dex", "resources"} \subseteq PartsOf(slot)
      BY <2>12 DEF PartsOf, Parts, SlotOf
    <3>2. CASE p = "dex"
      <4>1. n \notin mixed[slot]
        BY <1>4, <2>3, <2>12, <3>2
      <4>2. n = loads[slot]
        BY <2>1, <4>1 DEF SlotInv, Alone
      <4>3. part'["dex"].by = loads[slot]
        BY <1>4, <3>2, <4>2
      <4>. QED BY <2>3, <2>11, <3>1, <4>3
    <3>3. CASE p = "resources"
      <4>1. n \notin mixed[slot]
        BY <1>4, <2>3, <2>12, <3>3
      <4>2. Alone(w, slot)
        BY <2>1, <4>1 DEF SlotInv
      <4>3. L = <<"path", "dex", "resources", "manifest">>
        BY <2>12 DEF L, LoadLocks
      <4>4. /\ DOMAIN L = 1..4 /\ L[1] = "path" /\ L[2] = "dex"
            /\ L[3] = "resources" /\ L[4] = "manifest"
        BY <4>3
      <4>5. request[w].next = 3
        BY <2>4, <3>3, <4>4
      <4>6. Wrote(n, "dex")
        <5>1. 2 \in DOMAIN L /\ 2 < request[w].next
          BY <4>4, <4>5
        <5>. QED BY <4>2, <4>4, <5>1 DEF Alone, L
      <4>7. part'["dex"].by = n /\ part'["resources"].by = n
        BY <1>4, <1>5, <3>1, <3>3, <4>6 DEF Wrote
      <4>. QED BY <2>1, <4>7
    <3>4. CASE p \notin {"dex", "resources"}
      BY <1>4, <1>5, <2>3, <2>12, <3>1, <3>4 DEF SlotInv
    <3>. QED BY <3>2, <3>3, <3>4
  <2>. QED BY <2>1, <2>3, <2>8, <2>9, <2>10, <2>11, <2>12 DEF SlotInv
<1>. QED BY <1>7, <1>8

LEMMA AnswerSlot ==
    ASSUME Types, NEW slot \in WebSlots, SlotInv(slot), NEW w \in Workers, Answer(w)
    PROVE  SlotInv(slot)' /\ answered[slot] <= answered'[slot]
<1>1. /\ part' = part /\ loads' = loads /\ mixed' = mixed
      /\ answered[slot] \in Nat /\ loads[slot] \in Nat
  BY AnswerStep DEF Types
<1>2. /\ \A v \in Workers : v # w => request'[v] = request[v]
      /\ request'[w].handler \notin LoadsOf(slot)
  BY AnswerStep, NotLoads
<1>3. CASE w \notin Loading(slot)
  <2>1. answered'[slot] = answered[slot]
    BY <1>3, AnswerStep
  <2>2. request[w].handler \notin LoadsOf(slot)
    BY <1>3 DEF Loading
  <2>. QED BY <1>1, <1>2, <2>1, <2>2, SameLoading, SameSlot
<1>4. CASE w \in Loading(slot) /\ request[w].by \notin mixed[slot]
  <2>. DEFINE n == request[w].by
              L == LoadLocks(slot)
  <2>1. Alone(w, slot) /\ n = loads[slot] /\ answered[slot] < n /\ n \in Nat \ {0}
    BY <1>4, LoaderFacts DEF SlotInv, Alone
  <2>2. Loading(slot)' = {}
    BY <1>2, <2>1 DEF Loading, Alone
  <2>3. \A i \in DOMAIN L : i < request[w].next
    <3>1. Locks[request[w].handler] = L /\ request[w].next \in Nat
      BY <1>4, LoaderFacts DEF LoadRequests
    <3>2. ~(request[w].next <= Len(L))
      BY <3>1, AnswerStep DEF Lacks
    <3>3. DOMAIN L = 1..Len(L) /\ Len(L) \in Nat
      BY LoadLocksCover
    <3>. HIDE DEF L
    <3>. QED BY <3>1, <3>2, <3>3
  <2>4. ASSUME NEW q \in PartsOf(slot) PROVE Wrote(n, q)
    <3>1. PICK i \in DOMAIN L : L[i] = q
      BY LoadLocksCover
    <3>. QED BY <2>1, <2>3, <3>1 DEF Alone
  <2>5. answered'[slot] = n
    BY <1>4, AnswerStep
  <2>6. ASSUME NEW q \in PartsOf(slot)
        PROVE  (/\ part[q].by = loads[slot]
                /\ q \in {"dex", "dex_b"} => part[q].some = (loads[slot] > 0))'
    <3>1. part'[q].by = loads'[slot]
      BY <1>1, <2>1, <2>4 DEF Wrote
    <3>2. ASSUME q \in {"dex", "dex_b"} PROVE part'[q].some = (loads'[slot] > 0)
      <4>1. q \in Parts
        BY LoadLocksCover
      <4>2. part[q].some = TRUE
        BY <2>4, <3>2, <4>1 DEF Wrote, Types
      <4>3. (loads'[slot] > 0) = TRUE
        BY <1>1, <2>1
      <4>. QED BY <1>1, <4>2, <4>3
    <3>. QED BY <3>1, <3>2
  <2>7. (slot = "A" /\ {part["dex"].by, part["resources"].by} \cap mixed["A"] = {}
            => part["resources"].by <= part["dex"].by)'
    BY <1>1 DEF SlotInv
  <2>8. \A q \in PartsOf(slot) :
           answered'[slot] <= part'[q].by /\ part'[q].by <= loads'[slot]
    BY <1>1, <2>1, <2>4, <2>5 DEF Wrote
  <2>9. answered'[slot] <= loads'[slot] /\ answered[slot] <= answered'[slot]
    BY <1>1, <2>1, <2>5
  <2>. HIDE DEF n, L
  <2>. QED BY <2>2, <2>6, <2>7, <2>8, <2>9 DEF SlotInv
<1>5. CASE w \in Loading(slot) /\ request[w].by \in mixed[slot]
  <2>1. answered'[slot] = answered[slot]
    BY <1>5, AnswerStep
  <2>2. \A v \in Loading(slot)' : v \in Loading(slot) /\ v # w /\ request'[v] = request[v]
    BY <1>2 DEF Loading
  <2>3. ASSUME NEW v \in Loading(slot)' PROVE (request[v].by \in mixed[slot])'
    <3>1. v \in Loading(slot) /\ v # w /\ request'[v] = request[v]
      BY <2>2
    <3>2. ~Alone(v, slot)
      BY <1>5, <3>1 DEF Alone
    <3>. QED BY <1>1, <3>1, <3>2 DEF SlotInv
  <2>4. ASSUME (loads[slot] \notin mixed[slot])'
        PROVE  (\E v \in Loading(slot) : request[v].by = loads[slot])'
    <3>1. PICK v \in Loading(slot) : request[v].by = loads[slot]
      BY <1>1, <1>5, <2>4 DEF SlotInv
    <3>2. v # w
      BY <1>1, <1>5, <2>4, <3>1
    <3>3. v \in Loading(slot)' /\ request'[v] = request[v]
      BY <1>2, <3>1, <3>2 DEF Loading
    <3>. QED BY <1>1, <3>1, <3>3
  <2>5. ASSUME NEW v \in Loading(slot)'
        PROVE  (/\ answered[slot] < request[v].by
                /\ request[v].by <= loads[slot]
                /\ request[v].fills[DexOf(slot)])'
    BY <1>1, <2>1, <2>2 DEF SlotInv
  <2>6. (/\ answered[slot] <= loads[slot]
         /\ \A p \in PartsOf(slot) : answered[slot] <= part[p].by /\ part[p].by <= loads[slot]
         /\ slot = "A" /\ {part["dex"].by, part["resources"].by} \cap mixed["A"] = {}
              => part["resources"].by <= part["dex"].by)'
    BY <1>1, <2>1 DEF SlotInv
  <2>. QED BY <1>1, <2>1, <2>3, <2>4, <2>5, <2>6 DEF SlotInv
<1>. QED BY <1>3, <1>4, <1>5

LEMMA ArriveSlot ==
    ASSUME Types, NEW slot \in WebSlots, SlotInv(slot), NEW w \in Workers,
           NEW h \in LoadHandlers, NEW f \in WebFiles, ArriveLoad(w, h, f)
    PROVE  SlotInv(slot)' /\ mixed[slot] \subseteq mixed'[slot]
<1>1. request[w] = Free /\ request[w].handler \notin LoadsOf(slot)
  BY NotLoads DEF ArriveLoad
<1>2. CASE Refuses(h, f)
  <2>1. request'[w].handler \notin LoadsOf(slot)
    BY <1>2, ArriveRefused, NotLoads
  <2>. QED BY <1>1, <1>2, <2>1, ArriveRefused, SameLoading, SameSlot
<1>3. CASE ~Refuses(h, f)
  <2>1. PICK own \in WebSlots :
           h \in LoadsOf(own) /\ \A other \in WebSlots : other # own => h \notin LoadsOf(other)
    BY LoadSlots
  <2>. DEFINE n == loads[own] + 1
  <2>2. /\ request'[w] = [handler |-> h, next |-> 1, by |-> n, fills |-> Fills(h, f)]
        /\ \A v \in Workers : v # w => request'[v] = request[v]
        /\ loads'[own] = n
        /\ mixed'[own] = IF Loading(own) = {} THEN mixed[own]
                         ELSE mixed[own] \cup {n} \cup {request[v].by : v \in Loading(own)}
        /\ \A other \in WebSlots : other # own =>
              loads'[other] = loads[other] /\ mixed'[other] = mixed[other]
        /\ part' = part /\ answered' = answered
    BY <1>3, <2>1, ArriveAccepted, SMTT(40)
  <2>3. CASE own # slot
    <3>1. request'[w].handler \notin LoadsOf(slot)
      BY <2>1, <2>2, <2>3
    <3>2. loads'[slot] = loads[slot] /\ mixed'[slot] = mixed[slot]
      BY <2>2, <2>3
    <3>. QED BY <1>1, <2>2, <3>1, <3>2, SameLoading, SameSlot
  <2>4. CASE own = slot
    <3>1. loads[slot] \in Nat /\ answered[slot] \in Nat /\ answered[slot] <= loads[slot]
      BY DEF Types, SlotInv
    <3>2. /\ request'[w].handler = h /\ request'[w].next = 1
          /\ request'[w].by = n /\ request'[w].fills = Fills(h, f)
          /\ loads'[slot] = n
      BY <2>2, <2>4
    <3>3. Loading(slot)' = Loading(slot) \cup {w}
      BY <1>1, <2>1, <2>2, <2>4, <3>2 DEF Loading
    <3>4. \A v \in Loading(slot) : v # w /\ request'[v] = request[v]
      BY <1>1, <2>2 DEF Loading
    <3>5. request'[w].fills[DexOf(slot)]
      BY <1>3, <3>2, AcceptedHasDex DEF DexOf
    <3>6. mixed[slot] \subseteq mixed'[slot]
      BY <2>2, <2>4
    <3>7. ASSUME NEW v \in Loading(slot)'
          PROVE  (/\ answered[slot] < request[v].by
                  /\ request[v].by <= loads[slot]
                  /\ request[v].fills[DexOf(slot)])'
      <4>1. CASE v = w
        BY <2>2, <2>4, <3>1, <3>2, <3>5, <4>1
      <4>2. CASE v # w
        <5>1. v \in Loading(slot) /\ request'[v] = request[v]
          BY <3>3, <3>4, <4>2
        <5>2. request[v].by \in Nat
          BY <5>1, LoaderFacts
        <5>3. /\ answered[slot] < request[v].by /\ request[v].by <= loads[slot]
              /\ request[v].fills[DexOf(slot)]
          BY <5>1 DEF SlotInv
        <5>. QED BY <2>2, <2>4, <3>1, <3>2, <5>1, <5>2, <5>3
      <4>. QED BY <4>1, <4>2
    <3>8. ASSUME NEW v \in Loading(slot)', (request[v].by \notin mixed[slot])'
          PROVE  Alone(v, slot)'
      <4>1. Loading(slot) = {}
        <5>. SUFFICES ASSUME Loading(slot) # {} PROVE FALSE
          OBVIOUS
        <5>1. mixed'[slot] = mixed[slot] \cup {n} \cup {request[u].by : u \in Loading(slot)}
          BY <2>2, <2>4
        <5>2. v # w
          BY <3>2, <3>8, <5>1
        <5>3. v \in Loading(slot) /\ request'[v] = request[v]
          BY <3>3, <3>4, <5>2
        <5>. QED BY <3>8, <5>1, <5>3
      <4>2. v = w /\ Loading(slot)' = {w}
        BY <3>3, <4>1
      <4>3. \A i \in DOMAIN LoadLocks(slot) : ~(i < 1)
        BY LoadLocksCover
      <4>. QED BY <3>2, <4>2, <4>3 DEF Alone
    <3>9. (\E v \in Loading(slot) : request[v].by = loads[slot])'
      BY <3>2, <3>3
    <3>10. (/\ answered[slot] <= loads[slot]
            /\ \A p \in PartsOf(slot) :
                  answered[slot] <= part[p].by /\ part[p].by <= loads[slot])'
      <4>1. answered'[slot] = answered[slot] /\ loads'[slot] = loads[slot] + 1 /\ part' = part
        BY <2>2, <2>4
      <4>2. ASSUME NEW p \in PartsOf(slot)
            PROVE  /\ part[p].by \in Nat
                   /\ answered[slot] <= part[p].by /\ part[p].by <= loads[slot]
        BY LoadLocksCover DEF Types, SlotInv
      <4>. QED BY <3>1, <4>1, <4>2
    <3>11. (slot = "A" /\ {part["dex"].by, part["resources"].by} \cap mixed["A"] = {}
              => part["resources"].by <= part["dex"].by)'
      BY <2>2, <3>6 DEF SlotInv
    <3>. QED BY <3>6, <3>7, <3>8, <3>9, <3>10, <3>11 DEF SlotInv
  <2>. QED BY <2>3, <2>4
<1>. QED BY <1>2, <1>3

-----------------------------------------------------------------------------
\* The readers.

\* A step of another request, unless it replaces the code that a run holds.
LEMMA SameReader ==
    ASSUME Types, NEW v \in Workers, ReaderInv(v), request'[v] = request[v],
           \A slot \in WebSlots : answered'[slot] \in Nat /\ answered[slot] <= answered'[slot],
           mixed["A"] \subseteq mixed'["A"],
           request[v].handler = "run" /\ request[v].next = 2
              => part'["dex"].by = part["dex"].by
    PROVE  ReaderInv(v)'
<1>1. CASE request[v].handler \notin ReadHandlers
  BY <1>1 DEF ReaderInv
<1>2. CASE request[v].handler \in ReadHandlers
  <2>1. request[v].since \in [WebSlots -> Nat]
    BY <1>2, RequestKinds DEF ReadRequests
  <2>2. \A slot \in WebSlots : request[v].since[slot] <= answered'[slot]
    <3>. SUFFICES ASSUME NEW slot \in WebSlots PROVE request[v].since[slot] <= answered'[slot]
      OBVIOUS
    <3>1. request[v].since[slot] <= answered[slot] /\ answered[slot] <= answered'[slot]
      BY <1>2 DEF ReaderInv
    <3>2. request[v].since[slot] \in Nat /\ answered[slot] \in Nat /\ answered'[slot] \in Nat
      BY <2>1 DEF Types
    <3>. QED BY <3>1, <3>2
  <2>. QED BY <1>2, <2>2 DEF ReaderInv
<1>. QED BY <1>1, <1>2

\* A run that has read the code holds its lock, and no load is granted it.
LEMMA WriteReader ==
    ASSUME Types, NEW v \in Workers, ReaderInv(v), NEW w \in Workers, Write(w)
    PROVE  ReaderInv(v)'
<1>1. request[w].handler \in LoadHandlers /\ Granted(w, NextLock(w)) /\ IsLoad(w)
  BY DEF Write, IsLoad
<1>2. CASE v = w
  <2>1. request'[v].handler \notin ReadHandlers
    BY <1>1, <1>2, WriteStep, HandlerKinds
  <2>. QED BY <2>1 DEF ReaderInv
<1>3. CASE v # w
  <2>1. ASSUME request[v].handler = "run", request[v].next = 2
        PROVE  part'["dex"].by = part["dex"].by
    <3>1. Holds(v, "dex")
      <4>1. Locks["run"] = <<"dex", "resources">>
        BY ReadTable
      <4>2. 1 \in DOMAIN Locks["run"] /\ Locks["run"][1] = "dex"
        BY <4>1
      <4>. QED BY <2>1, <4>2 DEF Holds, ReadHandlers
    <3>2. NextLock(w) # "dex"
      BY <1>1, <3>1 DEF Granted
    <3>3. "dex" \in Parts
      BY DEF Parts
    <3>. QED BY <3>2, <3>3, WriteStep, ZenonT(60) DEF Types
  <2>2. answered' = answered
    BY WriteStep
  <2>3. \A slot \in WebSlots : answered'[slot] \in Nat /\ answered[slot] <= answered'[slot]
    BY <2>2 DEF Types
  <2>. QED BY <1>3, <2>1, <2>3, WriteStep, SameReader
<1>. QED BY <1>2, <1>3

LEMMA AppendedOnce ==
    ASSUME NEW s \in Seq(Nat), NEW n \in Nat, NEW k \in Nat \ {0}, Len(s) = k - 1
    PROVE  /\ Len(Append(s, n)) = k
           /\ DOMAIN Append(s, n) = 1..k
           /\ \A i \in 1..(k - 1) : Append(s, n)[i] = s[i] /\ i \in DOMAIN s
           /\ Append(s, n)[k] = n
OBVIOUS

LEMMA ReadReader ==
    ASSUME Types, \A slot \in WebSlots : SlotInv(slot),
           NEW v \in Workers, ReaderInv(v), NEW w \in Workers, Read(w)
    PROVE  ReaderInv(v)'
<1>1. \A slot \in WebSlots : answered'[slot] \in Nat /\ answered[slot] <= answered'[slot]
  BY ReadStep DEF Types
<1>2. CASE v # w
  BY <1>1, <1>2, ReadStep, SameReader
<1>3. CASE v = w
  <2>. DEFINE r == request[w]
              p == NextLock(w)
              h == request[w].handler
  <2>1. /\ h \in ReadHandlers /\ Lacks(w) /\ p \in Parts
        /\ r.next \in 1..Len(Locks[h])
        /\ Len(Locks[h]) \in 1..2
        /\ p = Locks[h][r.next]
    BY ReadStep, NextLockType, ReadLocks, ZenonT(60) DEF Read, NextLock
  <2>2. r.seen \in Seq(Nat) /\ r.since \in [WebSlots -> Nat]
    BY ReadStep DEF ReadRequests
  <2>3. /\ Len(r.seen) = r.next - 1
        /\ \A slot \in WebSlots : r.since[slot] <= answered[slot]
        /\ \A i \in DOMAIN r.seen : r.since[SlotOf(Locks[h][i])] <= r.seen[i]
        /\ h = "run" /\ r.next = 2 => r.seen[1] = part["dex"].by
    BY <1>3, <2>1 DEF ReaderInv
  <2>4. /\ request'[w].seen = Append(r.seen, part[p].by)
        /\ request'[w].next = r.next + 1
        /\ request'[w].since = r.since
        /\ request'[w].handler = h
        /\ part' = part /\ mixed' = mixed /\ answered' = answered
    BY ReadStep
  <2>5. part[p].by \in Nat /\ p \in PartsOf(SlotOf(p)) /\ SlotOf(p) \in WebSlots
    BY <2>1 DEF Types, PartsOf, SlotOf, WebSlots
  <2>6. r.since[SlotOf(p)] <= part[p].by
    <3>1. r.since[SlotOf(p)] <= answered[SlotOf(p)] /\ answered[SlotOf(p)] <= part[p].by
      BY <2>3, <2>5 DEF SlotInv
    <3>2. answered[SlotOf(p)] \in Nat /\ r.since[SlotOf(p)] \in Nat
      BY <2>2, <2>5 DEF Types
    <3>. QED BY <2>5, <3>1, <3>2
  <2>. DEFINE s == Append(r.seen, part[p].by)
  <2>7. /\ Len(s) = r.next
        /\ DOMAIN s = 1..r.next
        /\ \A i \in 1..(r.next - 1) : s[i] = r.seen[i] /\ i \in DOMAIN r.seen
        /\ s[r.next] = part[p].by
    <3>1. r.next \in Nat \ {0}
      BY <2>1
    <3>. HIDE DEF r, p
    <3>. QED BY <2>2, <2>3, <2>5, <3>1, AppendedOnce, SMTT(40)
  <2>. HIDE DEF r, p, s
  <2>8. ASSUME NEW i \in DOMAIN s PROVE r.since[SlotOf(Locks[h][i])] <= s[i]
    <3>1. CASE i = r.next
      BY <2>1, <2>6, <2>7, <3>1
    <3>2. CASE i # r.next
      <4>1. i \in 1..(r.next - 1)
        BY <2>1, <2>7, <3>2
      <4>. QED BY <2>3, <2>7, <4>1
    <3>. QED BY <3>1, <3>2
  <2>9. ASSUME h = "run", r.next + 1 = 2 PROVE s[1] = part["dex"].by
    <3>1. r.next = 1
      BY <2>1, <2>9
    <3>2. p = "dex"
      BY <2>1, <2>9, <3>1, ReadTable
    <3>. QED BY <2>7, <3>1, <3>2
  <2>10. ASSUME h = "run", r.next + 1 = 3, {s[1], s[2]} \cap mixed["A"] = {}
         PROVE  s[2] <= s[1]
    <3>1. r.next = 2
      BY <2>1, <2>10
    <3>2. Locks["run"][2] = "resources"
      BY ReadTable
    <3>3. s[2] = part["resources"].by
      BY <2>1, <2>7, <2>10, <3>1, <3>2
    <3>4. s[1] = part["dex"].by
      BY <2>3, <2>7, <2>10, <3>1
    <3>. QED BY <2>10, <3>3, <3>4 DEF SlotInv, WebSlots
  <2>11. request'[w].seen = s
    BY <2>4 DEF s, r, p
  <2>12. request'[w].next = r.next + 1 /\ request'[w].since = r.since
    BY <2>4 DEF r
  <2>13. Len(s) = (r.next + 1) - 1 /\ r.next + 1 <= Len(Locks[h]) + 1
    BY <2>1, <2>7
  <2>14. request'[w].handler = h /\ part' = part /\ mixed' = mixed /\ answered' = answered
    BY <2>4
  <2>. HIDE DEF h
  <2>. QED BY <1>3, <2>1, <2>3, <2>8, <2>9, <2>10, <2>11, <2>12, <2>13, <2>14, ZenonT(60) DEF ReaderInv
<1>. QED BY <1>2, <1>3

\* A load that arrives is no reader, and touches no part and no other request.
LEMMA ArriveOthers ==
    ASSUME Types, NEW w \in Workers, NEW h \in LoadHandlers, NEW f \in WebFiles,
           ArriveLoad(w, h, f)
    PROVE  /\ Types' /\ part' = part /\ answered' = answered
           /\ \A v \in Workers : v # w => request'[v] = request[v]
           /\ request'[w].handler \notin ReadHandlers
<1>1. CASE Refuses(h, f)
  BY <1>1, ArriveRefused, HandlerKinds
<1>2. CASE ~Refuses(h, f)
  <2>1. PICK slot \in WebSlots : h \in LoadsOf(slot)
    BY LoadSlots
  <2>2. /\ request'[w] = [handler |-> h, next |-> 1,
                          by |-> loads[slot] + 1, fills |-> Fills(h, f)]
        /\ \A v \in Workers : v # w => request'[v] = request[v]
        /\ part' = part /\ answered' = answered
        /\ Types'
    <3>1. /\ request[w] = Free
          /\ request'[w] = [handler |-> h, next |-> 1,
                            by |-> loads[slot] + 1, fills |-> Fills(h, f)]
          /\ \A v \in Workers : v # w => request'[v] = request[v]
          /\ loads'[slot] = loads[slot] + 1
          /\ mixed'[slot] = IF Loading(slot) = {} THEN mixed[slot]
                            ELSE mixed[slot] \cup {loads[slot] + 1}
                                   \cup {request[v].by : v \in Loading(slot)}
          /\ \A other \in WebSlots : other # slot =>
                loads'[other] = loads[other] /\ mixed'[other] = mixed[other]
          /\ UNCHANGED <<part, answered>>
          /\ Types'
      BY <1>2, <2>1, ArriveAccepted
    <3>. QED BY <3>1
  <2>3. request'[w].handler = h
    BY <2>2
  <2>. QED BY <2>2, <2>3, HandlerKinds
<1>. QED BY <1>1, <1>2

-----------------------------------------------------------------------------
\* The invariant, step by step.

LEMMA NextInv == WebInv /\ [WebNext]_webVars => WebInv'
<1>. SUFFICES ASSUME Types,
                     \A slot \in WebSlots : SlotInv(slot),
                     \A w \in Workers : ReaderInv(w),
                     [WebNext]_webVars
              PROVE  WebInv'
  BY DEF WebInv
<1>. USE DEF WebInv
<1>1. ASSUME UNCHANGED <<part, request, loads, mixed, answered>> PROVE WebInv'
  <2>1. Types'
    BY <1>1 DEF Types
  <2>2. ASSUME NEW slot \in WebSlots PROVE SlotInv(slot)'
    BY <1>1, <2>2, SameSlot DEF Loading
  <2>3. ASSUME NEW v \in Workers PROVE ReaderInv(v)'
    BY <1>1, <2>3 DEF ReaderInv
  <2>. QED BY <2>1, <2>2, <2>3
<1>2. ASSUME NEW w \in Workers, NEW h \in ReadHandlers, ArriveRead(w, h) PROVE WebInv'
  <2>1. /\ request[w] = Free /\ request'[w].handler = h
        /\ UNCHANGED <<part, loads, mixed, answered>> /\ Types'
        /\ \A v \in Workers : v # w => request'[v] = request[v]
    <3>1. request'[w] = [handler |-> h, next |-> 1, seen |-> <<>>, since |-> answered]
      BY <1>2, ArriveReadStep
    <3>2. request'[w].handler = h
      BY <3>1
    <3>. QED BY <1>2, <3>2, ArriveReadStep
  <2>2. ASSUME NEW slot \in WebSlots PROVE SlotInv(slot)'
    <3>1. request[w].handler \notin LoadsOf(slot) /\ request'[w].handler \notin LoadsOf(slot)
      BY <2>1, NotLoads
    <3>2. Loading(slot)' = Loading(slot) /\ \A v \in Loading(slot) : request'[v] = request[v]
      BY <2>1, <3>1, SameLoading
    <3>. QED BY <2>1, <3>2, SameSlot
  <2>3. ASSUME NEW v \in Workers PROVE ReaderInv(v)'
    <3>1. CASE v # w
      <4>1. \A slot \in WebSlots :
               answered'[slot] \in Nat /\ answered[slot] <= answered'[slot]
        BY <2>1 DEF Types
      <4>. QED BY <2>1, <3>1, <4>1, SameReader
    <3>2. CASE v = w
      <4>1. request'[v] = [handler |-> h, next |-> 1, seen |-> <<>>, since |-> answered]
        BY <1>2, <3>2, ArriveReadStep
      <4>2. Len(Locks[h]) \in 1..2
        BY ReadLocks
      <4>3. /\ request'[v].handler = h /\ request'[v].next = 1
            /\ request'[v].seen = <<>> /\ request'[v].since = answered
        BY <4>1
      <4>4. \A slot \in WebSlots : answered[slot] <= answered[slot]
        BY DEF Types
      <4>. QED BY <2>1, <4>2, <4>3, <4>4 DEF ReaderInv
    <3>. QED BY <3>1, <3>2
  <2>. QED BY <2>1, <2>2, <2>3
<1>3. ASSUME NEW w \in Workers, NEW h \in LoadHandlers, NEW f \in WebFiles,
             ArriveLoad(w, h, f)
      PROVE  WebInv'
  <2>1. \A slot \in WebSlots : SlotInv(slot)' /\ mixed[slot] \subseteq mixed'[slot]
    BY <1>3, ArriveSlot
  <2>2. /\ Types' /\ part' = part /\ answered' = answered
        /\ \A v \in Workers : v # w => request'[v] = request[v]
        /\ request'[w].handler \notin ReadHandlers
    BY <1>3, ArriveOthers
  <2>3. ASSUME NEW v \in Workers PROVE ReaderInv(v)'
    <3>1. CASE v # w
      <4>1. \A slot \in WebSlots :
               answered'[slot] \in Nat /\ answered[slot] <= answered'[slot]
        BY <2>2 DEF Types
      <4>. QED BY <2>1, <2>2, <3>1, <4>1, SameReader DEF WebSlots
    <3>2. CASE v = w
      BY <2>2, <3>2 DEF ReaderInv
    <3>. QED BY <3>1, <3>2
  <2>. QED BY <2>1, <2>2, <2>3
<1>4. ASSUME NEW w \in Workers, Write(w) PROVE WebInv'
  BY <1>4, WriteStep, WriteSlot, WriteReader
<1>5. ASSUME NEW w \in Workers, Read(w) PROVE WebInv'
  <2>1. ASSUME NEW slot \in WebSlots PROVE SlotInv(slot)'
    <3>1. request[w].handler \notin LoadsOf(slot) /\ request'[w].handler \notin LoadsOf(slot)
      BY <1>5, ReadStep, NotLoads DEF Read
    <3>2. Loading(slot)' = Loading(slot) /\ \A v \in Loading(slot) : request'[v] = request[v]
      BY <1>5, <3>1, ReadStep, SameLoading
    <3>. QED BY <1>5, <3>2, ReadStep, SameSlot
  <2>. QED BY <1>5, <2>1, ReadStep, ReadReader
<1>6. ASSUME NEW w \in Workers, Answer(w) PROVE WebInv'
  <2>1. \A slot \in WebSlots : SlotInv(slot)' /\ answered[slot] <= answered'[slot]
    BY <1>6, AnswerSlot
  <2>2. /\ Types' /\ part' = part /\ mixed' = mixed
        /\ \A v \in Workers : v # w => request'[v] = request[v]
        /\ request'[w].handler \notin ReadHandlers
    BY <1>6, AnswerStep, HandlerKinds DEF Free
  <2>3. ASSUME NEW v \in Workers PROVE ReaderInv(v)'
    <3>1. CASE v # w
      <4>1. \A slot \in WebSlots :
               answered'[slot] \in Nat /\ answered[slot] <= answered'[slot]
        BY <2>1, <2>2 DEF Types
      <4>. QED BY <2>2, <3>1, <4>1, SameReader
    <3>2. CASE v = w
      BY <2>2, <3>2 DEF ReaderInv
    <3>. QED BY <3>1, <3>2
  <2>. QED BY <2>1, <2>2, <2>3
<1>7. ASSUME NEW w \in Workers, Ask(w) PROVE WebInv'
  BY <1>1, <1>7 DEF Ask
<1>8. CASE UNCHANGED webVars
  BY <1>1, <1>8 DEF webVars
<1>. QED BY <1>2, <1>3, <1>4, <1>5, <1>6, <1>7, <1>8 DEF WebNext, Handle

\* The inductive invariant holds of every run of the server.
THEOREM InvAlways == WebSpec => []WebInv
<1>1. WebInit => WebInv
  BY InitTypes
<1>2. WebInv /\ [WebNext]_webVars => WebInv'
  BY NextInv
<1>. QED BY <1>1, <1>2, PTL DEF WebSpec

\* Once no load is under way, and if the latest overlapped no other, the slot
\* holds that load's parts and none of an earlier one's, DEX included: a load
\* that was refused before its first write has left nothing behind.
THEOREM SettledAlways == WebSpec => []SettledWhole
<1>1. WebInv => SettledWhole
  BY DEF WebInv, SlotInv, SettledWhole
<1>. QED BY <1>1, InvAlways, PTL

\* A run that sees the code of one load and the resources of another sees the
\* older resources, because it keeps the guard on the code while it waits for
\* the resources.
THEOREM RunNeverBehindAlways == WebSpec => []RunNeverBehind
<1>1. ASSUME WebInv PROVE RunNeverBehind
  <2>. SUFFICES ASSUME NEW w \in Workers,
                       request[w].handler = "run",
                       Len(request[w].seen) = 2,
                       {request[w].seen[1], request[w].seen[2]} \cap mixed["A"] = {}
                PROVE  request[w].seen[2] <= request[w].seen[1]
    BY DEF RunNeverBehind
  <2>1. request[w].handler \in ReadHandlers
    BY DEF ReadHandlers
  <2>2. ReaderInv(w) /\ request[w].next \in Nat
    BY <1>1, <2>1, RequestKinds DEF WebInv, ReadRequests
  <2>3. request[w].next = 3
    BY <2>1, <2>2 DEF ReaderInv
  <2>. QED BY <2>1, <2>2, <2>3 DEF ReaderInv
<1>. QED BY <1>1, InvAlways, PTL

\* A reader that arrives after a load was answered sees that load or a newer one.
THEOREM FreshReadsAlways == WebSpec => []FreshReads
<1>1. WebInv => FreshReads
  BY DEF WebInv, ReaderInv, FreshReads
<1>. QED BY <1>1, InvAlways, PTL

-----------------------------------------------------------------------------
\* Repacked and signed APKs.

\* A file that came out of the zip writer, or out of the signer after it.
Plain(f) == f.blocks = << >> /\ f.offset = 1

Master(f) == [contents |-> [entries |-> f.entries, blocks |-> << >>],
              cd |-> f.cd, eocd |-> 1]

SignedFile(f, by) ==
    /\ f.blocks = << f.blocks[1] >>
    /\ f.offset = 2
    /\ by \in [schemes : SUBSET Schemes, key : Keys]
    /\ f.blocks[1] = [s \in by.schemes |-> [key |-> by.key, digest |-> Master(f)]]

Sound(f, by) ==
    /\ f = [entries |-> f.entries, blocks |-> f.blocks, cd |-> f.cd, offset |-> f.offset]
    /\ \/ by = NoApk /\ Plain(f)
       \/ SignedFile(f, by)

\* The inductive invariant: the file on disk, unless it is cut off, and what is
\* about to be written are sound for their signings.  SignaturesVerify alone
\* would not tell the stripping that the piece it cuts off is the only one.
SoundFiles ==
    /\ apk # Truncated => Sound(apk, signing)
    /\ output # NoApk => Sound(output.apk, output.by)

\* Stripping leaves a file as the zip writer wrote it, entries untouched.
LEMMA StripPlain ==
    ASSUME NEW f, NEW by, Sound(f, by)
    PROVE  StripExistingBlock(f) =
              [entries |-> f.entries, blocks |-> << >>, cd |-> f.cd, offset |-> 1]
<1>1. CASE Plain(f)
  <2>1. ~BlockAhead(f) BY <1>1 DEF Plain, BlockAhead
  <2>. QED BY <1>1, <2>1 DEF Sound, Plain, StripExistingBlock, WithBlocks
<1>2. CASE SignedFile(f, by)
  <2>1. Len(f.blocks) = 1 /\ f.offset = 2 BY <1>2 DEF SignedFile
  <2>2. BlockAhead(f) BY <2>1 DEF BlockAhead
  <2>3. SubSeq(f.blocks, 1, Len(f.blocks) - 1) = << >> BY <1>2, <2>1 DEF SignedFile
  <2>4. f.offset - 1 = 1 BY <2>1
  <2>. QED BY <2>2, <2>3, <2>4 DEF WithBlocks, StripExistingBlock
<1>. QED BY <1>1, <1>2 DEF Sound

\* The digest of a plain file, at the offset where its directory begins, is
\* the one over its entries, its directory and an end record pointing there.
LEMMA PlainDigest ==
    ASSUME NEW f, Plain(f)
    PROVE  DigestWithOffset(f, f.offset) = Master(f)
<1>1. Ahead(f, f.offset) = [entries |-> f.entries, blocks |-> << >>]
  <2>1. f.offset \in 1..Len(f.blocks) + 1 /\ f.offset - 1 = 0 BY DEF Plain
  <2>2. SubSeq(f.blocks, 1, 0) = << >> BY DEF Plain
  <2>. QED BY <2>1, <2>2 DEF Ahead
<1>2. DirectoryAt(f, f.offset) = f.cd BY DEF Plain, DirectoryAt
<1>. QED BY <1>1, <1>2 DEF Plain, DigestWithOffset, Master

\* Signing a sound file, signed before or not, makes it sound for the new
\* signing.
LEMMA SigningSound ==
    ASSUME NEW f, NEW by, Sound(f, by),
           NEW schemes \in SUBSET Schemes, NEW key \in Keys
    PROVE  Sound(SignWithBlock(f, schemes, key), [schemes |-> schemes, key |-> key])
<1>. DEFINE clean == [entries |-> f.entries, blocks |-> << >>, cd |-> f.cd, offset |-> 1]
            block == [s \in schemes |-> [key |-> key, digest |-> Master(clean)]]
            g == [entries |-> f.entries, blocks |-> << block >>, cd |-> f.cd, offset |-> 2]
            now == [schemes |-> schemes, key |-> key]
<1>1. StripExistingBlock(f) = clean BY StripPlain
<1>2. BlockWith(MasterDigest(clean), schemes, key) = block
  <2>1. MasterDigest(clean) = Master(clean) BY PlainDigest DEF Plain, MasterDigest
  <2>. QED BY <2>1 DEF BlockWith, V2Payload, V3Payload
<1>3. InsertBlock(clean, block) = g
  <2>. HIDE DEF block
  <2>1. Append(clean.blocks, block) = << block >> OBVIOUS
  <2>. QED BY <2>1 DEF InsertBlock, WithBlocks
<1>4. SignWithBlock(f, schemes, key) = g BY <1>1, <1>2, <1>3 DEF SignWithBlock
<1>5. Master(g) = Master(clean) BY DEF Master
<1>6. SignedFile(g, now) BY <1>5 DEF SignedFile
<1>. QED BY <1>4, <1>6 DEF Sound

\* What the zip writer writes is sound and unsigned.
LEMMA ZipSound ==
    ASSUME NEW entries
    PROVE  Sound(ZipFile(entries), NoApk)
BY DEF Sound, ZipFile, Plain

LEMMA InitSound == ApkInit => SoundFiles
BY ZipSound DEF ApkInit, SoundFiles

LEMMA StepSound == SoundFiles /\ [ApkNext]_apkVars => SoundFiles'
<1>. SUFFICES ASSUME SoundFiles, [ApkNext]_apkVars PROVE SoundFiles'
  OBVIOUS
<1>1. CASE UNCHANGED <<apk, output, signing>>
  BY <1>1 DEF SoundFiles
<1>2. CASE Build
  BY <1>2, ZipSound DEF Build, SoundFiles
<1>3. ASSUME NEW schemes \in SUBSET Schemes, NEW key \in Keys, NEW v4 \in Sidecars,
             SignBytes(schemes, key, v4)
      PROVE  SoundFiles'
  <2>1. CASE schemes = {} BY <1>3, <2>1 DEF SignBytes, SoundFiles
  <2>2. CASE schemes # {} BY <1>3, <2>2, SigningSound DEF SignBytes, SoundFiles
  <2>. QED BY <2>1, <2>2
<1>4. CASE TruncateApk BY <1>4 DEF TruncateApk, SoundFiles
<1>6. CASE FillApk BY <1>6 DEF FillApk, SoundFiles
<1>5. CASE SignerDies BY <1>5 DEF SignerDies, SoundFiles
<1>. QED
  BY <1>1, <1>2, <1>3, <1>4, <1>5, <1>6
     DEF ApkNext, apkVars, OpenBuilder, Replace, Add, Delete, KeepExistingSignatures

LEMMA SpecSound == ApkSpec => []SoundFiles
BY InitSound, StepSound, PTL DEF ApkSpec

\* A sound file passes a verifier.
LEMMA SoundVerifies ==
    ASSUME NEW f, NEW by, Sound(f, by)
    PROVE  Verifies(f)
<1>1. CASE Plain(f) BY <1>1 DEF Plain, Verifies
<1>2. CASE SignedFile(f, by)
  <2>1. /\ Len(f.blocks) = 1 /\ f.offset = 2 /\ DOMAIN f.blocks = {1}
        BY <1>2 DEF SignedFile
  <2>2. Ahead(f, 1) = [entries |-> f.entries, blocks |-> << >>]
    <3>1. 1 \in 1..Len(f.blocks) + 1 BY <2>1
    <3>2. SubSeq(f.blocks, 1, 0) = << >> BY <1>2 DEF SignedFile
    <3>. QED BY <3>1, <3>2 DEF Ahead
  <2>3. DirectoryAt(f, 2) = f.cd BY <2>1 DEF DirectoryAt
  <2>4. VerifierDigest(f) = Master(f) BY <2>1, <2>2, <2>3 DEF VerifierDigest, Master
  <2>5. \A s \in DOMAIN f.blocks[1] : f.blocks[1][s].digest = VerifierDigest(f)
        BY <1>2, <2>4 DEF SignedFile
  <2>. QED BY <2>1, <2>5 DEF Verifies
<1>. QED BY <1>1, <1>2 DEF Sound

\* sign_bytes and build in any order: every signature block in the file on
\* disk, or about to be written to it, carries the digest a verifier computes,
\* and the end record points behind the block, unless a crash left the file cut
\* off.
THEOREM SignaturesAlwaysVerify == ApkSpec => []SignaturesVerify
<1>1. SoundFiles => SignaturesVerify BY SoundVerifies DEF SoundFiles, SignaturesVerify
<1>. QED BY <1>1, SpecSound, PTL

\* Signing again replaces the former signer's pairs: none survives, and a
\* repacked APK has none.
THEOREM NoFormerSigner == ApkSpec => []OnlyLastSigner
<1>1. SoundFiles => OnlyLastSigner
  <2>. SUFFICES ASSUME apk # Truncated, Sound(apk, signing) PROVE OnlyLastSigner
    BY DEF SoundFiles, OnlyLastSigner
  <2>1. CASE signing = NoApk /\ Plain(apk) BY <2>1 DEF Plain, OnlyLastSigner
  <2>2. CASE SignedFile(apk, signing)
    <3>1. signing # NoApk BY <2>2, ApkConstantsOK DEF SignedFile, Schemes
    <3>2. apk.blocks[1] \in {apk.blocks[i] : i \in DOMAIN apk.blocks} BY <2>2 DEF SignedFile
    <3>3. DOMAIN apk.blocks[1] = signing.schemes BY <2>2 DEF SignedFile
    <3>4. \A s \in signing.schemes : apk.blocks[1][s].key = signing.key
          BY <2>2 DEF SignedFile
    <3>5. apk.blocks = << apk.blocks[1] >> BY <2>2 DEF SignedFile
    <3>. QED BY <3>1, <3>2, <3>3, <3>4, <3>5 DEF OnlyLastSigner
  <2>. QED BY <2>1, <2>2 DEF Sound
<1>. QED BY <1>1, SpecSound, PTL
=============================================================================

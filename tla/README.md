# A TLA+ model of Platypus

Platypus is a toolkit for reading, running and rebuilding Android packages: a
set of Rust crates (`src/experimental/rust`), a desktop application on top of
them (`src/experimental/ui-react`, with its back end in `src-tauri`), a web
server and a Python predecessor. This directory models the parts of it whose
correctness depends on the order in which things happen (the interpreter with
its debugger, the desktop application's project, scripts, durable state and
bulk runs, the web server's requests, the taint window, repacking and signing)
and the algorithms that a test hardly exhausts (arithmetic at the edges,
dominators and SSA, structure recovery, the taint pass).

Contents: the system and its parts; the modules; the runs and what they show;
the bounds; fairness; the proofs; where the code and its comments disagree;
what the model shows beside the properties; what is not modelled; the plan.

Paths below are relative to `src/experimental`; `commands.rs` and `project.rs`
are in `ui-react/src-tauri/src`, `appStore.ts` in `ui-react/src/store`.

## The system

| part | state | operations | what is hard |
|---|---|---|---|
| **debugger** `platypus-vm/src/debugger.rs` | mode, breakpoints and labels, history of snapshots, play head (`back_stack`), pending step-over, pause reason | host: set/clear breakpoints, resume, step, step_over, trace_until, step_back, restart, clear_history, set_history_cap; interpreter: `before_instruction`, `on_finished` | rewinding, recording, collecting and clearing in any order; unsigned subtractions; flags consumed by a later call |
| **interpreter** `vm.rs`, `memory.rs`, `threading.rs` | call stack, `last_return`, statics with the `__clinit__` marks, instruction budget, thread records | `call_method`, `reset_for_call`, `execute_block`, `read_static_field`, `spawn_method`, attach/detach | native recursion, budgets and pauses that cut nested calls, class initialisers that need each other, early returns that must settle a thread's record |
| **opcodes and values** `opcodes/`, `vm.rs` (inline), `value.rs` | registers, arrays, fields | one function per opcode family, twice: inline in `vm.rs` and in `opcodes/` | integer widths, shift counts, wide pairs, shared arrays, jump targets |
| **project** `project.rs`, `state.rs` | slots (id, sha256, base, splits, marks), active and compare ids; `project.json`; `extracted/` | load, upsert, remove, save, cache_bytes, wipe_extracted | concurrent commands, crashes, files that change |
| **scripts** `run_script`, `kill_script`, `runScript` | the running script's pid, the frontend's flag | start, stop, end | a stop in any step of a start or an end |
| **durable UI state** `persistentStore.ts`, `ui_state_*` | one file per key | set, delete | crash between write and rename; nobody waits for a write |
| **deobfuscation** `appStore.ts` runDeobf*, `deobf_run_specific_sites`, `analysis.rs` exec_calls* | marks, scanned sites, results by row and by method, runs under way, the stop flag | mark, unmark, run a method / all / shown / one site, stop; find_exec | batches, deduplicated inputs, runs that overlap, threads whose results are put back in order |
| **web server** `web-server/src/main.rs` | six values, each under its own RwLock | loads (path, upload) of two slots, queries, run_method | a load is four separate writes; readers hold one lock and queue for the next |
| **control-flow graph, dominators, SSA** `code_block.rs`, `dominator_tree.rs`, `ssa_builder.rs` | blocks and edges; idoms, frontiers, loop headers; phi nodes and versions | `reverse_postorder`, `DominatorTree::compute`, `SsaBuilder::build` | loops with several entries, self loops, duplicate and exceptional edges; a fixed point that climbs its own half-finished tree |
| **structure recovery** `decompiler.rs`, `java_generator.rs` | the tree of ifs and loops | `structure_region`, `find_merge_point`, `gen_node` | which region a block is printed in |
| **taint** `rust/src/taint.rs`, `TaintApp.tsx` | per-method register taint; the window's call graph | the linear pass; build, expand, re-analyse | branches; overrides that compete; answers computed from an older graph |
| **APK builder and signing** `platypus-apkbuild` | entries, signing block, end record | replace, add, delete, build, sign (v2, v3, v4) | a block cut out and put in, offsets that move |
| frontend `ui-react/src` (the rest) | stores of tabs, results, selections | asynchronous actions on the back end | answers out of order |
| license | key file, expiry | activate, check | clock arithmetic |
| dex, apk, resources, the text of Java and smali, dexmapper, rehydrate, unpackers, crypto | none to speak of: functions of their input | parse, print, match, lay out | pure algorithms |

How they interact. The interpreter owns at most one debugger and calls it ahead
of every instruction; the host calls the debugger only between two calls of the
interpreter, because both need `&mut Vm`. The interpreter recurses on the native
stack: `invoke-*`, constructors and `sget` of an uninitialised class call
`call_method` again. Spawned threads are not concurrent: `spawn_method` runs the
method to its end. The desktop commands run concurrently and share the project
through one `RwLock`; they talk to each other and to the next start of the
program through `project.json` and the cache directory. The frontend awaits the
commands one by one, and several of its asynchronous actions overlap. The web
server's handlers share six values and no more. The dominator pass, the SSA
builder and structure recovery run one after the other on a graph of their own.

## Modules

| module | models | properties and proofs |
|---|---|---|
| `Timeline` | abstract specification of the time-travel history | refined by `Debugger` |
| `Debugger` | `debugger.rs` | `DebuggerProofs` |
| `Vm` | `vm.rs`, `threading.rs`; extends `Debugger`: each instruction passes the budget, then `Tick` of the debugger | `hosts`, `desktop`, `vm_clinit_cut`; `VmProofs` |
| `ClassLookup` | class index, method cache, `add_dex_file`, and how the hosts find a method | `crates`; `VmProofs` |
| `Opcodes` | the integer, array, field and jump opcodes of both implementations | `crates`; `OpcodeProofs` |
| `Project` | `project.rs` and the commands that change the project | `desktop`, `hosts`, `project_torn`; `ProjectProofs` |
| `ScriptRunner`, `UiState` | scripts; the durable UI state | `hosts`, `ui_overlap`; `HostProofs` |
| `WebServer` | every handler of the web server | `hosts`; `HostProofs` |
| `Deobf` | the deobfuscation tab and the commands that run call sites | `crates`, `deobf_shared_inputs`; `WindowProofs` |
| `Taint`, `TaintGraph` | the taint pass; the taint window's call graph | `crates`, `taint_acyclic`, `graph_depth`; `TaintProofs`, `WindowProofs` |
| `Dominators`, `Ssa` | the graph, its dominators, SSA construction | `ssa`; `GraphProofs` |
| `Structure` | from instructions to blocks to the printed Java; extends `Dominators` | `crates`, `structure_loops` |
| `ApkBuild` | repacking and signing | `crates`, `apk_idsig`; `HostProofs` |
| `MCDebugger`, `MCVm`, `MCOpcodes`, `MCProject`, `MCSsa`, `MCStructure`, `MCTaint`, `MCGraph`, `MCDeobf`, `MCLookup`, `MCApk` | instances for TLC | |
| `MCHosts`, `MCDesktop`, `MCCrates` | several components side by side | |

**Debugger.** A snapshot is `[step_index, site, depth]`; a site is the pair
(method_ref, codepoint). `Tick` is `before_instruction`, one disjunct per
return: `TickPaused`, `TickBreakpoint`, `TickCallReturned`, `TickCapture`. What
the first lines do to the mode when a step-over is pending is `ModeAt`; the
predicate of `trace_until` is any Boolean. `Pushed` truncates the rewound future
and appends, `Drop` is `gc_history`. `decision` is the returned `StepDecision`;
`panicked` says that `Vec::drain` or the `expect` failed, after which nothing
happens any more. `back_stack` and the play head are unsigned differences in the
code: `PlayHeadInHistory` is what keeps them from wrapping.

**Vm.** `call_method` and `execute_block` recurse on the native stack; the model
turns the recursion into the sequence `frames`, and a frame's `why` records what
its caller does with the answer (`Resumed`): a plain call leaves the register
alone, a constructor's answer is written into `this`, a `<clinit>` lets `sget`
re-read its field. One step is one turn of `execute_block`'s loop: budget
(`BudgetOut`), debugger (`PauseOut`), instruction (one action per family), and,
when the frame ends, `Leave`, the epilogue of `call_method` with, at the bottom
of the stack, the epilogue of `spawn_method`. Programs are values of the
constant `Programs`. Basic blocks are flattened to `pc`, a frame has one
register. Instance fields live in the static map in the code and are the same
operations here.

**ClassLookup.** `AddDexFile` extends the index (the first class of a name stays)
and the lookup map (which decides nothing); `FindAndCloneMethod` answers from the
cache or from the index and then the scan, and caches the answer, a miss too.
`RunMethodFinds` and `BatchFinds` are how the desktop's commands look for a
method, with neither index nor cache. A type is what is left without its leading
Ls, and how many there were; a method is named without its signature, as in the
code, so the first of several overloads is taken by all three.
`CallsReachHostsMethod` says that the three agree, except where one file has two
classes that differ only in leading Ls.

**Opcodes.** One instruction after another on registers of values of small
widths, with `faithful` saying which of the two implementations runs (the inline
one of `vm.rs` or the functions of `opcodes/`). A reference definition of each
operation stands beside it (`ArithmeticRight`: of the arithmetic of the
functions, `AluMatchesReference`, and of the inline one, `InlineArithmeticRight`);
moves, arrays, fields, wide pairs, comparisons, switches and jumps are modelled
as the code has them.

**Project.** A file is its content and a content is its SHA-256; `disk` maps
paths to contents, with `Missing` and `Partial` (a write cut short). Commands
that hold the write lock from beginning to end are one action. `load_file`,
`load_file_b`, `project_add_apk` and `project_load_embedded` (plain and nested)
work between locks, and `task[t]` holds what the command has in its hands
between two phases: `LoadParses`/`ExtractBegins`, `ExtractEnds`, `ExtractParses`,
`LoadInserts`. `save` happens under the write lock in three steps, because a
crash can come between truncation and the last byte; other commands wait, the
process can die. `Restart` is the end of the process at any moment followed by
`Project::load`. `FileChanges` is somebody else's program, and the constant
`Changing` says which of the user's files it rewrites. The slot list is a set;
where the code takes the first slot that matches, the model takes any of them,
which only adds behaviours.

**ScriptRunner, UiState.** A run goes through spawning, recording the pid,
waiting, clearing and answering; a stop takes the pid and signals after the
unlock. Process ids are the operating system's and are reused. A `persistSet`
opens the temporary file, fills it and renames it; files are inodes, so that a
file can be renamed while it is being written; a crash or a full disk comes
between any two of these, and so does another writer of the key, for nobody waits
for a `persistSet`. The history variables `crossed`, `kept` and `voided` tell the
writes that overlapped another one from those that may rely on the rename.

**Deobf.** A run under way is a record in `bulk`: the methods it still has to
scan, its requests, and the results it has of them; each await of the store's
loops is a step boundary (`Scan`, `SendBatch`, `BatchAnswered`). `BatchAnswers`
is the command: one execution per fingerprint, each on a machine that is new or
has been used, scattered back by index. `ExecCallsParallel` is `find_exec`'s
way: sites dealt out over the threads, a memo for each, and put back together.
A value is the method and the arguments it was computed from.

**WebServer.** A handler is the sequence of locks it takes (`Locks`); a lock is
a fair queue; a part is the number of the load that wrote it and whether there
is anything in it. Handlers are not cancelled in the middle (external).

**Taint, TaintGraph.** Opcodes are grouped by what they do to the taint of
registers. The pass is one action per instruction, over every method of the
instance; what flows along paths is defined a second time for comparison. The
second definition (`Flows`) can be told that some opcodes do nothing: without
`ArrayOps`, `new-array` and `filled-new-array`, for which the pass has an arm
that no instruction reaches. The window holds the graph, sends the whole of it
with every request and takes the answer for the new one, while other requests
are under way.

**Dominators, Ssa.** A block is what ends it (`term`) and the registers it
defines (`defs`); its edges are sequences, in the order the builder adds them,
because the code's loops follow that order, and a branch to the next block gives
the same edge twice. `pc` says which pass is running. `frames` and `calls` are
the native stacks of `dfs_rpo` and `rename_block`; one turn of a loop is one
action. Dominance is defined a second time, by what can be reached without a
block (`ReachedWithout`), and that is what the invariants compare with. A
handler is a block that the covered ones reach by exceptional edges, which the
dominator pass ignores and the renaming does not.

**Structure.** Instructions are cut into blocks, `Dominators` runs on them,
`structure_region` recovers ifs and loops, and what is printed is executed
against the instructions: `JavaKeepsFlow` says that the same plain instructions
run under the same decisions. It is checked on the methods for which it can hold
(`Recoverable` in `MCStructure`): a return only where an `if` of the outermost
level guards it, and neither an `else` nor a return inside a loop. Outside that
class it fails, for the reasons given below.

**ApkBuild.** A file is its entries, the blocks between them and the central
directory, the directory, and the offset in the end record; offsets count
pieces; a hash is what was hashed. Builds and signings come in any order. What they
make is written as the code writes it, over the named file, which is truncated
first and then filled (`TruncateApk`, `FillApk`); a crash in between leaves
`Truncated`, from which nothing can be opened any more. What verifies is defined as
a verifier computes it.

**MCHosts, MCDesktop, MCCrates.** Components that share nothing are checked in one
run: an initial state chooses a `scene`, and only that component moves. The scenes
of `MCHosts` are `project`, `vm`, `web`, `scripts` and `ui`; those of `MCDesktop`,
which only safety is asked of, are `project` and `debugger`; those of `MCCrates` are
`run` (opcodes), `debug`, `java`, `taint`, `graph`, `apk`, `deobf` and `lookup`.

## Runs

Every property of a passing run is broken by at least one mutant of the code it
is about (`PROJECT.json`, "mutants"; the mutated operators stand next to the
ones they replace).

| run | question | result |
|---|---|---|
| `vm_clinit_cut` | is a class that counts as initialised initialised? | no |
| `desktop` | the project: two commands in flight, wipes, removals, crashes, failing saves and wipes, splits that change; or the interpreter under a debugger, with breakpoints, every stepping mode and budgets | pointers refer to slots, one slot per content whose id is its hash, a wipe does not take a file from under an extraction; a cut run only unwinds |
| `project_torn` | does the path `cache_bytes` returns hold the bytes? | not after a crash or beside another writer |
| `hosts` | all programs of two families (calls, recursion, loops, constructors; initialisers of two classes that need each other), budgets, bans, missing code, spawns; the project over restarts; the web server's requests; scripts; the UI state under two writers | initialisers are not re-entered, an exhausted call returns None, the record of a finished thread is not overwritten, and a call with a budget comes back; with no save under way and none failed a crash loses no slot, mark or split whose file is there (`RestartKeepsWork`); a load that overlapped no other leaves one load's parts everywhere, a run never sees resources newer than its code, what is read after an answer is not older, every request is answered; a late stop signals nothing, a stop that found a waiting script ends its run; a completed UI value whose write overlapped no other survives until a write that did is renamed over it (`DurableKept`) |
| `ui_overlap` | can a crash in the middle of a write truncate a completed UI value? | yes, beside a second write of the key |
| `ssa` | all methods of four blocks | dominators, frontiers, loop headers, enough phi nodes with the right sources; every pass ends |
| `crates` | the debugger, the opcodes, the printed Java, the taint pass and window, repacking and signing, bulk deobfuscation, method lookup | see the comments of the properties in `Debugger`, `Opcodes`, `Structure`, `Taint`, `TaintGraph`, `ApkBuild`, `Deobf` and `ClassLookup` |
| `taint_acyclic` | is the linear pass sound for acyclic paths? | no |
| `graph_depth` | is the root the only node of depth 0? | no, not after a caller was expanded forward |
| `structure_loops` | does the printed Java keep the flow of loops with ifs and elses, without returns? | no |
| `apk_idsig` | does the sidecar name the digest of the signing block? | no |
| `deobf_shared_inputs` | does a row show what its own method computed? | not when two methods are called with the same arguments |

Type invariants (`VmTypeOK`, `ProjectTypeOK`, `SsaTypeOK`, `OpTypeOK`,
`WebTypeOK`, `ScriptTypeOK` and `Debugger`'s `TypeOK`) are stated in the modules;
no run spends a property on them, and those of `Debugger`, `Project` and
`ScriptRunner` are proved. `HistoryOrdered` and `ArmedOnlyBeforeCallSite` are
proved and not repeated by a run either.

### Bounds

* `Batch` stands for 1024, `DefaultCap` for 10000, `MaxDepth` for 16. The code
  only compares and subtracts these numbers, and the cases are caps of one, below
  the batch, of the batch, and above it, and a cap lowered below the current
  length. The theorems of `DebuggerProofs` are for every value.
* `MaxIndex` bounds the captures between two clears: 5 in the debugger's scene,
  enough for a collection at every cap, for captures and rewinds after one at a
  smaller cap, and for a collection after a rewind. It is a guard of `TickCapture`
  only.
* Scene `vm` of `hosts`: `MaxDepth` 4 (a call, a constructor and an initialiser
  nest, and the next one is refused), `Limits` {3, 7} (a budget that ends inside
  the innermost frame of each program and one that lets most of them finish),
  two threads, so that finishing one can disturb the other, and no debugger. 15
  programs of calls and 24 of statics: every pair of an entry body and a callee
  body, every triple of an entry and two initialisers. A jump to a place without
  an instruction is the block without a successor.
* Window `debugger` of `desktop` has a program of its own, a call whose caller
  writes a static after it, `MaxDepth` 3, one limit (4), no threads and three
  captures; all the programs of scene `vm` under the debugger are more than TLC
  can go through.
* Window `project` of `desktop`: an application with one embedded payload, one
  file and one split of the user, two commands in flight, no marks. Two commands
  are what the races need: one that parses or writes, and one that wipes,
  removes or inserts. The scene `project` of `hosts` trades the second content
  and the second command for a mark and for files that all change.
* `hosts`: two requests in flight over three kinds of file with two loads of
  slot A and one of B; two scripts, two stops and two process ids, so that an id
  is reused; two writers of a key, three files and four values (three in
  `ui_overlap`).
* `ssa`: each of four blocks returns, jumps to any block, or branches to any
  block and falls through. Four blocks are what a loop with two entries and a
  phi that needs another phi take. Blocks 1 and 2 are in a try range with block
  3 as the handler. One block, any of them, defines a local once and a parameter
  twice; the parameter also has a version at the entry, the local has none.
* `crates`: registers of 4 bits (a long is twice an int), literals of 2 and 3,
  where every boundary value of the code's widths has its counterpart; methods
  of up to five statements for the printed Java (13 blocks are enough for the
  largest); every method of three instructions of a menu of 26 ahead of a sink
  for taint, with three registers and three sets of overrides; a call graph of
  four methods with two recursions and two requests under way; two entries, two
  keys and one addition to each builder; a method with four call sites, more
  than the batch of two, two of which have one input and two one row, beside a
  method that is called with the same input, and two runs; up to three of five
  DEX files, which define a class again with other methods, without any, with
  overloads, and with a twin, and every order of adding them and of asking for
  three types' methods. Runs of the deobfuscation tab and requests of the taint
  window are symmetric.
* `structure_loops` has methods of four statements, `vm_clinit_cut` one thread
  and depth 3, `project_torn` a mark and no files that change, `apk_idsig` always
  asks for a sidecar. `taint_acyclic` leaves out the array instructions and the
  overrides, so that its counterexample is about branches; `graph_depth` has the call
  graph of `crates` and one request.
* Deadlock is not checked where a bound or the model stops the system on
  purpose: after `MaxIndex` captures or a panic of the debugger; with no loadable
  file at all in the project's runs; in the runs of scenes, where a method is
  analysed or run once and the loads, values and builds are bounded; and when
  the builder returns in `ssa`.

### Fairness

`VmFairness` is `WF_machineVars(VmStep)`: once `call_method` was entered its loop
runs on without waiting for anybody, since the interpreter is sequential code
with no lock, I/O or sleep in it. Nothing is assumed of the host, which need
never call anything. `BudgetedCallReturns` is its liveness property: without a
budget a program may loop for ever, and does. `Ssa` is fair for the same reason:
two sequential calls, and `Terminates` says that they return.
`WebFairness` lets a handler that has its lock go on; that the locks are granted
in the order of asking is not fairness but the queue itself (tokio's RwLock is
fair). `RequestsAnswered` needs nothing of the clients. `ScriptFairness` lets a
run and a stop go on and a process that was signalled end; a script that nobody
stops may run for ever.
Nothing in `Project`, `TaintGraph`, `ApkBuild` and `Deobf` is fair: a command may
never finish.

## Proofs

`DebuggerProofs` is about every set of sites, every depth limit, batch, default
cap, set of caps the host asks for, and index bound.

* Assumption: `ConstantsOK`.
* Inductive invariant `IInv`: the types, `PlayHeadInHistory`, `HistoryOrdered`,
  `ArmedOnlyBeforeCallSite` and `PanicsOnlyBelowBatch`. The play head stays inside the
  history only because a collection never drops more than there is without
  panicking; the order is kept by `Pushed` only if all indices are below
  `nextIndex`.
* Theorems: `TypeCorrect`, `PlayHeadSafe`, `HistoryStaysOrdered`, `ArmSafe`,
  `PanicsNeedSmallCap` (the only way to the panic is a cap below one batch), `CapMet`,
  and `DebuggerImplementsTimeline`: the refinement of
  `Timeline` under the mapping trace = history, head = its length minus
  `backStack`. `StepOnTimeline` maps every action to a step of `Timeline` or to
  a stutter. They hold for every cap, small ones included; a collection that
  drops everything there is is a `Clear` of the time line.

`ProjectProofs` is about every set of contents, embedded payloads, files, marks
and commands in flight.

* Assumptions: `ProjectConstantsOK` (among them, that two contents have two cache
  files: the names are prefixes of SHA-256), and for `IdentitySafe`, stated in
  it, that nobody rewrites a file that is loaded as an APK (splits may change).
  It does not hold without.
* `TypeCorrect` and `PointersSafe`: the types and the pointers are inductive
  together. Every way to lose a slot goes through `RemoveIds` or `Restart`,
  which repair the pointers; every other change keeps the ids (`UpsertedType`,
  `ReplacedType`).
* `IdentitySafe`: `SlotIdentity` is not inductive, for a restart builds the slots
  from `project.json` and from the disk, and an insertion brings a slot that
  was parsed many steps ago. `Identity` adds that cache files hold the content
  they are named after or none, and that the slots in memory, in
  `project.json`, and in the hands of a command agree with the disk.
* `WorkSurvivesRestart` from `Persisted`: with no save under way and none
  failed, `project.json` has every slot that is in memory, with its marks and
  with at least its splits (a restart leaves out the splits that are gone, and
  their names stay in the file). It needs `NoProjectSaved`: the state with no
  file is none that a save writes.
* `ExtractionsKeepFiles` from `Claimed`: the file of an extraction that is under
  way exists: an extraction keeps the project's lock until the file is written,
  and a wipe needs that lock for writing.

The last part of `HostProofs` is about every APK, set of keys and sequence of
repackings, signings and crashes.

* `SoundFiles`: the file on disk, unless a crash has left it cut off, and the
  one that is about to be written, is either as the zip writer left it, or holds
  exactly one block, for the signing that is on record, whose digest is that of
  the file with the block cut out and the end record set back.
  `SignaturesVerify` alone is not inductive: it would not tell the stripping
  that what it cuts off is the only piece there (`StripPlain`).
* Theorems: `SignaturesAlwaysVerify`, `NoFormerSigner`.

`HostProofs` is about any number of runs, stops, process ids, values and files,
and of requests in flight, loads and kinds of file.

* `LateKillHarmless` from `PidWatched`: an id is recorded only while some run is
  between its recording and its clearing.
* `CompletedValuesKept` from `Orderly`, for any number of writers: the temporary file
  and the key's are different files; a writer that overlaps no other is the only one
  under way, and its value is whole in the temporary file by the time that is renamed
  (`LoneWriter`); and nobody writes to the file of the value that was kept
  (`KeptApart`).
* The web server, with `WebConstantsOK`: nothing is needed of the queues: that a write
  lock is not granted while a reader has the guard is all the argument uses.
* `WebInv`: for each slot, a load that overlapped no other is the latest and the
  only one under way, and every part whose lock it has had is its own (`Alone`);
  for each reader, a run that has the guard on the code has seen the code that
  is there now (`ReaderInv`). `SettledWhole` alone speaks of the time when no
  load is under way and says nothing of how a load gets there, and
  `RunNeverBehind` needs the order of the parts themselves in every state: code
  and resources that are both of loads that overlapped no other are never
  resources ahead of the code.
* Theorems of it: `SettledAlways`, `RunNeverBehindAlways`, `FreshReadsAlways`.

`VmProofs` is about every program, depth limit, budget and denylist, with and
without a debugger.

* Assumptions: `VmConstantsOK`, and `ProgramsOK`: programs are made of the
  instructions that the model knows.
* `VmInv`: the types that a step needs (`Types`), `ClinitNotReentered`, and
  `StillCut`: while a call that was cut short unwinds, what cut it short is still
  there (the budget is 0, or the debugger is paused and answers so again), and
  after a budget cut nothing has been returned. Without `StillCut` the other two
  properties are not inductive: that no instruction runs after a cut follows only
  from every outer frame finding the same answer at its next turn.
* `ClinitNotReentered` is inductive with the types: `sget` sets the mark in the
  step that pushes the initialiser's frame, and nothing takes a mark away, not
  even `reset_for_call`.
* Theorems: `ClinitNeverReentered`, `ExhaustedReturnsNone`, `CutRunUnwinds`.
* `FinishedThreadsStay` from `ThreadsInv`: handles are handed out in increasing
  order, and only the thread of the spawn under way is not finished.
* The lookup of methods, with `LookupConstantsOK` (a DEX file is a sequence of
  classes): `LookupInv` says that the index has, for every name, the first file
  with a class of that name and the first such class in it, and that a cached
  answer is what a lookup in the files of its time gives. `CallsReachIt` follows:
  the two ways of the hosts and the index with its scan agree on any files
  without twins, and a hit is not changed by files that come later.

`WindowProofs` is about every program and any number of requests of the taint
window, and about every set of call sites, batch size, number of threads and of
runs of the deobfuscation tab.

* `WindowInv`: the three things that the properties say of the graph that is
  shown (`Good`) hold of every graph that is under way with a request, because
  each answer is made of the graph that was sent, not of the one that is shown.
  Theorems: `ExpandedNodesComplete`, `DepthsFollowEdges` (a depth is one hop from some
  neighbour's, which is less than the distance from the root: finding 7).
* `AloneLosesNothing` from `AloneInv`: a request that nothing crossed carries the
  graph that is still shown.
* `DeobfInv` (assumption `DeobfConstantsOK`): the requests of a method's own run
  are that method's sites, in their order; the values it has collected are,
  position by position, what those sites give alone, whatever machine ran them;
  and the same holds of its report, of what `find_exec`'s threads put together,
  and, for the arguments, of the rows. Theorem: `RunsReportOwnResults`.

`TaintProofs` is about every method, of any length, and every set of overrides.

* Assumption: `TaintConstantsOK` (instructions have the operands that their kind
  has).
* `TaintInv`: on straight code the registers hold exactly what flows to the
  instruction that comes next, and the reports are those of the instructions
  before it (`Exact`), for the flows in which the array instructions of `ArrayOps`
  do nothing. With jumps forward that skip only what adds, they hold at
  least that, and also what every jump that was passed sends further on
  (`Covering`): the pass forgets nothing on the way to a target because whatever
  stands between adds only (`AddingKeeps`).
* Theorems: `StraightLinesExact`, `SkippingMissesNothing`.
* What flows is a recursive function of the instruction, and a recursive function
  means what its definition says only if there is a function that satisfies it.
  `FlowsExist` shows this by a least counterexample (`NatLessThanWellFounded` and
  `WFMin`), since the induction theorems of the library cannot be instantiated.

`GraphProofs` is about every method: any number of blocks, whatever ends them, and
so every control-flow graph, irreducible ones included, with duplicate edges,
self loops and blocks that nothing reaches.

* Assumption: `GraphAssumption` (a branch goes to a block or to an address where
  none starts).
* `GraphInv`, part by part of the pass. `SearchOK`, of the search: the activations
  are a path from the entry, what they have not looked at yet is all that is
  missing, and every block that is done has a predecessor that is earlier in the
  order or still open. So the order lists what is reachable, and every block but
  the entry has an earlier predecessor (`OrderOK`), which is all that the rest
  needs of a reverse post-order.
* `IdomInv`, of the fixed point: the known idoms are a tree that goes backwards in
  the order (`TreeOK`), which is why the fingers meet; no dominator of a block has
  been climbed past (`Sound`); and with nothing changed in this pass, the idom of
  each processed block is above all its predecessors. The last two together are
  the tree of dominators (`AncestorsDominate`): a block above another one in the
  tree dominates it, for the blocks that it is not above are a set that no edge
  leaves but to it.
* The frontier pass compares with the definition through the set that a walk
  collects (`Climbed`, `FrontierOfIs`); a block with one edge into it has that
  edge's source as a dominator, which is why the code may leave it out.
* Loop headers: of any blocks without a header the last one in the order has no
  edge into them (`HeadersCut`).
* That the recursive functions of `Intersect`, `Runners`, `Agreed` and `Kept`
  exist is proved first (`MeetExists`, `RunnersAre`, `AgreedExists`, `KeptExists`).
* Theorems: `TreeIsDominatorTree`, `FrontiersAreDefinition`, `HeadersCutCycles`.

The second half of `GraphProofs` is about the SSA builder, for every such graph, any
number of registers and any sequence of definitions in each block.

* Assumption: `SsaAssumption` (the parameters and the definitions of each block
  are sequences of registers).
* `SsaInv`, part by part. While phis are placed (`Placing`), a register that
  has had its turn has a phi in the frontier of each block that defines it
  (`Merged`), unless that block is still on the worklist of the register at work;
  a phi counts as a definition. At the end of placing this is left for all
  (`AllMerged`).
* Renaming is recursive, so its invariant has to say what is done and what
  waits. It does so with a set and a function that are no variables of the
  program: the blocks `E` entered so far (`Walked`) and the heights `h` of each
  register's stack at each activation (`Stacked`). `Walked`: a block that is not
  in `E` while its dominator is waits in that dominator's activation, once; a
  block in `E` that does not define a register ends with its dominator's
  version. `Stacked`: the top of a stack at an activation's height is what that
  activation's block ends with, so a child starts with it whatever its elder
  siblings have pushed and popped. `Sourced`: a phi has the sources that the
  edges from `E` bring, and no other.
* When no activation is left, `E` is every reachable block, since the earliest
  block in the order that it lacks would have its dominator in it (`WalkEnds`).
* `MergedMeet`: along the tree from a predecessor up to the dominator of a
  block without a phi, every block on the way has that block in its frontier, so
  none defines the register, and each ends with what the next one ends with. This
  is where the definition of frontiers and the dominator tree are needed, and
  it is cited from the first half.
* Theorems: `VersionsAlwaysMeet`, `PhiSourcesAreComplete`.

`OpcodeProofs` is about every choice of widths, every array limit, every frame and
every program of decoded instructions, in both modes.

* Assumptions: `OpcodesConstantsOK` (a byte is shorter than a short, that and the 24
  bits of the shift masks are shorter than an int, an int is a power of two of bits,
  and an array index fits 64 bits) and `CasesOK` (a program is a sequence of
  what the decoder can produce, `DecodedInstrs`, with switch tables of ints; the
  frame has at most as many registers as 16 bits can number; what it holds at the start
  are numbers, strings, bytes and null, since an array has first to be made;
  strings and byte vectors are shorter than 2^32).
* The prover knows nothing of powers, so `2 ^ n` is counted: `FS_SUBSET` gives the
  subsets of `1..n` that number, half of those of `1..n + 1` lack `n + 1`
  (`Doubles`), and by a least counterexample sums, quotients and towers of
  moduli follow (`PowersAdd`, `PowersDivide`, `ModTower`).
* Bits: `&`, `|` and `^` are defined in `Opcodes` bit by bit, and the masks of
  `sign_extend` keep exactly the bits below them (`AndMasks`). Both ways to
  extend a sign are then `Signed` (`MasksExtendSign`, `ShiftsExtendSign`).
* `OpTypeOK` is inductive by itself, with one lemma per family of opcodes. That no handle
  outlives its array, and that an array can only grow in number, is what
  `FramesGrow` carries through each step.
* `ArithmeticRight` needs nothing of the past but the types: `BinaryRight` is
  about one instruction. It says exactly when an instruction panics (inline: the
  smallest long divided by -1; faithful: that, and perhaps a right shift by a
  negative count, which a build with overflow checks refuses) and what every
  other one leaves, for all 64 bits that the registers may hold: the `ushr-int`
  of three operands is stated as the arithmetic shift that it is, and only an
  int's quotient, remainder and arithmetic right shift are left open, where an
  operand's register has overflowed. What the code computes on 64 wrapping bits
  is compared with the unbounded reference through `LongKeepsLow`, and Rust's
  truncated quotients with the floors of the reference through `TruncDivIs` and
  `FloorDivIsFloor`.
* `FieldCarriesPair` and `AputSeenThroughField` compare the first instruction of a
  program with the last, and look one step back only. `PairStored` says what the
  field holds after the put. `Stages` says, for each of the first four of the
  five instructions, what the registers, the field and the array hold: the
  handle stays in the field and in the register, whatever the later
  instructions may overwrite, and the written element is found by both.
* Theorems: `OpTypesAlways`, `ArithmeticIsRight`, `JumpsAlwaysLand`,
  `PairsComeBack`, `AputIsShared`.

Only model-checked: `BudgetedCallReturns` and the other liveness properties, which
are out of the prover's reach, and `Structure`, whose region printer is a
`RECURSIVE` operator over the graph and a visited set: what it prints for every
graph is an induction over its calls, which the prover cannot do.

## Where the code and its comments disagree

Each is the counterexample of a run whose property is the comment; the lines
are quoted in `PROJECT.json`, "findings".

1. `vm_clinit_cut`: the `__clinit__` mark is set before the initialiser runs and
   stays when the initialiser is cut short by the budget, paused or refused at
   the depth limit. The fields read as null from then on, in later calls too.
2. `project_torn`: a half-written cache file, left by a crash or seen while
   another command is writing it, is taken for the extracted APK by every later
   extraction; the parse fails until the cache is wiped.
3. `deobf_shared_inputs`: a batch is deduplicated by the arguments alone, and
   "Deobfuscate All" and "Shown" put several methods into one batch. Where two of
   them are called with the same arguments (a common key, an index, no argument
   at all), only the first is run, and its value is shown at the other's sites.
4. `taint_acyclic`: the linear pass clears a register for both branches when one
   of them overwrites it, so it misses a flow in a method without a loop. By
   `StraightLinesExact` the counterexample of a method without array instructions
   needs a branch.
5. `structure_loops`: an `if`/`else` inside a loop is printed with its else
   branch after the `if`, unconditionally, because the merge point is looked for
   along back edges too.
6. `apk_idsig`: the v4 sidecar's digest includes the signing block, so it is not
   the digest that the block carries.
7. `graph_depth`: a depth is one hop on from the node that was expanded. Expanding a
   method backward and its caller forward gives the caller's other callees depth 0,
   the root's, and the window calls them "root".
8. `ui_overlap`: two writes of one UI key share a temporary file, so the one that
   renames can put the file that the other has just truncated in the place of a
   completed value; a crash then leaves it there.

## What the model shows beside the properties

Behaviours of the code that the models have as they are, and that no run is
spent on.

Debugger and interpreter:
* `step_over` with a non-empty history pauses on the call site itself, because
  `last_pause_is_post_call` only asks whether there is a snapshot
  (`debugger.rs:461`).
* `set_history_cap` accepts any positive number, and a cap below 1024 makes the
  first collection drain more snapshots than there are: a panic of the interpreter's
  thread. `PanicsOnlyBelowBatch` says that nothing else brings it about.
* A breakpoint pause leaves no place to resume from: the next call starts at the
  method's first instruction (`vm.rs:1186`). A call that pauses returns the
  `last_return` of some earlier invoke (`vm.rs:1200`), and a caller that finds
  the budget empty while it unwinds replaces the pause reason (`vm.rs:1172`).
* A spawned thread whose call was cut is recorded as completed with null
  (`vm.rs:1390`), and a spawn can report the depth of an earlier call as its own.
* `if-eqz` takes integers, false and None, so `Some(Null)` does not branch though
  the comment at `vm.rs:647` says null does; `ushr-int` differs between its
  three forms; registers keep 64 bits, so division and right shifts differ after
  an overflow; `long-to-double` with adjacent registers reads what it wrote.

* A cached miss outlives the addition of the DEX file that has the method
  (`vm.rs:1477`). The linear scan, "only if class_index missed (shouldn't happen in
  practice)" (`vm.rs:1461`), also runs, and finds the class in a later file, when
  the indexed class has no such method. `lookup_map` is only
  read by its own insertion and by `lookup_method`, which nothing calls.

Desktop application:
* Loading a file that is there already replaces its slot, so its marks and
  splits are gone and the save makes it permanent (`project.rs:228`, whose
  header calls it idempotent); the frontend does so at every start and every
  switch of slots.
* With APKs that are rewritten, a forced reload gives a slot a hash that is not
  its id, and loading the old content again makes a second slot with that id
  (`commands.rs:2350`). `SlotIdentity` is checked and proved for APKs that stay
  as they are.
* A wipe between the parsing and the insertion of an embedded APK leaves a slot
  whose file does not exist (`commands.rs:2375`).
* Two scripts can run at once: Ctrl+Enter does not look at `isScriptRunning`,
  and the back end relies on the frontend (`commands.rs:1868`). The end of one
  clears the pid of the other. A stop between spawn and record finds nothing,
  and one that has taken the pid can signal a process that reused it
  (`commands.rs:1963`).
* The two writes of finding 8 can also publish a mix of both values, or the later one
  fail because the earlier has renamed its file (`RenameFails`).
* `deobf_run_specific_sites` and `exec_calls` say that "each call is isolated by
  `reset_for_call`"; it keeps static fields and initialised marks, so what a
  method that remembers computes depends on what its machine ran before.
  `OwnResults` leaves such methods out (`Remembering`).
* A run of a method that is unmarked meanwhile goes on, and merges its rows and
  its report after the unmarking dropped them; the method can be marked and run
  again beside it, and the first of the two to end takes the flag down. Starting
  any run clears a stop that another run has not seen yet, and the stop flag is
  not cleared when a run finishes (`appStore.ts:256` says it is).
* `deobfSiteKey` (`appStore.ts:521`) leaves the calling method out, so call sites
  of two methods of a class at the same offset share a row.

Web server: loads of one slot that overlap mix their parts for good, until the
next load that overlaps no other (`mixed`); a run that reads between the parts of
a load sees new code with old resources; after an upload `loaded_path` is only a
name, which `get_entry` cannot open.

Taint: `filled-new-array` and `new-array` are decoded to
`InstructionKind::Array` (`instructions.rs:629`) and so never reach the arm
meant for them (`taint.rs:363-367`): a filled array has no taint of its
elements, and `new-array` leaves its register's old taint there.
`StraightLineExact` and `SkippedOnlyAdds` state what is reported instead; the
last tainted return replaces the earlier ones; backward expansion matches by
substring; the shorter depth of `add_or_get_node` (`taint.rs:1018`) is never
taken, for its callers ask `node_index` first; with two requests under way the
answer that arrives last overwrites what the other found, and an answer that
arrives after the target was changed replaces the new target's graph.
`NothingLostAlone` is about requests that do not overlap.

Structure recovery, beside finding 5: an early return inside a nested `if` pulls
the code after it into the inner branch (`decompiler.rs:220`); a loop whose last
`if` jumps straight back to the header loses the condition; what a loop header
computes ahead of its test is printed once, before the loop
(`java_generator.rs:662`); loops tested at the bottom never become `do`/`while`.
A method that starts with a loop gets no phi at its entry when a single edge goes
back there, for the walk skips blocks with fewer than two predecessors
(`dominator_tree.rs:156`); with two, the entry enters the frontiers of the blocks
below it but never its own. `FrontierCorrect` and `VersionsMeet` are about the
other blocks.

APK builder: delete followed by add, or an addition in place of a stripped
META-INF file, leaves the entry out (`builder.rs:199`); replacing a name that the
input does not have is ignored; the sidecar is written before the APK it
belongs to, and a later signing without v4 leaves a stale one.

## Not modelled

* Parsing, decoding, printing and rendering: sequential functions of their
  input (DEX, AXML, ARSC and ZIP; expressions and types of the Java text; smali;
  layout rehydration; the unpackers and ciphers; the viewers; the malware
  analyzer; the Python predecessor). Most of the implementation's lines are
  here.
* Floating point, strings and the data of mocks: a register is written with
  some value.
* Exception tables: `throw` ends its frame with no value, as in the code.
* In the lookup of a method, what makes a class unreadable, and `lookup_method`
  with its running index over direct and virtual methods (`vm.rs:251`), which
  nothing calls. `Vm` itself takes the methods as a fixed set with or without
  code.
* Slot parents (`parent_id`), manifests, display names, dex folders: nothing
  that changes the state of other slots depends on them.
* The per-slot caches of the frontend's store (what is kept when slots are
  switched or reloaded), and the annotations that results leave in the code
  view.
* Compression, alignment and Zip64 of the APK builder, v1 signatures (the code
  has none), license expiry, greedy matching of the DEX mapper.

## Plan

Done, in this order: `Debugger` with `Timeline` and its proofs; `Vm`; `Project`
and its proofs; `Dominators` and `Ssa`; `ScriptRunner`, `UiState` and their
proofs; `WebServer` and its proofs; `Taint` and `TaintGraph`; `Opcodes`; `Structure`;
`ApkBuild` and its proofs; `Deobf`; `VmProofs`; `ClassLookup`; `WindowProofs`,
`TaintProofs`, and the proofs about threads, restarts, extractions and lookup;
`GraphProofs`, first of the dominators and then of the SSA construction;
`OpcodeProofs`.

Left, in the order of importance:

1. `AppStore`: slot switches, snapshots and late answers in the frontend.
2. Pure algorithms against reference definitions: the Z-algorithm and the
   deobfuscation engine, alignment (`zip_layout.rs`), greedy matching
   (`dexmapper/matching.rs`), the mock registry's precedence.

--------------------------------- MODULE Vm ---------------------------------
(***************************************************************************)
(* platypus-vm/src/vm.rs and threading.rs: the Dalvik interpreter's call   *)
(* machinery.  call_method, execute_block and read_static_field recurse on *)
(* the host's stack; here the recursion is the sequence `frames`, and one  *)
(* step is one instruction with everything the loop does around it: the    *)
(* budget, the debugger's verdict, the instruction, and the unwinding of   *)
(* the frame when it returns.                                              *)
(*                                                                         *)
(* A frame has one register.  Basic blocks are flattened: falling through  *)
(* is pc + 1, and a pc with no instruction is a block with no successor.   *)
(* Instance fields are kept in the static map by the code (iget and iput   *)
(* are sget and sput), arithmetic and arrays are "const", and a mock, a    *)
(* resource or a JDK builtin is a "builtin" with a fixed answer.           *)
(***************************************************************************)
EXTENDS Debugger, FiniteSets

CONSTANTS
    Values, None,      \* Some(v) is v, Option::None is None
    Null,              \* Value::Null, one of Values
    Methods, NoMethod,
    Entries,           \* the methods the host calls or spawns
    Fields, NoField,
    Classes,
    ClassOf,           \* [Fields -> Classes]
    Clinit,            \* [Classes -> Methods \cup {NoMethod}]
    Programs,          \* programs: functions from methods with a CFG to code
    Denylist,          \* methods the host bans
    Limits,            \* instruction limits the host sets
    Unlimited,         \* instr_budget = None
    MaxThreads,        \* bound on the threads the host spawns
    WithDebugger       \* whether the host attaches a debugger

ASSUME VmConstantsOK ==
    /\ Null \in Values
    /\ None \notin Values
    /\ NoMethod \notin Methods
    /\ Entries \subseteq Methods
    /\ NoField \notin Fields
    /\ ClassOf \in [Fields -> Classes]
    /\ Clinit \in [Classes -> Methods \cup {NoMethod}]
    /\ Denylist \subseteq Methods
    /\ Limits \subseteq Nat
    /\ Unlimited \notin Nat
    /\ MaxThreads \in Nat
    /\ WithDebugger \in BOOLEAN

Instructions ==
    [op : {"move-result", "return", "return-void", "throw"}]
      \cup [op : {"const", "builtin"}, v : Values]
      \cup [op : {"goto"}, to : Nat]
      \cup [op : {"if-eqz"}, to : Nat, zero : Values]
      \cup [op : {"sget", "sput"}, field : Fields]
      \cup [op : {"invoke"}, m : Methods, ctor : BOOLEAN]

ASSUME ProgramsOK ==
    \A program \in Programs :
        /\ DOMAIN program \subseteq Methods
        /\ \A m \in DOMAIN program : program[m] \in Seq(Instructions)

VARIABLES
    code,         \* the loaded program
    frames,       \* call_stack, with each frame's place and register
    lastReturn,   \* memory.last_return
    budget,       \* instr_budget
    statics,      \* memory.static_fields, a partial function of Fields
    inited,       \* the classes whose __clinit__ sentinel is set
    peak,         \* peak_call_depth_during_spawn
    threads,      \* ThreadScheduler::threads, a partial function of the handles
    nextThread,   \* NEXT_THREAD_ID
    spawn,        \* the handle of the running spawn, 0 for a plain call
    attached,     \* whether a debugger is attached
    result,       \* what the latest call_method returned to the host
    cut,          \* (history) what cut the latest call short, or "no"
    completed     \* (history) classes whose <clinit> ran to its return

runVars == <<frames, lastReturn, statics, inited, peak, completed>>
threadVars == <<threads, nextThread, spawn>>
vmVars == <<code, runVars, budget, threadVars, attached, result, cut>>
machineVars == <<vmVars, dbgVars>>

-----------------------------------------------------------------------------
Running == frames # << >>
Depth == Len(frames)
Top == frames[Depth]
HasInstr == Top.pc \in 1..Len(code[Top.m])
Fetch == code[Top.m][Top.pc]
Site == <<Top.m, Top.pc>>

VmInit ==
    /\ code \in Programs
    /\ frames = << >>
    /\ lastReturn = None
    /\ budget = Unlimited
    /\ statics = [f \in {} |-> Null]
    /\ inited = {}
    /\ peak = 0
    /\ threads = [h \in {} |-> None]
    /\ nextThread = 1
    /\ spawn = 0
    /\ attached = FALSE
    /\ result = None
    /\ cut = "no"
    /\ completed = {}
    /\ DbgInit

-----------------------------------------------------------------------------

\* call_method's early returns: depth, denylist, no CFG.
Callable(m) == Depth < MaxDepth /\ m \notin Denylist /\ m \in DOMAIN code

Frame(m, arg, why, field) ==
    [m |-> m, pc |-> 1, reg |-> arg, why |-> why, field |-> field]

\* Push a frame and sample the peak depth, inside a spawn or not.
Enter(m, arg, why, field) ==
    /\ frames' = Append(frames, Frame(m, arg, why, field))
    /\ peak' = Larger(Depth + 1, peak)

ReadField(f) == IF f \in DOMAIN statics THEN statics[f] ELSE Null

\* The top frame's register and place after its instruction; st is the stack.
AdvanceTo(st, reg, pc) ==
    [st EXCEPT ![Len(st)].reg = reg, ![Len(st)].pc = pc]

\* What the callee's answer does to its caller: a <clinit> lets sget re-read
\* its field, a constructor's answer replaces `this`, if it has one.
Resumed(caller, callee, ret) ==
    CASE callee.why = "clinit" -> ReadField(callee.field)
      [] callee.why = "ctor" /\ ret # None -> ret
      [] OTHER -> caller.reg

\* What ThreadInfo records of a spawned thread.
Thread(status, value, depth) == [status |-> status, value |-> value, depth |-> depth]

\* ThreadScheduler::register, under the next handle.
Registered(thread) ==
    [h \in DOMAIN threads \cup {nextThread} |->
        IF h = nextThread THEN thread ELSE threads[h]]

\* Mutant of Finished: every thread is finished with the same outcome.
FinishedAll(h, status, value, depth) ==
    [i \in DOMAIN threads |-> Thread(status, value, depth)]

\* ThreadScheduler::finish for the handle of the running spawn.
Finished(h, status, value, depth) ==
    [threads EXCEPT ![h] = Thread(status, value, depth)]

OrNull(ret) == IF ret = None THEN Null ELSE ret

\* call_method's epilogue: pop the frame, hand `ret` (the last_return it
\* clones) to the caller, or to the host when the stack is empty.
Leave(ret) ==
    LET rest == SubSeq(frames, 1, Depth - 1)
    IN  /\ lastReturn' = ret
        /\ IF rest # << >>
           THEN /\ frames' = AdvanceTo(rest,
                                Resumed(rest[Depth - 1], Top, ret),
                                rest[Depth - 1].pc + 1)
                /\ UNCHANGED <<threadVars, result, peak>>
           ELSE /\ frames' = << >>
                /\ result' = ret
                /\ IF spawn = 0
                   THEN UNCHANGED <<threadVars, peak>>
                   ELSE /\ threads' = Finished(spawn, "Completed", OrNull(ret), peak)
                        /\ peak' = 0
                        /\ spawn' = 0
                        /\ UNCHANGED nextThread

-----------------------------------------------------------------------------
\* Host operations, between two calls.

\* reset_for_call: the call stack is cleared, the statics are not.
ResetForCall(limit) ==
    /\ ~Running
    /\ lastReturn' = None
    /\ budget' = limit
    /\ UNCHANGED <<code, frames, statics, inited, peak, completed,
                   threadVars, attached, result, cut, dbgVars>>

SetInstrLimit(limit) ==
    /\ ~Running
    /\ budget' = limit
    /\ UNCHANGED <<code, runVars, threadVars, attached, result, cut, dbgVars>>

CallMethod(m) ==
    /\ ~Running
    /\ Callable(m)
    /\ frames' = << Frame(m, None, "entry", NoField) >>
    /\ peak' = Larger(1, peak)
    /\ cut' = "no"
    /\ UNCHANGED <<code, lastReturn, statics, inited, completed, budget,
                   threadVars, attached, result, dbgVars>>

CallRefused(m) ==
    /\ ~Running
    /\ ~Callable(m)
    /\ result' = None
    /\ cut' = "refused"
    /\ UNCHANGED <<code, frames, lastReturn, statics, inited, peak, completed,
                   budget, threadVars, attached, dbgVars>>

\* spawn_method on a method with code: registered and marked running, then the
\* call begins on an empty stack.
SpawnMethod(m) ==
    /\ ~Running
    /\ nextThread <= MaxThreads
    /\ Callable(m)
    /\ nextThread' = nextThread + 1
    /\ threads' = Registered(Thread("Running", None, 0))
    /\ spawn' = nextThread
    /\ frames' = << Frame(m, None, "entry", NoField) >>
    /\ peak' = Larger(1, peak)
    /\ cut' = "no"
    /\ UNCHANGED <<code, lastReturn, statics, inited, completed, budget,
                   attached, result, dbgVars>>

\* spawn_method on a method without a CFG fails; on a denied one call_method
\* answers None, which is recorded as a completed thread.
SpawnRefused(m) ==
    /\ ~Running
    /\ nextThread <= MaxThreads
    /\ ~Callable(m)
    /\ nextThread' = nextThread + 1
    /\ IF m \in DOMAIN code
       THEN /\ threads' = Registered(Thread("Completed", Null, peak))
            /\ peak' = 0
            /\ result' = None
       ELSE /\ threads' = Registered(Thread("Failed", None, 0))
            /\ UNCHANGED <<peak, result>>
    /\ cut' = "refused"
    /\ UNCHANGED <<code, frames, lastReturn, statics, inited, completed,
                   budget, spawn, attached, dbgVars>>

Terminal(t) == t.status \in {"Completed", "Failed"}

ClearFinishedThreads ==
    /\ ~Running
    /\ threads' = [h \in {k \in DOMAIN threads : ~Terminal(threads[k])} |-> threads[h]]
    /\ UNCHANGED <<code, runVars, nextThread, spawn, budget, attached, result,
                   cut, dbgVars>>

\* Attach a new debugger, in place of any other.
AttachDebugger ==
    /\ ~Running
    /\ WithDebugger
    /\ attached' = TRUE
    /\ mode' = Paused /\ breakpoints' = {} /\ bpLabels' = {}
    /\ history' = << >> /\ historyCap' = DefaultCap /\ nextIndex' = 0
    /\ backStack' = 0 /\ lastPause' = Reason("None") /\ armStepOver' = FALSE
    /\ decision' = "none" /\ panicked' = FALSE
    /\ UNCHANGED <<code, runVars, budget, threadVars, result, cut>>

DetachDebugger ==
    /\ ~Running
    /\ attached
    /\ attached' = FALSE
    /\ UNCHANGED <<code, runVars, budget, threadVars, result, cut, dbgVars>>

DebugCommand ==
    /\ ~Running
    /\ attached
    /\ HostCommand
    /\ UNCHANGED vmVars

-----------------------------------------------------------------------------
\* execute_block, one instruction at a time: first the budget, ...
\* Mutant of Spent: an instruction is free.
SpentNothing == budget

Spent == IF budget = Unlimited THEN Unlimited ELSE budget - 1

\* ... then the debugger.  A debugger that panics takes the thread with it.
Answered(answer) ==
    IF attached
    THEN Tick(Site, Depth) /\ decision' = answer /\ ~panicked'
    ELSE answer = "Continue" /\ UNCHANGED dbgVars

\* Mutants of BudgetOut: last_return is not reset; the budget is taken away.
BudgetOutKeepsResult ==
    /\ Running /\ ~panicked /\ HasInstr
    /\ budget = 0
    /\ IF attached THEN OnFinished("BudgetExhausted") ELSE UNCHANGED dbgVars
    /\ cut' = "budget"
    /\ Leave(lastReturn)
    /\ UNCHANGED <<code, budget, statics, inited, completed, attached>>

BudgetOut ==
    /\ Running /\ ~panicked /\ HasInstr
    /\ budget = 0
    /\ IF attached THEN OnFinished("BudgetExhausted") ELSE UNCHANGED dbgVars
    /\ cut' = "budget"
    /\ Leave(None)
    /\ UNCHANGED <<code, budget, statics, inited, completed, attached>>

\* A pause unwinds one frame; last_return is whatever it was.
PauseOut ==
    /\ Running /\ ~panicked /\ HasInstr
    /\ budget # 0
    /\ budget' = Spent
    /\ Answered("Pause")
    /\ cut' = "pause"
    /\ Leave(lastReturn)
    /\ UNCHANGED <<code, statics, inited, completed, attached>>

\* No successor block: the frame ends with a stale last_return.
FallOff ==
    /\ Running /\ ~panicked /\ ~HasInstr
    /\ Leave(lastReturn)
    /\ UNCHANGED <<code, budget, statics, inited, completed, attached,
                   cut, dbgVars>>

\* An instruction that the budget and the debugger let through.
Executing(op) ==
    /\ Running /\ ~panicked /\ HasInstr
    /\ Fetch.op = op
    /\ budget # 0
    /\ budget' = Spent
    /\ Answered("Continue")
    /\ UNCHANGED <<code, attached, cut>>

\* It stays in its frame, with register reg, and goes to pc.
Continue(reg, pc) ==
    /\ frames' = AdvanceTo(frames, reg, pc)
    /\ UNCHANGED <<peak, threadVars, result>>

Const ==
    /\ Executing("const")
    /\ Continue(Fetch.v, Top.pc + 1)
    /\ UNCHANGED <<lastReturn, statics, inited, completed>>

MoveResult ==
    /\ Executing("move-result")
    /\ Continue(lastReturn, Top.pc + 1)
    /\ UNCHANGED <<lastReturn, statics, inited, completed>>

Goto ==
    /\ Executing("goto")
    /\ Continue(Top.reg, Fetch.to)
    /\ UNCHANGED <<lastReturn, statics, inited, completed>>

\* if-eqz: an unset register counts as null; so does no other value here but 0.
IfEqz ==
    /\ Executing("if-eqz")
    /\ Continue(Top.reg, IF Top.reg \in {None, Fetch.zero} THEN Fetch.to
                         ELSE Top.pc + 1)
    /\ UNCHANGED <<lastReturn, statics, inited, completed>>

Builtin ==
    /\ Executing("builtin")
    /\ lastReturn' = Fetch.v
    /\ Continue(Top.reg, Top.pc + 1)
    /\ UNCHANGED <<statics, inited, completed>>

Sput ==
    /\ Executing("sput")
    /\ statics' = [f \in DOMAIN statics \cup {Fetch.field} |->
                      IF f = Fetch.field THEN OrNull(Top.reg) ELSE statics[f]]
    /\ Continue(Top.reg, Top.pc + 1)
    /\ UNCHANGED <<lastReturn, inited, completed>>

\* read_static_field: the class is marked before its <clinit> is looked for.
InitClass == ClassOf[Fetch.field]
NeedsClinitAgain == Fetch.field \notin DOMAIN statics        \* mutant of NeedsClinit
NeedsClinit == Fetch.field \notin DOMAIN statics /\ InitClass \notin inited
ClinitRuns == NeedsClinit /\ Clinit[InitClass] # NoMethod /\ Callable(Clinit[InitClass])

SgetRead ==
    /\ Executing("sget")
    /\ ~ClinitRuns
    /\ inited' = IF NeedsClinit THEN inited \cup {InitClass} ELSE inited
    /\ Continue(ReadField(Fetch.field), Top.pc + 1)
    /\ UNCHANGED <<lastReturn, statics, completed>>

SgetClinit ==
    /\ Executing("sget")
    /\ ClinitRuns
    /\ inited' = inited \cup {InitClass}
    /\ Enter(Clinit[InitClass], None, "clinit", Fetch.field)
    /\ UNCHANGED <<lastReturn, statics, completed, threadVars, result>>

\* invoke-*: the register is the argument; a refused call answers None.
Invoke ==
    /\ Executing("invoke")
    /\ Callable(Fetch.m)
    /\ Enter(Fetch.m, OrNull(Top.reg), IF Fetch.ctor THEN "ctor" ELSE "call",
             NoField)
    /\ UNCHANGED <<lastReturn, statics, inited, completed, threadVars, result>>

InvokeRefused ==
    /\ Executing("invoke")
    /\ ~Callable(Fetch.m)
    /\ lastReturn' = None
    /\ Continue(Top.reg, Top.pc + 1)
    /\ UNCHANGED <<statics, inited, completed>>

\* return, return-void and throw: throw is a return of nothing.
Returned == IF Fetch.op = "return" THEN Top.reg ELSE None

Return(op) ==
    /\ Executing(op)
    /\ Leave(Returned)
    /\ completed' = IF Top.why = "clinit" THEN completed \cup {ClassOf[Top.field]}
                    ELSE completed
    /\ UNCHANGED <<statics, inited>>

VmStep ==
    \/ BudgetOut
    \/ PauseOut
    \/ FallOff
    \/ Const
    \/ MoveResult
    \/ Goto
    \/ IfEqz
    \/ Builtin
    \/ Sput
    \/ SgetRead
    \/ SgetClinit
    \/ Invoke
    \/ InvokeRefused
    \/ \E op \in {"return", "return-void", "throw"} : Return(op)

HostStep ==
    \/ \E l \in Limits : ResetForCall(l) \/ SetInstrLimit(l)
    \/ \E m \in Entries :
          CallMethod(m) \/ CallRefused(m) \/ SpawnMethod(m) \/ SpawnRefused(m)
    \/ ClearFinishedThreads
    \/ AttachDebugger
    \/ DetachDebugger
    \/ DebugCommand

VmNext == VmStep \/ HostStep

VmSpec == VmInit /\ [][VmNext]_machineVars

\* The loop of call_method runs on as long as it can; nothing makes the host
\* call.
VmFairness == WF_machineVars(VmStep)

-----------------------------------------------------------------------------
OptionValues == Values \cup {None}

FrameSet == [m : Methods, pc : Nat, reg : OptionValues,
             why : {"entry", "call", "ctor", "clinit"},
             field : Fields \cup {NoField}]

ThreadSet == [status : {"Running", "Completed", "Failed"},
              value : OptionValues, depth : Nat]

\* Type invariant.
VmTypeOK ==
    /\ TypeOK
    /\ code \in Programs
    /\ frames \in Seq(FrameSet)
    /\ lastReturn \in OptionValues
    /\ budget \in Nat \cup {Unlimited}
    /\ DOMAIN statics \subseteq Fields
    /\ \A f \in DOMAIN statics : statics[f] \in Values
    /\ inited \subseteq Classes
    /\ peak \in Nat
    /\ nextThread \in Nat \ {0}
    /\ DOMAIN threads \subseteq 1..(nextThread - 1)
    /\ threads \in [DOMAIN threads -> ThreadSet]
    /\ spawn \in Nat
    /\ attached \in BOOLEAN
    /\ result \in OptionValues
    /\ cut \in {"no", "budget", "pause", "refused"}
    /\ completed \subseteq Classes

ClinitFrames == {i \in 1..Depth : frames[i].why = "clinit"}

\* A class that is being initialised is never initialised again by the fields
\* its own <clinit>, or the classes that one touches, read back.
ClinitNotReentered ==
    \A i, j \in ClinitFrames :
        /\ ClassOf[frames[i].field] \in inited
        /\ ClassOf[frames[i].field] = ClassOf[frames[j].field] => i = j

\* Once the budget has run out nothing computed before it survives: the call
\* hands None up through every frame, and to the host.
ExhaustedCallReturnsNone ==
    cut = "budget" => lastReturn = None /\ (~Running => result = None)

\* Action property.  A run that was paused or ran out of budget in a nested
\* call only unwinds: each step drops a frame, and no instruction touches the
\* statics or initialises a class on the way out.
CutRunOnlyUnwinds ==
    [][Running /\ cut \in {"budget", "pause"}
         => Depth' < Depth /\ UNCHANGED <<statics, inited>>]_machineVars

\* Action property.  What a finished thread recorded stays as it is for as long
\* as the handle answers; a thread that runs is never dropped, and when finished
\* ones are dropped none of them stays.
FinishedThreadsFrozen ==
    [][\A h \in DOMAIN threads :
          \/ h \in DOMAIN threads' /\ (Terminal(threads[h]) => threads'[h] = threads[h])
          \/ /\ h \notin DOMAIN threads' /\ Terminal(threads[h])
             /\ \A k \in DOMAIN threads' : ~Terminal(threads'[k])]_machineVars

\* A call with a budget comes back, whatever the program loops or recurses on.
BudgetedCallReturns == (Running /\ budget # Unlimited) ~> ~Running

-----------------------------------------------------------------------------
\* What comments of the code say and the code does not do.

\* vm.rs:269-272: static initialisers populate a field before it is read, so a
\* class that counts as initialised, and is not being initialised, was.
InitialisedMeansCompleted ==
    \A c \in inited :
        \/ Clinit[c] = NoMethod
        \/ Clinit[c] \notin DOMAIN code \ Denylist
        \/ c \in completed
        \/ \E i \in ClinitFrames : ClassOf[frames[i].field] = c
=============================================================================

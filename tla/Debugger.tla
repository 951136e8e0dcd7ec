------------------------------ MODULE Debugger ------------------------------
(***************************************************************************)
(* platypus-vm/src/debugger.rs: breakpoints, stepping modes and the        *)
(* time-travel register history of the Dalvik interpreter.                 *)
(*                                                                         *)
(* The interpreter calls before_instruction (Tick) ahead of every          *)
(* instruction and obeys its decision; the host calls the other actions    *)
(* between two ticks.  A place in the program is a member of Sites (the    *)
(* pair method_ref, codepoint); register contents, instruction text and    *)
(* breakpoint labels' text are left out.                                   *)
(***************************************************************************)
EXTENDS Integers, Sequences

CONSTANTS
    Sites,        \* instructions: (method_ref, codepoint) pairs
    MaxDepth,     \* deepest call stack the interpreter builds
    Batch,        \* gc_history drops at least this many snapshots (1024)
    DefaultCap,   \* history_cap of a new debugger (10000)
    CapRequests,  \* arguments the host gives to set_history_cap
    MaxIndex      \* bound on the number of snapshots between two clears

ASSUME ConstantsOK ==
    /\ MaxDepth \in Nat \ {0}
    /\ Batch \in Nat \ {0}
    /\ DefaultCap \in Nat \ {0}
    /\ CapRequests \subseteq Nat
    /\ MaxIndex \in Nat

VARIABLES
    mode,         \* DebugMode
    breakpoints,  \* set of sites
    bpLabels,     \* the keys of bp_labels
    history,      \* Vec<RegisterSnapshot>, oldest first
    historyCap,
    nextIndex,    \* next_step_index
    backStack,
    lastPause,    \* PauseReason
    armStepOver,
    decision,     \* what the latest before_instruction answered
    panicked      \* a Vec::drain or an expect has failed: the thread is dead

bpVars == <<breakpoints, bpLabels>>
dbgVars == <<mode, breakpoints, bpLabels, history, historyCap, nextIndex,
             backStack, lastPause, armStepOver, decision, panicked>>

-----------------------------------------------------------------------------
Run == [kind |-> "Run"]
Step == [kind |-> "Step"]
TraceUntil == [kind |-> "TraceUntil"]
Paused == [kind |-> "Paused"]
StepOver(d) == [kind |-> "StepOver", depth |-> d]

Modes == {Run, Step, TraceUntil, Paused} \cup {StepOver(d) : d \in 1..MaxDepth}

BreakpointHit(s) == [kind |-> "Breakpoint", site |-> s]
Reason(k) == [kind |-> k]

PauseReasons ==
    {Reason(k) : k \in {"None", "Step", "StepOver", "TraceUntil", "Finished",
                        "BudgetExhausted"}}
      \cup {BreakpointHit(s) : s \in Sites}

Snapshot == [step_index : Nat, site : Sites, depth : 1..MaxDepth]

Larger(a, b) == IF a < b THEN b ELSE a

DbgInit ==
    /\ mode = Paused
    /\ breakpoints = {}
    /\ bpLabels = {}
    /\ history = << >>
    /\ historyCap = DefaultCap
    /\ nextIndex = 0
    /\ backStack = 0
    /\ lastPause = Reason("None")
    /\ armStepOver = FALSE
    /\ decision = "none"
    /\ panicked = FALSE

-----------------------------------------------------------------------------
\* Host operations.

SetHistoryCap(cap) ==
    /\ historyCap' = Larger(cap, 1)
    /\ UNCHANGED <<mode, bpVars, history, nextIndex, backStack, lastPause,
                   armStepOver, decision, panicked>>

SetBreakpoint(s) ==
    /\ breakpoints' = breakpoints \cup {s}
    /\ bpLabels' = bpLabels \cup {s}
    /\ UNCHANGED <<mode, history, historyCap, nextIndex, backStack, lastPause,
                   armStepOver, decision, panicked>>

ClearBreakpoint(s) ==
    /\ breakpoints' = breakpoints \ {s}
    /\ bpLabels' = bpLabels \ {s}
    /\ UNCHANGED <<mode, history, historyCap, nextIndex, backStack, lastPause,
                   armStepOver, decision, panicked>>

ClearBreakpoints ==
    /\ breakpoints' = {}
    /\ bpLabels' = {}
    /\ UNCHANGED <<mode, history, historyCap, nextIndex, backStack, lastPause,
                   armStepOver, decision, panicked>>

\* resume, step, trace_until and step_over leave everything but the mode and
\* the arming flag alone: in particular last_pause and back_stack.
StartIn(m, arm) ==
    /\ mode' = m
    /\ armStepOver' = arm
    /\ UNCHANGED <<bpVars, history, historyCap, nextIndex, backStack,
                   lastPause, decision, panicked>>

CmdResume == StartIn(Run, FALSE)
CmdStep == StartIn(Step, FALSE)
CmdStepOver == StartIn(Step, TRUE)
CmdTraceUntil == StartIn(TraceUntil, FALSE)

\* The early returns of step_back: nothing recorded, or nothing left to undo.
CanStepBack == history # << >> /\ backStack + 1 <= Len(history)

CmdStepBack ==
    /\ CanStepBack
    /\ backStack' = backStack + 1
    /\ mode' = Paused
    /\ lastPause' = Reason("None")
    /\ UNCHANGED <<bpVars, history, historyCap, nextIndex, armStepOver,
                   decision, panicked>>

CmdRestart ==
    /\ backStack' = Len(history)
    /\ mode' = Paused
    /\ lastPause' = Reason("None")
    /\ UNCHANGED <<bpVars, history, historyCap, nextIndex, armStepOver,
                   decision, panicked>>

\* Mutant of ClearHistory: the rewound distance outlives the history.
ClearHistoryKeepsBackStack ==
    /\ history' = << >>
    /\ nextIndex' = 0
    /\ UNCHANGED <<backStack, mode, bpVars, historyCap, lastPause, armStepOver,
                   decision, panicked>>

ClearHistory ==
    /\ history' = << >>
    /\ nextIndex' = 0
    /\ backStack' = 0
    /\ UNCHANGED <<mode, bpVars, historyCap, lastPause, armStepOver, decision,
                   panicked>>

\* Called by the interpreter when the instruction budget runs out.
OnFinished(k) ==
    /\ mode' = Paused
    /\ lastPause' = Reason(k)
    /\ UNCHANGED <<bpVars, history, historyCap, nextIndex, backStack,
                   armStepOver, decision, panicked>>

-----------------------------------------------------------------------------
\* before_instruction(site, depth): the early returns first, then the capture.

\* The mode once a pending step_over has been keyed off the current depth.
ModeAt(depth) == IF armStepOver THEN StepOver(depth) ELSE mode

\* The code's post-call test: it only asks whether anything was recorded.
LastPauseIsPostCall == history # << >>

CallReturned(depth) ==
    /\ ModeAt(depth).kind = "StepOver"
    /\ depth <= ModeAt(depth).depth
    /\ LastPauseIsPostCall

TickPaused ==
    /\ mode = Paused
    /\ decision' = "Pause"
    /\ UNCHANGED <<mode, bpVars, history, historyCap, nextIndex, backStack,
                   lastPause, armStepOver, panicked>>

\* Mutant of TickBreakpoint: answers Pause but stays in its running mode.
TickBreakpointRunsOn(site) ==
    /\ mode # Paused
    /\ site \in breakpoints
    /\ lastPause' = BreakpointHit(site)
    /\ decision' = "Pause"
    /\ UNCHANGED <<mode, bpVars, history, historyCap, nextIndex, backStack,
                   armStepOver, panicked>>

TickBreakpoint(site) ==
    /\ mode # Paused
    /\ site \in breakpoints
    /\ mode' = Paused
    /\ lastPause' = BreakpointHit(site)
    /\ decision' = "Pause"
    /\ UNCHANGED <<bpVars, history, historyCap, nextIndex, backStack,
                   armStepOver, panicked>>

TickCallReturned(site, depth) ==
    /\ mode # Paused
    /\ site \notin breakpoints
    /\ CallReturned(depth)
    /\ mode' = Paused
    /\ armStepOver' = FALSE
    /\ lastPause' = Reason("StepOver")
    /\ decision' = "Pause"
    /\ UNCHANGED <<bpVars, history, historyCap, nextIndex, backStack, panicked>>

\* Mutants of Pushed: the forward branch is kept; the index is the position.
PushedAfterFuture(site, depth) ==
    Append(history, [step_index |-> nextIndex, site |-> site, depth |-> depth])

PushedAtPosition(site, depth) ==
    LET kept == SubSeq(history, 1, Len(history) - backStack)
    IN  Append(kept, [step_index |-> Len(kept), site |-> site, depth |-> depth])

\* The history with the forward branch truncated and the snapshot pushed.
Pushed(site, depth) ==
    Append(SubSeq(history, 1, Len(history) - backStack),
           [step_index |-> nextIndex, site |-> site, depth |-> depth])

\* Mutants of Drop: it collects at the cap; it drops no more than one batch.
DropAtCap(n) == IF n < historyCap THEN 0 ELSE Larger(n - historyCap, Batch)
DropOneBatch(n) == IF n <= historyCap THEN 0 ELSE Batch

\* gc_history's `drop` on a history of n snapshots, 0 when it returns early.
Drop(n) == IF n <= historyCap THEN 0 ELSE Larger(n - historyCap, Batch)

DropOldest(h, n) == SubSeq(h, n + 1, Len(h))

TickCapture(site, depth, stop) ==
    LET m == ModeAt(depth)
        h == Pushed(site, depth)
        n == Len(h)
    IN  /\ mode # Paused
        /\ site \notin breakpoints
        /\ ~CallReturned(depth)
        /\ stop => m = TraceUntil /\ Drop(n) < n
        /\ nextIndex < MaxIndex
        /\ nextIndex' = nextIndex + 1
        /\ backStack' = 0
        /\ armStepOver' = FALSE
        /\ IF Drop(n) > n                        \* drain(..drop) out of range
           THEN history' = h /\ panicked' = TRUE
           ELSE /\ history' = DropOldest(h, Drop(n))
                                                 \* last().expect("just pushed")
                /\ panicked' = (m = TraceUntil /\ Drop(n) = n)
        /\ mode' = IF m = Step \/ stop THEN Paused ELSE m
        /\ lastPause' = IF m = Step THEN Reason("Step")
                        ELSE IF stop THEN Reason("TraceUntil") ELSE lastPause
        /\ decision' = IF stop THEN "Pause" ELSE "Continue"
        /\ UNCHANGED <<bpVars, historyCap>>

Tick(site, depth) ==
    \/ TickPaused
    \/ TickBreakpoint(site)
    \/ TickCallReturned(site, depth)
    \/ \E stop \in BOOLEAN : TickCapture(site, depth, stop)

-----------------------------------------------------------------------------
HostCommand ==
    \/ \E c \in CapRequests : SetHistoryCap(c)
    \/ \E s \in Sites : SetBreakpoint(s) \/ ClearBreakpoint(s)
    \/ ClearBreakpoints
    \/ CmdResume
    \/ CmdStep
    \/ CmdStepOver
    \/ CmdTraceUntil
    \/ CmdStepBack
    \/ CmdRestart
    \/ ClearHistory

DbgNext ==
    /\ ~panicked
    /\ \/ HostCommand
       \/ OnFinished("BudgetExhausted")
       \/ \E s \in Sites, d \in 1..MaxDepth : Tick(s, d)

DbgSpec == DbgInit /\ [][DbgNext]_dbgVars

-----------------------------------------------------------------------------
\* Type invariant.  Labels are stored apart from the breakpoint set so that
\* the hot path is one set lookup; the two always have the same keys.
TypeOK ==
    /\ mode \in Modes
    /\ breakpoints \subseteq Sites
    /\ bpLabels = breakpoints
    /\ history \in Seq(Snapshot)
    /\ historyCap \in Nat \ {0}
    /\ nextIndex \in Nat
    /\ backStack \in Nat
    /\ lastPause \in PauseReasons
    /\ armStepOver \in BOOLEAN
    /\ decision \in {"none", "Continue", "Pause"}
    /\ panicked \in BOOLEAN

\* The unsigned subtraction history.len() - back_stack of step_back and of
\* the truncation never underflows, whatever mix of rewinds, captures, garbage
\* collections and clears came before.
PlayHeadInHistory == backStack <= Len(history)

\* registers_at finds snapshots by step_index: along the history the indices
\* strictly increase and stay below the counter, also after a rewound branch
\* was overwritten or old snapshots were collected.
HistoryOrdered ==
    /\ \A i \in 1..Len(history) : history[i].step_index < nextIndex
    /\ \A i, j \in 1..Len(history) :
          i < j => history[i].step_index < history[j].step_index

\* A step_over that has not met its first instruction yet never survives into
\* a resume, a trace or a running StepOver: only a step, or a pause in front of
\* that instruction, can carry the flag.
ArmedOnlyBeforeCallSite == armStepOver => mode \in {Step, Paused}

\* Action property.  Collecting brings the history back under the cap in
\* one go, even when the host lowered the cap far below the current length; and
\* unless the cap is below one batch the snapshot just taken is kept.
CollectMeetsCap ==
    [][nextIndex' > nextIndex =>
          /\ ~panicked' => Len(history') <= historyCap
          /\ Batch <= historyCap =>
                /\ history' # << >>
                /\ history'[Len(history')].step_index = nextIndex]_dbgVars

\* set_history_cap takes any cap, and gc_history drops a batch whatever the cap
\* is: a collection can ask Vec::drain for more than there is, or leave
\* TraceUntil without the snapshot it is about to test.  The thread dies of
\* nothing else: whatever is captured, rewound and cleared, and however the cap
\* was moved before, the cap is then below one batch.
PanicsOnlyBelowBatch == panicked => historyCap < Batch

\* Recording, rewinding and collecting implement the plain time line: no
\* snapshot is ever altered, reordered or dropped except as Timeline allows, to
\* which a collection that leaves nothing, with a cap below one batch, is a Clear.
TimelineView == INSTANCE Timeline WITH
    trace <- history,
    head <- Len(history) - backStack
ImplementsTimeline == TimelineView!Spec
=============================================================================

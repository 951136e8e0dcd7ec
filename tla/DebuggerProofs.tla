--------------------------- MODULE DebuggerProofs ---------------------------
(***************************************************************************)
(* Proofs about Debugger, for every set of sites, stack depth, collection  *)
(* batch and sequence of host commands.                                    *)
(***************************************************************************)
EXTENDS Debugger, SequenceTheorems, TLAPS

IInv ==
    /\ TypeOK
    /\ PlayHeadInHistory
    /\ HistoryOrdered
    /\ ArmedOnlyBeforeCallSite
    /\ PanicsOnlyBelowBatch

-----------------------------------------------------------------------------
\* The history just before collection: the part before the play-head, and the
\* new snapshot at its end, still ordered and below the advanced counter.
LEMMA PushedProperties ==
    ASSUME TypeOK, PlayHeadInHistory, HistoryOrdered,
           NEW site \in Sites, NEW depth \in 1..MaxDepth
    PROVE  LET h == Pushed(site, depth) IN
           /\ h \in Seq(Snapshot)
           /\ Len(h) = Len(history) - backStack + 1
           /\ \A i \in 1..Len(h) : h[i].step_index < nextIndex + 1
           /\ \A i, j \in 1..Len(h) : i < j => h[i].step_index < h[j].step_index
<1> DEFINE s == [step_index |-> nextIndex, site |-> site, depth |-> depth]
           p == SubSeq(history, 1, Len(history) - backStack)
           k == Len(history) - backStack
<1>1. /\ s \in Snapshot
      /\ s.step_index = nextIndex
    BY DEF TypeOK, Snapshot
<1>2. /\ history \in Seq(Snapshot)
      /\ nextIndex \in Nat
      /\ Len(history) \in Nat
      /\ k \in Nat
      /\ k <= Len(history)
    BY DEF TypeOK, PlayHeadInHistory
<1>3. /\ p \in Seq(Snapshot)
      /\ Len(p) = k
      /\ \A i \in 1..k : p[i] = history[i]
    <2>1. \A i \in 1..k : history[i] \in Snapshot
        BY <1>2
    <2>2. QED
        BY <1>2, <2>1, SubSeqProperties
<1> HIDE DEF s, p, k
<1>4. /\ Append(p, s) \in Seq(Snapshot)
      /\ Len(Append(p, s)) = k + 1
      /\ \A i \in 1..k : Append(p, s)[i] = history[i]
      /\ Append(p, s)[k + 1] = s
    BY <1>1, <1>2, <1>3, AppendProperties
<1>5. Pushed(site, depth) = Append(p, s)
    BY DEF Pushed, p, s
<1>6. \A i \in 1..k : history[i].step_index \in Nat /\ history[i].step_index < nextIndex
    <2>1. \A i \in 1..k : i \in 1..Len(history) /\ history[i] \in Snapshot
        BY <1>2
    <2>2. QED
        BY <2>1 DEF HistoryOrdered, Snapshot
<1>7. \A i \in 1..(k + 1) : i \in 1..k \/ i = k + 1
    BY <1>2
<1>8. \A i \in 1..(k + 1) : Append(p, s)[i].step_index < nextIndex + 1
    BY <1>1, <1>2, <1>4, <1>6, <1>7, SMTT(40)
<1>9. ASSUME NEW i \in 1..(k + 1), NEW j \in 1..(k + 1), i < j
      PROVE  Append(p, s)[i].step_index < Append(p, s)[j].step_index
    <2>1. i \in 1..k
        BY <1>2, <1>9
    <2>2. CASE j = k + 1
        BY <2>1, <2>2, <1>1, <1>4, <1>6
    <2>3. CASE j \in 1..k
        <3>1. i \in 1..Len(history) /\ j \in 1..Len(history)
            BY <1>2, <2>1, <2>3
        <3>2. history[i].step_index < history[j].step_index
            BY <3>1, <1>9 DEF HistoryOrdered
        <3>3. QED
            BY <3>2, <2>1, <2>3, <1>4
    <2>4. QED
        BY <2>2, <2>3, <1>7
<1>10. k + 1 = Len(history) - backStack + 1
    BY DEF k
<1>11. QED
    BY <1>4, <1>5, <1>8, <1>9, <1>10

\* Dropping the oldest n snapshots keeps the others, in their order.
LEMMA DropOldestProperties ==
    ASSUME NEW h \in Seq(Snapshot), NEW n \in 0..Len(h)
    PROVE  /\ DropOldest(h, n) \in Seq(Snapshot)
           /\ Len(DropOldest(h, n)) = Len(h) - n
           /\ \A i \in 1..(Len(h) - n) : DropOldest(h, n)[i] = h[i + n]
<1>1. \A i \in (n + 1)..Len(h) : h[i] \in Snapshot
    BY LenProperties
<1>2. /\ DropOldest(h, n) \in Seq(Snapshot)
      /\ Len(DropOldest(h, n)) = IF n + 1 <= Len(h) THEN Len(h) - (n + 1) + 1 ELSE 0
      /\ \A i \in 1..(Len(h) - (n + 1) + 1) : DropOldest(h, n)[i] = h[(n + 1) + i - 1]
    BY <1>1, LenProperties, SubSeqProperties DEF DropOldest
<1>3. QED
    BY <1>2, LenProperties

\* What gc_history drops: a number, nothing below the cap, and enough.
LEMMA DropProperties ==
    ASSUME TypeOK, NEW n \in Nat
    PROVE  /\ Drop(n) \in Nat
           /\ n - Drop(n) <= historyCap
           /\ n <= historyCap => Drop(n) = 0
           /\ Batch <= historyCap /\ n > 0 => Drop(n) < n
BY ConstantsOK DEF Drop, Larger, TypeOK

-----------------------------------------------------------------------------
LEMMA InitInvariant == DbgInit => IInv
<1> SUFFICES ASSUME DbgInit
             PROVE  IInv
    OBVIOUS
<1>1. TypeOK
    <2>1. << >> \in Seq(Snapshot) /\ Len(<< >>) = 0
        BY EmptySeq
    <2>2. Paused \in Modes
        BY DEF Modes
    <2>3. Reason("None") \in PauseReasons
        BY DEF PauseReasons
    <2>4. QED
        BY <2>1, <2>2, <2>3, ConstantsOK DEF DbgInit, TypeOK
<1>2. PlayHeadInHistory /\ HistoryOrdered /\ ArmedOnlyBeforeCallSite
    BY DEF DbgInit, PlayHeadInHistory, HistoryOrdered, ArmedOnlyBeforeCallSite
<1>3. PanicsOnlyBelowBatch
    BY DEF DbgInit, PanicsOnlyBelowBatch
<1>4. QED
    BY <1>1, <1>2, <1>3 DEF IInv

\* The one step that writes the history in anger.
LEMMA CaptureInvariant ==
    ASSUME IInv, ~panicked,
           NEW site \in Sites, NEW depth \in 1..MaxDepth, NEW stop \in BOOLEAN,
           TickCapture(site, depth, stop)
    PROVE  IInv'
<1> DEFINE h == Pushed(site, depth)
           n == Len(h)
<1>1. /\ TypeOK
      /\ PlayHeadInHistory
      /\ HistoryOrdered
    BY DEF IInv
<1>2. /\ h \in Seq(Snapshot)
      /\ n = Len(history) - backStack + 1
      /\ \A i \in 1..n : h[i].step_index < nextIndex + 1
      /\ \A i, j \in 1..n : i < j => h[i].step_index < h[j].step_index
    BY <1>1, PushedProperties
<1>3. n \in Nat /\ n > 0
    BY <1>1, <1>2 DEF TypeOK, PlayHeadInHistory
<1>4. /\ nextIndex' = nextIndex + 1
      /\ backStack' = 0
      /\ armStepOver' = FALSE
      /\ historyCap' = historyCap
      /\ breakpoints' = breakpoints
      /\ bpLabels' = bpLabels
    BY DEF TickCapture, bpVars
<1>5. /\ history' = IF Drop(n) > n THEN h ELSE DropOldest(h, Drop(n))
      /\ panicked' = IF Drop(n) > n THEN TRUE
                     ELSE ModeAt(depth) = TraceUntil /\ Drop(n) = n
    BY DEF TickCapture
<1>6. Drop(n) \in Nat
    BY <1>1, <1>3, DropProperties
<1> HIDE DEF h, n
<1>7. /\ history' \in Seq(Snapshot)
      /\ \A i \in 1..Len(history') : history'[i].step_index < nextIndex'
      /\ \A i, j \in 1..Len(history') :
            i < j => history'[i].step_index < history'[j].step_index
    <2>1. CASE Drop(n) > n
        BY <2>1, <1>2, <1>4, <1>5 DEF n
    <2>2. CASE Drop(n) <= n
        <3> DEFINE d == Drop(n)
        <3>1. d \in 0..Len(h)
            BY <2>2, <1>6, <1>3 DEF n
        <3>2. history' = DropOldest(h, d)
            BY <2>2, <1>3, <1>5, <1>6
        <3> HIDE DEF d
        <3>3. /\ history' \in Seq(Snapshot)
              /\ Len(history') = n - d
              /\ \A i \in 1..(n - d) : history'[i] = h[i + d]
            BY <3>1, <3>2, <1>2, DropOldestProperties DEF n
        <3>4. \A i \in 1..(n - d) : i + d \in 1..n
            BY <3>1, <1>3
        <3>5. \A i, j \in 1..(n - d) : i < j => i + d < j + d
            BY <3>1, <1>3
        <3>6. QED
            BY <3>3, <3>4, <3>5, <1>2, <1>4
    <2>3. QED
        BY <2>1, <2>2, <1>3, <1>6, SMTT(40)
<1>8. mode' \in Modes
    <2>1. ModeAt(depth) \in Modes
        BY <1>1 DEF TypeOK, ModeAt, Modes
    <2>2. Paused \in Modes
        BY DEF Modes
    <2>3. QED
        BY <2>1, <2>2 DEF TickCapture
<1>9. lastPause' \in PauseReasons
    <2>1. Reason("Step") \in PauseReasons /\ Reason("TraceUntil") \in PauseReasons
        BY DEF PauseReasons
    <2>2. QED
        BY <1>1, <2>1 DEF TickCapture, TypeOK
<1>10. decision' \in {"none", "Continue", "Pause"} /\ panicked' \in BOOLEAN
    BY <1>5 DEF TickCapture
<1>11. TypeOK'
    <2>1. /\ breakpoints' \subseteq Sites
          /\ bpLabels' = breakpoints'
          /\ historyCap' \in Nat \ {0}
          /\ nextIndex' \in Nat
          /\ backStack' \in Nat
        BY <1>1, <1>4 DEF TypeOK
    <2>2. armStepOver' \in BOOLEAN
        BY <1>4
    <2>3. QED
        BY <2>1, <2>2, <1>7, <1>8, <1>9, <1>10, Zenon DEF TypeOK
<1>12. PlayHeadInHistory' /\ HistoryOrdered' /\ ArmedOnlyBeforeCallSite'
    <2>1. Len(history') \in Nat
        BY <1>7, LenProperties
    <2>2. QED
        BY <2>1, <1>4, <1>7
        DEF PlayHeadInHistory, HistoryOrdered, ArmedOnlyBeforeCallSite
<1>13. PanicsOnlyBelowBatch'
    <2>1. CASE Batch <= historyCap
        <3>1. Drop(n) < n
            BY <2>1, <1>1, <1>3, DropProperties
        <3>2. ~(Drop(n) > n) /\ Drop(n) # n
            BY <3>1, <1>3, <1>6
        <3>3. ~panicked'
            BY <3>2, <1>5, Zenon
        <3>4. QED
            BY <3>3 DEF PanicsOnlyBelowBatch
    <2>2. CASE ~(Batch <= historyCap)
        <3>1. historyCap' < Batch
            BY <2>2, <1>1, <1>4, ConstantsOK DEF TypeOK
        <3>2. QED
            BY <3>1 DEF PanicsOnlyBelowBatch
    <2>3. QED
        BY <2>1, <2>2
<1>14. QED
    BY <1>11, <1>12, <1>13 DEF IInv

\* Every other step leaves the snapshots, or removes them all.
LEMMA StepInvariant == IInv /\ [DbgNext]_dbgVars => IInv'
<1> SUFFICES ASSUME IInv, [DbgNext]_dbgVars
             PROVE  IInv'
    OBVIOUS
<1> USE DEF IInv, PanicsOnlyBelowBatch, ArmedOnlyBeforeCallSite,
            PlayHeadInHistory, HistoryOrdered
<1>0. /\ \A m \in {Run, Step, TraceUntil, Paused} : m \in Modes
      /\ \A s \in Sites : BreakpointHit(s) \in PauseReasons
      /\ \A k \in {"None", "StepOver", "BudgetExhausted"} : Reason(k) \in PauseReasons
    BY DEF Modes, PauseReasons
<1>1. ASSUME NEW c \in CapRequests, SetHistoryCap(c), ~panicked
      PROVE  IInv'
    <2>1. c \in Nat
        BY ConstantsOK
    <2>2. historyCap' \in Nat \ {0} /\ historyCap' >= c
        BY <1>1, <2>1 DEF SetHistoryCap, Larger
    <2>3. QED
        BY <1>1, <2>2 DEF SetHistoryCap, TypeOK, bpVars
<1>2. ASSUME NEW s \in Sites, SetBreakpoint(s)
      PROVE  IInv'
    BY <1>2 DEF SetBreakpoint, TypeOK
<1>3. ASSUME NEW s \in Sites, ClearBreakpoint(s)
      PROVE  IInv'
    BY <1>3 DEF ClearBreakpoint, TypeOK
<1>4. CASE ClearBreakpoints
    BY <1>4 DEF ClearBreakpoints, TypeOK
<1>5. ASSUME NEW m \in {Run, Step, TraceUntil}, NEW arm \in BOOLEAN,
             StartIn(m, arm), arm => m = Step
      PROVE  IInv'
    BY <1>5, <1>0 DEF StartIn, TypeOK, bpVars
<1>6. CASE CmdStepBack
    BY <1>6, <1>0 DEF CmdStepBack, CanStepBack, TypeOK, bpVars
<1>7. CASE CmdRestart
    <2>1. Len(history) \in Nat
        BY DEF TypeOK
    <2>2. QED
        BY <1>7, <1>0, <2>1 DEF CmdRestart, TypeOK, bpVars
<1>8. CASE ClearHistory
    <2>1. << >> \in Seq(Snapshot) /\ Len(<< >>) = 0
        BY EmptySeq
    <2>2. QED
        BY <1>8, <2>1 DEF ClearHistory, TypeOK, bpVars
<1>9. CASE OnFinished("BudgetExhausted")
    BY <1>9, <1>0 DEF OnFinished, TypeOK, bpVars
<1>10. CASE TickPaused
    BY <1>10 DEF TickPaused, TypeOK, bpVars
<1>11. ASSUME NEW s \in Sites, TickBreakpoint(s)
       PROVE  IInv'
    BY <1>11, <1>0 DEF TickBreakpoint, TypeOK, bpVars
<1>12. ASSUME NEW s \in Sites, NEW d \in 1..MaxDepth, TickCallReturned(s, d)
       PROVE  IInv'
    BY <1>12, <1>0 DEF TickCallReturned, TypeOK, bpVars
<1>13. ASSUME NEW s \in Sites, NEW d \in 1..MaxDepth, NEW stop \in BOOLEAN,
              ~panicked, TickCapture(s, d, stop)
       PROVE  IInv'
    BY <1>13, CaptureInvariant
<1>14. CASE UNCHANGED dbgVars
    BY <1>14 DEF dbgVars, TypeOK
<1>15. CASE DbgNext
    <2>1. ~panicked
        BY <1>15 DEF DbgNext
    <2>2. CASE HostCommand
        BY <2>1, <2>2, <1>1, <1>2, <1>3, <1>4, <1>5, <1>6, <1>7, <1>8
        DEF HostCommand, CmdResume, CmdStep, CmdStepOver, CmdTraceUntil
    <2>3. ASSUME NEW s \in Sites, NEW d \in 1..MaxDepth, Tick(s, d)
          PROVE  IInv'
        BY <2>1, <2>3, <1>10, <1>11, <1>12, <1>13 DEF Tick
    <2>4. QED
        BY <1>15, <2>2, <2>3, <1>9 DEF DbgNext
<1>16. QED
    BY <1>14, <1>15

-----------------------------------------------------------------------------
\* The inductive invariant holds throughout.
THEOREM Invariant == DbgSpec => []IInv
<1>1. DbgInit => IInv
    BY InitInvariant
<1>2. IInv /\ [DbgNext]_dbgVars => IInv'
    BY StepInvariant
<1>3. QED
    BY <1>1, <1>2, PTL DEF DbgSpec

\* Every variable keeps its type, whatever the host and the program do.
THEOREM TypeCorrect == DbgSpec => []TypeOK
BY Invariant, PTL DEF IInv

\* step_back and the truncation of before_instruction subtract back_stack from
\* history.len() without underflow, in every run.
THEOREM PlayHeadSafe == DbgSpec => []PlayHeadInHistory
BY Invariant, PTL DEF IInv

\* step_index identifies a snapshot of the history in every run, across
\* rewinds, overwritten branches and collections.
THEOREM HistoryStaysOrdered == DbgSpec => []HistoryOrdered
BY Invariant, PTL DEF IInv

\* A pending step_over never leaks into another running mode.
THEOREM ArmSafe == DbgSpec => []ArmedOnlyBeforeCallSite
BY Invariant, PTL DEF IInv

\* The drain of gc_history and TraceUntil's expect fail in no run but one in
\* which the host has lowered the cap below one batch.
THEOREM PanicsNeedSmallCap == DbgSpec => []PanicsOnlyBelowBatch
BY Invariant, PTL DEF IInv

-----------------------------------------------------------------------------
\* A capture that keeps something, seen as one step of the time line: nothing is
\* lost but the overwritten branch and the d oldest snapshots, and the newest
\* one stays.
LEMMA KeepingOnTimeline ==
    ASSUME IInv, NEW site \in Sites, NEW depth \in 1..MaxDepth,
           NEW d \in Nat, d < Len(Pushed(site, depth)),
           history' = DropOldest(Pushed(site, depth), d),
           backStack' = 0
    PROVE  /\ history' # << >>
           /\ history'[Len(history')].step_index = nextIndex
           /\ Len(history') = Len(Pushed(site, depth)) - d
           /\ TimelineView!Next
<1> DEFINE h == Pushed(site, depth)
           n == Len(h)
           k == Len(history) - backStack
           s == [step_index |-> nextIndex, site |-> site, depth |-> depth]
<1>1. TypeOK /\ PlayHeadInHistory /\ HistoryOrdered
    BY DEF IInv
<1>2. h \in Seq(Snapshot) /\ n = k + 1
    BY <1>1, PushedProperties
<1>3. k \in Nat /\ n \in Nat /\ n > 0
    BY <1>1, <1>2 DEF TypeOK, PlayHeadInHistory
<1>4. d \in Nat /\ d < n /\ history' = DropOldest(h, d)
    OBVIOUS
<1>5. h = Append(SubSeq(history, 1, k), s)
    BY DEF Pushed
<1>6. s \in Snapshot /\ s.step_index = nextIndex
    BY <1>1 DEF TypeOK, Snapshot
<1>7. h[n] = s
    <2>1. \A i \in 1..k : history[i] \in Snapshot
        <3>1. history \in Seq(Snapshot) /\ k <= Len(history)
            BY <1>1 DEF TypeOK, PlayHeadInHistory
        <3>2. QED
            BY <3>1, <1>3
    <2>2. SubSeq(history, 1, k) \in Seq(Snapshot) /\ Len(SubSeq(history, 1, k)) = k
        BY <2>1, <1>3, SubSeqProperties
    <2>3. QED
        BY <2>2, <1>2, <1>3, <1>5, <1>6, AppendProperties
<1> HIDE DEF h, n, k, s
<1>8. /\ history' \in Seq(Snapshot)
      /\ Len(history') = n - d
      /\ \A i \in 1..(n - d) : history'[i] = h[i + d]
    <2>1. d \in 0..Len(h) /\ n = Len(h)
        BY <1>3, <1>4 DEF n
    <2>2. /\ DropOldest(h, d) \in Seq(Snapshot)
          /\ Len(DropOldest(h, d)) = Len(h) - d
          /\ \A i \in 1..(Len(h) - d) : DropOldest(h, d)[i] = h[i + d]
        BY <2>1, <1>2, DropOldestProperties
    <2>3. QED
        BY <2>1, <2>2, <1>4
<1>9. /\ n - d \in Nat
      /\ n - d > 0
      /\ (n - d) + d = n
    BY <1>3, <1>4
<1>10. history' # << >> /\ history'[Len(history')] = s
    <2>1. history'[n - d] = h[n]
        BY <1>8, <1>9
    <2>2. QED
        BY <2>1, <1>7, <1>8, <1>9, EmptySeq
<1>11. TimelineView!Record(s, d)
    <2>1. TimelineView!Newer(s)
        BY <1>1, <1>6 DEF TimelineView!Newer, HistoryOrdered
    <2>2. history' = SubSeq(Append(SubSeq(history, 1, k), s), d + 1, k + 1)
        BY <1>2, <1>4, <1>5 DEF DropOldest, n
    <2>3. Len(history') - backStack' = Len(history')
        BY <1>8, <1>9
    <2>4. QED
        BY <2>1, <2>2, <2>3, <1>6 DEF TimelineView!Record, TimelineView!Past, k
<1>12. d \in 0..k
    BY <1>2, <1>3, <1>4
<1>13. TimelineView!Next
    BY <1>10, <1>11, <1>12 DEF TimelineView!Next, k
<1>14. QED
    BY <1>6, <1>8, <1>10, <1>13 DEF n, h

\* Any capture: the collector keeps the newest snapshots, or drops everything,
\* which is a Clear, or panics before it has dropped anything.
LEMMA CaptureOnTimeline ==
    ASSUME IInv,
           NEW site \in Sites, NEW depth \in 1..MaxDepth, NEW stop \in BOOLEAN,
           TickCapture(site, depth, stop)
    PROVE  /\ ~panicked' => Len(history') <= historyCap
           /\ Batch <= historyCap =>
                 history' # << >> /\ history'[Len(history')].step_index = nextIndex
           /\ [TimelineView!Next]_<<history, Len(history) - backStack>>
<1> DEFINE h == Pushed(site, depth)
           n == Len(h)
<1>1. TypeOK /\ PlayHeadInHistory /\ HistoryOrdered
    BY DEF IInv
<1>2. h \in Seq(Snapshot) /\ n \in Nat /\ n > 0
    <2>1. h \in Seq(Snapshot) /\ n = Len(history) - backStack + 1
        BY <1>1, PushedProperties
    <2>2. QED
        BY <2>1, <1>1 DEF TypeOK, PlayHeadInHistory
<1>3. /\ Drop(n) \in Nat /\ n - Drop(n) <= historyCap
      /\ Batch <= historyCap => Drop(n) < n
    BY <1>1, <1>2, DropProperties
<1>4. /\ backStack' = 0
      /\ Drop(n) > n => history' = h /\ panicked'
      /\ ~(Drop(n) > n) => history' = DropOldest(h, Drop(n))
    BY DEF TickCapture
<1> HIDE DEF h, n
<1>5. CASE Drop(n) < n
    <2>1. ~(Drop(n) > n)
        BY <1>2, <1>3, <1>5
    <2>2. /\ history' # << >> /\ history'[Len(history')].step_index = nextIndex
          /\ Len(history') = n - Drop(n)
          /\ TimelineView!Next
        BY <2>1, <1>3, <1>4, <1>5, KeepingOnTimeline DEF h, n
    <2>3. QED
        BY <2>2, <1>3
<1>6. CASE Drop(n) = n
    <2>1. ~(Drop(n) > n) /\ n \in 0..Len(h) /\ Len(h) = n
        BY <1>2, <1>6 DEF n
    <2>2. history' \in Seq(Snapshot) /\ Len(history') = 0
        <3>1. history' = DropOldest(h, n)
            BY <2>1, <1>4, <1>6
        <3>2. DropOldest(h, n) \in Seq(Snapshot) /\ Len(DropOldest(h, n)) = n - n
            BY <2>1, <1>2, DropOldestProperties
        <3>3. QED
            BY <3>1, <3>2, <1>2
    <2>3. history' = << >>
        BY <2>2, EmptySeq
    <2>4. TimelineView!Clear
        BY <2>2, <2>3, <1>4 DEF TimelineView!Clear
    <2>5. ~(Batch <= historyCap)
        BY <1>2, <1>3, <1>6
    <2>6. 0 <= historyCap
        BY <1>1 DEF TypeOK
    <2>7. QED
        BY <2>2, <2>4, <2>5, <2>6 DEF TimelineView!Next
<1>7. CASE Drop(n) > n
    <2>1. h = DropOldest(h, 0)
        <3>1. DropOldest(h, 0) \in Seq(Snapshot) /\ Len(DropOldest(h, 0)) = Len(h)
              /\ \A i \in 1..Len(h) : DropOldest(h, 0)[i] = h[i]
            <4>1. 0 \in 0..Len(h) /\ Len(h) \in Nat
                BY <1>2 DEF n
            <4>2. /\ DropOldest(h, 0) \in Seq(Snapshot)
                  /\ Len(DropOldest(h, 0)) = Len(h) - 0
                  /\ \A i \in 1..(Len(h) - 0) : DropOldest(h, 0)[i] = h[i + 0]
                BY <4>1, <1>2, DropOldestProperties
            <4>3. Len(h) - 0 = Len(h) /\ \A i \in 1..Len(h) : i + 0 = i
                BY <4>1
            <4>4. QED
                BY <4>2, <4>3
        <3>2. QED
            BY <3>1, <1>2, SeqEqual
    <2>2. TimelineView!Next
        BY <2>1, <1>2, <1>4, <1>7, KeepingOnTimeline DEF h, n
    <2>3. panicked' /\ ~(Batch <= historyCap)
        BY <1>2, <1>3, <1>4, <1>7
    <2>4. QED
        BY <2>2, <2>3
<1>8. QED
    BY <1>2, <1>3, <1>5, <1>6, <1>7

\* What CollectMeetsCap says of one step.
Collected ==
    nextIndex' > nextIndex =>
        /\ ~panicked' => Len(history') <= historyCap
        /\ Batch <= historyCap =>
              history' # << >> /\ history'[Len(history')].step_index = nextIndex

\* Every step is a step of the time line or leaves it alone, and none grows
\* the history past the cap.
LEMMA StepOnTimeline ==
    ASSUME IInv, [DbgNext]_dbgVars
    PROVE  /\ Collected
           /\ [TimelineView!Next]_<<history, Len(history) - backStack>>
<1> USE DEF Collected
<1> DEFINE Goal == /\ Collected
                   /\ [TimelineView!Next]_<<history, Len(history) - backStack>>
<1>1. /\ nextIndex \in Nat
      /\ backStack \in Nat
      /\ Len(history) \in Nat
      /\ backStack <= Len(history)
    BY DEF IInv, TypeOK, PlayHeadInHistory
<1>2. ASSUME UNCHANGED <<history, nextIndex, backStack>>
      PROVE  Goal
    BY <1>1, <1>2
<1>3. CASE CmdStepBack
    <2>1. /\ UNCHANGED <<history, nextIndex>>
          /\ backStack' = backStack + 1
          /\ backStack + 1 <= Len(history)
        BY <1>3 DEF CmdStepBack, CanStepBack
    <2>2. TimelineView!Rewind
        BY <1>1, <2>1 DEF TimelineView!Rewind
    <2>3. QED
        BY <1>1, <2>1, <2>2 DEF TimelineView!Next
<1>4. CASE CmdRestart
    <2>1. UNCHANGED <<history, nextIndex>> /\ backStack' = Len(history)
        BY <1>4 DEF CmdRestart
    <2>2. TimelineView!RewindAll
        BY <1>1, <2>1 DEF TimelineView!RewindAll
    <2>3. QED
        BY <1>1, <2>1, <2>2 DEF TimelineView!Next
<1>5. CASE ClearHistory
    <2>1. nextIndex' = 0 /\ history' = << >> /\ backStack' = 0
        BY <1>5 DEF ClearHistory
    <2>2. TimelineView!Clear
        BY <2>1, EmptySeq DEF TimelineView!Clear
    <2>3. QED
        BY <1>1, <2>1, <2>2 DEF TimelineView!Next
<1>6. ASSUME NEW s \in Sites, NEW d \in 1..MaxDepth, Tick(s, d)
      PROVE  Goal
    <2>1. ASSUME NEW stop \in BOOLEAN, TickCapture(s, d, stop)
          PROVE  Goal
        <3>1. UNCHANGED historyCap
            BY <2>1 DEF TickCapture
        <3>2. QED
            BY <2>1, CaptureOnTimeline
    <2>2. QED
        BY <1>2, <1>6, <2>1
        DEF Tick, TickPaused, TickBreakpoint, TickCallReturned
<1>7. CASE HostCommand
    BY <1>2, <1>3, <1>4, <1>5, <1>7
    DEF HostCommand, SetHistoryCap, SetBreakpoint, ClearBreakpoint,
        ClearBreakpoints, CmdResume, CmdStep, CmdStepOver, CmdTraceUntil, StartIn
<1>8. CASE OnFinished("BudgetExhausted")
    BY <1>2, <1>8 DEF OnFinished
<1>9. CASE UNCHANGED dbgVars
    BY <1>2, <1>9 DEF dbgVars
<1>10. QED
    BY <1>6, <1>7, <1>8, <1>9 DEF DbgNext

\* The whole debugger implements the plain time line, whatever cap it is given.
THEOREM DebuggerImplementsTimeline == DbgSpec => ImplementsTimeline
<1>1. DbgInit => TimelineView!Init
    BY EmptySeq DEF DbgInit, TimelineView!Init
<1>2. IInv /\ [DbgNext]_dbgVars
        => [TimelineView!Next]_<<history, Len(history) - backStack>>
    BY StepOnTimeline
<1>3. QED
    BY <1>1, <1>2, Invariant, PTL DEF DbgSpec, ImplementsTimeline, TimelineView!Spec

\* A capture leaves at most historyCap snapshots, however far the host lowered
\* the cap since the last one, and keeps the newest unless the cap is below one
\* batch.
THEOREM CapMet == DbgSpec => CollectMeetsCap
<1>1. IInv /\ [DbgNext]_dbgVars => [Collected]_dbgVars
    BY StepOnTimeline
<1>2. QED
    BY <1>1, Invariant, PTL DEF DbgSpec, CollectMeetsCap, Collected
=============================================================================

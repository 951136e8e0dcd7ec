------------------------------ MODULE VmProofs -------------------------------
(***************************************************************************)
(* What is proved of the interpreter: of its call machinery, for every     *)
(* program, limit, denylist and debugger; of its lookup of methods, for    *)
(* every set of DEX files, every number of them, and every name.           *)
(***************************************************************************)
EXTENDS Vm, ClassLookup, SequenceTheorems, WellFoundedInduction, TLAPS

\* What is proved needs no more types than those of the stack and of what an
\* instruction can put into a register.
Types ==
    /\ code \in Programs
    /\ frames \in Seq(FrameSet)
    /\ \A i \in 1..Depth : frames[i].m \in DOMAIN code
    /\ lastReturn \in OptionValues
    /\ DOMAIN statics \subseteq Fields
    /\ \A f \in DOMAIN statics : statics[f] \in Values

\* While a call that was cut short unwinds, what cut it short is still there:
\* the budget is empty, or the debugger is paused, and answers that again.
StillCut ==
    /\ cut = "budget" =>
          /\ lastReturn = None
          /\ Running => budget = 0
          /\ ~Running => result = None
    /\ cut = "pause" /\ Running => attached /\ mode = Paused

VmInv == Types /\ ClinitNotReentered /\ StillCut

-----------------------------------------------------------------------------
\* Values and frames.

LEMMA ReadFieldType ==
    ASSUME Types, NEW f
    PROVE  ReadField(f) \in Values
BY VmConstantsOK DEF Types, ReadField

LEMMA OrNullType ==
    ASSUME NEW v \in OptionValues
    PROVE  OrNull(v) \in Values
BY VmConstantsOK DEF OrNull, OptionValues

\* A frame that goes on keeps its method and what it was entered for.
LEMMA AdvanceFrame ==
    ASSUME NEW st \in Seq(FrameSet), Len(st) > 0,
           NEW reg \in OptionValues, NEW pc \in Nat
    PROVE  /\ AdvanceTo(st, reg, pc) \in Seq(FrameSet)
           /\ Len(AdvanceTo(st, reg, pc)) = Len(st)
           /\ \A i \in 1..Len(st) :
                 /\ AdvanceTo(st, reg, pc)[i].m = st[i].m
                 /\ AdvanceTo(st, reg, pc)[i].why = st[i].why
                 /\ AdvanceTo(st, reg, pc)[i].field = st[i].field
<1>. DEFINE n == Len(st)
            loaded == [st EXCEPT ![n].reg = reg]
            moved == [loaded EXCEPT ![n].pc = pc]
<1>1. n \in 1..Len(st) /\ st[n] \in FrameSet
  OBVIOUS
<1>2. AdvanceTo(st, reg, pc) = moved
  BY <1>1 DEF AdvanceTo
<1>. HIDE DEF n
<1>3. [st[n] EXCEPT !.reg = reg] \in FrameSet
  BY <1>1 DEF FrameSet
<1>4. /\ loaded \in Seq(FrameSet) /\ Len(loaded) = Len(st)
      /\ loaded[n] = [st[n] EXCEPT !.reg = reg]
      /\ \A i \in 1..Len(st) : i # n => loaded[i] = st[i]
  BY <1>1, <1>3
<1>5. loaded[n] \in FrameSet /\ loaded[n].m = st[n].m /\ loaded[n].why = st[n].why /\ loaded[n].field = st[n].field
  BY <1>1, <1>3, <1>4 DEF FrameSet
<1>. HIDE DEF loaded
<1>6. [loaded[n] EXCEPT !.pc = pc] \in FrameSet
  BY <1>5 DEF FrameSet
<1>7. /\ moved \in Seq(FrameSet) /\ Len(moved) = Len(st)
      /\ moved[n] = [loaded[n] EXCEPT !.pc = pc]
      /\ \A i \in 1..Len(st) : i # n => moved[i] = loaded[i]
  BY <1>1, <1>4, <1>6
<1>8. moved[n].m = st[n].m /\ moved[n].why = st[n].why /\ moved[n].field = st[n].field
  BY <1>5, <1>6, <1>7 DEF FrameSet
<1>. HIDE DEF moved
<1>. QED BY <1>1, <1>2, <1>4, <1>7, <1>8, ZenonT(60)

LEMMA TopType ==
    ASSUME Types, Running
    PROVE  /\ Depth \in Nat \ {0}
           /\ Top \in FrameSet
           /\ Top.m \in DOMAIN code
           /\ code[Top.m] \in Seq(Instructions)
<1>1. Depth \in Nat \ {0} /\ Top \in FrameSet
  BY DEF Types, Running, Depth, Top
<1>2. Top.m \in DOMAIN code
  BY <1>1 DEF Types, Top, Depth
<1>. QED BY <1>1, <1>2, ProgramsOK DEF Types

\* What the top frame can fetch.
LEMMA FetchType ==
    ASSUME Types, Running, HasInstr
    PROVE  Fetch \in Instructions
BY TopType DEF HasInstr, Fetch

\* The call epilogue drops the top frame, and its caller goes on.
LEMMA LeaveStep ==
    ASSUME Types, Running, NEW ret \in OptionValues, Leave(ret),
           UNCHANGED code
    PROVE  /\ frames' \in Seq(FrameSet)
           /\ Depth' = Depth - 1
           /\ \A i \in 1..Depth' :
                 /\ frames'[i].m = frames[i].m
                 /\ frames'[i].why = frames[i].why
                 /\ frames'[i].field = frames[i].field
           /\ lastReturn' = ret
           /\ ~Running' => result' = ret
<1>. DEFINE rest == SubSeq(frames, 1, Depth - 1)
<1>1. Depth \in Nat \ {0} /\ Top \in FrameSet
  BY TopType
<1>2. /\ rest \in Seq(FrameSet) /\ Len(rest) = Depth - 1
      /\ \A i \in 1..(Depth - 1) : rest[i] = frames[i]
  <2>1. frames \in Seq(FrameSet) /\ Depth = Len(frames)
    BY DEF Types, Depth
  <2>. QED BY <1>1, <2>1
<1>3. lastReturn' = ret
  BY DEF Leave
<1>4. CASE rest = << >>
  <2>1. frames' = << >> /\ result' = ret
    BY <1>4 DEF Leave
  <2>2. Depth - 1 = 0
    <3>. HIDE DEF rest
    <3>. QED BY <1>2, <1>4
  <2>3. Depth' = 0 /\ frames' \in Seq(FrameSet)
    BY <2>1 DEF Depth
  <2>. QED BY <1>1, <1>3, <2>1, <2>2, <2>3
<1>5. CASE rest # << >>
  <2>. DEFINE caller == rest[Depth - 1]
              reg == Resumed(caller, Top, ret)
  <2>1. frames' = AdvanceTo(rest, reg, caller.pc + 1)
    BY <1>5 DEF Leave
  <2>2. Len(rest) > 0 /\ caller \in FrameSet
    BY <1>1, <1>2, <1>5
  <2>3. reg \in OptionValues
    <3>1. ReadField(Top.field) \in OptionValues /\ caller.reg \in OptionValues
      BY <2>2, ReadFieldType DEF OptionValues, FrameSet
    <3>. QED BY <3>1 DEF Resumed
  <2>. HIDE DEF rest, caller, reg
  <2>4. caller.pc + 1 \in Nat
    BY <2>2 DEF FrameSet
  <2>5. /\ frames' \in Seq(FrameSet) /\ Len(frames') = Len(rest)
        /\ \A i \in 1..Len(rest) : /\ frames'[i].m = rest[i].m
                                   /\ frames'[i].why = rest[i].why
                                   /\ frames'[i].field = rest[i].field
    BY <1>2, <2>1, <2>2, <2>3, <2>4, AdvanceFrame
  <2>. QED BY <1>1, <1>2, <1>3, <2>2, <2>5 DEF Depth, Running
<1>. QED BY <1>4, <1>5

\* A call pushes a frame on those that are there.
LEMMA EnterStep ==
    ASSUME Types, NEW m \in Methods, m \in DOMAIN code, NEW arg \in OptionValues,
           NEW why \in {"entry", "call", "ctor", "clinit"},
           NEW field \in Fields \cup {NoField},
           Enter(m, arg, why, field)
    PROVE  /\ frames' \in Seq(FrameSet)
           /\ Depth' = Depth + 1
           /\ \A i \in 1..Depth : frames'[i] = frames[i]
           /\ frames'[Depth + 1].m = m
           /\ frames'[Depth + 1].why = why
           /\ frames'[Depth + 1].field = field
<1>. DEFINE fr == Frame(m, arg, why, field)
<1>1. fr \in FrameSet
  BY DEF Frame, FrameSet
<1>2. fr.m = m /\ fr.why = why /\ fr.field = field
  BY DEF Frame
<1>3. frames' = Append(frames, fr)
  BY DEF Enter
<1>4. frames \in Seq(FrameSet)
  BY DEF Types
<1>. HIDE DEF fr
<1>. QED BY <1>1, <1>2, <1>3, <1>4 DEF Depth

-----------------------------------------------------------------------------
\* What the invariant makes of a frame that goes on, ends or begins.

LEMMA InitInv == VmInit => VmInv
<1>. SUFFICES ASSUME VmInit PROVE VmInv
  OBVIOUS
<1>1. Types
  BY DEF VmInit, Types, Depth, OptionValues
<1>2. ClinitNotReentered
  BY DEF VmInit, ClinitNotReentered, ClinitFrames, Depth
<1>3. StillCut
  BY DEF VmInit, StillCut
<1>. QED BY <1>1, <1>2, <1>3 DEF VmInv

\* No frame is new, and no class is forgotten.
LEMMA FewerFrames ==
    ASSUME Types, ClinitNotReentered, Depth' \in Nat, Depth' <= Depth,
           inited \subseteq inited',
           \A i \in 1..Depth' : /\ frames'[i].why = frames[i].why
                                /\ frames'[i].field = frames[i].field
    PROVE  ClinitNotReentered'
<1>1. Depth \in Nat
  BY DEF Types, Depth
<1>2. \A i \in ClinitFrames' : i \in ClinitFrames /\ frames'[i].field = frames[i].field
  BY <1>1 DEF ClinitFrames
<1>. QED BY <1>2 DEF ClinitNotReentered

LEMMA LeaveInv ==
    ASSUME Types, ClinitNotReentered, Running, NEW ret \in OptionValues, Leave(ret),
           UNCHANGED <<code, statics, inited>>
    PROVE  Types' /\ ClinitNotReentered' /\ Depth' < Depth
<1>1. /\ frames' \in Seq(FrameSet) /\ Depth' = Depth - 1
      /\ \A i \in 1..Depth' : /\ frames'[i].m = frames[i].m
                              /\ frames'[i].why = frames[i].why
                              /\ frames'[i].field = frames[i].field
      /\ lastReturn' = ret
  BY LeaveStep
<1>2. Depth \in Nat \ {0}
  BY TopType
<1>3. \A i \in 1..Depth' : frames'[i].m \in DOMAIN code
  BY <1>1, <1>2 DEF Types
<1>. QED BY <1>1, <1>2, <1>3, FewerFrames, SMTT(40) DEF Types

LEMMA ContinueInv ==
    ASSUME Types, ClinitNotReentered, Running,
           NEW reg \in OptionValues, NEW pc \in Nat, Continue(reg, pc),
           lastReturn' \in OptionValues, code' = code, inited \subseteq inited',
           DOMAIN statics' \subseteq Fields,
           \A f \in DOMAIN statics' : statics'[f] \in Values
    PROVE  Types' /\ ClinitNotReentered'
<1>1. frames \in Seq(FrameSet) /\ Len(frames) > 0
  BY DEF Types, Running
<1>2. frames' = AdvanceTo(frames, reg, pc)
  BY DEF Continue
<1>3. /\ frames' \in Seq(FrameSet) /\ Len(frames') = Len(frames)
      /\ \A i \in 1..Len(frames) : /\ frames'[i].m = frames[i].m
                                   /\ frames'[i].why = frames[i].why
                                   /\ frames'[i].field = frames[i].field
  BY <1>1, <1>2, AdvanceFrame
<1>4. Depth' = Depth /\ Depth = Len(frames) /\ Depth \in Nat
  BY <1>1, <1>3 DEF Depth
<1>. QED BY <1>3, <1>4, FewerFrames DEF Types

LEMMA EnterInv ==
    ASSUME Types, ClinitNotReentered,
           NEW m \in Methods, m \in DOMAIN code, NEW arg \in OptionValues,
           NEW why \in {"entry", "call", "ctor", "clinit"},
           NEW field \in Fields \cup {NoField},
           Enter(m, arg, why, field),
           UNCHANGED <<code, lastReturn, statics>>, inited \subseteq inited',
           why = "clinit" => ClassOf[field] \notin inited /\ ClassOf[field] \in inited'
    PROVE  Types' /\ ClinitNotReentered'
<1>1. /\ frames' \in Seq(FrameSet) /\ Depth' = Depth + 1
      /\ \A i \in 1..Depth : frames'[i] = frames[i]
      /\ frames'[Depth + 1].m = m
      /\ frames'[Depth + 1].why = why
      /\ frames'[Depth + 1].field = field
  BY EnterStep
<1>2. Depth \in Nat
  BY DEF Types, Depth
<1>3. \A i \in 1..Depth' : frames'[i].m \in DOMAIN code
  BY <1>1, <1>2 DEF Types
<1>4. Types'
  BY <1>1, <1>3 DEF Types
<1>5. \A i \in ClinitFrames' : \/ i \in ClinitFrames /\ frames'[i].field = frames[i].field
                               \/ /\ i = Depth + 1 /\ why = "clinit"
                                  /\ frames'[i].field = field
  BY <1>1, <1>2 DEF ClinitFrames
<1>6. \A i \in ClinitFrames : ClassOf[frames[i].field] \in inited
  BY DEF ClinitNotReentered
<1>7. ASSUME NEW i \in ClinitFrames', NEW j \in ClinitFrames'
      PROVE  /\ ClassOf[frames'[i].field] \in inited'
             /\ ClassOf[frames'[i].field] = ClassOf[frames'[j].field] => i = j
  BY <1>5, <1>6 DEF ClinitNotReentered
<1>. QED BY <1>4, <1>7 DEF ClinitNotReentered

-----------------------------------------------------------------------------
\* The debugger and the budget.

\* A paused debugger answers Pause, and one that answers Pause is paused.
LEMMA Verdict ==
    ASSUME NEW site, NEW depth, Tick(site, depth)
    PROVE  /\ mode = Paused => decision' = "Pause"
           /\ decision' = "Pause" => mode' = Paused
<1>1. CASE TickPaused
  BY <1>1 DEF TickPaused
<1>2. CASE TickBreakpoint(site)
  BY <1>2 DEF TickBreakpoint
<1>3. CASE TickCallReturned(site, depth)
  BY <1>3 DEF TickCallReturned
<1>4. ASSUME NEW stop \in BOOLEAN, TickCapture(site, depth, stop)
      PROVE  /\ mode # Paused
             /\ decision' = "Pause" => mode' = Paused
  BY <1>4 DEF TickCapture
<1>. QED BY <1>1, <1>2, <1>3, <1>4 DEF Tick

\* No instruction of a run that was cut short is executed any more.
LEMMA NotCut ==
    ASSUME StillCut, NEW op, Executing(op)
    PROVE  /\ Running /\ HasInstr /\ Fetch.op = op
           /\ code' = code
           /\ cut' = cut
           /\ cut \notin {"budget", "pause"}
<1>1. /\ Running /\ HasInstr /\ Fetch.op = op /\ budget # 0
      /\ Answered("Continue")
      /\ code' = code /\ cut' = cut
  BY DEF Executing
<1>2. ~(attached /\ mode = Paused)
  BY <1>1, Verdict DEF Answered
<1>. QED BY <1>1, <1>2 DEF StillCut

LEMMA FetchFacts ==
    ASSUME Fetch \in Instructions
    PROVE  /\ Fetch.op \in {"const", "builtin"} => Fetch.v \in Values
           /\ Fetch.op \in {"goto", "if-eqz"} => Fetch.to \in Nat
           /\ Fetch.op \in {"sget", "sput"} => Fetch.field \in Fields
           /\ Fetch.op = "invoke" => Fetch.m \in Methods
BY DEF Instructions

-----------------------------------------------------------------------------
\* The invariant, instruction by instruction.

\* An instruction that stays in its frame.
Stays == Const \/ MoveResult \/ Goto \/ IfEqz \/ Builtin \/ Sput \/ SgetRead \/ InvokeRefused

LEMMA StaysInv ==
    ASSUME Types, ClinitNotReentered, Running, HasInstr, code' = code, Stays
    PROVE  Types' /\ ClinitNotReentered'
<1>1. /\ Top \in FrameSet /\ Fetch \in Instructions
      /\ Top.pc \in Nat /\ Top.pc + 1 \in Nat /\ Top.reg \in OptionValues
  <2>1. Top \in FrameSet /\ Fetch \in Instructions
    BY TopType, FetchType
  <2>2. Top.pc \in Nat /\ Top.reg \in OptionValues
    BY <2>1 DEF FrameSet
  <2>. QED BY <2>1, <2>2
<1>2. lastReturn \in OptionValues /\ Values \subseteq OptionValues /\ None \in OptionValues
  BY DEF Types, OptionValues
<1>3. DOMAIN statics \subseteq Fields /\ \A f \in DOMAIN statics : statics[f] \in Values
  BY DEF Types
<1>4. CASE Const
  <2>1. Fetch.v \in OptionValues
    BY <1>1, <1>2, <1>4, FetchFacts DEF Const, Executing
  <2>. QED BY <1>1, <1>2, <1>3, <1>4, <2>1, ContinueInv DEF Const
<1>5. CASE MoveResult
  BY <1>1, <1>2, <1>3, <1>5, ContinueInv DEF MoveResult
<1>6. CASE Goto
  <2>1. Fetch.to \in Nat
    BY <1>1, <1>6, FetchFacts DEF Goto, Executing
  <2>. QED BY <1>1, <1>2, <1>3, <1>6, <2>1, ContinueInv DEF Goto
<1>7. CASE IfEqz
  <2>. DEFINE to == IF Top.reg \in {None, Fetch.zero} THEN Fetch.to ELSE Top.pc + 1
  <2>1. Fetch.to \in Nat
    BY <1>1, <1>7, FetchFacts DEF IfEqz, Executing
  <2>2. to \in Nat
    BY <1>1, <2>1
  <2>3. Continue(Top.reg, to) /\ UNCHANGED <<lastReturn, statics, inited, completed>>
    BY <1>7 DEF IfEqz
  <2>. HIDE DEF to
  <2>. QED BY <1>1, <1>2, <1>3, <2>2, <2>3, ContinueInv
<1>8. CASE Builtin
  <2>1. Fetch.v \in OptionValues
    BY <1>1, <1>2, <1>8, FetchFacts DEF Builtin, Executing
  <2>. QED BY <1>1, <1>2, <1>3, <1>8, <2>1, ContinueInv DEF Builtin
<1>9. CASE Sput
  <2>1. Fetch.field \in Fields /\ OrNull(Top.reg) \in Values
    BY <1>1, <1>9, FetchFacts, OrNullType DEF Sput, Executing
  <2>2. statics' = [f \in DOMAIN statics \cup {Fetch.field} |->
                      IF f = Fetch.field THEN OrNull(Top.reg) ELSE statics[f]]
    BY <1>9 DEF Sput
  <2>3. DOMAIN statics' \subseteq Fields /\ \A f \in DOMAIN statics' : statics'[f] \in Values
    BY <1>3, <2>1, <2>2
  <2>4. Continue(Top.reg, Top.pc + 1) /\ lastReturn' = lastReturn /\ inited' = inited
    BY <1>9 DEF Sput
  <2>. QED BY <1>1, <1>2, <2>3, <2>4, ContinueInv
<1>10. CASE SgetRead
  <2>1. ReadField(Fetch.field) \in OptionValues
    BY <1>2, ReadFieldType
  <2>2. /\ inited \subseteq inited' /\ Continue(ReadField(Fetch.field), Top.pc + 1)
        /\ lastReturn' = lastReturn /\ statics' = statics
    BY <1>10 DEF SgetRead
  <2>. QED BY <1>1, <1>2, <1>3, <2>1, <2>2, ContinueInv
<1>11. CASE InvokeRefused
  BY <1>1, <1>2, <1>3, <1>11, ContinueInv DEF InvokeRefused
<1>. QED BY <1>4, <1>5, <1>6, <1>7, <1>8, <1>9, <1>10, <1>11 DEF Stays

\* A <clinit> begins only for a class that was not marked, and marks it.
LEMMA ClinitInv ==
    ASSUME Types, ClinitNotReentered, Running, HasInstr, code' = code, SgetClinit
    PROVE  Types' /\ ClinitNotReentered'
<1>. DEFINE m == Clinit[InitClass]
<1>1. Fetch.field \in Fields
  BY FetchType, FetchFacts DEF SgetClinit, Executing
<1>2. m \in Methods /\ m \in DOMAIN code /\ InitClass \notin inited
  BY <1>1, VmConstantsOK DEF SgetClinit, ClinitRuns, NeedsClinit, Callable, InitClass
<1>3. /\ Enter(m, None, "clinit", Fetch.field)
      /\ inited' = inited \cup {InitClass}
      /\ UNCHANGED <<lastReturn, statics>>
  BY DEF SgetClinit
<1>4. None \in OptionValues
  BY DEF OptionValues
<1>. HIDE DEF m
<1>. QED BY <1>1, <1>2, <1>3, <1>4, EnterInv DEF InitClass

LEMMA InvokeInv ==
    ASSUME Types, ClinitNotReentered, Running, HasInstr, code' = code, Invoke
    PROVE  Types' /\ ClinitNotReentered'
<1>. DEFINE why == IF Fetch.ctor THEN "ctor" ELSE "call"
<1>1. Fetch.m \in Methods /\ Fetch.m \in DOMAIN code
  BY FetchType, FetchFacts DEF Invoke, Executing, Callable
<1>2. OrNull(Top.reg) \in OptionValues
  <2>1. Top.reg \in OptionValues
    BY TopType DEF FrameSet
  <2>. QED BY <2>1, OrNullType DEF OptionValues
<1>3. why \in {"entry", "call", "ctor", "clinit"} /\ why # "clinit"
  OBVIOUS
<1>4. /\ Enter(Fetch.m, OrNull(Top.reg), why, NoField)
      /\ UNCHANGED <<lastReturn, statics, inited>>
  BY DEF Invoke
<1>. HIDE DEF why
<1>. QED BY <1>1, <1>2, <1>3, <1>4, EnterInv

LEMMA ReturnInv ==
    ASSUME Types, ClinitNotReentered, NEW op, Running, HasInstr, code' = code, Return(op)
    PROVE  Types' /\ ClinitNotReentered'
<1>1. Returned \in OptionValues
  BY TopType DEF Returned, FrameSet, OptionValues
<1>2. Leave(Returned) /\ UNCHANGED <<statics, inited>>
  BY DEF Return
<1>. QED BY <1>1, <1>2, LeaveInv

\* The three ways out of a frame that are no return instruction.
CutsShort == BudgetOut \/ PauseOut \/ FallOff

LEMMA CutsShortInv ==
    ASSUME VmInv, CutsShort
    PROVE  VmInv' /\ Depth' < Depth /\ UNCHANGED <<statics, inited>>
<1>. USE DEF VmInv
<1>1. None \in OptionValues /\ lastReturn \in OptionValues
  BY DEF Types, OptionValues
<1>2. CASE BudgetOut
  <2>1. /\ Running /\ budget = 0 /\ budget' = 0 /\ cut' = "budget"
        /\ Leave(None) /\ UNCHANGED <<code, statics, inited>>
    BY <1>2 DEF BudgetOut
  <2>2. Types' /\ ClinitNotReentered' /\ Depth' < Depth
    BY <1>1, <2>1, LeaveInv
  <2>3. lastReturn' = None /\ (~Running' => result' = None)
    BY <1>1, <2>1, LeaveStep
  <2>4. StillCut'
    BY <2>1, <2>3 DEF StillCut
  <2>. QED BY <2>1, <2>2, <2>4
<1>3. CASE PauseOut
  <2>1. /\ Running /\ budget # 0 /\ cut' = "pause" /\ Answered("Pause")
        /\ Leave(lastReturn) /\ UNCHANGED <<code, statics, inited, attached>>
    BY <1>3 DEF PauseOut
  <2>2. Types' /\ ClinitNotReentered' /\ Depth' < Depth
    BY <1>1, <2>1, LeaveInv
  <2>3. attached' /\ mode' = Paused
    BY <2>1, Verdict DEF Answered
  <2>4. StillCut'
    BY <2>1, <2>3 DEF StillCut
  <2>. QED BY <2>1, <2>2, <2>4
<1>4. CASE FallOff
  <2>1. /\ Running /\ Leave(lastReturn)
        /\ UNCHANGED <<code, statics, inited, budget, attached, cut>> /\ mode' = mode
    BY <1>4 DEF FallOff, dbgVars
  <2>2. Types' /\ ClinitNotReentered' /\ Depth' < Depth
    BY <1>1, <2>1, LeaveInv
  <2>3. lastReturn' = lastReturn /\ (~Running' => result' = lastReturn)
    BY <1>1, <2>1, LeaveStep
  <2>4. StillCut'
    BY <2>1, <2>3 DEF StillCut
  <2>. QED BY <2>1, <2>2, <2>4
<1>. QED BY <1>2, <1>3, <1>4 DEF CutsShort

\* Everything else the interpreter does is an instruction.
Instruction ==
    \/ Stays \/ SgetClinit \/ Invoke
    \/ \E op \in {"return", "return-void", "throw"} : Return(op)

LEMMA InstructionExecutes == Instruction => \E op : Executing(op)
BY DEF Instruction, Stays, Const, MoveResult, Goto, IfEqz, Builtin, Sput, SgetRead,
       InvokeRefused, SgetClinit, Invoke, Return

LEMMA InstructionInv ==
    ASSUME VmInv, Instruction
    PROVE  VmInv' /\ cut \notin {"budget", "pause"}
<1>1. PICK op : Executing(op)
  BY InstructionExecutes
<1>2. /\ Running /\ HasInstr /\ code' = code /\ cut' = cut
      /\ cut \notin {"budget", "pause"}
  BY <1>1, NotCut DEF VmInv
<1>3. StillCut'
  BY <1>2 DEF StillCut
<1>4. Types' /\ ClinitNotReentered'
  BY <1>2, StaysInv, ClinitInv, InvokeInv, ReturnInv DEF Instruction, VmInv
<1>. QED BY <1>2, <1>3, <1>4 DEF VmInv

LEMMA StepCases == VmStep => CutsShort \/ Instruction
BY DEF VmStep, CutsShort, Instruction, Stays

-----------------------------------------------------------------------------
\* The invariant, host operation by host operation.

\* Between two calls: no frame, and what the host changes is nothing that the
\* invariant speaks of but the outcome of the last call.
LEMMA IdleInv ==
    ASSUME VmInv, ~Running, UNCHANGED <<code, frames, statics, inited>>,
           lastReturn' \in {lastReturn, None},
           \/ cut' = "refused"
           \/ cut' = cut /\ result' = result
    PROVE  VmInv'
<1>1. Types'
  BY DEF VmInv, Types, OptionValues, Depth
<1>2. ClinitNotReentered'
  BY DEF VmInv, ClinitNotReentered, ClinitFrames, Depth
<1>3. StillCut'
  BY DEF VmInv, StillCut, Running
<1>. QED BY <1>1, <1>2, <1>3 DEF VmInv

\* A call of the host begins on the empty stack.
LEMMA FirstFrame ==
    ASSUME VmInv, ~Running, NEW m \in Methods, m \in DOMAIN code,
           frames' = << Frame(m, None, "entry", NoField) >>,
           cut' = "no", UNCHANGED <<code, lastReturn, statics, inited>>
    PROVE  VmInv'
<1>. DEFINE fr == Frame(m, None, "entry", NoField)
<1>1. fr \in FrameSet /\ fr.m = m /\ fr.why = "entry"
  BY DEF Frame, FrameSet, OptionValues
<1>2. frames' = << fr >>
  OBVIOUS
<1>. HIDE DEF fr
<1>3. frames' \in Seq(FrameSet) /\ Depth' = 1 /\ frames'[1] = fr
  BY <1>1, <1>2 DEF Depth
<1>4. \A i \in 1..Depth' : frames'[i].m = m /\ frames'[i].why = "entry"
  BY <1>1, <1>3
<1>5. Types'
  BY <1>3, <1>4 DEF VmInv, Types
<1>6. ClinitNotReentered'
  BY <1>4 DEF ClinitNotReentered, ClinitFrames
<1>7. StillCut'
  BY DEF StillCut
<1>. QED BY <1>5, <1>6, <1>7 DEF VmInv

LEMMA HostIdle == HostStep => ~Running
BY DEF HostStep, ResetForCall, SetInstrLimit, CallMethod, CallRefused, SpawnMethod,
       SpawnRefused, ClearFinishedThreads, AttachDebugger, DetachDebugger, DebugCommand

LEMMA HostInv ==
    ASSUME VmInv, HostStep
    PROVE  VmInv'
<1>1. ~Running
  BY HostIdle
<1>2. ASSUME NEW l \in Limits, ResetForCall(l) \/ SetInstrLimit(l) PROVE VmInv'
  BY <1>1, <1>2, IdleInv DEF ResetForCall, SetInstrLimit, runVars
<1>3. ASSUME NEW m \in Entries, CallMethod(m) \/ SpawnMethod(m) PROVE VmInv'
  <2>1. m \in Methods /\ m \in DOMAIN code
    BY <1>3, VmConstantsOK DEF CallMethod, SpawnMethod, Callable
  <2>. QED BY <1>1, <1>3, <2>1, FirstFrame DEF CallMethod, SpawnMethod
<1>4. ASSUME NEW m \in Entries, CallRefused(m) \/ SpawnRefused(m) PROVE VmInv'
  BY <1>1, <1>4, IdleInv DEF CallRefused, SpawnRefused
<1>5. ASSUME ClearFinishedThreads \/ AttachDebugger \/ DetachDebugger PROVE VmInv'
  BY <1>1, <1>5, IdleInv
     DEF ClearFinishedThreads, AttachDebugger, DetachDebugger, runVars
<1>6. ASSUME DebugCommand PROVE VmInv'
  BY <1>1, <1>6, IdleInv DEF DebugCommand, vmVars, runVars
<1>. QED BY <1>2, <1>3, <1>4, <1>5, <1>6 DEF HostStep

LEMMA NextInv == VmInv /\ [VmNext]_machineVars => VmInv'
<1>. SUFFICES ASSUME VmInv, [VmNext]_machineVars PROVE VmInv'
  OBVIOUS
<1>1. CASE VmStep
  BY <1>1, StepCases, CutsShortInv, InstructionInv
<1>2. CASE HostStep
  BY <1>2, HostInv
<1>3. CASE UNCHANGED machineVars
  <2>1. UNCHANGED <<code, frames, lastReturn, statics, inited, budget, cut, result,
                    attached, mode>>
    BY <1>3 DEF machineVars, vmVars, runVars, dbgVars
  <2>2. Types'
    BY <2>1 DEF VmInv, Types, Depth
  <2>3. ClinitNotReentered'
    BY <2>1 DEF VmInv, ClinitNotReentered, ClinitFrames, Depth
  <2>4. StillCut'
    BY <2>1 DEF VmInv, StillCut, Running
  <2>. QED BY <2>2, <2>3, <2>4 DEF VmInv
<1>. QED BY <1>1, <1>2, <1>3 DEF VmNext

\* The inductive invariant holds of every run of the interpreter.
THEOREM InvAlways == VmSpec => []VmInv
<1>1. VmInit => VmInv
  BY InitInv
<1>2. VmInv /\ [VmNext]_machineVars => VmInv'
  BY NextInv
<1>. QED BY <1>1, <1>2, PTL DEF VmSpec

\* Whatever the classes' initialisers read of each other, no class is
\* initialised twice at the same time, and each is marked before it begins.
THEOREM ClinitNeverReentered == VmSpec => []ClinitNotReentered
<1>1. VmInv => ClinitNotReentered
  BY DEF VmInv
<1>. QED BY <1>1, InvAlways, PTL

\* A call that ran out of budget hands no value to the host, at whatever depth
\* it ran out and however deep the frames above it are unwound.
THEOREM ExhaustedReturnsNone == VmSpec => []ExhaustedCallReturnsNone
<1>1. VmInv => ExhaustedCallReturnsNone
  BY DEF VmInv, StillCut, ExhaustedCallReturnsNone
<1>. QED BY <1>1, InvAlways, PTL

\* A run that was cut short in a nested call executes nothing on its way out:
\* the debugger is still paused, or the budget still empty, in every frame.
THEOREM CutRunUnwinds == VmSpec => CutRunOnlyUnwinds
<1>1. ASSUME VmInv, [VmNext]_machineVars
      PROVE  [Running /\ cut \in {"budget", "pause"}
                 => Depth' < Depth /\ UNCHANGED <<statics, inited>>]_machineVars
  <2>1. CASE VmStep
    BY <1>1, <2>1, StepCases, CutsShortInv, InstructionInv
  <2>2. CASE HostStep
    BY <2>2, HostIdle
  <2>. QED BY <1>1, <2>1, <2>2 DEF VmNext
<1>. QED BY <1>1, InvAlways, PTL DEF VmSpec, CutRunOnlyUnwinds

-----------------------------------------------------------------------------
\* Spawned threads.

\* Handles are given out once, and the only thread that is not settled is the
\* one whose call is on the stack.
ThreadsInv ==
    /\ nextThread \in Nat \ {0}
    /\ DOMAIN threads \subseteq 1..(nextThread - 1)
    /\ spawn # 0 => Running /\ spawn \in DOMAIN threads
    /\ \A h \in DOMAIN threads : ~Terminal(threads[h]) <=> h = spawn

\* What FinishedThreadsFrozen says of one step.
Frozen ==
    \A h \in DOMAIN threads :
        \/ h \in DOMAIN threads' /\ (Terminal(threads[h]) => threads'[h] = threads[h])
        \/ /\ h \notin DOMAIN threads' /\ Terminal(threads[h])
           /\ \A k \in DOMAIN threads' : ~Terminal(threads'[k])

\* A return drops one frame; with the last one the spawn is settled.
LEMMA LeaveThreads ==
    ASSUME Types, Running, NEW ret \in OptionValues, Leave(ret), UNCHANGED code
    PROVE  \/ UNCHANGED threadVars /\ (Running' \/ spawn = 0)
           \/ /\ spawn # 0 /\ spawn' = 0 /\ nextThread' = nextThread
              /\ threads' = Finished(spawn, "Completed", OrNull(ret), peak)
<1>. DEFINE rest == SubSeq(frames, 1, Depth - 1)
<1>1. CASE rest = << >>
  BY <1>1 DEF Leave, threadVars
<1>2. CASE rest # << >>
  <2>1. Depth \in Nat /\ Depth - 1 > 0
    <3>1. frames \in Seq(FrameSet) /\ Depth = Len(frames) /\ Depth \in Nat \ {0}
      BY TopType DEF Types, Depth
    <3>2. rest \in Seq(FrameSet) /\ Len(rest) = Depth - 1
      BY <3>1
    <3>. HIDE DEF rest
    <3>. QED BY <1>2, <3>1, <3>2
  <2>2. Depth' = Depth - 1
    BY LeaveStep
  <2>3. Running'
    BY <2>1, <2>2 DEF Depth, Running
  <2>. QED BY <1>2, <2>3 DEF Leave
<1>. HIDE DEF rest
<1>. QED BY <1>1, <1>2

\* Everything else the interpreter does leaves the threads alone, and a frame
\* on the stack.
LEMMA StepThreads ==
    ASSUME VmInv, VmStep
    PROVE  \/ UNCHANGED threadVars /\ (Running' \/ spawn = 0)
           \/ /\ spawn # 0 /\ spawn' = 0 /\ nextThread' = nextThread
              /\ \E ret, depth : threads' = Finished(spawn, "Completed", ret, depth)
<1>. USE DEF VmInv
<1>1. Running /\ frames \in Seq(FrameSet) /\ Len(frames) > 0 /\ lastReturn \in OptionValues
  BY StepCases, InstructionExecutes
     DEF CutsShort, BudgetOut, PauseOut, FallOff, Executing, Types, Running
<1>2. CASE CutsShort
  <2>1. code' = code /\ \E ret \in OptionValues : Leave(ret)
    BY <1>1, <1>2 DEF CutsShort, BudgetOut, PauseOut, FallOff, OptionValues
  <2>. QED BY <1>1, <2>1, LeaveThreads
<1>3. CASE Instruction
  <2>1. code' = code /\ HasInstr
    BY <1>3, InstructionExecutes DEF Executing
  <2>2. CASE Stays
    <3>1. \E reg, pc : Continue(reg, pc)
      BY <2>2 DEF Stays, Const, MoveResult, Goto, IfEqz, Builtin, Sput, SgetRead, InvokeRefused
    <3>2. frames' # << >>
      BY <1>1, <3>1 DEF Continue, AdvanceTo
    <3>. QED BY <3>1, <3>2 DEF Continue, Running
  <2>3. CASE SgetClinit \/ Invoke
    <3>1. /\ UNCHANGED threadVars
          /\ \E m, arg, why, field : Enter(m, arg, why, field)
      BY <2>3 DEF SgetClinit, Invoke, threadVars
    <3>2. frames' # << >>
      BY <1>1, <3>1 DEF Enter
    <3>. QED BY <3>1, <3>2 DEF Running
  <2>4. ASSUME NEW op, Return(op)
        PROVE  \E ret \in OptionValues : Leave(ret)
    <3>1. Returned \in OptionValues
      BY <1>1, TopType DEF Returned, FrameSet, OptionValues
    <3>. QED BY <2>4, <3>1 DEF Return
  <2>. QED BY <1>1, <1>3, <2>1, <2>2, <2>3, <2>4, LeaveThreads DEF Instruction
<1>. QED BY <1>2, <1>3, StepCases

\* Settling the running thread changes its record and no other.
LEMMA FinishedFreezes ==
    ASSUME ThreadsInv, spawn # 0, spawn' = 0, nextThread' = nextThread,
           NEW ret, NEW depth, threads' = Finished(spawn, "Completed", ret, depth)
    PROVE  ThreadsInv' /\ Frozen
<1>1. /\ DOMAIN threads' = DOMAIN threads
      /\ threads'[spawn] = Thread("Completed", ret, depth)
      /\ \A h \in DOMAIN threads : h # spawn => threads'[h] = threads[h]
  BY DEF Finished, ThreadsInv
<1>2. Terminal(threads'[spawn])
  BY <1>1 DEF Terminal, Thread
<1>3. ThreadsInv'
  BY <1>1, <1>2 DEF ThreadsInv
<1>4. Frozen
  BY <1>1 DEF Frozen, ThreadsInv
<1>. QED BY <1>3, <1>4

\* A thread is registered under a handle no other thread ever had.
LEMMA RegisteredFreezes ==
    ASSUME ThreadsInv, spawn = 0, NEW thread, threads' = Registered(thread),
           nextThread' = nextThread + 1,
           \/ Terminal(thread) /\ spawn' = 0
           \/ ~Terminal(thread) /\ spawn' = nextThread /\ Running'
    PROVE  ThreadsInv' /\ Frozen
<1>1. /\ DOMAIN threads' = DOMAIN threads \cup {nextThread}
      /\ threads'[nextThread] = thread
      /\ nextThread \notin DOMAIN threads
      /\ \A h \in DOMAIN threads : threads'[h] = threads[h]
  BY DEF Registered, ThreadsInv
<1>2. nextThread' \in Nat \ {0} /\ DOMAIN threads' \subseteq 1..(nextThread' - 1)
  BY <1>1 DEF ThreadsInv
<1>3. \A h \in DOMAIN threads' : ~Terminal(threads'[h]) <=> h = spawn'
  BY <1>1 DEF ThreadsInv
<1>. QED BY <1>1, <1>2, <1>3 DEF ThreadsInv, Frozen

LEMMA HostThreads ==
    ASSUME VmInv, ThreadsInv, HostStep
    PROVE  ThreadsInv' /\ Frozen
<1>1. ~Running /\ spawn = 0
  BY HostIdle DEF ThreadsInv
<1>2. ASSUME UNCHANGED threadVars PROVE ThreadsInv' /\ Frozen
  BY <1>1, <1>2 DEF threadVars, ThreadsInv, Frozen
<1>3. ASSUME NEW l \in Limits, ResetForCall(l) \/ SetInstrLimit(l)
      PROVE  UNCHANGED threadVars
  BY <1>3 DEF ResetForCall, SetInstrLimit
<1>4. ASSUME NEW m \in Entries, CallMethod(m) \/ CallRefused(m) PROVE UNCHANGED threadVars
  BY <1>4 DEF CallMethod, CallRefused
<1>5. ASSUME AttachDebugger \/ DetachDebugger \/ DebugCommand PROVE UNCHANGED threadVars
  BY <1>5 DEF AttachDebugger, DetachDebugger, DebugCommand, vmVars
<1>6. ASSUME NEW m \in Entries, SpawnMethod(m) PROVE ThreadsInv' /\ Frozen
  <2>1. Running'
    BY <1>6 DEF SpawnMethod, Running
  <2>2. ~Terminal(Thread("Running", None, 0))
    BY DEF Terminal, Thread
  <2>. QED BY <1>1, <1>6, <2>1, <2>2, RegisteredFreezes DEF SpawnMethod
<1>7. ASSUME NEW m \in Entries, SpawnRefused(m) PROVE ThreadsInv' /\ Frozen
  <2>1. \A v, d : Terminal(Thread("Completed", v, d)) /\ Terminal(Thread("Failed", v, d))
    BY DEF Terminal, Thread
  <2>. QED BY <1>1, <1>7, <2>1, RegisteredFreezes DEF SpawnRefused
<1>8. ASSUME ClearFinishedThreads PROVE ThreadsInv' /\ Frozen
  <2>1. /\ DOMAIN threads' = {h \in DOMAIN threads : ~Terminal(threads[h])}
        /\ \A h \in DOMAIN threads' : threads'[h] = threads[h]
        /\ nextThread' = nextThread /\ spawn' = spawn
    BY <1>8 DEF ClearFinishedThreads
  <2>. QED BY <1>1, <2>1 DEF ThreadsInv, Frozen
<1>. QED BY <1>2, <1>3, <1>4, <1>5, <1>6, <1>7, <1>8 DEF HostStep

LEMMA ThreadsStep ==
    ASSUME VmInv, ThreadsInv, [VmNext]_machineVars
    PROVE  ThreadsInv' /\ (Frozen \/ UNCHANGED machineVars)
<1>1. CASE VmStep
  <2>1. CASE UNCHANGED threadVars /\ (Running' \/ spawn = 0)
    BY <2>1 DEF threadVars, ThreadsInv, Frozen
  <2>. QED BY <1>1, <2>1, StepThreads, FinishedFreezes
<1>2. CASE HostStep
  BY <1>2, HostThreads
<1>3. CASE UNCHANGED machineVars
  BY <1>3 DEF machineVars, vmVars, runVars, threadVars, ThreadsInv, Running
<1>. QED BY <1>1, <1>2, <1>3 DEF VmNext

\* The record a finished thread leaves for the host is never overwritten by a
\* later spawn, call or cut, and a thread is dropped only after it has finished.
THEOREM FinishedThreadsStay == VmSpec => FinishedThreadsFrozen
<1>1. VmInit => ThreadsInv
  BY DEF VmInit, ThreadsInv
<1>2. VmInv /\ ThreadsInv /\ [VmNext]_machineVars => ThreadsInv'
  BY ThreadsStep
<1>3. VmInv /\ ThreadsInv /\ [VmNext]_machineVars =>
        [\A h \in DOMAIN threads :
            \/ h \in DOMAIN threads' /\ (Terminal(threads[h]) => threads'[h] = threads[h])
            \/ /\ h \notin DOMAIN threads' /\ Terminal(threads[h])
               /\ \A k \in DOMAIN threads' : ~Terminal(threads'[k])]_machineVars
  BY ThreadsStep DEF Frozen
<1>. QED BY <1>1, <1>2, <1>3, InvAlways, PTL DEF VmSpec, FinishedThreadsFrozen

-----------------------------------------------------------------------------
\* The lookup of methods by class and name.

\* The index holds the first class of each name that some file has, and the
\* cache what a search of the files gave when it was filled.
LookupInv ==
    /\ files \in Seq(Dexes)
    /\ DOMAIN classIndex = UNION {Norms(files[i]) : i \in DOMAIN files}
    /\ \A c \in DOMAIN classIndex :
          /\ classIndex[c][1] \in FirstIn({i \in DOMAIN files : c \in Norms(files[i])})
          /\ classIndex[c][2] = FirstOfNorm(files[classIndex[c][1]], c)
    /\ DOMAIN cachedAt = DOMAIN methodCache
    /\ \A key \in DOMAIN methodCache :
          /\ cachedAt[key] \in 0..Len(files)
          /\ methodCache[key] = BatchFinds(SubSeq(files, 1, cachedAt[key]), key[1], key[2])

-----------------------------------------------------------------------------
\* Where a loop stops.

LEMMA FirstExists ==
    ASSUME NEW S \in SUBSET Nat, S # {}
    PROVE  \E m \in S : FirstIn(S) = {m}
<1>1. PICK m \in S : \A k \in S : ~ (<<k, m>> \in OpToRel(<, Nat))
  BY NatLessThanWellFounded, WFMin
<1>2. \A k \in S : ~ (k < m)
  BY <1>1 DEF OpToRel
<1>3. \A k \in S : m <= k
  BY <1>2
<1>4. \A k \in FirstIn(S) : k = m
  BY <1>3 DEF FirstIn
<1>. QED BY <1>3, <1>4 DEF FirstIn

LEMMA FirstIsOne ==
    ASSUME NEW S \in SUBSET Nat, NEW m \in FirstIn(S)
    PROVE  m \in S /\ FirstIn(S) = {m}
<1>1. m \in S /\ \A k \in S : m <= k
  BY DEF FirstIn
<1>2. \A k \in FirstIn(S) : k = m
  BY <1>1 DEF FirstIn
<1>. QED BY <1>1, <1>2

LEMMA DexIsSeq ==
    ASSUME NEW dex \in Dexes
    PROVE  Len(dex) \in Nat /\ DOMAIN dex = 1..Len(dex) /\ DOMAIN dex \in SUBSET Nat
BY LookupConstantsOK

\* The first class of a name that a file has.
LEMMA FirstOfNormIs ==
    ASSUME NEW dex \in Dexes, NEW c \in Norms(dex)
    PROVE  /\ FirstOfNorm(dex, c) \in DOMAIN dex
           /\ Norm(dex[FirstOfNorm(dex, c)].type) = c
           /\ \A j \in DOMAIN dex : j < FirstOfNorm(dex, c) => Norm(dex[j].type) # c
<1>. DEFINE places == {k \in DOMAIN dex : Norm(dex[k].type) = c}
<1>1. places \in SUBSET Nat /\ places # {}
  BY DexIsSeq DEF Norms
<1>2. PICK m \in places : FirstIn(places) = {m}
  BY <1>1, FirstExists
<1>3. \A j \in 1..(m - 1) : Norm(dex[j].type) # c
  <2>1. TAKE j \in 1..(m - 1)
  <2>2. j \in DOMAIN dex /\ j < m
    BY DexIsSeq
  <2>. QED BY <1>2, <2>2, DexIsSeq DEF FirstIn
<1>4. /\ FirstOfNorm(dex, c) \in DOMAIN dex
      /\ Norm(dex[FirstOfNorm(dex, c)].type) = c
      /\ \A j \in 1..(FirstOfNorm(dex, c) - 1) : Norm(dex[j].type) # c
  BY <1>3 DEF FirstOfNorm
<1>. QED BY <1>4, DexIsSeq

-----------------------------------------------------------------------------
\* What a search of one file finds.

LEMMA FindsInDex ==
    ASSUME NEW dex \in Dexes, NEW c, NEW name
    PROVE  FindMethodInDex(dex, c, name) # {} <=> Having(dex, c, name) # {}
<1>1. ASSUME Having(dex, c, name) # {}
      PROVE  FindMethodInDex(dex, c, name) # {}
  <2>1. Having(dex, c, name) \in SUBSET Nat
    BY DexIsSeq DEF Having
  <2>2. PICK k \in Having(dex, c, name) : FirstIn(Having(dex, c, name)) = {k}
    BY <1>1, <2>1, FirstExists
  <2>3. FindMethodInDex(dex, c, name) = FirstNamed(dex[k], name)
    BY <2>2 DEF FindMethodInDex
  <2>. QED BY <2>3 DEF Having
<1>2. ASSUME FindMethodInDex(dex, c, name) # {}
      PROVE  Having(dex, c, name) # {}
  BY <1>2 DEF FindMethodInDex, FirstIn
<1>. QED BY <1>1, <1>2

\* If the first class of the name has the method, that is what is found.
LEMMA FirstClassAnswers ==
    ASSUME NEW dex \in Dexes, NEW c \in Norms(dex), NEW name,
           FirstNamed(dex[FirstOfNorm(dex, c)], name) # {}
    PROVE  FindMethodInDex(dex, c, name) = FirstNamed(dex[FirstOfNorm(dex, c)], name)
<1>. DEFINE k == FirstOfNorm(dex, c)
<1>1. k \in Having(dex, c, name)
  BY FirstOfNormIs DEF Having
<1>2. \A j \in Having(dex, c, name) : k <= j
  BY FirstOfNormIs, DexIsSeq DEF Having
<1>3. Having(dex, c, name) \in SUBSET Nat
  BY DexIsSeq DEF Having
<1>4. k \in FirstIn(Having(dex, c, name))
  BY <1>1, <1>2 DEF FirstIn
<1>5. FirstIn(Having(dex, c, name)) = {k}
  BY <1>3, <1>4, FirstIsOne
<1>. QED BY <1>5 DEF FindMethodInDex

\* In a file without twins the two hosts find the same.
LEMMA HostsAgreeInDex ==
    ASSUME NEW dex \in Dexes, NEW c, NEW name,
           \A j, k \in DOMAIN dex : Norm(dex[j].type) = Norm(dex[k].type) => j = k
    PROVE  FindMethodInDex(dex, c, name) = RunMethodInDex(dex, c, name)
<1>1. CASE c \notin Norms(dex)
  <2>1. Having(dex, c, name) = {}
    BY <1>1 DEF Having, Norms
  <2>. QED BY <1>1, <2>1, FindsInDex DEF RunMethodInDex
<1>2. CASE c \in Norms(dex) /\ FirstNamed(dex[FirstOfNorm(dex, c)], name) # {}
  BY <1>2, FirstClassAnswers DEF RunMethodInDex
<1>3. CASE c \in Norms(dex) /\ FirstNamed(dex[FirstOfNorm(dex, c)], name) = {}
  <2>1. Having(dex, c, name) = {}
    BY <1>3, FirstOfNormIs DEF Having
  <2>. QED BY <1>3, <2>1, FindsInDex DEF RunMethodInDex
<1>. QED BY <1>1, <1>2, <1>3

-----------------------------------------------------------------------------
\* What a search of the files finds, in the order in which they were added.

Hits(fs, c, name) == {i \in DOMAIN fs : FindMethodInDex(fs[i], c, name) # {}}

LEMMA FilesAreSeq ==
    ASSUME NEW fs \in Seq(Dexes)
    PROVE  /\ Len(fs) \in Nat /\ DOMAIN fs = 1..Len(fs) /\ DOMAIN fs \in SUBSET Nat
           /\ \A i \in DOMAIN fs : fs[i] \in Dexes
OBVIOUS

\* A search that stops at the place i finds what is there.
LEMMA FindsAt ==
    ASSUME NEW fs \in Seq(Dexes), NEW c, NEW name, NEW i \in FirstIn(Hits(fs, c, name))
    PROVE  BatchFinds(fs, c, name) = FindMethodInDex(fs[i], c, name)
<1>1. Hits(fs, c, name) \in SUBSET Nat
  BY FilesAreSeq DEF Hits
<1>2. FirstIn(Hits(fs, c, name)) = {i}
  BY <1>1, FirstIsOne
<1>. QED BY <1>2 DEF BatchFinds, Hits

\* A search that finds something stopped at some place.
LEMMA FoundSomewhere ==
    ASSUME NEW fs \in Seq(Dexes), NEW c, NEW name, BatchFinds(fs, c, name) # {}
    PROVE  \E i \in DOMAIN fs : i \in FirstIn(Hits(fs, c, name))
BY DEF BatchFinds, Hits, FirstIn

\* What was found is found for ever, whatever is added behind it.
LEMMA HitsStay ==
    ASSUME NEW fs \in Seq(Dexes), NEW n \in 0..Len(fs), NEW c, NEW name,
           BatchFinds(SubSeq(fs, 1, n), c, name) # {}
    PROVE  BatchFinds(fs, c, name) = BatchFinds(SubSeq(fs, 1, n), c, name)
<1>. DEFINE then == SubSeq(fs, 1, n)
<1>1. /\ then \in Seq(Dexes) /\ Len(then) = n
      /\ DOMAIN then = 1..n /\ \A i \in 1..n : then[i] = fs[i]
  BY FilesAreSeq
<1>2. DOMAIN fs = 1..Len(fs) /\ Len(fs) \in Nat
  BY FilesAreSeq
<1>. HIDE DEF then
<1>3. PICK i \in DOMAIN then : i \in FirstIn(Hits(then, c, name))
  BY <1>1, FoundSomewhere DEF then
<1>4. i \in 1..n /\ i \in Hits(then, c, name) /\ \A j \in Hits(then, c, name) : i <= j
  BY <1>1, <1>3 DEF FirstIn
<1>5. i \in DOMAIN fs /\ fs[i] = then[i]
  BY <1>1, <1>2, <1>4
<1>6. i \in Hits(fs, c, name)
  BY <1>4, <1>5 DEF Hits
<1>7. \A j \in Hits(fs, c, name) : i <= j
  <2>1. SUFFICES ASSUME NEW j \in Hits(fs, c, name) PROVE i <= j
    OBVIOUS
  <2>2. j \in 1..Len(fs)
    BY <1>2 DEF Hits
  <2>3. CASE j <= n
    <3>1. j \in 1..n /\ then[j] = fs[j]
      BY <1>1, <2>2, <2>3
    <3>2. j \in Hits(then, c, name)
      BY <1>1, <3>1 DEF Hits
    <3>. QED BY <1>4, <3>2
  <2>4. CASE ~ (j <= n)
    BY <1>4, <2>2, <2>4, <1>2
  <2>. QED BY <2>3, <2>4
<1>8. i \in FirstIn(Hits(fs, c, name))
  BY <1>6, <1>7 DEF FirstIn
<1>9. BatchFinds(fs, c, name) = FindMethodInDex(fs[i], c, name)
  BY <1>8, FindsAt
<1>10. BatchFinds(then, c, name) = FindMethodInDex(then[i], c, name)
  BY <1>1, <1>3, FindsAt
<1>. QED BY <1>5, <1>9, <1>10 DEF then

\* The two hosts agree on files without twins.
LEMMA HostsAgree ==
    ASSUME files \in Seq(Dexes), ~ Twins, NEW c, NEW name
    PROVE  BatchFinds(files, c, name) = RunMethodFinds(files, c, name)
<1>1. \A i \in DOMAIN files :
          FindMethodInDex(files[i], c, name) = RunMethodInDex(files[i], c, name)
  BY FilesAreSeq, HostsAgreeInDex DEF Twins
<1>2. Hits(files, c, name) = {i \in DOMAIN files : RunMethodInDex(files[i], c, name) # {}}
  BY <1>1 DEF Hits
<1>. QED BY <1>1, <1>2 DEF BatchFinds, RunMethodFinds, Hits, FirstIn

-----------------------------------------------------------------------------
\* The interpreter's scan is such a search.
LEMMA ScanSearches ==
    ASSUME files \in Seq(Dexes), NEW c, NEW name
    PROVE  Scanned(c, name) = BatchFinds(files, c, name)
<1>1. {i \in DOMAIN files : Having(files[i], c, name) # {}} = Hits(files, c, name)
  BY FilesAreSeq, FindsInDex DEF Hits
<1>2. Scanned(c, name)
        = UNION {UNION {FirstNamed(files[i][k], name) : k \in FirstIn(Having(files[i], c, name))} :
                    i \in FirstIn(Hits(files, c, name))}
  BY <1>1 DEF Scanned
<1>. QED BY <1>2 DEF BatchFinds, FindMethodInDex, Hits

\* What the index leads to is where such a search would stop; if the method is
\* not there, the scan is the search.
LEMMA IndexSearches ==
    ASSUME LookupInv, NEW c, NEW name
    PROVE  Resolved(c, name) = BatchFinds(files, c, name)
<1>. DEFINE at == classIndex[c]
<1>1. CASE /\ c \in DOMAIN classIndex
           /\ FirstNamed(files[at[1]][at[2]], name) # {}
  <2>. DEFINE i == at[1]
  <2>0. files \in Seq(Dexes)
    BY DEF LookupInv
  <2>1. i \in FirstIn({j \in DOMAIN files : c \in Norms(files[j])})
    BY <1>1 DEF LookupInv
  <2>2. at[2] = FirstOfNorm(files[i], c)
    BY <1>1 DEF LookupInv
  <2>3. /\ i \in DOMAIN files /\ c \in Norms(files[i])
        /\ \A j \in DOMAIN files : c \in Norms(files[j]) => i <= j
    BY <2>1 DEF FirstIn
  <2>4. files[i] \in Dexes
    BY <2>0, <2>3, FilesAreSeq
  <2>5. FirstNamed(files[i][FirstOfNorm(files[i], c)], name) # {}
    BY <1>1, <2>2
  <2>. HIDE DEF i
  <2>6. FindMethodInDex(files[i], c, name) = FirstNamed(files[i][FirstOfNorm(files[i], c)], name)
    BY <2>3, <2>4, <2>5, FirstClassAnswers
  <2>7. i \in Hits(files, c, name)
    BY <2>3, <2>5, <2>6 DEF Hits
  <2>8. \A j \in Hits(files, c, name) : i <= j
    <3>1. SUFFICES ASSUME NEW j \in Hits(files, c, name) PROVE i <= j
      OBVIOUS
    <3>2. j \in DOMAIN files /\ files[j] \in Dexes /\ FindMethodInDex(files[j], c, name) # {}
      BY <2>0, FilesAreSeq DEF Hits
    <3>3. Having(files[j], c, name) # {}
      BY <3>2, FindsInDex
    <3>4. c \in Norms(files[j])
      BY <3>3 DEF Having, Norms
    <3>. QED BY <2>3, <3>2, <3>4
  <2>9. i \in FirstIn(Hits(files, c, name))
    BY <2>7, <2>8 DEF FirstIn
  <2>10. BatchFinds(files, c, name) = FindMethodInDex(files[i], c, name)
    BY <2>0, <2>9, FindsAt
  <2>11. Resolved(c, name) = FirstNamed(files[at[1]][at[2]], name)
    BY <1>1 DEF Resolved
  <2>. QED BY <2>2, <2>6, <2>10, <2>11 DEF i
<1>2. CASE ~ (/\ c \in DOMAIN classIndex
              /\ FirstNamed(files[at[1]][at[2]], name) # {})
  <2>1. Resolved(c, name) = Scanned(c, name)
    BY <1>2 DEF Resolved
  <2>. QED BY <2>1, ScanSearches DEF LookupInv
<1>. QED BY <1>1, <1>2

-----------------------------------------------------------------------------
\* The invariant is kept.

LEMMA AppendKeeps ==
    ASSUME NEW fs \in Seq(Dexes), NEW dex \in Dexes
    PROVE  /\ Append(fs, dex) \in Seq(Dexes) /\ Len(Append(fs, dex)) = Len(fs) + 1
           /\ DOMAIN Append(fs, dex) = DOMAIN fs \cup {Len(fs) + 1}
           /\ \A i \in DOMAIN fs : Append(fs, dex)[i] = fs[i]
           /\ Append(fs, dex)[Len(fs) + 1] = dex
           /\ \A n \in 0..Len(fs) : SubSeq(Append(fs, dex), 1, n) = SubSeq(fs, 1, n)
<1>. DEFINE longer == Append(fs, dex)
<1>1. /\ longer \in Seq(Dexes) /\ Len(longer) = Len(fs) + 1 /\ Len(fs) \in Nat
      /\ longer[Len(fs) + 1] = dex
      /\ \A i \in 1..Len(fs) : longer[i] = fs[i]
  OBVIOUS
<1>2. DOMAIN longer = 1..(Len(fs) + 1) /\ DOMAIN fs = 1..Len(fs)
  BY <1>1
<1>3. ASSUME NEW n \in 0..Len(fs)
      PROVE  SubSeq(longer, 1, n) = SubSeq(fs, 1, n)
  <2>. HIDE DEF longer
  <2>1. /\ SubSeq(longer, 1, n) = [i \in 1..n |-> longer[i]]
        /\ SubSeq(fs, 1, n) = [i \in 1..n |-> fs[i]]
    BY <1>1
  <2>2. \A i \in 1..n : longer[i] = fs[i]
    BY <1>1
  <2>. QED BY <2>1, <2>2
<1>. HIDE DEF longer
<1>4. DOMAIN longer = DOMAIN fs \cup {Len(fs) + 1}
  BY <1>1, <1>2
<1>. QED BY <1>1, <1>2, <1>3, <1>4 DEF longer

\* or_insert: the classes that the index has already keep their place.
LEMMA AddKeepsLookupInv ==
    ASSUME LookupInv, NEW dex \in Dexes, AddDexFile(dex)
    PROVE  LookupInv'
<1>. DEFINE n == Len(files) + 1
<1>1. /\ files \in Seq(Dexes) /\ files' = Append(files, dex)
      /\ classIndex' = Indexed(classIndex, dex, n)
      /\ methodCache' = methodCache /\ cachedAt' = cachedAt
      /\ DOMAIN classIndex = UNION {Norms(files[i]) : i \in DOMAIN files}
      /\ \A c \in DOMAIN classIndex :
            /\ classIndex[c][1] \in FirstIn({i \in DOMAIN files : c \in Norms(files[i])})
            /\ classIndex[c][2] = FirstOfNorm(files[classIndex[c][1]], c)
  BY DEF LookupInv, AddDexFile
<1>2. /\ files' \in Seq(Dexes) /\ DOMAIN files' = DOMAIN files \cup {n} /\ files'[n] = dex
      /\ \A i \in DOMAIN files : files'[i] = files[i]
      /\ DOMAIN files = 1..Len(files) /\ Len(files) \in Nat /\ Len(files') = n
  BY <1>1, AppendKeeps, FilesAreSeq
<1>3. DOMAIN classIndex' = DOMAIN classIndex \cup Norms(dex)
  BY <1>1 DEF Indexed
<1>4. DOMAIN classIndex' = UNION {Norms(files'[i]) : i \in DOMAIN files'}
  <2>1. SUFFICES ASSUME NEW c
        PROVE  c \in DOMAIN classIndex' <=> \E i \in DOMAIN files' : c \in Norms(files'[i])
    OBVIOUS
  <2>2. c \in DOMAIN classIndex <=> \E i \in DOMAIN files : c \in Norms(files[i])
    BY <1>1
  <2>3. (\E i \in DOMAIN files' : c \in Norms(files'[i]))
          <=> (\E i \in DOMAIN files : c \in Norms(files[i])) \/ c \in Norms(dex)
    BY <1>2
  <2>. QED BY <1>3, <2>2, <2>3
<1>5. ASSUME NEW c \in DOMAIN classIndex'
      PROVE  /\ classIndex'[c][1] \in FirstIn({i \in DOMAIN files' : c \in Norms(files'[i])})
             /\ classIndex'[c][2] = FirstOfNorm(files'[classIndex'[c][1]], c)
  <2>1. CASE c \in DOMAIN classIndex
    <3>. DEFINE i == classIndex[c][1]
    <3>1. classIndex'[c] = classIndex[c]
      BY <1>1, <1>3, <2>1 DEF Indexed
    <3>2. /\ i \in DOMAIN files /\ c \in Norms(files[i])
          /\ \A j \in DOMAIN files : c \in Norms(files[j]) => i <= j
          /\ classIndex[c][2] = FirstOfNorm(files[i], c)
      BY <1>1, <2>1 DEF FirstIn
    <3>. HIDE DEF i
    <3>3. i <= n
      BY <1>2, <3>2
    <3>4. /\ i \in DOMAIN files' /\ c \in Norms(files'[i])
          /\ \A j \in DOMAIN files' : c \in Norms(files'[j]) => i <= j
      BY <1>2, <3>2, <3>3
    <3>5. i \in FirstIn({j \in DOMAIN files' : c \in Norms(files'[j])})
      BY <3>4 DEF FirstIn
    <3>6. classIndex'[c][2] = FirstOfNorm(files'[i], c)
      BY <1>2, <3>1, <3>2
    <3>. QED BY <3>1, <3>5, <3>6 DEF i
  <2>2. CASE c \notin DOMAIN classIndex
    <3>1. c \in Norms(dex)
      BY <1>3, <2>2
    <3>2. classIndex'[c] = <<n, FirstOfNorm(dex, c)>>
      BY <1>1, <1>3, <2>2 DEF Indexed
    <3>3. \A j \in DOMAIN files : c \notin Norms(files[j])
      BY <1>1, <2>2
    <3>4. \A j \in DOMAIN files' : c \in Norms(files'[j]) => j = n
      BY <1>2, <3>3
    <3>5. n \in FirstIn({j \in DOMAIN files' : c \in Norms(files'[j])})
      BY <1>2, <3>1, <3>4 DEF FirstIn
    <3>6. classIndex'[c][1] = n /\ classIndex'[c][2] = FirstOfNorm(dex, c)
      BY <3>2
    <3>. QED BY <1>2, <3>5, <3>6
  <2>. QED BY <2>1, <2>2
<1>6. DOMAIN cachedAt' = DOMAIN methodCache'
  BY <1>1 DEF LookupInv
<1>7. ASSUME NEW key \in DOMAIN methodCache'
      PROVE  /\ cachedAt'[key] \in 0..Len(files')
             /\ methodCache'[key] = BatchFinds(SubSeq(files', 1, cachedAt'[key]), key[1], key[2])
  <2>1. /\ cachedAt[key] \in 0..Len(files)
        /\ methodCache[key] = BatchFinds(SubSeq(files, 1, cachedAt[key]), key[1], key[2])
    BY <1>1, <1>7 DEF LookupInv
  <2>2. SubSeq(files', 1, cachedAt[key]) = SubSeq(files, 1, cachedAt[key])
    BY <1>1, <2>1, AppendKeeps
  <2>3. cachedAt'[key] \in 0..Len(files')
    BY <1>1, <1>2, <2>1
  <2>. QED BY <1>1, <2>1, <2>2, <2>3
<1>. QED BY <1>2, <1>4, <1>5, <1>6, <1>7 DEF LookupInv

\* The answer that is cached is what a search of the files finds now.
LEMMA FindKeepsLookupInv ==
    ASSUME LookupInv, NEW t \in AskedTypes, NEW name \in AskedNames,
           FindAndCloneMethod(t, name)
    PROVE  LookupInv'
<1>. DEFINE key == <<Norm(t), name>>
<1>1. /\ files' = files /\ classIndex' = classIndex /\ files \in Seq(Dexes)
      /\ methodCache' = [k \in DOMAIN methodCache \cup {key} |->
                            IF k = key THEN Resolved(Norm(t), name) ELSE methodCache[k]]
      /\ cachedAt' = [k \in DOMAIN cachedAt \cup {key} |->
                         IF k = key THEN Len(files) ELSE cachedAt[k]]
      /\ DOMAIN cachedAt = DOMAIN methodCache
  BY DEF FindAndCloneMethod, LookupInv
<1>2. /\ key[1] = Norm(t) /\ key[2] = name
      /\ SubSeq(files, 1, Len(files)) = files /\ Len(files) \in 0..Len(files)
  BY <1>1, FilesAreSeq
<1>3. Resolved(Norm(t), name) = BatchFinds(files, Norm(t), name)
  BY IndexSearches
<1>. HIDE DEF key
<1>4. ASSUME NEW k \in DOMAIN methodCache'
      PROVE  /\ cachedAt'[k] \in 0..Len(files')
             /\ methodCache'[k] = BatchFinds(SubSeq(files', 1, cachedAt'[k]), k[1], k[2])
  <2>1. CASE k = key
    BY <1>1, <1>2, <1>3, <2>1
  <2>2. CASE k # key
    <3>1. k \in DOMAIN methodCache /\ methodCache'[k] = methodCache[k] /\ cachedAt'[k] = cachedAt[k]
      BY <1>1, <2>2
    <3>. QED BY <1>1, <3>1 DEF LookupInv
  <2>. QED BY <2>1, <2>2
<1>5. DOMAIN cachedAt' = DOMAIN methodCache'
  BY <1>1
<1>6. /\ files' \in Seq(Dexes)
      /\ DOMAIN classIndex' = UNION {Norms(files'[i]) : i \in DOMAIN files'}
      /\ \A c \in DOMAIN classIndex' :
            /\ classIndex'[c][1] \in FirstIn({i \in DOMAIN files' : c \in Norms(files'[i])})
            /\ classIndex'[c][2] = FirstOfNorm(files'[classIndex'[c][1]], c)
  <2>1. /\ DOMAIN classIndex = UNION {Norms(files[i]) : i \in DOMAIN files}
        /\ \A c \in DOMAIN classIndex :
              /\ classIndex[c][1] \in FirstIn({i \in DOMAIN files : c \in Norms(files[i])})
              /\ classIndex[c][2] = FirstOfNorm(files[classIndex[c][1]], c)
    BY Zenon DEF LookupInv
  <2>2. files' = files /\ classIndex' = classIndex /\ files \in Seq(Dexes)
    BY <1>1
  <2>. QED BY <2>1, <2>2, ZenonT(60)
<1>. QED BY <1>4, <1>5, <1>6 DEF LookupInv

\* The inductive invariant of the index and the cache: the first class of each
\* name is the one indexed, and a cached answer is what the files gave then.
THEOREM LookupInvAlways == LookupSpec => []LookupInv
<1>1. LookupInit => LookupInv
  <2>1. SUFFICES ASSUME LookupInit PROVE LookupInv
    OBVIOUS
  <2>2. /\ files = << >> /\ DOMAIN files = {} /\ DOMAIN classIndex = {}
        /\ DOMAIN methodCache = {} /\ DOMAIN cachedAt = {}
    BY <2>1 DEF LookupInit
  <2>3. files \in Seq(Dexes)
    BY <2>2
  <2>. QED BY <2>2, <2>3 DEF LookupInv
<1>2. LookupInv /\ [LookupNext]_lookupVars => LookupInv'
  <2>1. ASSUME LookupInv, LookupNext PROVE LookupInv'
    BY <2>1, AddKeepsLookupInv, FindKeepsLookupInv DEF LookupNext
  <2>2. ASSUME LookupInv, UNCHANGED lookupVars PROVE LookupInv'
    <3>1. /\ files' = files /\ classIndex' = classIndex
          /\ methodCache' = methodCache /\ cachedAt' = cachedAt
      BY <2>2 DEF lookupVars
    <3>2. /\ files \in Seq(Dexes)
          /\ DOMAIN classIndex = UNION {Norms(files[i]) : i \in DOMAIN files}
          /\ DOMAIN cachedAt = DOMAIN methodCache
      BY <2>2, Zenon DEF LookupInv
    <3>3. \A c \in DOMAIN classIndex :
            /\ classIndex[c][1] \in FirstIn({i \in DOMAIN files : c \in Norms(files[i])})
            /\ classIndex[c][2] = FirstOfNorm(files[classIndex[c][1]], c)
      BY <2>2, Zenon DEF LookupInv
    <3>4. \A key \in DOMAIN methodCache :
            /\ cachedAt[key] \in 0..Len(files)
            /\ methodCache[key] = BatchFinds(SubSeq(files, 1, cachedAt[key]), key[1], key[2])
      BY <2>2, Zenon DEF LookupInv
    <3>5. /\ files' \in Seq(Dexes)
          /\ DOMAIN classIndex' = UNION {Norms(files'[i]) : i \in DOMAIN files'}
          /\ DOMAIN cachedAt' = DOMAIN methodCache'
      BY <3>1, <3>2
    <3>6. \A c \in DOMAIN classIndex' :
            /\ classIndex'[c][1] \in FirstIn({i \in DOMAIN files' : c \in Norms(files'[i])})
            /\ classIndex'[c][2] = FirstOfNorm(files'[classIndex'[c][1]], c)
      BY <3>1, <3>3, Zenon
    <3>7. \A key \in DOMAIN methodCache' :
            /\ cachedAt'[key] \in 0..Len(files')
            /\ methodCache'[key]
                  = BatchFinds(SubSeq(files', 1, cachedAt'[key]), key[1], key[2])
      BY <3>1, <3>4, Zenon
    <3>. QED BY <3>5, <3>6, <3>7 DEF LookupInv
  <2>. QED BY <2>1, <2>2
<1>. QED BY <1>1, <1>2, PTL DEF LookupSpec

\* CallsReachHostsMethod always holds: a call inside the program reaches the
\* method that a host would run, a hit for ever and a miss for the files that
\* were there; the two hosts agree unless a file has twins.
THEOREM CallsReachIt == LookupSpec => []CallsReachHostsMethod
<1>1. LookupInv => CallsReachHostsMethod
  <2>1. SUFFICES ASSUME LookupInv, NEW key \in DOMAIN methodCache
        PROVE  LET then == SubSeq(files, 1, cachedAt[key])
                   c == key[1]
                   name == key[2]
               IN  /\ methodCache[key] = BatchFinds(then, c, name)
                   /\ methodCache[key] # {} => methodCache[key] = BatchFinds(files, c, name)
                   /\ ~Twins => BatchFinds(files, c, name) = RunMethodFinds(files, c, name)
    BY DEF CallsReachHostsMethod
  <2>2. /\ files \in Seq(Dexes) /\ cachedAt[key] \in 0..Len(files)
        /\ methodCache[key] = BatchFinds(SubSeq(files, 1, cachedAt[key]), key[1], key[2])
    BY <2>1 DEF LookupInv
  <2>3. methodCache[key] # {} => methodCache[key] = BatchFinds(files, key[1], key[2])
    BY <2>2, HitsStay
  <2>4. ~Twins => BatchFinds(files, key[1], key[2]) = RunMethodFinds(files, key[1], key[2])
    BY <2>2, HostsAgree
  <2>. QED BY <2>2, <2>3, <2>4
<1>. QED BY <1>1, LookupInvAlways, PTL
=============================================================================

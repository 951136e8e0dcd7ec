------------------------------- MODULE Taint --------------------------------
(***************************************************************************)
(* taint.rs, one method: the linear pass that says which sources may flow  *)
(* into which sinks, and the overrides that the user puts on the methods   *)
(* it calls and on its own parameters.                                     *)
(*                                                                         *)
(* Opcodes are grouped by what they do to the taint of registers.  Labels  *)
(* are left out: a source is where it comes from.  A list of sources is    *)
(* the set of its members, for only their presence is ever asked.          *)
(***************************************************************************)
EXTENDS Naturals, Sequences, FiniteSets

CONSTANTS
    Registers,    \* registers
    TaintMethods, \* [code, params]: method bodies, and their parameter registers
    Callees,      \* methods that are called
    SourceApis,   \* those whose result classify_source_api takes for a source
    SinkApis,     \* those classify_sink takes for a sink
    OverrideMaps  \* what the user may override

OverrideKinds == {"ReturnTainted", "ReturnClean", "ConstantValue",
                  "ParamTainted", "ParamClean"}

\* The operands that an instruction has: registers, but for what it calls and
\* where it jumps.
Decoded(I) ==
    /\ I.op \in {"copy", "clear", "union", "move-result", "aput", "iput", "sput", "return",
                 "new-array"} => I.a \in Registers
    /\ I.op \in {"copy", "union", "aput", "iput"} => I.b \in Registers
    /\ I.op = "union" => I.c \in Registers
    /\ I.op = "invoke" => I.callee \in Callees /\ I.args \in Seq(Registers) /\ I.direct \in BOOLEAN
    /\ I.op \in {"if", "goto"} => I.to \in Nat

ASSUME TaintConstantsOK ==
    /\ SourceApis \cup SinkApis \subseteq Callees
    /\ "result" \notin Registers
    /\ \A m \in TaintMethods :
          /\ m.params \in Seq(Registers)
          /\ m.code \in Seq({m.code[i] : i \in DOMAIN m.code})
          /\ \A i \in DOMAIN m.code : Decoded(m.code[i])
    /\ \A o \in OverrideMaps : o \in [Callees \cup {"self"} -> Seq([kind : OverrideKinds, index : Nat])]

VARIABLES
    analysed,     \* the method under analysis, and its overrides
    overrides,
    at,           \* the instruction the pass has come to
    reg_taint,    \* sources of each register
    last_invoke,  \* sources of the latest call's result
    sinks,        \* sinks reached: where, which arguments, which sources
    fields,       \* tainted field writes: where, which sources
    returned      \* sources of the return value

taintVars == <<analysed, overrides, at, reg_taint, last_invoke, sinks, fields, returned>>

Source(kind, of, where) == [kind |-> kind, of |-> of, at |-> where]

-----------------------------------------------------------------------------
\* The override of one of the kinds that counts: the last one on the list.
Effective(list, kinds) ==
    LET matching == SelectSeq(list, LAMBDA o : o.kind \in kinds)
    IN IF matching = <<>> THEN "none" ELSE matching[Len(matching)].kind

ReturnOverride(o, callee) ==
    Effective(o[callee], {"ReturnTainted", "ReturnClean", "ConstantValue"})

ParamOverride(o, i) ==
    Effective(SelectSeq(o["self"], LAMBDA x : x.index = i), {"ParamTainted", "ParamClean"})

\* Every parameter is a source, but for what the overrides say.
Seeded(m, o) ==
    [r \in Registers |->
        UNION {CASE ParamOverride(o, i) = "ParamClean"   -> {}
                 [] ParamOverride(o, i) = "ParamTainted" -> {Source("override", "self", i)}
                 [] OTHER                                -> {Source("param", "self", i)} :
               i \in {j \in DOMAIN m.params : m.params[j] = r}}]

TaintInit ==
    /\ analysed \in TaintMethods
    /\ overrides \in OverrideMaps
    /\ at = 1
    /\ reg_taint = Seeded(analysed, overrides)
    /\ last_invoke = {}
    /\ sinks = {}
    /\ fields = {}
    /\ returned = {}

Code == analysed.code
Current == Code[at]
Is(ops) == at \in DOMAIN Code /\ Current.op \in ops

\* The pass goes to the next instruction, whatever this one does.
Onward == at' = at + 1 /\ UNCHANGED <<analysed, overrides>>

SetTaint(r, sources) ==
    /\ reg_taint' = [reg_taint EXCEPT ![r] = sources]
    /\ UNCHANGED <<last_invoke, sinks, fields, returned>>

-----------------------------------------------------------------------------
\* move, array-length, aget, iget, unary operations, operations with a literal.
Copy ==
    /\ Is({"copy"})
    /\ SetTaint(Current.a, reg_taint[Current.b])
    /\ Onward

\* const, new-instance, sget, instance-of.
Clear ==
    /\ Is({"clear"})
    /\ SetTaint(Current.a, {})
    /\ Onward

\* Binary operations, also the two-address ones, and comparisons.
Union ==
    /\ Is({"union"})
    /\ SetTaint(Current.a, reg_taint[Current.b] \cup reg_taint[Current.c])
    /\ Onward

\* move-result, and move-exception.
TakeResult ==
    /\ Is({"move-result"})
    /\ SetTaint(Current.a, last_invoke)
    /\ Onward

\* Mutant of Stored: the array has what was stored last.
StoredOnly(r, into) == reg_taint[r]

\* What an object or array holds after the value of a register went into it.
Stored(r, into) == reg_taint[into] \cup reg_taint[r]

StoreElement ==
    /\ Is({"aput"})
    /\ SetTaint(Current.b, Stored(Current.a, Current.b))
    /\ Onward

\* iput and sput: the write is reported; iput also taints the object.
FieldWrite ==
    /\ Is({"iput", "sput"})
    /\ fields' = IF reg_taint[Current.a] = {} THEN fields
                 ELSE fields \cup {[at |-> at, sources |-> reg_taint[Current.a]]}
    /\ reg_taint' = IF Current.op = "iput"
                    THEN [reg_taint EXCEPT ![Current.b] = Stored(Current.a, Current.b)]
                    ELSE reg_taint
    /\ UNCHANGED <<last_invoke, sinks, returned>>
    /\ Onward

TaintedArgs == {i \in DOMAIN Current.args : reg_taint[Current.args[i]] # {}}
ArgSources == UNION {reg_taint[Current.args[i]] : i \in DOMAIN Current.args}

\* Mutant of ResultSources: a source takes priority over the user's overrides.
ResultSourcesApiFirst(callee) ==
    LET outcome == ReturnOverride(overrides, callee) IN
    CASE callee \in SourceApis               -> {Source("api", callee, at)}
      [] outcome = "ReturnTainted"           -> {Source("override", callee, at)}
      [] outcome # "none"                    -> {}
      [] OTHER                               -> ArgSources

\* The user's override, else a fresh source, else what the arguments carry.
ResultSources(callee) ==
    LET outcome == ReturnOverride(overrides, callee) IN
    CASE outcome = "ReturnTainted"                  -> {Source("override", callee, at)}
      [] outcome = "none" /\ callee \in SourceApis -> {Source("api", callee, at)}
      [] outcome = "none" /\ callee \notin SourceApis -> ArgSources
      [] OTHER                                      -> {}

\* A constructor or a private void method (direct) may keep its arguments.
Invoke ==
    /\ Is({"invoke"})
    /\ last_invoke' = ResultSources(Current.callee)
    /\ sinks' = IF Current.callee \in SinkApis /\ TaintedArgs # {}
                THEN sinks \cup {[at |-> at, args |-> TaintedArgs, sources |-> ArgSources]}
                ELSE sinks
    /\ reg_taint' = IF Current.direct /\ Current.args # <<>>
                    THEN [reg_taint EXCEPT ![Current.args[1]] = @ \cup ArgSources]
                    ELSE reg_taint
    /\ UNCHANGED <<fields, returned>>
    /\ Onward

\* The last return with a taint is the one that is reported.
ReportReturn ==
    /\ Is({"return"})
    /\ returned' = IF reg_taint[Current.a] = {} THEN returned ELSE reg_taint[Current.a]
    /\ UNCHANGED <<reg_taint, last_invoke, sinks, fields>>
    /\ Onward

\* Jumps, throw, monitors, casts, and the instructions of kind Array: new-array
\* and filled-new-array have an arm, under ArrayOp, which they are not decoded to.
NoEffect ==
    /\ Is({"if", "goto", "throw", "new-array", "filled-new-array"})
    /\ UNCHANGED <<reg_taint, last_invoke, sinks, fields, returned>>
    /\ Onward

TaintNext ==
    \/ Copy \/ Clear \/ Union \/ TakeResult \/ StoreElement \/ FieldWrite
    \/ Invoke \/ ReportReturn \/ NoEffect

TaintSpec == TaintInit /\ [][TaintNext]_taintVars

-----------------------------------------------------------------------------
(***************************************************************************)
(* What flows where, path by path: a source is in a cell (a register or    *)
(* the latest result) ahead of an instruction if a path leads there on     *)
(* which every instruction passes it on.  For methods that jump forward.   *)
(* The flows without some opcodes are those of a program in which these do *)
(* nothing: without ArrayOps they are the ones the pass has arms for.      *)
(***************************************************************************)
ArrayOps == {"new-array", "filled-new-array"}

Cells == Registers \cup {"result"}

FlowTargets(m, i) ==
    LET I == m.code[i]
    IN  CASE I.op = "if"                  -> {i + 1, I.to}
          [] I.op = "goto"                -> {I.to}
          [] I.op \in {"return", "throw"} -> {}
          [] OTHER                        -> {i + 1}

Keep(overwritten) == {<<c, c>> : c \in Cells \ overwritten}

\* The cells an instruction reads and writes: <<from, to>>.
Passes(without, I, o) ==
    LET Args == {I.args[k] : k \in DOMAIN I.args}
    IN IF I.op \in without THEN Keep({}) ELSE
       CASE I.op = "copy"        -> Keep({I.a}) \cup {<<I.b, I.a>>}
         [] I.op \in {"clear", "new-array"} -> Keep({I.a})
         [] I.op = "union"       -> Keep({I.a}) \cup {<<I.b, I.a>>, <<I.c, I.a>>}
         [] I.op = "move-result" -> Keep({I.a}) \cup {<<"result", I.a>>}
         [] I.op \in {"aput", "iput"} -> Keep({}) \cup {<<I.a, I.b>>}
         [] I.op = "filled-new-array" ->
              Keep({"result"}) \cup {<<r, "result">> : r \in Args}
         [] I.op = "invoke" ->
              Keep({"result"})
                \cup (IF ReturnOverride(o, I.callee) = "none" /\ I.callee \notin SourceApis
                      THEN {<<r, "result">> : r \in Args} ELSE {})
                \cup (IF I.direct THEN {<<r, I.args[1]>> : r \in Args} ELSE {})
         [] OTHER -> Keep({})

\* The sources an instruction makes: <<cell, source>>.
Makes(I, o, i) ==
    IF I.op # "invoke" THEN {}
    ELSE CASE ReturnOverride(o, I.callee) = "ReturnTainted" ->
                  {<<"result", Source("override", I.callee, i)>>}
           [] ReturnOverride(o, I.callee) = "none" /\ I.callee \in SourceApis ->
                  {<<"result", Source("api", I.callee, i)>>}
           [] OTHER -> {}

FlowAfter(without, m, o, i, before) ==
    Makes(m.code[i], o, i)
      \cup UNION {{<<p[2], f[2]>> : f \in {g \in before : g[1] = p[1]}} :
                    p \in Passes(without, m.code[i], o)}

\* Seeds of the first instruction; every other one gets what its predecessors pass on.
FlowBefore(without, m, o) ==
    LET Before[i \in 1..Len(m.code) + 1] ==
          IF i = 1
          THEN UNION {{<<r, s>> : s \in Seeded(m, o)[r]} : r \in Registers}
          ELSE UNION {FlowAfter(without, m, o, j, Before[j]) :
                        j \in {k \in 1..i - 1 : i \in FlowTargets(m, k)}}
    IN Before

SourcesIn(flows, c) == {f[2] : f \in {g \in flows : g[1] = c}}
Flows(without, i, r) == SourcesIn(FlowBefore(without, analysed, overrides)[i], r)
ArgFlows(without, i) == UNION {Flows(without, i, Code[i].args[k]) : k \in DOMAIN Code[i].args}

Calls(apis) == {i \in DOMAIN Code : Code[i].op = "invoke" /\ Code[i].callee \in apis}
Writes == {i \in DOMAIN Code : Code[i].op \in {"iput", "sput"}}
Returns == {i \in DOMAIN Code : Code[i].op = "return"}

TaintDone == at > Len(Code)
OnlyForward == \A i \in DOMAIN Code : Code[i].op \in {"if", "goto"} => Code[i].to > i
Straight == \A i \in 1..Len(Code) - 1 : FlowTargets(analysed, i) = {i + 1}

\* Jumped over by some branch.
Skippable(k) ==
    \E i \in 1..k - 1 : Code[i].op \in {"if", "goto"} /\ Code[i].to > k

\* A source in a cell stays there.
OnlyAdds(i) == Keep({}) \subseteq Passes(ArrayOps, Code[i], overrides)

\* The pass reports at least what flows.
Covers(without) ==
    /\ \A i \in Calls(SinkApis) : ArgFlows(without, i) # {} =>
          \E s \in sinks : s.at = i /\ ArgFlows(without, i) \subseteq s.sources
    /\ \A i \in Writes : Flows(without, i, Code[i].a) # {} =>
          \E f \in fields : f.at = i /\ Flows(without, i, Code[i].a) \subseteq f.sources
    /\ (\E i \in Returns : Flows(without, i, Code[i].a) # {}) => returned # {}

-----------------------------------------------------------------------------
\* On a method without branches the report is exact, whatever is overridden: the
\* sinks with the arguments and sources that flow into them, the field writes and
\* the return value, for the flows in which new-array and filled-new-array do
\* nothing.  Of a method that has neither these are all the flows.  On one that has
\* them the report is wrong by as much: taint.rs:363-367 means to handle both, in
\* an arm that they do not reach, so a new array keeps the taint of the register it
\* overwrites and a filled one has none of its elements'.
StraightLineExact ==
    TaintDone /\ Straight =>
        /\ sinks = {[at |-> i, sources |-> ArgFlows(ArrayOps, i),
                     args |-> {k \in DOMAIN Code[i].args :
                                 Flows(ArrayOps, i, Code[i].args[k]) # {}}] :
                      i \in {j \in Calls(SinkApis) : ArgFlows(ArrayOps, j) # {}}}
        /\ fields = {[at |-> i, sources |-> Flows(ArrayOps, i, Code[i].a)] :
                      i \in {j \in Writes : Flows(ArrayOps, j, Code[j].a) # {}}}
        /\ returned = UNION {Flows(ArrayOps, i, Code[i].a) : i \in Returns}

\* With branches forward nothing of these flows is missed if no instruction that a
\* branch can skip overwrites a register or the latest result: it may only store,
\* jump or return.  A move, a constant or a call there is enough to lose some.
SkippedOnlyAdds ==
    TaintDone /\ OnlyForward /\ (\A k \in DOMAIN Code : Skippable(k) => OnlyAdds(k))
        => Covers(ArrayOps)

\* taint.rs:4: "This is sound for acyclic paths".  Nothing that flows along a path
\* of a method that jumps forward is missed.
SoundForAcyclicPaths == TaintDone /\ OnlyForward => Covers({})
=============================================================================

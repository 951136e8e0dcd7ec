------------------------------ MODULE Opcodes -------------------------------
(***************************************************************************)
(* What one Dalvik instruction does to registers, arrays and fields: the   *)
(* inline match of vm.rs (the default) and the modules of opcodes/ ("faith-*)
(* ful mode", a port of the Python interpreter).  A behaviour runs a short *)
(* straight-line program; calls, budgets and initialisers are module Vm's. *)
(*                                                                         *)
(* Widths are parameters, so that every carry, sign and mask of the 8, 16, *)
(* 24, 32 and 64 bits of the code is met on a few bits.                    *)
(***************************************************************************)
EXTENDS Integers, Sequences, FiniteSets

CONSTANTS
    ByteBits, ShortBits, BackBits,  \* 8, 16, and the 24 of the shift masks
    IntBits,                        \* 32; a register holds twice as many bits
    MaxArray,                       \* MAX_ARRAY, 2^20 elements
    Cases                           \* programs with the state they start on

LongBits == 2 * IntBits

ASSUME OpcodesConstantsOK ==
    /\ {ByteBits, ShortBits, BackBits, IntBits, MaxArray} \subseteq Nat \ {0}
    /\ ByteBits < ShortBits /\ ShortBits < IntBits /\ BackBits < IntBits
    /\ \E k \in 1..IntBits : IntBits = 2 ^ k
    /\ IntBits % ByteBits = 0
    /\ MaxArray < 2 ^ (LongBits - 1)

VARIABLES
    faithful,    \* Vm::faithful_mode
    program,     \* the whole program, its head is the instruction that comes next
    regs,        \* Registers: a slot is a value or None
    arrays,      \* the vectors behind the handles of Value::Array
    statics,     \* Memory::static_fields
    instances,   \* Memory::instance_fields, of faithful mode
    lastReturn,  \* Memory::last_return
    exception,   \* Memory::last_exception
    outcome,     \* InstrResult of the last instruction
    before,      \* (history) the registers the last instruction started on
    done         \* (history) the instructions executed

fieldMaps == <<statics, instances>>
results == <<lastReturn, exception>>
memory == <<arrays, fieldMaps, results>>
opVars == <<faithful, program, regs, memory, outcome, before, done>>

-----------------------------------------------------------------------------
(* Machine integers.                                                       *)

Unsigned(bits, x) == x % 2 ^ bits
Signed(bits, x) ==
    LET u == Unsigned(bits, x) IN IF u >= 2 ^ (bits - 1) THEN u - 2 ^ bits ELSE u

Long(x) == Signed(LongBits, x)
MinLong == -(2 ^ (LongBits - 1))

\* The number of some digits, the least significant one first.
Number(base, digits) ==
    LET upTo[n \in 0..Len(digits)] ==
            IF n = 0 THEN 0 ELSE upTo[n - 1] + base ^ (n - 1) * digits[n]
    IN  upTo[Len(digits)]

\* The n-th bit, from 1, of x in two's complement.
Bit(x, n) == (x \div 2 ^ (n - 1)) % 2
FromBits(bits) == Long(Number(2, bits))
BitAnd(x, y) == FromBits([n \in 1..LongBits |-> Bit(x, n) * Bit(y, n)])
BitOr(x, y) == FromBits([n \in 1..LongBits |-> IF Bit(x, n) + Bit(y, n) = 0 THEN 0 ELSE 1])
BitXor(x, y) == FromBits([n \in 1..LongBits |-> (Bit(x, n) + Bit(y, n)) % 2])

\* Rust's / and %: towards zero, the remainder with the sign of the dividend.
Abs(x) == IF x < 0 THEN -x ELSE x
TruncDiv(x, y) ==
    LET q == Abs(x) \div Abs(y) IN IF (x < 0) = (y < 0) THEN q ELSE -q
TruncRem(x, y) == x - y * TruncDiv(x, y)

Shl(x, k) == Long(x * 2 ^ k)
Shr(x, k) == x \div 2 ^ k                \* arithmetic, \div is the floor

\* helpers.rs sign_extend of the dex crate, and the one of control.rs.
SignExtendMaskOnly(v, width) == BitAnd(v, 2 ^ (width - 1) - 1)  \* mutant
SignExtend(v, width) ==
    BitAnd(v, 2 ^ (width - 1) - 1) - BitAnd(v, 2 ^ (width - 1))
SignExtendByShifts(v, width) ==
    Shr(Shl(v, LongBits - width), LongBits - width)

-----------------------------------------------------------------------------
(* Values and registers.                                                   *)

None == [k |-> "none"]
Null == [k |-> "null"]
Num(n) == [k |-> "int", n |-> n]
Bool(b) == [k |-> "bool", t |-> b]
Str(chars) == [k |-> "str", chars |-> chars]
Bytes(b) == [k |-> "bytes", b |-> b]
Handle(i) == [k |-> "array", id |-> i]

\* What a slot can hold when there are so many arrays: a number of 64 bits, a string
\* or bytes whose length is a number of 32, the handle of one of the arrays.
Ints == -(2 ^ (IntBits - 1))..2 ^ (IntBits - 1) - 1
UnsignedInts == 0..2 ^ IntBits - 1
Longs == MinLong..2 ^ (LongBits - 1) - 1
Numbers == [k : {"int"}, n : Longs]
Strings == {v \in [k : {"str"}, chars : Seq(UnsignedInts)] : Len(v.chars) \in UnsignedInts}
ByteVectors == {v \in [k : {"bytes"}, b : Seq(0..2 ^ ByteBits - 1)] : Len(v.b) \in UnsignedInts}
Values(numArrays) ==
    {Null, Bool(TRUE), Bool(FALSE)} \cup Numbers \cup Strings \cup ByteVectors
        \cup [k : {"array"}, id : 1..numArrays]
SlotValues(numArrays) == Values(numArrays) \cup {None}

Panic == [k |-> "panic"]                  \* not a value: the thread dies

\* as_int().unwrap_or(0), a slot without a value counts as 0 too.
HasInt(v) == v.k \in {"int", "bool"}
AsInt(v) == IF v.k = "int" THEN v.n ELSE IF v.k = "bool" /\ v.t THEN 1 ELSE 0
Slot(r) == IF r \in DOMAIN regs THEN regs[r] ELSE None
OrNull(v) == IF v = None THEN Null ELSE v
Reg(r) == AsInt(Slot(r))                  \* read_int

\* Registers beyond the frame are skipped.
Written(rs, r, v) == IF r \in DOMAIN rs THEN [rs EXCEPT ![r] = v] ELSE rs

\* A wide value in faithful mode: the high half first.
WrittenPair(rs, r, x) ==
    Written(Written(rs, r, Num(Shr(x, IntBits))), r + 1, Num(Unsigned(IntBits, x)))

\* (high << 32) or low, as Python's `or` reads it: a high half hides the low one.
WideOr(r) ==
    LET high == Signed(IntBits, Reg(r))
    IN  IF high # 0 THEN Shl(high, IntBits) ELSE Unsigned(IntBits, Reg(r + 1))

\* (high << 32) | low.
Wide(r) == Shl(Signed(IntBits, Reg(r)), IntBits) + Unsigned(IntBits, Reg(r + 1))

-----------------------------------------------------------------------------
(* Decoded instructions, as the operands of their formats are read.        *)

RegNumbers == 0..2 ^ ShortBits - 1
FloatOps == {"add", "sub", "mul", "div", "rem"}
ShiftOps == {"shl", "shr", "ushr"}
IntOps == FloatOps \cup {"and", "or", "xor"} \cup ShiftOps
Comparisons == {"eq", "ne", "lt", "ge", "gt", "le"}
Conversions ==
    {"neg", "not", "neg-wide", "copy", "copy-wide", "widen", "narrow", "long-to-int",
     "int-to-byte", "int-to-char", "int-to-short"}

DecodedInstrs ==
    [kind : {"binary"}, form : {"23x", "2addr"}, op : IntOps, type : {"int", "long"},
          a : RegNumbers, b : RegNumbers, c : RegNumbers]
    \cup [kind : {"binary"}, form : {"23x", "2addr"}, op : FloatOps, type : {"float", "double"},
          a : RegNumbers, b : RegNumbers, c : RegNumbers]
    \cup [kind : {"binary"}, form : {"lit"}, op : IntOps, type : {"int"},
          a : RegNumbers, b : RegNumbers, lit : Ints]
    \cup [kind : {"unary"}, op : Conversions, a : RegNumbers, b : RegNumbers]
    \cup [kind : {"cmp"}, type : {"float", "double", "long"}, bias : {-1, 1},
          a : RegNumbers, b : RegNumbers, c : RegNumbers]
    \cup [kind : {"goto"}, width : {ByteBits, ShortBits, IntBits}, at : UnsignedInts,
          offset : Ints \cup UnsignedInts]
    \cup [kind : {"if"}, op : Comparisons, a : RegNumbers, b : RegNumbers, at : UnsignedInts,
          offset : Ints \cup UnsignedInts]
    \cup [kind : {"ifz"}, op : Comparisons, a : RegNumbers, at : UnsignedInts,
          offset : Ints \cup UnsignedInts]
    \cup [kind : {"throw", "move-result"}, a : RegNumbers]
    \cup [kind : {"return"}, void : BOOLEAN, a : RegNumbers]
    \cup [kind : {"move", "array-length"}, a : RegNumbers, b : RegNumbers]
    \cup [kind : {"const"}, a : RegNumbers, value : Numbers \cup Strings]
    \cup [kind : {"new-instance"}, a : RegNumbers, type : Strings, isString : BOOLEAN]
    \cup [kind : {"nop"}]
    \cup [kind : {"new-array"}, a : RegNumbers, b : RegNumbers, filled : BOOLEAN]
    \cup [kind : {"aget", "aput"}, a : RegNumbers, b : RegNumbers, c : RegNumbers]
    \cup [kind : {"fill-array"}, a : RegNumbers, width : Nat,
          data : Seq(Seq(0..2 ^ ByteBits - 1))]
    \cup [kind : {"iget", "iput", "sget", "sput"}, a : RegNumbers, b : RegNumbers,
          field : UnsignedInts, wide : BOOLEAN]

WellFormed(i) ==
    IF i.kind = "switch"
    THEN /\ i.a \in RegNumbers
         /\ i.at \in UnsignedInts
         /\ \A key \in DOMAIN i.table : {key, i.table[key]} \subseteq Ints
    ELSE i \in DecodedInstrs

Instrs == UNION {{start.program[n] : n \in DOMAIN start.program} : start \in Cases}

ASSUME CasesOK ==
    \A start \in Cases :
        /\ Len(start.program) \in Nat
        /\ start.program = [n \in 1..Len(start.program) |-> start.program[n]]
        /\ \A n \in 1..Len(start.program) : WellFormed(start.program[n])
        /\ \E n \in RegNumbers : start.regs \in [0..n - 1 -> SlotValues(0)]
        /\ start.last \in SlotValues(0)

-----------------------------------------------------------------------------
(* Arithmetic.  OverflowChecks: a negative shift count panics in a build   *)
(* with overflow checks and is masked in one without.                      *)

FloorDiv(b, c) ==
    LET q == TruncDiv(b, c)
        r == TruncRem(b, c)
    IN  IF r # 0 /\ (r < 0) # (c < 0) THEN q - 1 ELSE q

FloorMod(b, c) ==
    LET r == TruncRem(b, c) IN IF r # 0 /\ (r < 0) # (c < 0) THEN r + c ELSE r

DivisionOverflows(b, c) == b = MinLong /\ c = -1

\* The int result of reg_ops_helper: Python's sign extension, off by two.
PostMask(x) ==
    LET u == Unsigned(IntBits, x)
    IN  IF u > 2 ^ (IntBits - 1) - 1 THEN u - (2 ^ IntBits - 2) ELSE u

\* reg_ops_helper.
FaithfulAlu(op, type, b, c, overflowChecks) ==
    LET count == TruncRem(c, IF type = "long" THEN LongBits ELSE IntBits)
        masked == count % LongBits
        kept(x) == IF type = "long" THEN Long(x) ELSE Unsigned(BackBits, x)
        low == Unsigned(IntBits, b)
        raw ==
            CASE op = "add" -> Long(b + c)
              [] op = "sub" -> Long(b - c)
              [] op = "mul" -> Long(b * c)
              [] op = "div" -> IF c = 0 THEN 0 ELSE FloorDiv(b, c)
              [] op = "rem" -> IF c = 0 THEN 0 ELSE FloorMod(b, c)
              [] op = "and" -> BitAnd(b, c)
              [] op = "or" -> BitOr(b, c)
              [] op = "xor" -> BitXor(b, c)
              [] op = "shl" -> kept(Shl(b, masked))
              [] op = "shr" -> kept(Shr(b, masked))
              [] op = "ushr" -> kept(IF type = "int" THEN Shr(low, masked)
                                                     ELSE Shl(low, masked))
        panics ==
            \/ op \in {"div", "rem"} /\ DivisionOverflows(b, c)
            \/ /\ overflowChecks /\ count < 0
               /\ op = "shr" \/ (op = "ushr" /\ type = "int")
    IN  IF panics THEN Panic
        ELSE Num(IF type = "int" THEN PostMask(raw) ELSE raw)

\* The operators of the inline match.  Only ushr-int of the 23x form shifts
\* all the bits of the register; the others first take its low half.
InlineCountOfLong(type, c) == c % LongBits                        \* mutant
InlineCount(type, c) == c % (IF type = "long" THEN LongBits ELSE IntBits)

InlinePanics(op, b, c) == op \in {"div", "rem"} /\ DivisionOverflows(b, c)

InlineAlu(form, op, type, b, c) ==
    LET count == InlineCount(type, c)
        unsigned == IF type = "int" /\ form # "23x" THEN Unsigned(IntBits, b)
                                                    ELSE Unsigned(LongBits, b)
    IN  CASE op = "add" -> Long(b + c)
          [] op = "sub" -> Long(b - c)
          [] op = "mul" -> Long(b * c)
          [] op = "div" -> IF c = 0 THEN 0 ELSE TruncDiv(b, c)
          [] op = "rem" -> IF c = 0 THEN 0 ELSE TruncRem(b, c)
          [] op = "and" -> BitAnd(b, c)
          [] op = "or" -> BitOr(b, c)
          [] op = "xor" -> BitXor(b, c)
          [] op = "shl" -> Shl(b, count)
          [] op = "shr" -> Shr(b, count)
          [] op = "ushr" -> Long(Shr(unsigned, count))

-----------------------------------------------------------------------------
(* One action per family.  Answer ends every one of them: the straight     *)
(* line goes on after Continue and after a branch that is not taken.       *)

Continue == [r |-> "continue"]
NotTaken == [r |-> "branch"]
Jump(to) == [r |-> "jump", to |-> to]
Return == [r |-> "return"]
Died == [r |-> "panic"]

Answer(i, rs, result) ==
    /\ regs' = rs
    /\ before' = regs
    /\ done' = Append(done, i)
    /\ outcome' = result
    /\ program' = IF result \in {Continue, NotTaken} THEN Tail(program) ELSE <<>>
    /\ UNCHANGED faithful

Goes(i, rs) == Answer(i, rs, Continue) /\ UNCHANGED memory
Skip(i) == Goes(i, regs)
Write(i, r, v) == Goes(i, Written(regs, r, v))
Dies(i) == Answer(i, regs, Died) /\ UNCHANGED memory

\* binop.rs, binop_2addr.rs, binop_lit.rs; the 32-bit forms read their operands,
\* the wide ones read the first operand twice (23x) or 0 and vA (2addr).
FaithfulBinary(i) ==
    LET wide == WideOr(IF i.form = "2addr" THEN i.a ELSE i.b)
        b == IF i.type # "int" THEN (IF i.form = "2addr" THEN 0 ELSE wide)
             ELSE IF i.form = "2addr" THEN Reg(i.a) ELSE Reg(i.b)
        c == IF i.form = "lit" THEN i.lit
             ELSE IF i.type = "int" THEN Reg(IF i.form = "2addr" THEN i.b ELSE i.c)
             ELSE IF i.form = "23x" /\ i.type = "long" /\ i.op \in ShiftOps THEN Reg(i.c)
             ELSE wide
        reversed == i.form = "lit" /\ i.op = "sub"              \* rsub-int
    IN  \E overflowChecks \in BOOLEAN :
          LET v == FaithfulAlu(i.op, i.type, IF reversed THEN c ELSE b,
                               IF reversed THEN b ELSE c, overflowChecks)
          IN  IF v = Panic THEN Dies(i)
              ELSE IF i.type = "int" THEN Write(i, i.a, v)
              ELSE IF i.type = "float" THEN Skip(i)
              ELSE Goes(i, WrittenPair(regs, i.a, v.n))

\* vm.rs: every value in one register.  Floats keep an operand, or are not
\* there at all (0xa8 to 0xaf).
InlineBinary(i) ==
    LET b == IF i.form = "2addr" THEN Reg(i.a) ELSE Reg(i.b)
        c == IF i.form = "lit" THEN i.lit
             ELSE IF i.form = "2addr" THEN Reg(i.b) ELSE Reg(i.c)
        reversed == i.form = "lit" /\ i.op = "sub"
        x == IF reversed THEN c ELSE b
        y == IF reversed THEN b ELSE c
    IN  IF i.type \in {"int", "long"}
        THEN IF InlinePanics(i.op, x, y) THEN Dies(i)
             ELSE Write(i, i.a, Num(InlineAlu(i.form, i.op, i.type, x, y)))
        ELSE IF i.form = "2addr" \/ (i.type = "float" /\ i.op \in {"add", "sub"})
        THEN Write(i, i.a, Num(b))
        ELSE Skip(i)

Binary(i) ==
    /\ i.kind = "binary"
    /\ IF faithful THEN FaithfulBinary(i) ELSE InlineBinary(i)

\* unop.rs: the value and the pair forms; a pair is copied slot by slot.
FaithfulUnary(i) ==
    LET b == Reg(i.b)
        low == Reg(i.b + 1)
        copied == Written(regs, i.a, Num(b))
        \* both int-to-byte and int-to-char
        byte == Signed(ByteBits, b)
    IN  CASE i.op = "neg" -> Write(i, i.a, Num(Long(-b)))
          [] i.op = "not" -> Write(i, i.a, Num(-b - 1))
          [] i.op = "neg-wide" ->
               Goes(i, Written(Written(regs, i.a, Num(Long(-b))), i.a + 1, Num(Long(-low))))
          [] i.op = "copy" -> Goes(i, IF i.a = i.b THEN regs ELSE copied)
          [] i.op = "copy-wide" ->
               Goes(i, IF i.a = i.b THEN regs
                       ELSE Written(copied, i.a + 1,
                              Num(IF i.b + 1 \in DOMAIN copied THEN AsInt(copied[i.b + 1])
                                                               ELSE 0)))
          [] i.op = "widen" -> Goes(i, Written(copied, i.a + 1, Num(0)))
          [] i.op \in {"narrow", "long-to-int"} ->
               Write(i, i.a, Num(IF b # 0 THEN Shl(b, IntBits) ELSE Unsigned(IntBits, low)))
          [] i.op \in {"int-to-byte", "int-to-char"} -> Write(i, i.a, Num(byte))
          [] i.op = "int-to-short" -> Write(i, i.a, Num(Signed(ShortBits, b)))

\* vm.rs: the conversions only; neg and not reach the last arm of the match.
InlineUnary(i) ==
    LET b == Reg(i.b)
    IN  CASE i.op \in {"neg", "not", "neg-wide"} -> Skip(i)
          [] i.op = "long-to-int" -> Write(i, i.a, Num(Signed(IntBits, b)))
          [] i.op = "int-to-byte" -> Write(i, i.a, Num(Signed(ByteBits, b)))
          [] i.op = "int-to-char" -> Write(i, i.a, Num(Unsigned(ShortBits, b)))
          [] i.op = "int-to-short" -> Write(i, i.a, Num(Signed(ShortBits, b)))
          [] i.op \in {"copy", "copy-wide", "widen", "narrow"} -> Write(i, i.a, Num(b))

Unary(i) ==
    /\ i.kind = "unary"
    /\ IF faithful THEN FaithfulUnary(i) ELSE InlineUnary(i)

\* cmp.rs; vm.rs has no arm for it.  cmp-long of a zero leaves vA alone.
Cmp(i) ==
    LET b == IF i.type = "float" THEN Reg(i.b) ELSE Wide(i.b)
        c == IF i.type = "float" THEN Reg(i.c) ELSE Wide(i.c)
        zero == b = 0 \/ c = 0
    IN  /\ i.kind = "cmp"
        /\ IF ~faithful \/ (zero /\ i.type = "long") THEN Skip(i)
           ELSE Write(i, i.a, Num(IF zero THEN i.bias
                                  ELSE IF b > c THEN 1 ELSE IF b < c THEN -1 ELSE 0))

-----------------------------------------------------------------------------
(* Control flow.                                                           *)

Ordered(op, x, y) ==
    CASE op = "eq" -> x = y  [] op = "ne" -> x # y  [] op = "lt" -> x < y
      [] op = "ge" -> x >= y [] op = "gt" -> x > y  [] op = "le" -> x <= y

JumpBy(i, width) ==
    LET extended == IF faithful THEN SignExtendByShifts(i.offset, width)
                                ELSE SignExtend(i.offset, width)
    IN  Jump(Unsigned(IntBits, i.at + extended))

\* References have no identity to compare here: only numbers can be equal.
Same(x, y) ==
    \/ x = None /\ y = None
    \/ HasInt(x) /\ HasInt(y) /\ AsInt(x) = AsInt(y)

IfTaken(i) ==
    IF faithful THEN Reg(i.a) # 0 /\ Reg(i.b) # 0 /\ Ordered(i.op, Reg(i.a), Reg(i.b))
    ELSE IF i.op = "eq" THEN Same(Slot(i.a), Slot(i.b))
    ELSE IF i.op = "ne" THEN ~Same(Slot(i.a), Slot(i.b))
    ELSE Ordered(i.op, Reg(i.a), Reg(i.b))

\* if-lez of faithful mode never branches.
IfZTaken(i) ==
    LET zero == Slot(i.a) \in {None, Num(0), Bool(FALSE)}
    IN  IF faithful THEN i.op # "le" /\ Reg(i.a) # 0 /\ Ordered(i.op, Reg(i.a), 0)
        ELSE IF i.op = "eq" THEN zero
        ELSE IF i.op = "ne" THEN ~zero
        ELSE Ordered(i.op, Reg(i.a), 0)

Goto(i) ==
    /\ i.kind = "goto"
    /\ Answer(i, regs, JumpBy(i, i.width))
    /\ UNCHANGED memory

If(i) ==
    /\ i.kind \in {"if", "ifz"}
    /\ LET taken == IF i.kind = "if" THEN IfTaken(i) ELSE IfZTaken(i)
       IN  Answer(i, regs, IF taken THEN JumpBy(i, ShortBits) ELSE NotTaken)
    /\ UNCHANGED memory

\* Faithful mode leaves the target in last_exception; vm.rs has no arm for it.
Switch(i) ==
    LET key == Signed(IntBits, Reg(i.a))
        target == Unsigned(IntBits, i.at + i.table[key])
    IN  /\ i.kind = "switch"
        /\ IF ~faithful THEN Skip(i)
           ELSE IF key \in DOMAIN i.table
           THEN /\ Answer(i, regs, Jump(target))
                /\ exception' = Num(target)
                /\ UNCHANGED <<arrays, fieldMaps, lastReturn>>
           ELSE /\ Answer(i, regs, Continue)
                /\ lastReturn' = None
                /\ UNCHANGED <<arrays, fieldMaps, exception>>

Throw(i) ==
    /\ i.kind = "throw"
    /\ Answer(i, regs, Return)
    /\ lastReturn' = None
    /\ exception' = IF faithful THEN Num(i.a) ELSE exception
    /\ UNCHANGED <<arrays, fieldMaps>>

\* return-void has no register.
ReturnValue(i) ==
    /\ i.kind = "return"
    /\ Answer(i, regs, Return)
    /\ lastReturn' = IF i.void THEN None ELSE Slot(i.a)
    /\ UNCHANGED <<arrays, fieldMaps, exception>>

-----------------------------------------------------------------------------
(* Moves, constants and objects.                                           *)

\* One slot, whatever the width; an empty slot is moved as such.
Move(i) ==
    /\ i.kind = "move"
    /\ Goes(i, Written(regs, i.a, Slot(i.b)))

MoveResult(i) ==
    /\ i.kind = "move-result"
    /\ Goes(i, Written(regs, i.a, lastReturn))

\* const/4 to const-wide/high16 (one slot all), const-string.
Const(i) ==
    /\ i.kind = "const"
    /\ Write(i, i.a, i.value)

\* The object is the name of its type; faithful mode blanks strings.
NewInstance(i) ==
    /\ i.kind = "new-instance"
    /\ Write(i, i.a, IF faithful /\ i.isString THEN Str(<<>>) ELSE i.type)

\* Monitors, casts, instance-of: nothing in either mode.
NoOp(i) ==
    /\ i.kind = "nop"
    /\ Skip(i)

-----------------------------------------------------------------------------
(* Arrays: a handle is shared by every copy of the value.                  *)

InRange(s, index) == index >= 0 /\ index < Len(s)
SetAt(s, index, v) == IF InRange(s, index) THEN [s EXCEPT ![index + 1] = v] ELSE s

\* Utf8Limit and above take more than one byte of a Rust string.
Utf8Limit == 2 ^ (ByteBits - 1)
LengthOf(v) ==
    CASE v.k = "array" -> Len(arrays[v.id])
      [] v.k = "bytes" -> Len(v.b)
      [] v.k = "str" ->
           Len(v.chars) + Cardinality({n \in DOMAIN v.chars : v.chars[n] >= Utf8Limit})
      [] OTHER -> 0

ElementOf(v, index) ==
    CASE v.k = "array" /\ InRange(arrays[v.id], index) -> arrays[v.id][index + 1]
      [] v.k = "bytes" /\ InRange(v.b, index) -> Num(v.b[index + 1])
      [] v.k = "str" /\ InRange(v.chars, index) -> Num(v.chars[index + 1])
      [] OTHER -> None

ArrayLength(i) ==
    /\ i.kind = "array-length"
    /\ Write(i, i.a, Num(LengthOf(Slot(i.b))))

\* new-array in both modes; filled-new-array is an array of empty strings in
\* faithful mode and nothing in the inline match, its /range form nothing at all.
NewArray(i) ==
    LET wanted == IF Reg(i.b) < 0 THEN 0 ELSE Reg(i.b)
        length == IF wanted > MaxArray THEN MaxArray ELSE wanted
        filler == IF i.filled THEN Str(<<>>) ELSE IF faithful THEN Num(0) ELSE Null
    IN  /\ i.kind = "new-array"
        /\ IF i.filled /\ ~faithful THEN Skip(i)
           ELSE /\ arrays' = Append(arrays, [n \in 1..length |-> filler])
                /\ Answer(i, Written(regs, i.a, Handle(Len(arrays'))), Continue)
                /\ UNCHANGED <<fieldMaps, results>>

\* An index that is out of range, or something that is no array: the inline
\* match writes null, faithful mode nothing.
Aget(i) ==
    LET element == ElementOf(Slot(i.b), Reg(i.c))
    IN  /\ i.kind = "aget"
        /\ IF faithful /\ element = None THEN Skip(i)
           ELSE Write(i, i.a, OrNull(element))

\* Arrays are written through the handle, bytes in the register itself.
Aput(i) ==
    LET value == OrNull(Slot(i.a))
        target == Slot(i.b)
        byte == Unsigned(ByteBits, AsInt(value))
    IN  /\ i.kind = "aput"
        /\ CASE target.k = "array" ->
                  /\ arrays' = [arrays EXCEPT ![target.id] = SetAt(@, Reg(i.c), value)]
                  /\ Answer(i, regs, Continue)
                  /\ UNCHANGED <<fieldMaps, results>>
             [] target.k = "bytes" /\ (faithful \/ HasInt(value)) ->
                  Write(i, i.b, Bytes(SetAt(target.b, Reg(i.c), byte)))
             [] OTHER -> Skip(i)

\* fill_array_data_inplace, before either mode sees the instruction: unsigned
\* little-endian elements, up to the first chunk that is cut short.
Unpacked(chunk) == Long(Number(2 ^ ByteBits, chunk))
FillArray(i) ==
    LET target == Slot(i.a)
        cut == {n \in DOMAIN i.data : Len(i.data[n]) < i.width}
        filled(n) == n \in DOMAIN i.data /\ \A m \in cut : n < m
    IN  /\ i.kind = "fill-array"
        /\ Answer(i, regs, Continue)
        /\ UNCHANGED <<fieldMaps, results>>
        /\ arrays' = IF target.k # "array" THEN arrays
                     ELSE [arrays EXCEPT ![target.id] =
                             [n \in DOMAIN @ |-> IF filled(n) THEN Num(Unpacked(i.data[n]))
                                                              ELSE @[n]]]

-----------------------------------------------------------------------------
(* Fields.  The inline match keeps static and instance fields in one map,  *)
(* without objects; faithful mode has a map of integers for the latter.    *)

With(map, key, v) == [x \in DOMAIN map \cup {key} |-> IF x = key THEN v ELSE map[x]]
FieldOf(map, key) == IF key \in DOMAIN map THEN map[key] ELSE None

\* A class initialiser may run first (module Vm); without one a missing field is null.
InlineGet(i) == Write(i, i.a, OrNull(FieldOf(statics, i.field)))

InlinePutCopy(i) ==                                               \* mutant
    /\ arrays' = IF Slot(i.a).k = "array" THEN Append(arrays, arrays[Slot(i.a).id])
                                          ELSE arrays
    /\ statics' = With(statics, i.field, IF Slot(i.a).k = "array" THEN Handle(Len(arrays'))
                                                                 ELSE OrNull(Slot(i.a)))
    /\ Answer(i, regs, Continue)
    /\ UNCHANGED <<instances, results>>
InlinePut(i) ==
    /\ statics' = With(statics, i.field, OrNull(Slot(i.a)))
    /\ Answer(i, regs, Continue)
    /\ UNCHANGED <<arrays, instances, results>>

FaithfulIGet(i) ==
    LET v == AsInt(FieldOf(instances, i.field))
    IN  IF i.wide THEN Goes(i, WrittenPair(regs, i.a, v)) ELSE Write(i, i.a, Num(v))

\* The low half of a pair is added to the field numbered like the register.
FaithfulIPut(i) ==
    LET high == With(instances, i.field,
                     Num(IF i.wide THEN Shl(Reg(i.a), IntBits) ELSE Reg(i.a)))
        sum == AsInt(FieldOf(high, i.a)) + Reg(i.a + 1)
        overflows == i.wide /\ sum # Long(sum)
    IN  \E overflowChecks \in BOOLEAN :
          IF overflows /\ overflowChecks
          THEN /\ Answer(i, regs, Died)
               /\ instances' = high
               /\ UNCHANGED <<arrays, statics, results>>
          ELSE /\ Answer(i, regs, Continue)
               /\ instances' = IF i.wide THEN With(high, i.a, Num(Long(sum))) ELSE high
               /\ UNCHANGED <<arrays, statics, results>>

FaithfulSGet(i) ==
    LET v == FieldOf(statics, i.field)
        read == Written(regs, i.a, IF HasInt(v) THEN Num(AsInt(v)) ELSE v)
    IN  Goes(i, CASE ~i.wide -> read
                  [] i.wide /\ v = None -> Written(read, i.a + 1, None)
                  [] i.wide /\ v # None -> WrittenPair(regs, i.a, AsInt(v)))

FaithfulSPutLowFirst(i) ==                                        \* mutant
    /\ statics' = With(statics, i.field, Num(Long(Shl(Reg(i.a + 1), IntBits) + Reg(i.a))))
    /\ Answer(i, regs, Continue)
    /\ UNCHANGED <<arrays, instances, results>>
FaithfulSPut(i) ==
    LET v == OrNull(Slot(i.a))
        pair == IF HasInt(v) THEN Long(Shl(AsInt(v), IntBits) + Reg(i.a + 1)) ELSE 0
    IN  /\ statics' = With(statics, i.field, IF i.wide THEN Num(pair) ELSE v)
        /\ Answer(i, regs, Continue)
        /\ UNCHANGED <<arrays, instances, results>>

Field(i) ==
    \/ i.kind \in {"iget", "sget"} /\ ~faithful /\ InlineGet(i)
    \/ i.kind \in {"iput", "sput"} /\ ~faithful /\ InlinePut(i)
    \/ i.kind = "iget" /\ faithful /\ FaithfulIGet(i)
    \/ i.kind = "iput" /\ faithful /\ FaithfulIPut(i)
    \/ i.kind = "sget" /\ faithful /\ FaithfulSGet(i)
    \/ i.kind = "sput" /\ faithful /\ FaithfulSPut(i)

-----------------------------------------------------------------------------

OpInit ==
    /\ faithful \in BOOLEAN
    /\ \E start \in Cases :
          /\ program = start.program
          /\ regs = start.regs
          /\ lastReturn = start.last
    /\ arrays = <<>>
    /\ statics = <<>>
    /\ instances = <<>>
    /\ exception = None
    /\ outcome = Continue
    /\ before = regs
    /\ done = <<>>

Fetched == IF program = <<>> THEN {} ELSE {Head(program)}

OpNext ==
    \E i \in Fetched :
        \/ Binary(i)
        \/ Unary(i)
        \/ Cmp(i)
        \/ Goto(i)
        \/ If(i)
        \/ Switch(i)
        \/ Throw(i)
        \/ ReturnValue(i)
        \/ Move(i)
        \/ MoveResult(i)
        \/ Const(i)
        \/ NewInstance(i)
        \/ NoOp(i)
        \/ ArrayLength(i)
        \/ NewArray(i)
        \/ Aget(i)
        \/ Aput(i)
        \/ FillArray(i)
        \/ Field(i)

OpSpec == OpInit /\ [][OpNext]_opVars

-----------------------------------------------------------------------------
(* Properties.  PyAlu and DalvikAlu are references: unbounded integers, as *)
(* dex/instructions_new.py computes, and the semantics of the bytecode.    *)

Latest == done[Len(done)]
LatestIs(kinds) == done # <<>> /\ Latest.kind \in kinds
BeforeSlot(r) == IF r \in DOMAIN before THEN before[r] ELSE None
BeforeReg(r) == AsInt(BeforeSlot(r))

Operands ==
    LET b == BeforeReg(IF Latest.form = "2addr" THEN Latest.a ELSE Latest.b)
        c == IF Latest.form = "lit" THEN Latest.lit
             ELSE BeforeReg(IF Latest.form = "2addr" THEN Latest.b ELSE Latest.c)
    IN  IF Latest.form = "lit" /\ Latest.op = "sub" THEN <<c, b>> ELSE <<b, c>>

FloorQuotient(b, c) == IF c > 0 THEN b \div c ELSE (-b) \div (-c)

PyAlu(op, b, c) ==
    LET count == IF c < 0 THEN TruncRem(c, IntBits) % LongBits ELSE c % IntBits
        kept(x) == x % 2 ^ BackBits
        raw ==
            CASE op = "add" -> b + c
              [] op = "sub" -> b - c
              [] op = "mul" -> b * c
              [] op = "div" -> IF c = 0 THEN 0 ELSE FloorQuotient(b, c)
              [] op = "rem" -> IF c = 0 THEN 0 ELSE b - c * FloorQuotient(b, c)
              [] op = "and" -> BitAnd(b, c)
              [] op = "or" -> BitOr(b, c)
              [] op = "xor" -> BitXor(b, c)
              [] op = "shl" -> kept(b * 2 ^ count)
              [] op = "shr" -> kept(b \div 2 ^ count)
              [] op = "ushr" -> kept((b % 2 ^ IntBits) \div 2 ^ count)
        a == raw % 2 ^ IntBits
    IN  IF a > 2 ^ (IntBits - 1) - 1 THEN a - (2 ^ IntBits - 1 - 1) ELSE a

\* The result as a bits-wide number.
DalvikAlu(bits, op, b, c) ==
    LET count == c % bits
    IN  Signed(bits,
            CASE op = "add" -> b + c
              [] op = "sub" -> b - c
              [] op = "mul" -> b * c
              [] op = "div" -> IF c = 0 THEN 0 ELSE TruncDiv(b, c)
              [] op = "rem" -> IF c = 0 THEN 0 ELSE TruncRem(b, c)
              [] op = "and" -> BitAnd(b, c)
              [] op = "or" -> BitOr(b, c)
              [] op = "xor" -> BitXor(b, c)
              [] op = "shl" -> b * 2 ^ count
              [] op = "shr" -> b \div 2 ^ count
              [] op = "ushr" -> (b % 2 ^ bits) \div 2 ^ count)

IsInt(x) == x = Signed(IntBits, x)

\* A slot holds a 64-bit number or a value whose array exists, a field and an
\* array element are never without a value, and instance fields of faithful mode
\* are numbers: Value, Memory and the wrapping arithmetic of both interpreters.
OpTypeOK ==
    /\ faithful \in BOOLEAN
    /\ program \in Seq(Instrs) /\ done \in Seq(Instrs)
    /\ \E n \in RegNumbers : {regs, before} \subseteq [0..n - 1 -> SlotValues(Len(arrays))]
    /\ arrays \in Seq(Seq(Values(Len(arrays))))
    /\ \A n \in DOMAIN arrays : Len(arrays[n]) <= MaxArray
    /\ \A x \in DOMAIN statics : statics[x] \in Values(Len(arrays))
    /\ \A x \in DOMAIN instances : instances[x] \in Numbers
    /\ {lastReturn, exception} \subseteq SlotValues(Len(arrays))

\* An int operation of faithful mode (helpers.rs) kills its thread on the smallest
\* number divided by -1, in a build with overflow checks also on a right shift by a
\* negative count, and on nothing else.  Else it leaves, whatever 64 bits the
\* registers held, what dex/instructions_new.py gets on unbounded integers: floor
\* division, the 24-bit mask of the shifts, the sign extension that is off by two.
\* Two answers are not Python's: a remainder by zero, which raises there, is 0, and
\* a negative count is shifted by its low bits modulo LongBits, there modulo IntBits.
AluMatchesReference ==
    (faithful /\ LatestIs({"binary"}) /\ Latest.type = "int") =>
      LET b == Operands[1]
          c == Operands[2]
          overflows == Latest.op \in {"div", "rem"} /\ DivisionOverflows(b, c)
          checked == Latest.op \in {"shr", "ushr"} /\ TruncRem(c, IntBits) < 0
      IN  /\ overflows => outcome = Died
          /\ outcome = Died => overflows \/ checked
          /\ (outcome # Died /\ Latest.a \in DOMAIN regs)
               => regs[Latest.a] = Num(PyAlu(Latest.op, b, c))

\* Every form of the inline arithmetic (vm.rs: three operands, two, a literal)
\* kills its thread on the smallest long divided by -1 and on nothing else.  Else the
\* low bits of the result, as many as the type has, are Dalvik's, with 0 where Dalvik
\* throws on a division by zero.  An int's register has twice its bits and nothing
\* cuts it back, so what comes from the upper bits, a quotient, a remainder or an
\* arithmetic shift to the right, is right only while both operands are ints.  And
\* the ushr-int of three operands shifts the whole register (vm.rs:824): it is the
\* arithmetic shift, so a negative int keeps its sign bits, against vm.rs:91-99,
\* which calls these implementations spec-correct.
InlineArithmeticRight ==
    (~faithful /\ LatestIs({"binary"}) /\ Latest.type \in {"int", "long"}) =>
      LET b == Operands[1]
          c == Operands[2]
          bits == IF Latest.type = "int" THEN IntBits ELSE LongBits
          fromAbove == Latest.type = "int" /\ Latest.op \in {"div", "rem", "shr"}
          arithmetic == Latest.type = "int" /\ Latest.op = "ushr" /\ Latest.form = "23x"
          op == IF arithmetic THEN "shr" ELSE Latest.op
      IN  /\ outcome = Died <=> (Latest.op \in {"div", "rem"} /\ DivisionOverflows(b, c))
          /\ (/\ outcome # Died
              /\ fromAbove => IsInt(b) /\ IsInt(c)
              /\ Latest.a \in DOMAIN regs)
               => Signed(bits, regs[Latest.a].n) = DalvikAlu(bits, op, b, c)

\* What an arithmetic instruction of either mode leaves in its register, and when it
\* kills the thread instead: the faithful one against the Python interpreter, the
\* inline one against Dalvik.
ArithmeticRight == AluMatchesReference /\ InlineArithmeticRight

\* Both modes, one with shifts and one with masks, take a branch of 8, 16 or 32
\* bits to the same place, backwards too.
JumpsLand ==
    (outcome.r = "jump" /\ LatestIs({"goto", "if", "ifz"})) =>
      outcome.to = Unsigned(IntBits, Latest.at +
          Signed(IF Latest.kind = "goto" THEN Latest.width ELSE ShortBits, Latest.offset))

Kinds == [n \in DOMAIN done |-> done[n].kind]

\* value.rs: "both clones see each other's mutations".  An array is put into a
\* static field, written through the register, and read back through the field.
AputSeenThroughField ==
    LET d == done
    IN  (/\ Kinds = <<"new-array", "sput", "aput", "sget", "aget">>
         /\ ~d[1].filled /\ ~d[2].wide /\ ~d[4].wide
         /\ d[1].a = d[2].a /\ d[2].a = d[3].b /\ d[2].field = d[4].field
         /\ d[4].a = d[5].b /\ d[3].c = d[5].c /\ d[4].a \notin {d[3].a, d[3].c}
         /\ {d[1].a, d[3].a, d[4].a, d[5].a} \subseteq DOMAIN regs
         /\ InRange(arrays[1], BeforeReg(d[5].c)))
          => regs[d[5].a] = OrNull(before[d[3].a])

\* A wide value put into a static field comes back: as the pair of a signed high
\* and an unsigned low half in faithful mode, as the one register otherwise.
FieldCarriesPair ==
    LET d == done
        high == BeforeReg(d[1].a)
        low == BeforeReg(d[1].a + 1)
    IN  (/\ Kinds = <<"sput", "sget">> /\ d[1].wide /\ d[2].wide
         /\ d[1].field = d[2].field /\ d[2].a + 1 \in DOMAIN regs
         /\ IsInt(high) /\ low = Unsigned(IntBits, low)
         /\ HasInt(BeforeSlot(d[1].a)))
          => IF faithful THEN regs[d[2].a] = Num(high) /\ regs[d[2].a + 1] = Num(low)
                         ELSE regs[d[2].a] = BeforeSlot(d[1].a)
=============================================================================

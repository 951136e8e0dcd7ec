----------------------------- MODULE MCOpcodes ------------------------------
(* Programs on registers that hold the boundary values of the small widths. *)
EXTENDS Opcodes

Boundary == {-128, -17, -9, -8, -1, 0, 1, 7, 8, 9, 16, 127}
Few == {-128, -8, -1, 0, 1, 7, 15, 16}
Spread == {Num(n) : n \in {-128, -9, -1, 0, 1, 8, 15, 127}}
            \cup {Null, None, Bool(TRUE), Bool(FALSE), Str(<<1, 3>>), Bytes(<<1, 3>>)}

RegsOf(values) == [n \in 0..Len(values) - 1 |-> values[n + 1]]
Case(code, values, last) == [program |-> code, regs |-> RegsOf(values), last |-> last]
Singly(instrs, values) == {Case(<<i>>, vs, None) : i \in instrs, vs \in values}

\* One binary instruction on two ints; a second one on what the first one leaves.
Two(form, op, type) ==
    [kind |-> "binary", form |-> form, op |-> op, type |-> type, a |-> 0, b |-> 1, c |-> 2]
ByLit(op, lit) ==
    [kind |-> "binary", form |-> "lit", op |-> op, type |-> "int", a |-> 0, b |-> 1, lit |-> lit]

IntCases == Singly({Two("23x", op, "int") : op \in IntOps},
                   {<<None, Num(x), Num(y)>> : x \in Boundary, y \in Boundary})
TwoAddrCases == Singly({Two("2addr", op, "int") : op \in IntOps},
                       {<<Num(x), Num(y), None>> : x \in Few, y \in Boundary})
LitCases == Singly({ByLit(op, lit) : op \in IntOps, lit \in {-2, -1, 0, 1, 3}},
                   {<<None, Num(x), None>> : x \in Boundary})
WideCases == Singly({Two(form, op, "long") : form \in {"23x", "2addr"}, op \in IntOps}
                    \cup {Two(form, op, type) : form \in {"23x", "2addr"}, op \in FloatOps,
                                                type \in {"float", "double"}},
                    {<<Num(x), Num(y), Num(z), None>> : x \in {-128, 7},
                                                       y \in {-8, -1, 0, 3}, z \in {-1, 0, 3}})
ChainCases ==
    {Case(<<[kind |-> "const", a |-> 1, value |-> Num(x)], Two("23x", o, "int"),
            [Two("2addr", p, "int") EXCEPT !.b = 2]>>,
          <<None, None, Num(y)>>, None) :
        x \in {-8, -1, 7}, y \in {-8, -1, 3}, o \in {"add", "mul", "shl"}, p \in IntOps}

UnaryCases ==
    Singly({[kind |-> "unary", op |-> op, a |-> a, b |-> 1] :
              op \in {"neg", "not", "neg-wide", "copy", "copy-wide", "widen", "narrow",
                      "long-to-int", "int-to-byte", "int-to-char", "int-to-short"},
              a \in {0, 1, 2}},
           {<<None, Num(x), Num(y)>> : x \in Boundary, y \in {-1, 0, 3}})

CmpCases ==
    Singly({[kind |-> "cmp", type |-> t, bias |-> bias, a |-> 0, b |-> 1, c |-> 3] :
              t \in {"float", "double", "long"}, bias \in {-1, 1}},
           {<<None, Num(w), Num(x), Num(y), Num(z)>> :
              w \in {-1, 0, 1}, x \in {0, 3}, y \in {-1, 0, 1}, z \in {0, 3}})

BranchCases ==
    Singly({[kind |-> "if", op |-> op, a |-> 0, b |-> 1, at |-> at, offset |-> o] :
              op \in Comparisons, at \in {0, 9}, o \in {1, 5, 7}}
           \cup {[kind |-> "ifz", op |-> op, a |-> 0, at |-> 9, offset |-> o] :
                  op \in Comparisons, o \in {3, 6}},
           {<<v, w>> : v \in Spread, w \in {Num(0), Num(-9), Null, None}})
    \cup Singly({[kind |-> "goto", width |-> w, at |-> at, offset |-> o] :
                   w \in {ByteBits, ShortBits, IntBits}, at \in {0, 5, 12}, o \in -8..15},
                {<<None>>})
    \cup {Case(<<[kind |-> "switch", a |-> 0, at |-> 5, table |-> [n \in {-1, 3} |-> n - 1]],
                 [kind |-> "move-result", a |-> 0]>>, <<v>>, Num(7)) : v \in Spread \cup {Num(3)}}
    \cup Singly({[kind |-> "throw", a |-> 1]}
                  \cup {[kind |-> "return", void |-> v, a |-> 0] : v \in BOOLEAN},
                {<<v>> : v \in Spread})

PlainCases ==
    {Case(<<[kind |-> "nop"], [kind |-> "move-result", a |-> 1], [kind |-> "move", a |-> 0, b |-> b],
            [kind |-> "new-instance", a |-> 1, type |-> Str(<<2>>), isString |-> s],
            [kind |-> "array-length", a |-> 2, b |-> b]>>,
          <<None, v, None>>, w) : b \in {1, 7}, s \in BOOLEAN, v \in Spread, w \in Spread}

NewArrayOf(r, size, filled) == [kind |-> "new-array", a |-> r, b |-> size, filled |-> filled]
FieldOp(kind, r, wide) == [kind |-> kind, a |-> r, b |-> 7, field |-> 0, wide |-> wide]

\* Register 1 the array, 2 the index, 3 the value.
Fill(width) == [kind |-> "fill-array", a |-> 1, width |-> width,
                data |-> IF width = 1 THEN <<<<3>>, <<0>>>> ELSE <<<<1, 3, 3, 3>>, <<2, 3>>, <<1>>>>]
ArrayCases ==
    {Case(<<NewArrayOf(1, 0, f), Fill(w), [kind |-> "aput", a |-> 3, b |-> 1, c |-> 2],
            [kind |-> "array-length", a |-> 4, b |-> 1],
            [kind |-> "aget", a |-> 4, b |-> 1, c |-> 2]>>,
          <<Num(size), v, Num(index), Num(5), None>>, None) :
        f \in BOOLEAN, w \in {1, 4}, size \in {-1, 0, 2, 9}, v \in {None} \cup Spread,
        index \in {-1, 0, 1}}
    \cup
    {Case(<<[kind |-> "aput", a |-> 2, b |-> 0, c |-> 1],
            [kind |-> "aget", a |-> 2, b |-> 0, c |-> 1]>>,
          <<Bytes(<<1, 2>>), Num(index), v>>, None) : index \in -1..2, v \in Spread}

FieldCases ==
    {Case(<<NewArrayOf(1, 0, FALSE), FieldOp("sput", 1, FALSE),
            [kind |-> "aput", a |-> 3, b |-> 1, c |-> 2], FieldOp("sget", 4, FALSE),
            [kind |-> "aget", a |-> 0, b |-> 4, c |-> 2]>>,
          <<Num(2), None, Num(index), v, None>>, None) : index \in {-1, 0, 1, 2}, v \in Spread}
    \cup
    {Case(<<FieldOp(put, r, w), FieldOp(get, 1, w)>>,
          <<v, Num(low), Num(low)>>, None) :
        put \in {"sput", "iput"}, get \in {"sget", "iget"}, r \in {0, 1}, w \in BOOLEAN,
        v \in Spread \cup {Num(-8)}, low \in {0, 9, 15, -1, -128}}
    \cup Singly({FieldOp(get, 0, w) : get \in {"sget", "iget"}, w \in BOOLEAN}, {<<Num(7), Num(7)>>})
    \cup {Case(<<FieldOp("sget", 0, FALSE), [kind |-> "ifz", op |-> "eq", a |-> 0, at |-> 9, offset |-> 3]>>,
               <<None>>, None)}

MCCases ==
    UNION {IntCases, TwoAddrCases, LitCases, WideCases, ChainCases, UnaryCases, CmpCases,
           BranchCases, PlainCases, ArrayCases, FieldCases}
=============================================================================

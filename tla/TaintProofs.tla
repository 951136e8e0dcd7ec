---------------------------- MODULE TaintProofs -----------------------------
(***************************************************************************)
(* What is proved of the taint pass, for every method, of any length, and  *)
(* every set of overrides: the flows are those in which the instructions   *)
(* that make arrays, which the pass ignores, do nothing.  What flows is    *)
(* defined by recursion over the instructions; that the definition means   *)
(* what it says is the first part.                                         *)
(***************************************************************************)
EXTENDS Taint, SequenceTheorems, WellFoundedInduction, TLAPS

\* What a cell holds: the registers and the latest call's result.
Holds(c) == IF c = "result" THEN last_invoke ELSE reg_taint[c]

\* What an instruction makes of the sources that the cells held.
Moved(I, o, i, c) ==
    SourcesIn(Makes(I, o, i), c) \cup UNION {Holds(p[1]) : p \in {q \in Passes(ArrayOps, I, o) : q[2] = c}}

LEMMA MethodIs ==
    ASSUME NEW m \in TaintMethods
    PROVE  /\ Len(m.code) \in Nat /\ DOMAIN m.code = 1..Len(m.code)
           /\ \A i \in DOMAIN m.code : Decoded(m.code[i])
<1>1. /\ m.code \in Seq({m.code[i] : i \in DOMAIN m.code})
      /\ \A i \in DOMAIN m.code : Decoded(m.code[i])
  BY TaintConstantsOK
<1>. DEFINE All == {m.code[i] : i \in DOMAIN m.code}
             code == m.code
<1>2. code \in Seq(All)
  BY <1>1
<1>. HIDE DEF All, code
<1>3. Len(code) \in Nat /\ DOMAIN code = 1..Len(code)
  BY <1>2
<1>. QED BY <1>1, <1>3 DEF code

-----------------------------------------------------------------------------
\* The reference: what flows is what its recursive definition says.

\* One step of the definition.
FlowStep(m, o, before, i) ==
    IF i = 1
    THEN UNION {{<<r, s>> : s \in Seeded(m, o)[r]} : r \in Registers}
    ELSE UNION {FlowAfter(ArrayOps, m, o, j, before[j]) : j \in {k \in 1..i - 1 : i \in FlowTargets(m, k)}}

\* The definition depends on earlier instructions only.
LEMMA FlowStepLocal ==
    ASSUME NEW m, NEW o, NEW g, NEW h, NEW i \in Nat \ {0},
           \A j \in 1..i - 1 : g[j] = h[j]
    PROVE  FlowStep(m, o, g, i) = FlowStep(m, o, h, i)
<1>1. CASE i = 1
  BY <1>1 DEF FlowStep
<1>2. CASE i # 1
  <2>. DEFINE js == {k \in 1..i - 1 : i \in FlowTargets(m, k)}
  <2>1. \A j \in js : FlowAfter(ArrayOps, m, o, j, g[j]) = FlowAfter(ArrayOps, m, o, j, h[j])
    OBVIOUS
  <2>. HIDE DEF js
  <2>2. {FlowAfter(ArrayOps, m, o, j, g[j]) : j \in js} = {FlowAfter(ArrayOps, m, o, j, h[j]) : j \in js}
    BY <2>1
  <2>. QED BY <1>2, <2>2 DEF FlowStep, js
<1>. QED BY <1>1, <1>2

\* For every length there is a function that satisfies it.
LEMMA FlowsExist ==
    ASSUME NEW m, NEW o, NEW n \in Nat
    PROVE  \E g : g = [i \in 1..n |-> FlowStep(m, o, g, i)]
<1>. DEFINE Bad == {k \in Nat : ~ \E g : g = [i \in 1..k |-> FlowStep(m, o, g, i)]}
<1>1. SUFFICES ASSUME Bad # {} PROVE FALSE
  OBVIOUS
<1>2. PICK k \in Bad : \A j \in Bad : ~ (<<j, k>> \in OpToRel(<, Nat))
  BY <1>1, NatLessThanWellFounded, WFMin
<1>3. \A j \in Bad : ~ (j < k)
  BY <1>2 DEF OpToRel
<1>4. k \in Nat /\ ~ \E g : g = [i \in 1..k |-> FlowStep(m, o, g, i)]
  BY <1>2
<1>5. CASE k = 0
  <2>1. << >> = [i \in 1..k |-> FlowStep(m, o, << >>, i)]
    BY <1>5
  <2>. QED BY <1>4, <2>1
<1>6. CASE k # 0
  <2>1. k - 1 \in Nat /\ k - 1 < k
    BY <1>4, <1>6
  <2>2. PICK g : g = [i \in 1..k - 1 |-> FlowStep(m, o, g, i)]
    BY <1>3, <2>1
  <2>. DEFINE h == [i \in 1..k |-> FlowStep(m, o, g, i)]
  <2>3. \A i \in 1..k - 1 : h[i] = g[i]
    <3>1. TAKE i \in 1..k - 1
    <3>2. i \in 1..k
      BY <1>4
    <3>3. h[i] = FlowStep(m, o, g, i)
      BY <3>2
    <3>4. g[i] = FlowStep(m, o, g, i)
      BY <2>2
    <3>. QED BY <3>3, <3>4
  <2>. HIDE DEF h
  <2>4. ASSUME NEW i \in 1..k PROVE FlowStep(m, o, g, i) = FlowStep(m, o, h, i)
    <3>1. i \in Nat \ {0} /\ \A j \in 1..i - 1 : g[j] = h[j]
      BY <1>4, <2>3
    <3>. QED BY <3>1, FlowStepLocal
  <2>5. h = [i \in 1..k |-> FlowStep(m, o, h, i)]
    BY <2>4 DEF h
  <2>. QED BY <1>4, <2>5
<1>. QED BY <1>5, <1>6

LEMMA FlowUnfolds ==
    ASSUME NEW m \in TaintMethods, NEW o, NEW i \in 1..Len(m.code) + 1
    PROVE  FlowBefore(ArrayOps, m, o)[i] = FlowStep(m, o, FlowBefore(ArrayOps, m, o), i)
<1>1. Len(m.code) + 1 \in Nat
  BY MethodIs
<1>2. \E g : g = [j \in 1..Len(m.code) + 1 |-> FlowStep(m, o, g, j)]
  BY <1>1, FlowsExist
<1>3. FlowBefore(ArrayOps, m, o) = CHOOSE g : g = [j \in 1..Len(m.code) + 1 |-> FlowStep(m, o, g, j)]
  BY DEF FlowBefore, FlowStep
<1>4. FlowBefore(ArrayOps, m, o)
        = [j \in 1..Len(m.code) + 1 |-> FlowStep(m, o, FlowBefore(ArrayOps, m, o), j)]
  BY <1>2, <1>3
<1>. QED BY <1>4

\* What of a source in a cell is left after an instruction.
LEMMA SourcesAfter ==
    ASSUME NEW m, NEW o, NEW i, NEW before, NEW c
    PROVE  SourcesIn(FlowAfter(ArrayOps, m, o, i, before), c)
             = SourcesIn(Makes(m.code[i], o, i), c)
                 \cup UNION {SourcesIn(before, p[1]) :
                               p \in {q \in Passes(ArrayOps, m.code[i], o) : q[2] = c}}
<1>. DEFINE I == m.code[i]
            After == FlowAfter(ArrayOps, m, o, i, before)
<1>1. ASSUME NEW s
      PROVE  s \in SourcesIn(After, c)
               <=> s \in SourcesIn(Makes(I, o, i), c)
                     \/ \E p \in Passes(ArrayOps, I, o) : p[2] = c /\ s \in SourcesIn(before, p[1])
  <2>1. s \in SourcesIn(After, c) <=> \E f \in After : f[1] = c /\ f[2] = s
    BY DEF SourcesIn
  <2>2. \A f : f \in After <=> \/ f \in Makes(I, o, i)
                               \/ \E p \in Passes(ArrayOps, I, o) : \E g \in before :
                                      g[1] = p[1] /\ f = <<p[2], g[2]>>
    BY DEF FlowAfter
  <2>3. s \in SourcesIn(Makes(I, o, i), c) <=> \E f \in Makes(I, o, i) : f[1] = c /\ f[2] = s
    BY DEF SourcesIn
  <2>4. \A p : s \in SourcesIn(before, p[1]) <=> \E g \in before : g[1] = p[1] /\ g[2] = s
    BY DEF SourcesIn
  <2>. HIDE DEF After, I
  <2>5. ASSUME s \in SourcesIn(After, c), s \notin SourcesIn(Makes(I, o, i), c)
        PROVE  \E p \in Passes(ArrayOps, I, o) : p[2] = c /\ s \in SourcesIn(before, p[1])
    <3>1. PICK f \in After : f[1] = c /\ f[2] = s
      BY <2>1, <2>5
    <3>2. f \notin Makes(I, o, i)
      BY <2>3, <2>5, <3>1
    <3>3. PICK p \in Passes(ArrayOps, I, o) : \E g \in before : g[1] = p[1] /\ f = <<p[2], g[2]>>
      BY <2>2, <3>1, <3>2
    <3>4. PICK g \in before : g[1] = p[1] /\ f = <<p[2], g[2]>>
      BY <3>3
    <3>5. p[2] = c /\ g[2] = s
      BY <3>1, <3>4
    <3>. QED BY <2>4, <3>4, <3>5
  <2>6. ASSUME NEW p \in Passes(ArrayOps, I, o), p[2] = c, s \in SourcesIn(before, p[1])
        PROVE  s \in SourcesIn(After, c)
    <3>1. PICK g \in before : g[1] = p[1] /\ g[2] = s
      BY <2>4, <2>6
    <3>2. <<p[2], g[2]>> \in After
      BY <2>2, <3>1
    <3>3. <<p[2], g[2]>>[1] = c /\ <<p[2], g[2]>>[2] = s
      BY <2>6, <3>1
    <3>. QED BY <2>1, <3>2, <3>3
  <2>. QED BY <2>1, <2>2, <2>3, <2>5, <2>6
<1>. HIDE DEF After
<1>. QED BY <1>1 DEF After

-----------------------------------------------------------------------------
\* The pass does what the reference says of each instruction.

\* What comes into a cell along some pairs of cells.
Through(pairs, c) == UNION {Holds(p[1]) : p \in {q \in pairs : q[2] = c}}

One(d, e) == {<<d, e>>}
Fan(A, e) == {<<r, e>> : r \in A}

TaintTypes ==
    /\ analysed \in TaintMethods
    /\ overrides \in OverrideMaps
    /\ at \in 1..Len(Code) + 1
    /\ DOMAIN reg_taint = Registers

LEMMA ThroughIs ==
    ASSUME NEW X, NEW c, NEW s
    PROVE  s \in Through(X, c) <=> \E q \in X : q[2] = c /\ s \in Holds(q[1])
BY DEF Through

LEMMA ThroughTwo ==
    ASSUME NEW X, NEW Y, NEW c
    PROVE  Through(X \cup Y, c) = Through(X, c) \cup Through(Y, c)
BY DEF Through

LEMMA ThroughKeep ==
    ASSUME NEW W, NEW c \in Cells
    PROVE  Through(Keep(W), c) = IF c \in W THEN {} ELSE Holds(c)
<1>1. ASSUME NEW s
      PROVE  s \in Through(Keep(W), c) <=> c \notin W /\ s \in Holds(c)
  <2>1. ASSUME s \in Through(Keep(W), c) PROVE c \notin W /\ s \in Holds(c)
    <3>1. PICK q \in Keep(W) : q[2] = c /\ s \in Holds(q[1])
      BY <2>1, ThroughIs
    <3>2. PICK d \in Cells \ W : q = <<d, d>>
      BY DEF Keep
    <3>3. q[1] = d /\ q[2] = d
      BY <3>2
    <3>. QED BY <3>1, <3>3
  <2>2. ASSUME c \notin W, s \in Holds(c) PROVE s \in Through(Keep(W), c)
    <3>1. <<c, c>> \in Keep(W) /\ <<c, c>>[1] = c /\ <<c, c>>[2] = c
      BY <2>2 DEF Keep
    <3>. QED BY <2>2, <3>1, ThroughIs
  <2>. QED BY <2>1, <2>2
<1>. QED BY <1>1

LEMMA ThroughPair ==
    ASSUME NEW d, NEW e, NEW c
    PROVE  Through(One(d, e), c) = IF c = e THEN Holds(d) ELSE {}
<1>1. <<d, e>>[1] = d /\ <<d, e>>[2] = e
  OBVIOUS
<1>2. ASSUME NEW s
      PROVE  s \in Through(One(d, e), c) <=> c = e /\ s \in Holds(d)
  <2>1. s \in Through(One(d, e), c) <=> \E q \in One(d, e) : q[2] = c /\ s \in Holds(q[1])
    BY ThroughIs
  <2>. QED BY <1>1, <2>1 DEF One
<1>. QED BY <1>2

LEMMA ThroughArgs ==
    ASSUME NEW A, NEW e, NEW c
    PROVE  Through(Fan(A, e), c) = IF c = e THEN UNION {Holds(r) : r \in A} ELSE {}
<1>1. ASSUME NEW s
      PROVE  s \in Through(Fan(A, e), c) <=> c = e /\ \E r \in A : s \in Holds(r)
  <2>1. ASSUME s \in Through(Fan(A, e), c)
        PROVE  c = e /\ \E r \in A : s \in Holds(r)
    <3>1. PICK q \in Fan(A, e) : q[2] = c /\ s \in Holds(q[1])
      BY <2>1, ThroughIs
    <3>2. PICK r \in A : q = <<r, e>>
      BY DEF Fan
    <3>3. q[1] = r /\ q[2] = e
      BY <3>2
    <3>. QED BY <3>1, <3>3
  <2>2. ASSUME c = e, NEW r \in A, s \in Holds(r)
        PROVE  s \in Through(Fan(A, e), c)
    <3>1. <<r, e>> \in Fan(A, e) /\ <<r, e>>[1] = r /\ <<r, e>>[2] = e
      BY DEF Fan
    <3>. QED BY <2>2, <3>1, ThroughIs
  <2>. QED BY <2>1, <2>2
<1>. QED BY <1>1

LEMMA ThroughNone ==
    ASSUME NEW c
    PROVE  Through({}, c) = {}
BY DEF Through

LEMMA MovedThrough ==
    ASSUME NEW I, NEW o, NEW i, NEW c
    PROVE  Moved(I, o, i, c) = SourcesIn(Makes(I, o, i), c) \cup Through(Passes(ArrayOps, I, o), c)
BY DEF Moved, Through

LEMMA MadeByNone ==
    ASSUME NEW I, NEW o, NEW i, NEW c, I.op # "invoke"
    PROVE  SourcesIn(Makes(I, o, i), c) = {}
BY DEF SourcesIn, Makes

LEMMA MadeAre ==
    ASSUME NEW S, NEW c
    PROVE  SourcesIn({<<"result", s>> : s \in S}, c) = IF c = "result" THEN S ELSE {}
<1>. DEFINE made == {<<"result", s>> : s \in S}
<1>1. ASSUME NEW t
      PROVE  t \in SourcesIn(made, c) <=> c = "result" /\ t \in S
  <2>1. t \in SourcesIn(made, c) <=> \E f \in made : f[1] = c /\ f[2] = t
    BY DEF SourcesIn
  <2>2. \A f \in made : f[1] = "result" /\ f[2] \in S
    OBVIOUS
  <2>3. ASSUME t \in S
        PROVE  <<"result", t>> \in made /\ <<"result", t>>[1] = "result" /\ <<"result", t>>[2] = t
    BY <2>3
  <2>. HIDE DEF made
  <2>. QED BY <2>1, <2>2, <2>3
<1>. HIDE DEF made
<1>2. SourcesIn(made, c) = IF c = "result" THEN S ELSE {}
  BY <1>1
<1>. QED BY <1>2 DEF made

LEMMA MovedKeepOne ==
    ASSUME NEW I, NEW o, NEW i, NEW c \in Cells, NEW W, NEW d, NEW e,
           I.op # "invoke", Passes(ArrayOps, I, o) = Keep(W) \cup One(d, e)
    PROVE  Moved(I, o, i, c)
             = (IF c \in W THEN {} ELSE Holds(c)) \cup (IF c = e THEN Holds(d) ELSE {})
<1>. DEFINE A == Keep(W)
             B == One(d, e)
<1>1. Through(A, c) = IF c \in W THEN {} ELSE Holds(c)
  BY ThroughKeep
<1>2. Through(B, c) = IF c = e THEN Holds(d) ELSE {}
  BY ThroughPair
<1>. HIDE DEF A, B
<1>3. Through(A \cup B, c) = Through(A, c) \cup Through(B, c)
  BY ThroughTwo
<1>4. Moved(I, o, i, c) = Through(Passes(ArrayOps, I, o), c)
  BY MovedThrough, MadeByNone
<1>5. Passes(ArrayOps, I, o) = A \cup B
  BY DEF A, B
<1>. QED BY <1>1, <1>2, <1>3, <1>4, <1>5

\* What an instruction passes on was in a cell.
LEMMA PassesCells ==
    ASSUME NEW I, NEW o, Decoded(I), NEW p \in Passes(ArrayOps, I, o)
    PROVE  p[1] \in Cells
<1>1. \A W : \A q \in Keep(W) : q[1] \in Cells
  BY DEF Keep
<1>2. CASE I.op # "invoke"
  <2>1. CASE I.op = "copy"
    <3>1. p \in Keep({I.a}) \/ p = <<I.b, I.a>>
      BY <2>1 DEF Passes, ArrayOps
    <3>. QED BY <1>1, <2>1, <3>1 DEF Decoded, Cells
  <2>2. CASE I.op = "clear"
    <3>1. p \in Keep({I.a})
      BY <2>2 DEF Passes, ArrayOps
    <3>. QED BY <1>1, <3>1
  <2>3. CASE I.op = "union"
    <3>1. p \in Keep({I.a}) \/ p = <<I.b, I.a>> \/ p = <<I.c, I.a>>
      BY <2>3 DEF Passes, ArrayOps
    <3>. QED BY <1>1, <2>3, <3>1 DEF Decoded, Cells
  <2>4. CASE I.op = "move-result"
    <3>1. p \in Keep({I.a}) \/ p = <<"result", I.a>>
      BY <2>4 DEF Passes, ArrayOps
    <3>. QED BY <1>1, <3>1 DEF Cells
  <2>5. CASE I.op \in {"aput", "iput"}
    <3>1. p \in Keep({}) \/ p = <<I.a, I.b>>
      BY <2>5 DEF Passes, ArrayOps
    <3>. QED BY <1>1, <2>5, <3>1 DEF Decoded, Cells
  <2>6. CASE I.op \notin {"copy", "clear", "union", "move-result", "aput", "iput"}
    <3>1. p \in Keep({})
      BY <1>2, <2>6 DEF Passes, ArrayOps
    <3>. QED BY <1>1, <3>1
  <2>. QED BY <2>1, <2>2, <2>3, <2>4, <2>5, <2>6
<1>3. CASE I.op = "invoke"
  <2>1. \A r \in {I.args[k] : k \in DOMAIN I.args} : r \in Registers
    BY <1>3 DEF Decoded
  <2>2. \/ p \in Keep({"result"})
        \/ \E r \in {I.args[k] : k \in DOMAIN I.args} : p = <<r, "result">> \/ p = <<r, I.args[1]>>
    BY <1>3 DEF Passes, ArrayOps
  <2>. QED BY <1>1, <2>1, <2>2 DEF Cells
<1>. QED BY <1>2, <1>3

\* The registers and the result hold what flows through the instruction.
LEMMA MovesRight ==
    ASSUME TaintTypes, at \in DOMAIN Code, TaintNext, NEW c \in Cells
    PROVE  Holds(c)' = Moved(Current, overrides, at, c)
<1>. DEFINE I == Current
            T(X) == Through(X, c)
            K(W) == IF c \in W THEN {} ELSE Holds(c)
<1>1. Decoded(I) /\ DOMAIN reg_taint = Registers /\ "result" \notin Registers
  BY MethodIs, TaintConstantsOK DEF TaintTypes, Code, Current
<1>2. c = "result" \/ (c \in Registers /\ c # "result")
  BY <1>1 DEF Cells
<1>3. ASSUME I.op # "invoke"
      PROVE  Moved(I, overrides, at, c) = Through(Passes(ArrayOps, I, overrides), c)
  BY <1>3, MovedThrough, MadeByNone
<1>4. ASSUME Copy PROVE Holds(c)' = Moved(I, overrides, at, c)
  <2>1. I.op = "copy" /\ I.a \in Registers /\ I.b \in Registers
    BY <1>1, <1>4 DEF Copy, Is, Decoded
  <2>2. Passes(ArrayOps, I, overrides) = Keep({I.a}) \cup One(I.b, I.a)
    BY <2>1 DEF Passes, ArrayOps, One
  <2>3. Moved(I, overrides, at, c) = K({I.a}) \cup (IF c = I.a THEN Holds(I.b) ELSE {})
    BY <2>1, <2>2, MovedKeepOne
  <2>4. /\ last_invoke' = last_invoke
        /\ reg_taint' = [reg_taint EXCEPT ![I.a] = reg_taint[I.b]]
    BY <1>4 DEF Copy, SetTaint
  <2>. QED BY <1>1, <1>2, <2>1, <2>3, <2>4 DEF Holds
<1>5. ASSUME Clear PROVE Holds(c)' = Moved(I, overrides, at, c)
  <2>1. I.op = "clear" /\ I.a \in Registers
    BY <1>1, <1>5 DEF Clear, Is, Decoded
  <2>2. Passes(ArrayOps, I, overrides) = Keep({I.a})
    BY <2>1 DEF Passes, ArrayOps, One
  <2>3. Moved(I, overrides, at, c) = K({I.a})
    BY <1>3, <2>1, <2>2, ThroughKeep
  <2>4. /\ last_invoke' = last_invoke
        /\ reg_taint' = [reg_taint EXCEPT ![I.a] = {}]
    BY <1>5 DEF Clear, SetTaint
  <2>. QED BY <1>1, <1>2, <2>1, <2>3, <2>4 DEF Holds
<1>6. ASSUME Union PROVE Holds(c)' = Moved(I, overrides, at, c)
  <2>1. I.op = "union" /\ I.a \in Registers /\ I.b \in Registers /\ I.c \in Registers
    BY <1>1, <1>6 DEF Union, Is, Decoded
  <2>2. Passes(ArrayOps, I, overrides) = (Keep({I.a}) \cup One(I.b, I.a)) \cup One(I.c, I.a)
    BY <2>1 DEF Passes, ArrayOps, One
  <2>3. Moved(I, overrides, at, c) = (K({I.a}) \cup (IF c = I.a THEN Holds(I.b) ELSE {}))
                                        \cup (IF c = I.a THEN Holds(I.c) ELSE {})
    <3>. DEFINE A == Keep({I.a})
                B == One(I.b, I.a)
                D == One(I.c, I.a)
    <3>1. T(A) = K({I.a})
      BY ThroughKeep
    <3>2. /\ T(B) = IF c = I.a THEN Holds(I.b) ELSE {}
          /\ T(D) = IF c = I.a THEN Holds(I.c) ELSE {}
      BY ThroughPair
    <3>3. Moved(I, overrides, at, c) = Through(Passes(ArrayOps, I, overrides), c)
      BY <1>3, <2>1
    <3>. HIDE DEF A, B, D
    <3>4. Moved(I, overrides, at, c) = Through((A \cup B) \cup D, c)
      BY <2>2, <3>3 DEF A, B, D
    <3>5. /\ Through((A \cup B) \cup D, c) = Through(A \cup B, c) \cup Through(D, c)
          /\ Through(A \cup B, c) = Through(A, c) \cup Through(B, c)
      BY ThroughTwo
    <3>. QED BY <3>1, <3>2, <3>4, <3>5
  <2>4. /\ last_invoke' = last_invoke
        /\ reg_taint' = [reg_taint EXCEPT ![I.a] = reg_taint[I.b] \cup reg_taint[I.c]]
    BY <1>6 DEF Union, SetTaint
  <2>. QED BY <1>1, <1>2, <2>1, <2>3, <2>4 DEF Holds
<1>7. ASSUME TakeResult PROVE Holds(c)' = Moved(I, overrides, at, c)
  <2>1. I.op = "move-result" /\ I.a \in Registers
    BY <1>1, <1>7 DEF TakeResult, Is, Decoded
  <2>2. Passes(ArrayOps, I, overrides) = Keep({I.a}) \cup One("result", I.a)
    BY <2>1 DEF Passes, ArrayOps, One
  <2>3. Moved(I, overrides, at, c) = K({I.a}) \cup (IF c = I.a THEN Holds("result") ELSE {})
    BY <2>1, <2>2, MovedKeepOne
  <2>4. /\ last_invoke' = last_invoke
        /\ reg_taint' = [reg_taint EXCEPT ![I.a] = last_invoke]
    BY <1>7 DEF TakeResult, SetTaint
  <2>. QED BY <1>1, <1>2, <2>1, <2>3, <2>4 DEF Holds
<1>8. ASSUME StoreElement PROVE Holds(c)' = Moved(I, overrides, at, c)
  <2>1. I.op = "aput" /\ I.a \in Registers /\ I.b \in Registers
    BY <1>1, <1>8 DEF StoreElement, Is, Decoded
  <2>2. Passes(ArrayOps, I, overrides) = Keep({}) \cup One(I.a, I.b)
    BY <2>1 DEF Passes, ArrayOps, One
  <2>3. Moved(I, overrides, at, c) = K({}) \cup (IF c = I.b THEN Holds(I.a) ELSE {})
    BY <2>1, <2>2, MovedKeepOne
  <2>4. /\ last_invoke' = last_invoke
        /\ reg_taint' = [reg_taint EXCEPT ![I.b] = reg_taint[I.b] \cup reg_taint[I.a]]
    BY <1>8 DEF StoreElement, SetTaint, Stored
  <2>. QED BY <1>1, <1>2, <2>1, <2>3, <2>4 DEF Holds
<1>9. ASSUME FieldWrite PROVE Holds(c)' = Moved(I, overrides, at, c)
  <2>0. last_invoke' = last_invoke /\ I.op \in {"iput", "sput"}
    BY <1>9 DEF FieldWrite, Is
  <2>1. CASE I.op = "iput"
    <3>1. I.a \in Registers /\ I.b \in Registers
      BY <1>1, <2>1 DEF Decoded
    <3>2. Passes(ArrayOps, I, overrides) = Keep({}) \cup One(I.a, I.b)
      BY <2>1 DEF Passes, ArrayOps, One
    <3>3. Moved(I, overrides, at, c) = K({}) \cup (IF c = I.b THEN Holds(I.a) ELSE {})
      BY <2>1, <3>2, MovedKeepOne
    <3>4. reg_taint' = [reg_taint EXCEPT ![I.b] = reg_taint[I.b] \cup reg_taint[I.a]]
      BY <1>9, <2>1 DEF FieldWrite, Stored
    <3>. QED BY <1>1, <1>2, <2>0, <3>1, <3>3, <3>4 DEF Holds
  <2>2. CASE I.op = "sput"
    <3>1. Passes(ArrayOps, I, overrides) = Keep({})
      BY <2>2 DEF Passes, ArrayOps, One
    <3>2. Moved(I, overrides, at, c) = K({})
      BY <1>3, <2>2, <3>1, ThroughKeep
    <3>3. reg_taint' = reg_taint
      BY <1>9, <2>2 DEF FieldWrite
    <3>. QED BY <2>0, <3>2, <3>3 DEF Holds
  <2>. QED BY <2>0, <2>1, <2>2
<1>10. ASSUME ReportReturn \/ NoEffect PROVE Holds(c)' = Moved(I, overrides, at, c)
  <2>1. /\ I.op \in {"return", "if", "goto", "throw", "new-array", "filled-new-array"}
        /\ last_invoke' = last_invoke /\ reg_taint' = reg_taint
    BY <1>10 DEF ReportReturn, NoEffect, Is
  <2>2. Passes(ArrayOps, I, overrides) = Keep({})
    BY <2>1 DEF Passes, ArrayOps, One
  <2>3. Moved(I, overrides, at, c) = K({})
    BY <1>3, <2>1, <2>2, ThroughKeep
  <2>. QED BY <2>1, <2>3 DEF Holds
<1>11. ASSUME Invoke PROVE Holds(c)' = Moved(I, overrides, at, c)
  <2>. DEFINE args == {I.args[k] : k \in DOMAIN I.args}
              out == ReturnOverride(overrides, I.callee)
              carries == out = "none" /\ I.callee \notin SourceApis
  <2>1. /\ I.op = "invoke" /\ I.args \in Seq(Registers) /\ I.direct \in BOOLEAN
        /\ last_invoke' = ResultSources(I.callee)
        /\ reg_taint' = IF I.direct /\ I.args # <<>>
                        THEN [reg_taint EXCEPT ![I.args[1]] = reg_taint[I.args[1]] \cup ArgSources]
                        ELSE reg_taint
    BY <1>1, <1>11 DEF Invoke, Is, Decoded
  <2>2. args \subseteq Registers /\ (I.args # <<>> => I.args[1] \in Registers)
        /\ (I.args = <<>> => args = {})
    BY <2>1
  <2>3. UNION {Holds(r) : r \in args} = ArgSources
    <3>1. \A r \in args : Holds(r) = reg_taint[r]
      BY <1>1, <2>2 DEF Holds
    <3>2. UNION {Holds(r) : r \in args} = UNION {reg_taint[r] : r \in args}
      BY <3>1
    <3>. QED BY <3>2 DEF ArgSources
  <2>4. Passes(ArrayOps, I, overrides)
          = (Keep({"result"}) \cup (IF carries THEN Fan(args, "result") ELSE {}))
              \cup (IF I.direct THEN Fan(args, I.args[1]) ELSE {})
    BY <2>1 DEF Passes, ArrayOps, Fan
  <2>5. T(IF carries THEN Fan(args, "result") ELSE {})
          = IF carries /\ c = "result" THEN ArgSources ELSE {}
    <3>1. Through({}, c) = {}
      BY ThroughNone
    <3>2. Through(Fan(args, "result"), c)
            = IF c = "result" THEN UNION {Holds(r) : r \in args} ELSE {}
      BY ThroughArgs
    <3>. QED BY <2>3, <3>1, <3>2
  <2>6. T(IF I.direct THEN Fan(args, I.args[1]) ELSE {})
          = IF I.direct /\ c = I.args[1] THEN ArgSources ELSE {}
    <3>1. Through({}, c) = {}
      BY ThroughNone
    <3>2. Through(Fan(args, I.args[1]), c)
            = IF c = I.args[1] THEN UNION {Holds(r) : r \in args} ELSE {}
      BY ThroughArgs
    <3>. QED BY <2>3, <3>1, <3>2
  <2>7. T(Keep({"result"})) = IF c = "result" THEN {} ELSE Holds(c)
    BY ThroughKeep
  <2>8. Through(Passes(ArrayOps, I, overrides), c)
          = ((IF c = "result" THEN {} ELSE Holds(c))
               \cup (IF carries /\ c = "result" THEN ArgSources ELSE {}))
              \cup (IF I.direct /\ c = I.args[1] THEN ArgSources ELSE {})
    <3>. DEFINE A == Keep({"result"})
                B == IF carries THEN Fan(args, "result") ELSE {}
                D == IF I.direct THEN Fan(args, I.args[1]) ELSE {}
    <3>0. Passes(ArrayOps, I, overrides) = (A \cup B) \cup D
      BY <2>4
    <3>. HIDE DEF A, B, D
    <3>1. Through((A \cup B) \cup D, c) = Through(A \cup B, c) \cup Through(D, c)
      BY ThroughTwo
    <3>2. Through(A \cup B, c) = Through(A, c) \cup Through(B, c)
      BY ThroughTwo
    <3>3. Through(Passes(ArrayOps, I, overrides), c) = (Through(A, c) \cup Through(B, c)) \cup Through(D, c)
      BY <3>0, <3>1, <3>2
    <3>. QED BY <2>5, <2>6, <2>7, <3>3 DEF A, B, D
  <2>. DEFINE made == CASE out = "ReturnTainted" -> {Source("override", I.callee, at)}
                        [] out = "none" /\ I.callee \in SourceApis ->
                             {Source("api", I.callee, at)}
                        [] OTHER -> {}
  <2>9. SourcesIn(Makes(I, overrides, at), c) = IF c = "result" THEN made ELSE {}
    <3>1. Makes(I, overrides, at) = {<<"result", s>> : s \in made}
      <4>1. CASE out = "ReturnTainted"
        BY <2>1, <4>1 DEF Makes
      <4>2. CASE out = "none" /\ I.callee \in SourceApis
        BY <2>1, <4>2 DEF Makes
      <4>3. CASE out # "ReturnTainted" /\ ~ (out = "none" /\ I.callee \in SourceApis)
        BY <2>1, <4>3 DEF Makes
      <4>. QED BY <4>1, <4>2, <4>3
    <3>. HIDE DEF made
    <3>. QED BY <3>1, MadeAre
  <2>10. last_invoke' = IF carries THEN ArgSources ELSE made
    <3>1. CASE out = "ReturnTainted"
      BY <2>1, <3>1 DEF ResultSources
    <3>2. CASE out = "none" /\ I.callee \in SourceApis
      BY <2>1, <3>2 DEF ResultSources
    <3>3. CASE out = "none" /\ I.callee \notin SourceApis
      BY <2>1, <3>3 DEF ResultSources
    <3>4. CASE out \notin {"ReturnTainted", "none"}
      BY <2>1, <3>4 DEF ResultSources
    <3>. QED BY <3>1, <3>2, <3>3, <3>4
  <2>11. ArgSources # {} => I.args # <<>>
    BY <2>2, <2>3
  <2>12. CASE c = "result"
    <3>1. ~ (I.direct /\ c = I.args[1]) \/ ArgSources = {}
      BY <1>1, <2>2, <2>11, <2>12
    <3>2. Through(Passes(ArrayOps, I, overrides), c) = IF carries THEN ArgSources ELSE {}
      BY <2>8, <2>12, <3>1
    <3>3. Holds(c)' = last_invoke'
      BY <2>12 DEF Holds
    <3>. QED BY <2>9, <2>10, <2>12, <3>2, <3>3, MovedThrough
  <2>13. CASE c # "result"
    <3>1. Moved(I, overrides, at, c)
            = Holds(c) \cup (IF I.direct /\ c = I.args[1] THEN ArgSources ELSE {})
      BY <2>8, <2>9, <2>13, MovedThrough
    <3>2. Holds(c)' = reg_taint'[c] /\ Holds(c) = reg_taint[c]
      BY <2>13 DEF Holds
    <3>. QED BY <1>1, <1>2, <2>1, <2>2, <2>11, <2>13, <3>1, <3>2
  <2>. QED BY <2>12, <2>13
<1>. QED BY <1>4, <1>5, <1>6, <1>7, <1>8, <1>9, <1>10, <1>11 DEF TaintNext

-----------------------------------------------------------------------------
\* What flows, by what the instructions before pass on.

Seen(i, c) == Flows(ArrayOps, i, c)
SeenArgs(i) == ArgFlows(ArrayOps, i)

After(j, c) ==
    SourcesIn(FlowAfter(ArrayOps, analysed, overrides, j, FlowBefore(ArrayOps, analysed, overrides)[j]), c)

Into(i) == {k \in 1..i - 1 : i \in FlowTargets(analysed, k)}

LEMMA FlowsFrom ==
    ASSUME TaintTypes, NEW i \in 2..Len(Code) + 1, NEW c
    PROVE  Seen(i, c) = UNION {After(j, c) : j \in Into(i)}
<1>. DEFINE B == FlowBefore(ArrayOps, analysed, overrides)
            F(j) == FlowAfter(ArrayOps, analysed, overrides, j, B[j])
<1>1. i \in 1..Len(analysed.code) + 1 /\ i # 1 /\ analysed \in TaintMethods
  BY MethodIs DEF TaintTypes, Code
<1>2. B[i] = FlowStep(analysed, overrides, B, i)
  BY <1>1, FlowUnfolds
<1>3. B[i] = UNION {F(j) : j \in Into(i)}
  BY <1>1, <1>2 DEF FlowStep, Into
<1>4. Seen(i, c) = SourcesIn(UNION {F(j) : j \in Into(i)}, c)
  BY <1>3 DEF Seen, Flows
<1>5. ASSUME NEW s
      PROVE  s \in SourcesIn(UNION {F(j) : j \in Into(i)}, c)
               <=> \E j \in Into(i) : s \in SourcesIn(F(j), c)
  BY DEF SourcesIn
<1>6. \A j : After(j, c) = SourcesIn(F(j), c)
  BY DEF After
<1>. HIDE DEF F, B
<1>7. SourcesIn(UNION {F(j) : j \in Into(i)}, c) = UNION {SourcesIn(F(j), c) : j \in Into(i)}
  BY <1>5
<1>. QED BY <1>4, <1>6, <1>7

LEMMA AfterIs ==
    ASSUME NEW j, NEW c
    PROVE  After(j, c) = SourcesIn(Makes(Code[j], overrides, j), c)
              \cup UNION {Seen(j, p[1]) :
                            p \in {q \in Passes(ArrayOps, Code[j], overrides) : q[2] = c}}
BY SourcesAfter DEF After, Seen, Flows, Code

\* The seeds are what the first instruction finds.
LEMMA FlowsFirst ==
    ASSUME TaintTypes, NEW c \in Cells
    PROVE  Seen(1, c) = IF c = "result" THEN {} ELSE Seeded(analysed, overrides)[c]
<1>. DEFINE seeds == UNION {{<<r, s>> : s \in Seeded(analysed, overrides)[r]} : r \in Registers}
<1>1. FlowBefore(ArrayOps, analysed, overrides)[1] = seeds
  <2>1. 1 \in 1..Len(analysed.code) + 1 /\ analysed \in TaintMethods
    BY MethodIs DEF TaintTypes
  <2>. QED BY <2>1, FlowUnfolds, ZenonT(60) DEF FlowStep
<1>2. ASSUME NEW s
      PROVE  s \in SourcesIn(seeds, c)
               <=> c \in Registers /\ s \in Seeded(analysed, overrides)[c]
  <2>1. s \in SourcesIn(seeds, c) <=> \E f \in seeds : f[1] = c /\ f[2] = s
    BY DEF SourcesIn
  <2>2. \A f \in seeds : f[1] \in Registers /\ f[2] \in Seeded(analysed, overrides)[f[1]]
    <3>1. TAKE f \in seeds
    <3>2. PICK r \in Registers : \E t \in Seeded(analysed, overrides)[r] : f = <<r, t>>
      OBVIOUS
    <3>3. PICK t \in Seeded(analysed, overrides)[r] : f = <<r, t>>
      BY <3>2
    <3>. QED BY <3>3
  <2>3. ASSUME c \in Registers, s \in Seeded(analysed, overrides)[c]
        PROVE  <<c, s>> \in seeds /\ <<c, s>>[1] = c /\ <<c, s>>[2] = s
    BY <2>3
  <2>. HIDE DEF seeds
  <2>. QED BY <2>1, <2>2, <2>3
<1>3. c # "result" <=> c \in Registers
  BY TaintConstantsOK DEF Cells
<1>. HIDE DEF seeds
<1>. QED BY <1>1, <1>2, <1>3 DEF Seen, Flows

-----------------------------------------------------------------------------
\* Every step goes to the next instruction.
LEMMA StepsOnward ==
    ASSUME TaintTypes, TaintNext
    PROVE  /\ at \in DOMAIN Code /\ at' = at + 1
           /\ analysed' = analysed /\ overrides' = overrides /\ Code' = Code
           /\ TaintTypes'
<1>1. /\ at \in DOMAIN Code /\ at' = at + 1
      /\ analysed' = analysed /\ overrides' = overrides
      /\ DOMAIN reg_taint' = DOMAIN reg_taint
  BY DEF TaintNext, Copy, Clear, Union, TakeResult, StoreElement, FieldWrite, Invoke,
         ReportReturn, NoEffect, SetTaint, Is, Onward
<1>2. Code' = Code
  BY <1>1 DEF Code
<1>3. DOMAIN Code = 1..Len(Code) /\ Len(Code) \in Nat
  BY MethodIs DEF TaintTypes, Code
<1>. QED BY <1>1, <1>2, <1>3 DEF TaintTypes

LEMMA SameReference ==
    ASSUME analysed' = analysed, overrides' = overrides
    PROVE  /\ \A i, c : Seen(i, c)' = Seen(i, c) /\ After(i, c)' = After(i, c)
           /\ \A i : SeenArgs(i)' = SeenArgs(i)
           /\ Writes' = Writes /\ Returns' = Returns
           /\ Calls(SinkApis)' = Calls(SinkApis)
           /\ Straight' = Straight
           /\ (\A k \in DOMAIN Code : Skippable(k) => OnlyAdds(k))'
                = (\A k \in DOMAIN Code : Skippable(k) => OnlyAdds(k))
<1>1. Code' = Code
  BY DEF Code
<1>2. \A i, c : Seen(i, c)' = Seen(i, c) /\ After(i, c)' = After(i, c)
  BY DEF Seen, Flows, After
<1>3. \A i : SeenArgs(i)' = SeenArgs(i)
  BY <1>1, <1>2 DEF SeenArgs, Seen, ArgFlows
<1>4. Writes' = Writes /\ Returns' = Returns /\ Calls(SinkApis)' = Calls(SinkApis)
  BY <1>1 DEF Writes, Returns, Calls
<1>5. Straight' = Straight
  BY <1>1 DEF Straight
<1>6. (\A k \in DOMAIN Code : Skippable(k) => OnlyAdds(k))'
        = (\A k \in DOMAIN Code : Skippable(k) => OnlyAdds(k))
  BY <1>1 DEF Skippable, OnlyAdds
<1>. QED BY <1>2, <1>3, <1>4, <1>5, <1>6

\* What a step reports.
LEMMA StepReports ==
    ASSUME TaintTypes, TaintNext
    PROVE  /\ sinks' = IF at \in Calls(SinkApis) /\ TaintedArgs # {}
                       THEN sinks \cup {[at |-> at, args |-> TaintedArgs, sources |-> ArgSources]}
                       ELSE sinks
           /\ fields' = IF at \in Writes /\ reg_taint[Current.a] # {}
                        THEN fields \cup {[at |-> at, sources |-> reg_taint[Current.a]]}
                        ELSE fields
           /\ returned' = IF at \in Returns /\ reg_taint[Current.a] # {}
                          THEN reg_taint[Current.a] ELSE returned
<1>1. at \in DOMAIN Code
  BY StepsOnward
<1>2. CASE Invoke
  BY <1>1, <1>2 DEF Invoke, Is, Calls, Writes, Returns, Current
<1>3. CASE FieldWrite
  BY <1>1, <1>3 DEF FieldWrite, Is, Calls, Writes, Returns, Current
<1>4. CASE ReportReturn
  BY <1>1, <1>4 DEF ReportReturn, Is, Calls, Writes, Returns, Current
<1>5. CASE Copy \/ Clear \/ Union \/ TakeResult \/ StoreElement \/ NoEffect
  BY <1>1, <1>5 DEF Copy, Clear, Union, TakeResult, StoreElement, NoEffect, SetTaint, Is,
     Calls, Writes, Returns, Current
<1>. QED BY <1>2, <1>3, <1>4, <1>5 DEF TaintNext

-----------------------------------------------------------------------------
\* Without branches.

SinkReport(i) ==
    [at |-> i, sources |-> SeenArgs(i),
     args |-> {k \in DOMAIN Code[i].args : Seen(i, Code[i].args[k]) # {}}]
WriteReport(i) == [at |-> i, sources |-> Seen(i, Code[i].a)]

\* The reports that the instructions before the n-th call for.
SinksBelow(n) == {SinkReport(i) : i \in {j \in Calls(SinkApis) : j < n /\ SeenArgs(j) # {}}}
WritesBelow(n) == {WriteReport(i) : i \in {j \in Writes : j < n /\ Seen(j, Code[j].a) # {}}}
ReturnsBelow(n) == UNION {Seen(i, Code[i].a) : i \in {j \in Returns : j < n}}

\* So far the report is exact, and the registers hold what flows.
Exact ==
    /\ at <= Len(Code) => \A c \in Cells : Holds(c) = Seen(at, c)
    /\ sinks = SinksBelow(at)
    /\ fields = WritesBelow(at)
    /\ returned = ReturnsBelow(at)

LEMMA SameReports ==
    ASSUME TaintTypes, TaintNext
    PROVE  /\ SinksBelow(at)' = SinksBelow(at + 1)
           /\ WritesBelow(at)' = WritesBelow(at + 1)
           /\ ReturnsBelow(at)' = ReturnsBelow(at + 1)
<1>1. /\ at' = at + 1 /\ Code' = Code
      /\ \A i, c : Seen(i, c)' = Seen(i, c)
      /\ \A i : SeenArgs(i)' = SeenArgs(i)
      /\ Writes' = Writes /\ Returns' = Returns
      /\ Calls(SinkApis)' = Calls(SinkApis)
  BY StepsOnward, SameReference
<1>2. \A i : SinkReport(i)' = SinkReport(i) /\ WriteReport(i)' = WriteReport(i)
  BY <1>1 DEF SinkReport, WriteReport
<1>. QED BY <1>1, <1>2 DEF SinksBelow, WritesBelow, ReturnsBelow

\* Only the instruction before goes to an instruction of straight code.
LEMMA StraightInto ==
    ASSUME TaintTypes, Straight, NEW i \in 2..Len(Code)
    PROVE  Into(i) = {i - 1}
<1>1. Len(Code) \in Nat
  BY MethodIs DEF TaintTypes, Code
<1>2. \A k \in 1..i - 1 : FlowTargets(analysed, k) = {k + 1}
  BY <1>1 DEF Straight
<1>. QED BY <1>1, <1>2 DEF Into

LEMMA WritesAre == \A j \in Writes : j \in DOMAIN Code
BY DEF Writes

LEMMA ExactStep ==
    ASSUME TaintTypes, TaintNext, Straight, Exact
    PROVE  Exact'
<1>1. /\ at \in DOMAIN Code /\ at' = at + 1
      /\ analysed' = analysed /\ overrides' = overrides /\ Code' = Code
      /\ DOMAIN Code = 1..Len(Code) /\ Len(Code) \in Nat
  BY StepsOnward, MethodIs DEF TaintTypes, Code
<1>2. \A c \in Cells : Holds(c) = Seen(at, c)
  BY <1>1 DEF Exact
<1>3. \A r \in Registers : reg_taint[r] = Seen(at, r)
  BY <1>2, TaintConstantsOK DEF Cells, Holds
<1>4. Decoded(Current) /\ Current = Code[at]
  BY <1>1, MethodIs DEF TaintTypes, Code, Current
<1>5. ASSUME at + 1 <= Len(Code), NEW c \in Cells
      PROVE  Holds(c)' = Seen(at + 1, c)
  <2>2. Holds(c)' = Moved(Current, overrides, at, c)
    BY <1>1, MovesRight
  <2>3. at + 1 \in 2..Len(Code) /\ at + 1 \in 2..Len(Code) + 1 /\ (at + 1) - 1 = at
    BY <1>1, <1>5
  <2>4. Into(at + 1) = {at}
    BY <2>3, StraightInto
  <2>5. Seen(at + 1, c) = UNION {After(j, c) : j \in Into(at + 1)}
    BY <2>3, FlowsFrom
  <2>6. Seen(at + 1, c) = After(at, c)
    BY <2>4, <2>5
  <2>7. \A p \in Passes(ArrayOps, Current, overrides) : Holds(p[1]) = Seen(at, p[1])
    <3>1. \A p \in Passes(ArrayOps, Current, overrides) : p[1] \in Cells
      BY <1>4, PassesCells
    <3>. QED BY <1>2, <3>1
  <2>8. {Holds(p[1]) : p \in {q \in Passes(ArrayOps, Current, overrides) : q[2] = c}}
          = {Seen(at, p[1]) : p \in {q \in Passes(ArrayOps, Current, overrides) : q[2] = c}}
    BY <2>7
  <2>. QED BY <1>4, <2>2, <2>6, <2>8, AfterIs DEF Moved
<1>6. sinks' = SinksBelow(at + 1)
  <2>1. CASE at \notin Calls(SinkApis)
    <3>1. SinksBelow(at + 1) = SinksBelow(at)
      BY <1>1, <2>1 DEF SinksBelow, Calls
    <3>. QED BY <2>1, <3>1, StepReports DEF Exact
  <2>2. CASE at \in Calls(SinkApis)
    <3>1. Current.args \in Seq(Registers)
      BY <1>4, <2>2 DEF Calls, Decoded
    <3>2. \A k \in DOMAIN Current.args : reg_taint[Current.args[k]] = Seen(at, Current.args[k])
      BY <1>3, <3>1
    <3>3. ArgSources = SeenArgs(at)
      BY <1>4, <3>2 DEF ArgSources, SeenArgs, Seen, ArgFlows
    <3>4. TaintedArgs = {k \in DOMAIN Current.args : Seen(at, Current.args[k]) # {}}
      BY <3>2 DEF TaintedArgs
    <3>5. TaintedArgs # {} <=> SeenArgs(at) # {}
      BY <1>4, <3>4 DEF SeenArgs, Seen, ArgFlows
    <3>6. SinkReport(at) = [at |-> at, args |-> TaintedArgs, sources |-> ArgSources]
      BY <1>4, <3>3, <3>4 DEF SinkReport
    <3>7. SinksBelow(at + 1)
            = SinksBelow(at) \cup (IF SeenArgs(at) # {} THEN {SinkReport(at)} ELSE {})
      BY <1>1, <2>2 DEF SinksBelow, Calls
    <3>. QED BY <2>2, <3>5, <3>6, <3>7, StepReports DEF Exact
  <2>. QED BY <2>1, <2>2
<1>7. fields' = WritesBelow(at + 1)
  <2>1. CASE at \notin Writes
    <3>1. {j \in Writes : j < at + 1 /\ Seen(j, Code[j].a) # {}}
            = {j \in Writes : j < at /\ Seen(j, Code[j].a) # {}}
      BY <1>1, <2>1, WritesAre
    <3>2. WritesBelow(at + 1) = WritesBelow(at)
      BY <3>1 DEF WritesBelow
    <3>. QED BY <2>1, <3>2, StepReports DEF Exact
  <2>2. CASE at \in Writes
    <3>1. reg_taint[Current.a] = Seen(at, Code[at].a)
      BY <1>3, <1>4, <2>2 DEF Writes, Decoded
    <3>2. WritesBelow(at + 1)
            = WritesBelow(at) \cup (IF Seen(at, Code[at].a) # {} THEN {WriteReport(at)} ELSE {})
      <4>1. {j \in Writes : j < at + 1 /\ Seen(j, Code[j].a) # {}}
              = {j \in Writes : j < at /\ Seen(j, Code[j].a) # {}}
                  \cup (IF Seen(at, Code[at].a) # {} THEN {at} ELSE {})
        BY <1>1, <2>2, WritesAre
      <4>. QED BY <4>1 DEF WritesBelow
    <3>. QED BY <2>2, <3>1, <3>2, StepReports DEF Exact, WriteReport
  <2>. QED BY <2>1, <2>2
<1>8. returned' = ReturnsBelow(at + 1)
  <2>1. CASE at \notin Returns
    <3>1. ReturnsBelow(at + 1) = ReturnsBelow(at)
      BY <1>1, <2>1 DEF ReturnsBelow, Returns
    <3>. QED BY <2>1, <3>1, StepReports DEF Exact
  <2>2. CASE at \in Returns
    <3>1. reg_taint[Current.a] = Seen(at, Code[at].a)
      BY <1>3, <1>4, <2>2 DEF Returns, Decoded
    <3>2. \A j \in Returns : ~ (j < at)
      <4>1. \A j \in Returns : FlowTargets(analysed, j) = {}
        BY DEF Returns, FlowTargets, Code
      <4>2. \A j \in 1..Len(Code) - 1 : FlowTargets(analysed, j) # {}
        BY DEF Straight
      <4>. QED BY <1>1, <4>1, <4>2 DEF Returns
    <3>3. ReturnsBelow(at) = {} /\ ReturnsBelow(at + 1) = Seen(at, Code[at].a)
      <4>1. {j \in Returns : j < at} = {} /\ {j \in Returns : j < at + 1} = {at}
        BY <1>1, <2>2, <3>2 DEF Returns
      <4>. QED BY <4>1 DEF ReturnsBelow
    <3>. QED BY <2>2, <3>1, <3>3, StepReports DEF Exact
  <2>. QED BY <2>1, <2>2
<1>. QED BY <1>1, <1>5, <1>6, <1>7, <1>8, SameReports, SameReference DEF Exact

-----------------------------------------------------------------------------
\* With branches that only add.

AddsWhereSkipped == \A k \in DOMAIN Code : Skippable(k) => OnlyAdds(k)

\* The cells hold what flows here, and what branches have sent further on; the
\* reports cover what flowed into the instructions before.
Covering ==
    /\ \A c \in Cells : Seen(at, c) \subseteq Holds(c)
    /\ \A j \in 1..at - 1 : \A k \in FlowTargets(analysed, j) :
          k >= at => \A c \in Cells : After(j, c) \subseteq Holds(c)
    /\ \A i \in Calls(SinkApis) : i < at /\ SeenArgs(i) # {} =>
          \E s \in sinks : s.at = i /\ SeenArgs(i) \subseteq s.sources
    /\ \A i \in Writes : i < at /\ Seen(i, Code[i].a) # {} =>
          \E f \in fields : f.at = i /\ Seen(i, Code[i].a) \subseteq f.sources
    /\ \A i \in Returns : i < at /\ Seen(i, Code[i].a) # {} => returned # {}

\* What is moved through an instruction grows with what the cells held.
LEMMA MovedCovers ==
    ASSUME TaintTypes, at \in DOMAIN Code,
           \A c \in Cells : Seen(at, c) \subseteq Holds(c),
           NEW c \in Cells
    PROVE  After(at, c) \subseteq Moved(Current, overrides, at, c)
<1>1. Decoded(Current) /\ Current = Code[at]
  BY MethodIs DEF TaintTypes, Code, Current
<1>2. \A p \in Passes(ArrayOps, Current, overrides) : Seen(at, p[1]) \subseteq Holds(p[1])
  BY <1>1, PassesCells
<1>3. UNION {Seen(at, p[1]) : p \in {q \in Passes(ArrayOps, Current, overrides) : q[2] = c}}
        \subseteq UNION {Holds(p[1]) : p \in {q \in Passes(ArrayOps, Current, overrides) : q[2] = c}}
  BY <1>2
<1>. QED BY <1>1, <1>3, AfterIs DEF Moved

\* An instruction that only adds leaves every cell what it has.
LEMMA AddingKeeps ==
    ASSUME NEW c \in Cells, OnlyAdds(at)
    PROVE  Holds(c) \subseteq Moved(Current, overrides, at, c)
<1>1. <<c, c>> \in Passes(ArrayOps, Current, overrides) /\ <<c, c>>[1] = c /\ <<c, c>>[2] = c
  BY DEF OnlyAdds, Keep, Current
<1>. QED BY <1>1 DEF Moved

\* A target other than the next instruction is a jump's.
LEMMA TargetsAre ==
    ASSUME NEW j, NEW k \in FlowTargets(analysed, j)
    PROVE  k = j + 1 \/ (Code[j].op \in {"if", "goto"} /\ Code[j].to = k)
<1>1. CASE Code[j].op = "if"
  BY <1>1 DEF FlowTargets, Code
<1>2. CASE Code[j].op = "goto"
  BY <1>2 DEF FlowTargets, Code
<1>3. CASE Code[j].op \in {"return", "throw"}
  BY <1>3 DEF FlowTargets, Code
<1>4. CASE Code[j].op \notin {"if", "goto", "return", "throw"}
  BY <1>4 DEF FlowTargets, Code
<1>. QED BY <1>1, <1>2, <1>3, <1>4

LEMMA CoveringStep ==
    ASSUME TaintTypes, TaintNext, AddsWhereSkipped, Covering
    PROVE  Covering'
<1>1. /\ at \in DOMAIN Code /\ at' = at + 1
      /\ analysed' = analysed /\ overrides' = overrides /\ Code' = Code
      /\ DOMAIN Code = 1..Len(Code) /\ Len(Code) \in Nat
  BY StepsOnward, MethodIs DEF TaintTypes, Code
<1>2. \A r \in Registers : Seen(at, r) \subseteq reg_taint[r]
  BY TaintConstantsOK DEF Covering, Cells, Holds
<1>3. Decoded(Current) /\ Current = Code[at]
  BY <1>1, MethodIs DEF TaintTypes, Code, Current
<1>4. \A c \in Cells : Holds(c)' = Moved(Current, overrides, at, c)
  BY <1>1, MovesRight
<1>5. ASSUME NEW j \in 1..at, NEW k \in FlowTargets(analysed, j), k >= at + 1, NEW c \in Cells
      PROVE  After(j, c) \subseteq Holds(c)'
  <2>1. CASE j = at
    <3>1. After(at, c) \subseteq Moved(Current, overrides, at, c)
      BY <1>1, MovedCovers DEF Covering
    <3>. QED BY <1>4, <2>1, <3>1
  <2>2. CASE j # at
    <3>0. at \in Nat /\ j \in Nat /\ j < at /\ j \in DOMAIN Code /\ Decoded(Code[j])
      <4>1. at \in Nat /\ j \in Nat /\ j < at /\ j \in DOMAIN Code
        BY <1>1, <2>2
      <4>. QED BY <4>1, MethodIs DEF TaintTypes, Code
    <3>. k \in Nat
      BY <3>0, TargetsAre DEF Decoded
    <3>1. j \in 1..at - 1 /\ k >= at /\ k > at /\ k # j + 1
      BY <1>5, <3>0
    <3>2. After(j, c) \subseteq Holds(c)
      BY <3>1 DEF Covering
    <3>3. Code[j].op \in {"if", "goto"} /\ Code[j].to = k
      BY <3>1, TargetsAre
    <3>4. Skippable(at)
      BY <3>0, <3>1, <3>3 DEF Skippable
    <3>5. Holds(c) \subseteq Moved(Current, overrides, at, c)
      BY <1>1, <3>4, AddingKeeps DEF AddsWhereSkipped
    <3>. QED BY <1>4, <3>2, <3>5
  <2>. QED BY <2>1, <2>2
<1>6. ASSUME NEW c \in Cells PROVE Seen(at + 1, c) \subseteq Holds(c)'
  <2>1. at + 1 \in 2..Len(Code) + 1 /\ (at + 1) - 1 = at
    BY <1>1
  <2>2. Seen(at + 1, c) = UNION {After(j, c) : j \in Into(at + 1)}
    BY <2>1, FlowsFrom
  <2>3. \A j \in Into(at + 1) : j \in 1..at /\ at + 1 \in FlowTargets(analysed, j)
    BY <2>1 DEF Into
  <2>4. at + 1 >= at + 1
    BY <1>1
  <2>. QED BY <1>5, <2>2, <2>3, <2>4
<1>7. ASSUME NEW i \in Calls(SinkApis), i < at + 1, SeenArgs(i) # {}
      PROVE  \E s \in sinks' : s.at = i /\ SeenArgs(i) \subseteq s.sources
  <2>0. sinks \subseteq sinks'
    BY StepReports
  <2>1. CASE i < at
    BY <1>7, <2>0, <2>1 DEF Covering
  <2>2. CASE i = at
    <3>1. Current.args \in Seq(Registers)
      BY <1>3, <1>7, <2>2 DEF Calls, Decoded
    <3>2. \A k \in DOMAIN Current.args :
             Seen(at, Current.args[k]) \subseteq reg_taint[Current.args[k]]
      BY <1>2, <3>1
    <3>3. SeenArgs(at) \subseteq ArgSources
      BY <1>3, <3>2 DEF ArgSources, SeenArgs, Seen, ArgFlows
    <3>4. TaintedArgs # {}
      BY <1>3, <1>7, <2>2, <3>2 DEF TaintedArgs, SeenArgs, Seen, ArgFlows
    <3>. DEFINE s == [at |-> at, args |-> TaintedArgs, sources |-> ArgSources]
    <3>5. s \in sinks' /\ s.at = i /\ s.sources = ArgSources
      BY <1>7, <2>2, <3>4, StepReports
    <3>. QED BY <2>2, <3>3, <3>5
  <2>. QED BY <1>1, <1>7, <2>1, <2>2 DEF Calls
<1>8. ASSUME NEW i \in Writes, i < at + 1, Seen(i, Code[i].a) # {}
      PROVE  \E f \in fields' : f.at = i /\ Seen(i, Code[i].a) \subseteq f.sources
  <2>0. fields \subseteq fields'
    BY StepReports
  <2>1. CASE i < at
    BY <1>8, <2>0, <2>1 DEF Covering
  <2>2. CASE i = at
    <3>1. Seen(at, Code[at].a) \subseteq reg_taint[Current.a]
      BY <1>2, <1>3, <1>8, <2>2 DEF Writes, Decoded
    <3>. DEFINE f == [at |-> at, sources |-> reg_taint[Current.a]]
    <3>2. f \in fields' /\ f.at = i /\ f.sources = reg_taint[Current.a]
      BY <1>8, <2>2, <3>1, StepReports
    <3>. QED BY <2>2, <3>1, <3>2
  <2>. QED BY <1>1, <1>8, <2>1, <2>2, WritesAre
<1>9. ASSUME NEW i \in Returns, i < at + 1, Seen(i, Code[i].a) # {}
      PROVE  returned' # {}
  <2>1. CASE i < at
    BY <1>9, <2>1, StepReports DEF Covering
  <2>2. CASE i = at
    <3>1. Seen(at, Code[at].a) \subseteq reg_taint[Current.a]
      BY <1>2, <1>3, <1>9, <2>2 DEF Returns, Decoded
    <3>. QED BY <1>9, <2>2, <3>1, StepReports
  <2>. QED BY <1>1, <1>9, <2>1, <2>2 DEF Returns
<1>10. (at + 1) - 1 = at
  BY <1>1
<1>11. /\ \A i, c : Seen(i, c)' = Seen(i, c) /\ After(i, c)' = After(i, c)
       /\ \A i : SeenArgs(i)' = SeenArgs(i)
       /\ Writes' = Writes /\ Returns' = Returns /\ Calls(SinkApis)' = Calls(SinkApis)
       /\ \A j : FlowTargets(analysed, j)' = FlowTargets(analysed, j)
  BY <1>1, SameReference
<1>12. /\ (\A c \in Cells : Seen(at, c) \subseteq Holds(c))'
       /\ (\A j \in 1..at - 1 : \A k \in FlowTargets(analysed, j) :
              k >= at => \A c \in Cells : After(j, c) \subseteq Holds(c))'
  BY <1>1, <1>5, <1>6, <1>10, <1>11
<1>13. (\A i \in Calls(SinkApis) : i < at /\ SeenArgs(i) # {} =>
           \E s \in sinks : s.at = i /\ SeenArgs(i) \subseteq s.sources)'
  <2>1. \A i \in Calls(SinkApis) : i < at + 1 /\ SeenArgs(i) # {} =>
           \E s \in sinks' : s.at = i /\ SeenArgs(i) \subseteq s.sources
    BY <1>7
  <2>. QED BY <1>1, <1>11, <2>1, ZenonT(60)
<1>14. (\A i \in Writes : i < at /\ Seen(i, Code[i].a) # {} =>
           \E f \in fields : f.at = i /\ Seen(i, Code[i].a) \subseteq f.sources)'
  <2>1. \A i \in Writes : i < at + 1 /\ Seen(i, Code[i].a) # {} =>
           \E f \in fields' : f.at = i /\ Seen(i, Code[i].a) \subseteq f.sources
    BY <1>8
  <2>. QED BY <1>1, <1>11, <2>1, ZenonT(60)
<1>15. (\A i \in Returns : i < at /\ Seen(i, Code[i].a) # {} => returned # {})'
  BY <1>1, <1>9, <1>11, ZenonT(60)
<1>. QED BY <1>12, <1>13, <1>14, <1>15 DEF Covering

-----------------------------------------------------------------------------
\* The inductive invariant of the pass.
TaintInv ==
    /\ TaintTypes
    /\ Straight => Exact
    /\ AddsWhereSkipped => Covering

LEMMA TaintInitOK == TaintInit => TaintInv
<1>. SUFFICES ASSUME TaintInit PROVE TaintInv
  OBVIOUS
<1>1. TaintTypes
  <2>1. analysed \in TaintMethods /\ at = 1 /\ DOMAIN reg_taint = Registers
    BY DEF TaintInit, Seeded
  <2>. QED BY <2>1, MethodIs DEF TaintInit, TaintTypes, Code
<1>2. \A c \in Cells : Holds(c) = Seen(at, c)
  BY <1>1, FlowsFirst, TaintConstantsOK DEF TaintInit, Holds
<1>3. /\ at = 1 /\ sinks = {} /\ fields = {} /\ returned = {}
      /\ \A i \in DOMAIN Code : i \in Nat /\ i >= 1
  BY <1>1, MethodIs DEF TaintInit, TaintTypes, Code
<1>4. /\ \A i \in Calls(SinkApis) : ~ (i < at)
      /\ \A i \in Writes : ~ (i < at)
      /\ \A i \in Returns : ~ (i < at)
  BY <1>3 DEF Calls, Writes, Returns
<1>5. Exact
  <2>1. SinksBelow(at) = {} /\ WritesBelow(at) = {} /\ ReturnsBelow(at) = {}
    BY <1>4 DEF SinksBelow, WritesBelow, ReturnsBelow
  <2>. QED BY <1>2, <1>3, <2>1 DEF Exact
<1>6. Covering
  BY <1>2, <1>3, <1>4 DEF Covering
<1>. QED BY <1>1, <1>5, <1>6 DEF TaintInv

\* TaintInv always holds: ahead of every instruction the registers and the latest
\* result hold what flows there without the array instructions, exactly that on
\* straight code, and at least that where a branch skips only what adds.
THEOREM TaintInvAlways == TaintSpec => []TaintInv
<1>1. TaintInv /\ [TaintNext]_taintVars => TaintInv'
  <2>1. ASSUME TaintInv, TaintNext PROVE TaintInv'
    <3>1. TaintTypes /\ TaintTypes' /\ analysed' = analysed /\ overrides' = overrides
      BY <2>1, StepsOnward DEF TaintInv
    <3>2. Straight' = Straight /\ AddsWhereSkipped' = AddsWhereSkipped
      BY <3>1, SameReference DEF AddsWhereSkipped
    <3>. QED BY <2>1, <3>1, <3>2, ExactStep, CoveringStep DEF TaintInv
  <2>2. ASSUME TaintInv, UNCHANGED taintVars PROVE TaintInv'
    <3>1. /\ analysed' = analysed /\ overrides' = overrides /\ at' = at
          /\ reg_taint' = reg_taint /\ last_invoke' = last_invoke
          /\ sinks' = sinks /\ fields' = fields /\ returned' = returned
      BY <2>2 DEF taintVars
    <3>2. /\ \A i, c : Seen(i, c)' = Seen(i, c) /\ After(i, c)' = After(i, c)
          /\ \A i : SeenArgs(i)' = SeenArgs(i)
          /\ Writes' = Writes /\ Returns' = Returns /\ Calls(SinkApis)' = Calls(SinkApis)
          /\ Straight' = Straight /\ AddsWhereSkipped' = AddsWhereSkipped
      BY <3>1, SameReference DEF AddsWhereSkipped
    <3>3. Code' = Code /\ \A c : Holds(c)' = Holds(c)
      BY <3>1 DEF Code, Holds
    <3>4. \A i : SinkReport(i)' = SinkReport(i) /\ WriteReport(i)' = WriteReport(i)
      BY <3>2, <3>3 DEF SinkReport, WriteReport
    <3>5. TaintTypes'
      BY <2>2, <3>1, <3>3 DEF TaintInv, TaintTypes
    <3>6. Exact => Exact'
      <4>1. SinksBelow(at)' = SinksBelow(at)
        BY <3>1, <3>2, <3>4 DEF SinksBelow
      <4>2. WritesBelow(at)' = WritesBelow(at)
        BY <3>1, <3>2, <3>3, <3>4 DEF WritesBelow
      <4>3. ReturnsBelow(at)' = ReturnsBelow(at)
        BY <3>1, <3>2, <3>3 DEF ReturnsBelow
      <4>. QED BY <3>1, <3>2, <3>3, <4>1, <4>2, <4>3 DEF Exact
    <3>7. Covering => Covering'
      BY <3>1, <3>2, <3>3 DEF Covering
    <3>. QED BY <2>2, <3>2, <3>5, <3>6, <3>7 DEF TaintInv
  <2>. QED BY <2>1, <2>2
<1>. QED BY <1>1, TaintInitOK, PTL DEF TaintSpec

\* StraightLineExact always holds: on every method without branches the sinks, the
\* field writes and the return value that are reported are the ones that flow when
\* the instructions that make arrays do nothing, as taint.rs takes them.
THEOREM StraightLinesExact == TaintSpec => []StraightLineExact
<1>1. TaintInv => StraightLineExact
  <2>1. SUFFICES ASSUME TaintInv, TaintDone, Straight
        PROVE  /\ sinks = {[at |-> i, sources |-> SeenArgs(i),
                            args |-> {k \in DOMAIN Code[i].args : Seen(i, Code[i].args[k]) # {}}] :
                             i \in {j \in Calls(SinkApis) : SeenArgs(j) # {}}}
               /\ fields = {[at |-> i, sources |-> Seen(i, Code[i].a)] :
                             i \in {j \in Writes : Seen(j, Code[j].a) # {}}}
               /\ returned = UNION {Seen(i, Code[i].a) : i \in Returns}
    BY DEF StraightLineExact, Seen, SeenArgs
  <2>2. Exact /\ TaintTypes
    BY <2>1 DEF TaintInv
  <2>3. \A i \in DOMAIN Code : i < at
    BY <2>1, <2>2, MethodIs DEF TaintTypes, TaintDone, Code
  <2>4. /\ {j \in Calls(SinkApis) : j < at /\ SeenArgs(j) # {}}
             = {j \in Calls(SinkApis) : SeenArgs(j) # {}}
        /\ {j \in Writes : j < at /\ Seen(j, Code[j].a) # {}}
             = {j \in Writes : Seen(j, Code[j].a) # {}}
        /\ {j \in Returns : j < at} = Returns
    <3>1. \A j : /\ j \in Calls(SinkApis) => j < at
                 /\ j \in Writes => j < at
                 /\ j \in Returns => j < at
      BY <2>3 DEF Calls, Writes, Returns
    <3>. QED BY <3>1
  <2>. QED BY <2>2, <2>4 DEF Exact, SinksBelow, WritesBelow, ReturnsBelow, SinkReport, WriteReport
<1>. QED BY <1>1, TaintInvAlways, PTL

\* SkippedOnlyAdds always holds: with forward branches nothing of the same flows is
\* missed if no instruction that a branch can skip overwrites a cell.
THEOREM SkippingMissesNothing == TaintSpec => []SkippedOnlyAdds
<1>1. TaintInv => SkippedOnlyAdds
  <2>1. SUFFICES ASSUME TaintInv, TaintDone, AddsWhereSkipped
        PROVE  Covers(ArrayOps)
    BY DEF SkippedOnlyAdds, AddsWhereSkipped
  <2>2. Covering /\ TaintTypes
    BY <2>1 DEF TaintInv
  <2>3. \A i \in DOMAIN Code : i < at
    BY <2>1, <2>2, MethodIs DEF TaintTypes, TaintDone, Code
  <2>4. \A j : /\ j \in Calls(SinkApis) => j < at
               /\ j \in Writes => j < at
               /\ j \in Returns => j < at
    BY <2>3 DEF Calls, Writes, Returns
  <2>. QED BY <2>2, <2>4 DEF Covering, Covers, Seen, SeenArgs
<1>. QED BY <1>1, TaintInvAlways, PTL
=============================================================================

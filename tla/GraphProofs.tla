----------------------------- MODULE GraphProofs -----------------------------
(***************************************************************************)
(* What is proved of the dominator pass and of the SSA construction, for   *)
(* every control-flow graph: the search lists what is reachable in an      *)
(* order that the edges of a loop cannot all follow, the fixed point is    *)
(* the dominator tree, the frontiers are those of the definition, and the  *)
(* phi nodes placed on them are enough and are all filled by renaming.     *)
(***************************************************************************)
EXTENDS Ssa, SequenceTheorems, FiniteSetTheorems, WellFoundedInduction, TLAPS

LEMMA LeastOf ==
    ASSUME NEW S \in SUBSET Nat, S # {}
    PROVE  \E k \in S : \A j \in S : k <= j
<1>1. PICK k \in S : \A j \in S : ~ (<<j, k>> \in OpToRel(<, Nat))
  BY NatLessThanWellFounded, WFMin
<1>2. \A j \in S : ~ (j < k)
  BY <1>1 DEF OpToRel
<1>. QED BY <1>2

LEMMA GreatestOf ==
    ASSUME NEW n \in Nat, NEW S \in SUBSET (0..n), S # {}
    PROVE  \E k \in S : \A j \in S : j <= k
<1>. DEFINE T == {n - i : i \in S}
<1>1. T \in SUBSET Nat /\ T # {}
  <2>1. PICK i \in S : TRUE
    OBVIOUS
  <2>. QED BY <2>1
<1>. HIDE DEF T
<1>2. PICK t \in T : \A u \in T : t <= u
  BY <1>1, LeastOf
<1>3. PICK k \in S : t = n - k
  BY <1>2 DEF T
<1>4. \A j \in S : n - j \in T
  BY DEF T
<1>5. \A j \in S : j <= k
  BY <1>2, <1>3, <1>4
<1>. QED BY <1>5

-----------------------------------------------------------------------------
\* What is kept of a sequence.

LEMMA AppendIs ==
    ASSUME NEW A, NEW t \in Seq(A), NEW x \in A
    PROVE  /\ Append(t, x) \in Seq(A)
           /\ ToSet(Append(t, x)) = ToSet(t) \cup {x}
           /\ IsInjective(t) /\ x \notin ToSet(t) => IsInjective(Append(t, x))
<1>. DEFINE u == Append(t, x)
            n == Len(t)
<1>1. u \in Seq(A) /\ n \in Nat /\ DOMAIN t = 1..n /\ DOMAIN u = 1..n + 1
      /\ u[n + 1] = x /\ \A i \in 1..n : u[i] = t[i]
  OBVIOUS
<1>. HIDE DEF u, n
<1>2. ToSet(u) = ToSet(t) \cup {x}
  <2>1. \A y \in ToSet(u) : y \in ToSet(t) \cup {x}
    BY <1>1 DEF ToSet
  <2>2. \A y \in ToSet(t) \cup {x} : y \in ToSet(u)
    BY <1>1 DEF ToSet
  <2>. QED BY <2>1, <2>2
<1>3. IsInjective(t) /\ x \notin ToSet(t) => IsInjective(u)
  BY <1>1 DEF IsInjective, ToSet
<1>. QED BY <1>1, <1>2, <1>3 DEF u

KeptStep(s, S, g, n) ==
    IF n = 0 THEN << >>
    ELSE IF s[n] \in S THEN Append(g[n - 1], s[n]) ELSE g[n - 1]

LEMMA KeptExists ==
    ASSUME NEW s, NEW S, NEW k \in Nat
    PROVE  \E g : g = [n \in 0..k |-> KeptStep(s, S, g, n)]
<1>. DEFINE Has(j) == \E g : g = [n \in 0..j |-> KeptStep(s, S, g, n)]
            Bad == {j \in Nat : ~ Has(j)}
<1>1. SUFFICES ASSUME Bad # {} PROVE FALSE
  OBVIOUS
<1>2. PICK j \in Bad : \A i \in Bad : j <= i
  BY <1>1, LeastOf
<1>3. CASE j = 0
  <2>. DEFINE g == [n \in 0..0 |-> << >>]
  <2>1. \A n \in 0..0 : KeptStep(s, S, g, n) = << >>
    BY DEF KeptStep
  <2>2. g = [n \in 0..0 |-> KeptStep(s, S, g, n)]
    BY <2>1
  <2>. QED BY <1>2, <1>3, <2>2
<1>4. CASE j # 0
  <2>1. j - 1 \in Nat /\ j - 1 \notin Bad
    BY <1>2, <1>4
  <2>2. PICK g : g = [n \in 0..j - 1 |-> KeptStep(s, S, g, n)]
    BY <2>1
  <2>. DEFINE h == [n \in 0..j |-> KeptStep(s, S, g, n)]
  <2>3. \A n \in 0..j - 1 : h[n] = g[n]
    <3>1. TAKE n \in 0..j - 1
    <3>2. n \in 0..j
      BY <1>2
    <3>3. h[n] = KeptStep(s, S, g, n)
      BY <3>2
    <3>4. g[n] = KeptStep(s, S, g, n)
      BY <2>2
    <3>. QED BY <3>3, <3>4
  <2>. HIDE DEF h
  <2>4. ASSUME NEW n \in 0..j PROVE KeptStep(s, S, g, n) = KeptStep(s, S, h, n)
    <3>1. n # 0 => n - 1 \in 0..j - 1
      BY <1>2
    <3>. QED BY <2>3, <3>1 DEF KeptStep
  <2>5. h = [n \in 0..j |-> KeptStep(s, S, h, n)]
    BY <2>4 DEF h
  <2>. QED BY <1>2, <2>5
<1>. QED BY <1>2, <1>3, <1>4

LEMMA KeptIs ==
    ASSUME NEW A, NEW s \in Seq(A), NEW S
    PROVE  /\ Kept(s, S) \in Seq(A)
           /\ ToSet(Kept(s, S)) = ToSet(s) \cap S
           /\ IsInjective(s) => IsInjective(Kept(s, S))
<1>1. Len(s) \in Nat /\ DOMAIN s = 1..Len(s) /\ \A i \in 1..Len(s) : s[i] \in A
  OBVIOUS
<1>. DEFINE kept == CHOOSE g : g = [n \in 0..Len(s) |-> KeptStep(s, S, g, n)]
            First(n) == {s[i] : i \in 1..n}
            Good(n) == /\ kept[n] \in Seq(A)
                       /\ ToSet(kept[n]) = First(n) \cap S
                       /\ IsInjective(s) => IsInjective(kept[n])
            Bad == {n \in 0..Len(s) : ~ Good(n)}
<1>2. kept = [n \in 0..Len(s) |-> KeptStep(s, S, kept, n)]
  BY <1>1, KeptExists, SMTT(40)
<1>3. Kept(s, S) = kept[Len(s)]
  BY DEF Kept, KeptStep
<1>4. \A n \in 0..Len(s) : kept[n] = KeptStep(s, S, kept, n)
  <2>. HIDE DEF kept
  <2>. QED BY <1>2
<1>. HIDE DEF kept
<1>5. ASSUME Bad # {} PROVE FALSE
  <2>1. Bad \in SUBSET Nat
    BY <1>1
  <2>. HIDE DEF Bad
  <2>2. PICK n \in Bad : \A j \in Bad : n <= j
    BY <1>5, <2>1, LeastOf
  <2>3. n \in 0..Len(s) /\ n \in Nat /\ ~ Good(n)
    BY <1>1, <2>2 DEF Bad
  <2>4. CASE n = 0
    <3>1. kept[n] = << >>
      BY <1>4, <2>3, <2>4 DEF KeptStep
    <3>2. << >> \in Seq(A) /\ ToSet(<< >>) = {} /\ IsInjective(<< >>)
      BY DEF ToSet, IsInjective
    <3>3. First(n) = {}
      BY <2>4
    <3>. QED BY <2>3, <3>1, <3>2, <3>3
  <2>5. CASE n # 0
    <3>. DEFINE k == n - 1
                x == s[n]
    <3>1. k \in 0..Len(s) /\ k \in Nat /\ Good(k) /\ n \in 1..Len(s)
      <4>1. k \in 0..Len(s) /\ k \in Nat /\ ~ (n <= k) /\ n \in 1..Len(s)
        BY <1>1, <2>3, <2>5
      <4>. HIDE DEF k
      <4>2. k \notin Bad
        BY <2>2, <4>1
      <4>. QED BY <4>1, <4>2 DEF Bad
    <3>2. kept[n] = IF x \in S THEN Append(kept[k], x) ELSE kept[k]
      BY <1>4, <2>3, <2>5 DEF KeptStep
    <3>3. First(n) = First(k) \cup {x}
      <4>1. 1..n = (1..k) \cup {n}
        BY <2>3, <2>5
      <4>. HIDE DEF k
      <4>. QED BY <4>1
    <3>4. IsInjective(s) => x \notin First(k)
      BY <1>1, <2>3, <3>1 DEF IsInjective
    <3>5. x \in A
      BY <1>1, <3>1
    <3>. HIDE DEF k, x, First
    <3>6. CASE x \in S
      <4>1. /\ Append(kept[k], x) \in Seq(A)
            /\ ToSet(Append(kept[k], x)) = ToSet(kept[k]) \cup {x}
            /\ IsInjective(kept[k]) /\ x \notin ToSet(kept[k]) => IsInjective(Append(kept[k], x))
        BY <3>1, <3>5, AppendIs
      <4>. QED BY <2>3, <3>1, <3>2, <3>3, <3>4, <3>6, <4>1
    <3>7. CASE x \notin S
      BY <2>3, <3>1, <3>2, <3>3, <3>7
    <3>. QED BY <3>6, <3>7
  <2>. QED BY <2>4, <2>5
<1>6. First(Len(s)) = ToSet(s)
  BY <1>1 DEF ToSet
<1>7. Good(Len(s))
  <2>. HIDE DEF Good
  <2>. QED BY <1>1, <1>5
<1>. QED BY <1>3, <1>6, <1>7

-----------------------------------------------------------------------------
\* The edges.

LEMMA KeptBlocks ==
    ASSUME NEW A, NEW s \in Seq(A), NEW S
    PROVE  Kept(s, S) \in Seq(S)
<1>1. Kept(s, S) \in Seq(A) /\ ToSet(Kept(s, S)) \subseteq S
  BY KeptIs
<1>2. \A i \in 1..Len(Kept(s, S)) : Kept(s, S)[i] \in S
  BY <1>1 DEF ToSet
<1>. QED BY <1>1, <1>2

EdgesOK == term \in [Blocks -> Terminators]

LEMMA EdgesAre ==
    ASSUME EdgesOK, NEW b \in Blocks
    PROVE  NormalEdges(b) \in Seq(Blocks)
<1>. DEFINE t == term[b]
            jumps == Kept(t.targets, Blocks)
            next == IF b + 1 \in Blocks THEN <<b + 1>> ELSE << >>
<1>1. t.targets \in Seq(Blocks \cup {NoBlock})
  BY GraphAssumption DEF EdgesOK
<1>2. jumps \in Seq(Blocks)
  BY <1>1, KeptBlocks
<1>3. next \in Seq(Blocks)
  OBVIOUS
<1>4. jumps \o next \in Seq(Blocks)
  <2>. HIDE DEF jumps, next
  <2>. QED BY <1>2, <1>3
<1>5. NormalEdges(b) = EdgesFrom(t, b)
  BY DEF NormalEdges
<1>6. EdgesFrom(t, b) \in {<< >>, jumps, jumps \o next}
  <2>1. CASE t.kind = "return"
    BY <2>1 DEF EdgesFrom
  <2>2. CASE t.kind = "goto"
    BY <2>2 DEF EdgesFrom
  <2>3. CASE t.kind \notin {"return", "goto"}
    BY <2>3 DEF EdgesFrom
  <2>. QED BY <2>1, <2>2, <2>3
<1>7. << >> \in Seq(Blocks)
  OBVIOUS
<1>. HIDE DEF jumps, next, t
<1>. QED BY <1>2, <1>4, <1>5, <1>6, <1>7

\* An edge that the dominator pass follows.
Edge(s, t) == t \in ToSet(NormalEdges(s))

LEMMA EdgeIs ==
    ASSUME EdgesOK, NEW s \in Blocks
    PROVE  /\ \A t : Edge(s, t) <=> Contains(NormalEdges(s), t)
           /\ \A t : Edge(s, t) => t \in Blocks
           /\ \A t : Edge(s, t) <=> \E i \in DOMAIN NormalEdges(s) : NormalEdges(s)[i] = t
<1>1. NormalEdges(s) \in Seq(Blocks)
  BY EdgesAre
<1>. QED BY <1>1 DEF Edge, Contains, ToSet

-----------------------------------------------------------------------------
\* Paths: what the entry reaches without D.

LEMMA ReachedClosed ==
    ASSUME EdgesOK, NEW D, Entry \notin D
    PROVE  /\ Entry \in ReachedWithout(D)
           /\ \A s \in ReachedWithout(D) : \A t : Edge(s, t) /\ t \notin D => t \in ReachedWithout(D)
<1>1. Entry \in Blocks
  BY GraphAssumption DEF Entry, Blocks
<1>2. Entry \in ReachedWithout(D)
  BY <1>1 DEF ReachedWithout, ClosedWithout
<1>3. ASSUME NEW s \in ReachedWithout(D), NEW t, Edge(s, t), t \notin D
      PROVE  t \in ReachedWithout(D)
  <2>1. s \in Blocks
    BY DEF ReachedWithout
  <2>2. t \in Blocks
    BY <1>3, <2>1, EdgeIs
  <2>3. ASSUME NEW S \in ClosedWithout(D) PROVE t \in S
    BY <1>3, <2>3 DEF ReachedWithout, ClosedWithout, Edge
  <2>. QED BY <1>3, <2>2, <2>3 DEF ReachedWithout
<1>. QED BY <1>2, <1>3

\* A set that the paths cannot leave holds what they reach.
LEMMA ReachedLeast ==
    ASSUME NEW D, NEW S \in SUBSET Blocks, Entry \in S, S \cap D = {},
           \A s \in S : \A t : Edge(s, t) /\ t \notin D => t \in S
    PROVE  ReachedWithout(D) \subseteq S
BY DEF ReachedWithout, ClosedWithout, Edge

LEMMA ReachableIs ==
    ASSUME EdgesOK
    PROVE  /\ Reachable \subseteq Blocks
           /\ Entry \in Reachable
           /\ \A s \in Reachable : \A t : Edge(s, t) => t \in Reachable
           /\ \A S \in SUBSET Blocks :
                Entry \in S /\ (\A s \in S : \A t : Edge(s, t) => t \in S) => Reachable \subseteq S
<1>1. Reachable \subseteq Blocks
  BY DEF Reachable, ReachedWithout
<1>2. Entry \in Reachable /\ \A s \in Reachable : \A t : Edge(s, t) => t \in Reachable
  BY ReachedClosed DEF Reachable
<1>3. ASSUME NEW S \in SUBSET Blocks, Entry \in S, \A s \in S : \A t : Edge(s, t) => t \in S
      PROVE  Reachable \subseteq S
  BY <1>3, ReachedLeast DEF Reachable
<1>. QED BY <1>1, <1>2, <1>3

\* d is no dominator of b if there is a set with b that no edge leaves but to d.
LEMMA DominatesIs ==
    ASSUME NEW d, NEW b, NEW S \in SUBSET Blocks, Entry \in S, d \notin S, b \notin S,
           \A s \in S : \A t : Edge(s, t) /\ t # d => t \in S
    PROVE  Dominates(d, b)
<1>1. ReachedWithout({d}) \subseteq S
  BY ReachedLeast
<1>. QED BY <1>1 DEF Dominates

\* A strict dominator of a block dominates each of its predecessors.
LEMMA DominatesPreds ==
    ASSUME EdgesOK, NEW d, NEW b \in Blocks, NEW p, Dominates(d, b), d # b, Edge(p, b),
           p \in Blocks
    PROVE  Dominates(d, p)
<1>1. SUFFICES ASSUME d # Entry, p \in ReachedWithout({d}) PROVE FALSE
  BY DEF Dominates
<1>2. b \in ReachedWithout({d})
  BY <1>1, ReachedClosed
<1>. QED BY <1>1, <1>2 DEF Dominates

LEMMA OnlyEntryDominatesEntry ==
    ASSUME EdgesOK, NEW d, Dominates(d, Entry)
    PROVE  d = Entry
BY ReachedClosed DEF Dominates

-----------------------------------------------------------------------------
\* The order.

Order == ToSet(rpo)

\* What the search leaves behind.
OrderOK ==
    /\ EdgesOK
    /\ rpo \in Seq(Blocks) /\ IsInjective(rpo)
    /\ rpo # << >> /\ rpo[1] = Entry
    /\ \A s \in Order : \A t : Edge(s, t) => t \in Order
    /\ \A j \in DOMAIN rpo : rpo[j] # Entry =>
         \E i \in DOMAIN rpo : i < j /\ Edge(rpo[i], rpo[j])

LEMMA PosIs ==
    ASSUME OrderOK
    PROVE  /\ \A k \in DOMAIN rpo : Pos(rpo[k]) = k
           /\ \A b \in Order : Pos(b) \in DOMAIN rpo /\ Pos(b) \in Nat /\ rpo[Pos(b)] = b
<1>1. ASSUME NEW k \in DOMAIN rpo PROVE Pos(rpo[k]) = k
  <2>1. rpo \in Seq(Blocks) /\ \A j \in DOMAIN rpo : rpo[j] = rpo[k] => j = k
    BY DEF OrderOK, IsInjective
  <2>2. {i \in 1..Len(rpo) : rpo[i] = rpo[k]} = {k} /\ k \in Nat
    BY <2>1
  <2>. QED BY <2>2 DEF Pos, SelectInSeq, Min
<1>2. ASSUME NEW b \in Order
      PROVE  Pos(b) \in DOMAIN rpo /\ Pos(b) \in Nat /\ rpo[Pos(b)] = b
  <2>1. PICK k \in DOMAIN rpo : rpo[k] = b
    BY DEF Order, ToSet
  <2>2. k \in Nat
    BY DEF OrderOK
  <2>. QED BY <1>1, <2>1, <2>2
<1>. QED BY <1>1, <1>2

LEMMA OrderFacts ==
    ASSUME OrderOK
    PROVE  /\ Order \subseteq Blocks /\ Entry \in Order /\ Pos(Entry) = 1
           /\ \A b \in Order : 1 <= Pos(b) /\ Pos(b) <= Len(rpo)
           /\ \A a, b \in Order : Pos(a) = Pos(b) => a = b
           /\ \A b \in Order \ {Entry} : \E p \in Order : Edge(p, b) /\ Pos(p) < Pos(b)
           /\ Order = Reachable
<1>1. rpo \in Seq(Blocks) /\ Len(rpo) \in Nat /\ 1 \in DOMAIN rpo
  BY DEF OrderOK
<1>2. Order \subseteq Blocks /\ Entry \in Order /\ Pos(Entry) = 1
  <2>1. rpo[1] = Entry
    BY DEF OrderOK
  <2>. QED BY <1>1, <2>1, PosIs DEF Order, ToSet
<1>3. \A b \in Order : 1 <= Pos(b) /\ Pos(b) <= Len(rpo)
  BY <1>1, PosIs
<1>4. \A a, b \in Order : Pos(a) = Pos(b) => a = b
  BY PosIs
<1>5. ASSUME NEW b \in Order \ {Entry}
      PROVE  \E p \in Order : Edge(p, b) /\ Pos(p) < Pos(b)
  <2>1. Pos(b) \in DOMAIN rpo /\ rpo[Pos(b)] = b
    BY PosIs
  <2>2. PICK i \in DOMAIN rpo : i < Pos(b) /\ Edge(rpo[i], b)
    BY <2>1 DEF OrderOK
  <2>. QED BY <2>2, PosIs DEF Order, ToSet
<1>6. Reachable \subseteq Order
  BY <1>2, ReachableIs DEF OrderOK
<1>7. Order \subseteq Reachable
  <2>. DEFINE Bad == {Pos(b) : b \in Order \ Reachable}
  <2>1. SUFFICES Bad = {}
    OBVIOUS
  <2>2. ASSUME Bad # {} PROVE FALSE
    <3>1. Bad \in SUBSET Nat
      BY PosIs
    <3>. HIDE DEF Bad
    <3>2. PICK k \in Bad : \A j \in Bad : k <= j
      BY <2>2, <3>1, LeastOf
    <3>3. PICK b \in Order \ Reachable : k = Pos(b)
      BY DEF Bad
    <3>4. b # Entry
      BY <3>3, ReachableIs DEF OrderOK
    <3>5. PICK p \in Order : Edge(p, b) /\ Pos(p) < Pos(b)
      BY <1>5, <3>3, <3>4
    <3>6. Pos(p) \notin Bad
      BY <3>2, <3>3, <3>5, PosIs
    <3>7. p \in Reachable
      BY <3>5, <3>6 DEF Bad
    <3>. QED BY <3>3, <3>5, <3>7, ReachableIs DEF OrderOK
  <2>. QED BY <2>2
<1>. QED BY <1>2, <1>3, <1>4, <1>5, <1>6, <1>7

\* A dominator of a block is not later in the order.
LEMMA DominatorsAreEarlier ==
    ASSUME OrderOK, NEW d \in Blocks, NEW b \in Order, Dominates(d, b)
    PROVE  d \in Order /\ Pos(d) <= Pos(b)
<1>. DEFINE Fails(x) == x \in Order /\ Dominates(d, x) /\ ~ (d \in Order /\ Pos(d) <= Pos(x))
            Bad == {Pos(x) : x \in {y \in Order : Fails(y)}}
<1>1. SUFFICES ASSUME Bad # {} PROVE FALSE
  OBVIOUS
<1>2. Bad \in SUBSET Nat
  BY PosIs
<1>. HIDE DEF Bad
<1>3. PICK k \in Bad : \A j \in Bad : k <= j
  BY <1>1, <1>2, LeastOf
<1>4. PICK x \in Order : Fails(x) /\ k = Pos(x)
  BY DEF Bad
<1>5. EdgesOK /\ x \in Blocks
  BY <1>4, OrderFacts DEF OrderOK
<1>6. d # x
  BY <1>4, PosIs
<1>7. x # Entry
  BY <1>4, <1>5, <1>6, OnlyEntryDominatesEntry
<1>8. PICK p \in Order : Edge(p, x) /\ Pos(p) < Pos(x)
  BY <1>4, <1>7, OrderFacts
<1>9. Dominates(d, p)
  BY <1>4, <1>5, <1>6, <1>8, DominatesPreds, OrderFacts
<1>10. Pos(p) \notin Bad
  BY <1>3, <1>4, <1>8, PosIs
<1>11. ~ Fails(p)
  BY <1>8, <1>10 DEF Bad
<1>12. d \in Order /\ Pos(d) <= Pos(p)
  BY <1>9, <1>11
<1>. QED BY <1>4, <1>8, <1>12, PosIs

-----------------------------------------------------------------------------
\* The tree of the dominators that are known.

TreeOK ==
    /\ OrderOK
    /\ idom \in [Blocks -> Blocks \cup {Undefined}]
    /\ \A b \in Blocks \ Order : idom[b] = Undefined
    /\ Entry \in Known /\ idom[Entry] = Entry
    /\ \A b \in Known : idom[b] \in Known /\ (b # Entry => Pos(idom[b]) < Pos(b))

\* a is x or above it in the tree.
Anc(a, x) ==
    \A S \in SUBSET Known : x \in S /\ (\A y \in S : idom[y] \in S) => a \in S

LEMMA KnownIs ==
    ASSUME TreeOK
    PROVE  /\ Known \subseteq Order /\ Known \subseteq Blocks
           /\ \A b \in Known : Pos(b) \in Nat /\ Pos(b) >= 1 /\ Pos(b) <= Len(rpo)
           /\ \A a, b \in Known : Pos(a) = Pos(b) => a = b
           /\ \A b \in Order : b \in Known <=> idom[b] # Undefined
BY OrderFacts, PosIs DEF TreeOK, Known, Order

LEMMA AncSteps ==
    ASSUME TreeOK
    PROVE  /\ \A x : Anc(x, x)
           /\ \A x \in Known : \A a : Anc(a, x) => a \in Known
           /\ \A x \in Known : \A a : Anc(a, idom[x]) => Anc(a, x)
           /\ \A x \in Known : \A a : Anc(a, x) /\ a # x => Anc(a, idom[x])
           /\ \A x \in Known : \A a, c : Anc(c, x) /\ Anc(a, c) => Anc(a, x)
<1>1. \A x : Anc(x, x)
  BY DEF Anc
<1>2. \A b \in Known : idom[b] \in Known
  BY DEF TreeOK
<1>3. \A x \in Known : \A a : Anc(a, x) => a \in Known
  BY <1>2 DEF Anc
<1>4. \A x \in Known : \A a : Anc(a, idom[x]) => Anc(a, x)
  BY <1>2 DEF Anc
<1>5. ASSUME NEW x \in Known, NEW a, Anc(a, x), a # x
      PROVE  Anc(a, idom[x])
  <2>1. SUFFICES ASSUME NEW S \in SUBSET Known, idom[x] \in S, \A y \in S : idom[y] \in S
                 PROVE  a \in S
    BY DEF Anc
  <2>2. S \cup {x} \in SUBSET Known /\ \A y \in S \cup {x} : idom[y] \in S \cup {x}
    BY <2>1
  <2>3. a \in S \cup {x}
    BY <1>5, <2>2 DEF Anc
  <2>. QED BY <1>5, <2>3
<1>6. \A x \in Known : \A a, c : Anc(c, x) /\ Anc(a, c) => Anc(a, x)
  BY DEF Anc
<1>. QED BY <1>1, <1>3, <1>4, <1>5, <1>6

LEMMA AncEarlier ==
    ASSUME TreeOK, NEW x \in Known, NEW a, Anc(a, x)
    PROVE  a \in Known /\ Pos(a) <= Pos(x) /\ (x = Entry => a = Entry)
<1>. DEFINE S == {y \in Known : Pos(y) <= Pos(x)}
<1>1. \A y \in S : idom[y] \in S
  <2>1. TAKE y \in S
  <2>2. idom[y] \in Known /\ (y # Entry => Pos(idom[y]) < Pos(y)) /\ (y = Entry => idom[y] = y)
    BY DEF TreeOK
  <2>. QED BY <2>2, KnownIs
<1>2. x \in S
  BY KnownIs
<1>3. a \in S
  BY <1>1, <1>2 DEF Anc
<1>4. x = Entry => a = Entry
  <2>1. {Entry} \in SUBSET Known /\ \A y \in {Entry} : idom[y] \in {Entry}
    BY DEF TreeOK
  <2>. QED BY <2>1 DEF Anc
<1>. QED BY <1>3, <1>4

LEMMA AncAntisymmetric ==
    ASSUME TreeOK, NEW a \in Known, NEW x \in Known, Anc(a, x), Anc(x, a)
    PROVE  a = x
BY AncEarlier, KnownIs

\* A finger that is later than the other one is not above it.
LEMMA LaterIsNotAbove ==
    ASSUME TreeOK, NEW u \in Known, NEW w \in Known, Pos(u) > Pos(w)
    PROVE  /\ u # Entry
           /\ ~ Anc(u, w)
           /\ \A m : Anc(m, u) /\ Anc(m, w) <=> Anc(m, idom[u]) /\ Anc(m, w)
           /\ idom[u] \in Known /\ Pos(idom[u]) < Pos(u)
<1>1. ~ Anc(u, w)
  BY AncEarlier, KnownIs
<1>2. u # Entry
  BY KnownIs, OrderFacts DEF TreeOK
<1>3. \A m : Anc(m, u) /\ Anc(m, w) <=> Anc(m, idom[u]) /\ Anc(m, w)
  BY <1>1, AncSteps
<1>. QED BY <1>1, <1>2, <1>3 DEF TreeOK

-----------------------------------------------------------------------------
\* The fingers meet.

MeetStep(g, f) ==
    IF f[1] = f[2] THEN f[1]
    ELSE IF Pos(f[1]) > Pos(f[2]) THEN g[<<idom[f[1]], f[2]>>]
    ELSE g[<<f[1], idom[f[2]]>>]

LEMMA MeetExists ==
    ASSUME TreeOK
    PROVE  \E g : g = [f \in Known \X Known |-> MeetStep(g, f)]
<1>. DEFINE Above(u, w) == {m \in Known : Anc(m, u) /\ Anc(m, w)}
            Lowest(S) == CHOOSE m \in S : \A n \in S : Anc(n, m)
            g == [f \in Known \X Known |-> Lowest(Above(f[1], f[2]))]
<1>1. ASSUME NEW u \in Known PROVE Lowest(Above(u, u)) = u
  <2>1. u \in Above(u, u) /\ \A n \in Above(u, u) : Anc(n, u)
    BY AncSteps
  <2>. HIDE DEF Above
  <2>2. Lowest(Above(u, u)) \in Above(u, u) /\ Anc(u, Lowest(Above(u, u)))
    BY <2>1
  <2>. QED BY <2>2, AncAntisymmetric DEF Above
<1>2. ASSUME NEW u \in Known, NEW w \in Known
      PROVE  g[<<u, w>>] = Lowest(Above(u, w))
  OBVIOUS
<1>3. \A u, w : Above(u, w) = Above(w, u)
  OBVIOUS
<1>4. ASSUME NEW u \in Known, NEW w \in Known, Pos(u) > Pos(w)
      PROVE  idom[u] \in Known /\ Above(u, w) = Above(idom[u], w)
  BY <1>4, LaterIsNotAbove
<1>5. ASSUME NEW u \in Known, NEW w \in Known PROVE g[<<u, w>>] = MeetStep(g, <<u, w>>)
  <2>. HIDE DEF g, Above, Lowest
  <2>1. CASE u = w
    BY <1>1, <1>2, <2>1 DEF MeetStep
  <2>2. CASE u # w /\ Pos(u) > Pos(w)
    BY <1>2, <1>4, <2>2 DEF MeetStep
  <2>3. CASE u # w /\ ~ (Pos(u) > Pos(w))
    <3>1. Pos(w) > Pos(u)
      BY <2>3, KnownIs
    <3>2. idom[w] \in Known /\ Above(w, u) = Above(idom[w], u)
      BY <1>4, <3>1
    <3>3. Above(u, w) = Above(u, idom[w])
      BY <1>3, <3>2
    <3>. QED BY <1>2, <2>3, <3>2, <3>3 DEF MeetStep
  <2>. QED BY <2>1, <2>2, <2>3
<1>6. g = [f \in Known \X Known |-> MeetStep(g, f)]
  <2>1. \A f \in Known \X Known : g[f] = MeetStep(g, f)
    <3>1. TAKE f \in Known \X Known
    <3>2. PICK u, w \in Known : f = <<u, w>>
      OBVIOUS
    <3>. HIDE DEF g
    <3>. QED BY <1>5, <3>2
  <2>2. g = [f \in Known \X Known |-> g[f]]
    OBVIOUS
  <2>. HIDE DEF g
  <2>. QED BY <2>1, <2>2
<1>. QED BY <1>6

\* Sets that the climbing fingers stay in.
ClosedUpwards(T) ==
    /\ T \subseteq Known
    /\ \A u, w \in T : Pos(u) > Pos(w) => idom[u] \in T

LEMMA IntersectUnfolds ==
    ASSUME TreeOK, NEW u \in Known, NEW w \in Known
    PROVE  Intersect(u, w) = IF u = w THEN u
                             ELSE IF Pos(u) > Pos(w) THEN Intersect(idom[u], w)
                             ELSE Intersect(u, idom[w])
<1>. DEFINE meet == CHOOSE g : g = [f \in Known \X Known |-> MeetStep(g, f)]
<1>1. meet = [f \in Known \X Known |-> MeetStep(meet, f)]
  BY MeetExists
<1>2. \A x, y : Intersect(x, y) = meet[<<x, y>>]
  BY DEF Intersect, MeetStep
<1>. HIDE DEF meet
<1>3. meet[<<u, w>>] = MeetStep(meet, <<u, w>>)
  BY <1>1
<1>. QED BY <1>2, <1>3 DEF MeetStep

LEMMA IntersectIs ==
    ASSUME TreeOK, NEW u \in Known, NEW w \in Known
    PROVE  /\ Intersect(u, w) \in Known
           /\ Anc(Intersect(u, w), u) /\ Anc(Intersect(u, w), w)
           /\ \A T : ClosedUpwards(T) /\ u \in T /\ w \in T => Intersect(u, w) \in T
<1>. DEFINE Good(x, y) ==
              /\ Intersect(x, y) \in Known
              /\ Anc(Intersect(x, y), x) /\ Anc(Intersect(x, y), y)
              /\ \A T : ClosedUpwards(T) /\ x \in T /\ y \in T => Intersect(x, y) \in T
            Bad == {n \in Nat : \E x, y \in Known : n = Pos(x) + Pos(y) /\ ~ Good(x, y)}
<1>1. SUFFICES Bad = {}
  BY KnownIs, SMTT(40)
<1>2. ASSUME Bad # {} PROVE FALSE
  <2>1. Bad \in SUBSET Nat
    OBVIOUS
  <2>. HIDE DEF Bad
  <2>2. PICK n \in Bad : \A k \in Bad : n <= k
    BY <1>2, <2>1, LeastOf
  <2>3. PICK x, y \in Known : n = Pos(x) + Pos(y) /\ ~ Good(x, y)
    BY DEF Bad
  <2>4. \A a, b \in Known : Pos(a) + Pos(b) < n => Good(a, b)
    <3>1. TAKE a, b \in Known
    <3>2. Pos(a) + Pos(b) \in Nat /\ n \in Nat
      BY <2>1, KnownIs
    <3>. QED BY <2>2, <3>2 DEF Bad
  <2>. HIDE DEF Good
  <2>5. CASE x = y
    <3>1. Intersect(x, y) = x
      BY <2>5, IntersectUnfolds
    <3>. QED BY <2>3, <2>5, <3>1, AncSteps DEF Good
  <2>6. CASE x # y /\ Pos(x) > Pos(y)
    <3>1. Intersect(x, y) = Intersect(idom[x], y)
      BY <2>6, IntersectUnfolds
    <3>2. idom[x] \in Known /\ Pos(idom[x]) < Pos(x)
      BY <2>6, LaterIsNotAbove
    <3>3. Good(idom[x], y)
      BY <2>3, <2>4, <3>2, KnownIs
    <3>4. Anc(Intersect(x, y), x)
      BY <3>1, <3>3, AncSteps DEF Good
    <3>5. Good(x, y)
      BY <2>6, <3>1, <3>3, <3>4 DEF Good, ClosedUpwards
    <3>. QED BY <2>3, <3>5
  <2>7. CASE x # y /\ ~ (Pos(x) > Pos(y))
    <3>0. Pos(y) > Pos(x)
      BY <2>7, KnownIs
    <3>1. Intersect(x, y) = Intersect(x, idom[y])
      BY <2>7, IntersectUnfolds
    <3>2. idom[y] \in Known /\ Pos(idom[y]) < Pos(y)
      BY <3>0, LaterIsNotAbove
    <3>3. Good(x, idom[y])
      BY <2>3, <2>4, <3>2, KnownIs
    <3>4. Anc(Intersect(x, y), y)
      BY <3>1, <3>3, AncSteps DEF Good
    <3>5. Good(x, y)
      BY <3>0, <3>1, <3>3, <3>4 DEF Good, ClosedUpwards
    <3>. QED BY <2>3, <3>5
  <2>. QED BY <2>5, <2>6, <2>7
<1>. QED BY <1>2

-----------------------------------------------------------------------------
\* What the predecessors agree on.

LEMMA PredsAre ==
    ASSUME OrderOK, NEW b
    PROVE  /\ ReachablePreds(b) = {p \in Order : Edge(p, b)}
           /\ ~ IsJoin(b) => \A p, q \in ReachablePreds(b) : p = q
<1>. DEFINE Places(s) == {j \in DOMAIN NormalEdges(s) : NormalEdges(s)[j] = b}
<1>1. \A s \in Order : Edge(s, b) <=> Places(s) # {}
  BY EdgeIs, OrderFacts DEF OrderOK
<1>2. EdgesInto(b) = UNION {{<<s, i>> : i \in Places(s)} : s \in Order}
  BY DEF EdgesInto, Order
<1>. HIDE DEF Places
<1>3. \A e : e \in EdgesInto(b) <=> \E s \in Order : \E i \in Places(s) : e = <<s, i>>
  BY <1>2
<1>4. \A p : p \in ReachablePreds(b) <=> p \in Order /\ Places(p) # {}
  <2>1. ASSUME NEW p, p \in ReachablePreds(b) PROVE p \in Order /\ Places(p) # {}
    <3>1. PICK e \in EdgesInto(b) : p = e[1]
      BY <2>1 DEF ReachablePreds
    <3>. QED BY <1>3, <3>1
  <2>2. ASSUME NEW p \in Order, Places(p) # {} PROVE p \in ReachablePreds(b)
    <3>1. PICK i \in Places(p) : TRUE
      BY <2>2
    <3>2. <<p, i>> \in EdgesInto(b) /\ <<p, i>>[1] = p
      BY <1>3
    <3>. QED BY <3>2 DEF ReachablePreds
  <2>. QED BY <2>1, <2>2
<1>5. ~ IsJoin(b) => \A p, q \in ReachablePreds(b) : p = q
  BY DEF IsJoin, ReachablePreds
<1>6. ReachablePreds(b) = {p \in Order : Edge(p, b)}
  BY <1>1, <1>4
<1>. QED BY <1>5, <1>6

KnownPreds(b) == ReachablePreds(b) \cap Known

AgreedStep(preds, g, n) ==
    IF n = 0 THEN Undefined
    ELSE IF n - 1 \notin preds THEN g[n - 1]
    ELSE IF g[n - 1] = Undefined THEN n - 1
    ELSE Intersect(n - 1, g[n - 1])

LEMMA AgreedExists ==
    ASSUME NEW preds, NEW k \in Nat
    PROVE  \E g : g = [n \in 0..k |-> AgreedStep(preds, g, n)]
<1>. DEFINE Has(j) == \E g : g = [n \in 0..j |-> AgreedStep(preds, g, n)]
            Bad == {j \in Nat : ~ Has(j)}
<1>1. SUFFICES ASSUME Bad # {} PROVE FALSE
  OBVIOUS
<1>2. PICK j \in Bad : \A i \in Bad : j <= i
  BY <1>1, LeastOf
<1>3. CASE j = 0
  <2>. DEFINE g == [n \in 0..0 |-> Undefined]
  <2>1. \A n \in 0..0 : AgreedStep(preds, g, n) = Undefined
    BY DEF AgreedStep
  <2>2. g = [n \in 0..0 |-> AgreedStep(preds, g, n)]
    BY <2>1
  <2>. QED BY <1>2, <1>3, <2>2
<1>4. CASE j # 0
  <2>1. j - 1 \in Nat /\ j - 1 \notin Bad
    BY <1>2, <1>4
  <2>2. PICK g : g = [n \in 0..j - 1 |-> AgreedStep(preds, g, n)]
    BY <2>1
  <2>. DEFINE h == [n \in 0..j |-> AgreedStep(preds, g, n)]
  <2>3. \A n \in 0..j - 1 : h[n] = g[n]
    <3>1. TAKE n \in 0..j - 1
    <3>2. n \in 0..j
      BY <1>2
    <3>3. h[n] = AgreedStep(preds, g, n)
      BY <3>2
    <3>4. g[n] = AgreedStep(preds, g, n)
      BY <2>2
    <3>. QED BY <3>3, <3>4
  <2>. HIDE DEF h
  <2>4. ASSUME NEW n \in 0..j PROVE AgreedStep(preds, g, n) = AgreedStep(preds, h, n)
    <3>1. n # 0 => n - 1 \in 0..j - 1
      BY <1>2
    <3>. QED BY <2>3, <3>1 DEF AgreedStep
  <2>5. h = [n \in 0..j |-> AgreedStep(preds, h, n)]
    BY <2>4 DEF h
  <2>. QED BY <1>2, <2>5
<1>. QED BY <1>2, <1>3, <1>4

\* What a block keeps or gets is above each predecessor that is known, and in
\* whatever the fingers cannot leave.
LEMMA AgreedIs ==
    ASSUME TreeOK, NEW b, KnownPreds(b) # {}
    PROVE  /\ NewIdom(b) \in Known
           /\ \A p \in KnownPreds(b) : Anc(NewIdom(b), p)
           /\ \A T : ClosedUpwards(T) /\ KnownPreds(b) \subseteq T => NewIdom(b) \in T
<1>. DEFINE agreed == CHOOSE g : g = [n \in 0..NumBlocks |-> AgreedStep(KnownPreds(b), g, n)]
            Below(n) == {p \in KnownPreds(b) : p < n}
            Good(n) == IF Below(n) = {} THEN agreed[n] = Undefined
                       ELSE /\ agreed[n] \in Known
                            /\ \A p \in Below(n) : Anc(agreed[n], p)
                            /\ \A T : ClosedUpwards(T) /\ Below(n) \subseteq T => agreed[n] \in T
            Bad == {n \in 0..NumBlocks : ~ Good(n)}
<1>1. NumBlocks \in Nat
  BY GraphAssumption
<1>2. agreed = [n \in 0..NumBlocks |-> AgreedStep(KnownPreds(b), agreed, n)]
  BY <1>1, AgreedExists, SMTT(40)
<1>3. Agreed(b) = agreed[NumBlocks]
  BY DEF Agreed, AgreedStep, KnownPreds
<1>. HIDE DEF agreed
<1>4. \A n \in 0..NumBlocks : agreed[n] = AgreedStep(KnownPreds(b), agreed, n)
  BY <1>2
<1>5. \A p \in Known : p \in Nat /\ p < NumBlocks /\ p # Undefined
  BY <1>1, KnownIs DEF Blocks, Undefined
<1>6. KnownPreds(b) \subseteq Known
  BY DEF KnownPreds
<1>7. ASSUME Bad # {} PROVE FALSE
  <2>1. Bad \in SUBSET Nat
    BY <1>1
  <2>. HIDE DEF Bad
  <2>2. PICK n \in Bad : \A k \in Bad : n <= k
    BY <1>7, <2>1, LeastOf
  <2>3. n \in Nat /\ n \in 0..NumBlocks /\ ~ Good(n)
    BY <1>1, <2>2 DEF Bad
  <2>4. CASE n = 0
    <3>1. Below(n) = {}
      BY <1>5, <1>6, <2>4
    <3>2. agreed[n] = Undefined
      BY <1>4, <2>3, <2>4 DEF AgreedStep
    <3>. QED BY <2>3, <3>1, <3>2
  <2>5. CASE n # 0
    <3>1. n - 1 \in Nat /\ n - 1 \in 0..NumBlocks /\ Good(n - 1)
      BY <1>1, <2>2, <2>3, <2>5 DEF Bad
    <3>2. agreed[n] = AgreedStep(KnownPreds(b), agreed, n)
      BY <1>4, <2>3
    <3>3. CASE n - 1 \notin KnownPreds(b)
      <4>1. Below(n) = Below(n - 1)
        BY <1>5, <1>6, <2>3, <3>3
      <4>2. agreed[n] = agreed[n - 1]
        BY <2>5, <3>2, <3>3 DEF AgreedStep
      <4>. HIDE DEF Below
      <4>. QED BY <2>3, <3>1, <4>1, <4>2
    <3>4. CASE n - 1 \in KnownPreds(b) /\ Below(n - 1) = {}
      <4>1. Below(n) = {n - 1}
        BY <1>5, <1>6, <2>3, <3>4
      <4>2. agreed[n] = n - 1
        BY <2>5, <3>1, <3>2, <3>4 DEF AgreedStep
      <4>. HIDE DEF Below
      <4>. QED BY <1>6, <2>3, <3>4, <4>1, <4>2, AncSteps
    <3>5. CASE n - 1 \in KnownPreds(b) /\ Below(n - 1) # {}
      <4>1. Below(n) = Below(n - 1) \cup {n - 1}
        BY <1>5, <1>6, <2>3, <3>5
      <4>. DEFINE old == agreed[n - 1]
      <4>. HIDE DEF Below, old
      <4>2. old \in Known /\ n - 1 \in Known
        BY <1>6, <3>1, <3>5 DEF old
      <4>3. agreed[n] = Intersect(n - 1, old)
        BY <1>5, <2>5, <3>2, <3>5, <4>2 DEF AgreedStep, old
      <4>4. /\ agreed[n] \in Known
            /\ Anc(agreed[n], n - 1) /\ Anc(agreed[n], old)
            /\ \A T : ClosedUpwards(T) /\ n - 1 \in T /\ old \in T => agreed[n] \in T
        BY <4>2, <4>3, IntersectIs
      <4>5. \A p \in Below(n - 1) : Anc(agreed[n], p)
        <5>1. TAKE p \in Below(n - 1)
        <5>2. Anc(old, p) /\ p \in Known
          BY <1>6, <3>1, <3>5 DEF old, Below
        <5>. QED BY <4>4, <5>2, AncSteps
      <4>6. \A T : ClosedUpwards(T) /\ Below(n) \subseteq T => agreed[n] \in T
        <5>1. TAKE T
        <5>2. SUFFICES ASSUME ClosedUpwards(T), Below(n) \subseteq T PROVE agreed[n] \in T
          OBVIOUS
        <5>3. old \in T /\ n - 1 \in T
          BY <3>1, <3>5, <4>1, <5>2 DEF old
        <5>. QED BY <4>4, <5>2, <5>3
      <4>7. \A p \in Below(n) : Anc(agreed[n], p)
        BY <4>1, <4>4, <4>5
      <4>. QED BY <2>3, <4>1, <4>4, <4>6, <4>7
    <3>. QED BY <3>3, <3>4, <3>5
  <2>. QED BY <2>4, <2>5
<1>8. Below(NumBlocks) = KnownPreds(b)
  BY <1>5, <1>6
<1>9. Good(NumBlocks)
  BY <1>1, <1>7
<1>10. Agreed(b) \in Known /\ Agreed(b) # Undefined
  BY <1>3, <1>5, <1>8, <1>9
<1>11. NewIdom(b) = agreed[NumBlocks]
  BY <1>3, <1>10 DEF NewIdom
<1>. HIDE DEF Below
<1>. QED BY <1>8, <1>9, <1>11

-----------------------------------------------------------------------------
\* The fixed point.

\* No dominator has been climbed past.
Sound == \A b \in Known : \A d \in Blocks : StrictlyDominates(d, b) => Dominates(d, idom[b])

FixedPoint ==
    /\ TreeOK /\ Sound
    /\ Order \subseteq Known
    /\ \A b \in Order \ {Entry} : \A p \in Order : Edge(p, b) => Anc(idom[b], p)

LEMMA NewIdomIs ==
    ASSUME TreeOK, Sound, NEW b \in Order \ {Entry},
           NEW p \in Known, Edge(p, b), Pos(p) < Pos(b)
    PROVE  /\ NewIdom(b) \in Known /\ Pos(NewIdom(b)) < Pos(b)
           /\ \A d \in Blocks : StrictlyDominates(d, b) => Dominates(d, NewIdom(b))
           /\ \A q \in Known : Edge(q, b) => Anc(NewIdom(b), q)
<1>1. OrderOK /\ EdgesOK /\ b \in Order /\ b \in Blocks
  BY OrderFacts DEF TreeOK, OrderOK
<1>2. KnownPreds(b) = {q \in Known : Edge(q, b)}
  BY <1>1, PredsAre, KnownIs DEF KnownPreds
<1>3. KnownPreds(b) # {} /\ p \in KnownPreds(b)
  BY <1>2
<1>4. /\ NewIdom(b) \in Known
      /\ \A q \in KnownPreds(b) : Anc(NewIdom(b), q)
      /\ \A T : ClosedUpwards(T) /\ KnownPreds(b) \subseteq T => NewIdom(b) \in T
  BY <1>3, AgreedIs
<1>5. Pos(NewIdom(b)) < Pos(b)
  <2>1. Pos(NewIdom(b)) <= Pos(p)
    BY <1>3, <1>4, AncEarlier
  <2>. QED BY <1>1, <1>4, <2>1, KnownIs, PosIs
<1>6. ASSUME NEW d \in Blocks, StrictlyDominates(d, b)
      PROVE  Dominates(d, NewIdom(b))
  <2>. DEFINE T == {x \in Known : Dominates(d, x)}
  <2>1. KnownPreds(b) \subseteq T
    <3>1. ASSUME NEW q \in KnownPreds(b) PROVE Dominates(d, q)
      BY <1>1, <1>2, <1>6, DominatesPreds, KnownIs DEF StrictlyDominates
    <3>. QED BY <1>2, <3>1
  <2>2. ClosedUpwards(T)
    <3>1. ASSUME NEW u \in T, NEW w \in T, Pos(u) > Pos(w) PROVE idom[u] \in T
      <4>1. Pos(d) <= Pos(w)
        BY <1>1, DominatorsAreEarlier, KnownIs
      <4>2. d # u
        <5>1. d = u => Pos(d) = Pos(u)
          OBVIOUS
        <5>. QED BY <3>1, <4>1, <5>1, KnownIs
      <4>3. Dominates(d, idom[u])
        BY <4>2 DEF Sound, StrictlyDominates
      <4>. QED BY <4>3 DEF TreeOK
    <3>. QED BY <3>1 DEF ClosedUpwards
  <2>3. NewIdom(b) \in T
    BY <1>4, <2>1, <2>2
  <2>. QED BY <2>3
<1>. QED BY <1>2, <1>4, <1>5, <1>6

\* At the fixed point the ancestors of a block are its dominators.
LEMMA AncestorsDominate ==
    ASSUME FixedPoint, NEW x \in Order, NEW a \in Blocks
    PROVE  Dominates(a, x) <=> Anc(a, x)
<1>1. TreeOK /\ OrderOK /\ EdgesOK /\ Known = Order
  BY KnownIs DEF FixedPoint, TreeOK, OrderOK
<1>2. ASSUME Anc(a, x), a # Entry PROVE Dominates(a, x)
  <2>. DEFINE S == {y \in Order : ~ Anc(a, y)}
  <2>1. Entry \in S /\ a \notin S /\ x \notin S /\ S \in SUBSET Blocks
    BY <1>1, <1>2, AncEarlier, AncSteps, OrderFacts
  <2>2. ASSUME NEW s \in S, NEW t, Edge(s, t), t # a PROVE t \in S
    <3>1. t \in Order
      BY <1>1, <2>2 DEF OrderOK
    <3>2. CASE t = Entry
      BY <2>1, <3>2
    <3>3. CASE t # Entry
      <4>1. Anc(idom[t], s)
        BY <2>2, <3>1, <3>3 DEF FixedPoint
      <4>2. Anc(a, t) => Anc(a, s)
        BY <1>1, <2>2, <3>1, <4>1, AncSteps
      <4>. QED BY <3>1, <4>2
    <3>. QED BY <3>2, <3>3
  <2>3. \A s \in S : \A t : Edge(s, t) /\ t # a => t \in S
    BY <2>2
  <2>. HIDE DEF S
  <2>. QED BY <2>1, <2>3, DominatesIs
<1>3. ASSUME Dominates(a, x), ~ Anc(a, x) PROVE FALSE
  <2>. DEFINE Fails(y) == Dominates(a, y) /\ ~ Anc(a, y)
              Bad == {Pos(y) : y \in {z \in Order : Fails(z)}}
  <2>1. Bad \in SUBSET Nat /\ Bad # {}
    BY <1>1, <1>3, PosIs
  <2>. HIDE DEF Bad
  <2>2. PICK k \in Bad : \A j \in Bad : k <= j
    BY <2>1, LeastOf
  <2>3. PICK y \in Order : Fails(y) /\ k = Pos(y)
    BY DEF Bad
  <2>4. a # y
    BY <1>1, <2>3, AncSteps
  <2>5. y # Entry
    BY <1>1, <2>3, <2>4, OnlyEntryDominatesEntry
  <2>6. Dominates(a, idom[y])
    BY <1>1, <2>3, <2>4 DEF FixedPoint, Sound, StrictlyDominates
  <2>7. idom[y] \in Order /\ Pos(idom[y]) < Pos(y)
    BY <1>1, <2>3, <2>5 DEF TreeOK
  <2>8. Pos(idom[y]) \notin Bad
    BY <1>1, <2>2, <2>3, <2>7, PosIs
  <2>9. Anc(a, idom[y])
    BY <2>6, <2>7, <2>8 DEF Bad
  <2>. QED BY <1>1, <2>3, <2>9, AncSteps
<1>4. a = Entry => Dominates(a, x)
  BY DEF Dominates
<1>. QED BY <1>2, <1>3, <1>4

TreeIsRight ==
    \A b \in Reachable \ {Entry} :
        /\ idom[b] # Undefined
        /\ StrictlyDominates(idom[b], b)
        /\ \A d \in Blocks : StrictlyDominates(d, b) => Dominates(d, idom[b])

LEMMA FixedPointIsTree ==
    ASSUME FixedPoint
    PROVE  TreeIsRight
<1>1. TreeOK /\ OrderOK /\ Known = Order /\ Order = Reachable
  BY KnownIs, OrderFacts DEF FixedPoint, TreeOK
<1>2. SUFFICES ASSUME NEW b \in Order \ {Entry}
               PROVE  /\ idom[b] # Undefined
                      /\ StrictlyDominates(idom[b], b)
                      /\ \A d \in Blocks : StrictlyDominates(d, b) => Dominates(d, idom[b])
  BY <1>1 DEF TreeIsRight
<1>3. idom[b] \in Known /\ Pos(idom[b]) < Pos(b) /\ b \in Known
  BY <1>1 DEF TreeOK
<1>4. idom[b] # b /\ idom[b] # Undefined /\ idom[b] \in Blocks
  BY <1>1, <1>3, KnownIs
<1>5. Anc(idom[b], b)
  BY <1>1, <1>3, AncSteps
<1>6. StrictlyDominates(idom[b], b)
  BY <1>3, <1>4, <1>5, AncestorsDominate DEF StrictlyDominates
<1>. QED BY <1>3, <1>4, <1>6 DEF FixedPoint, Sound

-----------------------------------------------------------------------------
\* The frontiers.

WalkStep(top, g, r) ==
    IF r = top THEN {}
    ELSE {r} \cup IF idom[r] \in {Undefined, r} THEN {} ELSE g[idom[r]]

\* What the walk from r up to `top` collects.
Climbed(top, r) == {q \in Known : Anc(q, r) /\ ~ (Anc(top, r) /\ Anc(q, top))}

LEMMA ClimbedIs ==
    ASSUME TreeOK, NEW top \in Known, NEW r \in Known
    PROVE  Climbed(top, r) = IF r = top THEN {}
                             ELSE {r} \cup IF idom[r] = r THEN {} ELSE Climbed(top, idom[r])
<1>1. CASE r = top
  BY <1>1, AncSteps DEF Climbed
<1>2. CASE r # top /\ r = Entry
  <2>1. ~ Anc(top, r)
    BY <1>2, AncEarlier
  <2>2. \A q \in Known : Anc(q, r) <=> q = r
    BY <1>2, AncEarlier, AncSteps
  <2>3. idom[r] = r
    BY <1>2 DEF TreeOK
  <2>. QED BY <1>2, <2>1, <2>2, <2>3 DEF Climbed
<1>3. CASE r # top /\ r # Entry
  <2>1. idom[r] \in Known /\ Pos(idom[r]) < Pos(r)
    BY <1>3 DEF TreeOK
  <2>2. idom[r] # r
    BY <2>1, KnownIs
  <2>3. Anc(top, r) <=> Anc(top, idom[r])
    BY <1>3, AncSteps
  <2>4. \A q \in Known : Anc(q, r) <=> q = r \/ Anc(q, idom[r])
    BY AncSteps
  <2>5. ~ (Anc(top, r) /\ Anc(r, top))
    BY <1>3, AncAntisymmetric
  <2>6. \A q \in Known : q \in Climbed(top, r) <=> q = r \/ q \in Climbed(top, idom[r])
    BY <2>3, <2>4, <2>5 DEF Climbed
  <2>7. Climbed(top, r) = {r} \cup Climbed(top, idom[r])
    BY <2>6 DEF Climbed
  <2>. QED BY <1>3, <2>2, <2>7
<1>. QED BY <1>1, <1>2, <1>3

LEMMA RunnersAre ==
    ASSUME FixedPoint, NEW y \in Order, NEW p \in Order
    PROVE  Runners(p, y) = Climbed(idom[y], p)
<1>. DEFINE top == idom[y]
            g == [r \in Blocks |-> IF r \in Known THEN Climbed(top, r) ELSE {r}]
            walk == CHOOSE h : h = [r \in Blocks |-> WalkStep(top, h, r)]
<1>1. TreeOK /\ OrderOK /\ Known = Order /\ Known \subseteq Blocks /\ top \in Known
  BY KnownIs DEF FixedPoint, TreeOK
<1>2. \A r \in Known : idom[r] \in Known /\ idom[r] # Undefined
  BY <1>1, KnownIs DEF TreeOK
<1>3. g = [r \in Blocks |-> WalkStep(top, g, r)]
  <2>1. ASSUME NEW r \in Blocks PROVE g[r] = WalkStep(top, g, r)
    <3>1. CASE r \in Known
      <4>1. g[r] = Climbed(top, r) /\ g[idom[r]] = Climbed(top, idom[r])
        BY <1>1, <1>2, <3>1
      <4>. HIDE DEF g, top
      <4>. QED BY <1>1, <1>2, <3>1, <4>1, ClimbedIs DEF WalkStep
    <3>2. CASE r \notin Known
      <4>1. idom[r] = Undefined /\ r # top
        BY <1>1, <3>2 DEF TreeOK
      <4>. QED BY <3>2, <4>1 DEF WalkStep
    <3>. QED BY <3>1, <3>2
  <2>2. g = [r \in Blocks |-> g[r]]
    OBVIOUS
  <2>. HIDE DEF g
  <2>. QED BY <2>1, <2>2
<1>4. walk = [r \in Blocks |-> WalkStep(top, walk, r)]
  <2>. HIDE DEF g
  <2>. QED BY <1>3
<1>5. Runners(p, y) = walk[p]
  BY DEF Runners, WalkStep
<1>. HIDE DEF walk, g, top
<1>6. ASSUME NEW r \in Order, walk[r] # Climbed(top, r) PROVE FALSE
  <2>. DEFINE Bad == {Pos(x) : x \in {z \in Order : walk[z] # Climbed(top, z)}}
  <2>1. Bad \in SUBSET Nat /\ Bad # {}
    BY <1>1, <1>6, PosIs
  <2>. HIDE DEF Bad
  <2>2. PICK k \in Bad : \A j \in Bad : k <= j
    BY <2>1, LeastOf
  <2>3. PICK x \in Order : walk[x] # Climbed(top, x) /\ k = Pos(x)
    BY DEF Bad
  <2>4. x \in Known /\ x \in Blocks /\ walk[x] = WalkStep(top, walk, x)
    BY <1>1, <1>4
  <2>5. CASE x = top \/ idom[x] = x
    BY <1>1, <2>3, <2>4, <2>5, ClimbedIs DEF WalkStep
  <2>6. CASE x # top /\ idom[x] # x
    <3>1. idom[x] \in Order /\ Pos(idom[x]) < Pos(x) /\ idom[x] # Undefined
      BY <1>1, <1>2, <2>4, <2>6 DEF TreeOK
    <3>2. Pos(idom[x]) \notin Bad
      BY <1>1, <2>2, <2>3, <3>1, PosIs
    <3>3. walk[idom[x]] = Climbed(top, idom[x])
      BY <3>1, <3>2 DEF Bad
    <3>4. walk[x] = {x} \cup Climbed(top, idom[x])
      BY <2>4, <2>6, <3>1, <3>3 DEF WalkStep
    <3>5. Climbed(top, x) = {x} \cup Climbed(top, idom[x])
      BY <1>1, <2>4, <2>6, ClimbedIs
    <3>. QED BY <2>3, <3>4, <3>5
  <2>. QED BY <2>5, <2>6
<1>. QED BY <1>5, <1>6 DEF top

\* What a pass over the order puts into the frontiers is the definition's.
LEMMA FrontierOfIs ==
    ASSUME FixedPoint, NEW y \in Order \ {Entry}, NEW b \in Order
    PROVE  b \in FrontierOf(y) <=> InFrontier(b, y)
<1>1. TreeOK /\ OrderOK /\ EdgesOK /\ Known = Order /\ Order \subseteq Blocks /\ Order = Reachable
  BY KnownIs, OrderFacts, ZenonT(60) DEF FixedPoint, TreeOK, OrderOK
<1>2. ReachablePreds(y) = {p \in Order : Edge(p, y)}
  BY <1>1, PredsAre
<1>3. InFrontier(b, y) <=> \E p \in Order : Edge(p, y) /\ Dominates(b, p) /\ ~ StrictlyDominates(b, y)
  BY <1>1, EdgeIs DEF InFrontier
<1>4. idom[y] \in Known /\ Pos(idom[y]) < Pos(y)
  BY <1>1 DEF TreeOK
<1>5. StrictlyDominates(b, y) <=> Anc(b, idom[y])
  <2>1. ~ Anc(y, idom[y])
    BY <1>1, <1>4, AncEarlier, KnownIs
  <2>2. Dominates(b, y) <=> Anc(b, y)
    BY <1>1, AncestorsDominate
  <2>3. b # y /\ Anc(b, y) <=> Anc(b, idom[y])
    BY <1>1, <2>1, AncSteps
  <2>. QED BY <2>2, <2>3 DEF StrictlyDominates
<1>6. \A p \in Order : Edge(p, y) =>
        (b \in Runners(p, y) <=> Dominates(b, p) /\ ~ StrictlyDominates(b, y))
  <2>1. ASSUME NEW p \in Order, Edge(p, y)
        PROVE  b \in Runners(p, y) <=> Dominates(b, p) /\ ~ StrictlyDominates(b, y)
    <3>1. Runners(p, y) = Climbed(idom[y], p)
      BY RunnersAre
    <3>2. Anc(idom[y], p)
      BY <2>1 DEF FixedPoint
    <3>3. Dominates(b, p) <=> Anc(b, p)
      BY <1>1, AncestorsDominate
    <3>. QED BY <1>1, <1>5, <3>1, <3>2, <3>3 DEF Climbed
  <2>. QED BY <2>1
<1>7. CASE IsJoin(y)
  <2>1. FrontierOf(y) = UNION {Runners(p, y) : p \in ReachablePreds(y)}
    BY <1>7 DEF FrontierOf
  <2>2. b \in FrontierOf(y) <=> \E p \in ReachablePreds(y) : b \in Runners(p, y)
    BY <2>1
  <2>. QED BY <1>2, <1>3, <1>6, <2>2
<1>8. CASE ~ IsJoin(y)
  <2>1. b \notin FrontierOf(y)
    BY <1>8 DEF FrontierOf
  <2>2. PICK p \in Order : Edge(p, y) /\ Pos(p) < Pos(y)
    BY <1>1, OrderFacts
  <2>3. \A q \in Order : Edge(q, y) => q = p
    BY <1>1, <1>2, <1>8, <2>2, PredsAre
  <2>4. p # y
    BY <1>1, <2>2, PosIs
  <2>5. Dominates(p, y)
    <3>1. CASE p = Entry
      BY <3>1 DEF Dominates
    <3>2. CASE p # Entry
      <4>. DEFINE S == Order \ {p, y}
      <4>1. S \in SUBSET Blocks /\ Entry \in S /\ p \notin S /\ y \notin S
        BY <1>1, <3>2, OrderFacts
      <4>2. \A s \in S : \A t : Edge(s, t) /\ t # p => t \in S
        BY <1>1, <2>3 DEF OrderOK
      <4>. HIDE DEF S
      <4>. QED BY <4>1, <4>2, DominatesIs
    <3>. QED BY <3>1, <3>2
  <2>6. ASSUME Dominates(b, p), ~ StrictlyDominates(b, y) PROVE FALSE
    <3>1. Anc(b, p) /\ Anc(p, y)
      BY <1>1, <2>5, <2>6, AncestorsDominate
    <3>2. Anc(b, y)
      BY <1>1, <3>1, AncSteps
    <3>3. b = y
      BY <1>1, <2>6, <3>2, AncestorsDominate DEF StrictlyDominates
    <3>4. Pos(y) <= Pos(p)
      BY <1>1, <3>1, <3>3, AncEarlier
    <3>. QED BY <1>1, <2>2, <3>4, PosIs
  <2>. QED BY <1>3, <2>1, <2>3, <2>6
<1>. QED BY <1>7, <1>8

-----------------------------------------------------------------------------
\* The loop headers.

LEMMA HeadersCut ==
    ASSUME OrderOK, NEW S \in SUBSET (Order \ BackEdgeTargets), S # {}
    PROVE  \E s \in S : \A t \in S : ~ Edge(s, t)
<1>. DEFINE At == {Pos(s) : s \in S}
<1>1. At \in SUBSET (0..Len(rpo)) /\ At # {} /\ Len(rpo) \in Nat
  BY PosIs, OrderFacts DEF OrderOK
<1>2. PICK k \in At : \A j \in At : j <= k
  BY <1>1, GreatestOf
<1>3. PICK s \in S : k = Pos(s)
  OBVIOUS
<1>4. ASSUME NEW t \in S, Edge(s, t) PROVE FALSE
  <2>1. Pos(t) <= Pos(s)
    BY <1>2, <1>3
  <2>2. Contains(NormalEdges(s), t)
    BY <1>4, EdgeIs, OrderFacts DEF OrderOK
  <2>. QED BY <2>1, <2>2 DEF BackEdgeTargets, Order
<1>. QED BY <1>4

-----------------------------------------------------------------------------
\* The search.

Activations == [block : Blocks, rest : Seq(Blocks)]

Open(fr) == {fr[i].block : i \in DOMAIN fr}

\* The activations fr are a path from the entry; what they have not looked at
\* yet is all that is missing; each block that is done has a predecessor that
\* is earlier, or that will be.
SearchOK(fr, vis, ord) ==
    /\ fr \in Seq(Activations)
    /\ ord \in Seq(Blocks) /\ IsInjective(ord)
    /\ vis = ToSet(ord) \cup Open(fr) /\ ToSet(ord) \cap Open(fr) = {}
    /\ IF fr = << >> THEN ord # << >> /\ ord[1] = Entry ELSE fr[1].block = Entry
    /\ \A i, j \in DOMAIN fr : fr[i].block = fr[j].block => i = j
    /\ \A i \in DOMAIN fr :
         /\ i > 1 => Edge(fr[i - 1].block, fr[i].block)
         /\ \A t : Edge(fr[i].block, t) => t \in vis \cup ToSet(fr[i].rest)
         /\ \A t \in ToSet(fr[i].rest) : Edge(fr[i].block, t)
    /\ \A b \in ToSet(ord) : \A t : Edge(b, t) => t \in vis
    /\ \A j \in DOMAIN ord : ord[j] # Entry =>
         \/ \E p \in Open(fr) : Edge(p, ord[j])
         \/ \E i \in DOMAIN ord : i < j /\ Edge(ord[i], ord[j])

Advanced(fr) == Append(Front(fr), [Last(fr) EXCEPT !.rest = Tail(@)])

LEMMA RestSet ==
    ASSUME NEW t \in Activations, NEW x
    PROVE  [t EXCEPT !.rest = x] = [block |-> t.block, rest |-> x]
BY DEF Activations

LEMMA AdvancedIs ==
    ASSUME NEW fr \in Seq(Activations), fr # << >>, Last(fr).rest # << >>
    PROVE  /\ Advanced(fr) \in Seq(Activations) /\ Len(Advanced(fr)) = Len(fr)
           /\ Open(Advanced(fr)) = Open(fr)
           /\ \A i \in DOMAIN fr : Advanced(fr)[i].block = fr[i].block
           /\ \A i \in DOMAIN fr : i # Len(fr) => Advanced(fr)[i].rest = fr[i].rest
           /\ Advanced(fr)[Len(fr)].rest = Tail(fr[Len(fr)].rest)
           /\ Head(fr[Len(fr)].rest) \in Blocks
           /\ ToSet(fr[Len(fr)].rest)
                = {Head(fr[Len(fr)].rest)} \cup ToSet(Tail(fr[Len(fr)].rest))
<1>. DEFINE n == Len(fr)
            top == fr[n]
            moved == [top EXCEPT !.rest = Tail(@)]
<1>1. n \in Nat \ {0} /\ top \in Activations /\ DOMAIN fr = 1..n
  OBVIOUS
<1>2. top.block \in Blocks /\ top.rest \in Seq(Blocks) /\ top.rest # << >>
  BY <1>1 DEF Activations, Last
<1>3. /\ moved = [block |-> top.block, rest |-> Tail(top.rest)]
      /\ moved \in Activations
  <2>1. Tail(top.rest) \in Seq(Blocks)
    BY <1>2
  <2>. HIDE DEF top
  <2>2. moved = [block |-> top.block, rest |-> Tail(top.rest)]
    BY <1>1, RestSet
  <2>. HIDE DEF moved
  <2>. QED BY <1>2, <2>1, <2>2 DEF Activations
<1>4. Front(fr) \in Seq(Activations) /\ Len(Front(fr)) = n - 1
      /\ \A i \in 1..n - 1 : Front(fr)[i] = fr[i]
  BY <1>1 DEF Front
<1>5. Advanced(fr) = Append(Front(fr), moved)
  BY DEF Advanced, Last
<1>. HIDE DEF moved
<1>6. /\ Advanced(fr) \in Seq(Activations) /\ Len(Advanced(fr)) = n
      /\ \A i \in 1..n - 1 : Advanced(fr)[i] = fr[i]
      /\ Advanced(fr)[n] = moved
  <2>. HIDE DEF top, n
  <2>. QED BY <1>1, <1>3, <1>4, <1>5
<1>7. \A i \in DOMAIN fr : Advanced(fr)[i].block = fr[i].block
  BY <1>1, <1>3, <1>6, SMTT(40)
<1>8. DOMAIN Advanced(fr) = DOMAIN fr
  BY <1>1, <1>6
<1>9. Open(Advanced(fr)) = Open(fr)
  BY <1>7, <1>8 DEF Open
<1>10. /\ Head(top.rest) \in Blocks
       /\ ToSet(top.rest) = {Head(top.rest)} \cup ToSet(Tail(top.rest))
  <2>. DEFINE s == top.rest
  <2>. HIDE DEF top
  <2>1. s \in Seq(Blocks) /\ s # << >>
    BY <1>2
  <2>. HIDE DEF s
  <2>2. DOMAIN s = 1..Len(s) /\ Len(s) \in Nat \ {0} /\ DOMAIN Tail(s) = 1..Len(s) - 1
        /\ \A i \in 1..Len(s) - 1 : Tail(s)[i] = s[i + 1]
    BY <2>1
  <2>3. Head(s) = s[1] /\ Head(s) \in Blocks
    BY <2>1, <2>2
  <2>4. ASSUME NEW i \in 1..Len(s), i # 1 PROVE s[i] \in ToSet(Tail(s))
    <3>1. i - 1 \in 1..Len(s) - 1 /\ s[i] = Tail(s)[i - 1]
      BY <2>2, <2>4
    <3>. QED BY <2>2, <3>1 DEF ToSet
  <2>5. ToSet(Tail(s)) \subseteq ToSet(s)
    BY <2>2 DEF ToSet
  <2>6. ToSet(s) \subseteq {s[1]} \cup ToSet(Tail(s))
    BY <2>2, <2>4 DEF ToSet
  <2>7. s[1] \in ToSet(s)
    BY <2>2 DEF ToSet
  <2>. QED BY <2>3, <2>5, <2>6, <2>7 DEF s
<1>. QED BY <1>1, <1>3, <1>6, <1>7, <1>9, <1>10, SMTT(40)

LEMMA SearchSkips ==
    ASSUME NEW fr, NEW vis, NEW ord, SearchOK(fr, vis, ord), fr # << >>,
           Last(fr).rest # << >>, Head(Last(fr).rest) \in vis
    PROVE  SearchOK(Advanced(fr), vis, ord)
<1>. DEFINE adv == Advanced(fr)
            n == Len(fr)
<1>1. fr \in Seq(Activations) /\ Last(fr) = fr[n] /\ n \in DOMAIN fr
  BY DEF SearchOK, Last
<1>2. /\ adv \in Seq(Activations) /\ Len(adv) = n /\ Open(adv) = Open(fr)
      /\ \A i \in DOMAIN fr : adv[i].block = fr[i].block
      /\ \A i \in DOMAIN fr : i # n => adv[i].rest = fr[i].rest
      /\ adv[n].rest = Tail(fr[n].rest)
      /\ ToSet(fr[n].rest) = {Head(fr[n].rest)} \cup ToSet(Tail(fr[n].rest))
  BY <1>1, AdvancedIs
<1>. HIDE DEF adv
<1>3. DOMAIN adv = DOMAIN fr /\ DOMAIN fr = 1..n /\ adv # << >>
  BY <1>1, <1>2
<1>4. \A i \in DOMAIN fr : i > 1 => i - 1 \in DOMAIN fr
  BY <1>3
<1>5. \A i \in DOMAIN adv :
         /\ i > 1 => Edge(adv[i - 1].block, adv[i].block)
         /\ \A t : Edge(adv[i].block, t) => t \in vis \cup ToSet(adv[i].rest)
         /\ \A t \in ToSet(adv[i].rest) : Edge(adv[i].block, t)
  <2>1. TAKE i \in DOMAIN adv
  <2>2. i > 1 => Edge(adv[i - 1].block, adv[i].block)
    BY <1>2, <1>3, <1>4 DEF SearchOK
  <2>3. CASE i = n
    <3>1. \A t : Edge(fr[n].block, t) => t \in vis \cup ToSet(fr[n].rest)
      BY <1>1 DEF SearchOK
    <3>2. \A t \in ToSet(fr[n].rest) : Edge(fr[n].block, t)
      BY <1>1 DEF SearchOK
    <3>. QED BY <1>1, <1>2, <2>2, <2>3, <3>1, <3>2
  <2>4. CASE i # n
    BY <1>2, <1>3, <2>2, <2>4 DEF SearchOK
  <2>. QED BY <2>3, <2>4
<1>6. adv[1].block = Entry
  BY <1>1, <1>2, <1>3 DEF SearchOK
<1>7. \A i, j \in DOMAIN adv : adv[i].block = adv[j].block => i = j
  BY <1>2, <1>3 DEF SearchOK
<1>8. SearchOK(adv, vis, ord)
  BY <1>2, <1>3, <1>5, <1>6, <1>7 DEF SearchOK
<1>. QED BY <1>8 DEF adv

LEMMA SearchEnters ==
    ASSUME EdgesOK, NEW fr, NEW vis, NEW ord, SearchOK(fr, vis, ord), fr # << >>,
           Last(fr).rest # << >>, NEW target, target = Head(Last(fr).rest), target \notin vis
    PROVE  SearchOK(Append(Advanced(fr), [block |-> target, rest |-> NormalEdges(target)]),
                    vis \cup {target}, ord)
<1>. DEFINE adv == Advanced(fr)
            n == Len(fr)
            new == [block |-> target, rest |-> NormalEdges(target)]
            grown == Append(adv, new)
            seen == vis \cup {target}
<1>1. fr \in Seq(Activations) /\ Last(fr) = fr[n] /\ n \in DOMAIN fr /\ n \in Nat \ {0}
  BY DEF SearchOK, Last
<1>2. /\ adv \in Seq(Activations) /\ Len(adv) = n /\ Open(adv) = Open(fr)
      /\ \A i \in DOMAIN fr : adv[i].block = fr[i].block
      /\ \A i \in DOMAIN fr : i # n => adv[i].rest = fr[i].rest
      /\ adv[n].rest = Tail(fr[n].rest)
      /\ target \in Blocks
      /\ ToSet(fr[n].rest) = {target} \cup ToSet(Tail(fr[n].rest))
  BY <1>1, AdvancedIs
<1>3. new \in Activations /\ new.block = target /\ new.rest = NormalEdges(target)
  BY <1>2, EdgesAre DEF Activations
<1>. HIDE DEF adv, new
<1>4. /\ grown \in Seq(Activations) /\ DOMAIN grown = 1..n + 1
      /\ \A i \in 1..n : grown[i] = adv[i]
      /\ grown[n + 1] = new
  BY <1>1, <1>2, <1>3
<1>. HIDE DEF grown
<1>5. DOMAIN fr = 1..n /\ DOMAIN adv = 1..n
  BY <1>1, <1>2
<1>6. Open(grown) = Open(fr) \cup {target}
  <2>1. \A b \in Open(grown) : b \in Open(adv) \cup {target}
    BY <1>1, <1>3, <1>4, <1>5 DEF Open
  <2>2. \A b \in Open(adv) : b \in Open(grown)
    BY <1>1, <1>4, <1>5 DEF Open
  <2>3. target \in Open(grown)
    BY <1>1, <1>3, <1>4 DEF Open
  <2>. QED BY <1>2, <2>1, <2>2, <2>3
<1>7. \A i \in 1..n : fr[i].block \in vis
  BY <1>5 DEF SearchOK, Open
<1>8. \A i \in 1..n : grown[i].block = fr[i].block /\ grown[i].block # target
  BY <1>2, <1>4, <1>5, <1>7
<1>9. grown[n + 1].block = target /\ grown[n + 1].rest = NormalEdges(target)
  BY <1>3, <1>4
<1>10. seen = ToSet(ord) \cup Open(grown) /\ ToSet(ord) \cap Open(grown) = {}
  BY <1>6 DEF SearchOK
<1>11. grown # << >> /\ grown[1].block = Entry
  BY <1>1, <1>4, <1>5, <1>8 DEF SearchOK
<1>12. ASSUME NEW i \in DOMAIN grown, NEW j \in DOMAIN grown, grown[i].block = grown[j].block
       PROVE  i = j
  <2>1. CASE i = n + 1 \/ j = n + 1
    BY <1>1, <1>4, <1>8, <1>9, <1>12, <2>1
  <2>2. CASE i # n + 1 /\ j # n + 1
    <3>1. i \in 1..n /\ j \in 1..n
      BY <1>1, <1>4, <2>2
    <3>. QED BY <1>5, <1>8, <1>12, <3>1 DEF SearchOK
  <2>. QED BY <2>1, <2>2
<1>13. ASSUME NEW i \in DOMAIN grown
       PROVE  /\ i > 1 => Edge(grown[i - 1].block, grown[i].block)
              /\ \A t : Edge(grown[i].block, t) => t \in seen \cup ToSet(grown[i].rest)
              /\ \A t \in ToSet(grown[i].rest) : Edge(grown[i].block, t)
  <2>1. CASE i = n + 1
    <3>1. grown[i - 1].block = fr[n].block
      BY <1>1, <1>8, <2>1
    <3>2. Edge(fr[n].block, target)
      BY <1>1, <1>2 DEF SearchOK
    <3>. QED BY <1>9, <2>1, <3>1, <3>2 DEF Edge
  <2>2. CASE i # n + 1
    <3>1. i \in 1..n /\ i \in DOMAIN fr /\ i \in DOMAIN adv
      BY <1>1, <1>4, <1>5, <2>2
    <3>2. i > 1 => i - 1 \in 1..n
      BY <1>1, <3>1
    <3>3. i > 1 => Edge(grown[i - 1].block, grown[i].block)
      BY <1>8, <3>1, <3>2 DEF SearchOK
    <3>4. /\ \A t : Edge(fr[i].block, t) => t \in vis \cup ToSet(fr[i].rest)
          /\ \A t \in ToSet(fr[i].rest) : Edge(fr[i].block, t)
      BY <3>1 DEF SearchOK
    <3>5. ToSet(grown[i].rest) \subseteq ToSet(fr[i].rest)
          /\ ToSet(fr[i].rest) \subseteq ToSet(grown[i].rest) \cup {target}
      <4>1. CASE i = n
        BY <1>2, <1>4, <3>1, <4>1
      <4>2. CASE i # n
        BY <1>2, <1>4, <3>1, <4>2
      <4>. QED BY <4>1, <4>2
    <3>. QED BY <1>8, <3>1, <3>3, <3>4, <3>5
  <2>. QED BY <2>1, <2>2
<1>14. \A b \in ToSet(ord) : \A t : Edge(b, t) => t \in seen
  BY DEF SearchOK
<1>15. \A j \in DOMAIN ord : ord[j] # Entry =>
         \/ \E p \in Open(grown) : Edge(p, ord[j])
         \/ \E i \in DOMAIN ord : i < j /\ Edge(ord[i], ord[j])
  BY <1>6 DEF SearchOK
<1>16. ord \in Seq(Blocks) /\ IsInjective(ord)
  BY DEF SearchOK
<1>17. SearchOK(grown, seen, ord)
  BY <1>4, <1>10, <1>11, <1>12, <1>13, <1>14, <1>15, <1>16 DEF SearchOK
<1>. QED BY <1>17 DEF grown, new, adv

LEMMA SearchReturns ==
    ASSUME EdgesOK, NEW fr, NEW vis, NEW ord, SearchOK(fr, vis, ord), fr # << >>,
           Last(fr).rest = << >>
    PROVE  SearchOK(Front(fr), vis, << Last(fr).block >> \o ord)
<1>. DEFINE n == Len(fr)
            front == Front(fr)
            b == Last(fr).block
            late == << b >> \o ord
            m == Len(ord)
<1>1. /\ fr \in Seq(Activations) /\ Last(fr) = fr[n] /\ n \in DOMAIN fr /\ n \in Nat \ {0}
      /\ DOMAIN fr = 1..n
      /\ ord \in Seq(Blocks) /\ m \in Nat /\ DOMAIN ord = 1..m
  BY DEF SearchOK, Last
<1>2. b = fr[n].block /\ b \in Blocks /\ b \in Open(fr)
  <2>1. b = fr[n].block
    BY <1>1
  <2>2. fr[n] \in Activations
    BY <1>1
  <2>. HIDE DEF b, n
  <2>. QED BY <1>1, <2>1, <2>2 DEF Activations, Open
<1>3. /\ front \in Seq(Activations) /\ DOMAIN front = 1..n - 1
      /\ \A i \in 1..n - 1 : front[i] = fr[i]
  BY <1>1 DEF Front
<1>. HIDE DEF b, front
<1>4. /\ late \in Seq(Blocks) /\ DOMAIN late = 1..m + 1 /\ late[1] = b
      /\ \A j \in 1..m : late[j + 1] = ord[j]
  BY <1>1, <1>2
<1>. HIDE DEF late
<1>5. \A j \in DOMAIN late : j # 1 => j - 1 \in 1..m /\ late[j] = ord[j - 1]
  BY <1>1, <1>4
<1>6. ToSet(late) = ToSet(ord) \cup {b}
  <2>1. \A x \in ToSet(late) : x \in ToSet(ord) \cup {b}
    BY <1>1, <1>4, <1>5 DEF ToSet
  <2>2. \A x \in ToSet(ord) : x \in ToSet(late)
    BY <1>1, <1>4, SMTT(40) DEF ToSet
  <2>3. b \in ToSet(late)
    BY <1>1, <1>4, SMTT(40) DEF ToSet
  <2>. QED BY <2>1, <2>2, <2>3
<1>7. Open(front) \cup {b} = Open(fr) /\ b \notin Open(front)
  <2>1. \A x \in Open(fr) : x \in Open(front) \cup {b}
    BY <1>1, <1>2, <1>3, SMTT(40) DEF Open
  <2>2. \A x \in Open(front) : x \in Open(fr)
    BY <1>1, <1>3 DEF Open
  <2>3. \A i \in 1..n - 1 : fr[i].block # b
    BY <1>1, <1>2, SMTT(40) DEF SearchOK
  <2>. QED BY <1>2, <1>3, <2>1, <2>2, <2>3, SMTT(40) DEF Open
<1>8. vis = ToSet(late) \cup Open(front) /\ ToSet(late) \cap Open(front) = {}
  BY <1>2, <1>6, <1>7 DEF SearchOK
<1>9. IsInjective(late)
  <2>1. b \notin ToSet(ord)
    BY <1>2 DEF SearchOK
  <2>2. ASSUME NEW i \in DOMAIN late, NEW j \in DOMAIN late, late[i] = late[j] PROVE i = j
    <3>1. \A k \in 1..m : ord[k] # b
      BY <1>1, <2>1 DEF ToSet
    <3>2. CASE i = 1 \/ j = 1
      BY <1>4, <1>5, <2>2, <3>1, <3>2, ZenonT(60)
    <3>3. CASE i # 1 /\ j # 1
      <4>1. i - 1 \in DOMAIN ord /\ j - 1 \in DOMAIN ord /\ ord[i - 1] = ord[j - 1]
        BY <1>1, <1>5, <2>2, <3>3
      <4>2. i - 1 = j - 1
        BY <4>1 DEF SearchOK, IsInjective
      <4>. QED BY <1>1, <1>4, <4>2
    <3>. QED BY <3>2, <3>3
  <2>. QED BY <2>2 DEF IsInjective
<1>10. IF front = << >> THEN late # << >> /\ late[1] = Entry ELSE front[1].block = Entry
  <2>1. fr[1].block = Entry
    BY DEF SearchOK
  <2>2. CASE n = 1
    BY <1>1, <1>2, <1>3, <1>4, <2>1, <2>2
  <2>3. CASE n # 1
    BY <1>1, <1>3, <2>1, <2>3
  <2>. QED BY <2>2, <2>3
<1>11. \A i, j \in DOMAIN front : front[i].block = front[j].block => i = j
  BY <1>1, <1>3, SMTT(40) DEF SearchOK
<1>12. ASSUME NEW i \in DOMAIN front
       PROVE  /\ i > 1 => Edge(front[i - 1].block, front[i].block)
              /\ \A t : Edge(front[i].block, t) => t \in vis \cup ToSet(front[i].rest)
              /\ \A t \in ToSet(front[i].rest) : Edge(front[i].block, t)
  <2>1. i \in DOMAIN fr /\ front[i] = fr[i]
    BY <1>1, <1>3
  <2>2. i > 1 => i - 1 \in 1..n - 1 /\ front[i - 1] = fr[i - 1]
    BY <1>1, <1>3
  <2>. QED BY <2>1, <2>2 DEF SearchOK
<1>13. \A x \in ToSet(late) : \A t : Edge(x, t) => t \in vis
  <2>1. \A t : Edge(b, t) => t \in vis
    <3>1. \A t : Edge(fr[n].block, t) => t \in vis \cup ToSet(fr[n].rest)
      BY <1>1 DEF SearchOK
    <3>2. ToSet(fr[n].rest) = {}
      BY <1>1 DEF ToSet
    <3>. QED BY <1>2, <3>1, <3>2
  <2>. QED BY <1>6, <2>1 DEF SearchOK
<1>14. ASSUME NEW j \in DOMAIN late, late[j] # Entry
       PROVE  \/ \E p \in Open(front) : Edge(p, late[j])
              \/ \E i \in DOMAIN late : i < j /\ Edge(late[i], late[j])
  <2>1. CASE j = 1
    <3>1. n # 1
      BY <1>2, <1>4, <1>14, <2>1 DEF SearchOK
    <3>2. n - 1 \in 1..n - 1 /\ Edge(fr[n - 1].block, b)
      BY <1>1, <1>2, <3>1, SMTT(40) DEF SearchOK
    <3>3. fr[n - 1].block \in Open(front)
      BY <1>3, <3>2 DEF Open
    <3>. QED BY <1>4, <2>1, <3>2, <3>3
  <2>2. CASE j # 1
    <3>. DEFINE k == j - 1
    <3>1. k \in 1..m /\ late[j] = ord[k]
      BY <1>5, <2>2
    <3>2. CASE \E p \in Open(fr) : Edge(p, ord[k])
      <4>1. PICK p \in Open(fr) : Edge(p, ord[k])
        BY <3>2
      <4>2. CASE p = b
        <5>1. 1 \in DOMAIN late /\ 1 < j /\ Edge(late[1], late[j])
          BY <1>1, <1>4, <2>2, <3>1, <4>1, <4>2
        <5>. QED BY <5>1
      <4>3. CASE p # b
        BY <1>7, <3>1, <4>1, <4>3
      <4>. QED BY <4>2, <4>3
    <3>3. CASE \E i \in DOMAIN ord : i < k /\ Edge(ord[i], ord[k])
      <4>1. PICK i \in DOMAIN ord : i < k /\ Edge(ord[i], ord[k])
        BY <3>3
      <4>2. i + 1 \in DOMAIN late /\ i + 1 < j /\ late[i + 1] = ord[i]
        BY <1>1, <1>4, <3>1, <4>1
      <4>. QED BY <3>1, <4>1, <4>2
    <3>. QED BY <1>1, <1>14, <3>1, <3>2, <3>3 DEF SearchOK
  <2>. QED BY <2>1, <2>2
<1>15. SearchOK(front, vis, late)
  BY <1>3, <1>4, <1>8, <1>9, <1>10, <1>11, <1>12, <1>13, <1>14 DEF SearchOK
<1>. QED BY <1>15 DEF front, late, b

LEMMA SearchEnds ==
    ASSUME NEW vis, NEW ord, SearchOK(<< >>, vis, ord)
    PROVE  /\ ord \in Seq(Blocks) /\ IsInjective(ord) /\ ord # << >> /\ ord[1] = Entry
           /\ \A s \in ToSet(ord) : \A t : Edge(s, t) => t \in ToSet(ord)
           /\ \A j \in DOMAIN ord : ord[j] # Entry =>
                \E i \in DOMAIN ord : i < j /\ Edge(ord[i], ord[j])
<1>1. Open(<< >>) = {}
  BY DEF Open
<1>. QED BY <1>1 DEF SearchOK

-----------------------------------------------------------------------------
\* What a step that leaves the graph, the order or the tree alone keeps.

LEMMA SameGraph ==
    ASSUME UNCHANGED term
    PROVE  /\ \A s : NormalEdges(s)' = NormalEdges(s)
           /\ \A s, t : Edge(s, t)' <=> Edge(s, t)
           /\ EdgesOK' <=> EdgesOK
           /\ \A d, b : Dominates(d, b)' <=> Dominates(d, b)
           /\ \A d, b : InFrontier(d, b)' <=> InFrontier(d, b)
           /\ Reachable' = Reachable
<1>1. \A s : NormalEdges(s)' = NormalEdges(s)
  BY DEF NormalEdges
<1>2. \A s, t : Edge(s, t)' <=> Edge(s, t)
  BY <1>1 DEF Edge
<1>3. EdgesOK' <=> EdgesOK
  BY DEF EdgesOK
<1>4. \A D : ReachedWithout(D)' = ReachedWithout(D)
  <2>1. \A D : ClosedWithout(D)' = ClosedWithout(D)
    BY <1>1 DEF ClosedWithout
  <2>. QED BY <2>1 DEF ReachedWithout
<1>5. \A d, b : Dominates(d, b)' <=> Dominates(d, b)
  BY <1>4 DEF Dominates
<1>6. Reachable' = Reachable
  BY <1>4 DEF Reachable
<1>7. \A d, b : InFrontier(d, b)' <=> InFrontier(d, b)
  BY <1>1, <1>5, <1>6 DEF InFrontier, StrictlyDominates
<1>. QED BY <1>1, <1>2, <1>3, <1>5, <1>6, <1>7

LEMMA SameOrder ==
    ASSUME UNCHANGED <<term, rpo>>
    PROVE  /\ Order' = Order
           /\ \A b : Pos(b)' = Pos(b)
           /\ OrderOK' <=> OrderOK
<1>1. Order' = Order
  BY DEF Order
<1>2. \A b : Pos(b)' = Pos(b)
  BY DEF Pos, SelectInSeq, Min
<1>3. OrderOK' <=> OrderOK
  BY <1>1, SameGraph DEF OrderOK
<1>. QED BY <1>1, <1>2, <1>3

LEMMA SameTree ==
    ASSUME UNCHANGED <<term, rpo, idom>>
    PROVE  /\ Known' = Known
           /\ \A a, x : Anc(a, x)' <=> Anc(a, x)
           /\ TreeOK' <=> TreeOK
           /\ Sound' <=> Sound
           /\ FixedPoint' <=> FixedPoint
<1>1. Known' = Known
  BY DEF Known
<1>2. \A a, x : Anc(a, x)' <=> Anc(a, x)
  BY <1>1 DEF Anc
<1>3. TreeOK' <=> TreeOK
  BY <1>1, SameOrder DEF TreeOK
<1>4. Sound' <=> Sound
  BY <1>1, SameGraph DEF Sound, StrictlyDominates
<1>5. FixedPoint' <=> FixedPoint
  BY <1>1, <1>2, <1>3, <1>4, SameGraph, SameOrder DEF FixedPoint
<1>. QED BY <1>1, <1>2, <1>3, <1>4, <1>5

-----------------------------------------------------------------------------
\* The passes.

\* The blocks the current pass has processed, and what it still has to.
Processed(b) == Pos(b) <= Len(rpo) - Len(todo)

TodoOK ==
    /\ todo \in Seq(Blocks) /\ Len(todo) <= Len(rpo)
    /\ \A i \in 1..Len(todo) : todo[i] = rpo[Len(rpo) - Len(todo) + i]

IdomInv ==
    /\ TreeOK /\ Sound
    /\ TodoOK /\ Len(todo) < Len(rpo)
    /\ \A b \in Order : Processed(b) => b \in Known
    /\ ~ changed => \A b \in Order \ {Entry} : Processed(b) =>
                      \A p \in Known : Edge(p, b) => Anc(idom[b], p)

FrontierInv ==
    /\ TodoOK
    /\ \A b \in Order : \A y \in Order \ {Entry} :
         y \in frontier[b] <=> Processed(y) /\ InFrontier(b, y)

FrontierRight ==
    \A b \in Order : \A y \in Order \ {Entry} : y \in frontier[b] <=> InFrontier(b, y)

HeadersRight ==
    \A S \in SUBSET (Order \ loopHeader) :
        S # {} => \E s \in S : \A t \in S : ~ Edge(s, t)

GraphInv ==
    /\ EdgesOK
    /\ pc \in {"dfs", "idom", "frontier", "computed"} => calls = << >>
    /\ pc = "dfs" => /\ SearchOK(frames, visited, rpo) /\ frames # << >>
                     /\ idom = [b \in Blocks |-> Undefined]
    /\ pc \in {"dfs", "idom"} => frontier = [b \in Blocks |-> {}]
    /\ pc = "idom" => IdomInv
    /\ pc \in {"frontier", "computed"} => FixedPoint
    /\ pc = "frontier" => FrontierInv
    /\ pc = "computed" => FrontierRight /\ HeadersRight

LEMMA FirstIsEntry ==
    OrderOK => \A b \in Order : Pos(b) <= 1 => b = Entry
BY OrderFacts, PosIs

LEMMA FirstProcessed ==
    OrderOK' => \A b \in Order' : Pos(b)' <= 1 => b = Entry
<1>1. (OrderOK => \A b \in Order : Pos(b) <= 1 => b = Entry)'
  BY FirstIsEntry, PTL
<1>. QED BY <1>1

LEMMA Heads ==
    ASSUME OrderOK, TodoOK, todo # << >>
    PROVE  /\ Head(todo) \in Order /\ Head(todo) \in Blocks
           /\ Pos(Head(todo)) = Len(rpo) - Len(todo) + 1
           /\ Len(rpo) \in Nat /\ Len(todo) \in Nat \ {0}
           /\ Len(todo) < Len(rpo) => Head(todo) # Entry
<1>1. rpo \in Seq(Blocks) /\ todo \in Seq(Blocks) /\ Len(rpo) \in Nat /\ Len(todo) \in Nat \ {0}
      /\ Len(todo) <= Len(rpo) /\ DOMAIN rpo = 1..Len(rpo)
  BY DEF OrderOK, TodoOK
<1>2. Head(todo) = rpo[Len(rpo) - Len(todo) + 1] /\ Len(rpo) - Len(todo) + 1 \in DOMAIN rpo
  <2>1. Head(todo) = todo[1] /\ 1 \in 1..Len(todo)
    BY <1>1
  <2>. QED BY <1>1, <2>1 DEF TodoOK
<1>3. Head(todo) \in Order /\ Pos(Head(todo)) = Len(rpo) - Len(todo) + 1
  BY <1>2, PosIs DEF Order, ToSet
<1>4. Len(todo) < Len(rpo) => Head(todo) # Entry
  BY <1>1, <1>3, OrderFacts
<1>. QED BY <1>1, <1>3, <1>4, OrderFacts

\* The step after which one more block is processed.
LEMMA TailProcesses ==
    ASSUME OrderOK, TodoOK, todo # << >>, todo' = Tail(todo), UNCHANGED <<term, rpo>>
    PROVE  /\ TodoOK' /\ Len(todo)' < Len(rpo)'
           /\ \A b \in Order : Processed(b)' <=> Processed(b) \/ b = Head(todo)
           /\ ~ Processed(Head(todo))
<1>1. rpo \in Seq(Blocks) /\ todo \in Seq(Blocks) /\ Len(rpo) \in Nat /\ Len(todo) \in Nat \ {0}
      /\ Len(todo) <= Len(rpo)
  BY DEF OrderOK, TodoOK
<1>2. todo' \in Seq(Blocks) /\ Len(todo') = Len(todo) - 1
      /\ \A i \in 1..Len(todo) - 1 : todo'[i] = todo[i + 1]
  BY <1>1
<1>3. TodoOK' /\ Len(todo)' < Len(rpo)'
  <2>1. \A i \in 1..Len(todo') : todo'[i] = rpo[Len(rpo) - Len(todo') + i]
    <3>1. TAKE i \in 1..Len(todo')
    <3>2. i + 1 \in 1..Len(todo) /\ todo'[i] = todo[i + 1]
          /\ Len(rpo) - Len(todo) + (i + 1) = Len(rpo) - Len(todo') + i
      BY <1>1, <1>2
    <3>. QED BY <3>2 DEF TodoOK
  <2>. QED BY <1>1, <1>2, <2>1 DEF TodoOK
<1>4. \A b \in Order : Processed(b)' <=> Processed(b) \/ b = Head(todo)
  <2>1. TAKE b \in Order
  <2>2. Processed(b)' <=> Pos(b) <= Len(rpo) - Len(todo) + 1
    BY <1>1, <1>2, SameOrder DEF Processed
  <2>3. Pos(Head(todo)) = Len(rpo) - Len(todo) + 1 /\ Head(todo) \in Order
    BY Heads
  <2>. QED BY <1>1, <2>2, <2>3, OrderFacts, PosIs DEF Processed
<1>5. ~ Processed(Head(todo))
  BY <1>1, Heads DEF Processed
<1>. QED BY <1>3, <1>4, <1>5

-----------------------------------------------------------------------------
\* The invariant holds at first and every step keeps it.

LEMMA GraphInvFirst ==
    ASSUME Init
    PROVE  GraphInv
<1>. USE DEF Init, DomInit, SsaInit
<1>1. EdgesOK
  BY DEF EdgesOK
<1>2. Entry \in Blocks /\ NormalEdges(Entry) \in Seq(Blocks)
  <2>1. Entry \in Blocks
    BY GraphAssumption DEF Entry, Blocks
  <2>. QED BY <1>1, <2>1, EdgesAre
<1>. DEFINE f == [block |-> Entry, rest |-> NormalEdges(Entry)]
<1>3. f \in Activations /\ f.block = Entry /\ f.rest = NormalEdges(Entry)
  BY <1>2 DEF Activations
<1>4. frames = << f >> /\ visited = {Entry} /\ rpo = << >>
  OBVIOUS
<1>. HIDE DEF f
<1>5. frames \in Seq(Activations) /\ DOMAIN frames = {1} /\ frames[1] = f /\ frames # << >>
  BY <1>3, <1>4
<1>6. Open(frames) = {Entry}
  BY <1>3, <1>5 DEF Open
<1>7. << >> \in Seq(Blocks) /\ IsInjective(<< >>) /\ ToSet(<< >>) = {} /\ DOMAIN << >> = {}
  BY DEF IsInjective, ToSet
<1>8. \A i \in DOMAIN frames :
         /\ i > 1 => Edge(frames[i - 1].block, frames[i].block)
         /\ \A t : Edge(frames[i].block, t) => t \in visited \cup ToSet(frames[i].rest)
         /\ \A t \in ToSet(frames[i].rest) : Edge(frames[i].block, t)
  BY <1>3, <1>5 DEF Edge
<1>9. SearchOK(frames, visited, rpo)
  <2>1. visited = ToSet(rpo) \cup Open(frames) /\ ToSet(rpo) \cap Open(frames) = {}
    BY <1>4, <1>6, <1>7
  <2>2. frames[1].block = Entry /\ \A i, j \in DOMAIN frames : i = j
    BY <1>3, <1>5
  <2>. QED BY <1>4, <1>5, <1>7, <1>8, <2>1, <2>2 DEF SearchOK
<1>10. pc = "dfs" /\ calls = << >> /\ frontier = [b \in Blocks |-> {}]
       /\ idom = [b \in Blocks |-> Undefined]
  OBVIOUS
<1>. HIDE DEF Init, DomInit, SsaInit
<1>. QED BY <1>1, <1>5, <1>9, <1>10 DEF GraphInv

LEMMA SearchNext ==
    ASSUME UNCHANGED term, SearchOK(frames', visited', rpo')
    PROVE  SearchOK(frames, visited, rpo)'
<1>1. \A s, t : Edge(s, t)' <=> Edge(s, t)
  BY SameGraph
<1>2. /\ frames' \in Seq(Activations)
      /\ rpo' \in Seq(Blocks) /\ IsInjective(rpo')
      /\ visited' = ToSet(rpo') \cup Open(frames') /\ ToSet(rpo') \cap Open(frames') = {}
      /\ IF frames' = << >> THEN rpo' # << >> /\ rpo'[1] = Entry
                            ELSE frames'[1].block = Entry
      /\ \A i, j \in DOMAIN frames' : frames'[i].block = frames'[j].block => i = j
  BY DEF SearchOK
<1>3. (\A i \in DOMAIN frames :
         /\ i > 1 => Edge(frames[i - 1].block, frames[i].block)
         /\ \A t : Edge(frames[i].block, t) => t \in visited \cup ToSet(frames[i].rest)
         /\ \A t \in ToSet(frames[i].rest) : Edge(frames[i].block, t))'
  <2>1. \A i \in DOMAIN frames' :
           /\ i > 1 => Edge(frames'[i - 1].block, frames'[i].block)
           /\ \A t : Edge(frames'[i].block, t) => t \in visited' \cup ToSet(frames'[i].rest)
           /\ \A t \in ToSet(frames'[i].rest) : Edge(frames'[i].block, t)
    BY DEF SearchOK
  <2>. QED BY <1>1, <2>1
<1>4. (\A b \in ToSet(rpo) : \A t : Edge(b, t) => t \in visited)'
  <2>1. \A b \in ToSet(rpo') : \A t : Edge(b, t) => t \in visited'
    BY DEF SearchOK
  <2>. QED BY <1>1, <2>1
<1>5. (\A j \in DOMAIN rpo : rpo[j] # Entry =>
         \/ \E p \in Open(frames) : Edge(p, rpo[j])
         \/ \E i \in DOMAIN rpo : i < j /\ Edge(rpo[i], rpo[j]))'
  <2>1. \A j \in DOMAIN rpo' : rpo'[j] # Entry =>
         \/ \E p \in Open(frames') : Edge(p, rpo'[j])
         \/ \E i \in DOMAIN rpo' : i < j /\ Edge(rpo'[i], rpo'[j])
    BY DEF SearchOK
  <2>. QED BY <1>1, <2>1
<1>. QED BY <1>2, <1>3, <1>4, <1>5 DEF SearchOK

LEMMA DfsEdgeKeeps ==
    ASSUME GraphInv, DfsEdge, UNCHANGED calls
    PROVE  GraphInv'
<1>. DEFINE target == Head(Last(frames).rest)
            new == [block |-> target, rest |-> NormalEdges(target)]
<1>1. /\ pc = "dfs" /\ pc' = "dfs" /\ Last(frames).rest # << >> /\ frames # << >>
      /\ UNCHANGED <<term, rpo, idom, frontier>>
      /\ EdgesOK /\ SearchOK(frames, visited, rpo)
  BY DEF GraphInv, DfsEdge, Top, method
<1>2. EdgesOK' /\ \A s, t : Edge(s, t)' <=> Edge(s, t)
  BY <1>1, SameGraph
<1>. HIDE DEF target
<1>3. Advanced(frames) \in Seq(Activations) /\ Len(Advanced(frames)) = Len(frames)
      /\ Len(frames) \in Nat \ {0}
  BY <1>1, AdvancedIs DEF SearchOK
<1>4. SearchOK(frames', visited', rpo') /\ frames' # << >>
  <2>1. CASE target \in visited
    <3>1. frames' = Advanced(frames) /\ visited' = visited
      BY <2>1 DEF DfsEdge, Top, Advanced, target
    <3>2. SearchOK(frames', visited', rpo')
      BY <1>1, <2>1, <3>1, SearchSkips DEF target
    <3>. QED BY <1>3, <3>1, <3>2
  <2>2. CASE target \notin visited
    <3>1. frames' = Append(Advanced(frames), new) /\ visited' = visited \cup {target}
      BY <2>2 DEF DfsEdge, Top, Advanced, target
    <3>2. SearchOK(frames', visited', rpo')
      BY <1>1, <2>2, <3>1, SearchEnters DEF target
    <3>. QED BY <1>3, <3>1, <3>2
  <2>. QED BY <2>1, <2>2
<1>5. SearchOK(frames, visited, rpo)'
  BY <1>1, <1>4, SearchNext
<1>. QED BY <1>1, <1>2, <1>4, <1>5 DEF GraphInv

LEMMA FrontIs ==
    ASSUME NEW S, NEW s \in Seq(S), s # << >>
    PROVE  Len(Front(s)) = Len(s) - 1 /\ (Len(s) = 1 => Front(s) = << >>)
<1>1. Len(s) \in Nat \ {0} /\ DOMAIN s = 1..Len(s)
  OBVIOUS
<1>2. Front(s) \in Seq(S) /\ Len(Front(s)) = Len(s) - 1
  BY <1>1 DEF Front
<1>. QED BY <1>2

LEMMA DfsReturnKeeps ==
    ASSUME GraphInv, DfsReturn, UNCHANGED calls
    PROVE  GraphInv'
<1>1. /\ pc = "dfs" /\ Last(frames).rest = << >> /\ frames # << >>
      /\ UNCHANGED <<term, frontier, visited>>
      /\ EdgesOK /\ SearchOK(frames, visited, rpo)
      /\ idom = [b \in Blocks |-> Undefined] /\ calls' = << >>
      /\ frontier' = [b \in Blocks |-> {}]
      /\ frames' = Front(frames) /\ rpo' = << Last(frames).block >> \o rpo
  BY DEF GraphInv, DfsReturn, Top, method
<1>2. EdgesOK' /\ \A s, t : Edge(s, t)' <=> Edge(s, t)
  BY <1>1, SameGraph
<1>3. SearchOK(frames', visited', rpo')
  BY <1>1, SearchReturns
<1>4. frames \in Seq(Activations) /\ Len(frames) \in Nat \ {0}
  BY <1>1 DEF SearchOK
<1>5. CASE Len(frames) > 1
  <2>1. pc' = "dfs" /\ idom' = idom
    BY <1>1, <1>5 DEF DfsReturn
  <2>2. frames' # << >>
    <3>1. Len(Front(frames)) = Len(frames) - 1
      BY <1>1, <1>4, FrontIs
    <3>. QED BY <1>1, <1>4, <1>5, <3>1
  <2>3. SearchOK(frames, visited, rpo)'
    BY <1>1, <1>3, SearchNext
  <2>. QED BY <1>1, <1>2, <2>1, <2>2, <2>3 DEF GraphInv
<1>6. CASE ~ (Len(frames) > 1)
  <2>1. /\ pc' = "idom" /\ idom' = [idom EXCEPT ![Entry] = Entry]
        /\ todo' = Tail(rpo') /\ changed' = FALSE
    BY <1>6 DEF DfsReturn
  <2>2. frames' = << >>
    BY <1>1, <1>4, <1>6, FrontIs
  <2>3. /\ rpo' \in Seq(Blocks) /\ IsInjective(rpo') /\ rpo' # << >> /\ rpo'[1] = Entry
        /\ \A s \in ToSet(rpo') : \A t : Edge(s, t) => t \in ToSet(rpo')
        /\ \A j \in DOMAIN rpo' : rpo'[j] # Entry =>
             \E i \in DOMAIN rpo' : i < j /\ Edge(rpo'[i], rpo'[j])
    BY <1>3, <2>2, SearchEnds
  <2>4. OrderOK'
    BY <1>2, <2>3 DEF OrderOK, Order
  <2>5. Entry \in Blocks /\ Entry # Undefined /\ Entry \in Order'
        /\ Undefined \notin Blocks
    BY <2>3, GraphAssumption DEF Entry, Blocks, Undefined, Order, ToSet
  <2>6. idom' = [b \in Blocks |-> IF b = Entry THEN Entry ELSE Undefined]
    BY <1>1, <2>1, <2>5
  <2>7. Known' = {Entry}
    BY <2>3, <2>5, <2>6 DEF Known, Order, ToSet
  <2>8. TreeOK'
    BY <2>4, <2>5, <2>6, <2>7 DEF TreeOK
  <2>9. Sound'
    BY <1>1, <2>7, SameGraph, OnlyEntryDominatesEntry DEF Sound, StrictlyDominates
  <2>10. /\ Len(todo') = Len(rpo') - 1 /\ Len(rpo') \in Nat \ {0}
         /\ todo' \in Seq(Blocks)
         /\ \A i \in 1..Len(todo') : todo'[i] = rpo'[1 + i]
    BY <2>1, <2>3
  <2>11. TodoOK' /\ Len(todo)' < Len(rpo)'
    BY <2>10 DEF TodoOK
  <2>12. \A b \in Order' : Processed(b)' => b = Entry
    BY <2>4, <2>10, FirstProcessed DEF Processed
  <2>13. IdomInv'
    BY <2>7, <2>8, <2>9, <2>11, <2>12 DEF IdomInv
  <2>. QED BY <1>1, <1>2, <2>1, <2>13 DEF GraphInv
<1>. QED BY <1>5, <1>6

LEMMA IdomStepKeeps ==
    ASSUME GraphInv, IdomStep, UNCHANGED calls
    PROVE  GraphInv'
<1>. DEFINE b == Head(todo)
            new == NewIdom(b)
<1>1. /\ pc = "idom" /\ pc' = "idom" /\ todo # << >> /\ todo' = Tail(todo)
      /\ idom' = [idom EXCEPT ![b] = new] /\ changed' = (changed \/ new # idom[b])
      /\ UNCHANGED <<term, rpo, frontier>>
      /\ EdgesOK /\ IdomInv /\ calls' = << >> /\ frontier' = [r \in Blocks |-> {}]
  BY DEF GraphInv, IdomStep, method, search
<1>2. /\ TreeOK /\ OrderOK /\ Sound /\ TodoOK /\ Len(todo) < Len(rpo)
  BY <1>1 DEF IdomInv, TreeOK
<1>3. /\ b \in Order /\ b # Entry /\ b \in Blocks /\ Pos(b) = Len(rpo) - Len(todo) + 1
      /\ Len(rpo) \in Nat /\ Len(todo) \in Nat
  BY <1>1, <1>2, Heads
<1>4. /\ TodoOK' /\ Len(todo)' < Len(rpo)'
      /\ \A x \in Order : Processed(x)' <=> Processed(x) \/ x = b
  BY <1>1, <1>2, TailProcesses
<1>5. PICK p \in Known : Edge(p, b) /\ Pos(p) < Pos(b)
  <2>1. PICK p \in Order : Edge(p, b) /\ Pos(p) < Pos(b)
    BY <1>2, <1>3, OrderFacts
  <2>2. Processed(p)
    BY <1>2, <1>3, <2>1, PosIs DEF Processed
  <2>3. p \in Known
    BY <1>1, <2>1, <2>2 DEF IdomInv
  <2>. QED BY <2>1, <2>3
<1>6. /\ new \in Known /\ Pos(new) < Pos(b)
      /\ \A d \in Blocks : StrictlyDominates(d, b) => Dominates(d, new)
      /\ \A q \in Known : Edge(q, b) => Anc(new, q)
  BY <1>2, <1>3, <1>5, NewIdomIs
<1>. HIDE DEF b, new
<1>7. idom \in [Blocks -> Blocks \cup {Undefined}] /\ Known \subseteq Blocks
  BY <1>2, KnownIs DEF TreeOK
<1>8. /\ idom' \in [Blocks -> Blocks \cup {Undefined}]
      /\ idom'[b] = new /\ new # Undefined
      /\ \A x \in Blocks \ {b} : idom'[x] = idom[x]
  <2>1. new # Undefined
    BY <1>6, <1>7, GraphAssumption DEF Blocks, Undefined
  <2>. QED BY <1>1, <1>3, <1>6, <1>7, <2>1
<1>9. /\ Order' = Order /\ OrderOK' /\ \A x : Pos(x)' = Pos(x)
      /\ \A s, t : Edge(s, t)' <=> Edge(s, t)
      /\ \A d, x : Dominates(d, x)' <=> Dominates(d, x)
  BY <1>1, <1>2, SameGraph, SameOrder
<1>10. Known' = Known \cup {b}
  BY <1>2, <1>3, <1>8, <1>9, OrderFacts DEF Known, Order
<1>11. TreeOK'
  <2>1. \A x \in Blocks \ Order : idom'[x] = Undefined
    BY <1>2, <1>3, <1>8 DEF TreeOK
  <2>2. Entry \in Known' /\ idom'[Entry] = Entry
    BY <1>2, <1>3, <1>7, <1>8, <1>10 DEF TreeOK
  <2>3. \A x \in Known' : idom'[x] \in Known' /\ (x # Entry => Pos(idom'[x]) < Pos(x))
    <3>1. TAKE x \in Known'
    <3>2. CASE x = b
      BY <1>6, <1>8, <1>10, <3>2
    <3>3. CASE x # b
      <4>1. x \in Known /\ idom'[x] = idom[x]
        BY <1>7, <1>8, <1>10, <3>3
      <4>. QED BY <1>2, <1>10, <4>1 DEF TreeOK
    <3>. QED BY <3>2, <3>3
  <2>. QED BY <1>8, <1>9, <2>1, <2>2, <2>3 DEF TreeOK
<1>12. Sound'
  <2>1. ASSUME NEW x \in Known', NEW d \in Blocks, StrictlyDominates(d, x)
        PROVE  Dominates(d, idom'[x])
    <3>1. CASE x = b
      BY <1>6, <1>8, <2>1, <3>1
    <3>2. CASE x # b
      <4>1. x \in Known /\ idom'[x] = idom[x]
        BY <1>7, <1>8, <1>10, <3>2
      <4>. QED BY <1>2, <2>1, <4>1 DEF Sound
    <3>. QED BY <3>1, <3>2
  <2>. QED BY <1>9, <2>1 DEF Sound, StrictlyDominates
<1>13. \A x \in Order : Processed(x)' => x \in Known'
  BY <1>1, <1>4, <1>10 DEF IdomInv
<1>14. ASSUME ~ changed'
       PROVE  (\A x \in Order \ {Entry} : Processed(x) =>
                 \A q \in Known : Edge(q, x) => Anc(idom[x], q))'
  <2>1. ~ changed /\ new = idom[b]
    BY <1>1, <1>14
  <2>2. idom' = idom
    BY <1>1, <1>7, <2>1
  <2>3. Known' = Known /\ \A a, x : Anc(a, x)' <=> Anc(a, x)
    BY <1>1, <2>2, SameTree
  <2>4. \A x \in Order \ {Entry} : Processed(x) =>
                 \A q \in Known : Edge(q, x) => Anc(idom[x], q)
    BY <1>1, <2>1 DEF IdomInv
  <2>5. \A x \in Order \ {Entry} : Processed(x)' =>
                 \A q \in Known : Edge(q, x) => Anc(idom[x], q)
    BY <1>4, <1>6, <2>1, <2>4
  <2>. QED BY <1>9, <2>2, <2>3, <2>5
<1>15. IdomInv'
  BY <1>4, <1>9, <1>11, <1>12, <1>13, <1>14 DEF IdomInv
<1>16. EdgesOK'
  BY <1>1, SameGraph
<1>. QED BY <1>1, <1>15, <1>16 DEF GraphInv

LEMMA IdomPassEndsKeeps ==
    ASSUME GraphInv, IdomPassEnds, UNCHANGED calls
    PROVE  GraphInv'
<1>1. /\ pc = "idom" /\ todo = << >> /\ changed' = FALSE
      /\ UNCHANGED <<term, rpo, idom, frontier>>
      /\ EdgesOK /\ IdomInv /\ calls' = << >> /\ frontier = [r \in Blocks |-> {}]
  BY DEF GraphInv, IdomPassEnds, method, search
<1>2. TreeOK /\ Sound /\ OrderOK /\ rpo \in Seq(Blocks) /\ rpo # << >>
  BY <1>1 DEF IdomInv, TreeOK, OrderOK
<1>3. Len(rpo) \in Nat \ {0} /\ Len(todo) = 0
  BY <1>1, <1>2
<1>4. \A b \in Order : Processed(b) /\ b \in Known
  BY <1>1, <1>2, <1>3, OrderFacts, PosIs DEF IdomInv, Processed
<1>5. /\ EdgesOK' /\ OrderOK' /\ TreeOK' /\ Sound' /\ (FixedPoint => FixedPoint')
      /\ Order' = Order /\ Known' = Known /\ \A x : Pos(x)' = Pos(x)
  BY <1>1, <1>2, SameGraph, SameOrder, SameTree
<1>6. CASE changed
  <2>1. pc' = "idom" /\ todo' = Tail(rpo)
    BY <1>1, <1>6 DEF IdomPassEnds
  <2>2. /\ Len(todo') = Len(rpo') - 1 /\ todo' \in Seq(Blocks)
        /\ \A i \in 1..Len(todo') : todo'[i] = rpo'[1 + i]
    BY <1>1, <1>2, <1>3, <2>1
  <2>3. TodoOK' /\ Len(todo)' < Len(rpo)'
    BY <1>1, <1>3, <2>2 DEF TodoOK
  <2>4. \A b \in Order' : Processed(b)' => b = Entry
    BY <1>1, <1>3, <1>5, <2>2, FirstProcessed DEF Processed
  <2>5. \A b \in Order' : Processed(b)' => b \in Known'
    BY <1>4, <1>5
  <2>6. IdomInv'
    BY <1>5, <2>3, <2>4, <2>5 DEF IdomInv
  <2>. QED BY <1>1, <1>5, <2>1, <2>6 DEF GraphInv
<1>7. CASE ~ changed
  <2>1. pc' = "frontier" /\ todo' = rpo
    BY <1>1, <1>7 DEF IdomPassEnds
  <2>2. FixedPoint
    BY <1>1, <1>2, <1>4, <1>7, KnownIs DEF FixedPoint, IdomInv
  <2>3. TodoOK'
    BY <1>1, <1>2, <1>3, <2>1 DEF TodoOK
  <2>4. \A y \in Order' : ~ Processed(y)'
    BY <1>1, <1>2, <1>3, <1>5, <2>1, OrderFacts, PosIs DEF Processed
  <2>5. frontier' = [r \in Blocks |-> {}] /\ Order \subseteq Blocks
    BY <1>1, <1>2, OrderFacts
  <2>6. FrontierInv'
    BY <1>5, <2>3, <2>4, <2>5 DEF FrontierInv
  <2>. QED BY <1>1, <1>5, <2>1, <2>2, <2>6 DEF GraphInv
<1>. QED BY <1>6, <1>7

LEMMA FrontierStepKeeps ==
    ASSUME GraphInv, FrontierStep, UNCHANGED calls
    PROVE  GraphInv'
<1>. DEFINE b == Head(todo)
<1>1. /\ pc = "frontier" /\ pc' = "frontier" /\ todo # << >> /\ todo' = Tail(todo)
      /\ frontier' = [r \in Blocks |->
                        frontier[r] \cup IF r \in FrontierOf(b) THEN {b} ELSE {}]
      /\ UNCHANGED <<term, rpo, idom>>
      /\ EdgesOK /\ FixedPoint /\ FrontierInv /\ calls' = << >>
  BY DEF GraphInv, FrontierStep, method, search
<1>2. OrderOK /\ TodoOK /\ Order \subseteq Blocks
  BY <1>1, OrderFacts DEF FixedPoint, TreeOK, FrontierInv
<1>3. /\ TodoOK' /\ b \in Order /\ ~ Processed(b)
      /\ \A x \in Order : Processed(x)' <=> Processed(x) \/ x = b
  BY <1>1, <1>2, TailProcesses, Heads
<1>4. /\ EdgesOK' /\ FixedPoint' /\ Order' = Order
      /\ \A d, x : InFrontier(d, x)' <=> InFrontier(d, x)
  BY <1>1, SameGraph, SameOrder, SameTree
<1>. HIDE DEF b
<1>5. ASSUME NEW r \in Order, NEW y \in Order \ {Entry}
      PROVE  y \in frontier'[r] <=> Processed(y)' /\ InFrontier(r, y)
  <2>1. y \in frontier[r] <=> Processed(y) /\ InFrontier(r, y)
    BY <1>1 DEF FrontierInv
  <2>2. frontier'[r] = frontier[r] \cup IF r \in FrontierOf(b) THEN {b} ELSE {}
    BY <1>1, <1>2
  <2>3. CASE y = b
    <3>1. r \in FrontierOf(b) <=> InFrontier(r, b)
      BY <1>1, <2>3, FrontierOfIs
    <3>. QED BY <1>3, <2>1, <2>2, <2>3, <3>1
  <2>4. CASE y # b
    BY <1>3, <2>1, <2>2, <2>4
  <2>. QED BY <2>3, <2>4
<1>6. FrontierInv'
  BY <1>3, <1>4, <1>5 DEF FrontierInv
<1>. QED BY <1>1, <1>4, <1>6 DEF GraphInv

LEMMA MarkLoopHeadersKeeps ==
    ASSUME GraphInv, MarkLoopHeaders, UNCHANGED calls
    PROVE  GraphInv'
<1>1. /\ pc = "frontier" /\ pc' = "computed" /\ todo = << >>
      /\ loopHeader' = BackEdgeTargets
      /\ UNCHANGED <<term, rpo, idom, frontier>>
      /\ EdgesOK /\ FixedPoint /\ FrontierInv /\ calls' = << >>
  BY DEF GraphInv, MarkLoopHeaders, method, search
<1>2. OrderOK /\ Len(rpo) \in Nat /\ Len(todo) = 0
  BY <1>1 DEF FixedPoint, TreeOK, OrderOK
<1>3. /\ EdgesOK' /\ FixedPoint' /\ Order' = Order
      /\ \A d, x : InFrontier(d, x)' <=> InFrontier(d, x)
      /\ \A s, t : Edge(s, t)' <=> Edge(s, t)
  BY <1>1, SameGraph, SameOrder, SameTree
<1>4. \A y \in Order : Processed(y)
  BY <1>2, OrderFacts, PosIs DEF Processed
<1>5. FrontierRight'
  BY <1>1, <1>3, <1>4 DEF FrontierInv, FrontierRight
<1>6. \A S \in SUBSET (Order \ loopHeader') :
        S # {} => \E s \in S : \A t \in S : ~ Edge(s, t)
  BY <1>1, <1>2, HeadersCut
<1>7. HeadersRight'
  BY <1>3, <1>6 DEF HeadersRight
<1>. QED BY <1>1, <1>3, <1>5, <1>7 DEF GraphInv

\* The builder reads the tree and leaves it alone.
LEMMA BuilderKeeps ==
    ASSUME GraphInv,
           \/ CollectDefs \/ PlaceRegister \/ PlacePhis \/ SeedParams
           \/ RenameEntry \/ RenameChild \/ RenameReturn
    PROVE  GraphInv'
<1>. USE DEF Goto, domVars, method
<1>1. UNCHANGED term /\ pc' \notin {"dfs", "idom", "frontier", "computed"}
  <2>1. CASE CollectDefs
    BY <2>1 DEF CollectDefs
  <2>2. CASE PlaceRegister
    BY <2>2 DEF PlaceRegister
  <2>3. CASE PlacePhis
    BY <2>3 DEF PlacePhis
  <2>4. CASE SeedParams
    BY <2>4 DEF SeedParams
  <2>5. CASE RenameEntry
    BY <2>5 DEF RenameEntry
  <2>6. CASE RenameChild
    BY <2>6 DEF RenameChild, GraphInv
  <2>7. CASE RenameReturn
    BY <2>7 DEF RenameReturn, GraphInv
  <2>. QED BY <2>1, <2>2, <2>3, <2>4, <2>5, <2>6, <2>7
<1>2. EdgesOK'
  BY <1>1, SameGraph DEF GraphInv
<1>. QED BY <1>1, <1>2 DEF GraphInv

LEMMA GraphInvStutters ==
    ASSUME GraphInv, UNCHANGED vars
    PROVE  GraphInv'
<1>1. UNCHANGED <<term, pc, frames, visited, rpo, idom, todo, changed, frontier, loopHeader, calls>>
  BY DEF vars, domVars, ssaVars, renameVars
<1>2. /\ \A s, t : Edge(s, t)' <=> Edge(s, t)
      /\ \A d, b : InFrontier(d, b)' <=> InFrontier(d, b)
      /\ (EdgesOK => EdgesOK')
  BY <1>1, SameGraph
<1>3. /\ Order' = Order /\ Known' = Known
      /\ (TreeOK => TreeOK') /\ (Sound => Sound') /\ (FixedPoint => FixedPoint')
      /\ \A a, x : Anc(a, x)' <=> Anc(a, x)
  BY <1>1, SameOrder, SameTree
<1>4. (\A b : Processed(b)' <=> Processed(b)) /\ (TodoOK => TodoOK')
  BY <1>1, SameOrder DEF Processed, TodoOK
<1>5. IdomInv => IdomInv'
  BY <1>1, <1>2, <1>3, <1>4 DEF IdomInv
<1>6. (FrontierInv => FrontierInv') /\ (FrontierRight => FrontierRight')
  BY <1>1, <1>2, <1>3, <1>4 DEF FrontierInv, FrontierRight
<1>7. HeadersRight => HeadersRight'
  BY <1>1, <1>2, <1>3 DEF HeadersRight
<1>8. SearchOK(frames, visited, rpo) => SearchOK(frames, visited, rpo)'
  BY <1>1, SearchNext
<1>. QED BY <1>1, <1>2, <1>3, <1>5, <1>6, <1>7, <1>8 DEF GraphInv

\* The invariant of the passes holds in every state.
THEOREM GraphInvAlways == Spec => []GraphInv
<1>1. Init => GraphInv
  BY GraphInvFirst
<1>2. GraphInv /\ [Next]_vars => GraphInv'
  <2>1. SUFFICES ASSUME GraphInv, [Next]_vars PROVE GraphInv'
    OBVIOUS
  <2>2. CASE Dominate
    <3>1. UNCHANGED calls
      BY <2>2 DEF Dominate, ssaVars, renameVars
    <3>2. CASE DfsEdge
      BY <2>1, <3>1, <3>2, DfsEdgeKeeps
    <3>3. CASE DfsReturn
      BY <2>1, <3>1, <3>3, DfsReturnKeeps, SMTT(40)
    <3>4. CASE IdomStep
      BY <2>1, <3>1, <3>4, IdomStepKeeps
    <3>5. CASE IdomPassEnds
      BY <2>1, <3>1, <3>5, IdomPassEndsKeeps
    <3>6. CASE FrontierStep
      BY <2>1, <3>1, <3>6, FrontierStepKeeps
    <3>7. CASE MarkLoopHeaders
      BY <2>1, <3>1, <3>7, MarkLoopHeadersKeeps
    <3>. QED BY <2>2, <3>2, <3>3, <3>4, <3>5, <3>6, <3>7 DEF Dominate, DomNext
  <2>3. CASE \/ CollectDefs \/ PlaceRegister \/ PlacePhis \/ SeedParams
             \/ RenameEntry \/ RenameChild \/ RenameReturn
    BY <2>1, <2>3, BuilderKeeps
  <2>4. CASE UNCHANGED vars
    BY <2>1, <2>4, GraphInvStutters
  <2>. QED BY <2>1, <2>2, <2>3, <2>4 DEF Next
<1>. QED BY <1>1, <1>2, PTL DEF Spec

\* Once computed, the idom of a reachable block is a strict dominator of it that
\* every other one dominates, whatever the graph and the order of its edges.
THEOREM TreeIsDominatorTree == Spec => []DominatorsCorrect
<1>1. GraphInv => DominatorsCorrect
  BY FixedPointIsTree DEF GraphInv, DominatorsCorrect, TreeIsRight
<1>. QED BY <1>1, GraphInvAlways, PTL

\* Once computed, the frontiers of all blocks are those of the definition, for
\* every block but the entry.
THEOREM FrontiersAreDefinition == Spec => []FrontierCorrect
<1>1. GraphInv => FrontierCorrect
  <2>1. SUFFICES ASSUME GraphInv, pc = "computed"
                 PROVE  \A b \in Reachable : \A y \in Reachable \ {Entry} :
                            y \in frontier[b] <=> InFrontier(b, y)
    BY DEF FrontierCorrect
  <2>2. Order = Reachable
    BY <2>1, OrderFacts DEF GraphInv, FixedPoint, TreeOK
  <2>. QED BY <2>1, <2>2 DEF GraphInv, FrontierRight
<1>. QED BY <1>1, GraphInvAlways, PTL

\* Once computed, every cycle of reachable blocks has a loop header, loops of
\* several entries included.
THEOREM HeadersCutCycles == Spec => []LoopHeadersCutCycles
<1>1. GraphInv => LoopHeadersCutCycles
  <2>1. SUFFICES ASSUME GraphInv, pc = "computed", NEW S \in SUBSET (Reachable \ loopHeader),
                        S # {}
                 PROVE  \E s \in S : ToSet(NormalEdges(s)) \cap S = {}
    BY DEF LoopHeadersCutCycles
  <2>2. Order = Reachable
    BY <2>1, OrderFacts DEF GraphInv, FixedPoint, TreeOK
  <2>3. PICK s \in S : \A t \in S : ~ Edge(s, t)
    BY <2>1, <2>2 DEF GraphInv, HeadersRight
  <2>. QED BY <2>3 DEF Edge
<1>. QED BY <1>1, GraphInvAlways, PTL

-----------------------------------------------------------------------------
\* Phi nodes.

\* A phi or an instruction of b gives r a version.
Defines(b, r) == HasPhi(b, r) \/ Contains(defs[b], r)

\* The blocks in the frontier of b have a phi for r.
Merged(b, r) == \A y \in Order : y \in frontier[b] => HasPhi(y, r)

Source == [pred : Blocks, version : Nat]
Phi == [reg : Regs, dst : Nat, sources : Seq(Source)]

SsaTypes ==
    /\ pc \in {"dfs", "idom", "frontier", "computed", "place", "rename", "done"}
    /\ covered \in TryRanges /\ handlers \in HandlerLists
    /\ defs \in [Blocks -> Seq(Regs)]
    /\ phis \in [Blocks -> Seq(Phi)]
    /\ nextVersion \in Nat
    /\ versions \in [Blocks -> [Regs -> Nat \cup {NoVersion}]]

\* No block has been renamed.
Unrenamed ==
    /\ \A b \in Blocks : \A r \in Regs : versions[b][r] = NoVersion
    /\ \A b \in Blocks : \A i \in DOMAIN phis[b] : phis[b][i].sources = << >>
    /\ calls = << >>

\* A register waits for its phis, or has them, but for the one that is at work.
Placing ==
    /\ unplaced \subseteq Regs
    /\ worklist \in Seq(Blocks)
    /\ worklist # << >> => current \in Regs \ unplaced
    /\ \A r \in unplaced : \A b \in Blocks : ~ HasPhi(b, r)
    /\ \A r \in Regs \ unplaced : \A b \in Order :
         Defines(b, r) => Merged(b, r) \/ (r = current /\ b \in ToSet(worklist))

AllMerged == \A r \in Regs : \A b \in Order : Defines(b, r) => Merged(b, r)

\* The renamed blocks E: what is missing of them waits in an activation.
Walked(E) ==
    /\ E \subseteq Order
    /\ calls \in Seq([block : E, rest : Seq(Blocks), minted : Seq(Regs)])
    /\ pc = "done" => calls = << >>
    /\ IF calls = << >> /\ pc = "rename" THEN E = {} ELSE Entry \in E
    /\ \A b \in E \ {Entry} :
         /\ idom[b] \in E
         /\ \A r \in Regs : ~ Defines(b, r) => versions[b][r] = versions[idom[b]][r]
    /\ \A b \in Blocks \ E : \A r \in Regs : versions[b][r] = NoVersion
    /\ \A c \in Order \ E : idom[c] \in E =>
         \E i \in DOMAIN calls : calls[i].block = idom[c] /\ c \in ToSet(calls[i].rest)
    /\ \A i, j \in DOMAIN calls : calls[i].block = calls[j].block => i = j
    /\ \A i \in DOMAIN calls :
         /\ IsInjective(calls[i].rest)
         /\ \A c \in ToSet(calls[i].rest) : c \in Order \ E /\ idom[c] = calls[i].block

\* The stacks are as high at each activation as they were when it was entered.
Stacked(h) ==
    /\ stacks \in [Regs -> Seq(Nat)]
    /\ \A r \in Regs :
         /\ \A i \in 0..Len(calls) : h[r][i] \in Nat
         /\ \A i, j \in 0..Len(calls) : i <= j => h[r][i] <= h[r][j]
         /\ Len(stacks[r]) = h[r][Len(calls)]
         /\ \A i \in 1..Len(calls) :
              /\ h[r][i] = h[r][i - 1] + Len(MintedFor(r, calls[i].minted, 0))
              /\ versions[calls[i].block][r] =
                   IF h[r][i] = 0 THEN NoVersion ELSE stacks[r][h[r][i]]

EdgesTo(p, b) == Len(Kept(SuccessorEdges(p), {b}))

SourcesFrom(sources, p) == {k \in DOMAIN sources : sources[k].pred = p}

\* A phi has the sources from the renamed blocks.
Sourced(E) ==
    \A b \in Blocks : \A i \in DOMAIN phis[b] : \A p \in Blocks :
        LET phi == phis[b][i] IN
          /\ Cardinality(SourcesFrom(phi.sources, p)) = IF p \in E THEN EdgesTo(p, b) ELSE 0
          /\ \A k \in SourcesFrom(phi.sources, p) :
               phi.sources[k].version = ExitVersion(p, phi.reg)

SsaInv ==
    /\ SsaTypes
    /\ pc \in {"dfs", "idom", "frontier", "computed", "place"} => Unrenamed
    /\ pc \in {"dfs", "idom", "frontier", "computed"} =>
         \A b \in Blocks : phis[b] = << >>
    /\ pc \in {"dfs", "idom", "frontier", "computed"} => worklist = << >>
    /\ pc \in {"place", "rename", "done"} => FixedPoint /\ FrontierRight
    /\ pc = "place" => Placing
    /\ pc \in {"rename", "done"} =>
         /\ AllMerged
         /\ \E E : Walked(E) /\ Sourced(E)
         /\ pc = "rename" => \E h : Stacked(h)

\* If the phis are placed and each renamed block that defines nothing ends with
\* what its dominator ends with, then predecessors that differ meet in a phi.
LEMMA MergedMeet ==
    ASSUME FixedPoint, FrontierRight, AllMerged,
           NEW r \in Regs,
           \A b \in Order \ {Entry} : ~ Defines(b, r) => versions[b][r] = versions[idom[b]][r],
           NEW b \in Order \ {Entry}, ~ HasPhi(b, r), NEW p \in Order, Edge(p, b)
    PROVE  versions[p][r] = versions[idom[b]][r]
<1>1. TreeOK /\ OrderOK /\ EdgesOK /\ Known = Order /\ Order \subseteq Blocks /\ Order = Reachable
  BY KnownIs, OrderFacts, ZenonT(60) DEF FixedPoint, TreeOK, OrderOK
<1>. DEFINE top == idom[b]
            On(x) == Anc(x, p) /\ Anc(top, x)
<1>2. On(p) /\ top \in Order /\ Pos(top) < Pos(b)
  BY <1>1, AncSteps DEF FixedPoint, TreeOK
<1>3. ASSUME NEW x \in Order, On(x), x # top
      PROVE  /\ x # Entry /\ idom[x] \in Order /\ Pos(idom[x]) < Pos(x)
             /\ On(idom[x]) /\ versions[x][r] = versions[idom[x]][r]
  <2>1. x # Entry
    BY <1>1, <1>3, AncEarlier
  <2>2. idom[x] \in Order /\ Pos(idom[x]) < Pos(x)
    BY <1>1, <2>1 DEF TreeOK
  <2>3. On(idom[x])
    <3>1. Anc(idom[x], x) /\ Anc(top, idom[x])
      BY <1>1, <1>3, <2>2, AncSteps
    <3>. QED BY <1>1, <1>3, <3>1, AncSteps
  <2>4. ~ Anc(x, top)
    BY <1>1, <1>2, <1>3, AncAntisymmetric
  <2>5. InFrontier(x, b)
    <3>1. Dominates(x, p)
      BY <1>1, <1>3, AncestorsDominate
    <3>2. ~ StrictlyDominates(x, b)
      <4>1. StrictlyDominates(x, b) => Anc(x, b) /\ x # b
        BY <1>1, AncestorsDominate DEF StrictlyDominates
      <4>2. Anc(x, b) /\ x # b => Anc(x, top)
        BY <1>1, AncSteps
      <4>. QED BY <2>4, <4>1, <4>2
    <3>3. Contains(NormalEdges(p), b)
      BY <1>1, EdgeIs
    <3>. QED BY <1>1, <3>1, <3>2, <3>3 DEF InFrontier
  <2>6. b \in frontier[x]
    BY <2>5 DEF FrontierRight
  <2>7. ~ Defines(x, r)
    BY <2>6 DEF AllMerged, Merged
  <2>. QED BY <2>1, <2>2, <2>3, <2>7
<1>. DEFINE Bad == {Pos(x) : x \in {y \in Order : On(y) /\ versions[y][r] # versions[top][r]}}
<1>4. SUFFICES ASSUME versions[p][r] # versions[top][r] PROVE FALSE
  OBVIOUS
<1>5. Bad \in SUBSET Nat /\ Bad # {}
  BY <1>1, <1>2, <1>4, PosIs
<1>. HIDE DEF Bad
<1>6. PICK k \in Bad : \A j \in Bad : k <= j
  BY <1>5, LeastOf
<1>7. PICK x \in Order : On(x) /\ versions[x][r] # versions[top][r] /\ k = Pos(x)
  BY DEF Bad
<1>8. /\ idom[x] \in Order /\ Pos(idom[x]) < Pos(x)
      /\ On(idom[x]) /\ versions[x][r] = versions[idom[x]][r]
  BY <1>3, <1>7
<1>9. Pos(idom[x]) \notin Bad
  BY <1>1, <1>6, <1>7, <1>8, PosIs
<1>. QED BY <1>7, <1>8, <1>9 DEF Bad

LEMMA ConcatIs ==
    ASSUME NEW A, NEW s \in Seq(A), NEW t \in Seq(A)
    PROVE  /\ s \o t \in Seq(A) /\ ToSet(s \o t) = ToSet(s) \cup ToSet(t)
           /\ Len(s \o t) = Len(s) + Len(t)
           /\ \A i \in 1..Len(s) : (s \o t)[i] = s[i]
<1>. DEFINE u == s \o t
            m == Len(s)
            n == Len(t)
<1>1. /\ u \in Seq(A) /\ m \in Nat /\ n \in Nat
      /\ DOMAIN s = 1..m /\ DOMAIN t = 1..n /\ DOMAIN u = 1..m + n
      /\ \A i \in 1..m : u[i] = s[i]
      /\ \A i \in 1..n : u[m + i] = t[i]
  OBVIOUS
<1>2. \A i \in m + 1..m + n : u[i] = t[i - m]
  OBVIOUS
<1>. HIDE DEF u, m, n
<1>3. \A y \in ToSet(s) : y \in ToSet(u)
  BY <1>1, SMTT(40) DEF ToSet
<1>4. \A y \in ToSet(t) : y \in ToSet(u)
  <2>1. TAKE y \in ToSet(t)
  <2>2. PICK i \in 1..n : y = t[i]
    BY <1>1 DEF ToSet
  <2>3. m + i \in 1..m + n /\ u[m + i] = y
    BY <1>1, <2>2
  <2>. QED BY <1>1, <2>3 DEF ToSet
<1>5. \A y \in ToSet(u) : y \in ToSet(s) \cup ToSet(t)
  <2>1. TAKE y \in ToSet(u)
  <2>2. PICK i \in 1..m + n : y = u[i]
    BY <1>1 DEF ToSet
  <2>3. CASE i \in 1..m
    BY <1>1, <2>2, <2>3 DEF ToSet
  <2>4. CASE i \in m + 1..m + n
    <3>1. i - m \in 1..n /\ y = t[i - m]
      BY <1>1, <1>2, <2>2, <2>4
    <3>. QED BY <1>1, <3>1 DEF ToSet
  <2>. QED BY <1>1, <2>3, <2>4
<1>6. ToSet(u) = ToSet(s) \cup ToSet(t)
  BY <1>3, <1>4, <1>5
<1>7. Len(u) = m + n
  BY <1>1
<1>. QED BY <1>1, <1>6, <1>7 DEF u, m, n

LEMMA TailIs ==
    ASSUME NEW A, NEW s \in Seq(A), s # << >>, IsInjective(s)
    PROVE  /\ Tail(s) \in Seq(A) /\ IsInjective(Tail(s))
           /\ Head(s) = s[1] /\ Head(s) \in ToSet(s)
           /\ ToSet(Tail(s)) = ToSet(s) \ {s[1]}
<1>. DEFINE t == Tail(s)
            n == Len(s)
<1>1. /\ t \in Seq(A) /\ n \in Nat \ {0} /\ DOMAIN s = 1..n /\ DOMAIN t = 1..n - 1
      /\ \A i \in 1..n - 1 : t[i] = s[i + 1]
      /\ Head(s) = s[1]
  OBVIOUS
<1>. HIDE DEF t, n
<1>2. \A i, j \in 1..n : s[i] = s[j] => i = j
  BY <1>1 DEF IsInjective
<1>3. \A i, j \in 1..n - 1 : t[i] = t[j] => i = j
  <2>1. TAKE i, j \in 1..n - 1
  <2>2. i + 1 \in 1..n /\ j + 1 \in 1..n
    BY <1>1
  <2>. QED BY <1>1, <1>2, <2>2
<1>4. IsInjective(t)
  BY <1>1, <1>3 DEF IsInjective
<1>5. \A y \in ToSet(t) : y \in ToSet(s) \ {s[1]}
  <2>1. TAKE y \in ToSet(t)
  <2>2. PICK i \in 1..n - 1 : y = t[i]
    BY <1>1 DEF ToSet
  <2>3. i + 1 \in 1..n /\ 1 \in 1..n /\ i + 1 # 1 /\ y = s[i + 1]
    BY <1>1, <2>2
  <2>. QED BY <1>1, <1>2, <2>3, SMTT(40) DEF ToSet
<1>6. \A y \in ToSet(s) \ {s[1]} : y \in ToSet(t)
  <2>1. TAKE y \in ToSet(s) \ {s[1]}
  <2>2. PICK i \in 1..n : y = s[i] /\ i # 1
    BY <1>1 DEF ToSet
  <2>3. i - 1 \in 1..n - 1 /\ (i - 1) + 1 = i
    BY <1>1, <2>2
  <2>. QED BY <1>1, <2>2, <2>3 DEF ToSet
<1>7. Head(s) \in ToSet(s)
  BY <1>1 DEF ToSet
<1>. QED BY <1>1, <1>4, <1>5, <1>6, <1>7 DEF t

LEMMA MintedForIs ==
    ASSUME NEW regs \in Seq(Regs), NEW r, NEW first \in Nat
    PROVE  /\ MintedFor(r, regs, first) \in Seq(Nat)
           /\ Len(MintedFor(r, regs, first)) = Len(MintedFor(r, regs, 0))
           /\ MintedFor(r, regs, first) = << >> <=> r \notin ToSet(regs)
<1>. DEFINE places == [i \in DOMAIN regs |-> i]
            ofR == {i \in DOMAIN regs : regs[i] = r}
            at == Kept(places, ofR)
            For(f) == [k \in DOMAIN at |-> f + at[k] - 1]
<1>1. Len(regs) \in Nat /\ DOMAIN regs = 1..Len(regs)
  OBVIOUS
<1>2. places \in Seq(1..Len(regs)) /\ ToSet(places) = 1..Len(regs)
  BY <1>1 DEF ToSet
<1>3. ofR = {i \in 1..Len(regs) : regs[i] = r}
  BY <1>1
<1>. HIDE DEF places, ofR
<1>4. at \in Seq(1..Len(regs)) /\ ToSet(at) = ofR
  BY <1>2, <1>3, KeptIs
<1>5. MintedFor(r, regs, first) = For(first) /\ MintedFor(r, regs, 0) = For(0)
  BY DEF MintedFor, places, ofR
<1>. HIDE DEF at
<1>6. Len(at) \in Nat /\ DOMAIN at = 1..Len(at) /\ \A k \in 1..Len(at) : at[k] \in 1..Len(regs)
  BY <1>4
<1>7. For(first) \in Seq(Nat) /\ Len(For(first)) = Len(at) /\ Len(For(0)) = Len(at)
  BY <1>1, <1>6
<1>8. Len(at) = 0 <=> ofR = {}
  <2>1. ofR = {at[k] : k \in 1..Len(at)}
    BY <1>4, <1>6 DEF ToSet
  <2>2. Len(at) # 0 => 1 \in 1..Len(at)
    BY <1>6
  <2>3. Len(at) = 0 => 1..Len(at) = {}
    OBVIOUS
  <2>. QED BY <2>1, <2>2, <2>3
<1>9. ofR = {} <=> r \notin ToSet(regs)
  BY <1>1, <1>3 DEF ToSet
<1>. HIDE DEF For
<1>10. For(first) = << >> <=> Len(For(first)) = 0
  BY <1>7
<1>. QED BY <1>5, <1>7, <1>8, <1>9, <1>10

LEMMA MintedIs ==
    ASSUME SsaTypes, NEW b \in Blocks
    PROVE  /\ Minted(b) \in Seq(Regs)
           /\ \A r : r \in ToSet(Minted(b)) <=> Defines(b, r)
<1>. DEFINE regs == [i \in DOMAIN phis[b] |-> phis[b][i].reg]
            code == defs[b]
<1>1. phis[b] \in Seq(Phi) /\ code \in Seq(Regs)
  BY DEF SsaTypes
<1>2. Len(phis[b]) \in Nat /\ DOMAIN phis[b] = 1..Len(phis[b])
      /\ \A i \in 1..Len(phis[b]) : phis[b][i].reg \in Regs
  <2>1. \A x \in Phi : x.reg \in Regs
    BY DEF Phi
  <2>2. \A i \in 1..Len(phis[b]) : phis[b][i] \in Phi
    BY <1>1
  <2>. QED BY <1>1, <2>1, <2>2
<1>3. regs \in Seq(Regs)
  BY <1>2
<1>4. \A r : r \in ToSet(regs) <=> HasPhi(b, r)
  BY <1>2 DEF ToSet, HasPhi
<1>5. \A r : r \in ToSet(code) <=> Contains(defs[b], r)
  BY <1>1 DEF ToSet, Contains
<1>6. Minted(b) = regs \o code
  BY DEF Minted
<1>. HIDE DEF regs, code
<1>7. regs \o code \in Seq(Regs) /\ ToSet(regs \o code) = ToSet(regs) \cup ToSet(code)
  BY <1>1, <1>3, ConcatIs
<1>. QED BY <1>4, <1>5, <1>6, <1>7 DEF Defines

LEMMA SuccessorsAre ==
    ASSUME EdgesOK, SsaTypes, NEW b \in Blocks
    PROVE  SuccessorEdges(b) \in Seq(Blocks)
<1>1. NormalEdges(b) \in Seq(Blocks)
  BY EdgesAre
<1>2. handlers \in Seq(Blocks \cup {NoBlock})
  BY GraphAssumption DEF SsaTypes
<1>3. Kept(handlers, Blocks) \in Seq(Blocks)
  BY <1>2, KeptBlocks
<1>4. << >> \in Seq(Blocks)
  OBVIOUS
<1>5. ExceptionEdges(b) \in Seq(Blocks)
  BY <1>3, <1>4 DEF ExceptionEdges
<1>. QED BY <1>1, <1>5, ConcatIs DEF SuccessorEdges

\* The children of a block in the tree.
LEMMA ChildrenAre ==
    ASSUME TreeOK, NEW b \in Blocks
    PROVE  /\ DomChildren(b) \in Seq(Blocks) /\ IsInjective(DomChildren(b))
           /\ ToSet(DomChildren(b)) = {c \in Order \ {Entry} : idom[c] = b /\ c # b}
<1>1. rpo \in Seq(Blocks) /\ IsInjective(rpo) /\ rpo # << >> /\ rpo[1] = Entry
  BY DEF TreeOK, OrderOK
<1>2. Tail(rpo) \in Seq(Blocks) /\ IsInjective(Tail(rpo)) /\ ToSet(Tail(rpo)) = Order \ {Entry}
  BY <1>1, TailIs DEF Order
<1>3. Order \subseteq Blocks
  BY OrderFacts DEF TreeOK
<1>. DEFINE S == {c \in Blocks : idom[c] = b /\ c # b}
<1>4. DomChildren(b) = Kept(Tail(rpo), S)
  BY DEF DomChildren
<1>5. (Order \ {Entry}) \cap S = {c \in Order \ {Entry} : idom[c] = b /\ c # b}
  BY <1>3
<1>. HIDE DEF S
<1>. DEFINE rest == Tail(rpo)
<1>. HIDE DEF rest
<1>6. /\ Kept(rest, S) \in Seq(Blocks) /\ IsInjective(Kept(rest, S))
      /\ ToSet(Kept(rest, S)) = ToSet(rest) \cap S
  <2>1. rest \in Seq(Blocks) /\ IsInjective(rest)
    BY <1>2 DEF rest
  <2>. QED BY <2>1, KeptIs
<1>7. ToSet(rest) = Order \ {Entry} /\ DomChildren(b) = Kept(rest, S)
  BY <1>2, <1>4 DEF rest
<1>. QED BY <1>5, <1>6, <1>7

LEMMA SourcesConcat ==
    ASSUME NEW s \in Seq(Source), NEW t \in Seq(Source)
    PROVE  /\ s \o t \in Seq(Source) /\ Len(s \o t) = Len(s) + Len(t)
           /\ \A i \in 1..Len(s) : (s \o t)[i] = s[i]
           /\ \A i \in 1..Len(t) : (s \o t)[Len(s) + i] = t[i]
OBVIOUS

\* `all` is `sources` and m more, from b.
Added(all, sources, m, b, n) ==
    /\ sources \in Seq(Source) /\ all \in Seq(Source) /\ m \in Nat
    /\ Len(all) = Len(sources) + m
    /\ \A i \in 1..Len(sources) : all[i] = sources[i]
    /\ \A i \in 1..m : /\ all[Len(sources) + i].pred = b
                       /\ all[Len(sources) + i].version = n

\* Then they are the only ones from there.
Grown(all, sources, m, b, n) ==
    /\ \A p : p # b => /\ SourcesFrom(all, p) = SourcesFrom(sources, p)
                       /\ \A k \in SourcesFrom(all, p) : all[k] = sources[k]
    /\ SourcesFrom(sources, b) = {} =>
         /\ Cardinality(SourcesFrom(all, b)) = m
         /\ \A k \in SourcesFrom(all, b) : all[k].version = n

LEMMA SourcesAdd ==
    ASSUME NEW sources, NEW b, NEW n, NEW m, NEW all, Added(all, sources, m, b, n)
    PROVE  Grown(all, sources, m, b, n)
<1>. DEFINE l == Len(sources)
<1>1. /\ all \in Seq(Source) /\ l \in Nat /\ m \in Nat /\ DOMAIN sources = 1..l /\ DOMAIN all = 1..l + m
      /\ \A i \in 1..l : all[i] = sources[i]
      /\ \A i \in 1..m : all[l + i].pred = b /\ all[l + i].version = n
  <2>1. all \in Seq(Source) /\ Len(all) = l + m /\ sources \in Seq(Source) /\ m \in Nat
    BY DEF Added
  <2>2. /\ \A i \in 1..l : all[i] = sources[i]
        /\ \A i \in 1..m : all[l + i].pred = b /\ all[l + i].version = n
    BY DEF Added
  <2>3. l \in Nat /\ DOMAIN sources = 1..l
    BY <2>1
  <2>. HIDE DEF l
  <2>4. DOMAIN all = 1..l + m
    BY <2>1, <2>3
  <2>. QED BY <2>1, <2>2, <2>3, <2>4
<1>2. \A i \in l + 1..l + m : i - l \in 1..m /\ l + (i - l) = i
  BY <1>1
<1>. HIDE DEF l
<1>3. \A i \in l + 1..l + m : all[i].pred = b /\ all[i].version = n
  <2>1. TAKE i \in l + 1..l + m
  <2>2. all[l + (i - l)].pred = b /\ all[l + (i - l)].version = n
    BY <1>1, <1>2
  <2>. QED BY <1>2, <2>2
<1>4. \A i \in 1..l + m : i \in 1..l \/ i \in l + 1..l + m
  BY <1>1
<1>5. \A i \in 1..l : i \in 1..l + m
  BY <1>1
<1>6. ASSUME NEW p, p # b
      PROVE  /\ SourcesFrom(all, p) = SourcesFrom(sources, p)
             /\ \A k \in SourcesFrom(all, p) : all[k] = sources[k]
  BY <1>1, <1>3, <1>4, <1>5, <1>6 DEF SourcesFrom
<1>7. ASSUME SourcesFrom(sources, b) = {}
      PROVE  /\ Cardinality(SourcesFrom(all, b)) = m
             /\ \A k \in SourcesFrom(all, b) : all[k].version = n
  <2>3. \A i \in 1..l : all[i].pred # b
    BY <1>1, <1>7 DEF SourcesFrom
  <2>4. SourcesFrom(all, b) = l + 1..l + m
    <3>1. SourcesFrom(all, b) = {k \in 1..l + m : all[k].pred = b}
      BY <1>1 DEF SourcesFrom
    <3>2. \A k \in l + 1..l + m : k \in 1..l + m
      BY <1>1
    <3>. QED BY <1>3, <1>4, <2>3, <3>1, <3>2
  <2>5. Cardinality(l + 1..l + m) = m
    <3>1. Cardinality(l + 1..l + m) = IF l + 1 > l + m THEN 0 ELSE (l + m) - (l + 1) + 1
      BY <1>1, FS_Interval
    <3>. QED BY <1>1, <3>1
  <2>. QED BY <1>3, <2>4, <2>5
<1>. QED BY <1>6, <1>7 DEF Grown

LEMMA LiveIs ==
    ASSUME NEW s \in Seq(Nat), NEW x, x = IF s = << >> THEN NoVersion ELSE Last(s)
    PROVE  LiveOr0(s) \in Nat /\ LiveOr0(s) = IF x = NoVersion THEN 0 ELSE x
<1>1. CASE s = << >>
  BY <1>1 DEF LiveOr0
<1>2. CASE s # << >>
  <2>1. Len(s) \in Nat \ {0} /\ s[Len(s)] \in Nat
    BY <1>2
  <2>. QED BY <1>2, <2>1 DEF LiveOr0, Last, NoVersion
<1>. QED BY <1>1, <1>2

LEMMA LastIs ==
    ASSUME NEW A, NEW s \in Seq(A), s # << >>
    PROVE  Last(s) \in A /\ Len(s) \in Nat \ {0} /\ Last(s) = s[Len(s)]
BY SMTT(40) DEF Last

\* What entering a block does to the state.
LEMMA EnterIs ==
    ASSUME EdgesOK, SsaTypes, stacks \in [Regs -> Seq(Nat)], NEW b \in Blocks,
           EnterBlock(b), UNCHANGED <<domVars, defs, placeVars>>
    PROVE  /\ SsaTypes'
           /\ stacks' \in [Regs -> Seq(Nat)]
           /\ \A r \in Regs :
                /\ stacks'[r] = stacks[r] \o MintedFor(r, Minted(b), nextVersion)
                /\ versions'[b][r] =
                     IF stacks'[r] = << >> THEN versions[b][r] ELSE Last(stacks'[r])
           /\ \A x \in Blocks \ {b} : versions'[x] = versions[x]
           /\ \A s \in Blocks :
                /\ DOMAIN phis'[s] = DOMAIN phis[s]
                /\ \A i \in DOMAIN phis[s] :
                     /\ phis[s][i] \in Phi
                     /\ phis'[s][i].reg = phis[s][i].reg
                     /\ phis'[s][i].sources = phis[s][i].sources \o
                          [k \in 1..EdgesTo(b, s) |->
                             [pred |-> b, version |-> LiveOr0(stacks'[phis[s][i].reg])]]
           /\ \A s \in Blocks : \A r : Defines(s, r)' <=> Defines(s, r)
           /\ \A s \in Blocks : \A r : HasPhi(s, r)' <=> HasPhi(s, r)
           /\ \A p, s : EdgesTo(p, s)' = EdgesTo(p, s)
           /\ \A s \in Blocks : EdgesTo(b, s) \in Nat
<1>. DEFINE minted == Minted(b)
            numbered == [i \in DOMAIN phis[b] |-> [phis[b][i] EXCEPT !.dst = nextVersion + i - 1]]
            named == [phis EXCEPT ![b] = numbered]
            edges(s) == Kept(SuccessorEdges(b), {s})
            add(s, r) == [k \in DOMAIN edges(s) |-> [pred |-> b, version |-> LiveOr0(stacks'[r])]]
<1>1. /\ minted \in Seq(Regs) /\ Len(minted) \in Nat /\ nextVersion \in Nat
      /\ nextVersion' = nextVersion + Len(minted)
      /\ phis \in [Blocks -> Seq(Phi)] /\ versions \in [Blocks -> [Regs -> Nat \cup {NoVersion}]]
  BY MintedIs DEF EnterBlock, SsaTypes
<1>2. /\ stacks' = [r \in Regs |-> stacks[r] \o MintedFor(r, minted, nextVersion)]
      /\ versions' = [versions EXCEPT ![b] =
           [r \in Regs |-> IF stacks'[r] = << >> THEN versions[b][r] ELSE Last(stacks'[r])]]
      /\ phis' = [s \in Blocks |-> phis'[s]]
      /\ \A s \in Blocks :
           /\ phis'[s] = [i \in DOMAIN named[s] |-> phis'[s][i]]
           /\ \A i \in DOMAIN named[s] :
                phis'[s][i] = [named[s][i] EXCEPT !.sources = @ \o add(s, named[s][i].reg)]
  <2>. DEFINE stacked == [r \in Regs |-> stacks[r] \o MintedFor(r, minted, nextVersion)]
  <2>1. stacks' = stacked
    BY Zenon DEF EnterBlock
  <2>2. versions' = [versions EXCEPT ![b] =
           [r \in Regs |-> IF stacked[r] = << >> THEN versions[b][r] ELSE Last(stacked[r])]]
    BY Zenon DEF EnterBlock
  <2>3. phis' = [s \in Blocks |-> [i \in DOMAIN named[s] |-> Filled(s, b, named[s][i], stacked)]]
    BY Zenon DEF EnterBlock
  <2>4. stacks' = [r \in Regs |-> stacks[r] \o MintedFor(r, minted, nextVersion)]
    BY <2>1
  <2>. HIDE DEF stacked, named, minted
  <2>5. versions' = [versions EXCEPT ![b] =
           [r \in Regs |-> IF stacks'[r] = << >> THEN versions[b][r] ELSE Last(stacks'[r])]]
    BY <2>1, <2>2, Zenon
  <2>6. phis' = [s \in Blocks |-> phis'[s]]
    BY <2>3
  <2>7. \A s \in Blocks : phis'[s] = [i \in DOMAIN named[s] |-> Filled(s, b, named[s][i], stacked)]
    BY <2>3
  <2>8. ASSUME NEW s \in Blocks, NEW i \in DOMAIN named[s]
        PROVE  phis'[s][i] = [named[s][i] EXCEPT !.sources = @ \o add(s, named[s][i].reg)]
    <3>1. phis'[s][i] = Filled(s, b, named[s][i], stacks')
      BY <2>1, <2>7
    <3>2. Filled(s, b, named[s][i], stacks')
            = [named[s][i] EXCEPT !.sources = @ \o add(s, named[s][i].reg)]
      BY Zenon DEF Filled
    <3>. QED BY <3>1, <3>2
  <2>9. \A s \in Blocks : phis'[s] = [i \in DOMAIN named[s] |-> phis'[s][i]]
    BY <2>7
  <2>. QED BY <2>4, <2>5, <2>6, <2>8, <2>9
<1>. HIDE DEF minted
<1>3. ASSUME NEW r \in Regs
      PROVE  stacks'[r] = stacks[r] \o MintedFor(r, minted, nextVersion) /\ stacks'[r] \in Seq(Nat)
  <2>1. MintedFor(r, minted, nextVersion) \in Seq(Nat) /\ stacks[r] \in Seq(Nat)
    BY <1>1, MintedForIs
  <2>2. stacks[r] \o MintedFor(r, minted, nextVersion) \in Seq(Nat)
    BY <2>1, ConcatIs
  <2>3. stacks' = [q \in Regs |-> stacks[q] \o MintedFor(q, minted, nextVersion)]
    BY <1>2, Zenon
  <2>4. stacks'[r] = stacks[r] \o MintedFor(r, minted, nextVersion)
    BY <2>3, ZenonT(60)
  <2>. QED BY <2>2, <2>4, Zenon
<1>4. stacks' \in [Regs -> Seq(Nat)]
  BY <1>2, <1>3
<1>5. ASSUME NEW r \in Regs
      PROVE  /\ versions'[b][r] = IF stacks'[r] = << >> THEN versions[b][r] ELSE Last(stacks'[r])
             /\ versions'[b][r] \in Nat \cup {NoVersion}
             /\ LiveOr0(stacks'[r]) \in Nat
  <2>1. versions'[b] = [q \in Regs |-> IF stacks'[q] = << >> THEN versions[b][q] ELSE Last(stacks'[q])]
    BY <1>1, <1>2
  <2>2. versions'[b][r] = IF stacks'[r] = << >> THEN versions[b][r] ELSE Last(stacks'[r])
    BY <2>1
  <2>3. stacks'[r] # << >> => Last(stacks'[r]) \in Nat
    BY <1>3, LastIs
  <2>4. versions[b][r] \in Nat \cup {NoVersion}
    BY <1>1, SMTT(40)
  <2>. QED BY <2>2, <2>3, <2>4, SMTT(40) DEF LiveOr0
<1>6. \A x \in Blocks \ {b} : versions'[x] = versions[x]
  BY <1>1, <1>2, SMTT(40)
<1>7. versions' \in [Blocks -> [Regs -> Nat \cup {NoVersion}]]
  BY <1>1, <1>2, <1>5
<1>8. \A s \in Blocks : edges(s) \in Seq(Blocks) /\ DOMAIN edges(s) = 1..EdgesTo(b, s)
                        /\ EdgesTo(b, s) \in Nat
  <2>1. TAKE s \in Blocks
  <2>2. edges(s) \in Seq(Blocks)
    BY SuccessorsAre, KeptIs
  <2>. QED BY <2>2 DEF EdgesTo
<1>. HIDE DEF edges
<1>9. ASSUME NEW s \in Blocks, NEW i \in DOMAIN phis[s]
      PROVE  /\ phis[s][i] \in Phi /\ i \in Nat \ {0}
             /\ named[s][i].reg = phis[s][i].reg /\ named[s][i].sources = phis[s][i].sources
             /\ named[s][i] \in Phi
             /\ DOMAIN named[s] = DOMAIN phis[s]
  <2>1. phis[s] \in Seq(Phi)
    BY <1>1
  <2>2. phis[s][i] \in Phi /\ i \in Nat \ {0}
    BY <2>1
  <2>3. \A x \in Phi : \A d \in Nat : [x EXCEPT !.dst = d] \in Phi
          /\ [x EXCEPT !.dst = d].reg = x.reg /\ [x EXCEPT !.dst = d].sources = x.sources
    BY DEF Phi
  <2>4. nextVersion + i - 1 \in Nat
    BY <1>1, <2>2
  <2>5. CASE s # b
    BY <1>1, <2>2, <2>5
  <2>6. CASE s = b
    BY <1>1, <2>2, <2>3, <2>4, <2>6, SMTT(40)
  <2>. QED BY <2>2, <2>5, <2>6
<1>10. \A s \in Blocks : DOMAIN named[s] = DOMAIN phis[s]
  BY <1>1, SMTT(40)
<1>. HIDE DEF named
<1>11. ASSUME NEW s \in Blocks
       PROVE  DOMAIN phis'[s] = DOMAIN phis[s]
  BY <1>2, <1>10, SMTT(40)
<1>12. ASSUME NEW s \in Blocks, NEW i \in DOMAIN phis[s]
       PROVE  /\ phis'[s][i].reg = phis[s][i].reg
              /\ phis'[s][i].sources = phis[s][i].sources \o
                   [k \in 1..EdgesTo(b, s) |->
                      [pred |-> b, version |-> LiveOr0(stacks'[phis[s][i].reg])]]
              /\ phis'[s][i] \in Phi
  <2>. DEFINE x == named[s][i]
              t == add(s, phis[s][i].reg)
  <2>1. x \in Phi /\ x.reg = phis[s][i].reg /\ x.sources = phis[s][i].sources
    BY <1>9, SMTT(40)
  <2>2. phis'[s][i] = [x EXCEPT !.sources = x.sources \o t]
    <3>1. phis'[s][i] = [x EXCEPT !.sources = @ \o add(s, x.reg)]
      BY <1>2, <1>10
    <3>. QED BY <2>1, <3>1, SMTT(40)
  <2>3. t = [k \in 1..EdgesTo(b, s) |->
                      [pred |-> b, version |-> LiveOr0(stacks'[phis[s][i].reg])]]
    BY <1>8
  <2>. HIDE DEF x, t
  <2>4. x.reg \in Regs /\ x.sources \in Seq(Source)
    BY <2>1 DEF Phi
  <2>5. LiveOr0(stacks'[phis[s][i].reg]) \in Nat
    BY <1>5, <2>1, <2>4
  <2>6. x.sources \o t \in Seq(Source)
    <3>1. t \in Seq(Source)
      <4>1. EdgesTo(b, s) \in Nat
        BY <1>8
      <4>2. [pred |-> b, version |-> LiveOr0(stacks'[phis[s][i].reg])] \in Source
        BY <2>5 DEF Source
      <4>. QED BY <2>3, <4>1, <4>2, SMTT(40)
    <3>. QED BY <2>4, <3>1, ConcatIs
  <2>7. /\ phis'[s][i].reg = x.reg /\ phis'[s][i].sources = x.sources \o t
        /\ phis'[s][i] \in Phi
    <3>1. \A q \in Seq(Source) : /\ [x EXCEPT !.sources = q].reg = x.reg
                                 /\ [x EXCEPT !.sources = q].sources = q
                                 /\ [x EXCEPT !.sources = q] \in Phi
      BY <2>1 DEF Phi
    <3>. QED BY <2>2, <2>6, <3>1
  <2>. QED BY <2>1, <2>3, <2>7
<1>13. phis' \in [Blocks -> Seq(Phi)]
  <2>1. ASSUME NEW s \in Blocks PROVE phis'[s] \in Seq(Phi)
    <3>1. Len(phis[s]) \in Nat /\ DOMAIN phis[s] = 1..Len(phis[s])
      BY <1>1, SMTT(40)
    <3>2. phis'[s] = [i \in 1..Len(phis[s]) |-> phis'[s][i]]
      BY <1>2, <1>10, <3>1, SMTT(40)
    <3>3. \A i \in 1..Len(phis[s]) : phis'[s][i] \in Phi
      BY <1>12, <3>1
    <3>. QED BY <3>1, <3>2, <3>3
  <2>2. phis' = [s \in Blocks |-> phis'[s]]
    BY <1>2
  <2>. QED BY <2>1, <2>2
<1>14. \A s \in Blocks : \A r : HasPhi(s, r)' <=> HasPhi(s, r)
  BY <1>11, <1>12 DEF HasPhi
<1>15. \A s \in Blocks : \A r : Defines(s, r)' <=> Defines(s, r)
  BY <1>14 DEF Defines
<1>16. SsaTypes'
  BY <1>1, <1>7, <1>13 DEF SsaTypes, domVars
<1>17. \A p, s : EdgesTo(p, s)' = EdgesTo(p, s)
  BY DEF EdgesTo, SuccessorEdges, NormalEdges, ExceptionEdges, domVars
<1>. QED BY <1>3, <1>4, <1>5, <1>6, <1>8, <1>9, <1>11, <1>12, <1>14, <1>15, <1>16, <1>17, ZenonT(60) DEF minted

\* Entering a block adds its sources to the phis of its successors.
LEMMA EnterSources ==
    ASSUME EdgesOK, SsaTypes, stacks \in [Regs -> Seq(Nat)], NEW b \in Blocks,
           EnterBlock(b), UNCHANGED <<domVars, defs, placeVars>>,
           NEW E, b \notin E, Sourced(E), \A r \in Regs : versions[b][r] = NoVersion
    PROVE  Sourced(E \cup {b})'
<1>1. ASSUME NEW s \in Blocks, NEW i \in DOMAIN phis'[s], NEW p \in Blocks
      PROVE  LET phi == phis'[s][i]
                 version == versions'[p][phi.reg]
             IN  /\ Cardinality(SourcesFrom(phi.sources, p)) =
                      IF p \in E \cup {b} THEN EdgesTo(p, s)' ELSE 0
                 /\ \A k \in SourcesFrom(phi.sources, p) :
                      phi.sources[k].version = IF version = NoVersion THEN 0 ELSE version
  <2>. DEFINE old == phis[s][i].sources
              reg == phis[s][i].reg
              n == LiveOr0(stacks'[reg])
              x == [pred |-> b, version |-> n]
              new == [k \in 1..EdgesTo(b, s) |-> x]
              live == IF versions'[p][reg] = NoVersion THEN 0 ELSE versions'[p][reg]
  <2>1. /\ reg \in Regs /\ old \in Seq(Source)
        /\ phis'[s][i].reg = reg /\ EdgesTo(b, s) \in Nat
        /\ phis'[s][i].sources = old \o new
        /\ i \in DOMAIN phis[s]
    <3>1. i \in DOMAIN phis[s]
      BY EnterIs
    <3>2. phis[s][i] \in Phi
      BY <3>1, EnterIs
    <3>3. reg \in Regs /\ old \in Seq(Source)
      BY <3>2 DEF Phi
    <3>. QED BY <3>1, <3>3, EnterIs, ZenonT(60)
  <2>2. stacks'[reg] \in Seq(Nat)
        /\ versions'[b][reg] = IF stacks'[reg] = << >> THEN NoVersion ELSE Last(stacks'[reg])
    BY <2>1, EnterIs, ZenonT(60)
  <2>3. n \in Nat /\ (p = b => live = n)
    BY <2>2, LiveIs
  <2>4. /\ Cardinality(SourcesFrom(old, p)) = IF p \in E THEN EdgesTo(p, s) ELSE 0
        /\ \A k \in SourcesFrom(old, p) : old[k].version = ExitVersion(p, reg)
    BY <2>1 DEF Sourced
  <2>5. p # b => live = ExitVersion(p, reg)
    <3>1. p # b => versions'[p] = versions[p]
      BY EnterIs, SMTT(40)
    <3>. QED BY <3>1, SMTT(40) DEF ExitVersion
  <2>6. EdgesTo(p, s)' = EdgesTo(p, s)
    BY EnterIs, SMTT(40)
  <2>7. new \in Seq(Source) /\ Len(new) = EdgesTo(b, s)
        /\ \A k \in 1..Len(new) : new[k].pred = b /\ new[k].version = n
    <3>1. x \in Source /\ x.pred = b /\ x.version = n
      BY <2>3 DEF Source
    <3>. HIDE DEF x
    <3>. QED BY <2>1, <3>1, SMTT(40)
  <2>. DEFINE all == old \o new
  <2>. HIDE DEF x, old, new, reg, n, live
  <2>8. Grown(all, old, EdgesTo(b, s), b, n)
    <3>1. Len(new) = EdgesTo(b, s) /\ EdgesTo(b, s) \in Nat /\ old \in Seq(Source)
          /\ new \in Seq(Source)
      BY <2>1, <2>7
    <3>2. all \in Seq(Source) /\ Len(all) = Len(old) + Len(new)
          /\ (\A k \in 1..Len(old) : all[k] = old[k])
          /\ \A k \in 1..Len(new) : all[Len(old) + k] = new[k]
      BY <3>1, SourcesConcat DEF all
    <3>3. Added(all, old, EdgesTo(b, s), b, n)
      BY <2>7, <3>1, <3>2 DEF Added
    <3>. QED BY <3>3, SourcesAdd
  <2>. HIDE DEF all
  <2>9. p = b => SourcesFrom(old, b) = {}
    <3>1. p = b => Cardinality(SourcesFrom(old, b)) = 0
      BY <2>4
    <3>2. IsFiniteSet(SourcesFrom(old, b))
      <4>1. Len(old) \in Nat /\ DOMAIN old = 1..Len(old)
        BY <2>1
      <4>2. IsFiniteSet(1..Len(old)) /\ SourcesFrom(old, b) \subseteq 1..Len(old)
        BY <4>1, FS_Interval DEF SourcesFrom
      <4>. QED BY <4>2, FS_Subset
    <3>. QED BY <3>1, <3>2, FS_EmptySet
  <2>10. /\ Cardinality(SourcesFrom(all, p)) = IF p \in E \cup {b} THEN EdgesTo(p, s)' ELSE 0
         /\ \A k \in SourcesFrom(all, p) : all[k].version = live
    <3>1. CASE p = b
      BY <2>3, <2>6, <2>8, <2>9, <3>1 DEF Grown
    <3>2. CASE p # b
      BY <2>4, <2>5, <2>6, <2>8, <3>2 DEF Grown
    <3>. QED BY <3>1, <3>2
  <2>. QED BY <2>1, <2>10 DEF all, live
<1>. QED BY <1>1 DEF Sourced, ExitVersion

LEMMA StackIs ==
    ASSUME NEW s \in Seq(Nat), NEW t \in Seq(Nat)
    PROVE  /\ s \o t \in Seq(Nat) /\ Len(s \o t) = Len(s) + Len(t)
           /\ \A i \in 1..Len(s) : (s \o t)[i] = s[i]
BY ConcatIs

\* An activation on top of the others, with what it minted on the stacks.
LEMMA EnterStacks ==
    ASSUME EdgesOK, SsaTypes, NEW b \in Blocks,
           EnterBlock(b), UNCHANGED <<domVars, defs, placeVars>>,
           NEW h, Stacked(h), \A r \in Regs : versions[b][r] = NoVersion,
           Len(calls) \in Nat, Len(calls') = Len(calls) + 1,
           \A i \in 1..Len(calls) : /\ calls'[i].block = calls[i].block
                                    /\ calls'[i].minted = calls[i].minted
                                    /\ calls[i].block \in Blocks \ {b},
           calls'[Len(calls) + 1].block = b, calls'[Len(calls) + 1].minted = Minted(b)
    PROVE  \E g : Stacked(g)'
<1>. DEFINE n == Len(calls)
            more(r) == Len(MintedFor(r, Minted(b), 0))
            g == [r \in Regs |-> [i \in 0..n + 1 |-> IF i = n + 1 THEN h[r][n] + more(r) ELSE h[r][i]]]
<1>1. stacks \in [Regs -> Seq(Nat)]
  BY SMTT(40) DEF Stacked
<1>2. stacks' \in [Regs -> Seq(Nat)]
  BY <1>1, EnterIs, SMTT(40)
<1>3. ASSUME NEW r \in Regs
      PROVE  /\ \A i \in 0..n + 1 : g[r][i] \in Nat
             /\ \A i, j \in 0..n + 1 : i <= j => g[r][i] <= g[r][j]
             /\ Len(stacks'[r]) = g[r][n + 1]
             /\ \A i \in 1..n + 1 :
                  /\ g[r][i] = g[r][i - 1] + Len(MintedFor(r, calls'[i].minted, 0))
                  /\ versions'[calls'[i].block][r] =
                       IF g[r][i] = 0 THEN NoVersion ELSE stacks'[r][g[r][i]]
  <2>. DEFINE old == stacks[r]
              add == MintedFor(r, Minted(b), nextVersion)
              f == h[r]
              m == more(r)
  <2>1. Minted(b) \in Seq(Regs) /\ nextVersion \in Nat
    BY MintedIs DEF SsaTypes
  <2>2. add \in Seq(Nat) /\ Len(add) = m
    BY <2>1, MintedForIs
  <2>3. stacks'[r] = old \o add /\ old \in Seq(Nat)
    BY <1>1, EnterIs, SMTT(40)
  <2>4. /\ \A i \in 0..n : f[i] \in Nat
        /\ \A i, j \in 0..n : i <= j => f[i] <= f[j]
        /\ Len(old) = f[n]
        /\ \A i \in 1..n : f[i] = f[i - 1] + Len(MintedFor(r, calls[i].minted, 0))
        /\ \A i \in 1..n : versions[calls[i].block][r] = IF f[i] = 0 THEN NoVersion ELSE old[f[i]]
    BY SMTT(40) DEF Stacked
  <2>5. \A i \in 0..n + 1 : g[r][i] = IF i = n + 1 THEN f[n] + m ELSE f[i]
    OBVIOUS
  <2>6. n \in Nat
    OBVIOUS
  <2>7. \A i \in 1..n : versions'[calls'[i].block] = versions[calls[i].block]
    BY <1>1, EnterIs, SMTT(40)
  <2>8. versions'[b][r] = IF stacks'[r] = << >> THEN NoVersion ELSE Last(stacks'[r])
    BY <1>1, EnterIs, ZenonT(60)
  <2>9. calls'[n + 1].block = b /\ Len(MintedFor(r, calls'[n + 1].minted, 0)) = m
    OBVIOUS
  <2>10. \A i \in 1..n : MintedFor(r, calls'[i].minted, 0) = MintedFor(r, calls[i].minted, 0)
    OBVIOUS
  <2>. DEFINE G == g[r]
  <2>11. \A i \in 0..n + 1 : G[i] = IF i = n + 1 THEN f[n] + m ELSE f[i]
    BY <2>5
  <2>. HIDE DEF G, n, f, m, old, add
  <2>12. m \in Nat
    BY <2>2
  <2>13. stacks'[r] \in Seq(Nat) /\ Len(stacks'[r]) = f[n] + m
         /\ \A k \in 1..f[n] : stacks'[r][k] = old[k]
    <3>1. old \o add \in Seq(Nat) /\ Len(old \o add) = Len(old) + Len(add)
          /\ \A k \in 1..Len(old) : (old \o add)[k] = old[k]
      BY <2>2, <2>3, StackIs
    <3>. QED BY <2>2, <2>3, <2>4, <3>1
  <2>14. \A i \in 0..n + 1 : G[i] \in Nat
    <3>1. n \in 0..n /\ \A i \in 0..n + 1 : i = n + 1 \/ i \in 0..n
      BY <2>6
    <3>2. f[n] + m \in Nat
      BY <2>4, <2>12, <3>1
    <3>. QED BY <2>4, <2>11, <3>1, <3>2
  <2>15. \A i, j \in 0..n + 1 : i <= j => G[i] <= G[j]
    <3>1. TAKE i, j \in 0..n + 1
    <3>2. HAVE i <= j
    <3>3. CASE j \in 0..n
      BY <2>4, <2>6, <2>11, <3>2, <3>3, SMTT(40)
    <3>4. CASE j = n + 1 /\ i \in 0..n
      <4>1. f[i] <= f[n] /\ f[i] \in Nat /\ f[n] \in Nat /\ n \in 0..n
        BY <2>4, <2>6, <3>4
      <4>2. G[i] = f[i] /\ G[j] = f[n] + m
        BY <2>6, <2>11, <3>4
      <4>. QED BY <2>12, <4>1, <4>2, SMTT(40)
    <3>5. CASE j = n + 1 /\ i = n + 1
      BY <2>6, <2>14, <3>5
    <3>. QED BY <2>6, <3>3, <3>4, <3>5
  <2>16. Len(stacks'[r]) = G[n + 1]
    BY <2>6, <2>11, <2>13
  <2>17. \A i \in 1..n + 1 : G[i] = G[i - 1] + Len(MintedFor(r, calls'[i].minted, 0))
    <3>1. TAKE i \in 1..n + 1
    <3>2. CASE i \in 1..n
      <4>1. G[i] = f[i] /\ G[i - 1] = f[i - 1]
        BY <2>6, <2>11, <3>2
      <4>2. f[i] = f[i - 1] + Len(MintedFor(r, calls[i].minted, 0))
        BY <2>4, <3>2
      <4>. QED BY <2>10, <3>2, <4>1, <4>2
    <3>3. CASE i = n + 1
      <4>1. G[i] = f[n] + m /\ G[i - 1] = f[n]
        BY <2>6, <2>11, <3>3
      <4>. QED BY <2>9, <3>3, <4>1
    <3>. QED BY <2>6, <3>2, <3>3
  <2>18. \A i \in 1..n + 1 : versions'[calls'[i].block][r] =
                               IF G[i] = 0 THEN NoVersion ELSE stacks'[r][G[i]]
    <3>1. TAKE i \in 1..n + 1
    <3>2. CASE i \in 1..n
      <4>1. G[i] = f[i] /\ f[i] \in Nat /\ f[n] \in Nat /\ f[i] <= f[n]
        BY <2>4, <2>6, <2>11, <3>2
      <4>2. f[i] # 0 => stacks'[r][f[i]] = old[f[i]]
        BY <2>13, <4>1, SMTT(40)
      <4>3. versions'[calls'[i].block][r] = IF f[i] = 0 THEN NoVersion ELSE old[f[i]]
        BY <2>4, <2>7, <3>2, SMTT(40)
      <4>. QED BY <4>1, <4>2, <4>3
    <3>3. CASE i = n + 1
      <4>1. G[i] = Len(stacks'[r])
        BY <2>16, <3>3
      <4>2. stacks'[r] = << >> <=> Len(stacks'[r]) = 0
        BY <2>13
      <4>3. Last(stacks'[r]) = stacks'[r][Len(stacks'[r])]
        BY DEF Last
      <4>. QED BY <2>8, <2>9, <3>3, <4>1, <4>2, <4>3
    <3>. QED BY <2>6, <3>2, <3>3
  <2>. QED BY <2>14, <2>15, <2>16, <2>17, <2>18 DEF G, n
<1>. HIDE DEF g
<1>4. PICK k : k = g
  OBVIOUS
<1>5. Stacked(k)'
  <2>1. Len(calls') = n + 1
    OBVIOUS
  <2>. HIDE DEF n
  <2>2. ASSUME NEW r \in Regs
        PROVE  /\ \A i \in 0..Len(calls') : k[r][i] \in Nat
               /\ \A i, j \in 0..Len(calls') : i <= j => k[r][i] <= k[r][j]
               /\ Len(stacks'[r]) = k[r][Len(calls')]
    BY <1>3, <1>4, <2>1
  <2>3. ASSUME NEW r \in Regs
        PROVE  \A i \in 1..Len(calls') :
                 /\ k[r][i] = k[r][i - 1] + Len(MintedFor(r, calls'[i].minted, 0))
                 /\ versions'[calls'[i].block][r] =
                      IF k[r][i] = 0 THEN NoVersion ELSE stacks'[r][k[r][i]]
    BY <1>3, <1>4, <2>1, SMTT(40)
  <2>. QED BY <1>2, <2>2, <2>3, Zenon DEF Stacked
<1>. QED BY <1>5

Frame(E) == [block : E, rest : Seq(Blocks), minted : Seq(Regs)]

\* The activation of the parent has one child less to visit, the child's is on top.
LEMMA ChildCalls ==
    ASSUME NEW E, Walked(E), RenameChild
    PROVE  LET n == Len(calls)
               c == Head(calls[n].rest)
           IN  /\ n \in Nat \ {0} /\ calls \in Seq(Frame(E)) /\ EnterBlock(c)
               /\ c \in Order \ E /\ idom[c] = calls[n].block /\ calls[n].block \in E
               /\ calls[n].rest # << >> /\ calls[n].rest \in Seq(Blocks)
               /\ Len(calls') = n + 1 /\ DOMAIN calls' = 1..n + 1 /\ \E A : calls' \in Seq(A)
               /\ \A i \in 1..n - 1 : calls'[i] = calls[i]
               /\ calls'[n] = [calls[n] EXCEPT !.rest = Tail(calls[n].rest)]
               /\ calls'[n + 1] = Activation(c)
               /\ UNCHANGED <<domVars, defs, placeVars>>
<1>. DEFINE n == Len(calls)
            top == calls[n]
            c == Head(top.rest)
            cut == [top EXCEPT !.rest = Tail(top.rest)]
            kept == [calls EXCEPT ![n] = cut]
<1>1. calls \in Seq(Frame(E)) /\ calls # << >> /\ n \in Nat \ {0} /\ DOMAIN calls = 1..n
  BY DEF Walked, Frame, RenameChild
<1>2. Last(calls) = top /\ top \in Frame(E)
  BY <1>1 DEF Last
<1>3. top.block \in E /\ top.rest \in Seq(Blocks)
  BY <1>2 DEF Frame
<1>4. /\ top.rest # << >> /\ EnterBlock(c)
      /\ calls' = Append(kept, Activation(c))
      /\ UNCHANGED <<domVars, defs, placeVars>>
  BY <1>2 DEF RenameChild
<1>5. c \in ToSet(top.rest)
  BY <1>3, <1>4 DEF ToSet
<1>. HIDE DEF c, cut
<1>6. c \in Order \ E /\ idom[c] = top.block
  <2>1. \A x \in ToSet(calls[n].rest) : x \in Order \ E /\ idom[x] = calls[n].block
    <3>1. \A i \in DOMAIN calls : \A x \in ToSet(calls[i].rest) :
            x \in Order \ E /\ idom[x] = calls[i].block
      BY Zenon DEF Walked
    <3>2. n \in DOMAIN calls
      BY <1>1
    <3>. QED BY <3>1, <3>2
  <2>. QED BY <1>5, <2>1
<1>. HIDE DEF n, top
<1>7. /\ kept \in Seq(Frame(E) \cup {cut}) /\ Len(kept) = n
      /\ (\A i \in 1..n - 1 : kept[i] = calls[i]) /\ kept[n] = cut
  <2>1. n \in Nat \ {0} /\ DOMAIN calls = 1..n /\ \A i \in 1..n : calls[i] \in Frame(E)
    BY <1>1 DEF n
  <2>2. kept = [i \in 1..n |-> IF i = n THEN cut ELSE calls[i]]
    BY <2>1
  <2>. HIDE DEF kept
  <2>3. kept \in Seq(Frame(E) \cup {cut}) /\ Len(kept) = n
    BY <2>1, <2>2
  <2>. QED BY <2>1, <2>2, <2>3
<1>. HIDE DEF kept
<1>8. /\ Len(calls') = n + 1 /\ DOMAIN calls' = 1..n + 1
      /\ \A i \in 1..n : calls'[i] = kept[i]
      /\ calls'[n + 1] = Activation(c)
  BY <1>1, <1>4, <1>7
<1>9. \A i \in 1..n - 1 : calls'[i] = calls[i]
  <2>1. \A i \in 1..n - 1 : i \in 1..n
    BY <1>1 DEF n
  <2>. QED BY <1>7, <1>8, <2>1
<1>10. calls'[n] = cut
  <2>1. n \in 1..n
    BY <1>1 DEF n
  <2>. QED BY <1>7, <1>8, <2>1
<1>11. \E A : calls' \in Seq(A)
  <2>. DEFINE B == Frame(E) \cup {cut}
              C == B \cup {Activation(c)}
  <2>1. Activation(c) \in C /\ B \subseteq C
    OBVIOUS
  <2>2. kept \in Seq(B)
    BY <1>7
  <2>. HIDE DEF B, C
  <2>3. Append(kept, Activation(c)) \in Seq(C)
    BY <2>1, <2>2, SMTT(40)
  <2>. QED BY <1>4, <2>3
<1>. QED BY <1>1, <1>3, <1>4, <1>6, <1>8, <1>9, <1>10, <1>11, ZenonT(60) DEF n, top, c, cut

\* A child that defines nothing ends with what its parent ends with.
LEMMA ChildVersions ==
    ASSUME EdgesOK, SsaTypes, NEW E, Walked(E), NEW h, Stacked(h), RenameChild,
           E \subseteq Blocks,
           NEW c \in Blocks, c = Head(calls[Len(calls)].rest), c \notin E, EnterBlock(c),
           NEW r \in Regs, ~ Defines(c, r)
    PROVE  versions'[c][r] = versions[idom[c]][r]
<1>. DEFINE n == Len(calls)
            f == h[r]
            old == stacks[r]
<1>1. /\ n \in Nat \ {0} /\ idom[c] = calls[n].block
      /\ UNCHANGED <<domVars, defs, placeVars>>
  BY ChildCalls
<1>2. /\ stacks \in [Regs -> Seq(Nat)]
      /\ \A i \in 0..n : f[i] \in Nat
      /\ Len(old) = f[n]
      /\ \A i \in 1..n : versions[calls[i].block][r] = IF f[i] = 0 THEN NoVersion ELSE old[f[i]]
  BY DEF Stacked
<1>3. MintedFor(r, Minted(c), nextVersion) = << >>
  <2>1. r \notin ToSet(Minted(c)) /\ Minted(c) \in Seq(Regs)
    BY MintedIs
  <2>2. nextVersion \in Nat
    BY DEF SsaTypes
  <2>. QED BY <2>1, <2>2, MintedForIs
<1>4. /\ stacks'[r] = old \o MintedFor(r, Minted(c), nextVersion)
      /\ versions'[c][r] = IF stacks'[r] = << >> THEN versions[c][r] ELSE Last(stacks'[r])
  BY <1>1, <1>2, EnterIs
<1>5. old \in Seq(Nat)
  BY <1>2
<1>6. stacks'[r] = old
  BY <1>3, <1>4, <1>5
<1>7. versions[c][r] = NoVersion
  BY SMTT(40) DEF Walked
<1>. HIDE DEF n, f, old
<1>8. versions[idom[c]][r] = IF f[n] = 0 THEN NoVersion ELSE old[f[n]]
  BY <1>1, <1>2
<1>9. old = << >> <=> f[n] = 0
  BY <1>2, <1>5
<1>. QED BY <1>2, <1>4, <1>6, <1>7, <1>8, <1>9 DEF Last

\* The child is renamed, its own children wait in its activation.
LEMMA ChildWalks ==
    ASSUME EdgesOK, SsaTypes, FixedPoint, NEW E, Walked(E), NEW h, Stacked(h), RenameChild,
           pc = "rename", NEW c, c = Head(calls[Len(calls)].rest)
    PROVE  Walked(E \cup {c})'
<1>. DEFINE n == Len(calls)
            rest(i) == ToSet(calls[i].rest)
            restNext(i) == ToSet(calls'[i].rest)
<1>1. TreeOK /\ Order \subseteq Blocks /\ Entry \in Order
  BY OrderFacts DEF FixedPoint, TreeOK
<1>2. /\ n \in Nat \ {0} /\ calls \in Seq(Frame(E)) /\ EnterBlock(c)
      /\ c \in Order \ E /\ idom[c] = calls[n].block /\ calls[n].block \in E
      /\ calls[n].rest # << >> /\ calls[n].rest \in Seq(Blocks)
      /\ Len(calls') = n + 1 /\ DOMAIN calls' = 1..n + 1 /\ \E A : calls' \in Seq(A)
      /\ \A i \in 1..n - 1 : calls'[i] = calls[i]
      /\ calls'[n] = [calls[n] EXCEPT !.rest = Tail(calls[n].rest)]
      /\ calls'[n + 1] = Activation(c)
      /\ UNCHANGED <<domVars, defs, placeVars>>
  BY ChildCalls
<1>3. UNCHANGED <<term, rpo, idom, pc>> /\ Order' = Order
  BY <1>2 DEF domVars, Order
<1>4. /\ E \subseteq Order /\ Entry \in E
      /\ \A b \in E \ {Entry} :
           /\ idom[b] \in E
           /\ \A r \in Regs : ~ Defines(b, r) => versions[b][r] = versions[idom[b]][r]
      /\ \A b \in Blocks \ E : \A r \in Regs : versions[b][r] = NoVersion
      /\ \A x \in Order \ E : idom[x] \in E =>
           \E i \in 1..n : calls[i].block = idom[x] /\ x \in rest(i)
      /\ \A i, j \in 1..n : calls[i].block = calls[j].block => i = j
      /\ \A i \in 1..n : /\ IsInjective(calls[i].rest)
                         /\ \A x \in rest(i) : x \in Order \ E /\ idom[x] = calls[i].block
  <2>1. DOMAIN calls = 1..n /\ calls # << >>
    BY <1>2
  <2>. QED BY <2>1 DEF Walked
<1>5. stacks \in [Regs -> Seq(Nat)]
  BY DEF Stacked
<1>6. /\ \A x \in Blocks \ {c} : versions'[x] = versions[x]
      /\ \A s \in Blocks : \A r : Defines(s, r)' <=> Defines(s, r)
  BY <1>1, <1>2, <1>5, EnterIs
<1>7. \A i \in 1..n : calls[i] \in Frame(E)
  BY <1>2
<1>8. /\ Tail(calls[n].rest) \in Seq(Blocks) /\ IsInjective(Tail(calls[n].rest))
      /\ c = calls[n].rest[1] /\ ToSet(Tail(calls[n].rest)) = rest(n) \ {c}
  <2>1. IsInjective(calls[n].rest)
    BY <1>2, <1>4, SMTT(40)
  <2>. QED BY <1>2, <2>1, TailIs
<1>9. /\ DomChildren(c) \in Seq(Blocks) /\ IsInjective(DomChildren(c))
      /\ ToSet(DomChildren(c)) = {x \in Order \ {Entry} : idom[x] = c /\ x # c}
  BY <1>1, <1>2, ChildrenAre, SMTT(40)
<1>10. /\ calls'[n].block = calls[n].block /\ calls'[n].rest = Tail(calls[n].rest)
       /\ calls'[n] \in Frame(E)
  <2>1. calls[n] \in Frame(E)
    BY <1>2, <1>7
  <2>. QED BY <1>2, <1>8, <2>1 DEF Frame
<1>11. /\ calls'[n + 1].block = c /\ calls'[n + 1].rest = DomChildren(c)
       /\ calls'[n + 1] \in Frame(E \cup {c})
  <2>1. Minted(c) \in Seq(Regs)
    BY <1>1, <1>2, MintedIs
  <2>. QED BY <1>2, <1>9, <2>1 DEF Activation, Frame
<1>. DEFINE block(i) == calls[i].block
            blockNext(i) == calls'[i].block
<1>12. \A i \in 1..n : blockNext(i) = block(i) /\ block(i) \in E
  <2>1. TAKE i \in 1..n
  <2>2. calls[i].block \in E
    BY <1>7 DEF Frame
  <2>3. i = n \/ i \in 1..n - 1
    BY <1>2
  <2>. QED BY <1>2, <1>10, <2>2, <2>3
<1>13. \A i \in 1..n : restNext(i) = IF i = n THEN rest(n) \ {c} ELSE rest(i)
  <2>1. TAKE i \in 1..n
  <2>2. i = n \/ i \in 1..n - 1
    BY <1>2
  <2>. QED BY <1>2, <1>8, <1>10, <2>2
<1>14. \A i \in 1..n + 1 : i \in 1..n \/ i = n + 1
  BY <1>2
<1>15. restNext(n + 1) = {x \in Order \ {Entry} : idom[x] = c /\ x # c} /\ blockNext(n + 1) = c
  BY <1>9, <1>11
<1>16. \A i \in 1..n : rest(i) \subseteq Order \ E /\ \A x \in rest(i) : idom[x] = block(i)
  BY <1>4
<1>17. \A i, j \in 1..n : block(i) = block(j) => i = j
  BY <1>4
<1>18. n \in 1..n /\ idom[c] = block(n) /\ n + 1 \in 1..n + 1 /\ \A i \in 1..n : i \in 1..n + 1
  BY <1>2
<1>19. \A x \in Order \ E : idom[x] \in E => \E i \in 1..n : block(i) = idom[x] /\ x \in rest(i)
  BY <1>4
<1>20. calls' \in Seq(Frame(E \cup {c}))
  <2>1. \A i \in 1..n + 1 : calls'[i] \in Frame(E \cup {c})
    <3>1. Frame(E) \subseteq Frame(E \cup {c})
      BY DEF Frame
    <3>2. \A i \in 1..n - 1 : calls'[i] \in Frame(E)
      BY <1>2, <1>7, SMTT(40)
    <3>3. \A i \in 1..n + 1 : i \in 1..n - 1 \/ i = n \/ i = n + 1
      BY <1>2
    <3>. QED BY <1>10, <1>11, <3>1, <3>2, <3>3
  <2>2. calls' = [i \in 1..n + 1 |-> calls'[i]]
    BY <1>2
  <2>3. n + 1 \in Nat
    BY <1>2
  <2>. DEFINE F == Frame(E \cup {c})
              m == n + 1
  <2>4. m \in Nat /\ calls' = [i \in 1..m |-> calls'[i]] /\ \A i \in 1..m : calls'[i] \in F
    BY <2>1, <2>2, <2>3
  <2>. HIDE DEF F, m
  <2>5. [i \in 1..m |-> calls'[i]] \in Seq(F)
    BY <2>4
  <2>. QED BY <2>4, <2>5 DEF F
<1>21. \A i \in 1..n + 1 : IsInjective(calls'[i].rest)
  <2>1. \A i \in 1..n - 1 : IsInjective(calls'[i].rest)
    BY <1>2, <1>4, SMTT(40)
  <2>2. \A i \in 1..n + 1 : i \in 1..n - 1 \/ i = n \/ i = n + 1
    BY <1>2
  <2>. QED BY <1>8, <1>9, <1>10, <1>11, <2>1, <2>2
<1>22. \A b \in (E \cup {c}) \ {Entry} :
         /\ idom[b] \in E \cup {c}
         /\ \A r \in Regs : ~ Defines(b, r)' => versions'[b][r] = versions'[idom[b]][r]
  <2>1. ASSUME NEW b \in E \ {Entry}
        PROVE  /\ idom[b] \in E \cup {c}
               /\ \A r \in Regs : ~ Defines(b, r)' => versions'[b][r] = versions'[idom[b]][r]
    <3>1. idom[b] \in E /\ E \subseteq Blocks \ {c}
      BY <1>1, <1>2, <1>4
    <3>2. versions'[b] = versions[b] /\ versions'[idom[b]] = versions[idom[b]]
      BY <1>6, <3>1
    <3>3. \A r \in Regs : ~ Defines(b, r)' => ~ Defines(b, r)
      BY <1>6, <3>1
    <3>. QED BY <1>4, <3>1, <3>2, <3>3
  <2>2. idom[c] \in E /\ versions'[idom[c]] = versions[idom[c]]
    BY <1>1, <1>2, <1>4, <1>6, SMTT(40)
  <2>3. ASSUME NEW r \in Regs, ~ Defines(c, r)'
        PROVE  versions'[c][r] = versions'[idom[c]][r]
    <3>1. ~ Defines(c, r)
      BY <1>1, <1>2, <1>6, <2>3
    <3>2. c \in Blocks /\ c \notin E /\ E \subseteq Blocks
      BY <1>1, <1>2, <1>4
    <3>3. versions'[c][r] = versions[idom[c]][r]
      BY <1>2, <3>1, <3>2, ChildVersions
    <3>. QED BY <2>2, <3>3
  <2>. QED BY <2>1, <2>2, <2>3
<1>23. \A b \in Blocks \ (E \cup {c}) : \A r \in Regs : versions'[b][r] = NoVersion
  BY <1>4, <1>6
<1>. HIDE DEF rest, restNext, block, blockNext
<1>24. \A x \in Order \ (E \cup {c}) : idom[x] \in E \cup {c} =>
         \E i \in 1..n + 1 : blockNext(i) = idom[x] /\ x \in restNext(i)
  <2>1. ASSUME NEW x \in Order \ (E \cup {c}), idom[x] \in E
        PROVE  \E i \in 1..n + 1 : blockNext(i) = idom[x] /\ x \in restNext(i)
    <3>1. PICK i \in 1..n : block(i) = idom[x] /\ x \in rest(i)
      BY <1>19, <2>1
    <3>2. blockNext(i) = idom[x] /\ x \in restNext(i)
      BY <1>12, <1>13, <2>1, <3>1
    <3>. QED BY <1>18, <3>2
  <2>2. ASSUME NEW x \in Order \ (E \cup {c}), idom[x] = c
        PROVE  blockNext(n + 1) = idom[x] /\ x \in restNext(n + 1)
    BY <1>4, <1>15, <2>2
  <2>. QED BY <1>18, <2>1, <2>2
<1>25. \A i, j \in 1..n + 1 : blockNext(i) = blockNext(j) => i = j
  BY <1>2, <1>12, <1>14, <1>15, <1>17, SMTT(40)
<1>26. \A i \in 1..n + 1 : \A x \in restNext(i) :
         x \in Order \ (E \cup {c}) /\ idom[x] = blockNext(i)
  <2>1. ASSUME NEW i \in 1..n, NEW x \in restNext(i)
        PROVE  x \in Order \ (E \cup {c}) /\ idom[x] = blockNext(i)
    <3>1. x \in rest(i) /\ idom[x] = block(i) /\ x \in Order \ E
      BY <1>13, <1>16, <2>1
    <3>2. x # c
      BY <1>13, <1>17, <1>18, <2>1, <3>1, SMTT(40)
    <3>. QED BY <1>12, <3>1, <3>2
  <2>2. ASSUME NEW x \in restNext(n + 1)
        PROVE  x \in Order \ (E \cup {c}) /\ idom[x] = blockNext(n + 1)
    BY <1>2, <1>4, <1>15, <2>2
  <2>. QED BY <1>14, <2>1, <2>2
<1>27. E \cup {c} \subseteq Order /\ Entry \in E \cup {c} /\ calls' # << >>
  BY <1>2, <1>4
<1>28. E \cup {c} \in SUBSET Order'
  BY <1>3, <1>27
<1>29. pc' = "rename" /\ DOMAIN calls' = 1..n + 1 /\ calls' # << >>
  BY <1>2, <1>3, <1>27
<1>30. calls' \in Seq([block : E \cup {c}, rest : Seq(Blocks), minted : Seq(Regs)])
  BY <1>20 DEF Frame
<1>31. \A b \in (E \cup {c}) \ {Entry} :
         /\ idom'[b] \in E \cup {c}
         /\ \A r \in Regs : ~ Defines(b, r)' => versions'[b][r] = versions'[idom'[b]][r]
  BY <1>3, <1>22
<1>32. \A x \in Order' \ (E \cup {c}) : idom'[x] \in E \cup {c} =>
         \E i \in DOMAIN calls' : calls'[i].block = idom'[x] /\ x \in ToSet(calls'[i].rest)
  BY <1>3, <1>24, <1>29, Zenon DEF restNext, blockNext
<1>33. \A i, j \in DOMAIN calls' : calls'[i].block = calls'[j].block => i = j
  BY <1>25, <1>29, Zenon DEF blockNext
<1>34. \A i \in DOMAIN calls' :
         /\ IsInjective(calls'[i].rest)
         /\ \A x \in ToSet(calls'[i].rest) :
              x \in Order' \ (E \cup {c}) /\ idom'[x] = calls'[i].block
  BY <1>3, <1>21, <1>26, <1>29, Zenon DEF restNext, blockNext
<1>. QED BY <1>3, <1>23, <1>27, <1>28, <1>29, <1>30, <1>31, <1>32, <1>33, <1>34 DEF Walked

LEMMA SameFrontier ==
    ASSUME UNCHANGED <<term, rpo, idom, frontier>>
    PROVE  /\ FixedPoint' <=> FixedPoint
           /\ FrontierRight' <=> FrontierRight
<1>1. (FixedPoint' <=> FixedPoint) /\ Order' = Order
      /\ \A d, b : InFrontier(d, b)' <=> InFrontier(d, b)
  BY SameGraph, SameOrder, SameTree
<1>2. FrontierRight' <=> FrontierRight
  BY <1>1 DEF FrontierRight
<1>. QED BY <1>1, <1>2

\* What holds of the phis goes on doing so while no phi comes or goes.
LEMMA SamePhis ==
    ASSUME UNCHANGED <<term, rpo, idom, frontier>>, FixedPoint, FrontierRight, AllMerged,
           \A s \in Blocks : \A r : Defines(s, r)' <=> Defines(s, r),
           \A s \in Blocks : \A r : HasPhi(s, r)' <=> HasPhi(s, r)
    PROVE  FixedPoint' /\ FrontierRight' /\ AllMerged'
<1>1. FixedPoint' /\ FrontierRight'
  BY SameFrontier
<1>2. Order' = Order /\ Order \subseteq Blocks
  BY SameOrder, OrderFacts DEF FixedPoint, TreeOK
<1>3. \A b \in Order : \A r : Merged(b, r)' <=> Merged(b, r)
  BY <1>2 DEF Merged
<1>4. AllMerged'
  BY <1>2, <1>3 DEF AllMerged
<1>. QED BY <1>1, <1>4

LEMMA EnterKeeps ==
    ASSUME EdgesOK, SsaTypes, FixedPoint, FrontierRight, AllMerged, pc = "rename",
           NEW E, Walked(E), Sourced(E), NEW h, Stacked(h),
           NEW c, c \in Order \ E, EnterBlock(c), UNCHANGED <<domVars, defs, placeVars>>,
           Walked(E \cup {c})',
           Len(calls) \in Nat, Len(calls') = Len(calls) + 1,
           \A i \in 1..Len(calls) : /\ calls'[i].block = calls[i].block
                                    /\ calls'[i].minted = calls[i].minted
                                    /\ calls[i].block \in Blocks \ {c},
           calls'[Len(calls) + 1].block = c, calls'[Len(calls) + 1].minted = Minted(c)
    PROVE  SsaInv'
<1>1. c \in Blocks /\ c \notin E
  BY OrderFacts DEF FixedPoint, TreeOK
<1>2. \A r \in Regs : versions[c][r] = NoVersion
  BY <1>1 DEF Walked
<1>3. stacks \in [Regs -> Seq(Nat)]
  BY DEF Stacked
<1>4. UNCHANGED <<term, rpo, idom, frontier, pc>>
  BY SMTT(40) DEF domVars
<1>5. /\ SsaTypes'
      /\ \A s \in Blocks : \A r : Defines(s, r)' <=> Defines(s, r)
      /\ \A s \in Blocks : \A r : HasPhi(s, r)' <=> HasPhi(s, r)
  BY <1>1, <1>3, EnterIs
<1>6. FixedPoint' /\ FrontierRight' /\ AllMerged'
  BY <1>4, <1>5, SamePhis
<1>7. Sourced(E \cup {c})'
  BY <1>1, <1>2, <1>3, EnterSources
<1>8. \E g : Stacked(g)'
  BY <1>1, <1>2, EnterStacks
<1>. QED BY <1>4, <1>5, <1>6, <1>7, <1>8 DEF SsaInv

LEMMA RenamingIs ==
    ASSUME SsaInv, calls # << >>
    PROVE  /\ pc = "rename" /\ SsaTypes /\ FixedPoint /\ FrontierRight /\ AllMerged
           /\ \E E : Walked(E) /\ Sourced(E)
           /\ \E h : Stacked(h)
<1>1. pc # "done"
  BY DEF SsaInv, Walked
<1>2. pc = "rename"
  BY <1>1 DEF SsaInv, SsaTypes, Unrenamed
<1>. QED BY <1>2 DEF SsaInv

LEMMA RenameChildKeeps ==
    ASSUME EdgesOK, SsaInv, RenameChild
    PROVE  SsaInv'
<1>1. /\ pc = "rename" /\ SsaTypes /\ FixedPoint /\ FrontierRight /\ AllMerged
      /\ \E E : Walked(E) /\ Sourced(E)
      /\ \E h : Stacked(h)
  BY RenamingIs DEF RenameChild
<1>2. PICK E : Walked(E) /\ Sourced(E)
  BY <1>1
<1>3. PICK h : Stacked(h)
  BY <1>1
<1>. DEFINE n == Len(calls)
<1>4. PICK c : c = Head(calls[n].rest)
  OBVIOUS
<1>5. /\ n \in Nat \ {0} /\ calls \in Seq(Frame(E)) /\ EnterBlock(c)
      /\ c \in Order \ E /\ calls[n].block \in E
      /\ Len(calls') = n + 1
      /\ \A i \in 1..n - 1 : calls'[i] = calls[i]
      /\ calls'[n] = [calls[n] EXCEPT !.rest = Tail(calls[n].rest)]
      /\ calls'[n + 1] = Activation(c)
      /\ UNCHANGED <<domVars, defs, placeVars>>
  BY <1>2, <1>4, ChildCalls
<1>6. \A i \in 1..n : calls[i] \in Frame(E)
  BY <1>5
<1>7. E \subseteq Blocks \ {c}
  BY <1>1, <1>2, <1>5, OrderFacts DEF Walked, FixedPoint, TreeOK
<1>8. \A i \in 1..n : /\ calls'[i].block = calls[i].block
                      /\ calls'[i].minted = calls[i].minted
                      /\ calls[i].block \in Blocks \ {c}
  <2>1. TAKE i \in 1..n
  <2>2. calls[i] \in Frame(E)
    BY <1>6
  <2>3. calls[i].block \in Blocks \ {c}
    BY <1>7, <2>2 DEF Frame
  <2>4. CASE i = n
    BY <1>5, <2>2, <2>3, <2>4 DEF Frame
  <2>5. CASE i \in 1..n - 1
    BY <1>5, <2>3, <2>5
  <2>. QED BY <1>5, <2>4, <2>5
<1>9. calls'[n + 1].block = c /\ calls'[n + 1].minted = Minted(c)
  BY <1>5 DEF Activation
<1>10. Walked(E \cup {c})'
  BY <1>1, <1>2, <1>3, <1>4, ChildWalks
<1>. QED BY <1>1, <1>2, <1>3, <1>5, <1>8, <1>9, <1>10, EnterKeeps

LEMMA RenameEntryKeeps ==
    ASSUME EdgesOK, SsaInv, RenameEntry
    PROVE  SsaInv'
<1>1. /\ pc = "rename" /\ calls = << >> /\ EnterBlock(Entry)
      /\ calls' = << Activation(Entry) >> /\ UNCHANGED <<domVars, defs, placeVars>>
      /\ UNCHANGED <<term, rpo, idom, pc>>
  BY DEF RenameEntry, domVars
<1>2. SsaTypes /\ FixedPoint /\ FrontierRight /\ AllMerged
  BY <1>1 DEF SsaInv
<1>3. PICK E : Walked(E) /\ Sourced(E)
  BY <1>1 DEF SsaInv
<1>4. PICK h : Stacked(h)
  BY <1>1 DEF SsaInv
<1>5. PICK c : c = Entry
  OBVIOUS
<1>6. /\ TreeOK /\ Order \subseteq Blocks /\ c \in Order /\ Order' = Order
  BY <1>1, <1>2, <1>5, OrderFacts, SameOrder DEF FixedPoint, TreeOK
<1>7. E = {} /\ \A b \in Blocks : \A r \in Regs : versions[b][r] = NoVersion
  BY <1>1, <1>3 DEF Walked
<1>8. /\ DomChildren(c) \in Seq(Blocks) /\ IsInjective(DomChildren(c))
      /\ ToSet(DomChildren(c)) = {x \in Order \ {Entry} : idom[x] = c /\ x # c}
  BY <1>6, ChildrenAre
<1>9. Minted(c) \in Seq(Regs)
  BY <1>2, <1>6, MintedIs, SMTT(40)
<1>10. \A x \in Blocks \ {c} : versions'[x] = versions[x]
  <2>1. stacks \in [Regs -> Seq(Nat)]
    BY <1>4 DEF Stacked
  <2>. QED BY <1>1, <1>2, <1>5, <1>6, <2>1, EnterIs
<1>. DEFINE a == Activation(c)
<1>11. a.block = c /\ a.rest = DomChildren(c) /\ a.minted = Minted(c) /\ a \in Frame({c})
  BY <1>8, <1>9 DEF Activation, Frame
<1>. HIDE DEF a
<1>12. calls' = << a >>
  BY <1>1, <1>5 DEF a
<1>13. /\ calls' \in Seq(Frame({c})) /\ Len(calls') = 1 /\ DOMAIN calls' = {1}
       /\ calls'[1] = a /\ calls' # << >>
  BY <1>11, <1>12
<1>14. Walked({c})'
  <2>1. {c} \subseteq Order /\ Entry \in {c} /\ {c} \ {Entry} = {}
    BY <1>5, <1>6
  <2>2. \A b \in Blocks \ {c} : \A r \in Regs : versions'[b][r] = NoVersion
    BY <1>7, <1>10
  <2>3. \A x \in Order \ {c} : idom[x] \in {c} =>
          calls'[1].block = idom[x] /\ x \in ToSet(calls'[1].rest)
    BY <1>5, <1>8, <1>11, <1>13
  <2>4. /\ IsInjective(calls'[1].rest)
        /\ \A x \in ToSet(calls'[1].rest) : x \in Order \ {c} /\ idom[x] = calls'[1].block
    BY <1>5, <1>8, <1>11, <1>13
  <2>. QED BY <1>1, <1>6, <1>13, <2>1, <2>2, <2>3, <2>4 DEF Walked, Frame
<1>15. Walked(E \cup {c})' /\ c \in Order \ E
  <2>1. E \cup {c} = {c}
    BY <1>7
  <2>. QED BY <1>6, <1>7, <1>14, <2>1
<1>16. Len(calls) = 0
  BY <1>1
<1>17. /\ Len(calls) \in Nat /\ Len(calls') = Len(calls) + 1
       /\ calls'[Len(calls) + 1].block = c /\ calls'[Len(calls) + 1].minted = Minted(c)
  BY <1>11, <1>13, <1>16
<1>18. \A i \in 1..Len(calls) : /\ calls'[i].block = calls[i].block
                                /\ calls'[i].minted = calls[i].minted
                                /\ calls[i].block \in Blocks \ {c}
  BY <1>16
<1>19. EnterBlock(c)
  BY <1>1, <1>5
<1>. QED BY <1>1, <1>2, <1>3, <1>4, <1>15, <1>17, <1>18, <1>19, EnterKeeps

LEMMA FrontElements ==
    ASSUME NEW S, NEW s \in Seq(S), s # << >>
    PROVE  /\ Front(s) \in Seq(S) /\ Len(Front(s)) = Len(s) - 1
           /\ \A i \in 1..Len(s) - 1 : Front(s)[i] = s[i]
<1>1. Len(s) \in Nat \ {0} /\ DOMAIN s = 1..Len(s)
  OBVIOUS
<1>. QED BY <1>1 DEF Front

\* The stacks shrink to what they were when the activation began.
LEMMA ReturnStacks ==
    ASSUME NEW E, Walked(E), NEW h, Stacked(h), RenameReturn
    PROVE  Stacked(h)'
<1>. DEFINE n == Len(calls)
<1>1. /\ n \in Nat \ {0} /\ calls \in Seq(Frame(E))
      /\ calls' = Front(calls)
      /\ stacks' = [r \in Regs |-> Popped(r, calls[n].minted)]
      /\ versions' = versions
  BY DEF RenameReturn, Walked, Frame, Last
<1>2. Len(calls') = n - 1 /\ \A i \in 1..n - 1 : calls'[i] = calls[i]
  <2>1. calls # << >>
    BY <1>1
  <2>. QED BY <1>1, <2>1, FrontElements
<1>3. ASSUME NEW r \in Regs
      PROVE  /\ stacks'[r] \in Seq(Nat)
             /\ \A i \in 0..n - 1 : h[r][i] \in Nat
             /\ \A i, j \in 0..n - 1 : i <= j => h[r][i] <= h[r][j]
             /\ Len(stacks'[r]) = h[r][n - 1]
             /\ \A i \in 1..n - 1 :
                  /\ h[r][i] = h[r][i - 1] + Len(MintedFor(r, calls'[i].minted, 0))
                  /\ versions'[calls'[i].block][r] =
                       IF h[r][i] = 0 THEN NoVersion ELSE stacks'[r][h[r][i]]
  <2>. DEFINE f == h[r]
              old == stacks[r]
              m == Len(MintedFor(r, calls[n].minted, 0))
  <2>1. /\ old \in Seq(Nat)
        /\ \A i \in 0..n : f[i] \in Nat
        /\ \A i, j \in 0..n : i <= j => f[i] <= f[j]
        /\ Len(old) = f[n]
        /\ \A i \in 1..n : f[i] = f[i - 1] + Len(MintedFor(r, calls[i].minted, 0))
        /\ \A i \in 1..n : versions[calls[i].block][r] = IF f[i] = 0 THEN NoVersion ELSE old[f[i]]
    BY DEF Stacked
  <2>2. m \in Nat
    <3>1. calls[n] \in Frame(E)
      BY <1>1
    <3>2. calls[n].minted \in Seq(Regs)
      BY <3>1 DEF Frame
    <3>3. MintedFor(r, calls[n].minted, 0) \in Seq(Nat)
      BY <3>2, MintedForIs
    <3>. QED BY <3>3
  <2>3. n - 1 \in 0..n /\ n \in 1..n /\ \A i \in 0..n - 1 : i \in 0..n
    BY <1>1
  <2>4. f[n] = f[n - 1] + m /\ f[n - 1] \in Nat
    BY <2>1, <2>3
  <2>5. stacks'[r] = SubSeq(old, 1, Len(old) - m)
    BY <1>1 DEF Popped
  <2>. HIDE DEF f, old, m, n
  <2>6. stacks'[r] \in Seq(Nat) /\ Len(stacks'[r]) = f[n - 1]
        /\ \A k \in 1..f[n - 1] : stacks'[r][k] = old[k]
    <3>1. PICK k \in Nat : k = f[n - 1]
      BY <2>4
    <3>2. Len(old) - m = k /\ k <= Len(old)
      BY <2>1, <2>2, <2>4, <3>1
    <3>3. stacks'[r] = SubSeq(old, 1, k)
      BY <2>5, <3>2
    <3>4. SubSeq(old, 1, k) \in Seq(Nat) /\ Len(SubSeq(old, 1, k)) = k
          /\ \A i \in 1..k : SubSeq(old, 1, k)[i] = old[i]
      BY <2>1, <3>1, <3>2, SMTT(40)
    <3>. QED BY <3>1, <3>3, <3>4
  <2>7. \A i \in 1..n - 1 : versions'[calls'[i].block][r] =
                               IF f[i] = 0 THEN NoVersion ELSE stacks'[r][f[i]]
    <3>1. TAKE i \in 1..n - 1
    <3>2. i \in 0..n /\ i \in 1..n /\ i <= n - 1
      BY <1>1
    <3>3. f[i] \in Nat /\ f[i] <= f[n - 1]
      BY <2>1, <2>3, <3>2
    <3>4. f[i] # 0 => stacks'[r][f[i]] = old[f[i]]
      BY <2>4, <2>6, <3>3
    <3>. QED BY <1>1, <1>2, <2>1, <3>2, <3>4, ZenonT(60)
  <2>8. \A i \in 1..n - 1 : f[i] = f[i - 1] + Len(MintedFor(r, calls'[i].minted, 0))
    <3>1. TAKE i \in 1..n - 1
    <3>2. i \in 1..n /\ calls'[i] = calls[i]
      BY <1>1, <1>2
    <3>. QED BY <2>1, <3>2
  <2>. QED BY <2>1, <2>3, <2>6, <2>7, <2>8, SMTT(40) DEF f
<1>4. stacks' \in [Regs -> Seq(Nat)]
  BY <1>1, <1>3
<1>. QED BY <1>2, <1>3, <1>4, SMTT(40) DEF Stacked

LEMMA SameSources ==
    ASSUME UNCHANGED <<term, covered, handlers, phis, versions>>, NEW E, Sourced(E)
    PROVE  Sourced(E)'
<1>1. \A p, s : EdgesTo(p, s)' = EdgesTo(p, s)
  BY DEF EdgesTo, SuccessorEdges, NormalEdges, ExceptionEdges
<1>2. ASSUME NEW b \in Blocks, NEW i \in DOMAIN phis[b], NEW p \in Blocks
      PROVE  LET phi == phis[b][i]
                 version == versions[p][phi.reg]
             IN  /\ Cardinality(SourcesFrom(phi.sources, p)) = IF p \in E THEN EdgesTo(p, b)' ELSE 0
                 /\ \A k \in SourcesFrom(phi.sources, p) :
                      phi.sources[k].version = IF version = NoVersion THEN 0 ELSE version
  BY <1>1, <1>2 DEF Sourced, ExitVersion
<1>. QED BY <1>2 DEF Sourced, ExitVersion

LEMMA SameDefinitions ==
    ASSUME UNCHANGED <<defs, phis>>
    PROVE  /\ \A s \in Blocks : \A r : Defines(s, r)' <=> Defines(s, r)
           /\ \A s \in Blocks : \A r : HasPhi(s, r)' <=> HasPhi(s, r)
BY DEF Defines, HasPhi

\* The activation that ends has no child left to visit.
LEMMA ReturnWalks ==
    ASSUME FixedPoint, NEW E, Walked(E), RenameReturn, pc = "rename"
    PROVE  Walked(E)'
<1>. DEFINE n == Len(calls)
<1>1. /\ n \in Nat \ {0} /\ calls \in Seq(Frame(E)) /\ calls # << >>
      /\ calls' = Front(calls) /\ calls[n].rest = << >>
      /\ UNCHANGED <<term, rpo, idom, defs, phis, versions>>
      /\ pc' = IF n = 1 THEN "done" ELSE "rename"
  BY DEF RenameReturn, Walked, Frame, Last, Goto, domVars, search, method
<1>2. calls' \in Seq(Frame(E)) /\ Len(calls') = n - 1 /\ \A i \in 1..n - 1 : calls'[i] = calls[i]
  BY <1>1, FrontElements
<1>3. /\ E \subseteq Order /\ Entry \in E
      /\ \A b \in E \ {Entry} :
           /\ idom[b] \in E
           /\ \A r \in Regs : ~ Defines(b, r) => versions[b][r] = versions[idom[b]][r]
      /\ \A b \in Blocks \ E : \A r \in Regs : versions[b][r] = NoVersion
  BY <1>1 DEF Walked
<1>4. DOMAIN calls = 1..n /\ DOMAIN calls' = 1..n - 1
  BY <1>1, <1>2
<1>5. \A x \in Order \ E : idom[x] \in E =>
        \E i \in DOMAIN calls' : calls'[i].block = idom[x] /\ x \in ToSet(calls'[i].rest)
  <2>1. ASSUME NEW x \in Order \ E, idom[x] \in E
        PROVE  \E i \in DOMAIN calls' : calls'[i].block = idom[x] /\ x \in ToSet(calls'[i].rest)
    <3>1. PICK i \in 1..n : calls[i].block = idom[x] /\ x \in ToSet(calls[i].rest)
      BY <1>4, <2>1 DEF Walked
    <3>2. i # n
      BY <1>1, <3>1 DEF ToSet
    <3>3. i \in 1..n - 1
      BY <1>1, <3>2
    <3>. QED BY <1>2, <1>4, <3>1, <3>3, SMTT(40)
  <2>. QED BY <2>1
<1>6. \A i \in 1..n - 1 : i \in 1..n /\ calls'[i] = calls[i]
  BY <1>1, <1>2
<1>7. \A i, j \in DOMAIN calls' : calls'[i].block = calls'[j].block => i = j
  <2>1. \A i, j \in 1..n : calls[i].block = calls[j].block => i = j
    BY <1>4 DEF Walked
  <2>2. TAKE i, j \in DOMAIN calls'
  <2>3. i \in 1..n /\ j \in 1..n /\ calls'[i] = calls[i] /\ calls'[j] = calls[j]
    BY <1>4, <1>6
  <2>. QED BY <2>1, <2>3
<1>8. \A i \in DOMAIN calls' :
        /\ IsInjective(calls'[i].rest)
        /\ \A c \in ToSet(calls'[i].rest) : c \in Order \ E /\ idom[c] = calls'[i].block
  <2>1. \A i \in 1..n :
          /\ IsInjective(calls[i].rest)
          /\ \A c \in ToSet(calls[i].rest) : c \in Order \ E /\ idom[c] = calls[i].block
    BY <1>4 DEF Walked
  <2>2. TAKE i \in DOMAIN calls'
  <2>3. i \in 1..n /\ calls'[i] = calls[i]
    BY <1>4, <1>6
  <2>. QED BY <2>1, <2>3
<1>9. Order' = Order /\ Order \subseteq Blocks
  BY <1>1, SameOrder, OrderFacts DEF FixedPoint, TreeOK
<1>10. calls' = << >> <=> n = 1
  BY <1>1, <1>2
<1>11. \A b \in E \ {Entry} :
         /\ idom'[b] \in E
         /\ \A r \in Regs : ~ Defines(b, r)' => versions'[b][r] = versions'[idom'[b]][r]
  BY <1>1, <1>3, <1>9, SameDefinitions
<1>. QED BY <1>1, <1>2, <1>3, <1>5, <1>7, <1>8, <1>9, <1>10, <1>11, SMTT(40) DEF Walked, Frame

LEMMA RenameReturnKeeps ==
    ASSUME EdgesOK, SsaInv, RenameReturn
    PROVE  SsaInv'
<1>1. /\ pc = "rename" /\ SsaTypes /\ FixedPoint /\ FrontierRight /\ AllMerged
      /\ \E E : Walked(E) /\ Sourced(E)
      /\ \E h : Stacked(h)
  BY RenamingIs DEF RenameReturn
<1>2. /\ UNCHANGED <<term, covered, handlers, rpo, idom, frontier, defs, phis, nextVersion, versions>>
      /\ pc' \in {"rename", "done"}
  BY <1>1 DEF RenameReturn, Goto, domVars, search, method
<1>3. PICK E : Walked(E) /\ Sourced(E)
  BY <1>1
<1>4. PICK h : Stacked(h)
  BY <1>1
<1>5. Walked(E)' /\ Sourced(E)' /\ Stacked(h)'
  BY <1>1, <1>2, <1>3, <1>4, ReturnWalks, SameSources, ReturnStacks
<1>6. FixedPoint' /\ FrontierRight' /\ AllMerged'
  BY <1>1, <1>2, SameDefinitions, SamePhis
<1>7. SsaTypes'
  BY <1>1, <1>2 DEF SsaTypes
<1>. QED BY <1>2, <1>5, <1>6, <1>7 DEF SsaInv

LEMMA SeedParamsKeeps ==
    ASSUME EdgesOK, SsaInv, SeedParams
    PROVE  SsaInv'
<1>1. /\ pc = "place" /\ pc' = "rename" /\ worklist = << >> /\ unplaced = {}
      /\ stacks' = [r \in Regs |-> MintedFor(r, Params, 0)]
      /\ nextVersion' = Len(Params)
      /\ UNCHANGED <<term, covered, handlers, rpo, idom, frontier, defs, phis, versions, calls>>
  BY DEF SeedParams, Goto, search, method
<1>2. SsaTypes /\ FixedPoint /\ FrontierRight /\ Placing /\ Unrenamed
  BY <1>1 DEF SsaInv
<1>3. AllMerged
  <2>1. \A r \in Regs : \A b \in Order : Defines(b, r) => Merged(b, r) \/ b \in ToSet(worklist)
    BY <1>1, <1>2 DEF Placing
  <2>2. ToSet(worklist) = {}
    BY <1>1 DEF ToSet
  <2>. QED BY <2>1, <2>2 DEF AllMerged
<1>4. FixedPoint' /\ FrontierRight' /\ AllMerged'
  BY <1>1, <1>2, <1>3, SameDefinitions, SamePhis
<1>5. SsaTypes'
  BY <1>1, <1>2, SsaAssumption DEF SsaTypes
<1>6. calls' = << >> /\ \A b \in Blocks : \A r \in Regs : versions'[b][r] = NoVersion
  BY <1>1, <1>2 DEF Unrenamed
<1>7. TreeOK' /\ OrderOK'
  BY <1>4 DEF FixedPoint, TreeOK
<1>8. PICK E : E = {}
  OBVIOUS
<1>9. Walked(E)'
  <2>1. DOMAIN calls' = {}
    BY <1>6
  <2>2. calls' \in Seq([block : E, rest : Seq(Blocks), minted : Seq(Regs)])
    BY <1>6
  <2>. QED BY <1>1, <1>6, <1>8, <2>1, <2>2 DEF Walked
<1>10. Sourced(E)'
  <2>1. \A b \in Blocks : \A i \in DOMAIN phis[b] : \A p : SourcesFrom(phis[b][i].sources, p) = {}
    BY <1>2 DEF Unrenamed, SourcesFrom
  <2>2. Sourced(E)
    BY <1>8, <2>1, FS_EmptySet DEF Sourced
  <2>. QED BY <1>1, <2>2, SameSources
<1>11. \A r \in Regs : stacks'[r] \in Seq(Nat)
  BY <1>1, SsaAssumption, MintedForIs
<1>12. PICK h : h = [r \in Regs |-> [i \in {0} |-> Len(stacks'[r])]]
  OBVIOUS
<1>13. Stacked(h)'
  <2>1. Len(calls') = 0
    BY <1>6
  <2>2. \A r \in Regs : h[r][0] = Len(stacks'[r]) /\ Len(stacks'[r]) \in Nat
    BY <1>11, <1>12
  <2>3. stacks' \in [Regs -> Seq(Nat)]
    BY <1>1, <1>11
  <2>4. 0..Len(calls') = {0} /\ 1..Len(calls') = {}
    BY <2>1
  <2>. QED BY <2>1, <2>2, <2>3, <2>4 DEF Stacked
<1>. QED BY <1>1, <1>4, <1>5, <1>9, <1>10, <1>13 DEF SsaInv

\* A register whose definitions are the first blocks to process.
LEMMA PlaceRegisterKeeps ==
    ASSUME SsaInv, PlaceRegister
    PROVE  SsaInv'
<1>1. /\ pc = "place" /\ pc' = "place" /\ worklist = << >>
      /\ UNCHANGED <<term, covered, handlers, rpo, idom, frontier>>
      /\ UNCHANGED <<defs, phis, nextVersion, versions, calls>>
  BY DEF PlaceRegister, domVars, method, search, renameVars
<1>2. SsaTypes /\ FixedPoint /\ FrontierRight /\ Placing /\ Unrenamed
  BY <1>1 DEF SsaInv
<1>3. PICK r \in unplaced :
         /\ current' = r
         /\ unplaced' = unplaced \ {r}
         /\ worklist' = Kept([i \in 1..NumBlocks |-> i - 1],
                             {b \in Blocks : Contains(defs[b], r)})
  BY DEF PlaceRegister
<1>. DEFINE all == [i \in 1..NumBlocks |-> i - 1]
            S == {b \in Blocks : Contains(defs[b], r)}
<1>4. all \in Seq(Blocks) /\ ToSet(all) = Blocks
  <2>1. NumBlocks \in Nat \ {0} /\ DOMAIN all = 1..NumBlocks
    BY GraphAssumption
  <2>2. \A i \in 1..NumBlocks : i - 1 \in Blocks
    BY <2>1 DEF Blocks
  <2>3. all \in Seq(Blocks)
    BY <2>1, <2>2
  <2>4. \A b \in Blocks : b + 1 \in 1..NumBlocks /\ all[b + 1] = b
    BY <2>1 DEF Blocks
  <2>5. \A b \in Blocks : b \in ToSet(all)
    BY <2>1, <2>4 DEF ToSet
  <2>6. \A b \in ToSet(all) : b \in Blocks
    BY <2>1, <2>2 DEF ToSet
  <2>. QED BY <2>3, <2>5, <2>6
<1>. HIDE DEF all
<1>5. worklist' \in Seq(Blocks) /\ ToSet(worklist') = S
  <2>1. worklist' = Kept(all, S)
    BY <1>3 DEF all
  <2>2. S \subseteq Blocks
    OBVIOUS
  <2>. HIDE DEF S
  <2>3. Kept(all, S) \in Seq(Blocks) /\ ToSet(Kept(all, S)) = Blocks \cap S
    BY <1>4, KeptIs
  <2>. QED BY <2>1, <2>2, <2>3
<1>6. FixedPoint' /\ FrontierRight'
  BY <1>1, <1>2, SameFrontier
<1>7. /\ Order' = Order /\ Order \subseteq Blocks
      /\ \A b : HasPhi(b, r)' <=> HasPhi(b, r)
  BY <1>1, <1>2, SameOrder, OrderFacts DEF FixedPoint, TreeOK, HasPhi
<1>8. \A b, q : (HasPhi(b, q)' <=> HasPhi(b, q)) /\ (Defines(b, q)' <=> Defines(b, q))
  BY <1>1 DEF HasPhi, Defines
<1>9. \A b, q : Merged(b, q)' <=> Merged(b, q)
  BY <1>1, <1>7, <1>8 DEF Merged
<1>10. unplaced \subseteq Regs /\ \A q \in unplaced : \A b \in Blocks : ~ HasPhi(b, q)
  BY <1>2 DEF Placing
<1>11. ASSUME NEW q \in Regs \ unplaced', NEW b \in Order, Defines(b, q)
       PROVE  Merged(b, q) \/ (q = r /\ b \in S)
  <2>1. CASE q = r
    BY <1>7, <1>10, <1>11, <2>1 DEF Defines
  <2>2. CASE q # r
    <3>1. q \in Regs \ unplaced /\ ToSet(worklist) = {}
      BY <1>1, <1>3, <1>11, <2>2 DEF ToSet
    <3>. QED BY <1>2, <1>11, <3>1 DEF Placing
  <2>. QED BY <2>1, <2>2
<1>. HIDE DEF S
<1>12. Placing'
  <2>1. \A q \in Regs \ unplaced' : \A b \in Order' :
          Defines(b, q)' => Merged(b, q)' \/ (q = current' /\ b \in ToSet(worklist'))
    BY <1>3, <1>5, <1>7, <1>8, <1>9, <1>11
  <2>2. \A q \in unplaced' : \A b \in Blocks : ~ HasPhi(b, q)'
    BY <1>3, <1>8, <1>10
  <2>3. unplaced' \subseteq Regs /\ current' \in Regs \ unplaced'
    BY <1>3, <1>10
  <2>. QED BY <1>5, <2>1, <2>2, <2>3 DEF Placing
<1>13. SsaTypes' /\ Unrenamed'
  BY <1>1, <1>2 DEF SsaTypes, Unrenamed
<1>. QED BY <1>1, <1>6, <1>12, <1>13 DEF SsaInv

\* The first block of the worklist is merged; a phi is a definition to process.
LEMMA PlacePhisKeeps ==
    ASSUME SsaInv, PlacePhis
    PROVE  SsaInv'
<1>. DEFINE w == Head(worklist)
            new == NewPhis(w)
            phi == [reg |-> current, dst |-> 0, sources |-> << >>]
<1>1. /\ pc = "place" /\ pc' = "place" /\ worklist # << >>
      /\ UNCHANGED <<term, covered, handlers, rpo, idom, frontier>>
      /\ UNCHANGED <<defs, unplaced, current, nextVersion, versions, calls>>
      /\ phis' = [y \in Blocks |-> IF Contains(new, y) THEN Append(phis[y], phi) ELSE phis[y]]
      /\ worklist' = Tail(worklist) \o NewDefinitions(new)
  BY DEF PlacePhis, domVars, method, search, renameVars
<1>2. SsaTypes /\ FixedPoint /\ FrontierRight /\ Placing /\ Unrenamed
  BY <1>1 DEF SsaInv
<1>3. worklist \in Seq(Blocks) /\ current \in Regs \ unplaced /\ unplaced \subseteq Regs
      /\ \A r \in unplaced : \A b \in Blocks : ~ HasPhi(b, r)
  BY <1>1, <1>2 DEF Placing
<1>4. /\ w \in Blocks /\ Tail(worklist) \in Seq(Blocks)
      /\ \A b \in ToSet(worklist) : b = w \/ b \in ToSet(Tail(worklist))
  <2>1. /\ w = worklist[1] /\ Len(worklist) \in Nat \ {0} /\ DOMAIN worklist = 1..Len(worklist)
        /\ Tail(worklist) \in Seq(Blocks) /\ DOMAIN Tail(worklist) = 1..Len(worklist) - 1
        /\ \A i \in 1..Len(worklist) - 1 : Tail(worklist)[i] = worklist[i + 1]
        /\ w \in Blocks
    BY <1>1, <1>3
  <2>2. ASSUME NEW b \in ToSet(worklist), b # w
        PROVE  b \in ToSet(Tail(worklist))
    <3>1. PICK i \in 1..Len(worklist) : b = worklist[i]
      BY <2>1 DEF ToSet
    <3>2. i - 1 \in 1..Len(worklist) - 1 /\ (i - 1) + 1 = i
      BY <2>1, <2>2, <3>1
    <3>3. b = Tail(worklist)[i - 1]
      BY <2>1, <3>1, <3>2
    <3>. QED BY <2>1, <3>2, <3>3 DEF ToSet
  <2>. QED BY <2>1, <2>2
<1>5. rpo \in Seq(Blocks) /\ Order \subseteq Blocks /\ Order' = Order
  BY <1>1, <1>2, OrderFacts, SameOrder DEF FixedPoint, TreeOK, OrderOK
<1>. HIDE DEF w
<1>6. /\ new \in Seq(Blocks)
      /\ ToSet(new) = {y \in Order : y \in frontier[w] /\ ~ HasPhi(y, current)}
  <2>. DEFINE S == {y \in frontier[w] : ~ HasPhi(y, current)}
  <2>1. new = Kept(rpo, S)
    BY DEF NewPhis
  <2>. HIDE DEF S, new
  <2>2. new \in Seq(Blocks) /\ ToSet(new) = Order \cap S
    BY <1>5, <2>1, KeptIs DEF Order
  <2>. QED BY <2>2 DEF S
<1>7. /\ NewDefinitions(new) \in Seq(Blocks)
      /\ ToSet(NewDefinitions(new)) = {y \in ToSet(new) : ~ Contains(defs[y], current)}
  <2>. DEFINE S == {y \in Blocks : ~ Contains(defs[y], current)}
  <2>. HIDE DEF new
  <2>1. NewDefinitions(new) = Kept(new, S)
    BY DEF NewDefinitions
  <2>. HIDE DEF S
  <2>2. NewDefinitions(new) \in Seq(Blocks) /\ ToSet(NewDefinitions(new)) = ToSet(new) \cap S
    BY <1>6, <2>1, KeptIs
  <2>. QED BY <1>5, <1>6, <2>2 DEF S
<1>8. \A y \in Blocks : Contains(new, y) <=> y \in ToSet(new)
  <2>. HIDE DEF new
  <2>. QED BY <1>6 DEF Contains, ToSet
<1>. HIDE DEF new
<1>9. /\ worklist' \in Seq(Blocks)
      /\ ToSet(worklist') = ToSet(Tail(worklist)) \cup ToSet(NewDefinitions(new))
  <2>. DEFINE old == Tail(worklist)
              more == NewDefinitions(new)
  <2>1. worklist' = old \o more
    BY <1>1
  <2>2. old \in Seq(Blocks) /\ more \in Seq(Blocks)
    BY <1>4, <1>7
  <2>. HIDE DEF old, more
  <2>3. old \o more \in Seq(Blocks) /\ ToSet(old \o more) = ToSet(old) \cup ToSet(more)
    BY <2>2, ConcatIs
  <2>. QED BY <2>1, <2>3 DEF old, more
<1>10. phi \in Phi /\ phi.reg = current /\ phi.sources = << >>
  <2>1. << >> \in Seq(Source)
    OBVIOUS
  <2>. QED BY <1>3, <2>1 DEF Phi
<1>. HIDE DEF phi
<1>11. ASSUME NEW y \in Blocks
       PROVE  /\ phis'[y] \in Seq(Phi)
              /\ \A q : HasPhi(y, q)' <=> HasPhi(y, q) \/ (q = current /\ y \in ToSet(new))
              /\ \A i \in DOMAIN phis'[y] : phis'[y][i].sources = << >>
  <2>1. phis[y] \in Seq(Phi) /\ \A i \in DOMAIN phis[y] : phis[y][i].sources = << >>
    BY <1>2 DEF SsaTypes, Unrenamed
  <2>2. CASE y \in ToSet(new)
    <3>. DEFINE m == Len(phis[y])
                old == phis[y]
    <3>1. phis'[y] = Append(old, phi)
      BY <1>1, <1>8, <2>2
    <3>2. /\ phis'[y] \in Seq(Phi) /\ m \in Nat /\ DOMAIN old = 1..m /\ DOMAIN phis'[y] = 1..m + 1
          /\ phis'[y][m + 1] = phi /\ \A i \in 1..m : phis'[y][i] = old[i]
      BY <1>10, <2>1, <3>1
    <3>. HIDE DEF m, old
    <3>3. \A i \in 1..m + 1 : i \in 1..m \/ i = m + 1
      BY <3>2
    <3>4. (\A i \in 1..m : i \in 1..m + 1) /\ m + 1 \in 1..m + 1
      BY <3>2
    <3>5. \A i \in DOMAIN phis'[y] : phis'[y][i].sources = << >>
      <4>1. \A i \in 1..m : old[i].sources = << >>
        BY <2>1, <3>2 DEF old
      <4>. QED BY <1>10, <3>2, <3>3, <4>1
    <3>6. \A q : HasPhi(y, q) <=> \E i \in 1..m : old[i].reg = q
      BY <3>2 DEF HasPhi, old
    <3>7. \A q : HasPhi(y, q)' <=> \E i \in 1..m + 1 : phis'[y][i].reg = q
      BY <3>2 DEF HasPhi
    <3>8. ASSUME NEW q PROVE HasPhi(y, q)' <=> HasPhi(y, q) \/ q = current
      BY <1>10, <3>2, <3>3, <3>4, <3>6, <3>7
    <3>. QED BY <2>2, <3>2, <3>5, <3>8
  <2>3. CASE y \notin ToSet(new)
    <3>1. phis'[y] = phis[y]
      BY <1>1, <1>8, <2>3
    <3>. QED BY <2>1, <2>3, <3>1 DEF HasPhi
  <2>. QED BY <2>2, <2>3
<1>12. phis' \in [Blocks -> Seq(Phi)]
  <2>1. phis' = [y \in Blocks |-> phis'[y]]
    BY <1>1
  <2>. QED BY <1>11, <2>1
<1>13. SsaTypes' /\ Unrenamed'
  BY <1>1, <1>2, <1>11, <1>12 DEF SsaTypes, Unrenamed
<1>14. FixedPoint' /\ FrontierRight'
  BY <1>1, <1>2, SameFrontier
<1>15. \A b \in Blocks : \A q : Defines(b, q)' <=>
          Defines(b, q) \/ (q = current /\ b \in ToSet(new))
  BY <1>1, <1>11 DEF Defines
<1>16. \A b, q : Merged(b, q) => Merged(b, q)'
  BY <1>1, <1>5, <1>11 DEF Merged
<1>17. \A q, b : q = current /\ b = w => Merged(b, q)'
  <2>1. SUFFICES ASSUME NEW q, NEW b, q = current, b = w, NEW y \in Order, y \in frontier[w]
                 PROVE  HasPhi(y, q)'
    BY <1>1, <1>5 DEF Merged
  <2>2. HasPhi(y, q) \/ y \in ToSet(new)
    BY <1>6, <2>1
  <2>. QED BY <1>5, <1>11, <2>1, <2>2
<1>18. ASSUME NEW q \in Regs \ unplaced, NEW b \in Order, Defines(b, q)'
       PROVE  Merged(b, q)' \/ (q = current /\ b \in ToSet(worklist'))
  <2>1. CASE Defines(b, q)
    <3>1. Merged(b, q) \/ (q = current /\ b \in ToSet(worklist))
      BY <1>2, <1>18, <2>1 DEF Placing
    <3>2. CASE Merged(b, q)
      BY <1>16, <3>2
    <3>3. CASE q = current /\ b \in ToSet(worklist)
      BY <1>4, <1>9, <1>17, <3>3
    <3>. QED BY <3>1, <3>2, <3>3
  <2>2. CASE ~ Defines(b, q)
    <3>1. q = current /\ b \in ToSet(new)
      BY <1>5, <1>15, <1>18, <2>2
    <3>2. ~ Contains(defs[b], current)
      BY <2>2, <3>1 DEF Defines
    <3>. QED BY <1>7, <1>9, <3>1, <3>2
  <2>. QED BY <2>1, <2>2
<1>19. \A r \in unplaced : \A b \in Blocks : ~ HasPhi(b, r)'
  BY <1>3, <1>11
<1>20. Placing'
  BY <1>1, <1>3, <1>5, <1>9, <1>18, <1>19 DEF Placing
<1>. QED BY <1>1, <1>13, <1>14, <1>20 DEF SsaInv

LEMMA CollectDefsKeeps ==
    ASSUME GraphInv, SsaInv, CollectDefs
    PROVE  SsaInv'
<1>1. /\ pc = "computed" /\ pc' = "place"
      /\ defs' \in Definitions /\ unplaced' = UNION {ToSet(defs'[b]) : b \in Blocks}
      /\ UNCHANGED <<term, covered, handlers, rpo, idom, frontier>>
      /\ UNCHANGED <<current, worklist, phis, nextVersion, versions, calls>>
  BY DEF CollectDefs, Goto, method, search, renameVars
<1>2. SsaTypes /\ Unrenamed /\ worklist = << >> /\ \A b \in Blocks : phis[b] = << >>
  BY <1>1 DEF SsaInv
<1>3. FixedPoint /\ FrontierRight
  BY <1>1 DEF GraphInv
<1>4. FixedPoint' /\ FrontierRight'
  BY <1>1, <1>3, SameFrontier
<1>5. defs' \in [Blocks -> Seq(Regs)]
  BY <1>1, SsaAssumption
<1>6. Order' = Order /\ Order \subseteq Blocks
  BY <1>1, <1>3, SameOrder, OrderFacts DEF FixedPoint, TreeOK
<1>7. unplaced' \subseteq Regs
  <2>1. \A b \in Blocks : ToSet(defs'[b]) \subseteq Regs
    <3>1. TAKE b \in Blocks
    <3>2. defs'[b] \in Seq(Regs)
      BY <1>5
    <3>. QED BY <3>2 DEF ToSet
  <2>. QED BY <1>1, <2>1
<1>8. \A b \in Blocks : \A r : ~ HasPhi(b, r)'
  BY <1>1, <1>2 DEF HasPhi
<1>9. \A b \in Blocks : \A r : Defines(b, r)' => r \in unplaced'
  <2>1. SUFFICES ASSUME NEW b \in Blocks, NEW r, Contains(defs'[b], r) PROVE r \in ToSet(defs'[b])
    BY <1>1, <1>8 DEF Defines
  <2>2. defs'[b] \in Seq(Regs)
    BY <1>5
  <2>. QED BY <2>1, <2>2 DEF Contains, ToSet
<1>10. worklist' = << >> /\ << >> \in Seq(Blocks)
  BY <1>1, <1>2
<1>11. Placing'
  BY <1>6, <1>7, <1>8, <1>9, <1>10 DEF Placing
<1>12. SsaTypes' /\ Unrenamed'
  BY <1>1, <1>2, <1>5 DEF SsaTypes, Unrenamed
<1>. QED BY <1>1, <1>4, <1>11, <1>12 DEF SsaInv

LEMMA DominateKeeps ==
    ASSUME SsaInv, Dominate
    PROVE  SsaInv'
<1>. DEFINE early == {"dfs", "idom", "frontier", "computed"}
<1>1. pc \in early /\ pc' \in early /\ UNCHANGED <<covered, handlers>>
  <2>. USE DEF method
  <2>1. CASE DfsEdge
    BY <2>1 DEF DfsEdge
  <2>2. CASE DfsReturn
    BY <2>2 DEF DfsReturn
  <2>3. CASE IdomStep
    BY <2>3 DEF IdomStep
  <2>4. CASE IdomPassEnds
    BY <2>4 DEF IdomPassEnds
  <2>5. CASE FrontierStep
    BY <2>5 DEF FrontierStep
  <2>6. CASE MarkLoopHeaders
    BY <2>6 DEF MarkLoopHeaders
  <2>. QED BY <2>1, <2>2, <2>3, <2>4, <2>5, <2>6 DEF Dominate, DomNext
<1>2. UNCHANGED <<defs, worklist, phis, nextVersion, versions, calls>>
  BY DEF Dominate, ssaVars, placeVars, renameVars
<1>3. SsaTypes /\ Unrenamed /\ worklist = << >> /\ \A b \in Blocks : phis[b] = << >>
  BY <1>1 DEF SsaInv
<1>4. SsaTypes' /\ Unrenamed'
  BY <1>1, <1>2, <1>3 DEF SsaTypes, Unrenamed
<1>. QED BY <1>1, <1>2, <1>3, <1>4 DEF SsaInv

LEMMA SsaInvFirst ==
    ASSUME Init
    PROVE  SsaInv
<1>1. /\ covered \in TryRanges /\ handlers \in HandlerLists /\ pc = "dfs"
      /\ defs = [b \in Blocks |-> << >>] /\ worklist = << >>
      /\ phis = [b \in Blocks |-> << >>] /\ nextVersion = 0
      /\ versions = [b \in Blocks |-> [r \in Regs |-> NoVersion]] /\ calls = << >>
  BY DEF Init, DomInit, SsaInit
<1>2. << >> \in Seq(Regs) /\ << >> \in Seq(Phi)
  OBVIOUS
<1>3. SsaTypes /\ Unrenamed
  BY <1>1, <1>2 DEF SsaTypes, Unrenamed
<1>. QED BY <1>1, <1>3 DEF SsaInv

LEMMA SsaInvStutters ==
    ASSUME SsaInv, UNCHANGED vars
    PROVE  SsaInv'
<1>1. UNCHANGED <<term, covered, handlers, pc, rpo, idom, frontier>>
  BY DEF vars, domVars
<1>2. UNCHANGED <<defs, unplaced, current, worklist, phis, nextVersion, stacks, versions, calls>>
  BY DEF vars, ssaVars, placeVars, renameVars
<1>3. /\ FixedPoint' <=> FixedPoint
      /\ FrontierRight' <=> FrontierRight
      /\ Order' = Order
  BY <1>1, SameFrontier, SameOrder
<1>4. \A b, r : (HasPhi(b, r)' <=> HasPhi(b, r)) /\ (Defines(b, r)' <=> Defines(b, r))
  BY <1>2 DEF HasPhi, Defines
<1>5. \A b, r : Merged(b, r)' <=> Merged(b, r)
  BY <1>1, <1>3, <1>4 DEF Merged
<1>6. (SsaTypes => SsaTypes') /\ (Unrenamed => Unrenamed')
  BY <1>1, <1>2 DEF SsaTypes, Unrenamed
<1>7. (Placing => Placing') /\ (AllMerged => AllMerged')
  BY <1>2, <1>3, <1>4, <1>5 DEF Placing, AllMerged
<1>8. \A E : Walked(E) => Walked(E)'
  BY <1>1, <1>2, <1>3, <1>4 DEF Walked
<1>9. \A E : Sourced(E) => Sourced(E)'
  BY <1>1, <1>2, SameSources
<1>10. \A h : Stacked(h) => Stacked(h)'
  BY <1>2, ZenonT(60) DEF Stacked
<1>. QED BY <1>1, <1>2, <1>3, <1>6, <1>7, <1>8, <1>9, <1>10 DEF SsaInv

\* The invariant of the builder holds in every state.
THEOREM SsaInvAlways == Spec => []SsaInv
<1>1. Init => SsaInv
  BY SsaInvFirst
<1>2. GraphInv /\ SsaInv /\ [Next]_vars => SsaInv'
  <2>1. SUFFICES ASSUME GraphInv, SsaInv, [Next]_vars PROVE SsaInv'
    OBVIOUS
  <2>2. EdgesOK
    BY <2>1 DEF GraphInv
  <2>3. CASE Dominate
    BY <2>1, <2>3, DominateKeeps
  <2>4. CASE CollectDefs
    BY <2>1, <2>4, CollectDefsKeeps
  <2>5. CASE PlaceRegister
    BY <2>1, <2>5, PlaceRegisterKeeps
  <2>6. CASE PlacePhis
    BY <2>1, <2>6, PlacePhisKeeps
  <2>7. CASE SeedParams
    BY <2>1, <2>2, <2>7, SeedParamsKeeps
  <2>8. CASE RenameEntry
    BY <2>1, <2>2, <2>8, RenameEntryKeeps
  <2>9. CASE RenameChild
    BY <2>1, <2>2, <2>9, RenameChildKeeps
  <2>10. CASE RenameReturn
    BY <2>1, <2>2, <2>10, RenameReturnKeeps
  <2>11. CASE UNCHANGED vars
    BY <2>1, <2>11, SsaInvStutters
  <2>. QED BY <2>1, <2>3, <2>4, <2>5, <2>6, <2>7, <2>8, <2>9, <2>10, <2>11 DEF Next
<1>. QED BY <1>1, <1>2, GraphInvAlways, PTL DEF Spec

\* The walk ends when it has renamed every block of the order.
LEMMA WalkEnds ==
    ASSUME FixedPoint, NEW E, Walked(E), pc = "done"
    PROVE  E = Order
<1>1. TreeOK /\ OrderOK /\ Known = Order
  BY KnownIs DEF FixedPoint, TreeOK
<1>2. E \subseteq Order /\ Entry \in E /\ calls = << >>
  BY DEF Walked
<1>3. \A c \in Order \ E : idom[c] \notin E
  BY <1>2 DEF Walked
<1>. DEFINE Bad == {Pos(c) : c \in Order \ E}
<1>4. SUFFICES ASSUME Order \ E # {} PROVE FALSE
  BY <1>2
<1>5. Bad \in SUBSET Nat /\ Bad # {}
  BY <1>1, <1>4, PosIs
<1>6. \A c \in Order \ E : Pos(c) \in Bad
  OBVIOUS
<1>. HIDE DEF Bad
<1>7. PICK k \in Bad : \A j \in Bad : k <= j
  BY <1>5, LeastOf
<1>8. PICK c \in Order \ E : k = Pos(c)
  BY <1>7 DEF Bad
<1>9. idom[c] \in Order /\ Pos(idom[c]) < Pos(c)
  BY <1>1, <1>2, <1>8 DEF TreeOK
<1>10. idom[c] \notin E
  BY <1>3, <1>8
<1>11. Pos(idom[c]) \in Bad /\ Pos(idom[c]) \in Nat /\ Pos(c) \in Nat
  BY <1>1, <1>6, <1>8, <1>9, <1>10, PosIs
<1>. QED BY <1>7, <1>8, <1>9, <1>11

\* When the builder is done, the predecessors of a block that has no phi for a
\* register agree with its immediate dominator on the version they end with.
THEOREM VersionsAlwaysMeet == Spec => []VersionsMeet
<1>1. SsaInv => VersionsMeet
  <2>1. SUFFICES ASSUME SsaInv, pc = "done",
                        NEW b \in Reachable \ {Entry}, NEW r \in Regs, ~ HasPhi(b, r),
                        NEW p \in Reachable, Contains(NormalEdges(p), b)
                 PROVE  versions[p][r] = versions[idom[b]][r]
    BY DEF VersionsMeet
  <2>2. FixedPoint /\ FrontierRight /\ AllMerged
    BY <2>1 DEF SsaInv
  <2>3. EdgesOK /\ Order = Reachable /\ Order \subseteq Blocks
    BY <2>2, OrderFacts DEF FixedPoint, TreeOK, OrderOK
  <2>4. PICK E : Walked(E)
    BY <2>1 DEF SsaInv
  <2>5. E = Order
    BY <2>1, <2>2, <2>4, WalkEnds
  <2>6. \A x \in Order \ {Entry} : ~ Defines(x, r) => versions[x][r] = versions[idom[x]][r]
    BY <2>4, <2>5 DEF Walked
  <2>7. Edge(p, b)
    BY <2>1, <2>3, EdgeIs
  <2>. QED BY <2>1, <2>2, <2>3, <2>6, <2>7, MergedMeet
<1>. QED BY <1>1, SsaInvAlways, PTL

\* When the builder is done, a phi has one source for each edge into its block
\* from a reachable block, with the version live at that block's exit.
THEOREM PhiSourcesAreComplete == Spec => []PhiSourcesComplete
<1>1. SsaInv => PhiSourcesComplete
  <2>1. SUFFICES ASSUME SsaInv, pc = "done", NEW b \in Reachable, NEW i \in DOMAIN phis[b],
                        NEW p \in Blocks
                 PROVE  /\ Cardinality(SourcesFrom(phis[b][i].sources, p))
                              = IF p \in Reachable THEN EdgesTo(p, b) ELSE 0
                        /\ \A k \in SourcesFrom(phis[b][i].sources, p) :
                              phis[b][i].sources[k].version = ExitVersion(p, phis[b][i].reg)
    BY DEF PhiSourcesComplete, SourcesFrom, EdgesTo
  <2>2. FixedPoint
    BY <2>1 DEF SsaInv
  <2>3. Order = Reachable /\ Order \subseteq Blocks
    BY <2>2, OrderFacts DEF FixedPoint, TreeOK
  <2>4. PICK E : Walked(E) /\ Sourced(E)
    BY <2>1 DEF SsaInv
  <2>5. E = Order
    BY <2>1, <2>2, <2>4, WalkEnds
  <2>6. b \in Blocks /\ Sourced(Reachable)
    BY <2>3, <2>4, <2>5
  <2>. QED BY <2>1, <2>6 DEF Sourced
<1>. QED BY <1>1, SsaInvAlways, PTL

=============================================================================

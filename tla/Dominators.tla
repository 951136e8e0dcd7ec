----------------------------- MODULE Dominators -----------------------------
(***************************************************************************)
(* The control-flow graph of a method and its dominator tree, as           *)
(* CfgBuilder (platypus-dex/src/code_block.rs) connects the first and      *)
(* DominatorTree::compute (platypus-codegen/src/java/dominator_tree.rs)    *)
(* computes the second: a depth-first search gives the reverse post-order, *)
(* a fixed point over it the immediate dominators, and one more pass the   *)
(* dominance frontiers and the loop headers.                               *)
(*                                                                         *)
(* The instructions of a block are abstracted to what ends it; blocks are  *)
(* numbered by their codepoints, so the next one falls through.            *)
(***************************************************************************)
EXTENDS Integers, SequencesExt

CONSTANTS NumBlocks,     \* blocks of the method
          Terminators,   \* what may end a block: [kind, targets]
          TryRanges,     \* what the try items may cover: sets of blocks
          HandlerLists   \* the handlers of the method: sequences of blocks

Blocks == 0 .. NumBlocks - 1
Entry == 0
NoBlock == NumBlocks     \* a branch to an address where no block starts
Undefined == NumBlocks   \* usize::MAX

ASSUME GraphAssumption ==
    /\ NumBlocks \in Nat \ {0}
    /\ \A t \in Terminators :
         /\ t.kind \in {"return", "goto", "branch", "generic"}
         /\ t.targets \in Seq(Blocks \cup {NoBlock})
    /\ TryRanges \subseteq SUBSET Blocks
    /\ HandlerLists \subseteq Seq(Blocks \cup {NoBlock})

VARIABLES
    term,        \* the terminator of each block
    covered,     \* the blocks inside a try range
    handlers,    \* the handlers of the method, in order
    pc,          \* which pass is running
    frames,      \* activations of dfs_rpo: [block, rest of its successors]
    visited,     \* blocks the search has entered
    rpo,         \* reverse post-order found so far
    idom,        \* immediate dominators, Undefined where not known yet
    todo,        \* blocks the current pass has still to process
    changed,     \* the current pass of the fixed point changed an idom
    frontier,    \* dom_frontier
    loopHeader   \* blocks marked loop_header

method == <<term, covered, handlers>>
search == <<frames, visited, rpo>>
domVars == <<term, covered, handlers, pc, frames, visited, rpo, idom, todo,
             changed, frontier, loopHeader>>
-----------------------------------------------------------------------------
(* The edges, in the order the builder adds them.                          *)

\* What of s is in S, in its order.
Kept(s, S) ==
    LET kept[n \in 0 .. Len(s)] ==
          IF n = 0 THEN <<>>
          ELSE IF s[n] \in S THEN Append(kept[n - 1], s[n]) ELSE kept[n - 1]
    IN  kept[Len(s)]

\* The edges of a block b that t ends.
EdgesFrom(t, b) ==
    LET jumps == Kept(t.targets, Blocks)
        next == IF b + 1 \in Blocks THEN <<b + 1>> ELSE <<>>
    IN  CASE t.kind = "return" -> <<>>
          [] t.kind = "goto" -> jumps
          [] t.kind \notin {"return", "goto"} -> jumps \o next

\* The successors of b that are not exceptional: the targets of its last
\* instruction that are blocks, then the next block unless it never falls through.
NormalEdges(b) == EdgesFrom(term[b], b)

\* Every covered block may go to every handler of the method: the edges are
\* not limited to the handlers of the try item that covers the block.
ExceptionEdges(b) == IF b \in covered THEN Kept(handlers, Blocks) ELSE <<>>

SuccessorEdges(b) == NormalEdges(b) \o ExceptionEdges(b)

Pos(b) == SelectInSeq(rpo, LAMBDA x : x = b)    \* 0: not reachable

\* Mutant of EdgesInto: the exceptional edges count too.
EdgesOfAnyKindInto(b) ==
    UNION {{<<s, i>> : i \in {j \in DOMAIN SuccessorEdges(s) : SuccessorEdges(s)[j] = b}} :
              s \in ToSet(rpo)}

\* The non-exceptional edges into b from blocks in the order: where each begins,
\* and its place among the edges from there.
EdgesInto(b) ==
    UNION {{<<s, i>> : i \in {j \in DOMAIN NormalEdges(s) : NormalEdges(s)[j] = b}} :
              s \in ToSet(rpo)}

ReachablePreds(b) == {e[1] : e \in EdgesInto(b)}

\* The blocks whose dominator is known by now.
Known == {b \in ToSet(rpo) : idom[b] # Undefined}

\* The fingers, a pair, climb until they meet; the later one in the order moves.
Intersect(p, q) ==
    LET meet[f \in Known \X Known] ==
          IF f[1] = f[2] THEN f[1]
          ELSE IF Pos(f[1]) > Pos(f[2]) THEN meet[<<idom[f[1]], f[2]>>]
          ELSE meet[<<f[1], idom[f[2]]>>]
    IN  meet[<<p, q>>]

\* The blocks whose frontier the predecessor p of the join b puts b into.
Runners(p, b) ==
    LET walk[r \in Blocks] ==
          IF r = idom[b] THEN {}
          ELSE {r} \cup IF idom[r] \in {Undefined, r} THEN {} ELSE walk[idom[r]]
    IN  walk[p]

\* The blocks that b dominates immediately, in the order they are pushed.
DomChildren(b) == Kept(Tail(rpo), {c \in Blocks : idom[c] = b /\ c # b})

BackEdgeTargetsEarlier ==    \* mutant of BackEdgeTargets
    {t \in ToSet(rpo) : \E s \in ToSet(rpo) :
        /\ Contains(NormalEdges(s), t)
        /\ Pos(t) < Pos(s)}

BackEdgeTargets ==
    {t \in ToSet(rpo) : \E s \in ToSet(rpo) :
        /\ Contains(NormalEdges(s), t)
        /\ Pos(t) <= Pos(s)}
-----------------------------------------------------------------------------
DomInit ==
    /\ term \in [Blocks -> Terminators]
    /\ covered \in TryRanges
    /\ handlers \in HandlerLists
    /\ pc = "dfs"
    /\ frames = << [block |-> Entry, rest |-> NormalEdges(Entry)] >>
    /\ visited = {Entry}
    /\ rpo = <<>>
    /\ idom = [b \in Blocks |-> Undefined]
    /\ todo = <<>>
    /\ changed = FALSE
    /\ frontier = [b \in Blocks |-> {}]
    /\ loopHeader = {}

Top == Last(frames)

\* dfs_rpo looks at its next edge and enters the block it has not seen.
DfsEdge ==
    /\ pc = "dfs"
    /\ Top.rest # <<>>
    /\ LET target == Head(Top.rest)
           advanced == Append(Front(frames), [Top EXCEPT !.rest = Tail(@)])
       IN  IF target \in visited
           THEN /\ frames' = advanced
                /\ UNCHANGED visited
           ELSE /\ frames' = Append(advanced, [block |-> target, rest |-> NormalEdges(target)])
                /\ visited' = visited \cup {target}
    /\ UNCHANGED <<method, pc, rpo, idom, todo, changed, frontier, loopHeader>>

\* dfs_rpo returns; the return of the first one starts the fixed point.
DfsReturn ==
    /\ pc = "dfs"
    /\ Top.rest = <<>>
    /\ frames' = Front(frames)
    /\ rpo' = <<Top.block>> \o rpo
    /\ IF Len(frames) > 1
       THEN UNCHANGED <<pc, idom, todo, changed>>
       ELSE /\ pc' = "idom"
            /\ idom' = [idom EXCEPT ![Entry] = Entry]
            /\ todo' = Tail(rpo')
            /\ changed' = FALSE
    /\ UNCHANGED <<method, visited, frontier, loopHeader>>

\* The dominator that the predecessors of b agree on that have one: agreed[n] is
\* that of the ones below n, in the order of the edges into b.
Agreed(b) ==
    LET preds == ReachablePreds(b) \cap Known
        agreed[n \in 0 .. NumBlocks] ==
          IF n = 0 THEN Undefined
          ELSE IF n - 1 \notin preds THEN agreed[n - 1]
          ELSE IF agreed[n - 1] = Undefined THEN n - 1
          ELSE Intersect(n - 1, agreed[n - 1])
    IN  agreed[NumBlocks]

NewIdom(b) == IF Agreed(b) = Undefined THEN idom[b] ELSE Agreed(b)

IdomStep ==
    /\ pc = "idom"
    /\ todo # <<>>
    /\ LET b == Head(todo) IN
         /\ idom' = [idom EXCEPT ![b] = NewIdom(b)]
         /\ changed' = (changed \/ NewIdom(b) # idom[b])
    /\ todo' = Tail(todo)
    /\ UNCHANGED <<method, search, pc, frontier, loopHeader>>

\* Mutant of IdomPassEnds: the flag is never reset.
IdomPassEndsChanged ==
    /\ pc = "idom"
    /\ todo = <<>>
    /\ IF changed
       THEN /\ todo' = Tail(rpo)
            /\ UNCHANGED pc
       ELSE /\ todo' = rpo
            /\ pc' = "frontier"
    /\ UNCHANGED <<method, search, idom, changed, frontier, loopHeader>>

\* A pass that changed nothing is the last one.
IdomPassEnds ==
    /\ pc = "idom"
    /\ todo = <<>>
    /\ changed' = FALSE
    /\ IF changed
       THEN /\ todo' = Tail(rpo)
            /\ UNCHANGED pc
       ELSE /\ todo' = rpo
            /\ pc' = "frontier"
    /\ UNCHANGED <<method, search, idom, frontier, loopHeader>>

\* At least two edges meet in b.
IsJoin(b) == \E e, f \in EdgesInto(b) : e # f

\* Mutant of FrontierOf: the predecessors themselves, without their dominators.
FrontierOfPreds(b) == IF IsJoin(b) THEN ReachablePreds(b) \ {idom[b]} ELSE {}

\* The blocks that get the join b in their frontier.
FrontierOf(b) ==
    IF IsJoin(b) THEN UNION {Runners(p, b) : p \in ReachablePreds(b)} ELSE {}

FrontierStep ==
    /\ pc = "frontier"
    /\ todo # <<>>
    /\ LET b == Head(todo) IN
         frontier' = [r \in Blocks |->
                        frontier[r] \cup IF r \in FrontierOf(b) THEN {b} ELSE {}]
    /\ todo' = Tail(todo)
    /\ UNCHANGED <<method, search, pc, idom, changed, loopHeader>>

MarkLoopHeaders ==
    /\ pc = "frontier"
    /\ todo = <<>>
    /\ loopHeader' = BackEdgeTargets
    /\ pc' = "computed"
    /\ UNCHANGED <<method, search, idom, todo, changed, frontier>>

DomNext ==
    \/ DfsEdge
    \/ DfsReturn
    \/ IdomStep
    \/ IdomPassEnds
    \/ FrontierStep
    \/ MarkLoopHeaders
-----------------------------------------------------------------------------
(* What a dominator tree is, by the paths of the graph.                    *)

\* The sets of blocks that hold the entry and that no edge leaves, but for D.
ClosedWithout(D) ==
    {S \in SUBSET (Blocks \ D) :
        Entry \in S /\ \A s \in S : ToSet(NormalEdges(s)) \ D \subseteq S}

\* What the entry reaches by paths that avoid D: the least of them.
ReachedWithout(D) == {b \in Blocks \ D : \A S \in ClosedWithout(D) : b \in S}

Reachable == ReachedWithout({})

\* Every path from the entry to b goes through d.
Dominates(d, b) == d \in {b, Entry} \/ b \notin ReachedWithout({d})

StrictlyDominates(d, b) == d # b /\ Dominates(d, b)

\* "DF(b) = { y | there is a predecessor p of y s.t. b dominates p but b does not
\* strictly dominate y }".
InFrontier(b, y) ==
    /\ \E p \in Reachable : Contains(NormalEdges(p), y) /\ Dominates(b, p)
    /\ ~ StrictlyDominates(b, y)

\* The order lists the reachable blocks once each, an idom is a block once it
\* is known, and there are no more activations than blocks.
DomTypeOK ==
    /\ pc \in {"dfs", "idom", "frontier", "computed", "place", "rename", "done"}
    /\ Len(frames) <= NumBlocks
    /\ \A i \in DOMAIN frames : frames[i].block \in visited
    /\ IsInjective(rpo) /\ ToSet(rpo) \subseteq visited
    /\ pc = "computed" => ToSet(rpo) = Reachable /\ Head(rpo) = Entry
    /\ idom \in [Blocks -> Blocks \cup {Undefined}]
    /\ ToSet(todo) \subseteq ToSet(rpo)
    /\ changed \in BOOLEAN
    /\ frontier \in [Blocks -> SUBSET Blocks]
    /\ loopHeader \subseteq Blocks

\* The fixed point is the dominator tree: the idom of a reachable block is a
\* strict dominator of it that every other one dominates; whatever the edge
\* order, with loops that have several entries too.
DominatorsCorrect ==
    pc = "computed" =>
        \A b \in Reachable \ {Entry} :
            /\ idom[b] # Undefined
            /\ StrictlyDominates(idom[b], b)
            /\ \A d \in Blocks : StrictlyDominates(d, b) => Dominates(d, idom[b])

\* The dominance frontier is the one the comment in the code defines, for every
\* join but the entry block.  The entry is left out because the code treats it
\* otherwise: with one edge back to it, it has fewer than two predecessors and
\* the walk skips it; with two, it enters the frontiers of the blocks below it
\* and never its own, for the walk ends at its idom, itself (see README).
FrontierCorrect ==
    pc = "computed" =>
        \A b \in Reachable : \A y \in Reachable \ {Entry} :
            y \in frontier[b] <=> InFrontier(b, y)

\* Every loop has a header: of any blocks that are not marked loop_header some
\* goes to none of them, so no cycle is left, with loops of several entries and
\* blocks that jump to themselves included.
LoopHeadersCutCycles ==
    pc = "computed" =>
        \A S \in SUBSET (Reachable \ loopHeader) :
            S # {} => \E s \in S : ToSet(NormalEdges(s)) \cap S = {}
=============================================================================

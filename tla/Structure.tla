----------------------------- MODULE Structure ------------------------------
(***************************************************************************)
(* From a method's bytecode to the shape of its Java: CfgBuilder           *)
(* (platypus-dex/src/code_block.rs) cuts the instructions into blocks,     *)
(* Dominators gives their order and dominators, structure_region           *)
(* (platypus-codegen/src/java/decompiler.rs) recovers ifs and loops, and   *)
(* gen_node (java_generator.rs) prints them.                               *)
(*                                                                         *)
(* An instruction is what it does to the control flow, and its address is  *)
(* its index.  The tree that is recovered is a list of statements, nested  *)
(* in ifs and loops: prepend_ast concatenates and drops what is empty.     *)
(***************************************************************************)
EXTENDS Dominators

CONSTANT Programs    \* methods: sequences of [op, targets], targets addresses

VARIABLES
    code,    \* the instructions
    starts,  \* the addresses where its blocks start, in order (addr_lookup)
    ast      \* what was recovered

structVars == <<domVars, code, starts, ast>>

Nothing == << >>    \* an empty sequence of the AST, and ast before it is there
-----------------------------------------------------------------------------
(* Blocks.                                                                 *)

EndsBlock == {"goto", "if", "switch", "return"}

\* The first instruction, every target, and whatever follows a jump, a return
\* or a throw.
Leaders ==
    {1} \cup UNION {ToSet(code[i].targets) : i \in DOMAIN code}
        \cup {i + 1 : i \in {j \in DOMAIN code : code[j].op \in EndsBlock}}

Starts == SelectSeq([i \in DOMAIN code |-> i], LAMBDA i : i \in Leaders)

FirstOf(b) == starts[b + 1]
LastOf(b) == IF b + 1 = Len(starts) THEN Len(code) ELSE starts[b + 2] - 1

\* addr_lookup: the block that starts at an address, if one does.
BlockAt(a) == IF Contains(starts, a) THEN SelectInSeq(starts, LAMBDA s : s = a) - 1
              ELSE NoBlock

KindOf(op) == CASE op \in {"if", "switch"} -> "branch"
                [] op = "plain"            -> "generic"
                [] OTHER                   -> op

\* What ends each block.  Blocks the method does not have are out of reach.
Terms ==
    [b \in Blocks |->
        IF b < Len(starts)
        THEN LET i == code[LastOf(b)]
             IN  [kind |-> KindOf(i.op),
                  targets |-> [n \in DOMAIN i.targets |-> BlockAt(i.targets[n])]]
        ELSE [kind |-> "return", targets |-> <<>>]]

IsIf(b) == code[LastOf(b)].op = "if"
-----------------------------------------------------------------------------
(* What structure_region asks the graph.  Option::None is NoBlock.         *)

\* Successors without repetition, in edge order.
NextBlocks(b) ==
    FoldLeft(LAMBDA acc, t : IF Contains(acc, t) THEN acc ELSE Append(acc, t),
             <<>>, NormalEdges(b))

Place(b) == IF Pos(b) = 0 THEN NumBlocks + 1 ELSE Pos(b)

\* min_by_key over the reverse post-order.
Earliest(S) ==
    IF S = {} THEN NoBlock ELSE CHOOSE b \in S : \A c \in S : Place(b) <= Place(c)

\* d is on the way from b up the dominator tree.
Above(d, b) ==
    LET climb[x \in Blocks] ==
          x = d \/ (idom[x] \notin {x, Undefined} /\ climb[idom[x]])
    IN  climb[b]

\* find_loop_headers: the targets of back edges that dominate their sources.
LoopHeaders ==
    {h \in Blocks : \E s \in Blocks :
        Contains(NormalEdges(s), h) /\ Place(h) <= Place(s) /\ Above(h, s)}

Onwards(h) == {t \in ToSet(NormalEdges(h)) : Place(t) > Place(h)}

BodyEntry(h) == Earliest(Onwards(h))

LoopExit(h) ==
    LET outside == {t \in ToSet(NormalEdges(h)) : t = h \/ ~Above(h, t)}
    IN  IF outside # {} THEN Earliest(outside)
        ELSE Earliest(Onwards(h) \ {BodyEntry(h)})

JumpTarget(h) ==
    LET jumps == Kept(term[h].targets, Blocks)
    IN  IF jumps = <<>> THEN NoBlock ELSE Head(jumps)

\* bfs_reachable.
ReachableFrom(b) ==
    LET grow[S \in SUBSET Blocks] ==
          LET more == S \cup UNION {ToSet(NormalEdges(x)) : x \in S}
          IN  IF more = S THEN S ELSE grow[more]
    IN  grow[{b}]

\* Mutant of Merge: a successor cannot be the merge point itself.
MergeBeyond(succs) ==
    IF succs = <<>> THEN NoBlock
    ELSE Earliest({b \in Blocks : \A i \in DOMAIN succs :
                      b \in ReachableFrom(succs[i]) /\ Place(succs[i]) < Place(b)})

\* find_merge_point: the first block that every successor reaches and that
\* comes after each of them, or is one of them.
Merge(succs) ==
    IF succs = <<>> THEN NoBlock
    ELSE Earliest({b \in Blocks : \A i \in DOMAIN succs :
                      /\ b \in ReachableFrom(succs[i])
                      /\ b = succs[i] \/ Place(succs[i]) < Place(b)})
-----------------------------------------------------------------------------
(* structure_region.                                                       *)

Plain(b) == [kind |-> "block", block |-> b]

\* collapse_empty_branch: an empty else is dropped, an empty then makes way for
\* the else and the condition is inverted.
Conditional(b, yes, no) ==
    IF yes = Nothing /\ no # Nothing
    THEN [kind |-> "if", block |-> b, taken |-> FALSE, yes |-> no, no |-> Nothing]
    ELSE [kind |-> "if", block |-> b, taken |-> TRUE, yes |-> yes, no |-> no]

\* A header that ends in a branch makes a while, whose condition is inverted
\* when the taken edge leaves the loop; any other one a while (true).
Loop(h, body) ==
    IF ~IsIf(h) THEN [kind |-> "forever", block |-> h, body |-> body]
    ELSE [kind |-> "while", block |-> h, body |-> body,
          taken |-> LoopExit(h) = NoBlock \/ JumpTarget(h) # LoopExit(h)]

\* The tree of the region from entry up to exit, and the blocks visited since.
RECURSIVE Region(_, _, _)
Region(entry, exit, seen) ==
    LET now == seen \cup {entry}
        Only(list, past) == [list |-> list, seen |-> past]
        Then(list, b, past) ==
            LET rest == Region(b, exit, past)
            IN  IF b = NoBlock THEN Only(list, past)
                ELSE Only(list \o rest.list, rest.seen)
        next == NextBlocks(entry)
    IN  IF entry \in seen \cup {exit} THEN Only(Nothing, seen)
        ELSE IF entry \in LoopHeaders
        THEN LET out == LoopExit(entry)
                 body == IF BodyEntry(entry) = NoBlock THEN Only(Nothing, now)
                         ELSE Region(BodyEntry(entry), out, now)
             IN  Then(<<Loop(entry, body.list)>>, out, body.seen)
        ELSE IF IsIf(entry) /\ next # <<>>
        THEN LET merge == Merge(next)
                 yes == Region(next[1], merge, now)
                 no == IF Len(next) = 1 THEN Only(Nothing, yes.seen)
                       ELSE Region(next[2], merge, yes.seen)
             IN  Then(<<Conditional(entry, yes.list, no.list)>>, merge, no.seen)
        ELSE IF Len(next) = 1 /\ next[1] \notin now \cup {exit}
        THEN Then(<<Plain(entry)>>, next[1], now)
        ELSE Only(<<Plain(entry)>>, now)

\* CfgBuilder made the graph of the method; nothing of it is analysed yet.
Built ==
    /\ starts = Starts
    /\ term = Terms
    /\ DomInit
    /\ ast = Nothing

StructInit == code \in Programs /\ Built

Structure ==
    /\ pc = "computed"
    /\ ast' = Region(Entry, NoBlock, {}).list
    /\ pc' = "structured"
    /\ UNCHANGED <<method, search, idom, todo, changed, frontier, loopHeader, code, starts>>

StructNext ==
    \/ DomNext /\ UNCHANGED <<code, starts, ast>>
    \/ Structure

StructSpec == StructInit /\ [][StructNext]_structVars
-----------------------------------------------------------------------------
(* The control flow of the Java that gen_node prints, and of the bytecode, *)
(* as steps from one instruction to the next; a jump is no statement.      *)

End == 0

\* The instructions of a block that are printed, in order.
Statements(b) ==
    SelectSeq([n \in 1 .. LastOf(b) - FirstOf(b) + 1 |-> FirstOf(b) + n - 1],
              LAMBDA i : code[i].op # "goto")

\* The first statement of a list that is followed by the statement k.
RECURSIVE FirstStatement(_, _)
FirstStatement(list, k) ==
    IF list = Nothing THEN k
    ELSE IF Statements(Head(list).block) # <<>> THEN Head(Statements(Head(list).block))
    ELSE IF Head(list).kind = "forever" THEN FirstStatement(Head(list).body, k)
    ELSE FirstStatement(Tail(list), k)

\* A block is printed straight through; its last statement goes on at k.
BlockSteps(b, k) ==
    LET s == Statements(b)
    IN  {<<s[n], "on",
           IF code[s[n]].op = "return" THEN End ELSE IF n < Len(s) THEN s[n + 1] ELSE k>> :
            n \in {m \in DOMAIN s : code[s[m]].op # "if"}}

RECURSIVE JavaSteps(_, _)
JavaSteps(list, k) ==
    IF list = Nothing THEN {}
    ELSE LET node == Head(list)
             after == FirstStatement(Tail(list), k)
             test == LastOf(node.block)
             \* A loop prints the statements of its header once, ahead of it.
             back == CASE node.kind = "while" -> test
                       [] node.kind = "forever" -> FirstStatement(node.body, End)
                       [] OTHER -> after
         IN  JavaSteps(Tail(list), k) \cup
             CASE node.kind = "block" -> BlockSteps(node.block, after)
               [] node.kind = "forever" ->
                    BlockSteps(node.block, back) \cup JavaSteps(node.body, back)
               [] node.kind = "while" ->
                    BlockSteps(node.block, test) \cup JavaSteps(node.body, back)
                      \cup {<<test, node.taken, FirstStatement(node.body, back)>>,
                            <<test, ~node.taken, after>>}
               [] node.kind = "if" ->
                    BlockSteps(node.block, test)
                      \cup JavaSteps(node.yes, after) \cup JavaSteps(node.no, after)
                      \cup {<<test, node.taken, FirstStatement(node.yes, after)>>,
                            <<test, ~node.taken, FirstStatement(node.no, after)>>}

\* Instructions of these kinds that can be reached.
Running(ops) ==
    {i \in UNION {FirstOf(b) .. LastOf(b) : b \in ToSet(rpo)} : code[i].op \in ops}

\* Where control is at address a, once the jumps are followed.
Landing(a) ==
    LET land[i \in DOMAIN code] ==
          IF code[i].op = "goto" THEN land[code[i].targets[1]] ELSE i
    IN  land[a]

CodeSteps ==
    {<<i, "on", Landing(i + 1)>> : i \in Running({"plain"})}
    \cup {<<i, "on", End>> : i \in Running({"return"})}
    \cup {<<i, TRUE, Landing(code[i].targets[1])>> : i \in Running({"if"})}
    \cup {<<i, FALSE, Landing(i + 1)>> : i \in Running({"if"})}

\* The Java does what the bytecode does: whichever way the conditions turn
\* out, the same statements run in the same order, none is lost and none runs
\* twice, ifs out of line, nested loops and guards that return included.
JavaKeepsFlow ==
    pc = "structured" =>
        /\ FirstStatement(ast, End) = Landing(1)
        /\ JavaSteps(ast, End) = CodeSteps
=============================================================================

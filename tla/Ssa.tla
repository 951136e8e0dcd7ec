-------------------------------- MODULE Ssa ---------------------------------
(***************************************************************************)
(* SSA construction over the dominator tree of Dominators, as              *)
(* SsaBuilder::build (platypus-codegen/src/java/ssa_builder.rs) does it:   *)
(* phi nodes at the iterated dominance frontier of the definitions of each *)
(* register, then one depth-first walk of the dominator tree that mints a  *)
(* version per definition and fills the sources of the phi nodes of the    *)
(* successors.  The instructions of a block are abstracted to the          *)
(* registers they define, in order.                                        *)
(***************************************************************************)
EXTENDS Dominators, FiniteSets

CONSTANTS Regs,       \* registers
          Params,     \* the parameter registers, in order
          Definitions \* what the blocks may define: a sequence of registers each

ASSUME SsaAssumption ==
    /\ Params \in Seq(Regs)
    /\ Definitions \subseteq [Blocks -> Seq(Regs)]

NoVersion == -1    \* no entry in `versions`

VARIABLES
    defs,         \* the registers each block defines
    unplaced,     \* registers whose phi nodes are still to be placed
    current,      \* the register being placed
    worklist,     \* blocks that define it and are not processed yet
    phis,         \* the phi nodes of each block: [reg, dst, sources]
    nextVersion,  \* version counter, shared by all registers
    stacks,       \* the live versions of each register, innermost last
    versions,     \* the version live at the exit of a block
    calls         \* activations of rename_block: [block, rest of children, minted]

placeVars == <<unplaced, current, worklist>>
renameVars == <<nextVersion, stacks, versions, calls>>
ssaVars == <<defs, placeVars, phis, renameVars>>
vars == <<domVars, ssaVars>>
-----------------------------------------------------------------------------
SsaInit ==
    /\ defs = [b \in Blocks |-> <<>>]
    /\ unplaced = {}
    /\ current = CHOOSE r \in Regs : TRUE
    /\ worklist = <<>>
    /\ phis = [b \in Blocks |-> <<>>]
    /\ nextVersion = 0
    /\ stacks = [r \in Regs |-> <<>>]
    /\ versions = [b \in Blocks |-> [r \in Regs |-> NoVersion]]
    /\ calls = <<>>

Init == DomInit /\ SsaInit

\* The dominator pass runs to its end before the builder is called.
Dominate == DomNext /\ UNCHANGED ssaVars

Goto(label) ==
    /\ pc' = label
    /\ UNCHANGED <<method, search, idom, todo, changed, frontier, loopHeader>>

\* collect_defs: the definitions of the method's instructions.
CollectDefs ==
    /\ pc = "computed"
    /\ defs' \in Definitions
    /\ unplaced' = UNION {ToSet(defs'[b]) : b \in Blocks}
    /\ Goto("place")
    /\ UNCHANGED <<current, worklist, phis, renameVars>>

PlaceRegister ==
    /\ pc = "place"
    /\ worklist = <<>>
    /\ \E r \in unplaced :
         /\ current' = r
         /\ unplaced' = unplaced \ {r}
         /\ worklist' = Kept([i \in 1 .. NumBlocks |-> i - 1],
                             {b \in Blocks : Contains(defs[b], r)})
    /\ UNCHANGED <<domVars, defs, phis, renameVars>>

HasPhi(b, r) == \E i \in DOMAIN phis[b] : phis[b][i].reg = r

\* The blocks that get a phi for the current register because of block b.
NewPhis(b) == Kept(rpo, {y \in frontier[b] : ~ HasPhi(y, current)})

NewDefinitionsNone(placed) == <<>>        \* mutant of NewDefinitions

\* A phi in a block that does not define the register is a definition of it.
NewDefinitions(placed) == Kept(placed, {y \in Blocks : ~ Contains(defs[y], current)})

\* One block of the worklist: phis in its frontier, which may join the worklist.
PlacePhis ==
    /\ pc = "place"
    /\ worklist # <<>>
    /\ LET new == NewPhis(Head(worklist)) IN
         /\ phis' = [y \in Blocks |->
               IF Contains(new, y)
               THEN Append(phis[y], [reg |-> current, dst |-> 0, sources |-> <<>>])
               ELSE phis[y]]
         /\ worklist' = Tail(worklist) \o NewDefinitions(new)
    /\ UNCHANGED <<domVars, defs, unplaced, current, renameVars>>
-----------------------------------------------------------------------------

\* The versions minted for r when `regs` get the versions from `first` on.
MintedFor(r, regs, first) ==
    LET at == Kept([i \in DOMAIN regs |-> i], {i \in DOMAIN regs : regs[i] = r})
    IN  [k \in DOMAIN at |-> first + at[k] - 1]

\* A phi source of a register without a live version is version 0.
LiveOr0(stack) == IF stack = <<>> THEN 0 ELSE Last(stack)

\* The phi nodes of the block get their versions, then its definitions.
Minted(b) == [i \in DOMAIN phis[b] |-> phis[b][i].reg] \o defs[b]

\* Mutant of Filled: the versions live before the block's definitions.
FilledAtEntry(s, b, phi, stacked) ==
    LET edges == Kept(SuccessorEdges(b), {s})
    IN  [phi EXCEPT !.sources = @ \o
           [k \in DOMAIN edges |-> [pred |-> b, version |-> LiveOr0(stacks[phi.reg])]]]

\* Every edge out of b, exceptional or not, adds its source to each phi of its target.
Filled(s, b, phi, stacked) ==
    LET edges == Kept(SuccessorEdges(b), {s})
    IN  [phi EXCEPT !.sources = @ \o
           [k \in DOMAIN edges |-> [pred |-> b, version |-> LiveOr0(stacked[phi.reg])]]]

\* rename_block up to its recursive calls.
EnterBlock(b) ==
    LET minted == Minted(b)
        stacked == [r \in Regs |-> stacks[r] \o MintedFor(r, minted, nextVersion)]
        numbered == [i \in DOMAIN phis[b] |-> [phis[b][i] EXCEPT !.dst = nextVersion + i - 1]]
        named == [phis EXCEPT ![b] = numbered]
    IN  /\ nextVersion' = nextVersion + Len(minted)
        /\ stacks' = stacked
        /\ versions' = [versions EXCEPT ![b] =
               [r \in Regs |-> IF stacked[r] = <<>> THEN versions[b][r] ELSE Last(stacked[r])]]
        /\ phis' = [s \in Blocks |->
               [i \in DOMAIN named[s] |-> Filled(s, b, named[s][i], stacked)]]

Activation(b) == [block |-> b, rest |-> DomChildren(b), minted |-> Minted(b)]

\* The parameters are seeded with the first versions.
SeedParams ==
    /\ pc = "place"
    /\ worklist = <<>> /\ unplaced = {}
    /\ stacks' = [r \in Regs |-> MintedFor(r, Params, 0)]
    /\ nextVersion' = Len(Params)
    /\ Goto("rename")
    /\ UNCHANGED <<defs, placeVars, phis, versions, calls>>

RenameEntry ==
    /\ pc = "rename"
    /\ calls = <<>>
    /\ EnterBlock(Entry)
    /\ calls' = <<Activation(Entry)>>
    /\ UNCHANGED <<domVars, defs, placeVars>>

RenameChild ==
    /\ calls # <<>>
    /\ Last(calls).rest # <<>>
    /\ LET child == Head(Last(calls).rest)
       IN  /\ EnterBlock(child)
           /\ calls' = Append([calls EXCEPT ![Len(calls)].rest = Tail(@)], Activation(child))
    /\ UNCHANGED <<domVars, defs, placeVars>>

\* The versions the returning activation pushed are popped.
Popped(r, minted) ==
    SubSeq(stacks[r], 1, Len(stacks[r]) - Len(MintedFor(r, minted, 0)))

RenameReturn ==
    /\ calls # <<>>
    /\ Last(calls).rest = <<>>
    /\ stacks' = [r \in Regs |-> Popped(r, Last(calls).minted)]
    /\ calls' = Front(calls)
    /\ IF Len(calls) = 1 THEN Goto("done") ELSE UNCHANGED domVars
    /\ UNCHANGED <<defs, placeVars, phis, nextVersion, versions>>

Next ==
    \/ Dominate
    \/ CollectDefs
    \/ PlaceRegister
    \/ PlacePhis
    \/ SeedParams
    \/ RenameEntry
    \/ RenameChild
    \/ RenameReturn

\* The passes are one call on one thread: it goes on while it can.
Spec == Init /\ [][Next]_vars /\ WF_vars(Next)
-----------------------------------------------------------------------------
SsaTypeOK ==
    /\ DomTypeOK
    /\ \A b \in Blocks : ToSet(defs[b]) \subseteq Regs
    /\ unplaced \subseteq Regs /\ current \in Regs
    /\ ToSet(worklist) \subseteq Blocks
    /\ nextVersion \in Nat
    /\ \A b \in Blocks :
         /\ \A i, j \in DOMAIN phis[b] : phis[b][i].reg = phis[b][j].reg => i = j
         /\ \A r \in Regs : versions[b][r] \in -1 .. nextVersion - 1
    /\ \A r \in Regs : \A i \in DOMAIN stacks[r] : stacks[r][i] \in 0 .. nextVersion - 1
    /\ Len(calls) <= NumBlocks

ExitVersion(b, r) == IF versions[b][r] = NoVersion THEN 0 ELSE versions[b][r]

\* The phi nodes are enough: when a reachable block other than the entry has no
\* phi for a register, all its reachable predecessors by non-exceptional edges
\* end with the version that its immediate dominator ends with, which is the one
\* that is on top of the register's stack where the block is entered.
VersionsMeet ==
    pc = "done" =>
        \A b \in Reachable \ {Entry} : \A r \in Regs :
            HasPhi(b, r) \/
            \A p \in Reachable :
                Contains(NormalEdges(p), b) => versions[p][r] = versions[idom[b]][r]

\* A phi has one source for each edge into its block from a reachable block, and
\* it is the version live at that predecessor's exit, whatever the order in which
\* the walk visits them, for back edges and for a block that jumps to itself.
PhiSourcesComplete ==
    pc = "done" =>
        \A b \in Reachable : \A i \in DOMAIN phis[b] :
            LET phi == phis[b][i]
                From(p) == {k \in DOMAIN phi.sources : phi.sources[k].pred = p}
                edges(p) == Kept(SuccessorEdges(p), {b})
            IN  \A p \in Blocks :
                  /\ Cardinality(From(p)) = IF p \in Reachable THEN Len(edges(p)) ELSE 0
                  /\ \A k \in From(p) : phi.sources[k].version = ExitVersion(p, phi.reg)

\* The fixed point, the worklists and the walk of the tree all end.
Terminates == <>(pc = "done")
=============================================================================

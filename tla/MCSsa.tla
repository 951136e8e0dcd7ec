-------------------------------- MODULE MCSsa -------------------------------
(***************************************************************************)
(* Instances of Ssa for TLC: every method of NumBlocks blocks in which a   *)
(* block returns, jumps, falls through or branches to any block.           *)
(***************************************************************************)
EXTENDS Ssa

CONSTANTS v, p    \* a local register and a parameter

Jumps(kind) == {[kind |-> kind, targets |-> <<t>>] : t \in Blocks}
MCTerminators ==
    {[kind |-> "return", targets |-> <<>>]} \cup Jumps("goto") \cup Jumps("branch")
MCTryRanges == {{1, 2}}
MCHandlerLists == {<<NumBlocks - 1>>}
MCParams == <<p>>

\* One block defines the local once and the parameter twice; the parameter has
\* a version at the entry too, the local has none.
MCDefinitions ==
    {[b \in Blocks |-> IF b = x THEN <<p, v, p>> ELSE <<>>] : x \in Blocks}
=============================================================================

------------------------------ MODULE MCDeobf -------------------------------
(***************************************************************************)
(* A pure method with more sites than a batch takes, two of them with one  *)
(* input, and a method that remembers, with an input of the first one's.   *)
(***************************************************************************)
EXTENDS Deobf

CONSTANTS pure, remembering

MCSitesOf ==
    [m \in {pure, remembering} |->
        IF m = pure
        THEN <<[row |-> 1, args |-> <<"x", "p">>], [row |-> 2, args |-> <<"x", "q">>],
               [row |-> 3, args |-> <<"x", "p">>], [row |-> 3, args |-> <<"y", "p">>]>>
        ELSE <<[row |-> 1, args |-> <<"x", "p">>]>>]
=============================================================================

------------------------------ MODULE Timeline ------------------------------
(***************************************************************************)
(* What the debugger's time-travel history promises, with no ring buffer,  *)
(* no counters and no stepping modes: a line of snapshots and a play-head  *)
(* on it.  Recording overwrites the future of the play-head, may forget    *)
(* the far past, and always keeps the newest snapshot; nothing else        *)
(* changes, drops or reorders a snapshot.  Snapshot ids tell any two       *)
(* snapshots of the line apart, overwritten ones included.                 *)
(***************************************************************************)
EXTENDS Naturals, Sequences

CONSTANT Snapshot       \* records with a field step_index \in Nat

VARIABLES
    trace,              \* the recorded snapshots, oldest first
    head                \* how many of them lie before the play-head

Past == SubSeq(trace, 1, head)

Newer(s) == \A i \in 1..Len(trace) : trace[i].step_index < s.step_index

Init == trace = << >> /\ head = 0

\* Record s at the play-head, forgetting the k oldest snapshots but never s.
Record(s, k) ==
    /\ s \in Snapshot
    /\ Newer(s)
    /\ trace' = SubSeq(Append(Past, s), k + 1, head + 1)
    /\ head' = Len(trace')

Rewind == head > 0 /\ head' = head - 1 /\ UNCHANGED trace

RewindAll == head' = 0 /\ UNCHANGED trace

Clear == trace' = << >> /\ head' = 0

Next ==
    \/ trace' # << >> /\ \E k \in 0..head : Record(trace'[Len(trace')], k)
    \/ Rewind
    \/ RewindAll
    \/ Clear

Spec == Init /\ [][Next]_<<trace, head>>
=============================================================================

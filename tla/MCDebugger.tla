----------------------------- MODULE MCDebugger -----------------------------
(***************************************************************************)
(* Instances of Debugger for TLC.                                          *)
(***************************************************************************)
EXTENDS Debugger

\* The caps the host may ask for: with a Batch of 3, one whole collection batch,
\* and one below it, with which a collection drops everything or too much.
MCCapRequests == {1, 3}
=============================================================================

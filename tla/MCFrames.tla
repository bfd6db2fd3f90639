------------------------------ MODULE MCFrames ------------------------------
(* The main task and its workers. *)
EXTENDS Frames

CONSTANTS m, a, b

\* The runs in which no task unwinds.
NobodyUnwinds == \A t \in Tasks : ErrorFree(t)
=============================================================================

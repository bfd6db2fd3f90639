------------------------------- MODULE MCHeap -------------------------------
(* A small heap shared by a few tasks. *)
EXTENDS Heap, TLC

CONSTANTS a, b, c    \* the tasks

\* Programs that defer no call.
KindsWithoutDefer == AllKinds \ {"defer", "return"}

\* The tasks are alike.
Alike == Permutations(Tasks)
=============================================================================

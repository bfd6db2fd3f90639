---------------------------- MODULE MCScheduler ----------------------------
(* Small programs for the scheduler: which task does what. *)
EXTENDS Scheduler, TLC

CONSTANTS m, a, b

\* The main task receives from the handle of a.
MainAwaitsA == [t \in Tasks |-> IF t = m THEN a ELSE NoTask]

\* Nobody waits for a handle.
NobodyAwaits == [t \in Tasks |-> NoTask]

\* Nothing tells a and b apart when they may do the same things.
Alike == Permutations({a, b})
=============================================================================

------------------------------ MODULE TaskPool ------------------------------
(***************************************************************************)
(* What the scheduler promises a Whalli program, without queues, threads   *)
(* or counters: a woroutine is queued, running on one of at most Slots     *)
(* threads, suspended (sleeping or waiting for a socket), or over; a run   *)
(* returns Ok only when everything that was spawned is over.  Module       *)
(* Scheduler implements it.                                                *)
(***************************************************************************)
EXTENDS Integers, FiniteSets

CONSTANTS Tasks, Main, Slots

VARIABLES
  phase,    \* phase[t]: unborn, queued, running, suspended, done or lost
  outcome   \* running, then ok or error

pool == <<phase, outcome>>

In(p) == {t \in Tasks : phase[t] = p}

PoolInit ==
  /\ phase = [t \in Tasks |-> IF t = Main THEN "queued" ELSE "unborn"]
  /\ outcome = "running"

\* The tasks of S leave phase p for phase q.
Move(S, p, q) ==
  /\ S \subseteq In(p)
  /\ phase' = [t \in Tasks |-> IF t \in S THEN q ELSE phase[t]]
  /\ UNCHANGED outcome

\* A running task spawns another one.
Spawn == /\ In("running") # {}
         /\ \E t \in Tasks, q \in {"queued", "suspended"} :
              Move({t}, "unborn", q)

\* A thread takes a queued task.
Start == /\ Cardinality(In("running")) < Slots
         /\ \E t \in Tasks : Move({t}, "queued", "running")

\* The slice of a task ends: out of fuel, suspended, over, or killed.
Stop == \E t \in Tasks, q \in {"queued", "suspended", "done", "lost"} :
          Move({t}, "running", q)

\* Sleeps or socket waits of some tasks end together.
Wake == \E S \in SUBSET Tasks : Move(S, "suspended", "queued")

\* The run ends: Ok when nothing is left, an error at any time before.
Return == /\ outcome = "running"
          /\ \/ /\ In("queued") \cup In("running") \cup In("suspended") = {}
                /\ outcome' = "ok"
             \/ outcome' = "error"
          /\ UNCHANGED phase

PoolNext == Spawn \/ Start \/ Stop \/ Wake \/ Return

PoolSpec == PoolInit /\ [][PoolNext]_pool
=============================================================================

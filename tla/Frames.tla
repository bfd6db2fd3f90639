------------------------------- MODULE Frames -------------------------------
(***************************************************************************)
(* The call stacks of Whalli tasks (src/src/vm.rs): calls, tail calls,     *)
(* deferred calls, the operator `?` and failure, with the primitives of    *)
(* module sync that programs pair with defer: Mutex (lock(); defer         *)
(* unlock()) and WaitGroup (defer done()).                                 *)
(*                                                                         *)
(* A function body is any sequence of the instructions below.  The         *)
(* programs are well behaved: a lock is at once followed by the defer, or  *)
(* by the explicit unlock, that releases it; a task does not block while   *)
(* it holds the lock; a worker starts with defer wg.done(), after the main *)
(* task's wg.add(1).  A blocked lock or wait is a disabled action: that    *)
(* the task parks and polls is in Channels.                                *)
(*                                                                         *)
(* A function ends in Return, which executes the deferred calls of its     *)
(* frame.  A script does not: unless it has a return of its own, its frame *)
(* is popped at the end of its instructions, deferred calls and all.       *)
(***************************************************************************)
EXTENDS Integers, Sequences, FiniteSets, SequencesExt

CONSTANTS
  Tasks, Main,   \* the tasks and the one of the script
  Nobody,        \* the owner of a free mutex
  Deferrable,    \* which of "call" (a Whalli function) and "native" the
                 \* programs defer besides unlock and done
  MaxDepth,      \* bound: frames of a task
  MaxSteps       \* bound: calls, defers and locks of a task

ASSUME TasksAssumption == IsFiniteSet(Tasks) /\ Main \in Tasks /\ Nobody \notin Tasks
ASSUME DeferrableAssumption == Deferrable \subseteq {"call", "native"}
ASSUME BoundsAssumption == MaxDepth \in Nat \ {0} /\ MaxSteps \in Nat

VARIABLES
  frames,   \* frames[t]: stack of [script, returning, defers]; the top is the last
  pending,  \* pending[t]: deferred calls of a frame popped by ? or fail!, or
            \* (history) of the script's, which nobody executes any more
  mode,     \* mode[t]: unborn, run, propagate, fail, completed, failed
  need,     \* need[t]: what the program does next without fail
  want,     \* want[t]: the blocking instruction t executes, or none
  steps,    \* steps[t]: instructions left
  owner,    \* who locked the mutex (history); Nobody if it is not locked
  count,    \* count of the WaitGroup
  fatal,    \* the main task failed
  made,     \* history: made[t][i] is the kind of the i-th deferred call of t
  ran       \* history: the deferred calls of t that were executed, by number

stack == <<frames, pending, mode, need, want, steps>>
vars == <<stack, owner, count, fatal, made, ran>>

Frame == [script |-> FALSE, returning |-> FALSE, defers |-> <<>>]
ScriptFrame == [Frame EXCEPT !.script = TRUE]
Top(t) == Last(frames[t])

Init ==
  /\ frames = [t \in Tasks |-> IF t = Main THEN <<ScriptFrame>> ELSE <<>>]
  /\ pending = [t \in Tasks |-> <<>>]
  /\ mode = [t \in Tasks |-> IF t = Main THEN "run" ELSE "unborn"]
  /\ need = [t \in Tasks |-> "none"]
  /\ want = [t \in Tasks |-> "none"]
  /\ steps = [t \in Tasks |-> MaxSteps]
  /\ owner = Nobody
  /\ count = 0
  /\ fatal = FALSE
  /\ made = [t \in Tasks |-> <<>>]
  /\ ran = [t \in Tasks |-> <<>>]

\* t is in the body of its top frame, where anything may come next.
Free(t) == /\ mode[t] = "run" /\ ~Top(t).returning
           /\ need[t] = "none" /\ want[t] = "none"

Step(t) == steps[t] > 0 /\ steps' = [steps EXCEPT ![t] = @ - 1]

SetFrames(t, s) == frames' = [frames EXCEPT ![t] = s]

Push(t) == /\ Len(frames[t]) < MaxDepth
           /\ SetFrames(t, Append(frames[t], Frame))

-----------------------------------------------------------------------------
(***************************************************************************)
(* Calls.                                                                  *)
(***************************************************************************)
Call(t) == /\ Free(t) /\ Step(t) /\ Push(t)
           /\ UNCHANGED <<pending, mode, need, want, owner, count, fatal, made, ran>>

\* Mutant: the frame is reused whether or not it has deferred calls.
TailCallAlwaysReuses(t) ==
  /\ Free(t) /\ Step(t)
  /\ SetFrames(t, Append(Front(frames[t]), Frame))
  /\ UNCHANGED <<pending, mode, need, want, owner, count, fatal, made, ran>>

\* return f(x): the callee takes the frame over, unless deferred calls are
\* pending; then it gets a frame of its own, and the body goes on after the
\* return when that one is left.  A native or a struct changes no frame, and
\* the body goes on as well.
TailCall(t) ==
  /\ Free(t) /\ Step(t)
  /\ IF Top(t).defers = <<>> THEN SetFrames(t, Append(Front(frames[t]), Frame))
     ELSE Push(t)
  /\ UNCHANGED <<pending, mode, need, want, owner, count, fatal, made, ran>>

AddDefer(t, act) ==
  /\ SetFrames(t, Append(Front(frames[t]),
                         [Top(t) EXCEPT !.defers = Append(@, [act |-> act, id |-> Len(made[t]) + 1])]))
  /\ made' = [made EXCEPT ![t] = Append(@, act)]

Defer(t) == /\ Free(t) /\ Step(t)
            /\ \E act \in Deferrable : AddDefer(t, act)
            /\ UNCHANGED <<pending, mode, need, want, owner, count, fatal, ran>>

-----------------------------------------------------------------------------
(***************************************************************************)
(* Mutex and WaitGroup.                                                    *)
(***************************************************************************)
\* The task comes to lock() or wait().
Want(t) == /\ Free(t) /\ Step(t)
           /\ \E w \in {"lock", "wait"} :
                /\ owner # t
                /\ (w = "wait") => t = Main
                /\ want' = [want EXCEPT ![t] = w]
           /\ UNCHANGED <<frames, pending, mode, need, owner, count, fatal, made, ran>>

Acquire(t) == /\ owner = Nobody
              /\ owner' = t
              /\ need' = [need EXCEPT ![t] = "unlock"]
              /\ want' = [want EXCEPT ![t] = "none"]
              /\ UNCHANGED <<frames, pending, mode, count, fatal, made, ran>>

Lock(t) == want[t] = "lock" /\ Acquire(t) /\ UNCHANGED steps

\* try_lock() on a locked mutex answers false and changes nothing.
TryLock(t) == Free(t) /\ Step(t) /\ Acquire(t)

\* defer mu.unlock(), or mu.unlock() at once.
DeferUnlock(t) ==
  /\ need[t] = "unlock"
  /\ need' = [need EXCEPT ![t] = "none"]
  /\ \/ AddDefer(t, "unlock") /\ UNCHANGED owner
     \/ owner' = Nobody /\ UNCHANGED <<frames, made>>
  /\ UNCHANGED <<pending, mode, want, steps, count, fatal, ran>>

\* Mutant: wait() returns as soon as one worker is done.
WaitOne(t) ==
  /\ want[t] = "wait" /\ count <= 1
  /\ want' = [want EXCEPT ![t] = "none"]
  /\ UNCHANGED <<frames, pending, mode, need, steps, owner, count, fatal, made, ran>>

Wait(t) == /\ want[t] = "wait" /\ count = 0
           /\ want' = [want EXCEPT ![t] = "none"]
           /\ UNCHANGED <<frames, pending, mode, need, steps, owner, count, fatal, made, ran>>

\* wg.add(1), before the spawn of a worker.
Add == /\ Free(Main) /\ \E t \in Tasks : mode[t] = "unborn"
       /\ count' = count + 1
       /\ need' = [need EXCEPT ![Main] = "spawn"]
       /\ UNCHANGED <<frames, pending, mode, want, steps, owner, fatal, made, ran>>

Spawn(t) == /\ need[Main] = "spawn" /\ mode[t] = "unborn"
            /\ mode' = [mode EXCEPT ![t] = "run"]
            /\ SetFrames(t, <<Frame>>)
            /\ need' = [need EXCEPT ![Main] = "none", ![t] = "done"]
            /\ UNCHANGED <<pending, want, steps, owner, count, fatal, made, ran>>

\* The first instruction of a worker.
DeferDone(t) == /\ need[t] = "done"
                /\ need' = [need EXCEPT ![t] = "none"]
                /\ AddDefer(t, "done")
                /\ UNCHANGED <<pending, mode, want, steps, owner, count, fatal, ran>>

-----------------------------------------------------------------------------
(***************************************************************************)
(* Leaving a frame.                                                        *)
(***************************************************************************)
\* What a deferred call other than a Whalli function does, at once.
Perform(t, d) ==
  /\ owner' = IF d.act = "unlock" THEN Nobody ELSE owner
  /\ count' = IF d.act = "done" /\ count > 0 THEN count - 1 ELSE count
  /\ ran' = [ran EXCEPT ![t] = Append(@, d.id)]

CanReturn(t) == Free(t) \/ (mode[t] = "run" /\ Top(t).returning)

\* Mutant: the deferred calls of a frame are executed in their order.
ReturnDeferredFifo(t) ==
  LET d == Top(t).defers[1]
      rest == [Top(t) EXCEPT !.returning = TRUE, !.defers = Tail(@)] IN
  /\ CanReturn(t) /\ Top(t).defers # <<>>
  /\ d.act # "call"
  /\ Perform(t, d)
  /\ SetFrames(t, Append(Front(frames[t]), rest))
  /\ UNCHANGED <<pending, mode, need, want, steps, fatal, made>>

\* Return with deferred calls left: the last one is executed, a function in
\* a new frame, and ip moves back to this Return.
ReturnDeferred(t) ==
  LET d == Last(Top(t).defers)
      rest == [Top(t) EXCEPT !.returning = TRUE, !.defers = Front(@)] IN
  /\ CanReturn(t) /\ Top(t).defers # <<>>
  /\ IF d.act = "call"
     THEN /\ SetFrames(t, Front(frames[t]) \o <<rest, Frame>>)
          /\ ran' = [ran EXCEPT ![t] = Append(@, d.id)]
          /\ UNCHANGED <<owner, count>>
     ELSE /\ SetFrames(t, Append(Front(frames[t]), rest))
          /\ Perform(t, d)
  /\ UNCHANGED <<pending, mode, need, want, steps, fatal, made>>

\* Return: the frame is left; with the last one, the task is completed.
Return(t) ==
  /\ CanReturn(t) /\ Top(t).defers = <<>>
  /\ SetFrames(t, Front(frames[t]))
  /\ mode' = [mode EXCEPT ![t] = IF Len(frames[t]) = 1 THEN "completed" ELSE "run"]
  /\ UNCHANGED <<pending, need, want, steps, owner, count, fatal, made, ran>>

\* The frame on top is popped and its deferred calls are to be unwound.
PopTo(t, how) ==
  /\ SetFrames(t, Front(frames[t]))
  /\ pending' = [pending EXCEPT ![t] = Top(t).defers]
  /\ mode' = [mode EXCEPT ![t] = how]

\* The end of the script: ip is behind its last instruction, no Return.  The
\* frame is popped with the deferred calls still in it; the task is completed.
End(t) == /\ t = Main /\ Free(t) /\ Top(t).script /\ Len(frames[t]) = 1
          /\ PopTo(t, "completed")
          /\ UNCHANGED <<need, want, steps, owner, count, fatal, made, ran>>

\* Mutant: ? in the outermost frame leaves that frame like any other.
PropagateAnywhere(t) ==
  /\ Free(t)
  /\ PopTo(t, "propagate")
  /\ UNCHANGED <<need, want, steps, owner, count, fatal, made, ran>>

\* The operator ? on an error, not in the outermost frame.
Propagate(t) == /\ Free(t) /\ Len(frames[t]) > 1
                /\ PopTo(t, "propagate")
                /\ UNCHANGED <<need, want, steps, owner, count, fatal, made, ran>>

\* Mutant: a failed background task ends at once, like the main task.
FailWithoutUnwinding(t) ==
  /\ CanReturn(t)
  /\ Top(t).returning => Top(t).defers = <<>>
  /\ fatal' = (fatal \/ t = Main)
  /\ mode' = [mode EXCEPT ![t] = "failed"]
  /\ UNCHANGED <<frames, pending, need, want, steps, owner, count, made, ran>>

\* fail!, in the body or by the type check of a result, after which the
\* frame is gone already.  The main task unwinds nothing and ends the run.
Fail(t) ==
  /\ CanReturn(t)
  /\ Top(t).returning => Top(t).defers = <<>>
  /\ IF t = Main
     THEN /\ fatal' = TRUE
          /\ mode' = [mode EXCEPT ![t] = "failed"]
          /\ UNCHANGED <<frames, pending>>
     ELSE PopTo(t, "fail") /\ UNCHANGED fatal
  /\ UNCHANGED <<need, want, steps, owner, count, made, ran>>

Unwinding(t) == mode[t] \in {"propagate", "fail"}

\* Mutant: the unwinding stops at the first deferred call it cannot execute.
UnwindStopsAtCall(t) ==
  LET d == Last(pending[t]) IN
  /\ Unwinding(t) /\ pending[t] # <<>>
  /\ IF d.act = "call"
     THEN /\ pending' = [pending EXCEPT ![t] = <<>>]
          /\ UNCHANGED <<owner, count, ran>>
     ELSE /\ pending' = [pending EXCEPT ![t] = Front(@)]
          /\ Perform(t, d)
  /\ UNCHANGED <<frames, mode, need, want, steps, fatal, made>>

\* execute_sync_deferred: one deferred call; a Whalli function is dropped.
Unwind(t) ==
  LET d == Last(pending[t]) IN
  /\ Unwinding(t) /\ pending[t] # <<>>
  /\ pending' = [pending EXCEPT ![t] = Front(@)]
  /\ IF d.act = "call" THEN UNCHANGED <<owner, count, ran>> ELSE Perform(t, d)
  /\ UNCHANGED <<frames, mode, need, want, steps, fatal, made>>

\* Mutant: fail! unwinds the frame on top only.
UnwoundOneFrame(t) ==
  /\ Unwinding(t) /\ pending[t] = <<>>
  /\ mode' = [mode EXCEPT ![t] = IF @ = "propagate" THEN "run" ELSE "failed"]
  /\ UNCHANGED <<frames, pending, need, want, steps, owner, count, fatal, made, ran>>

\* The frame is unwound: ? goes on in the caller, fail! with the next frame
\* until the task has none, and its handle is Failed.
Unwound(t) ==
  /\ Unwinding(t) /\ pending[t] = <<>>
  /\ IF mode[t] = "propagate"
     THEN mode' = [mode EXCEPT ![t] = "run"] /\ UNCHANGED <<frames, pending>>
     ELSE IF frames[t] # <<>> THEN PopTo(t, "fail")
     ELSE mode' = [mode EXCEPT ![t] = "failed"] /\ UNCHANGED <<frames, pending>>
  /\ UNCHANGED <<need, want, steps, owner, count, fatal, made, ran>>

Over(t) == mode[t] \in {"completed", "failed"}

Task(t) == \/ Call(t) \/ TailCall(t) \/ Defer(t) \/ Want(t) \/ Lock(t)
           \/ TryLock(t) \/ DeferUnlock(t) \/ Wait(t) \/ Spawn(t)
           \/ DeferDone(t) \/ ReturnDeferred(t) \/ Return(t) \/ End(t)
           \/ Propagate(t) \/ Fail(t) \/ Unwind(t) \/ Unwound(t)

Next == Add \/ \E t \in Tasks : Task(t)

Spec == Init /\ [][Next]_vars

\* Every task executes its instructions (module Scheduler), and the main
\* task that called wg.add(1) spawns.
FairSpec == Spec /\ \A t \in Tasks : WF_vars(Task(t))

-----------------------------------------------------------------------------
(***************************************************************************)
(* Properties.                                                             *)
(***************************************************************************)
Entry(kinds) == [act : kinds, id : Nat \ {0}]

\* The types, and that a task has frames exactly while it is not over.
TypeOK ==
  /\ \A t \in Tasks :
       /\ \A f \in Range(frames[t]) :
            /\ {f.script, f.returning} \subseteq BOOLEAN
            /\ Range(f.defers) \subseteq Entry({"unlock", "done"} \cup Deferrable)
       /\ Range(pending[t]) \subseteq Entry({"unlock", "done"} \cup Deferrable)
       /\ mode[t] \in {"run", "propagate"} => frames[t] # <<>>
       /\ mode[t] \in {"unborn", "completed"} => frames[t] = <<>>
       /\ pending[t] # <<>> => Unwinding(t) \/ (t = Main /\ mode[t] = "completed")
       /\ need[t] \in {"none", "unlock", "done", "spawn"}
       /\ want[t] \in {"none", "lock", "wait"}
  /\ owner \in Tasks \cup {Nobody}
  /\ count \in Nat
  /\ fatal = (mode[Main] = "failed")

\* The deferred calls t still has to execute, and those that the script left
\* in its frame when it ended: nobody has to execute them.
Owed(t) == (IF Unwinding(t) THEN Range(pending[t]) ELSE {})
             \cup UNION {Range(f.defers) : f \in Range(frames[t])}
Owes(t, act) == \E d \in Owed(t) : d.act = act
Dropped == IF mode[Main] = "completed" THEN Range(pending[Main]) ELSE {}
LockLost == \E d \in Dropped : d.act = "unlock"

\* The mutex is held by the one task that still owes its unlock: whether the
\* holder returns, propagates an error with `?` or fails, in whatever frame,
\* it unlocks, once, and nobody unlocks the lock of another task.  Only the
\* main task may have left it locked, by an unlock the script's end dropped.
LockIsOwed ==
  \A t \in Tasks :
    /\ (owner = t) = (need[t] = "unlock" \/ Owes(t, "unlock") \/ (t = Main /\ LockLost))
    /\ \A d, e \in Owed(t) : d.act = "unlock" /\ e.act = "unlock" => d = e

\* The WaitGroup counts the workers that still owe their done(), the one
\* about to be spawned included: none is counted down twice, or never.
CountIsOwed ==
  count = Cardinality({t \in Tasks : need[t] = "done" \/ Owes(t, "done")})
            + (IF need[Main] = "spawn" THEN 1 ELSE 0)

\* When wait() lets the main task go, every worker it spawned has left its
\* outermost frame or is just leaving it, failed ones included.
WaitMeansDone ==
  [][want[Main] = "wait" /\ want'[Main] = "none"
       => \A t \in Tasks \ {Main} :
            mode[t] = "unborn" \/ Over(t) \/ Len(frames[t]) <= 1]_vars

\* The i-th deferred call of t was executed, or was dropped with the script.
Executed(t, i) == i \in Range(ran[t])
DroppedCall(t, i) == t = Main /\ \E d \in Dropped : d.id = i

\* Deferred natives, unlocks and dones have all been executed when a task is
\* over, unless it is the main task that failed, and but for those that the
\* end of the script dropped; none was executed twice, or after being dropped.
CleanupRuns ==
  \A t \in Tasks :
    /\ IsInjective(ran[t])
    /\ \A i \in DOMAIN made[t] : ~(Executed(t, i) /\ DroppedCall(t, i))
    /\ Over(t) /\ ~(t = Main /\ fatal)
         => \A i \in DOMAIN made[t] :
              made[t][i] # "call" => Executed(t, i) \/ DroppedCall(t, i)

\* Deferred calls are executed in LIFO order: of all a task still owes, in
\* whatever frames, the last registered comes first.
LastInFirstOut ==
  [][\A t \in Tasks : ran'[t] # ran[t] => \A d \in Owed(t) : d.id <= Last(ran'[t])]_vars

\* Every task ends unless the main task fails: locks are released and the
\* WaitGroup comes down to 0 whatever happens to their users.  Only a lock
\* that the script's end left locked keeps those who ask for it for good.
EveryTaskEnds ==
  <>(fatal \/ \A t \in Tasks : mode[t] = "unborn" \/ Over(t) \/ (LockLost /\ want[t] = "lock"))

\* "LIFO deferred statement execution upon function return or panic": a task
\* that is over has executed all its deferred calls, Whalli functions too,
\* but for those of the script's own frame (ScriptCleansUp is about them).
\* Whether the failed main task should is left open: it ends the program.
DefersRun(t) == Over(t) /\ ~(t = Main /\ fatal)
                  => \A i \in DOMAIN made[t] : Executed(t, i) \/ DroppedCall(t, i)
EveryDeferRuns == \A t \in Tasks : DefersRun(t)

\* "defer expr - deferred call executed on frame exit", "ensuring mutex
\* unlocks and resource cleanup": a main task that has left the script's
\* frame has executed the unlocks and natives deferred in it, and holds no
\* lock.
ScriptCleansUp == mode[Main] = "completed" => owner # Main /\ Dropped = {}

\* Task t never leaves a frame by an error: no `?` on one, no fail!.
ErrorFree(t) == ~Unwinding(t)

\* The tasks that have begun and are not over, and those among them that wait
\* for others: for the mutex, or for the WaitGroup to come down to 0.
Alive(t) == mode[t] # "unborn" /\ ~Over(t)
Blocked(t) == \/ want[t] = "lock" /\ owner # Nobody
              \/ want[t] = "wait" /\ count > 0

\* Until the program ends, or the script has ended with a lock it still held,
\* somebody it waits for is not blocked: the mutex, the WaitGroup and the
\* frames that release them never make everyone wait for everyone, whatever
\* returns early, propagates or fails.
NeverAllBlocked ==
  ~fatal /\ ~LockLost /\ (\E t \in Tasks : Alive(t)) => \E t \in Tasks : Alive(t) /\ ~Blocked(t)
=============================================================================

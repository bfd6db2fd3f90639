------------------------------ MODULE Channels ------------------------------
(***************************************************************************)
(* Channels, task handles and select of Whalli (src/src/vm.rs, the opcodes *)
(* ChanSend, ChanRecv, IterNext, Select and the method close), with the    *)
(* channel timers of time.after.                                           *)
(*                                                                         *)
(* Every access to a channel is one closure run under the lock of its heap *)
(* slot (with_read, with_write), hence one step.  An instruction that      *)
(* cannot proceed moves ip back and parks the task, which runs it again in *)
(* its next slice.  Select takes one lock per case, then another one for   *)
(* the case it chose, so other tasks may act in between.                   *)
(*                                                                         *)
(* The tasks are background tasks: a failing main task ends the whole run, *)
(* which module Scheduler models.                                          *)
(***************************************************************************)
EXTENDS Integers, Sequences, FiniteSets, Functions

CONSTANTS
  Tasks,     \* the tasks; a task also stands for its handle
  Chans,     \* the channels
  Capacity,  \* Capacity[c]: at least 1, new(chan, 0) gives 1
  Timers,    \* the channels made by time.after, capacity 1
  Ops,       \* Ops[t]: the operations task t may perform
  MaxOps,    \* bound: operations a task performs in its life
  Nil, Tick, Sent, Default, Nothing  \* answers

ASSUME NamesAssumption == /\ IsFiniteSet(Tasks) /\ IsFiniteSet(Chans)
                          /\ Tasks \cap Chans = {}
ASSUME CapacityAssumption == /\ Capacity \in [Chans -> Nat \ {0}]
                             /\ Timers \subseteq Chans
                             /\ \A c \in Timers : Capacity[c] = 1
ASSUME MaxOpsAssumption == MaxOps \in Nat

\* What a program may ask for: an operand of another type fails the task, or
\* is passed over by a select, before a channel or a handle is touched.
IsOperation(o) ==
  /\ o.kind \in {"send", "recv", "iter", "close", "select"}
  /\ o.kind \in {"send", "close"} => o.on \in Chans
  /\ o.kind \in {"recv", "iter"} => o.on \in Chans \cup Tasks
  /\ o.cases \in Seq(Range(o.cases))
  /\ \A k \in Range(o.cases) : k.dir \in {"send", "recv"} /\ k.on \in Chans \cup Tasks

ASSUME OpsAssumption == \A t \in Tasks : \A o \in Ops[t] : IsOperation(o)
ASSUME AnswersAssumption == Nothing \notin Tasks \cup Chans /\ Nil \notin {Sent, Tick}

VARIABLES
  queue,   \* queue[c], a VecDeque
  closed,  \* closed[c]
  timers,  \* the channels of the entries of shared.channel_timers
  status,  \* status[t]: the TaskStatus in the handle of t
  op,      \* op[t]: the operation t executes, or Idle
  at,      \* at[t]: ready, exec, parked, scan, commit or over
  pos,     \* pos[t]: the case a select is scanning, or has chosen
  left,    \* left[t]: operations t may still start
  answer,  \* answer[t]: what its last operation left on the stack
  quiet    \* history: no case of t's select was ready, at some instant

vars == <<queue, closed, timers, status, op, at, pos, left, answer, quiet>>

Abstract == INSTANCE AtomicChannels

Idle == [kind |-> "none", on |-> Nothing, val |-> Nothing, cases |-> <<>>,
         default |-> FALSE]

Init ==
  /\ queue = [c \in Chans |-> <<>>]
  /\ closed = [c \in Chans |-> FALSE]
  /\ timers = Timers
  /\ status = [t \in Tasks |-> "running"]
  /\ op = [t \in Tasks |-> Idle]
  /\ at = [t \in Tasks |-> "ready"]
  /\ pos = [t \in Tasks |-> 0]
  /\ left = [t \in Tasks |-> MaxOps]
  /\ answer = [t \in Tasks |-> <<Nothing, Nothing>>]
  /\ quiet = [t \in Tasks |-> FALSE]

Move(t, label, i) == /\ at' = [at EXCEPT ![t] = label]
                     /\ pos' = [pos EXCEPT ![t] = i]

\* The operation of t is over and its result v of object x on the stack.
Return(t, x, v) == /\ Move(t, "ready", 0)
                   /\ op' = [op EXCEPT ![t] = Idle]
                   /\ answer' = [answer EXCEPT ![t] = <<x, v>>]

\* Mutant: the scan starts after the first case.
EnterAtSecondCase(t, o) == IF o.kind = "select" THEN Move(t, "scan", 2)
                           ELSE Move(t, "exec", 0)

\* The instruction at ip is executed (again): select from its first case.
Enter(t, o) == IF o.kind = "select" THEN Move(t, "scan", 1)
               ELSE Move(t, "exec", 0)

\* The program reaches its next operation.
Begin(t) ==
  /\ at[t] = "ready" /\ left[t] > 0
  /\ \E o \in Ops[t] : op' = [op EXCEPT ![t] = o] /\ Enter(t, o)
  /\ left' = [left EXCEPT ![t] = @ - 1]
  /\ UNCHANGED <<queue, closed, timers, status, answer>>

\* The last frame of t returns: its handle is completed.
Finish(t) ==
  /\ at[t] = "ready"
  /\ Move(t, "over", 0)
  /\ status' = [status EXCEPT ![t] = "completed"]
  /\ UNCHANGED <<queue, closed, timers, op, left, answer>>

\* Mutant: the handle of a failed task stays Running.
FailLeavesHandle(t) ==
  /\ Move(t, "over", 0)
  /\ op' = [op EXCEPT ![t] = Idle]
  /\ UNCHANGED <<queue, closed, timers, status, left, answer>>

\* fail! of a background task: its handle is failed.
Fail(t) ==
  /\ Move(t, "over", 0)
  /\ op' = [op EXCEPT ![t] = Idle]
  /\ status' = [status EXCEPT ![t] = "failed"]
  /\ UNCHANGED <<queue, closed, timers, left, answer>>

\* SliceResult::Parked: ip is back on the instruction, the operands are back
\* on the stack.
Park(t) == /\ Move(t, "parked", 0)
           /\ UNCHANGED <<queue, closed, timers, status, op, left, answer>>

\* The scheduler runs the next slice of a parked task.
Resume(t) == /\ at[t] = "parked"
             /\ Enter(t, op[t])
             /\ UNCHANGED <<queue, closed, timers, status, op, left, answer>>

Executes(t, kinds) == at[t] = "exec" /\ op[t].kind \in kinds

Push(c, v) == queue' = [queue EXCEPT ![c] = Append(@, v)]

\* ChanSend: a closed channel fails the task, a full one parks it.
Send(t) ==
  LET c == op[t].on IN
  /\ Executes(t, {"send"})
  /\ \/ closed[c] /\ Fail(t)
     \/ ~closed[c] /\ Len(queue[c]) >= Capacity[c] /\ Park(t)
     \/ /\ ~closed[c] /\ Len(queue[c]) < Capacity[c]
        /\ Push(c, op[t].val)
        /\ Return(t, c, Sent)
        /\ UNCHANGED <<closed, timers, status, left>>

\* Mutant: an empty channel ends the loop over it, closed or not.
RecvEndsWhenEmpty(t) ==
  LET c == op[t].on IN
  /\ Executes(t, {"recv", "iter"})
  /\ c \in Chans
  /\ IF queue[c] # <<>>
     THEN queue' = [queue EXCEPT ![c] = Tail(@)] /\ Return(t, c, Head(queue[c]))
     ELSE UNCHANGED queue /\ Return(t, c, Nil)
  /\ UNCHANGED <<closed, timers, status, left>>

\* ChanRecv and the channel arm of IterNext.  The for loop (iter) executes
\* IterNext again after each message and ends with the closed channel.
Recv(t) ==
  LET c == op[t].on IN
  /\ Executes(t, {"recv", "iter"})
  /\ c \in Chans
  /\ \/ /\ queue[c] # <<>>
        /\ queue' = [queue EXCEPT ![c] = Tail(@)]
        /\ IF op[t].kind = "recv" THEN Return(t, c, Head(queue[c]))
           ELSE /\ answer' = [answer EXCEPT ![t] = <<c, Head(queue[c])>>]
                /\ UNCHANGED <<op, at, pos>>
        /\ UNCHANGED <<closed, timers, status, left>>
     \/ /\ queue[c] = <<>> /\ closed[c]
        /\ Return(t, c, Nil)
        /\ UNCHANGED <<queue, closed, timers, status, left>>
     \/ queue[c] = <<>> /\ ~closed[c] /\ Park(t)

\* A failed task hands its error over: (nil, error) instead of (value, nil).
HandleResult(x) == IF status[x] = "failed" THEN Nil ELSE Sent

\* ChanRecv, IterNext, result() and wait() on a task handle.
Join(t) ==
  LET x == op[t].on IN
  /\ Executes(t, {"recv", "iter"})
  /\ x \in Tasks
  /\ IF status[x] = "running" THEN Park(t)
     ELSE /\ Return(t, x, HandleResult(x))
          /\ UNCHANGED <<queue, closed, timers, status, left>>

\* The method close of a channel, closed or not.
Close(t) ==
  /\ Executes(t, {"close"})
  /\ closed' = [closed EXCEPT ![op[t].on] = TRUE]
  /\ Return(t, op[t].on, Nil)
  /\ UNCHANGED <<queue, timers, status, left>>

\* Mutant: a closed channel does not make a receive case ready.
CaseReadyNeedsMessage(k, q, cl, st) ==
  IF k.on \in Tasks THEN k.dir = "recv" /\ st[k.on] # "running"
  ELSE IF k.dir = "send" THEN ~cl[k.on] /\ Len(q[k.on]) < Capacity[k.on]
  ELSE q[k.on] # <<>>

\* The test of one case of a select, under the read lock of its object, when
\* the channels hold q, are closed as cl says, and the handles are in st.
CaseReady(k, q, cl, st) ==
  IF k.on \in Tasks THEN k.dir = "recv" /\ st[k.on] # "running"
  ELSE IF k.dir = "send" THEN ~cl[k.on] /\ Len(q[k.on]) < Capacity[k.on]
  ELSE q[k.on] # <<>> \/ cl[k.on]

\* One turn of the scan: the first ready case is chosen.
SelectScan(t) ==
  /\ at[t] = "scan" /\ pos[t] <= Len(op[t].cases)
  /\ IF CaseReady(op[t].cases[pos[t]], queue, closed, status)
     THEN Move(t, "commit", pos[t])
     ELSE Move(t, "scan", pos[t] + 1)
  /\ UNCHANGED <<queue, closed, timers, status, op, left, answer>>

\* Mutant: a select with a default gives up after its first case.
SelectNoneTooEarly(t) ==
  /\ at[t] = "scan" /\ pos[t] > 1
  /\ IF op[t].default
     THEN /\ Return(t, Nothing, Default)
          /\ UNCHANGED <<queue, closed, timers, status, left>>
     ELSE pos[t] > Len(op[t].cases) /\ Park(t)

\* No case was ready when it was looked at.
SelectNone(t) ==
  /\ at[t] = "scan" /\ pos[t] > Len(op[t].cases)
  /\ IF op[t].default
     THEN /\ Return(t, Nothing, Default)
          /\ UNCHANGED <<queue, closed, timers, status, left>>
     ELSE Park(t)

\* The chosen case, under the lock: a send pushes and a receive pops,
\* whatever has become of the channel since the scan.
SelectCommit(t) ==
  LET k == op[t].cases[pos[t]] IN
  /\ at[t] = "commit"
  /\ UNCHANGED <<closed, timers, status, left>>
  /\ IF k.on \in Tasks THEN Return(t, k.on, HandleResult(k.on)) /\ UNCHANGED queue
     ELSE IF k.dir = "send" THEN Push(k.on, k.val) /\ Return(t, k.on, Sent)
     ELSE IF queue[k.on] = <<>> THEN Return(t, k.on, Nil) /\ UNCHANGED queue
     ELSE /\ queue' = [queue EXCEPT ![k.on] = Tail(@)]
          /\ Return(t, k.on, Head(queue[k.on]))

\* Mutant: the I/O thread rings a channel that was closed in the meantime.
FireTimerClosedToo(c) ==
  /\ c \in timers
  /\ timers' = timers \ {c}
  /\ Push(c, Tick)
  /\ UNCHANGED <<closed, status, op, at, pos, left, answer>>

\* The I/O thread finds the timer of c due: it pushes the time, full or not.
FireTimer(c) ==
  /\ c \in timers
  /\ timers' = timers \ {c}
  /\ IF closed[c] THEN UNCHANGED queue ELSE Push(c, Tick)
  /\ UNCHANGED <<closed, status, op, at, pos, left, answer>>

\* History: the instants at which a select had no ready case.
Watch == quiet' = [t \in Tasks |->
                     /\ op'[t].kind = "select"
                     /\ \/ quiet[t]
                        \/ \A k \in Range(op'[t].cases) :
                             ~CaseReady(k, queue', closed', status')]

Instruction(t) == \/ Send(t) \/ Recv(t) \/ Join(t) \/ Close(t)
                  \/ SelectScan(t) \/ SelectNone(t) \/ SelectCommit(t)

Next ==
  /\ \/ \E t \in Tasks : Begin(t) \/ Finish(t) \/ Resume(t) \/ Instruction(t)
     \/ \E c \in Chans : FireTimer(c)
  /\ Watch

Spec == Init /\ [][Next]_vars

\* Every task gets its next slice (module Scheduler) and timers fire in time.
FairSpec ==
  /\ Spec
  /\ \A t \in Tasks : WF_vars((Resume(t) \/ Instruction(t)) /\ Watch)
  /\ \A c \in Timers : WF_vars(FireTimer(c) /\ Watch)

-----------------------------------------------------------------------------
(***************************************************************************)
(* The programs for which select behaves as if it were atomic: a channel   *)
(* some task selects on to receive has no other receiver; one it selects   *)
(* on to send has no other sender, timers included, and no other closer.   *)
(* Nobody sends on the channel of a timer, which does not wait for room.   *)
(***************************************************************************)
Uses(t, dir, c) == \E o \in Ops[t] : \/ dir = "send" /\ o.kind = "send" /\ o.on = c
                                     \/ dir = "recv" /\ o.kind \in {"recv", "iter"} /\ o.on = c
                                     \/ dir = "close" /\ o.kind = "close" /\ o.on = c
                                     \/ \E k \in Range(o.cases) : k.dir = dir /\ k.on = c

Selects(t, dir, c) == \E o \in Ops[t] : \E k \in Range(o.cases) : k.dir = dir /\ k.on = c

Disciplined ==
  \A t \in Tasks, c \in Chans :
    /\ Selects(t, "recv", c) => \A u \in Tasks \ {t} : ~Uses(u, "recv", c)
    /\ Selects(t, "send", c) => \A u \in Tasks \ {t} : ~Uses(u, "send", c) /\ ~Uses(u, "close", c)
    /\ c \in Timers => ~Uses(t, "send", c)

\* The programs that use nil for the end of a channel only.
SendsNoNil ==
  \A t \in Tasks : \A o \in Ops[t] : o.val # Nil /\ \A k \in Range(o.cases) : k.val # Nil

(***************************************************************************)
(* The types, and how the control state of a task goes with its operation. *)
(***************************************************************************)
TypeOK ==
  /\ \A c \in Chans : closed[c] \in BOOLEAN
  /\ timers \subseteq Timers
  /\ status \in [Tasks -> {"running", "completed", "failed"}]
  /\ at \in [Tasks -> {"ready", "exec", "parked", "scan", "commit", "over"}]
  /\ \A t \in Tasks :
       /\ (at[t] = "over") = (status[t] # "running")
       /\ (at[t] \in {"ready", "over"}) = (op[t] = Idle)
       /\ at[t] \in {"scan", "commit"} => op[t].kind = "select"
       /\ at[t] = "commit" => pos[t] \in DOMAIN op[t].cases
       /\ left[t] \in 0 .. MaxOps

(***************************************************************************)
(* Once closed, a channel stays closed and only empties: what the senders  *)
(* of vm.rs:2571, a select between its two locks, and the timer thread of  *)
(* vm.rs:460 still do cannot add a message a receiver already gave up on.  *)
(***************************************************************************)
ClosedOnlyDrains ==
  [][\A c \in Chans : closed[c] =>
        /\ closed'[c]
        /\ queue'[c] # queue[c] => queue[c] # <<>> /\ queue'[c] = Tail(queue[c])]_vars

(***************************************************************************)
(* A receiver is told Nil for a channel only when that channel is closed,  *)
(* by whichever of the three instructions it asked (vm.rs:2544, 2670, and  *)
(* the unwrap_or(Nil) of a select, vm.rs:2839): Nil ends every for loop.   *)
(***************************************************************************)
NilMeansClosed ==
  \A t \in Tasks, c \in Chans : answer[t] = <<c, Nil>> => closed[c]

(***************************************************************************)
(* Every operation takes effect at one instant between its start and its   *)
(* end, as the bounded queue of AtomicChannels says, parking, retrying and *)
(* scanning case by case notwithstanding; default is taken only by a       *)
(* select that had no possible case at some instant.                       *)
(***************************************************************************)
ImplementsAtomicChannels == Abstract!ASpec

(***************************************************************************)
(* Closing a channel releases everyone blocked on it: parked senders fail, *)
(* parked receivers and for loops end, selects that receive from it        *)
(* choose a case.  Parked tasks poll (vm.rs:814-821): nobody wakes them.   *)
(***************************************************************************)
CloseReleases ==
  \A t \in Tasks, c \in Chans :
    /\ closed[c]
    /\ \/ op[t].kind \in {"send", "recv", "iter"} /\ op[t].on = c
       \/ op[t].kind = "select" /\ \E k \in Range(op[t].cases) : k.dir = "recv" /\ k.on = c
    ~> op[t] = Idle

(***************************************************************************)
(* A select with a possible case ends, whether the case became possible    *)
(* before, during or after the scan of vm.rs:2775-2818, or while parked.   *)
(***************************************************************************)
ReadySelectFires ==
  \A t \in Tasks :
    (/\ op[t].kind = "select"
     /\ \E k \in Range(op[t].cases) : CaseReady(k, queue, closed, status))
    ~> op[t] = Idle

(***************************************************************************)
(* How far a channel may overrun its capacity: the send of a select and    *)
(* the push of a timer (vm.rs:2843, vm.rs:460) do not look at it.          *)
(***************************************************************************)
MaySelectSend(c) == {t \in Tasks : Selects(t, "send", c)}
Surplus(c) == Cardinality(MaySelectSend(c)) + IF c \in Timers THEN 1 ELSE 0

\* Whatever the program, each select that sends and the timer of a channel add
\* at most one message beyond its capacity, however often they are executed.
OverrunIsBounded == \A c \in Chans : Len(queue[c]) <= Capacity[c] + Surplus(c)

\* In a disciplined program there is no overrun.
CapacityHolds == \A c \in Chans : Len(queue[c]) <= Capacity[c]
=============================================================================

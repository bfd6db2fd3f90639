------------------------------ MODULE Scheduler ------------------------------
(***************************************************************************)
(* The M:N scheduler of Whalli (src/src/vm.rs): VM::run starts one timer/  *)
(* I/O thread and NumWorkers worker threads.  Every worker runs            *)
(* run_worker_loop: it pops a task of its own deque, else steals a batch   *)
(* of the global injector, else scans the other deques, runs one slice of  *)
(* the task it got (execute_task_slice) and files the task where the       *)
(* outcome of the slice says.  The I/O thread moves due sleepers and woken *)
(* socket waiters back to the injector.                                    *)
(*                                                                         *)
(* A task is an identity; what it computes is abstracted to which outcomes *)
(* its slices can have.  Channels, locks and handles are the subject of    *)
(* other modules: here a task can only park on the handle Awaits[t].       *)
(***************************************************************************)
EXTENDS Integers, Sequences, FiniteSets, Functions

CONSTANTS
  NumWorkers,   \* num_threads of VM::run, at least 1
  Tasks,        \* every task the run may ever create
  Main,         \* the task of the top-level script
  NoTask,       \* the content of an empty hand
  NativeTasks,  \* tasks made by `spawn native(..)`: no frames, born suspended
  Sleepers,     \* tasks that may call time.sleep
  IoTasks,      \* tasks that may wait for a socket
  Failing,      \* tasks that may hit fail! (a runtime error)
  Panicking,    \* tasks that may call a native that panics
  Blocking,     \* tasks that may call a native that never returns (input())
  Awaits,       \* Awaits[t]: the task whose handle t receives from, or NoTask
  MaxTimers,    \* bound: channel timers (time.after) pending at a time
  SpinLimit     \* idle rounds before the deadlock report (500 in the code)

ASSUME NumWorkersAssumption == NumWorkers \in Nat \ {0}
ASSUME TasksAssumption == /\ IsFiniteSet(Tasks)
                          /\ Main \in Tasks \ NativeTasks
                          /\ NoTask \notin Tasks
ASSUME ProgramAssumption == /\ NativeTasks \subseteq Sleepers \cup IoTasks
                            /\ Awaits \in [Tasks -> Tasks \cup {NoTask}]
ASSUME BoundsAssumption == MaxTimers \in Nat /\ SpinLimit \in Nat

Workers == 0 .. NumWorkers - 1

VARIABLES
  injector,   \* shared.injector, a FIFO of tasks
  deque,      \* the workers' deques, by index in `stealers`
  hand,       \* hand[w]: the task worker w runs
  child,      \* child[w]: a task counted but not yet queued by w's Spawn
  sleeping,   \* shared.sleeping_tasks
  io,         \* shared.waiting_io_tasks
  ready,      \* tasks the I/O thread took off a list and has yet to push
  timers,     \* number of entries of shared.channel_timers
  active,     \* shared.active_tasks
  shutdown,   \* shared.shutdown
  fatal,      \* shared.fatal_error
  pc,         \* pc[w]: where worker w is in run_worker_loop
  victim,     \* victim[w]: the offset i of find_task's scan of the stealers
  spins,      \* spins[w]: idle_spins
  ioPc,       \* where the timer/I/O thread is
  runPc,      \* where VM::run is: joining the workers, then the I/O thread
  status      \* status[t]: unborn, live, done, or lost with its thread

queues == <<injector, deque, hand, child, sleeping, io, ready>>
vars == <<injector, deque, hand, child, sleeping, io, ready, timers, active,
          shutdown, fatal, pc, victim, spins, ioPc, runPc, status>>

(***************************************************************************)
(* local_workers.pop() hands the deques out from the last to the first,    *)
(* while `stealers` keeps their creation order: worker w owns deque        *)
(* NumWorkers - 1 - w.                                                     *)
(***************************************************************************)
OwnDeque(w) == NumWorkers - 1 - w

Init ==
  /\ injector = <<Main>>
  /\ deque = [w \in Workers |-> <<>>]
  /\ hand = [w \in Workers |-> NoTask]
  /\ child = [w \in Workers |-> NoTask]
  /\ sleeping = {} /\ io = {} /\ ready = {}
  /\ timers = 0
  /\ active = 1
  /\ shutdown = FALSE
  /\ fatal = "none"
  /\ pc = [w \in Workers |-> "top"]
  /\ victim = [w \in Workers |-> 1]
  /\ spins = [w \in Workers |-> 0]
  /\ ioPc = "top"
  /\ runPc = "joinWorkers"
  /\ status = [t \in Tasks |-> IF t = Main THEN "live" ELSE "unborn"]

GoTo(w, label) == pc' = [pc EXCEPT ![w] = label]

(***************************************************************************)
(* The head of run_worker_loop.  The two loads are one step: active never  *)
(* leaves 0, so reading it at the moment of the first load decides alike.  *)
(***************************************************************************)
LoopTop(w) ==
  /\ pc[w] = "top"
  /\ IF shutdown \/ active = 0 THEN GoTo(w, "exited") ELSE GoTo(w, "find")
  /\ UNCHANGED <<queues, timers, active, shutdown, fatal, victim, spins,
                 ioPc, runPc, status>>

\* find_task returned t: the worker resets idle_spins and starts the slice.
StartSlice(w, t) ==
  /\ hand' = [hand EXCEPT ![w] = t]
  /\ spins' = [spins EXCEPT ![w] = 0]
  /\ victim' = [victim EXCEPT ![w] = 1]
  /\ GoTo(w, "run")

\* find_task, first source: the head of the worker's own FIFO deque.
PopLocal(w) ==
  LET own == deque[OwnDeque(w)] IN
  /\ pc[w] = "find"
  /\ own # <<>>
  /\ StartSlice(w, Head(own))
  /\ deque' = [deque EXCEPT ![OwnDeque(w)] = Tail(own)]
  /\ UNCHANGED <<injector, child, sleeping, io, ready, timers, active,
                 shutdown, fatal, ioPc, runPc, status>>

\* steal_batch_and_pop takes up to about half of a queue, at least one task.
BatchSizes(q) == 1 .. (Len(q) + 1) \div 2

\* find_task, second source: a batch of the injector; its head is run, the
\* rest goes to the worker's own deque.
StealInjector(w) ==
  /\ pc[w] = "find"
  /\ deque[OwnDeque(w)] = <<>>
  /\ injector # <<>>
  /\ \E k \in BatchSizes(injector) :
       /\ StartSlice(w, Head(injector))
       /\ deque' = [deque EXCEPT ![OwnDeque(w)] = SubSeq(injector, 2, k)]
       /\ injector' = SubSeq(injector, k + 1, Len(injector))
  /\ UNCHANGED <<child, sleeping, io, ready, timers, active, shutdown, fatal,
                 ioPc, runPc, status>>

\* Both sources are empty: scan the stealers, if there is more than one.
NothingQueued(w) ==
  /\ pc[w] = "find"
  /\ deque[OwnDeque(w)] = <<>>
  /\ injector = <<>>
  /\ GoTo(w, IF NumWorkers > 1 THEN "steal" ELSE "scanSleepers")
  /\ UNCHANGED <<queues, timers, active, shutdown, fatal, victim, spins,
                 ioPc, runPc, status>>

\* The stealer find_task tries at offset i of its scan.
Victim(w, i) == (w + i) % NumWorkers

\* Mutant: the thief runs the head of the deque without taking it off.
StealFromPeerCopies(w) ==
  LET v == Victim(w, victim[w]) IN
  /\ pc[w] = "steal"
  /\ deque[v] # <<>>
  /\ v # OwnDeque(w)
  /\ StartSlice(w, Head(deque[v]))
  /\ UNCHANGED <<injector, deque, child, sleeping, io, ready, timers, active,
                 shutdown, fatal, ioPc, runPc, status>>

\* find_task, third source: a batch of a non-empty deque of the scan.
StealFromPeer(w) ==
  LET v == Victim(w, victim[w]) IN
  /\ pc[w] = "steal"
  /\ deque[v] # <<>>
  /\ v # OwnDeque(w)
  /\ \E k \in BatchSizes(deque[v]) :
       /\ StartSlice(w, Head(deque[v]))
       /\ deque' = [deque EXCEPT ![v] = SubSeq(@, k + 1, Len(@)),
                                 ![OwnDeque(w)] = SubSeq(deque[v], 2, k)]
  /\ UNCHANGED <<injector, child, sleeping, io, ready, timers, active,
                 shutdown, fatal, ioPc, runPc, status>>

\* An empty stealer (the worker's own always is): the next offset, or None.
NextVictim(w) ==
  LET last == victim[w] = NumWorkers - 1 IN
  /\ pc[w] = "steal"
  /\ deque[Victim(w, victim[w])] = <<>>
  /\ victim' = [victim EXCEPT ![w] = IF last THEN 1 ELSE @ + 1]
  /\ GoTo(w, IF last THEN "scanSleepers" ELSE "steal")
  /\ UNCHANGED <<queues, timers, active, shutdown, fatal, spins, ioPc, runPc,
                 status>>

(***************************************************************************)
(* The idle branch.  The three lists are read under their own locks, one   *)
(* after the other; a non-empty one decides the outcome ("pending").       *)
(***************************************************************************)
\* The I/O thread holds the waiting_io_tasks lock while it wakes its tasks.
IoListLocked == ioPc = "pushWoken"

ScanStep(w, from, found, next) ==
  /\ pc[w] = from
  /\ GoTo(w, IF found THEN "pending" ELSE next)
  /\ UNCHANGED <<queues, timers, active, shutdown, fatal, victim, spins,
                 ioPc, runPc, status>>

ScanSleepers(w) == ScanStep(w, "scanSleepers", sleeping # {}, "scanTimers")
ScanTimers(w) == ScanStep(w, "scanTimers", timers > 0, "scanIo")
ScanIo(w) == ~IoListLocked /\ ScanStep(w, "scanIo", io # {}, "quiet")

\* Mutant: a quiet round ends the worker, whatever active_tasks says.
IdleLeavesWhenQuiet(w) ==
  /\ pc[w] \in {"pending", "quiet"}
  /\ GoTo(w, IF pc[w] = "quiet" THEN "exited" ELSE "top")
  /\ UNCHANGED <<queues, timers, active, shutdown, fatal, victim, spins, ioPc,
                 runPc, status>>

\* Second load of active_tasks, then the idle counter.  wait_for has a 5 ms
\* timeout, so it only delays the next round of the loop.
Idle(w) ==
  LET n == spins[w] + 1 IN
  /\ pc[w] \in {"pending", "quiet"}
  /\ \/ /\ active = 0
        /\ GoTo(w, "exited")
        /\ UNCHANGED spins
     \/ /\ active > 0
        /\ pc[w] = "pending"
        /\ spins' = [spins EXCEPT ![w] = 0]
        /\ GoTo(w, "top")
     \/ /\ active > 0
        /\ pc[w] = "quiet"
        /\ spins' = [spins EXCEPT ![w] = IF n > SpinLimit THEN SpinLimit + 1
                                                          ELSE n]
        /\ GoTo(w, IF n > SpinLimit THEN "detect" ELSE "top")
  /\ UNCHANGED <<queues, timers, active, shutdown, fatal, victim, ioPc,
                 runPc, status>>

\* The deadlock detector, first half: somebody waits on I/O or sleeps.
CountWaiting(w) ==
  /\ pc[w] = "detect"
  /\ ~IoListLocked
  /\ GoTo(w, IF active > 0 /\ (io # {} \/ sleeping # {}) THEN "report"
                                                         ELSE "top")
  /\ UNCHANGED <<queues, timers, active, shutdown, fatal, victim, spins,
                 ioPc, runPc, status>>

SetFatal(e) ==
  /\ fatal' = IF fatal = "none" THEN e ELSE fatal
  /\ shutdown' = TRUE

\* Second half: the injector is empty, so "all woroutines are asleep".
ReportDeadlock(w) ==
  /\ pc[w] = "report"
  /\ IF injector = <<>>
       THEN SetFatal("deadlock") /\ GoTo(w, "exited")
       ELSE UNCHANGED <<fatal, shutdown>> /\ GoTo(w, "top")
  /\ UNCHANGED <<queues, timers, active, victim, spins, ioPc, runPc, status>>

(***************************************************************************)
(* The slice: execute_task_slice, then the match on SliceResult.           *)
(***************************************************************************)
Running(w) == pc[w] = "run" /\ hand[w] \notin NativeTasks

\* Mutant: a suspended native call is not counted in active_tasks.
SpawnCountsClosuresOnly(w, c) ==
  /\ Running(w)
  /\ status[c] = "unborn"
  /\ status' = [status EXCEPT ![c] = "live"]
  /\ active' = IF c \in NativeTasks THEN active ELSE active + 1
  /\ child' = [child EXCEPT ![w] = c]
  /\ GoTo(w, "spawn")
  /\ UNCHANGED <<injector, deque, hand, sleeping, io, ready, timers, shutdown,
                 fatal, victim, spins, ioPc, runPc>>

\* OpCode::Spawn counts the new task first ...
SpawnCount(w, c) ==
  /\ Running(w)
  /\ status[c] = "unborn"
  /\ status' = [status EXCEPT ![c] = "live"]
  /\ active' = active + 1
  /\ child' = [child EXCEPT ![w] = c]
  /\ GoTo(w, "spawn")
  /\ UNCHANGED <<injector, deque, hand, sleeping, io, ready, timers, shutdown,
                 fatal, victim, spins, ioPc, runPc>>

\* ... then files it: a closure in the injector, a suspended native call
\* among the sleepers or the socket waiters.
SpawnFile(w) ==
  LET c == child[w] IN
  /\ pc[w] = "spawn"
  /\ \/ /\ c \notin NativeTasks
        /\ injector' = Append(injector, c)
        /\ UNCHANGED <<sleeping, io>>
     \/ /\ c \in NativeTasks \cap Sleepers
        /\ sleeping' = sleeping \cup {c}
        /\ UNCHANGED <<injector, io>>
     \/ /\ c \in NativeTasks \cap IoTasks
        /\ ~IoListLocked
        /\ io' = io \cup {c}
        /\ UNCHANGED <<injector, sleeping>>
  /\ child' = [child EXCEPT ![w] = NoTask]
  /\ GoTo(w, "run")
  /\ UNCHANGED <<deque, hand, ready, timers, active, shutdown, fatal, victim,
                 spins, ioPc, runPc, status>>

\* time.after registers a channel timer.
AddTimer(w) ==
  /\ Running(w)
  /\ timers < MaxTimers
  /\ timers' = timers + 1
  /\ UNCHANGED <<queues, active, shutdown, fatal, pc, victim, spins, ioPc,
                 runPc, status>>

EmptyHand(w) == hand' = [hand EXCEPT ![w] = NoTask]

\* The handle t receives from still says Running.
MustPark(t) == Awaits[t] # NoTask /\ status[Awaits[t]] \in {"live", "lost"}

\* Mutant: the task goes back to the head of the injector.
RequeueAtHead(w) ==
  /\ Running(w)
  /\ injector' = <<hand[w]>> \o injector
  /\ EmptyHand(w)
  /\ GoTo(w, "top")
  /\ UNCHANGED <<deque, child, sleeping, io, ready, timers, active, shutdown,
                 fatal, victim, spins, ioPc, runPc, status>>

\* SliceResult::Exhausted and ::Parked: back to the tail of the injector.
Requeue(w) ==
  /\ Running(w)
  /\ injector' = Append(injector, hand[w])
  /\ EmptyHand(w)
  /\ GoTo(w, "top")
  /\ UNCHANGED <<deque, child, sleeping, io, ready, timers, active, shutdown,
                 fatal, victim, spins, ioPc, runPc, status>>

\* SliceResult::Sleep.
GoToSleep(w) ==
  /\ Running(w)
  /\ hand[w] \in Sleepers
  /\ sleeping' = sleeping \cup {hand[w]}
  /\ EmptyHand(w)
  /\ GoTo(w, "top")
  /\ UNCHANGED <<injector, deque, child, io, ready, timers, active, shutdown,
                 fatal, victim, spins, ioPc, runPc, status>>

\* SliceResult::WaitIO.
WaitForIo(w) ==
  /\ Running(w)
  /\ hand[w] \in IoTasks
  /\ ~IoListLocked
  /\ io' = io \cup {hand[w]}
  /\ EmptyHand(w)
  /\ GoTo(w, "top")
  /\ UNCHANGED <<injector, deque, child, sleeping, ready, timers, active,
                 shutdown, fatal, victim, spins, ioPc, runPc, status>>

\* Mutant: the completion is never subtracted from active_tasks.
CompleteUncounted(w) ==
  LET t == hand[w] IN
  /\ pc[w] = "run"
  /\ ~MustPark(t) \/ (t \in Failing \ {Main})
  /\ status' = [status EXCEPT ![t] = "done"]
  /\ EmptyHand(w)
  /\ GoTo(w, "top")
  /\ UNCHANGED <<injector, deque, child, sleeping, io, ready, timers, active,
                 shutdown, fatal, victim, spins, ioPc, runPc>>

\* Mutant: fail! already subtracts the background task it ends.
CompleteUncountsFailure(w) ==
  LET t == hand[w] IN
  /\ pc[w] = "run"
  /\ ~MustPark(t) \/ (t \in Failing \ {Main})
  /\ status' = [status EXCEPT ![t] = "done"]
  /\ active' = IF t \in Failing \ {Main} THEN active - 1 ELSE active
  /\ EmptyHand(w)
  /\ GoTo(w, "uncount")
  /\ UNCHANGED <<injector, deque, child, sleeping, io, ready, timers,
                 shutdown, fatal, victim, spins, ioPc, runPc>>

\* SliceResult::Completed: the last frame returned, or a background task
\* failed (fail! isolates it).  The counter is decremented afterwards.
Complete(w) ==
  LET t == hand[w] IN
  /\ pc[w] = "run"
  /\ ~MustPark(t) \/ (t \in Failing \ {Main})
  /\ status' = [status EXCEPT ![t] = "done"]
  /\ EmptyHand(w)
  /\ GoTo(w, "uncount")
  /\ UNCHANGED <<injector, deque, child, sleeping, io, ready, timers, active,
                 shutdown, fatal, victim, spins, ioPc, runPc>>

Uncount(w) ==
  /\ pc[w] = "uncount"
  /\ active' = active - 1
  /\ GoTo(w, "top")
  /\ UNCHANGED <<queues, timers, shutdown, fatal, victim, spins, ioPc, runPc,
                 status>>

\* SliceResult::Error: fail! in the main task stops the whole run; the task
\* is dropped, still counted.
MainError(w) ==
  /\ Running(w)
  /\ hand[w] = Main /\ Main \in Failing
  /\ SetFatal("error")
  /\ status' = [status EXCEPT ![Main] = "lost"]
  /\ EmptyHand(w)
  /\ GoTo(w, "exited")
  /\ UNCHANGED <<injector, deque, child, sleeping, io, ready, timers, active,
                 victim, spins, ioPc, runPc>>

\* A native panics: the thread unwinds and takes the task with it.  The
\* deque's buffer survives, shared with its stealer.
WorkerPanic(w) ==
  /\ Running(w)
  /\ hand[w] \in Panicking
  /\ status' = [status EXCEPT ![hand[w]] = "lost"]
  /\ EmptyHand(w)
  /\ GoTo(w, "dead")
  /\ UNCHANGED <<injector, deque, child, sleeping, io, ready, timers, active,
                 shutdown, fatal, victim, spins, ioPc, runPc>>

(***************************************************************************)
(* The timer/I/O thread.                                                   *)
(***************************************************************************)
IoUnchanged == UNCHANGED <<deque, hand, child, active, shutdown, fatal, pc,
                           victim, spins, runPc, status>>

IoTop ==
  /\ ioPc = "top"
  /\ ioPc' = IF shutdown \/ active = 0 THEN "exited" ELSE "sleepers"
  /\ UNCHANGED <<injector, sleeping, io, ready, timers>>
  /\ IoUnchanged

\* The sleepers whose wake_time is past, under the list's lock.
IoTakeDue ==
  /\ ioPc = "sleepers"
  /\ \E due \in SUBSET sleeping :
       /\ sleeping' = sleeping \ due
       /\ ready' = due
  /\ ioPc' = "timers"
  /\ UNCHANGED <<injector, io, timers>>
  /\ IoUnchanged

\* Some channel timers are due (what firing does is in module Channels).
IoFireTimers ==
  /\ ioPc = "timers"
  /\ \E n \in 0 .. timers : timers' = timers - n
  /\ ioPc' = "push"
  /\ UNCHANGED <<injector, sleeping, io, ready>>
  /\ IoUnchanged

\* Push what was collected, one task at a time.
IoPush ==
  /\ ioPc \in {"push", "pushWoken"}
  /\ \E t \in ready :
       /\ injector' = Append(injector, t)
       /\ ready' = ready \ {t}
  /\ UNCHANGED <<sleeping, io, timers, ioPc>>
  /\ IoUnchanged

IoPushed ==
  /\ ready = {}
  /\ \/ ioPc = "push" /\ ioPc' = "poll"
     \/ ioPc = "pushWoken" /\ ioPc' = "top"
  /\ UNCHANGED <<injector, sleeping, io, ready, timers>>
  /\ IoUnchanged

\* poll returned; the waiters of closed tokens and of events leave the list.
\* Which ones is the subject of module Reactor.
IoWake ==
  /\ ioPc = "poll"
  /\ \E woken \in SUBSET io :
       /\ io' = io \ woken
       /\ ready' = woken
  /\ ioPc' = "pushWoken"
  /\ UNCHANGED <<injector, sleeping, timers>>
  /\ IoUnchanged

(***************************************************************************)
(* VM::run joins the workers, then stops and joins the I/O thread.         *)
(***************************************************************************)
\* Mutant: the first worker that ends, or panics, stops the wait.
JoinOneWorker ==
  /\ runPc = "joinWorkers"
  /\ \E w \in Workers : pc[w] \in {"exited", "dead"}
  /\ shutdown' = TRUE
  /\ runPc' = "joinIo"
  /\ UNCHANGED <<queues, timers, active, fatal, pc, victim, spins, ioPc,
                 status>>

JoinWorkers ==
  /\ runPc = "joinWorkers"
  /\ \A w \in Workers : pc[w] \in {"exited", "dead"}
  /\ shutdown' = TRUE
  /\ runPc' = "joinIo"
  /\ UNCHANGED <<queues, timers, active, fatal, pc, victim, spins, ioPc,
                 status>>

JoinIo ==
  /\ runPc = "joinIo"
  /\ ioPc = "exited"
  /\ runPc' = "returned"
  /\ UNCHANGED <<queues, timers, active, shutdown, fatal, pc, victim, spins,
                 ioPc, status>>

-----------------------------------------------------------------------------
FindTask(w) == \/ PopLocal(w) \/ StealInjector(w) \/ NothingQueued(w)
               \/ StealFromPeer(w) \/ NextVictim(w)

IdleRound(w) == \/ ScanSleepers(w) \/ ScanTimers(w) \/ ScanIo(w) \/ Idle(w)
                \/ CountWaiting(w) \/ ReportDeadlock(w)

EndSlice(w) == \/ Requeue(w) \/ GoToSleep(w) \/ WaitForIo(w) \/ Complete(w)
               \/ MainError(w) \/ WorkerPanic(w)

Slice(w) == \/ \E c \in Tasks : SpawnCount(w, c)
            \/ SpawnFile(w) \/ AddTimer(w) \/ EndSlice(w) \/ Uncount(w)

Worker(w) == LoopTop(w) \/ FindTask(w) \/ IdleRound(w) \/ Slice(w)

IoThread == \/ IoTop \/ IoTakeDue \/ IoFireTimers \/ IoPush \/ IoPushed
            \/ IoWake

Run == JoinWorkers \/ JoinIo

\* The program is over: nothing is left to do.
Returned == runPc = "returned" /\ UNCHANGED vars

Next == (\E w \in Workers : Worker(w)) \/ IoThread \/ Run \/ Returned

Spec == Init /\ [][Next]_vars

(***************************************************************************)
(* Fairness.  Threads are scheduled by the OS, and a thread that waits for *)
(* a lock the I/O thread takes again and again gets it: parking_lot's      *)
(* mutexes are eventually fair, hence SF for the steps that take one.  A   *)
(* slice ends because it has fuel (2000 instructions), unless it is in a   *)
(* native that never returns (Blocking).  The world is fair too: a sleep   *)
(* or a timer comes due, a socket gets its answer, and the program's tasks *)
(* finish if they are run again and again.                                 *)
(***************************************************************************)
RunsBlocking(w) == hand[w] \in Blocking

Fairness ==
  /\ \A w \in Workers :
       /\ SF_vars(LoopTop(w) \/ FindTask(w) \/ IdleRound(w))
       /\ SF_vars(SpawnFile(w) \/ Uncount(w))
       /\ WF_vars(~RunsBlocking(w) /\ EndSlice(w))
  /\ WF_vars(IoThread)
  /\ WF_vars(Run)
  /\ \A t \in Sleepers : SF_vars(IoTakeDue /\ t \in ready')
  /\ \A t \in IoTasks : SF_vars(IoWake /\ t \in ready')
  /\ \A t \in Tasks \ Blocking :
       SF_vars(\E w \in Workers : hand[w] = t /\ Complete(w))

FairSpec == Spec /\ Fairness

-----------------------------------------------------------------------------
(***************************************************************************)
(* Properties.                                                             *)
(***************************************************************************)
PcLabels == {"top", "find", "run", "steal", "scanSleepers", "scanTimers",
             "scanIo", "pending", "quiet", "detect", "report", "spawn",
             "uncount", "exited", "dead"}

\* The values of the variables.
Types ==
  /\ injector \in Seq(Tasks)
  /\ deque \in [Workers -> Seq(Tasks)]
  /\ hand \in [Workers -> Tasks \cup {NoTask}]
  /\ child \in [Workers -> Tasks \cup {NoTask}]
  /\ sleeping \subseteq Tasks /\ io \subseteq Tasks /\ ready \subseteq Tasks
  /\ timers \in 0 .. MaxTimers
  /\ active \in Int
  /\ shutdown \in BOOLEAN
  /\ fatal \in {"none", "deadlock", "error"}
  /\ pc \in [Workers -> PcLabels]
  /\ victim \in [Workers -> Nat \ {0}]
  /\ spins \in [Workers -> 0 .. SpinLimit + 1]
  /\ ioPc \in {"top", "sleepers", "timers", "push", "poll", "pushWoken",
               "exited"}
  /\ runPc \in {"joinWorkers", "joinIo", "returned"}
  /\ status \in [Tasks -> {"unborn", "live", "done", "lost"}]

\* Type invariant: and the counter of active tasks never wraps below 0.
TypeOK == Types /\ active >= 0

Live == {t \in Tasks : status[t] = "live"}
Lost == {t \in Tasks : status[t] = "lost"}

\* Every place a task can be in, and the tasks that are there.
Places == ({"injector", "sleeping", "io", "ready"} \X {0})
            \cup ({"deque", "hand", "child"} \X Workers)

At(p) == LET w == p[2] IN
         CASE p[1] = "injector" -> Range(injector)
           [] p[1] = "sleeping" -> sleeping
           [] p[1] = "io" -> io
           [] p[1] = "ready" -> ready
           [] p[1] = "deque" -> Range(deque[w])
           [] p[1] = "hand" -> {hand[w]} \ {NoTask}
           [] p[1] = "child" -> {child[w]} \ {NoTask}

\* A live task is in exactly one place, once: no interleaving of pops, batch
\* steals, suspensions and wake-ups loses a task or runs it twice at a time.
EachTaskInOnePlace ==
  /\ UNION {At(p) : p \in Places} = Live
  /\ \A p, q \in Places : p # q => At(p) \cap At(q) = {}
  /\ IsInjective(injector)
  /\ \A w \in Workers : IsInjective(deque[w])

\* active_tasks counts the tasks that are not over, those of a thread that
\* died included, and the ones whose completion is about to be counted.
ActiveCountsTasks ==
  active = Cardinality(Live) + Cardinality(Lost)
             + Cardinality({w \in Workers : pc[w] = "uncount"})

\* A worker that leaves its loop without a fatal error leaves no task behind:
\* the count was raised before each spawned task became visible.
ExitMeansDone ==
  fatal = "none" /\ (\E w \in Workers : pc[w] = "exited")
    => Live = {} /\ Lost = {}

\* VM::run returns Ok only when every task it ever counted has completed.
OkMeansAllDone ==
  runPc = "returned" /\ fatal = "none" => Live = {} /\ Lost = {}

(***************************************************************************)
(* The scheduler implements TaskPool with one slot per worker.             *)
(***************************************************************************)
Suspended == sleeping \cup io \cup ({child[w] : w \in Workers} \cap NativeTasks)

Phase(t) == IF status[t] # "live" THEN status[t]
            ELSE IF \E w \in Workers : hand[w] = t THEN "running"
            ELSE IF t \in Suspended THEN "suspended"
            ELSE "queued"

Pool == INSTANCE TaskPool WITH
          Slots <- NumWorkers,
          phase <- [t \in Tasks |-> Phase(t)],
          outcome <- IF runPc # "returned" THEN "running"
                     ELSE IF fatal = "none" THEN "ok" ELSE "error"

\* Seen from the program, the run is a run of the abstract pool: a task runs
\* on one thread at a time, none comes back once over, and VM::run returns Ok
\* only when no task is queued, running or suspended.
ImplementsTaskPool == Pool!PoolSpec

\* "all woroutines are asleep": at the report no task is running or queued.
ReportIsTruthful ==
  [][fatal = "none" /\ fatal' = "deadlock" => Live \subseteq sleeping \cup io]_vars

\* Every task that was spawned completes unless the run ends in an error.
SpawnedTasksComplete ==
  \A t \in Tasks : status[t] = "live" ~> (status[t] = "done" \/ fatal # "none")

\* The same for the tasks whose natives return, whatever a blocked worker
\* holds: "work-stealing: steal from peers".
UnblockedTasksComplete ==
  \A t \in Tasks \ Blocking :
    status[t] = "live" ~> (status[t] = "done" \/ fatal # "none")

\* VM::run returns.
Termination == <>(runPc = "returned")

(***************************************************************************)
(* What the two deviations of the README amount to; module                 *)
(* SchedulerTheorems proves both for every number of workers.              *)
(***************************************************************************)
\* A worker steals from the deque at its own index only if it is its own, which
\* is no theft: find_task skips that index, and the mirrored hand-out of the
\* deques gave it to another worker.
SparesItsMirror(w) ==
  StealFromPeer(w) /\ OwnDeque(w) # w => deque'[w] = deque[w]

\* Work stealing has a blind spot: worker w and worker NumWorkers - 1 - w never
\* take a task from one another, however long one of them is stuck.
MirrorsNeverSteal == [][\A w \in Workers : SparesItsMirror(w)]_vars

\* A task is suspended in a list between the moment worker w found that list
\* empty and the moment it counts the tasks in it.
LateSuspension(w) ==
  \/ /\ pc[w] \in {"scanTimers", "scanIo", "quiet", "detect"}
     /\ ~(sleeping' \subseteq sleeping)
  \/ /\ pc[w] \in {"quiet", "detect"}
     /\ ~(io' \subseteq io)

\* The idle rounds are never overtaken in that way ...
NoLateSuspension == \A w \in Workers : ~LateSuspension(w)

\* ... and then "all woroutines are asleep" is never reported.
NoReport == fatal # "deadlock"
=============================================================================

-------------------------- MODULE SchedulerTheorems --------------------------
(***************************************************************************)
(* The inductive invariant of module Scheduler and the theorems that       *)
(* follow from it, for every number of workers, every finite set of tasks  *)
(* and every program profile: its safety properties, and that it           *)
(* implements module TaskPool.                                             *)
(***************************************************************************)
EXTENDS SchedulerProofs

USE NumWorkersAssumption, TasksAssumption, ProgramAssumption, BoundsAssumption

\* Only its owner pushes to a deque, and it scans the others when it is empty.
ScansWhenEmpty == \A w \in Workers : pc[w] = "steal" => deque[OwnDeque(w)] = <<>>

Uncounting == {w \in Workers : pc[w] = "uncount"}
Dead == {w \in Workers : pc[w] = "dead"}

\* What makes a worker, and then VM::run, stop.
StopsOK ==
  /\ runPc # "joinWorkers" => \A w \in Workers : pc[w] \in {"exited", "dead"}
  /\ fatal = "none" /\ runPc = "joinWorkers" => ~shutdown
  /\ fatal = "none" /\ (\E w \in Workers : pc[w] = "exited") => active = 0

\* Each thread that died took a task of its own with it.
PanicsCounted == Cardinality(Dead) <= Cardinality(Lost \cap Panicking)

(***************************************************************************)
(* Placed and StopsOK alone are not inductive: a thief would overwrite its *)
(* own deque without ScansWhenEmpty, and a spawn or a completion would     *)
(* bring the counter back from 0, or below it, without ActiveCountsTasks.  *)
(***************************************************************************)
IInv == /\ Shape /\ Placed /\ ScansWhenEmpty /\ ActiveCountsTasks
        /\ StopsOK /\ PanicsCounted

-----------------------------------------------------------------------------
(***************************************************************************)
(* The initial state: one task, in the injector.                           *)
(***************************************************************************)
LEMMA PlacedInit == Init => Placed
<1> SUFFICES ASSUME Init PROVE Placed
  OBVIOUS
<1>1. /\ injector = <<Main>> /\ sleeping = {} /\ io = {} /\ ready = {}
      /\ deque = [w \in Workers |-> <<>>]
      /\ hand = [w \in Workers |-> NoTask] /\ child = [w \in Workers |-> NoTask]
  BY DEF Init
<1>2. Live = {Main}
  BY DEF Live, Init
<1>3. Range(injector) = {Main} /\ IsInjective(injector)
  BY <1>1 DEF Range, IsInjective
<1>4. \A w \in Workers : Range(deque[w]) = {} /\ IsInjective(deque[w])
  BY <1>1 DEF Range, IsInjective
<1>5. Where[Inj] = {Main}
  BY <1>3, WhereIs
<1>6. \A r \in Places \ {Inj} : Where[r] = {}
  <2>1. \A w \in Workers : Where[Dq(w)] = {} /\ Where[Hd(w)] = {} /\ Where[Ch(w)] = {}
    BY <1>1, <1>4, WhereIs
  <2>2. Where[Slp] = {} /\ Where[IoL] = {} /\ Where[Rdy] = {}
    BY <1>1, WhereIs
  <2> QED BY <2>1, <2>2, PlaceNames
<1>7. Inj \in Places
  BY PlaceNames
<1>8. UNION {Where[r] : r \in Places} = {Main}
  BY <1>5, <1>6, <1>7
<1>9. \A r, s \in Places : r # s => Where[r] \cap Where[s] = {}
  BY <1>6
<1> QED BY <1>2, <1>3, <1>4, <1>8, <1>9 DEF Placed, Partition, Distinct

(***************************************************************************)
(* Every step keeps every live task in one place.                          *)
(***************************************************************************)
LEMMA PlacedNext == Shape /\ Placed /\ ScansWhenEmpty /\ [Next]_vars => Placed'
<1> SUFFICES ASSUME Shape, Placed, ScansWhenEmpty, [Next]_vars PROVE Placed'
  OBVIOUS
<1>1. ASSUME NEW w \in Workers, FindTask(w) PROVE Placed'
  <2>1. ASSUME StealFromPeer(w) PROVE Placed'
    <3>1. deque[OwnDeque(w)] = <<>>
      BY <2>1 DEF StealFromPeer, ScansWhenEmpty
    <3> QED BY <2>1, <3>1, PlacedStealFromPeer
  <2> QED BY <1>1, <2>1, PlacedPopLocal, PlacedStealInjector, PlacedStill DEF FindTask
<1>2. ASSUME NEW w \in Workers, Slice(w) PROVE Placed'
  BY <1>2, PlacedSpawn, PlacedRequeue, PlacedEnd, PlacedStill DEF Slice, EndSlice
<1>3. ASSUME NEW w \in Workers, LoopTop(w) \/ IdleRound(w) PROVE Placed'
  BY <1>3, PlacedStill
<1>4. ASSUME IoThread PROVE Placed'
  BY <1>4, PlacedIo
<1>5. ASSUME Run \/ UNCHANGED vars PROVE Placed'
  <2>1. 0 \in Workers
    BY DEF Workers
  <2> QED BY <1>5, <2>1, PlacedStill
<1> QED BY <1>1, <1>2, <1>3, <1>4, <1>5 DEF Next, Worker, Returned

(***************************************************************************)
(* No worker pushes to the deque of another.                               *)
(***************************************************************************)
LEMMA ScansWhenEmptyNext ==
  Shape /\ ScansWhenEmpty /\ [Next]_vars => ScansWhenEmpty'
<1> SUFFICES ASSUME Shape, ScansWhenEmpty, [Next]_vars,
                    NEW x \in Workers, pc'[x] = "steal"
             PROVE  deque'[OwnDeque(x)] = <<>>
  BY DEF ScansWhenEmpty
<1> USE DEF Shape, Types
<1>1. OwnDeque(x) \in Workers /\ \A w \in Workers : w # x => OwnDeque(w) # OwnDeque(x)
  BY DEF OwnDeque, Workers
<1>2. ASSUME NEW w \in Workers, NothingQueued(w) \/ NextVictim(w)
      PROVE  deque'[OwnDeque(x)] = <<>>
  BY <1>2 DEF NothingQueued, NextVictim, GoTo, ScansWhenEmpty, queues
<1>3. ASSUME NEW w \in Workers, NEW t, StartSlice(w, t)
      PROVE  x # w /\ pc[x] = "steal"
  BY <1>3 DEF StartSlice, GoTo
<1>4. ASSUME NEW w \in Workers, PopLocal(w)
      PROVE  deque'[OwnDeque(x)] = <<>>
  <2>1. x # w /\ pc[x] = "steal"
    BY <1>3, <1>4 DEF PopLocal
  <2> QED BY <1>1, <1>4, <2>1 DEF PopLocal, ScansWhenEmpty
<1>5. ASSUME NEW w \in Workers, StealInjector(w)
      PROVE  deque'[OwnDeque(x)] = <<>>
  <2>1. x # w /\ pc[x] = "steal"
    BY <1>3, <1>5 DEF StealInjector
  <2> QED BY <1>1, <1>5, <2>1 DEF StealInjector, ScansWhenEmpty
<1>6. ASSUME NEW w \in Workers, StealFromPeer(w)
      PROVE  deque'[OwnDeque(x)] = <<>>
  <2>1. x # w /\ pc[x] = "steal"
    BY <1>3, <1>6 DEF StealFromPeer
  <2>2. deque[OwnDeque(x)] = <<>> /\ OwnDeque(x) # OwnDeque(w)
    BY <1>1, <2>1 DEF ScansWhenEmpty
  <2>3. OwnDeque(x) # Victim(w, victim[w])
    BY <1>6, <2>2 DEF StealFromPeer
  <2> QED BY <1>1, <1>6, <2>2, <2>3 DEF StealFromPeer
<1>7. ASSUME NEW w \in Workers, LoopTop(w) \/ IdleRound(w) \/ Slice(w)
      PROVE  deque'[OwnDeque(x)] = <<>>
  <2>1. deque' = deque
    BY <1>7 DEF LoopTop, IdleRound, ScanSleepers, ScanTimers, ScanIo, ScanStep,
                Idle, CountWaiting, ReportDeadlock, Slice, SpawnCount, SpawnFile,
                AddTimer, EndSlice, Requeue, GoToSleep, WaitForIo, Complete,
                MainError, WorkerPanic, Uncount, queues
  <2>2. pc[x] = "steal"
    BY <1>7 DEF LoopTop, IdleRound, ScanSleepers, ScanTimers, ScanIo, ScanStep,
                Idle, CountWaiting, ReportDeadlock, Slice, SpawnCount, SpawnFile,
                AddTimer, EndSlice, Requeue, GoToSleep, WaitForIo, Complete,
                MainError, WorkerPanic, Uncount, GoTo
  <2> QED BY <2>1, <2>2 DEF ScansWhenEmpty
<1>8. ASSUME IoThread \/ Run \/ UNCHANGED vars
      PROVE  deque'[OwnDeque(x)] = <<>>
  BY <1>8 DEF IoThread, IoTop, IoTakeDue, IoFireTimers, IoPush, IoPushed, IoWake,
              IoUnchanged, Run, JoinWorkers, JoinIo, vars, queues, ScansWhenEmpty
<1> QED BY <1>2, <1>4, <1>5, <1>6, <1>7, <1>8
        DEF Next, Worker, FindTask, Returned

-----------------------------------------------------------------------------
(***************************************************************************)
(* Counting.                                                               *)
(***************************************************************************)

(***************************************************************************)
(* The sets the counters count are finite.                                 *)
(***************************************************************************)
LEMMA Finite ==
  /\ IsFiniteSet(Live) /\ IsFiniteSet(Lost) /\ IsFiniteSet(Lost \cap Panicking)
  /\ IsFiniteSet(Uncounting) /\ IsFiniteSet(Dead) /\ IsFiniteSet(Workers)
<1>1. IsFiniteSet(Workers)
  BY FS_Interval DEF Workers
<1>2. /\ Live \subseteq Tasks /\ Lost \subseteq Tasks /\ Lost \cap Panicking \subseteq Tasks
      /\ Uncounting \subseteq Workers /\ Dead \subseteq Workers
  BY DEF Live, Lost, Uncounting, Dead
<1> QED BY <1>1, <1>2, FS_Subset

(***************************************************************************)
(* The counter is a natural number, and 0 only when no task is left and no *)
(* completion is waiting to be counted.                                    *)
(***************************************************************************)
LEMMA CountZero ==
  ASSUME ActiveCountsTasks
  PROVE  /\ active \in Nat
         /\ active = 0 <=> Live = {} /\ Lost = {} /\ Uncounting = {}
<1>1. active = Cardinality(Live) + Cardinality(Lost) + Cardinality(Uncounting)
  BY DEF ActiveCountsTasks, Uncounting
<1>2. /\ Cardinality(Live) \in Nat /\ Cardinality(Lost) \in Nat
      /\ Cardinality(Uncounting) \in Nat
  BY Finite, FS_CardinalityType
<1>3. /\ Cardinality(Live) = 0 <=> Live = {}
      /\ Cardinality(Lost) = 0 <=> Lost = {}
      /\ Cardinality(Uncounting) = 0 <=> Uncounting = {}
  BY Finite, FS_EmptySet
<1> QED BY <1>1, <1>2, <1>3

(***************************************************************************)
(* The task of a slice is live.                                            *)
(***************************************************************************)
LEMMA HandIsLive ==
  ASSUME Shape, Placed, NEW w \in Workers, pc[w] \in {"run", "spawn"}
  PROVE  hand[w] \in Live
<1>1. hand[w] # NoTask
  BY DEF Shape, HandsOK
<1>2. hand[w] \in Where[Hd(w)] /\ Hd(w) \in Places
  BY <1>1, WhereIs, PlaceNames
<1> QED BY <1>2 DEF Placed, Partition

\* Which step changes what the counters count.
Steps == /\ \E w \in Workers : \/ \E c \in Tasks : SpawnCount(w, c)
                               \/ Complete(w) \/ Uncount(w)
                               \/ MainError(w) \/ WorkerPanic(w)

(***************************************************************************)
(* All other steps leave the status of the tasks, the counter and the      *)
(* workers the counters count alone.                                       *)
(***************************************************************************)
LEMMA OtherSteps ==
  ASSUME Shape, [Next]_vars, ~Steps
  PROVE  /\ status' = status /\ active' = active
         /\ Uncounting' = Uncounting /\ Dead' = Dead
<1> USE DEF Shape, Types
<1>1. ASSUME NEW w \in Workers, NEW l, GoTo(w, l),
             pc[w] \notin {"uncount", "dead"}, l \notin {"uncount", "dead"}
      PROVE  Uncounting' = Uncounting /\ Dead' = Dead
  BY <1>1 DEF GoTo, Uncounting, Dead
<1>2. ASSUME NEW w \in Workers, FindTask(w)
      PROVE  /\ status' = status /\ active' = active
             /\ Uncounting' = Uncounting /\ Dead' = Dead
  <2>1. status' = status /\ active' = active
    BY <1>2 DEF FindTask, PopLocal, StealInjector, NothingQueued, StealFromPeer,
                NextVictim
  <2>2. pc[w] \in {"find", "steal"}
    BY <1>2 DEF FindTask, PopLocal, StealInjector, NothingQueued, StealFromPeer,
                NextVictim
  <2>3. GoTo(w, "run") \/ GoTo(w, "steal") \/ GoTo(w, "scanSleepers")
    <3>1. CASE PopLocal(w) \/ StealInjector(w) \/ StealFromPeer(w)
      <4>1. \E t : StartSlice(w, t)
        BY <3>1 DEF PopLocal, StealInjector, StealFromPeer
      <4> QED BY <4>1 DEF StartSlice
    <3>2. CASE NothingQueued(w)
      <4>1. CASE NumWorkers > 1
        BY <3>2, <4>1 DEF NothingQueued
      <4>2. CASE ~(NumWorkers > 1)
        BY <3>2, <4>2 DEF NothingQueued
      <4> QED BY <4>1, <4>2
    <3>3. CASE NextVictim(w)
      <4>1. CASE victim[w] = NumWorkers - 1
        BY <3>3, <4>1 DEF NextVictim
      <4>2. CASE victim[w] # NumWorkers - 1
        BY <3>3, <4>2 DEF NextVictim
      <4> QED BY <4>1, <4>2
    <3> QED BY <1>2, <3>1, <3>2, <3>3 DEF FindTask
  <2> QED BY <1>1, <2>1, <2>2, <2>3
<1>3. ASSUME NEW w \in Workers, LoopTop(w) \/ IdleRound(w)
      PROVE  /\ status' = status /\ active' = active
             /\ Uncounting' = Uncounting /\ Dead' = Dead
  <2>1. status' = status /\ active' = active
    BY <1>3 DEF LoopTop, IdleRound, ScanSleepers, ScanTimers, ScanIo, ScanStep,
                Idle, CountWaiting, ReportDeadlock
  <2>2. pc[w] \notin {"uncount", "dead"}
    BY <1>3 DEF LoopTop, IdleRound, ScanSleepers, ScanTimers, ScanIo, ScanStep,
                Idle, CountWaiting, ReportDeadlock
  <2>3. \E l \in {"exited", "find", "pending", "scanTimers", "scanIo", "quiet",
                  "top", "detect", "report"} : GoTo(w, l)
    <3>1. CASE LoopTop(w)
      BY <3>1 DEF LoopTop
    <3>2. CASE ScanSleepers(w) \/ ScanTimers(w) \/ ScanIo(w)
      <4>1. GoTo(w, "pending") \/ GoTo(w, "scanTimers") \/ GoTo(w, "scanIo")
              \/ GoTo(w, "quiet")
        BY <3>2 DEF ScanSleepers, ScanTimers, ScanIo, ScanStep
      <4> QED BY <4>1
    <3>3. CASE Idle(w)
      <4>1. GoTo(w, "exited") \/ GoTo(w, "top") \/ GoTo(w, "detect")
        BY <3>3 DEF Idle
      <4> QED BY <4>1
    <3>4. CASE CountWaiting(w) \/ ReportDeadlock(w)
      <4>1. GoTo(w, "exited") \/ GoTo(w, "top") \/ GoTo(w, "report")
        BY <3>4 DEF CountWaiting, ReportDeadlock
      <4> QED BY <4>1
    <3> QED BY <1>3, <3>1, <3>2, <3>3, <3>4 DEF IdleRound
  <2> QED BY <1>1, <2>1, <2>2, <2>3
<1>4. ASSUME NEW w \in Workers, Slice(w)
      PROVE  /\ status' = status /\ active' = active
             /\ Uncounting' = Uncounting /\ Dead' = Dead
  <2>1. SpawnFile(w) \/ AddTimer(w) \/ Requeue(w) \/ GoToSleep(w) \/ WaitForIo(w)
    BY <1>4 DEF Slice, EndSlice, Steps
  <2>2. status' = status /\ active' = active
    BY <2>1 DEF SpawnFile, AddTimer, Requeue, GoToSleep, WaitForIo
  <2>3. CASE AddTimer(w)
    BY <2>2, <2>3 DEF AddTimer, Uncounting, Dead
  <2>4. CASE SpawnFile(w) \/ Requeue(w) \/ GoToSleep(w) \/ WaitForIo(w)
    <3>1. pc[w] \in {"spawn", "run"} /\ (GoTo(w, "run") \/ GoTo(w, "top"))
      BY <2>4 DEF SpawnFile, Requeue, GoToSleep, WaitForIo, Running
    <3> QED BY <1>1, <2>2, <3>1
  <2> QED BY <2>1, <2>3, <2>4
<1>5. ASSUME IoThread \/ Run \/ UNCHANGED vars
      PROVE  /\ status' = status /\ active' = active
             /\ Uncounting' = Uncounting /\ Dead' = Dead
  <2>1. status' = status /\ active' = active /\ pc' = pc
    BY <1>5 DEF IoThread, IoTop, IoTakeDue, IoFireTimers, IoPush, IoPushed, IoWake,
                IoUnchanged, Run, JoinWorkers, JoinIo, vars
  <2> QED BY <2>1 DEF Uncounting, Dead
<1> QED BY <1>2, <1>3, <1>4, <1>5 DEF Next, Worker, Returned

(***************************************************************************)
(* The counter stays in step with the tasks: a task is counted before      *)
(* anybody can see it, and uncounted once, after it is over.               *)
(***************************************************************************)
LEMMA CountNext ==
  ASSUME Shape, Placed, ActiveCountsTasks, [Next]_vars
  PROVE  ActiveCountsTasks'
<1> USE DEF Shape, Types
<1> DEFINE l == Cardinality(Live)
           d == Cardinality(Lost)
           u == Cardinality(Uncounting)
<1>1. active = l + d + u /\ l \in Nat /\ d \in Nat /\ u \in Nat
  BY Finite, FS_CardinalityType DEF ActiveCountsTasks, Uncounting
<1>2. SUFFICES active' = l' + d' + u'
  BY DEF ActiveCountsTasks, Uncounting
<1>3. CASE ~Steps
  <2>1. Live' = Live /\ Lost' = Lost /\ Uncounting' = Uncounting /\ active' = active
    BY <1>3, OtherSteps DEF Live, Lost
  <2> QED BY <1>1, <2>1
<1>4. ASSUME NEW w \in Workers, NEW c \in Tasks, SpawnCount(w, c)
      PROVE  active' = l' + d' + u'
  <2>1. Live' = Live \cup {c} /\ c \notin Live /\ Lost' = Lost
    BY <1>4 DEF SpawnCount, Live, Lost
  <2>2. Uncounting' = Uncounting
    BY <1>4 DEF SpawnCount, Running, GoTo, Uncounting
  <2>3. l' = l + 1
    BY <2>1, Finite, FS_AddElement
  <2>4. active' = active + 1
    BY <1>4 DEF SpawnCount
  <2> HIDE DEF l
  <2>5. d' = d /\ u' = u
    BY <2>1, <2>2
  <2> HIDE DEF d, u
  <2> QED BY <1>1, <2>3, <2>4, <2>5
<1>5. ASSUME NEW w \in Workers, Complete(w)
      PROVE  active' = l' + d' + u'
  <2>1. hand[w] \in Live
    BY <1>5, HandIsLive DEF Complete
  <2>2. Live' = Live \ {hand[w]} /\ Lost' = Lost
    BY <1>5, <2>1 DEF Complete, Live, Lost
  <2>3. Uncounting' = Uncounting \cup {w} /\ w \notin Uncounting
    BY <1>5 DEF Complete, GoTo, Uncounting
  <2>4. l' = l - 1
    BY <2>1, <2>2, Finite, FS_RemoveElement
  <2>5. u' = u + 1
    BY <2>3, Finite, FS_AddElement
  <2>6. d' = d /\ active' = active
    BY <1>5, <2>2 DEF Complete
  <2> HIDE DEF l, d, u
  <2> QED BY <1>1, <2>4, <2>5, <2>6
<1>6. ASSUME NEW w \in Workers, Uncount(w)
      PROVE  active' = l' + d' + u'
  <2>1. Live' = Live /\ Lost' = Lost
    BY <1>6 DEF Uncount, Live, Lost
  <2>2. Uncounting' = Uncounting \ {w} /\ w \in Uncounting
    BY <1>6 DEF Uncount, GoTo, Uncounting
  <2>3. u' = u - 1
    BY <2>2, Finite, FS_RemoveElement
  <2>4. l' = l /\ d' = d /\ active' = active - 1
    BY <1>6, <2>1 DEF Uncount
  <2> HIDE DEF l, d, u
  <2> QED BY <1>1, <2>3, <2>4
<1>7. ASSUME NEW w \in Workers, MainError(w) \/ WorkerPanic(w)
      PROVE  active' = l' + d' + u'
  <2>1. hand[w] \in Live
    BY <1>7, HandIsLive DEF MainError, WorkerPanic, Running
  <2>2. Live' = Live \ {hand[w]} /\ Lost' = Lost \cup {hand[w]} /\ hand[w] \notin Lost
    BY <1>7, <2>1 DEF MainError, WorkerPanic, Live, Lost
  <2>3. Uncounting' = Uncounting
    BY <1>7 DEF MainError, WorkerPanic, Running, GoTo, Uncounting
  <2>4. l' = l - 1
    BY <2>1, <2>2, Finite, FS_RemoveElement
  <2>5. d' = d + 1
    BY <2>2, Finite, FS_AddElement
  <2>6. u' = u /\ active' = active
    BY <1>7, <2>3 DEF MainError, WorkerPanic
  <2> HIDE DEF l, d, u
  <2> QED BY <1>1, <2>4, <2>5, <2>6
<1> QED BY <1>3, <1>4, <1>5, <1>6, <1>7 DEF Steps

(***************************************************************************)
(* A worker leaves without a fatal error only when nothing is active, and  *)
(* then nothing ever is: only a live task spawns.                          *)
(***************************************************************************)
LEMMA StopsNext ==
  ASSUME Shape, Placed, ActiveCountsTasks, StopsOK, [Next]_vars
  PROVE  StopsOK'
<1> USE DEF Shape, Types
<1>1. active \in Nat /\ (active = 0 => Live = {} /\ Uncounting = {})
  BY CountZero
<1>2. CASE Steps
  <2>1. \E w \in Workers : pc[w] \in {"run", "uncount"} /\ (pc[w] = "run" => hand[w] \in Live)
    BY <1>2, HandIsLive DEF Steps, SpawnCount, Complete, Uncount, MainError,
                            WorkerPanic, Running
  <2>2. active # 0 /\ runPc = "joinWorkers"
    BY <1>1, <2>1 DEF Uncounting, StopsOK
  <2>3. fatal = "none" => \A x \in Workers : pc[x] # "exited"
    BY <2>2 DEF StopsOK
  <2>4. runPc' = runPc /\ (fatal' = "none" => fatal = "none" /\ shutdown' = shutdown)
    BY <1>2 DEF Steps, SpawnCount, Complete, Uncount, MainError, WorkerPanic,
                SetFatal, Running
  <2>5. fatal' = "none" => \A x \in Workers : pc'[x] # "exited"
    BY <1>2, <2>3, <2>4 DEF Steps, SpawnCount, Complete, Uncount, MainError,
                            WorkerPanic, SetFatal, Running, GoTo
  <2> QED BY <2>2, <2>4, <2>5 DEF StopsOK
<1>3. CASE ~Steps
  <2>1. active' = active
    BY <1>3, OtherSteps
  <2>2. ASSUME NEW w \in Workers, LoopTop(w) PROVE StopsOK'
    BY <2>1, <2>2 DEF LoopTop, GoTo, StopsOK
  <2>3. ASSUME NEW w \in Workers, Idle(w) PROVE StopsOK'
    BY <2>1, <2>3 DEF Idle, GoTo, StopsOK
  <2>4. ASSUME NEW w \in Workers, ReportDeadlock(w) PROVE StopsOK'
    BY <2>1, <2>4 DEF ReportDeadlock, SetFatal, GoTo, StopsOK
  <2>5. ASSUME NEW w \in Workers,
               \/ ScanSleepers(w) \/ ScanTimers(w) \/ ScanIo(w) \/ CountWaiting(w)
               \/ FindTask(w) \/ SpawnFile(w) \/ AddTimer(w)
               \/ Requeue(w) \/ GoToSleep(w) \/ WaitForIo(w)
        PROVE  StopsOK'
    <3>1. UNCHANGED <<fatal, shutdown, runPc>> /\ pc[w] \notin {"exited", "dead"}
      BY <2>5 DEF ScanSleepers, ScanTimers, ScanIo, ScanStep, CountWaiting, FindTask,
                  PopLocal, StealInjector, NothingQueued, StealFromPeer, NextVictim,
                  SpawnFile, AddTimer, Requeue, GoToSleep, WaitForIo, Running
    <3>2. \A x \in Workers : pc'[x] = "exited" => pc[x] = "exited"
      BY <2>5 DEF ScanSleepers, ScanTimers, ScanIo, ScanStep, CountWaiting, FindTask,
                  PopLocal, StealInjector, NothingQueued, StealFromPeer, NextVictim,
                  StartSlice, SpawnFile, AddTimer, Requeue, GoToSleep, WaitForIo, GoTo
    <3> QED BY <2>1, <3>1, <3>2 DEF StopsOK
  <2>6. CASE IoThread \/ Run \/ UNCHANGED vars
    BY <2>1, <2>6 DEF IoThread, IoTop, IoTakeDue, IoFireTimers, IoPush, IoPushed,
                      IoWake, IoUnchanged, Run, JoinWorkers, JoinIo, vars, StopsOK
  <2> QED BY <1>3, <2>2, <2>3, <2>4, <2>5, <2>6
          DEF Next, Worker, IdleRound, Slice, EndSlice, Steps, Returned
<1> QED BY <1>2, <1>3

(***************************************************************************)
(* A thread dies only of a native that panics, and its task dies with it.  *)
(***************************************************************************)
LEMMA PanicsNext ==
  ASSUME Shape, Placed, PanicsCounted, [Next]_vars
  PROVE  PanicsCounted'
<1> USE DEF Shape, Types
<1> DEFINE lp == Lost \cap Panicking
<1>1. /\ Cardinality(Dead) \in Nat /\ Cardinality(lp) \in Nat
      /\ Cardinality(Dead) <= Cardinality(lp)
  BY Finite, FS_CardinalityType DEF PanicsCounted
<1>2. CASE ~Steps
  <2>1. Dead' = Dead /\ lp' = lp
    BY <1>2, OtherSteps DEF Lost
  <2> QED BY <1>1, <2>1 DEF PanicsCounted
<1>3. ASSUME NEW w \in Workers,
             (\E c \in Tasks : SpawnCount(w, c)) \/ Complete(w) \/ Uncount(w)
      PROVE  PanicsCounted'
  <2>1. Dead' = Dead
    BY <1>3 DEF SpawnCount, Complete, Uncount, Running, GoTo, Dead
  <2>2. (w \in Workers /\ pc[w] \in {"run"}) => hand[w] \in Live
    BY HandIsLive
  <2>3. lp' = lp
    BY <1>3, <2>2 DEF SpawnCount, Complete, Uncount, Live, Lost
  <2> QED BY <1>1, <2>1, <2>3 DEF PanicsCounted
<1>4. ASSUME NEW w \in Workers, MainError(w)
      PROVE  PanicsCounted'
  <2>1. Dead' = Dead
    BY <1>4 DEF MainError, Running, GoTo, Dead
  <2>2. lp' = lp \/ lp' = lp \cup {Main}
    BY <1>4 DEF MainError, Lost
  <2>3. /\ Cardinality(lp \cup {Main}) \in {Cardinality(lp), Cardinality(lp) + 1}
    BY Finite, FS_AddElement
  <2>4. Cardinality(lp') = Cardinality(lp) \/ Cardinality(lp') = Cardinality(lp) + 1
    BY <2>2, <2>3
  <2>5. Cardinality(Dead') <= Cardinality(lp')
    BY <1>1, <2>1, <2>4
  <2> QED BY <2>5 DEF PanicsCounted
<1>5. ASSUME NEW w \in Workers, WorkerPanic(w)
      PROVE  PanicsCounted'
  <2>1. hand[w] \in Live
    BY <1>5, HandIsLive DEF WorkerPanic, Running
  <2>2. Dead' = Dead \cup {w} /\ w \notin Dead
    BY <1>5 DEF WorkerPanic, Running, GoTo, Dead
  <2>3. lp' = lp \cup {hand[w]} /\ hand[w] \notin lp
    BY <1>5, <2>1 DEF WorkerPanic, Live, Lost
  <2>4. Cardinality(Dead') = Cardinality(Dead) + 1
    BY <2>2, Finite, FS_AddElement
  <2>5. Cardinality(lp') = Cardinality(lp) + 1
    BY <2>3, Finite, FS_AddElement
  <2>6. Cardinality(Dead') <= Cardinality(lp')
    BY <1>1, <2>4, <2>5
  <2> QED BY <2>6 DEF PanicsCounted
<1> QED BY <1>2, <1>3, <1>4, <1>5 DEF Steps

-----------------------------------------------------------------------------
(***************************************************************************)
(* The inductive invariant holds initially.                                *)
(***************************************************************************)
LEMMA IInvInit == Init => IInv
<1> SUFFICES ASSUME Init PROVE IInv
  OBVIOUS
<1>1. Live = {Main} /\ Lost = {} /\ Uncounting = {} /\ Dead = {}
  BY DEF Init, Live, Lost, Uncounting, Dead
<1>2. Cardinality({}) = 0 /\ IsFiniteSet({}) /\ Cardinality({Main}) = 1
  BY FS_EmptySet, FS_Singleton
<1>3. active = 1 /\ runPc = "joinWorkers" /\ shutdown = FALSE
  BY DEF Init
<1>4. pc = [w \in Workers |-> "top"]
  BY DEF Init
<1>5. ActiveCountsTasks
  BY <1>1, <1>2, <1>3 DEF ActiveCountsTasks, Uncounting
<1>6. PanicsCounted
  <2>1. Lost \cap Panicking = {}
    BY <1>1
  <2> QED BY <1>1, <1>2, <2>1 DEF PanicsCounted
<1>7. ScansWhenEmpty /\ StopsOK
  BY <1>3, <1>4 DEF ScansWhenEmpty, StopsOK
<1> QED BY <1>5, <1>6, <1>7, ShapeInit, PlacedInit DEF IInv

(***************************************************************************)
(* Every step preserves the inductive invariant.                           *)
(***************************************************************************)
LEMMA IInvNext == IInv /\ [Next]_vars => IInv'
BY ShapeNext, PlacedNext, ScansWhenEmptyNext, CountNext, StopsNext, PanicsNext
   DEF IInv

(***************************************************************************)
(* The inductive invariant is an invariant of the scheduler.               *)
(***************************************************************************)
THEOREM SchedulerInvariant == Spec => []IInv
BY IInvInit, IInvNext, PTL DEF Spec

(***************************************************************************)
(* The scheduler's variables keep their types and active_tasks never wraps *)
(* below 0 (a usize in vm.rs).                                             *)
(***************************************************************************)
THEOREM TypeCorrect == Spec => []TypeOK
<1>1. IInv => TypeOK
  BY CountZero DEF IInv, Shape, TypeOK
<1> QED BY <1>1, SchedulerInvariant, PTL

(***************************************************************************)
(* No interleaving of pops, batch steals, suspensions, wake-ups and spawns *)
(* loses a live task, queues it twice, or lets two workers run it.         *)
(***************************************************************************)
THEOREM NoTaskLostOrDoubled == Spec => []EachTaskInOnePlace
<1>1. IInv => EachTaskInOnePlace
  BY OnePlaceIsPartition DEF IInv, Placed
<1> QED BY <1>1, SchedulerInvariant, PTL

(***************************************************************************)
(* active_tasks is exact: the tasks that are not over, plus those whose    *)
(* completion is about to be subtracted.                                   *)
(***************************************************************************)
THEOREM CounterExact == Spec => []ActiveCountsTasks
<1>1. IInv => ActiveCountsTasks
  BY DEF IInv
<1> QED BY <1>1, SchedulerInvariant, PTL

(***************************************************************************)
(* A worker that leaves run_worker_loop without a fatal error leaves no    *)
(* task behind, wherever the other threads are.                            *)
(***************************************************************************)
THEOREM WorkersExitLast == Spec => []ExitMeansDone
<1>1. IInv => ExitMeansDone
  <2> SUFFICES ASSUME IInv, fatal = "none", \E w \in Workers : pc[w] = "exited"
               PROVE  Live = {} /\ Lost = {}
    BY DEF ExitMeansDone
  <2>1. active = 0
    BY DEF IInv, StopsOK
  <2> QED BY <2>1, CountZero DEF IInv
<1> QED BY <1>1, SchedulerInvariant, PTL

(***************************************************************************)
(* VM::run answers Ok only when every task is over, provided fewer tasks   *)
(* than there are workers call a native that panics: a panic costs its     *)
(* thread, and once the last one is gone the joins of VM::run return with  *)
(* tasks still queued.                                                     *)
(***************************************************************************)
THEOREM OkIsComplete ==
  ASSUME Panicking \subseteq Tasks, Cardinality(Panicking) < NumWorkers
  PROVE  Spec => []OkMeansAllDone
<1>1. ASSUME IInv, runPc = "returned", fatal = "none"
      PROVE  Live = {} /\ Lost = {}
  <2>1. IsFiniteSet(Panicking) /\ Cardinality(Panicking) \in Nat
    BY FS_Subset, FS_CardinalityType
  <2>2. Cardinality(Lost \cap Panicking) <= Cardinality(Panicking)
    BY <2>1, FS_Subset
  <2>3. Cardinality(Workers) = NumWorkers
    BY FS_Interval DEF Workers
  <2>4. Cardinality(Dead) \in Nat /\ Cardinality(Lost \cap Panicking) \in Nat
    BY Finite, FS_CardinalityType
  <2>5. Cardinality(Dead) # Cardinality(Workers)
    BY <1>1, <2>1, <2>2, <2>3, <2>4 DEF IInv, PanicsCounted
  <2>6. PICK w \in Workers : pc[w] # "dead"
    <3>1. Dead # Workers
      BY <2>5
    <3> QED BY <3>1 DEF Dead
  <2>7. pc[w] = "exited" /\ active = 0
    BY <1>1, <2>6 DEF IInv, StopsOK
  <2> QED BY <1>1, <2>7, CountZero DEF IInv
<1>2. IInv => OkMeansAllDone
  BY <1>1 DEF OkMeansAllDone
<1> QED BY <1>2, SchedulerInvariant, PTL

-----------------------------------------------------------------------------
(***************************************************************************)
(* The deadlock report.  The idle round reads the three lists one after    *)
(* the other and counts the waiting tasks later, from two of them.         *)
(***************************************************************************)

\* What the scan found empty is still empty, so there is nothing to count.
NothingToCount ==
  /\ \A w \in Workers :
       /\ pc[w] \in {"scanTimers", "scanIo", "quiet", "detect"} => sleeping = {}
       /\ pc[w] \in {"quiet", "detect"} => io = {}
       /\ pc[w] # "report"
  /\ fatal # "deadlock"

(***************************************************************************)
(* A worker moves its own program counter only, the I/O thread and VM::run *)
(* nobody's.                                                               *)
(***************************************************************************)
LEMMA OwnCounter ==
  ASSUME Shape, [Next]_vars
  PROVE  \/ pc' = pc
         \/ \E w \in Workers : Worker(w) /\ \A x \in Workers \ {w} : pc'[x] = pc[x]
<1>1. ASSUME NEW w \in Workers, Worker(w)
      PROVE  pc' = pc \/ \A x \in Workers \ {w} : pc'[x] = pc[x]
  <2>1. \/ pc' = pc
        \/ \E l : GoTo(w, l)
    BY <1>1, ZenonT(60)
       DEF Worker, LoopTop, FindTask, PopLocal, StealInjector, NothingQueued,
           StealFromPeer, NextVictim, StartSlice, IdleRound, ScanSleepers,
           ScanTimers, ScanIo, ScanStep, Idle, CountWaiting, ReportDeadlock,
           Slice, SpawnCount, SpawnFile, AddTimer, EndSlice, Requeue, GoToSleep,
           WaitForIo, Complete, MainError, WorkerPanic, Uncount
  <2> QED BY <2>1 DEF GoTo, Shape, Types
<1>2. ASSUME IoThread \/ Run \/ UNCHANGED vars PROVE pc' = pc
  BY <1>2 DEF IoThread, IoTop, IoTakeDue, IoFireTimers, IoPush, IoPushed, IoWake,
              IoUnchanged, Run, JoinWorkers, JoinIo, vars
<1> QED BY <1>1, <1>2 DEF Next, Returned

(***************************************************************************)
(* Only a slice suspends a task: a Spawn of a suspended call, a sleep or a *)
(* wait for a socket.  Everybody else only takes tasks off the lists.      *)
(***************************************************************************)
LEMMA OnlySlicesSuspend ==
  ASSUME [Next]_vars, ~(sleeping' \subseteq sleeping) \/ ~(io' \subseteq io)
  PROVE  \E w \in Workers : pc[w] \in {"run", "spawn"} /\ Worker(w)
<1>1. ASSUME NEW w \in Workers, SpawnFile(w) \/ GoToSleep(w) \/ WaitForIo(w)
      PROVE  pc[w] \in {"run", "spawn"} /\ Worker(w)
  BY <1>1 DEF SpawnFile, GoToSleep, WaitForIo, Running, Worker, Slice, EndSlice
<1>2. ASSUME NEW w \in Workers, LoopTop(w) \/ FindTask(w) \/ IdleRound(w)
      PROVE  sleeping' = sleeping /\ io' = io
  BY <1>2 DEF LoopTop, FindTask, PopLocal, StealInjector, NothingQueued,
              StealFromPeer, NextVictim, IdleRound, ScanSleepers, ScanTimers,
              ScanIo, ScanStep, Idle, CountWaiting, ReportDeadlock, queues
<1>3. ASSUME NEW w \in Workers, Slice(w),
             ~(SpawnFile(w) \/ GoToSleep(w) \/ WaitForIo(w))
      PROVE  sleeping' = sleeping /\ io' = io
  BY <1>3 DEF Slice, SpawnCount, AddTimer, EndSlice, Requeue, Complete, MainError,
              WorkerPanic, Uncount, queues
<1>4. ASSUME IoThread \/ Run \/ UNCHANGED vars
      PROVE  sleeping' \subseteq sleeping /\ io' \subseteq io
  BY <1>4 DEF IoThread, IoTop, IoTakeDue, IoFireTimers, IoPush, IoPushed, IoWake,
              Run, JoinWorkers, JoinIo, vars, queues
<1> QED BY <1>1, <1>2, <1>3, <1>4 DEF Next, Worker, Returned

(***************************************************************************)
(* Where a worker comes to a point of the idle round, what it found empty  *)
(* is empty; and with nothing to count it reports nothing.                 *)
(***************************************************************************)
LEMMA IdleRoundFindsNothing ==
  ASSUME Shape, NothingToCount, NEW w \in Workers, Worker(w)
  PROVE  /\ pc'[w] = "scanTimers" => sleeping' = {}
         /\ pc'[w] \in {"scanIo", "quiet", "detect"} =>
              sleeping' = sleeping /\ io' = io /\ sleeping = {}
         /\ pc'[w] \in {"quiet", "detect"} => io = {}
         /\ pc'[w] # "report"
         /\ fatal' # "deadlock"
<1> USE DEF Shape, Types, NothingToCount, GoTo
<1>1. CASE ScanSleepers(w) \/ ScanTimers(w) \/ ScanIo(w)
  BY <1>1 DEF ScanSleepers, ScanTimers, ScanIo, ScanStep, queues
<1>2. CASE Idle(w)
  <2>1. /\ pc[w] \in {"pending", "quiet"} /\ fatal' = fatal
        /\ sleeping' = sleeping /\ io' = io
        /\ pc'[w] \in {"exited", "top", "detect"}
        /\ pc'[w] = "detect" => pc[w] = "quiet"
    BY <1>2 DEF Idle, queues
  <2> QED BY <2>1
<1>3. CASE CountWaiting(w)
  <2>1. sleeping = {} /\ io = {}
    BY <1>3 DEF CountWaiting
  <2> QED BY <1>3, <2>1 DEF CountWaiting
<1>4. CASE ReportDeadlock(w)
  BY <1>4 DEF ReportDeadlock
<1>5. CASE LoopTop(w)
  BY <1>5 DEF LoopTop
<1>6. CASE FindTask(w)
  BY <1>6 DEF FindTask, PopLocal, StealInjector, NothingQueued, StealFromPeer,
              NextVictim, StartSlice
<1>7. CASE Slice(w)
  BY <1>7 DEF Slice, SpawnCount, SpawnFile, AddTimer, EndSlice, Requeue, GoToSleep,
              WaitForIo, Complete, MainError, WorkerPanic, Uncount, SetFatal, Running
<1> QED BY <1>1, <1>2, <1>3, <1>4, <1>5, <1>6, <1>7 DEF Worker, IdleRound

(***************************************************************************)
(* Without a late suspension no worker that has looked at the lists finds  *)
(* them changed, and none comes to the report.                             *)
(***************************************************************************)
LEMMA NothingToCountNext ==
  ASSUME Shape, NothingToCount, [Next]_vars, NoLateSuspension
  PROVE  NothingToCount'
<1>1. ASSUME NEW x \in Workers, pc'[x] = pc[x]
      PROVE  /\ pc'[x] \in {"scanTimers", "scanIo", "quiet", "detect"} => sleeping' = {}
             /\ pc'[x] \in {"quiet", "detect"} => io' = {}
             /\ pc'[x] # "report"
  BY <1>1 DEF NothingToCount, NoLateSuspension, LateSuspension
<1>2. CASE pc' = pc
  <2>1. fatal' # "deadlock"
    <3>1. CASE UNCHANGED vars \/ IoThread \/ Run
      BY <3>1 DEF vars, IoThread, IoTop, IoTakeDue, IoFireTimers, IoPush, IoPushed,
                  IoWake, IoUnchanged, Run, JoinWorkers, JoinIo, NothingToCount
    <3>2. ASSUME NEW w \in Workers, Worker(w) PROVE fatal' # "deadlock"
      BY <3>2, IdleRoundFindsNothing
    <3> QED BY <3>1, <3>2 DEF Next, Returned
  <2> QED BY <1>1, <1>2, <2>1 DEF NothingToCount
<1>3. ASSUME NEW w \in Workers, Worker(w), \A x \in Workers \ {w} : pc'[x] = pc[x]
      PROVE  NothingToCount'
  <2>1. /\ pc'[w] \in {"scanTimers", "scanIo", "quiet", "detect"} => sleeping' = {}
        /\ pc'[w] \in {"quiet", "detect"} => io' = {}
        /\ pc'[w] # "report" /\ fatal' # "deadlock"
    BY <1>3, IdleRoundFindsNothing
  <2> QED BY <1>1, <1>3, <2>1 DEF NothingToCount
<1> QED BY <1>2, <1>3, OwnCounter

(***************************************************************************)
(* At first no worker looks at the lists.                                  *)
(***************************************************************************)
LEMMA NothingToCountInit == Init => NothingToCount
BY DEF Init, NothingToCount

(***************************************************************************)
(* "all woroutines are asleep" is reported only in a race: unless a task   *)
(* is suspended between a worker's scan of a list and its count of it, no  *)
(* run ever reports a deadlock.  A program whose tasks are all asleep when *)
(* the workers come to look, or wait for one another, is never told so:    *)
(* the report is made in a race or not at all.                             *)
(***************************************************************************)
THEOREM ReportsNeedRaces ==
  Spec /\ [][NoLateSuspension]_vars => []NoReport
<1>1. IInv /\ NothingToCount /\ [Next]_vars /\ [NoLateSuspension]_vars
        => NothingToCount'
  <2>1. ASSUME UNCHANGED vars, NothingToCount PROVE NothingToCount'
    BY <2>1 DEF NothingToCount, vars
  <2> QED BY <2>1, NothingToCountNext DEF IInv
<1>2. NothingToCount => NoReport
  BY DEF NothingToCount, NoReport
<1> QED BY <1>1, <1>2, NothingToCountInit, SchedulerInvariant, PTL DEF Spec

(***************************************************************************)
(* On a machine with one core the detector never reports: the one worker   *)
(* runs no slice between its scan and its count, and the I/O thread only   *)
(* empties the lists.                                                      *)
(***************************************************************************)
THEOREM LoneWorkerNeverReports ==
  ASSUME NumWorkers = 1
  PROVE  Spec => []NoReport
<1>1. \A v, w \in Workers : v = w
  BY DEF Workers
<1>2. [Next]_vars => NoLateSuspension
  BY <1>1, OnlySlicesSuspend DEF NoLateSuspension, LateSuspension
<1> QED BY <1>2, ReportsNeedRaces, PTL DEF Spec

-----------------------------------------------------------------------------
(***************************************************************************)
(* Who steals from whom.  local_workers.pop() hands the deques out from    *)
(* the last to the first, and find_task skips the deque of its own index:  *)
(* its own deque is among those it scans, the one of index w is not.       *)
(***************************************************************************)

\* The offsets of find_task's scan: 1 .. num_threads - 1, if it scans at all.
ScansOthers ==
  \A w \in Workers : /\ victim[w] = 1 \/ victim[w] \in 1 .. NumWorkers - 1
                     /\ pc[w] = "steal" => NumWorkers > 1

(***************************************************************************)
(* The scan of find_task stays among the offsets 1 to num_threads - 1.     *)
(***************************************************************************)
LEMMA ScansOthersNext ==
  ASSUME Shape, ScansOthers, [Next]_vars
  PROVE  ScansOthers'
<1> USE DEF Shape, Types
<1>1. ASSUME NEW w \in Workers, NextVictim(w) PROVE ScansOthers'
  <2>1. pc[w] = "steal" /\ victim[w] \in 1 .. NumWorkers - 1
    BY <1>1 DEF NextVictim, ScansOthers
  <2>2. \E i \in {1, victim[w] + 1} :
          /\ victim' = [victim EXCEPT ![w] = i]
          /\ victim[w] = NumWorkers - 1 => i = 1
    <3>1. CASE victim[w] = NumWorkers - 1
      BY <1>1, <3>1 DEF NextVictim
    <3>2. CASE victim[w] # NumWorkers - 1
      BY <1>1, <3>2 DEF NextVictim
    <3> QED BY <3>1, <3>2
  <2>3. victim'[w] \in 1 .. NumWorkers - 1
    BY <2>1, <2>2
  <2>4. \A x \in Workers \ {w} : victim'[x] = victim[x] /\ pc'[x] = pc[x]
    BY <1>1, <2>2 DEF NextVictim, GoTo
  <2> QED BY <2>1, <2>3, <2>4 DEF ScansOthers
<1>2. ASSUME NEW w \in Workers, NEW t, StartSlice(w, t) PROVE ScansOthers'
  BY <1>2 DEF StartSlice, GoTo, ScansOthers
<1>3. ASSUME NEW w \in Workers, NothingQueued(w) PROVE ScansOthers'
  <2>1. CASE NumWorkers > 1
    BY <1>3, <2>1 DEF NothingQueued, GoTo, ScansOthers
  <2>2. CASE ~(NumWorkers > 1)
    BY <1>3, <2>2 DEF NothingQueued, GoTo, ScansOthers
  <2> QED BY <2>1, <2>2
<1>4. ASSUME NEW w \in Workers, FindTask(w) PROVE ScansOthers'
  <2>1. CASE PopLocal(w) \/ StealInjector(w) \/ StealFromPeer(w)
    <3>1. \E t : StartSlice(w, t)
      BY <2>1 DEF PopLocal, StealInjector, StealFromPeer
    <3> QED BY <3>1, <1>2
  <2> QED BY <1>1, <1>3, <1>4, <2>1 DEF FindTask
<1>5. ASSUME NEW w \in Workers, LoopTop(w) \/ IdleRound(w) \/ Slice(w)
      PROVE  ScansOthers'
  <2>1. victim' = victim
    BY <1>5 DEF LoopTop, IdleRound, ScanSleepers, ScanTimers, ScanIo, ScanStep,
                Idle, CountWaiting, ReportDeadlock, Slice, SpawnCount, SpawnFile,
                AddTimer, EndSlice, Requeue, GoToSleep, WaitForIo, Complete,
                MainError, WorkerPanic, Uncount, queues
  <2>2. \A x \in Workers : pc'[x] = "steal" => pc[x] = "steal"
    BY <1>5 DEF LoopTop, IdleRound, ScanSleepers, ScanTimers, ScanIo, ScanStep,
                Idle, CountWaiting, ReportDeadlock, Slice, SpawnCount, SpawnFile,
                AddTimer, EndSlice, Requeue, GoToSleep, WaitForIo, Complete,
                MainError, WorkerPanic, Uncount, GoTo
  <2> QED BY <2>1, <2>2 DEF ScansOthers
<1>6. ASSUME IoThread \/ Run \/ UNCHANGED vars PROVE ScansOthers'
  BY <1>6 DEF IoThread, IoTop, IoTakeDue, IoFireTimers, IoPush, IoPushed, IoWake,
              IoUnchanged, Run, JoinWorkers, JoinIo, vars, ScansOthers
<1> QED BY <1>4, <1>5, <1>6 DEF Next, Worker, Returned

(***************************************************************************)
(* The scan never comes to the deque of the thief's own index, which the   *)
(* mirrored hand-out gave to another worker.                               *)
(***************************************************************************)
LEMMA NeverOwnIndex ==
  ASSUME ScansOthers, NEW w \in Workers, pc[w] = "steal"
  PROVE  Victim(w, victim[w]) # w
<1>1. victim[w] \in 1 .. NumWorkers - 1 /\ w \in 0 .. NumWorkers - 1
  BY DEF ScansOthers, Workers
<1> DEFINE i == victim[w]
<1>2. CASE w + i < NumWorkers
  <2>1. (w + i) % NumWorkers = w + i
    BY <1>1, <1>2
  <2> QED BY <1>1, <2>1 DEF Victim
<1>3. CASE w + i >= NumWorkers
  <2>1. w + i - NumWorkers \in 0 .. NumWorkers - 1
    BY <1>1, <1>3
  <2>2. (w + i) % NumWorkers = w + i - NumWorkers
    BY <1>1, <1>3, <2>1
  <2> QED BY <1>1, <2>2 DEF Victim
<1> QED BY <1>1, <1>2, <1>3

(***************************************************************************)
(* No offset of the scan leads to the deque of the worker's own index.     *)
(***************************************************************************)
LEMMA Spares ==
  ASSUME Shape, ScansOthers, NEW w \in Workers
  PROVE  SparesItsMirror(w)
<1> SUFFICES ASSUME StealFromPeer(w), OwnDeque(w) # w PROVE deque'[w] = deque[w]
  BY DEF SparesItsMirror
<1>1. Victim(w, victim[w]) # w
  BY NeverOwnIndex DEF StealFromPeer
<1> QED BY <1>1, DequeIndices DEF StealFromPeer, Shape, Types

(***************************************************************************)
(* Work stealing has a blind spot for every number of workers: worker w    *)
(* and worker NumWorkers - 1 - w never steal from one another.             *)
(***************************************************************************)
THEOREM StealingSkipsMirrors == Spec => MirrorsNeverSteal
<1>1. Init => ScansOthers
  BY DEF Init, ScansOthers
<1>2. IInv /\ ScansOthers /\ [Next]_vars => ScansOthers'
  BY ScansOthersNext DEF IInv
<1>3. IInv /\ ScansOthers /\ [Next]_vars => [\A w \in Workers : SparesItsMirror(w)]_vars
  BY Spares DEF IInv
<1> QED BY <1>1, <1>2, <1>3, SchedulerInvariant, PTL DEF Spec, MirrorsNeverSteal

(***************************************************************************)
(* With two workers nobody steals at all: each scans its own, empty deque. *)
(* What a worker has batched is run by that worker or by nobody.           *)
(***************************************************************************)
THEOREM TwoWorkersNeverSteal ==
  ASSUME NumWorkers = 2
  PROVE  Spec => [][\A w \in Workers : ~StealFromPeer(w)]_vars
<1>1. Init => ScansOthers
  BY DEF Init, ScansOthers
<1>2. IInv /\ ScansOthers /\ [Next]_vars => ScansOthers'
  BY ScansOthersNext DEF IInv
<1>3. ASSUME ScansOthers, NEW w \in Workers, pc[w] = "steal"
      PROVE  Victim(w, victim[w]) = OwnDeque(w)
  <2>1. Victim(w, victim[w]) \in Workers \ {w}
    BY <1>3, NeverOwnIndex, DequeIndices DEF ScansOthers
  <2> QED BY <2>1 DEF Workers, OwnDeque
<1>4. IInv /\ ScansOthers /\ [Next]_vars => [\A w \in Workers : ~StealFromPeer(w)]_vars
  BY <1>3 DEF StealFromPeer
<1> QED BY <1>1, <1>2, <1>4, SchedulerInvariant, PTL DEF Spec

-----------------------------------------------------------------------------
(***************************************************************************)
(* The scheduler implements TaskPool.                                      *)
(***************************************************************************)
Busy == {hand[w] : w \in Workers}

(***************************************************************************)
(* The phase of a task follows from its status and from whether it is in a *)
(* hand or suspended, before and after a step.                             *)
(***************************************************************************)
LEMMA PhaseIs ==
  ASSUME NEW t \in Tasks
  PROVE  /\ Phase(t) = IF status[t] # "live" THEN status[t]
                       ELSE IF t \in Busy THEN "running"
                       ELSE IF t \in Suspended THEN "suspended" ELSE "queued"
         /\ Phase(t)' = IF status'[t] # "live" THEN status'[t]
                        ELSE IF t \in Busy' THEN "running"
                        ELSE IF t \in Suspended' THEN "suspended" ELSE "queued"
BY DEF Phase, Busy, Suspended, Workers

(***************************************************************************)
(* Where the tasks of a phase are: the hands hold the running ones, the    *)
(* two lists and Spawn the suspended ones, the queues the others.          *)
(***************************************************************************)
LEMMA PhasePlaces ==
  ASSUME Placed
  PROVE  /\ \A w \in Workers : hand[w] # NoTask => Phase(hand[w]) = "running"
         /\ \A t \in Tasks \cap (sleeping \cup io) : Phase(t) = "suspended"
         /\ \A t \in ready \cup Range(injector) : Phase(t) = "queued"
         /\ \A w \in Workers : \A t \in Range(deque[w]) : Phase(t) = "queued"
         /\ \A w \in Workers : child[w] # NoTask =>
              Phase(child[w]) = IF child[w] \in NativeTasks THEN "suspended" ELSE "queued"
<1>1. ASSUME NEW p \in Places, NEW t \in Where[p]
      PROVE  /\ t \in Tasks /\ status[t] = "live"
             /\ \A q \in Places : q # p => t \notin Where[q]
  <2>1. t \in Live
    BY <1>1 DEF Placed, Partition
  <2> QED BY <1>1, <2>1, NotElsewhere DEF Live
<1>2. ASSUME NEW p \in {Inj, Rdy}, NEW t \in Where[p]
      PROVE  Phase(t) = "queued"
  <2>1. p \in Places /\ Slp \in Places /\ IoL \in Places /\ p # Slp /\ p # IoL
        /\ \A w \in Workers : Hd(w) \in Places /\ Ch(w) \in Places /\ p # Hd(w) /\ p # Ch(w)
    BY <1>2, PlaceNames, PlacesDiffer
  <2>2. t \in Tasks /\ status[t] = "live" /\ t # NoTask
    BY <1>1, <1>2, <2>1
  <2>3. t \notin Busy /\ t \notin Suspended
    BY <1>1, <1>2, <2>1, <2>2, WhereIs DEF Busy, Suspended
  <2> QED BY <2>2, <2>3, PhaseIs
<1>3. ASSUME NEW v \in Workers, NEW t \in Where[Dq(v)]
      PROVE  Phase(t) = "queued"
  <2>1. Dq(v) \in Places /\ Slp \in Places /\ IoL \in Places /\ Dq(v) # Slp /\ Dq(v) # IoL
        /\ \A w \in Workers : Hd(w) \in Places /\ Ch(w) \in Places
                              /\ Dq(v) # Hd(w) /\ Dq(v) # Ch(w)
    BY PlaceNames, PlacesDiffer
  <2>2. t \in Tasks /\ status[t] = "live" /\ t # NoTask
    BY <1>1, <1>3, <2>1
  <2>3. t \notin Busy /\ t \notin Suspended
    BY <1>1, <1>3, <2>1, <2>2, WhereIs DEF Busy, Suspended
  <2> QED BY <2>2, <2>3, PhaseIs
<1>4. ASSUME NEW p \in {Slp, IoL}, NEW t \in Where[p]
      PROVE  Phase(t) = "suspended"
  <2>1. p \in Places /\ \A w \in Workers : Hd(w) \in Places /\ p # Hd(w)
    BY <1>4, PlaceNames, PlacesDiffer
  <2>2. t \in Tasks /\ status[t] = "live" /\ t # NoTask
    BY <1>1, <1>4, <2>1
  <2>3. t \notin Busy /\ t \in Suspended
    BY <1>1, <1>4, <2>1, <2>2, WhereIs DEF Busy, Suspended
  <2> QED BY <2>2, <2>3, PhaseIs
<1>5. ASSUME NEW w \in Workers, hand[w] # NoTask
      PROVE  Phase(hand[w]) = "running"
  <2>1. hand[w] \in Tasks /\ status[hand[w]] = "live"
    BY <1>1, <1>5, PlaceNames, WhereIs
  <2>2. hand[w] \in Busy
    BY DEF Busy
  <2> QED BY <2>1, <2>2, PhaseIs
<1>6. ASSUME NEW v \in Workers, child[v] # NoTask
      PROVE  Phase(child[v]) = IF child[v] \in NativeTasks THEN "suspended" ELSE "queued"
  <2> DEFINE t == child[v]
  <2>1. Ch(v) \in Places /\ Slp \in Places /\ IoL \in Places /\ Ch(v) # Slp /\ Ch(v) # IoL
        /\ \A w \in Workers : Hd(w) \in Places /\ Ch(v) # Hd(w)
    BY PlaceNames, PlacesDiffer
  <2>2. t \in Where[Ch(v)]
    BY <1>6, WhereIs
  <2> HIDE DEF t
  <2>3. t \in Tasks /\ status[t] = "live" /\ t # NoTask
    BY <1>1, <2>1, <2>2
  <2>4. t \notin Busy /\ t \notin sleeping /\ t \notin io
    BY <1>1, <2>1, <2>2, <2>3, WhereIs DEF Busy
  <2>5. t \in Suspended <=> t \in NativeTasks
    BY <2>4 DEF Suspended, t
  <2>6. Phase(t) = IF t \in NativeTasks THEN "suspended" ELSE "queued"
    BY <2>3, <2>4, <2>5, PhaseIs
  <2> QED BY <2>6 DEF t
<1> QED BY <1>2, <1>3, <1>4, <1>5, <1>6, WhereIs

\* The step takes exactly the tasks of X from phase p to phase q.
Shift(X, p, q) ==
  /\ X \subseteq Tasks
  /\ \A t \in X : Phase(t) = p /\ Phase(t)' = q
  /\ \A t \in Tasks \ X : Phase(t)' = Phase(t)

\* What VM::run has answered.
Answer == IF runPc # "returned" THEN "running"
          ELSE IF fatal = "none" THEN "ok" ELSE "error"

(***************************************************************************)
(* Such a step is a move of the abstract pool.                             *)
(***************************************************************************)
LEMMA ShiftIsMove ==
  ASSUME NEW X, NEW p, NEW q, Shift(X, p, q), Answer' = Answer
  PROVE  Pool!Move(X, p, q)
<1>1. X \subseteq Pool!In(p)
  BY DEF Shift, Pool!In
<1>2. [t \in Tasks |-> Phase(t)]' =
         [t \in Tasks |-> IF t \in X THEN q ELSE [u \in Tasks |-> Phase(u)][t]]
  BY DEF Shift
<1> QED BY <1>1, <1>2 DEF Pool!Move, Answer

(***************************************************************************)
(* A step that moves no task between phases is a stutter of the pool.      *)
(***************************************************************************)
LEMMA NoShift ==
  ASSUME \A t \in Tasks : Phase(t)' = Phase(t), Answer' = Answer
  PROVE  UNCHANGED Pool!pool
<1>1. [t \in Tasks |-> Phase(t)]' = [t \in Tasks |-> Phase(t)]
  OBVIOUS
<1> QED BY <1>1 DEF Pool!pool, Answer

(***************************************************************************)
(* The pool counts with the Cardinality of this module.                    *)
(***************************************************************************)
LEMMA SameCardinality == \A S : Pool!Cardinality(S) = Cardinality(S)
BY DEF Pool!Cardinality, Cardinality, IsFiniteSet, Pool!IsFiniteSet

(***************************************************************************)
(* While a hand is free, fewer tasks run than there are workers.           *)
(***************************************************************************)
LEMMA FreeSlot ==
  ASSUME NEW w \in Workers, hand[w] = NoTask, Types
  PROVE  Cardinality(Pool!In("running")) < NumWorkers
<1> DEFINE R == Pool!In("running")
           f == [t \in R |-> CHOOSE v \in Workers : hand[v] = t]
           W == Workers \ {w}
<1>1. \A t \in R : t \in Tasks /\ \E v \in Workers : hand[v] = t
  <2> SUFFICES ASSUME NEW t \in R PROVE t \in Tasks /\ t \in Busy
    BY DEF Busy
  <2>1. t \in Tasks /\ Phase(t) = "running"
    BY DEF Pool!In
  <2> QED BY <2>1, PhaseIs DEF Types
<1> HIDE DEF R
<1>2. \A t \in R : f[t] \in W /\ hand[f[t]] = t
  BY <1>1
<1>3. f \in Injection(R, W)
  BY <1>2 DEF Injection, IsInjective
<1>4. IsFiniteSet(Workers) /\ Cardinality(Workers) = NumWorkers
  BY FS_Interval DEF Workers
<1>5. IsFiniteSet(W) /\ Cardinality(W) = NumWorkers - 1
  BY <1>4, FS_RemoveElement
<1>6. IsFiniteSet(R) /\ Cardinality(R) <= Cardinality(W)
  BY <1>3, <1>5, FS_Injection
<1>7. Cardinality(R) \in Nat
  BY <1>6, FS_CardinalityType
<1> HIDE DEF W
<1>8. Cardinality(R) < NumWorkers
  BY <1>5, <1>6, <1>7
<1> QED BY <1>8 DEF R

(***************************************************************************)
(* A worker that takes a queued task starts it.                            *)
(***************************************************************************)
LEMMA TakesTask ==
  ASSUME Shape, NEW w \in Workers, pc[w] \in {"find", "steal"},
         NEW h \in Tasks, Phase(h) = "queued", StartSlice(w, h),
         UNCHANGED <<child, sleeping, io, status, fatal, runPc>>
  PROVE  Pool!Start
<1>1. hand[w] = NoTask /\ Types
  BY DEF Shape, HandsOK
<1>2. hand' = [hand EXCEPT ![w] = h] /\ hand \in [Workers -> Tasks \cup {NoTask}]
  BY <1>1 DEF StartSlice, Types
<1>3. Suspended' = Suspended /\ Answer' = Answer
  BY DEF Suspended, Answer, Workers
<1>4. \A t \in Tasks : t \in Busy' <=> t \in Busy \/ t = h
  BY <1>1, <1>2 DEF Busy, Workers
<1>5. status[h] = "live" /\ h \notin Busy
  <2>1. status[h] \in {"unborn", "live", "done", "lost"}
    BY <1>1 DEF Types
  <2>2. Phase(h) # "unborn" /\ Phase(h) # "done" /\ Phase(h) # "lost" /\ Phase(h) # "running"
    OBVIOUS
  <2> QED BY <2>1, <2>2, PhaseIs
<1>6. Shift({h}, "queued", "running")
  BY <1>3, <1>4, <1>5, PhaseIs DEF Shift
<1>7. Pool!Move({h}, "queued", "running")
  BY <1>3, <1>6, ShiftIsMove
<1>8. Cardinality(Pool!In("running")) < NumWorkers
  BY <1>1, FreeSlot
<1>9. \E t \in Tasks : Pool!Move({t}, "queued", "running")
  BY <1>7
<1> QED BY <1>8, <1>9, SameCardinality DEF Pool!Start

(***************************************************************************)
(* The steps of a worker that do not run a slice.                          *)
(***************************************************************************)
LEMMA RefineFind ==
  ASSUME Shape, Placed, StopsOK, NEW w \in Workers,
         LoopTop(w) \/ FindTask(w) \/ IdleRound(w)
  PROVE  Pool!Start \/ UNCHANGED Pool!pool
<1> USE DEF Shape
<1>1. ASSUME PopLocal(w) PROVE Pool!Start
  <2> DEFINE o == OwnDeque(w)
  <2>1. /\ o \in Workers /\ deque[o] \in Seq(Tasks) /\ deque[o] # <<>>
        /\ IsInjective(deque[o])
    BY <1>1, DequeIndices DEF PopLocal, Types, Placed, Distinct
  <2>2. Head(deque[o]) \in Tasks /\ Head(deque[o]) \in Range(deque[o])
    BY <2>1, PopFacts
  <2>3. Phase(Head(deque[o])) = "queued"
    BY <2>1, <2>2, PhasePlaces
  <2> QED BY <1>1, <2>2, <2>3, TakesTask DEF PopLocal
<1>2. ASSUME StealInjector(w) PROVE Pool!Start
  <2>1. /\ injector \in Seq(Tasks) /\ injector # <<>> /\ IsInjective(injector)
    BY <1>2 DEF StealInjector, Types, Placed, Distinct
  <2>2. Head(injector) \in Tasks /\ Head(injector) \in Range(injector)
    BY <2>1, PopFacts
  <2>3. Phase(Head(injector)) = "queued"
    BY <2>2, PhasePlaces
  <2> QED BY <1>2, <2>2, <2>3, TakesTask DEF StealInjector
<1>3. ASSUME StealFromPeer(w) PROVE Pool!Start
  <2> DEFINE v == Victim(w, victim[w])
  <2>1. /\ v \in Workers /\ deque[v] \in Seq(Tasks) /\ deque[v] # <<>>
        /\ IsInjective(deque[v])
    BY <1>3, DequeIndices DEF StealFromPeer, Types, Placed, Distinct
  <2>2. Head(deque[v]) \in Tasks /\ Head(deque[v]) \in Range(deque[v])
    BY <2>1, PopFacts
  <2>3. Phase(Head(deque[v])) = "queued"
    BY <2>1, <2>2, PhasePlaces
  <2> QED BY <1>3, <2>2, <2>3, TakesTask DEF StealFromPeer
<1>4. ASSUME LoopTop(w) \/ NothingQueued(w) \/ NextVictim(w) \/ IdleRound(w)
      PROVE  UNCHANGED Pool!pool
  <2>1. UNCHANGED <<hand, child, sleeping, io, status, runPc>>
    BY <1>4 DEF LoopTop, NothingQueued, NextVictim, IdleRound, ScanSleepers,
                ScanTimers, ScanIo, ScanStep, Idle, CountWaiting, ReportDeadlock, queues
  <2>2. fatal' = fatal \/ pc[w] = "report"
    BY <1>4 DEF LoopTop, NothingQueued, NextVictim, IdleRound, ScanSleepers,
                ScanTimers, ScanIo, ScanStep, Idle, CountWaiting, ReportDeadlock
  <2>3. Answer' = Answer
    BY <2>1, <2>2 DEF Answer, StopsOK
  <2>4. Busy' = Busy /\ Suspended' = Suspended
    BY <2>1 DEF Busy, Suspended, Workers
  <2>5. \A t \in Tasks : Phase(t)' = Phase(t)
    BY <2>1, <2>4, PhaseIs
  <2> QED BY <2>3, <2>5, NoShift
<1> QED BY <1>1, <1>2, <1>3, <1>4 DEF FindTask

(***************************************************************************)
(* Spawn: the new task is queued, or suspended when it is a native call;   *)
(* filing it changes no phase.                                             *)
(***************************************************************************)
LEMMA RefineSpawn ==
  ASSUME Shape, Placed, NEW w \in Workers,
         (\E c \in Tasks : SpawnCount(w, c)) \/ SpawnFile(w)
  PROVE  Pool!Spawn \/ UNCHANGED Pool!pool
<1>1. child \in [Workers -> Tasks \cup {NoTask}] /\ hand[w] # NoTask
  BY DEF Shape, Types, HandsOK, SpawnCount, SpawnFile, Running
<1>2. hand[w] \in Tasks /\ Phase(hand[w]) = "running"
  BY <1>1, PhasePlaces DEF Shape, Types
<1>3. Busy' = Busy /\ Answer' = Answer
  BY DEF Busy, Workers, Answer, SpawnCount, SpawnFile
<1>4. ASSUME NEW c \in Tasks, SpawnCount(w, c) PROVE Pool!Spawn
  <2> DEFINE q == IF c \in NativeTasks THEN "suspended" ELSE "queued"
  <2>1. /\ child[w] = NoTask /\ child' = [child EXCEPT ![w] = c]
        /\ status[c] = "unborn" /\ status' = [status EXCEPT ![c] = "live"]
        /\ UNCHANGED <<injector, deque, hand, sleeping, io, ready>>
    BY <1>4 DEF SpawnCount, Running, Shape, HandsOK
  <2>2. Placed'
    BY <1>4, PlacedSpawn
  <2>3. /\ status \in [Tasks -> {"unborn", "live", "done", "lost"}]
        /\ c \notin Live /\ c # NoTask
    BY <2>1 DEF Live, Shape, Types
  <2>4. c \notin Busy /\ c \notin sleeping /\ c \notin io
    <3>1. \A p \in Places : c \notin Where[p]
      BY <2>3, NotElsewhere DEF Placed, Partition
    <3> QED BY <2>3, <3>1, PlaceNames, WhereIs DEF Busy
  <2>5. \A t \in Tasks : t \in Suspended' <=> t \in Suspended \/ (t = c /\ c \in NativeTasks)
    BY <1>1, <2>1 DEF Suspended, Workers
  <2>6. c \in Suspended' <=> c \in NativeTasks
    <3>1. \A v \in Workers : child[v] # c
      <4>1. \A v \in Workers : c \notin Where[Ch(v)]
        BY <2>3, NotElsewhere, PlaceNames DEF Placed, Partition
      <4> QED BY <2>3, <4>1, WhereIs
    <3>2. c \notin Suspended
      BY <2>4, <3>1 DEF Suspended
    <3> QED BY <2>5, <3>2
  <2>7. status'[c] = "live" /\ \A t \in Tasks \ {c} : status'[t] = status[t]
    BY <2>1, <2>3
  <2>8. Phase(c) = "unborn" /\ Phase(c)' = q
    BY <1>3, <2>1, <2>4, <2>6, <2>7, PhaseIs
  <2>9. \A t \in Tasks \ {c} : Phase(t)' = Phase(t)
    BY <1>3, <2>5, <2>7, PhaseIs
  <2>10. Shift({c}, "unborn", q)
    BY <2>8, <2>9 DEF Shift
  <2>11. Pool!Move({c}, "unborn", q) /\ q \in {"queued", "suspended"}
    BY <1>3, <2>10, ShiftIsMove
  <2> HIDE DEF q
  <2>12. hand[w] \in Pool!In("running")
    BY <1>2 DEF Pool!In
  <2> QED BY <2>11, <2>12 DEF Pool!Spawn
<1>5. ASSUME SpawnFile(w) PROVE UNCHANGED Pool!pool
  <2> DEFINE c == child[w]
  <2>1. /\ c \in Tasks /\ child' = [child EXCEPT ![w] = NoTask] /\ status' = status
        /\ \A v \in Workers : v # w => child'[v] = child[v] /\ child'[w] = NoTask
    BY <1>1, <1>5 DEF SpawnFile, Shape, HandsOK
  <2>2. \/ c \notin NativeTasks /\ UNCHANGED <<sleeping, io>>
        \/ c \in NativeTasks /\ sleeping' \cup io' = sleeping \cup io \cup {c}
    BY <1>5 DEF SpawnFile
  <2>3. \A t \in Tasks : t \in Suspended' <=> t \in Suspended
    BY <1>1, <2>1, <2>2 DEF Suspended, Workers
  <2>4. \A t \in Tasks : Phase(t)' = Phase(t)
    BY <1>3, <2>1, <2>3, PhaseIs
  <2> QED BY <1>3, <2>4, NoShift
<1> QED BY <1>4, <1>5

(***************************************************************************)
(* The slice of a task ends: the task is queued, suspended, over or lost.  *)
(***************************************************************************)
LEMMA RefineEndSlice ==
  ASSUME Shape, Placed, StopsOK, NEW w \in Workers, EndSlice(w)
  PROVE  Pool!Stop
<1>0. hand[w] # NoTask /\ hand[w] \in Tasks
  BY DEF EndSlice, Requeue, GoToSleep, WaitForIo, Complete, MainError, WorkerPanic,
         Running, Shape, Types, HandsOK
<1> PICK t \in Tasks : t = hand[w]
  BY <1>0
<1>1. /\ pc[w] = "run" /\ t # NoTask /\ EmptyHand(w) /\ child' = child
      /\ runPc = "joinWorkers" /\ runPc' = runPc
  BY DEF EndSlice, Requeue, GoToSleep, WaitForIo, Complete, MainError, WorkerPanic,
         Running, StopsOK
<1>2. t \in Tasks /\ Phase(t) = "running" /\ t \in Where[Hd(w)] /\ status[t] = "live"
  <2>1. t \in Tasks /\ Phase(t) = "running" /\ t \in Where[Hd(w)]
    BY <1>1, PhasePlaces, WhereIs DEF Shape, Types
  <2>2. status[t] \in {"unborn", "live", "done", "lost"}
    BY <2>1 DEF Shape, Types
  <2>3. Phase(t) # "unborn" /\ Phase(t) # "done" /\ Phase(t) # "lost"
    BY <2>1
  <2> QED BY <2>1, <2>2, <2>3, PhaseIs
<1>3. hand'[w] = NoTask /\ \A v \in Workers \ {w} : hand'[v] = hand[v] /\ hand[v] # t
  <2>1. hand'[w] = NoTask /\ \A v \in Workers \ {w} : hand'[v] = hand[v]
    BY <1>1 DEF EmptyHand, Shape, Types
  <2>2. \A v \in Workers \ {w} : t \notin Where[Hd(v)]
    BY <1>2, NotElsewhere, PlaceNames, PlacesDiffer
  <2> QED BY <1>1, <2>1, <2>2, WhereIs
<1>4. t \notin Suspended
  <2>1. /\ Hd(w) \in Places /\ Slp \in Places /\ IoL \in Places /\ Hd(w) # Slp /\ Hd(w) # IoL
        /\ \A v \in Workers : Ch(v) \in Places /\ Hd(w) # Ch(v)
    BY PlaceNames, PlacesDiffer
  <2>2. t \notin sleeping /\ t \notin io /\ \A v \in Workers : child[v] # t
    BY <1>1, <1>2, <2>1, NotElsewhere, WhereIs
  <2> QED BY <2>2 DEF Suspended
<1>5. \A u \in Tasks : u \in Busy' <=> u \in Busy /\ u # t
  <2>1. NoTask \notin Tasks
    OBVIOUS
  <2>2. Busy' = {hand'[v] : v \in Workers}
    BY DEF Busy, Workers
  <2> QED BY <1>3, <2>1, <2>2 DEF Busy
<1>6. Answer' = Answer
  BY <1>1 DEF Answer
<1>7. ASSUME NEW q \in {"queued", "suspended", "done", "lost"},
             Phase(t)' = q,
             \A u \in Tasks \ {t} : status'[u] = status[u] /\ (u \in Suspended' <=> u \in Suspended)
      PROVE  Pool!Stop
  <2>1. \A u \in Tasks \ {t} : Phase(u)' = Phase(u)
    BY <1>5, <1>7, PhaseIs
  <2>2. Shift({t}, "running", q)
    BY <1>2, <1>7, <2>1 DEF Shift
  <2>3. Pool!Move({t}, "running", q)
    BY <1>6, <2>2, ShiftIsMove
  <2> QED BY <1>2, <2>3 DEF Pool!Stop
<1>8. ASSUME Requeue(w) PROVE Pool!Stop
  <2>1. status' = status /\ Suspended' = Suspended
    BY <1>8 DEF Requeue, Suspended, Workers
  <2>2. Phase(t)' = "queued"
    BY <1>2, <1>4, <1>5, <2>1, PhaseIs
  <2> QED BY <1>7, <2>1, <2>2
<1>9. ASSUME GoToSleep(w) \/ WaitForIo(w) PROVE Pool!Stop
  <2>1. status' = status /\ sleeping' \cup io' = sleeping \cup io \cup {t}
    BY <1>9 DEF GoToSleep, WaitForIo
  <2>2. Suspended' = Suspended \cup {t}
    BY <1>1, <2>1 DEF Suspended, Workers
  <2>3. Phase(t)' = "suspended"
    BY <1>2, <1>5, <2>1, <2>2, PhaseIs
  <2> QED BY <1>7, <2>1, <2>2, <2>3
<1>10. ASSUME Complete(w) \/ MainError(w) \/ WorkerPanic(w) PROVE Pool!Stop
  <2>1. /\ \/ status' = [status EXCEPT ![t] = "done"]
           \/ status' = [status EXCEPT ![t] = "lost"]
        /\ UNCHANGED <<sleeping, io>>
    BY <1>10 DEF Complete, MainError, WorkerPanic
  <2>2. status'[t] \in {"done", "lost"} /\ \A u \in Tasks \ {t} : status'[u] = status[u]
    BY <1>2, <2>1 DEF Shape, Types
  <2>3. Suspended' = Suspended
    BY <1>1, <2>1 DEF Suspended, Workers
  <2>4. Phase(t)' = status'[t]
    BY <1>2, <2>2, PhaseIs
  <2> QED BY <1>7, <2>2, <2>3, <2>4
<1> QED BY <1>8, <1>9, <1>10 DEF EndSlice

(***************************************************************************)
(* The I/O thread wakes suspended tasks, a list at a time.                 *)
(***************************************************************************)
LEMMA RefineIo ==
  ASSUME Shape, Placed, IoThread PROVE Pool!Wake \/ UNCHANGED Pool!pool
<1>1. UNCHANGED <<hand, child, status, fatal, runPc>>
  BY DEF IoThread, IoTop, IoTakeDue, IoFireTimers, IoPush, IoPushed, IoWake,
         IoUnchanged
<1>2. Busy' = Busy /\ Answer' = Answer
  BY <1>1 DEF Busy, Workers, Answer
<1>3. ASSUME NEW X \in SUBSET Tasks, X \subseteq sleeping \cup io,
             sleeping' \cup io' = (sleeping \cup io) \ X
      PROVE  Pool!Wake
  <2>1. \A t \in X : t \in Tasks /\ Phase(t) = "suspended"
    BY <1>3, PhasePlaces
  <2>2. \A t \in X : \A v \in Workers : child[v] # t
    <3>1. /\ Slp \in Places /\ IoL \in Places
          /\ \A v \in Workers : Ch(v) \in Places /\ Slp # Ch(v) /\ IoL # Ch(v)
      BY PlaceNames, PlacesDiffer
    <3> QED BY <1>3, <2>1, <3>1, NotElsewhere, WhereIs
  <2>3. \A t \in Tasks : t \in Suspended' <=> t \in Suspended /\ t \notin X
    BY <1>1, <1>3, <2>2 DEF Suspended, Workers
  <2>4. \A t \in X : Phase(t)' = "queued"
    <3> SUFFICES ASSUME NEW t \in X PROVE Phase(t)' = "queued"
      OBVIOUS
    <3>1. status[t] \in {"unborn", "live", "done", "lost"}
      BY <2>1 DEF Shape, Types
    <3>2. status[t] = "live" /\ t \notin Busy
      <4>1. /\ Phase(t) # "unborn" /\ Phase(t) # "done" /\ Phase(t) # "lost"
            /\ Phase(t) # "running"
        BY <2>1
      <4> QED BY <2>1, <3>1, <4>1, PhaseIs
    <3> QED BY <1>1, <1>2, <2>1, <2>3, <3>2, PhaseIs
  <2>5. \A t \in Tasks \ X : Phase(t)' = Phase(t)
    BY <1>1, <1>2, <2>3, PhaseIs
  <2>6. Shift(X, "suspended", "queued")
    BY <2>1, <2>4, <2>5 DEF Shift
  <2>7. Pool!Move(X, "suspended", "queued")
    BY <1>2, <2>6, ShiftIsMove
  <2> QED BY <1>3, <2>7 DEF Pool!Wake
<1>4. ASSUME IoTakeDue PROVE Pool!Wake
  <2>1. PICK due \in SUBSET sleeping : sleeping' = sleeping \ due
    BY <1>4 DEF IoTakeDue
  <2>2. io' = io /\ due \cap io = {} /\ due \subseteq Tasks
    <3>1. io' = io /\ due \subseteq Tasks
      BY <1>4 DEF IoTakeDue, Shape, Types
    <3>2. sleeping \cap io = {}
      BY NotElsewhere, PlaceNames, PlacesDiffer, WhereIs
    <3> QED BY <3>1, <3>2
  <2> QED BY <1>3, <2>1, <2>2
<1>5. ASSUME IoWake PROVE Pool!Wake
  <2>1. PICK woken \in SUBSET io : io' = io \ woken
    BY <1>5 DEF IoWake
  <2>2. sleeping' = sleeping /\ woken \cap sleeping = {} /\ woken \subseteq Tasks
    <3>1. sleeping' = sleeping /\ woken \subseteq Tasks
      BY <1>5 DEF IoWake, Shape, Types
    <3>2. sleeping \cap io = {}
      BY NotElsewhere, PlaceNames, PlacesDiffer, WhereIs
    <3> QED BY <3>1, <3>2
  <2> QED BY <1>3, <2>1, <2>2
<1>6. ASSUME IoTop \/ IoFireTimers \/ IoPush \/ IoPushed PROVE UNCHANGED Pool!pool
  <2>1. UNCHANGED <<sleeping, io>>
    BY <1>6 DEF IoTop, IoFireTimers, IoPush, IoPushed
  <2>2. Suspended' = Suspended
    BY <1>1, <2>1 DEF Suspended, Workers
  <2>3. \A t \in Tasks : Phase(t)' = Phase(t)
    BY <1>1, <1>2, <2>2, PhaseIs
  <2> QED BY <1>2, <2>3, NoShift
<1> QED BY <1>4, <1>5, <1>6 DEF IoThread

(***************************************************************************)
(* VM::run answers: Ok only when no task is queued, running or suspended.  *)
(***************************************************************************)
LEMMA RefineRun ==
  ASSUME Shape, Run \/ UNCHANGED vars, OkMeansAllDone'
  PROVE  Pool!Return \/ UNCHANGED Pool!pool
<1>1. UNCHANGED <<hand, child, sleeping, io, status, fatal>>
  BY DEF Run, JoinWorkers, JoinIo, vars, queues
<1>2. Busy' = Busy /\ Suspended' = Suspended
  BY <1>1 DEF Busy, Suspended, Workers
<1>3. \A t \in Tasks : Phase(t)' = Phase(t)
  BY <1>1, <1>2, PhaseIs
<1>4. ASSUME JoinIo PROVE Pool!Return
  <2>1. [t \in Tasks |-> Phase(t)]' = [t \in Tasks |-> Phase(t)]
    BY <1>3
  <2>2. Answer = "running" /\ Answer' = IF fatal = "none" THEN "ok" ELSE "error"
    BY <1>1, <1>4 DEF JoinIo, Answer
  <2>3. ASSUME fatal = "none"
        PROVE  Pool!In("queued") \cup Pool!In("running") \cup Pool!In("suspended") = {}
    <3>1. Live = {}
      BY <1>1, <1>4, <2>3 DEF JoinIo, OkMeansAllDone, Live
    <3>2. \A t \in Tasks : status[t] # "live"
      BY <3>1 DEF Live
    <3>3. \A t \in Tasks : Phase(t) = status[t]
      BY <3>2, PhaseIs
    <3>4. \A t \in Tasks : status[t] \in {"unborn", "live", "done", "lost"}
      BY DEF Shape, Types
    <3>5. \A t \in Tasks : Phase(t) \notin {"queued", "running", "suspended"}
      BY <3>3, <3>4
    <3> QED BY <3>5 DEF Pool!In
  <2> QED BY <2>1, <2>2, <2>3 DEF Pool!Return, Answer
<1>5. ASSUME JoinWorkers \/ UNCHANGED vars PROVE UNCHANGED Pool!pool
  <2>1. Answer' = Answer
    BY <1>5 DEF JoinWorkers, vars, Answer
  <2> QED BY <1>3, <2>1, NoShift
<1> QED BY <1>4, <1>5 DEF Run

(***************************************************************************)
(* At the start the script is queued and no other task exists.             *)
(***************************************************************************)
LEMMA RefineInit == Init => Pool!PoolInit
<1> SUFFICES ASSUME Init PROVE Pool!PoolInit
  OBVIOUS
<1>1. /\ \A t \in Tasks : status[t] = IF t = Main THEN "live" ELSE "unborn"
      /\ hand = [w \in Workers |-> NoTask] /\ child = [w \in Workers |-> NoTask]
      /\ sleeping = {} /\ io = {} /\ Answer = "running"
  BY DEF Init, Answer
<1>2. Main \notin Busy /\ Main \notin Suspended
  BY <1>1 DEF Busy, Suspended
<1>3. \A t \in Tasks : Phase(t) = IF t = Main THEN "queued" ELSE "unborn"
  BY <1>1, <1>2, PhaseIs
<1> QED BY <1>1, <1>3 DEF Pool!PoolInit, Answer

(***************************************************************************)
(* Every step is a step of the pool, or a stutter.                         *)
(***************************************************************************)
LEMMA RefineNext ==
  ASSUME IInv, OkMeansAllDone', [Next]_vars
  PROVE  [Pool!PoolNext]_(Pool!pool)
<1> USE DEF IInv
<1>1. ASSUME NEW w \in Workers, LoopTop(w) \/ FindTask(w) \/ IdleRound(w)
      PROVE  Pool!PoolNext \/ UNCHANGED Pool!pool
  BY <1>1, RefineFind DEF Pool!PoolNext
<1>2. ASSUME NEW w \in Workers, Slice(w)
      PROVE  Pool!PoolNext \/ UNCHANGED Pool!pool
  <2>1. CASE (\E c \in Tasks : SpawnCount(w, c)) \/ SpawnFile(w)
    BY <2>1, RefineSpawn DEF Pool!PoolNext
  <2>2. CASE EndSlice(w)
    BY <2>2, RefineEndSlice DEF Pool!PoolNext
  <2>3. CASE AddTimer(w) \/ Uncount(w)
    <3>1. UNCHANGED <<hand, child, sleeping, io, status, fatal, runPc>>
      BY <2>3 DEF AddTimer, Uncount, queues
    <3>2. Busy' = Busy /\ Suspended' = Suspended /\ Answer' = Answer
      BY <3>1 DEF Busy, Suspended, Workers, Answer
    <3>3. \A t \in Tasks : Phase(t)' = Phase(t)
      BY <3>1, <3>2, PhaseIs
    <3> QED BY <3>2, <3>3, NoShift
  <2> QED BY <1>2, <2>1, <2>2, <2>3 DEF Slice
<1>3. ASSUME IoThread PROVE Pool!PoolNext \/ UNCHANGED Pool!pool
  BY <1>3, RefineIo DEF Pool!PoolNext
<1>4. ASSUME Run \/ UNCHANGED vars PROVE Pool!PoolNext \/ UNCHANGED Pool!pool
  BY <1>4, RefineRun DEF Pool!PoolNext
<1> QED BY <1>1, <1>2, <1>3, <1>4 DEF Next, Worker, Returned

(***************************************************************************)
(* The scheduler implements the task pool: seen from the program, a task   *)
(* is on at most one thread at a time, at most NumWorkers run together,    *)
(* none is dropped between two phases or comes back once it is over, and   *)
(* VM::run answers Ok only when none is left, whatever the queues, the     *)
(* scans and the I/O thread do in between.  As in OkIsComplete, fewer      *)
(* tasks than workers may call a native that panics.                       *)
(***************************************************************************)
THEOREM SchedulerImplementsPool ==
  ASSUME Panicking \subseteq Tasks, Cardinality(Panicking) < NumWorkers
  PROVE  Spec => ImplementsTaskPool
<1>1. Spec => [](IInv /\ OkMeansAllDone)
  BY SchedulerInvariant, OkIsComplete, PTL
<1>2. IInv /\ OkMeansAllDone /\ (IInv /\ OkMeansAllDone)' /\ [Next]_vars
        => [Pool!PoolNext]_(Pool!pool)
  BY RefineNext
<1> QED BY <1>1, <1>2, RefineInit, PTL DEF Spec, ImplementsTaskPool, Pool!PoolSpec
=============================================================================

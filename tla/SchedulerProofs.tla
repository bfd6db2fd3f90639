--------------------------- MODULE SchedulerProofs ---------------------------
(***************************************************************************)
(* Proofs about module Scheduler, for every number of workers, every       *)
(* finite set of tasks and every program profile.                          *)
(***************************************************************************)
EXTENDS Scheduler, QueueFacts, FiniteSetTheorems

USE NumWorkersAssumption, TasksAssumption, ProgramAssumption, BoundsAssumption

-----------------------------------------------------------------------------
(***************************************************************************)
(* Types.                                                                  *)
(***************************************************************************)

(***************************************************************************)
(* The deque a worker owns and the ones it scans exist (the mirrored hand- *)
(* out of local_workers.pop() and the index arithmetic of find_task).      *)
(***************************************************************************)
LEMMA DequeIndices ==
  ASSUME NEW w \in Workers
  PROVE  /\ OwnDeque(w) \in Workers
         /\ \A i \in Nat : Victim(w, i) \in Workers
BY DEF Workers, OwnDeque, Victim

(***************************************************************************)
(* A batch of a queue and what remains of it are queues.                   *)
(***************************************************************************)
LEMMA BatchTypes ==
  ASSUME NEW q \in Seq(Tasks), q # <<>>, NEW k \in BatchSizes(q)
  PROVE  /\ k \in 1 .. Len(q)
         /\ Head(q) \in Tasks
         /\ SubSeq(q, 2, k) \in Seq(Tasks)
         /\ SubSeq(q, k + 1, Len(q)) \in Seq(Tasks)
<1>1. Len(q) \in Nat /\ Len(q) # 0 /\ \A i \in 1 .. Len(q) : q[i] \in Tasks
  BY LenProperties, ElementOfSeq, EmptySeq
<1>2. k \in 1 .. Len(q)
  BY <1>1 DEF BatchSizes
<1>3. k \in Int /\ k + 1 \in Int /\ Len(q) \in Int /\ 2 \in Int
  BY <1>1, <1>2
<1>4. \A i \in 2 .. k : q[i] \in Tasks
  BY <1>1, <1>2
<1>5. \A i \in k + 1 .. Len(q) : q[i] \in Tasks
  BY <1>1, <1>2
<1>6. SubSeq(q, 2, k) \in Seq(Tasks)
  BY <1>3, <1>4, SubSeqProperties
<1>7. SubSeq(q, k + 1, Len(q)) \in Seq(Tasks)
  BY <1>3, <1>5, SubSeqProperties
<1> QED BY <1>2, <1>6, <1>7, HeadTailProperties

(***************************************************************************)
(* Types, with the link between a worker's position and its hands: it      *)
(* holds a task while it runs a slice, a child only inside Spawn, and the  *)
(* I/O thread holds tasks only between taking and pushing them.            *)
(***************************************************************************)
HandsOK ==
  /\ \A w \in Workers : /\ hand[w] # NoTask <=> pc[w] \in {"run", "spawn"}
                        /\ child[w] # NoTask <=> pc[w] = "spawn"
  /\ ready # {} => ioPc \in {"timers", "push", "pushWoken"}

Shape == Types /\ HandsOK

(***************************************************************************)
(* The initial values are well shaped.                                     *)
(***************************************************************************)
LEMMA ShapeInit == Init => Shape
<1> SUFFICES ASSUME Init PROVE Shape
  OBVIOUS
<1>1. injector \in Seq(Tasks) /\ deque \in [Workers -> Seq(Tasks)]
  BY DEF Init
<1>2. status \in [Tasks -> {"unborn", "live", "done", "lost"}]
  BY DEF Init
<1>3. hand \in [Workers -> Tasks \cup {NoTask}] /\ child \in [Workers -> Tasks \cup {NoTask}]
  BY DEF Init
<1>4. pc \in [Workers -> PcLabels] /\ victim \in [Workers -> Nat \ {0}]
  BY DEF Init, PcLabels
<1>5. spins \in [Workers -> 0 .. SpinLimit + 1] /\ timers \in 0 .. MaxTimers
  BY DEF Init
<1>6. /\ sleeping = {} /\ io = {} /\ ready = {} /\ active = 1
      /\ shutdown \in BOOLEAN /\ fatal = "none"
      /\ ioPc = "top" /\ runPc = "joinWorkers"
  BY DEF Init
<1>7. Types
  BY <1>1, <1>2, <1>3, <1>4, <1>5, <1>6 DEF Types
<1>8. hand = [w \in Workers |-> NoTask] /\ child = [w \in Workers |-> NoTask]
      /\ pc = [w \in Workers |-> "top"]
  BY DEF Init
<1>9. HandsOK
  BY <1>6, <1>8 DEF HandsOK
<1> QED BY <1>7, <1>9 DEF Shape

(***************************************************************************)
(* find_task keeps the state well shaped.                                  *)
(***************************************************************************)
LEMMA ShapeFindTask ==
  ASSUME Shape, NEW w \in Workers, FindTask(w) PROVE Shape'
<1> USE DEF PcLabels, queues, Shape, HandsOK
<1>1. ASSUME NEW t \in Tasks, StartSlice(w, t),
             pc[w] \in {"find", "steal"},
             injector' \in Seq(Tasks), deque' \in [Workers -> Seq(Tasks)],
             UNCHANGED <<child, sleeping, io, ready, timers, active, shutdown,
                         fatal, ioPc, runPc, status>>
      PROVE  Shape'
  BY <1>1 DEF Types, StartSlice, GoTo
<1>2. CASE PopLocal(w)
  <2> DEFINE own == deque[OwnDeque(w)]
  <2>1. OwnDeque(w) \in Workers /\ own \in Seq(Tasks) /\ own # <<>>
    BY <1>2, DequeIndices DEF Types, PopLocal
  <2>2. Head(own) \in Tasks /\ Tail(own) \in Seq(Tasks)
    BY <2>1, HeadTailProperties
  <2>3. deque' \in [Workers -> Seq(Tasks)] /\ injector' \in Seq(Tasks)
    BY <1>2, <2>2 DEF Types, PopLocal
  <2> QED BY <1>1, <1>2, <2>2, <2>3 DEF PopLocal
<1>3. CASE StealInjector(w)
  <2>1. PICK k \in BatchSizes(injector) :
          /\ StartSlice(w, Head(injector))
          /\ deque' = [deque EXCEPT ![OwnDeque(w)] = SubSeq(injector, 2, k)]
          /\ injector' = SubSeq(injector, k + 1, Len(injector))
    BY <1>3 DEF StealInjector
  <2>2. injector \in Seq(Tasks) /\ injector # <<>>
    BY <1>3 DEF Types, StealInjector
  <2>3. /\ Head(injector) \in Tasks
        /\ SubSeq(injector, 2, k) \in Seq(Tasks)
        /\ SubSeq(injector, k + 1, Len(injector)) \in Seq(Tasks)
    BY <2>2, BatchTypes
  <2>4. deque' \in [Workers -> Seq(Tasks)] /\ injector' \in Seq(Tasks)
    BY <2>1, <2>3 DEF Types
  <2> QED BY <1>1, <1>3, <2>1, <2>3, <2>4 DEF StealInjector
<1>4. CASE NothingQueued(w)
  BY <1>4 DEF Types, NothingQueued, GoTo
<1>5. CASE StealFromPeer(w)
  <2> DEFINE v == Victim(w, victim[w])
  <2>1. PICK k \in BatchSizes(deque[v]) :
          /\ StartSlice(w, Head(deque[v]))
          /\ deque' = [deque EXCEPT ![v] = SubSeq(@, k + 1, Len(@)),
                                    ![OwnDeque(w)] = SubSeq(deque[v], 2, k)]
    BY <1>5 DEF StealFromPeer
  <2>2. v \in Workers /\ deque[v] \in Seq(Tasks) /\ deque[v] # <<>>
    BY <1>5, DequeIndices DEF Types, StealFromPeer
  <2>3. /\ Head(deque[v]) \in Tasks
        /\ SubSeq(deque[v], 2, k) \in Seq(Tasks)
        /\ SubSeq(deque[v], k + 1, Len(deque[v])) \in Seq(Tasks)
    BY <2>2, BatchTypes
  <2>4. [deque EXCEPT ![v] = SubSeq(@, k + 1, Len(@))] \in [Workers -> Seq(Tasks)]
    BY <2>2, <2>3 DEF Types
  <2>5. deque' \in [Workers -> Seq(Tasks)] /\ injector' \in Seq(Tasks)
    BY <1>5, <2>1, <2>3, <2>4 DEF Types, StealFromPeer
  <2>6. pc[w] = "steal" /\ UNCHANGED <<child, sleeping, io, ready, timers, active,
                                       shutdown, fatal, ioPc, runPc, status>>
    BY <1>5 DEF StealFromPeer
  <2>7. Head(deque[v]) \in Tasks /\ StartSlice(w, Head(deque[v]))
    BY <2>1, <2>3
  <2> HIDE DEF v
  <2> QED BY <1>1, <2>5, <2>6, <2>7
<1>6. CASE NextVictim(w)
  BY <1>6 DEF Types, NextVictim, GoTo
<1> QED BY <1>2, <1>3, <1>4, <1>5, <1>6 DEF FindTask

(***************************************************************************)
(* The loop head and the idle branch keep the state well shaped.           *)
(***************************************************************************)
LEMMA ShapeIdle ==
  ASSUME Shape, NEW w \in Workers, LoopTop(w) \/ IdleRound(w) PROVE Shape'
<1> USE DEF PcLabels, queues, Shape, HandsOK
<1>1. CASE LoopTop(w)
  BY <1>1, ZenonT(60) DEF Types, LoopTop, GoTo
<1>2. CASE ScanSleepers(w) \/ ScanTimers(w) \/ ScanIo(w)
  BY <1>2, ZenonT(60) DEF Types, ScanSleepers, ScanTimers, ScanIo, ScanStep, GoTo
<1>3. CASE Idle(w)
  <2>1. spins[w] \in 0 .. SpinLimit + 1 /\ SpinLimit + 1 \in 0 .. SpinLimit + 1
        /\ 0 \in 0 .. SpinLimit + 1
    BY DEF Types
  <2>2. ~(spins[w] + 1 > SpinLimit) => spins[w] + 1 \in 0 .. SpinLimit + 1
    BY <2>1
  <2>3. spins' \in [Workers -> 0 .. SpinLimit + 1]
    BY <1>3, <2>1, <2>2, ZenonT(60) DEF Types, Idle
  <2> QED BY <1>3, <2>3, ZenonT(60) DEF Types, Idle, GoTo
<1>4. CASE CountWaiting(w)
  BY <1>4 DEF Types, CountWaiting, GoTo
<1>5. CASE ReportDeadlock(w)
  BY <1>5, ZenonT(60) DEF Types, ReportDeadlock, SetFatal, GoTo
<1> QED BY <1>1, <1>2, <1>3, <1>4, <1>5 DEF IdleRound

(***************************************************************************)
(* A slice and the filing of its outcome keep the state well shaped.       *)
(***************************************************************************)
LEMMA ShapeSlice ==
  ASSUME Shape, NEW w \in Workers, Slice(w) PROVE Shape'
<1> USE DEF PcLabels, queues, Shape, HandsOK
<1>1. CASE \E c \in Tasks : SpawnCount(w, c)
  BY <1>1 DEF Types, SpawnCount, Running, GoTo
<1>2. CASE SpawnFile(w)
  <2>1. child[w] \in Tasks
    BY <1>2 DEF Types, SpawnFile
  <2>2. Append(injector, child[w]) \in Seq(Tasks)
    BY <2>1, AppendProperties DEF Types
  <2>3. injector' \in Seq(Tasks) /\ sleeping' \subseteq Tasks /\ io' \subseteq Tasks
    BY <1>2, <2>1, <2>2 DEF Types, SpawnFile
  <2> QED BY <1>2, <2>3 DEF Types, SpawnFile, GoTo
<1>3. CASE AddTimer(w)
  BY <1>3 DEF Types, AddTimer
<1>4. CASE Requeue(w)
  <2>1. hand[w] \in Tasks
    BY <1>4 DEF Types, Requeue, Running
  <2>2. injector' \in Seq(Tasks)
    BY <1>4, <2>1, AppendProperties DEF Types, Requeue
  <2> QED BY <1>4, <2>2 DEF Types, Requeue, Running, EmptyHand, GoTo
<1>5. CASE GoToSleep(w)
  BY <1>5 DEF Types, GoToSleep, Running, EmptyHand, GoTo
<1>6. CASE WaitForIo(w)
  BY <1>6 DEF Types, WaitForIo, Running, EmptyHand, GoTo
<1>7. CASE Complete(w)
  BY <1>7 DEF Types, Complete, EmptyHand, GoTo
<1>8. CASE MainError(w)
  BY <1>8 DEF Types, MainError, SetFatal, Running, EmptyHand, GoTo
<1>9. CASE WorkerPanic(w)
  BY <1>9 DEF Types, WorkerPanic, Running, EmptyHand, GoTo
<1>10. CASE Uncount(w)
  BY <1>10 DEF Types, Uncount, GoTo
<1> QED BY <1>1, <1>2, <1>3, <1>4, <1>5, <1>6, <1>7, <1>8, <1>9, <1>10
        DEF Slice, EndSlice

(***************************************************************************)
(* The I/O thread and VM::run keep the state well shaped.                  *)
(***************************************************************************)
LEMMA ShapeRest ==
  ASSUME Shape, IoThread \/ Run \/ UNCHANGED vars PROVE Shape'
<1> USE DEF PcLabels, queues, Shape, HandsOK, IoUnchanged
<1>1. CASE IoTop
  BY <1>1 DEF Types, IoTop
<1>2. CASE IoTakeDue
  BY <1>2 DEF Types, IoTakeDue
<1>3. CASE IoFireTimers
  BY <1>3 DEF Types, IoFireTimers
<1>4. CASE IoPush
  <2>1. injector' \in Seq(Tasks)
    BY <1>4, AppendProperties DEF Types, IoPush
  <2> QED BY <1>4, <2>1 DEF Types, IoPush
<1>5. CASE IoPushed
  BY <1>5 DEF Types, IoPushed
<1>6. CASE IoWake
  BY <1>6 DEF Types, IoWake
<1>7. CASE JoinWorkers
  BY <1>7 DEF Types, JoinWorkers
<1>8. CASE JoinIo
  BY <1>8 DEF Types, JoinIo
<1>9. CASE UNCHANGED vars
  BY <1>9 DEF Types, vars
<1> QED BY <1>1, <1>2, <1>3, <1>4, <1>5, <1>6, <1>7, <1>8, <1>9 DEF IoThread, Run

(***************************************************************************)
(* Every step keeps the state well shaped.                                 *)
(***************************************************************************)
LEMMA ShapeNext == Shape /\ [Next]_vars => Shape'
BY ShapeFindTask, ShapeIdle, ShapeSlice, ShapeRest DEF Next, Worker, Returned

-----------------------------------------------------------------------------
(***************************************************************************)
(* Placement: every live task is in exactly one place.                     *)
(***************************************************************************)
Where == [p \in Places |-> At(p)]

\* f tells the elements of L apart by place.
Partition(f, P, L) ==
  /\ UNION {f[p] : p \in P} = L
  /\ \A p, q \in P : p # q => f[p] \cap f[q] = {}

\* g is f with the elements of X moved from place p to place q.
Moved(f, g, P, p, q, X) ==
  \A r \in P : g[r] = IF r = p THEN f[r] \ X
                      ELSE IF r = q THEN f[r] \cup X ELSE f[r]

(***************************************************************************)
(* Moving elements from one place to another keeps a partition: every      *)
(* push, pop, suspension and wake-up of the scheduler is such a move.      *)
(***************************************************************************)
LEMMA MoveKeepsPartition ==
  ASSUME NEW P, NEW f, NEW g, NEW L, NEW p \in P, NEW q \in P, NEW X,
         p # q, X \subseteq f[p], Partition(f, P, L), Moved(f, g, P, p, q, X)
  PROVE  Partition(g, P, L)
<1>1. \A r \in P : f[r] \subseteq L
  BY DEF Partition
<1>2. \A r \in P : g[r] \subseteq L
  BY <1>1 DEF Moved
<1>3. ASSUME NEW x \in L PROVE \E r \in P : x \in g[r]
  <2>1. PICK r \in P : x \in f[r]
    BY DEF Partition
  <2>2. CASE x \in X
    <3>1. g[q] = f[q] \cup X
      BY DEF Moved
    <3> QED BY <2>2, <3>1
  <2>3. CASE x \notin X
    <3>1. g[r] = IF r = p THEN f[r] \ X ELSE IF r = q THEN f[r] \cup X ELSE f[r]
      BY DEF Moved
    <3>2. x \in g[r]
      BY <2>1, <2>3, <3>1
    <3> QED BY <3>2
  <2> QED BY <2>2, <2>3
<1>4. UNION {g[r] : r \in P} = L
  BY <1>2, <1>3
<1>5. ASSUME NEW r \in P, NEW s \in P, r # s, NEW x \in g[r], x \in g[s]
      PROVE  FALSE
  <2>1. CASE x \in X
    \* x was at p only, so it is at q only.
    <3>1. \A u \in P : u # p => x \notin f[u]
      BY <2>1 DEF Partition
    <3>2. \A u \in P : x \in g[u] => u = q
      BY <2>1, <3>1 DEF Moved
    <3> QED BY <1>5, <3>2
  <2>2. CASE x \notin X
    <3>1. x \in f[r] /\ x \in f[s]
      BY <1>5, <2>2 DEF Moved
    <3> QED BY <1>5, <3>1 DEF Partition
  <2> QED BY <2>1, <2>2
<1> QED BY <1>4, <1>5 DEF Partition

\* g is f with the element x added at place q, or taken away from place p.
Added(f, g, P, q, x) ==
  \A r \in P : g[r] = IF r = q THEN f[r] \cup {x} ELSE f[r]
Removed(f, g, P, p, x) ==
  x \in f[p] /\ \A r \in P : g[r] = IF r = p THEN f[r] \ {x} ELSE f[r]

(***************************************************************************)
(* A new element added at one place keeps a partition (Spawn).             *)
(***************************************************************************)
LEMMA AddKeepsPartition ==
  ASSUME NEW P, NEW f, NEW g, NEW L, NEW q \in P, NEW x, x \notin L,
         Partition(f, P, L), Added(f, g, P, q, x)
  PROVE  Partition(g, P, L \cup {x})
<1> USE DEF Added
<1>1. \A r \in P : f[r] \subseteq L
  BY DEF Partition
<1>2. UNION {g[r] : r \in P} = L \cup {x}
  <2>1. \A r \in P : g[r] \subseteq L \cup {x} /\ f[r] \subseteq g[r]
    BY <1>1
  <2>2. x \in g[q]
    OBVIOUS
  <2>3. \A y \in L : \E r \in P : y \in f[r]
    BY DEF Partition
  <2>4. \A y \in L \cup {x} : \E r \in P : y \in g[r]
    BY <2>1, <2>2, <2>3
  <2> QED BY <2>1, <2>4
<1>3. ASSUME NEW r \in P, NEW s \in P, r # s, NEW y \in g[r], y \in g[s]
      PROVE  FALSE
  <2>1. CASE y = x
    <3>1. x \notin f[r] /\ x \notin f[s]
      BY <1>1
    <3> QED BY <1>3, <2>1, <3>1
  <2>2. CASE y # x
    <3>1. y \in f[r] /\ y \in f[s]
      BY <1>3, <2>2
    <3> QED BY <1>3, <3>1 DEF Partition
  <2> QED BY <2>1, <2>2
<1> QED BY <1>2, <1>3 DEF Partition

(***************************************************************************)
(* An element that leaves its place for good keeps a partition (a slice    *)
(* that completes its task, or loses it).                                  *)
(***************************************************************************)
LEMMA RemoveKeepsPartition ==
  ASSUME NEW P, NEW f, NEW g, NEW L, NEW p \in P, NEW x,
         Partition(f, P, L), Removed(f, g, P, p, x)
  PROVE  Partition(g, P, L \ {x})
<1> USE DEF Removed
<1>1. \A r \in P : r # p => x \notin f[r]
  BY DEF Partition
<1>2. UNION {g[r] : r \in P} = L \ {x}
  <2>1. \A r \in P : g[r] = f[r] \ {x}
    BY <1>1
  <2> QED BY <2>1 DEF Partition
<1>3. \A r, s \in P : r # s => g[r] \cap g[s] = {}
  BY DEF Partition
<1> QED BY <1>2, <1>3 DEF Partition

Distinct == /\ IsInjective(injector)
            /\ \A w \in Workers : IsInjective(deque[w])

(***************************************************************************)
(* EachTaskInOnePlace in the words of these lemmas.                        *)
(***************************************************************************)
LEMMA OnePlaceIsPartition ==
  EachTaskInOnePlace <=> Partition(Where, Places, Live) /\ Distinct
<1>1. \A p \in Places : Where[p] = At(p)
  BY DEF Where
<1>2. {Where[p] : p \in Places} = {At(p) : p \in Places}
  BY <1>1
<1> QED BY <1>1, <1>2 DEF EachTaskInOnePlace, Partition, Distinct

\* The places by name.
Inj == <<"injector", 0>>
Slp == <<"sleeping", 0>>
IoL == <<"io", 0>>
Rdy == <<"ready", 0>>
Dq(w) == <<"deque", w>>
Hd(w) == <<"hand", w>>
Ch(w) == <<"child", w>>

(***************************************************************************)
(* The places are these, and there is no other.                            *)
(***************************************************************************)
LEMMA PlaceNames ==
  /\ Inj \in Places /\ Slp \in Places /\ IoL \in Places /\ Rdy \in Places
  /\ \A w \in Workers : Dq(w) \in Places /\ Hd(w) \in Places /\ Ch(w) \in Places
  /\ \A r \in Places : \/ r \in {Inj, Slp, IoL, Rdy}
                       \/ \E w \in Workers : r \in {Dq(w), Hd(w), Ch(w)}
BY DEF Places, Inj, Slp, IoL, Rdy, Dq, Hd, Ch

\* No two places are the same.
LEMMA PlacesDiffer ==
  /\ Inj # Slp /\ Inj # IoL /\ Inj # Rdy /\ Slp # IoL /\ Slp # Rdy /\ IoL # Rdy
  /\ \A w : \A r \in {Inj, Slp, IoL, Rdy} : r # Dq(w) /\ r # Hd(w) /\ r # Ch(w)
  /\ \A v, w : Dq(v) # Hd(w) /\ Dq(v) # Ch(w) /\ Hd(v) # Ch(w)
  /\ \A v, w : /\ Dq(v) = Dq(w) <=> v = w
               /\ Hd(v) = Hd(w) <=> v = w
               /\ Ch(v) = Ch(w) <=> v = w
BY DEF Inj, Slp, IoL, Rdy, Dq, Hd, Ch

(***************************************************************************)
(* What is at each place, before and after a step.                         *)
(***************************************************************************)
LEMMA WhereIs ==
  /\ Where[Inj] = Range(injector) /\ Where[Slp] = sleeping
  /\ Where[IoL] = io /\ Where[Rdy] = ready
  /\ \A w \in Workers : /\ Where[Dq(w)] = Range(deque[w])
                        /\ Where[Hd(w)] = {hand[w]} \ {NoTask}
                        /\ Where[Ch(w)] = {child[w]} \ {NoTask}
<1>1. \A p \in Places : Where[p] = At(p)
  BY DEF Where
<1>2. /\ At(Inj) = Range(injector) /\ At(Slp) = sleeping
      /\ At(IoL) = io /\ At(Rdy) = ready
  BY DEF At, Inj, Slp, IoL, Rdy
<1>3. ASSUME NEW w \in Workers
      PROVE  /\ At(Dq(w)) = Range(deque[w])
             /\ At(Hd(w)) = {hand[w]} \ {NoTask}
             /\ At(Ch(w)) = {child[w]} \ {NoTask}
  BY DEF At, Dq, Hd, Ch
<1> QED BY <1>1, <1>2, <1>3, PlaceNames

\* The same after the step.
LEMMA WhereIsNext ==
  /\ Where'[Inj] = Range(injector') /\ Where'[Slp] = sleeping'
  /\ Where'[IoL] = io' /\ Where'[Rdy] = ready'
  /\ \A w \in Workers : /\ Where'[Dq(w)] = Range(deque'[w])
                        /\ Where'[Hd(w)] = {hand'[w]} \ {NoTask}
                        /\ Where'[Ch(w)] = {child'[w]} \ {NoTask}
<1>1. \A p \in Places : Where'[p] = At(p)'
  BY DEF Where, Places, Workers
<1>2. /\ At(Inj)' = Range(injector') /\ At(Slp)' = sleeping'
      /\ At(IoL)' = io' /\ At(Rdy)' = ready'
  BY DEF At, Inj, Slp, IoL, Rdy, Range
<1>3. ASSUME NEW w \in Workers
      PROVE  /\ At(Dq(w))' = Range(deque'[w])
             /\ At(Hd(w))' = {hand'[w]} \ {NoTask}
             /\ At(Ch(w))' = {child'[w]} \ {NoTask}
  BY DEF At, Dq, Hd, Ch, Range
<1> QED BY <1>1, <1>2, <1>3, PlaceNames

Placed == Partition(Where, Places, Live) /\ Distinct

(***************************************************************************)
(* A place whose part of the state a step leaves alone holds the same      *)
(* tasks after the step.                                                   *)
(***************************************************************************)
LEMMA Frame ==
  ASSUME NEW A,
         Inj \in A \/ injector' = injector, Slp \in A \/ sleeping' = sleeping,
         IoL \in A \/ io' = io, Rdy \in A \/ ready' = ready,
         \A v \in Workers : /\ Dq(v) \in A \/ deque'[v] = deque[v]
                            /\ Hd(v) \in A \/ hand'[v] = hand[v]
                            /\ Ch(v) \in A \/ child'[v] = child[v]
  PROVE  \A r \in Places \ A : Where'[r] = Where[r]
<1> SUFFICES ASSUME NEW r \in Places, r \notin A PROVE Where'[r] = Where[r]
  OBVIOUS
<1>1. CASE r \in {Inj, Slp, IoL, Rdy}
  BY <1>1, WhereIs, WhereIsNext
<1>2. ASSUME NEW v \in Workers, r \in {Dq(v), Hd(v), Ch(v)}
      PROVE  Where'[r] = Where[r]
  BY <1>2, WhereIs, WhereIsNext, ZenonT(60)
<1> QED BY <1>1, <1>2, PlaceNames

(***************************************************************************)
(* A step that only moves some tasks from one place to another keeps every *)
(* live task in one place.                                                 *)
(***************************************************************************)
LEMMA MoveStep ==
  ASSUME Placed, NEW p \in Places, NEW q \in Places, p # q,
         NEW X, X \subseteq Where[p],
         Where'[p] = Where[p] \ X, Where'[q] = Where[q] \cup X,
         \A r \in Places \ {p, q} : Where'[r] = Where[r],
         status' = status, Distinct'
  PROVE  Placed'
<1>1. Live' = Live
  BY DEF Live
<1>2. Moved(Where, Where', Places, p, q, X)
  BY DEF Moved
<1>3. Partition(Where', Places, Live)
  BY <1>2, MoveKeepsPartition DEF Placed
<1> QED BY <1>1, <1>3 DEF Placed, Partition

(***************************************************************************)
(* A step that leaves the queues and the status of the tasks alone.        *)
(***************************************************************************)
LEMMA StillStep ==
  ASSUME Placed, UNCHANGED queues, status' = status PROVE Placed'
<1>1. Where' = Where /\ Live' = Live /\ Distinct'
  BY DEF Where, At, Live, Distinct, Placed, queues
<1> QED BY <1>1 DEF Placed, Partition

(***************************************************************************)
(* Popping the own deque moves its head into the worker's hand.            *)
(***************************************************************************)
LEMMA PlacedPopLocal ==
  ASSUME Shape, Placed, NEW w \in Workers, PopLocal(w) PROVE Placed'
<1> DEFINE o == OwnDeque(w)
           h == Head(deque[o])
<1>1. /\ o \in Workers /\ deque[o] \in Seq(Tasks) /\ deque[o] # <<>>
      /\ IsInjective(deque[o]) /\ hand[w] = NoTask
  BY DequeIndices DEF PopLocal, Shape, Types, HandsOK, Placed, Distinct
<1>2. /\ h \in Tasks /\ Tail(deque[o]) \in Seq(Tasks)
      /\ Range(deque[o]) = {h} \cup Range(Tail(deque[o]))
      /\ h \notin Range(Tail(deque[o])) /\ IsInjective(Tail(deque[o]))
  BY <1>1, PopFacts
<1>3. /\ deque' = [deque EXCEPT ![o] = Tail(deque[o])]
      /\ hand' = [hand EXCEPT ![w] = h]
      /\ UNCHANGED <<injector, child, sleeping, io, ready, status>>
  BY DEF PopLocal, StartSlice
<1> HIDE DEF o, h
<1>4. Distinct'
  BY <1>1, <1>2, <1>3 DEF Distinct, Placed, Shape, Types
<1>5. Where'[Dq(o)] = Where[Dq(o)] \ {h} /\ {h} \subseteq Where[Dq(o)]
  BY <1>1, <1>2, <1>3, WhereIs, WhereIsNext DEF Shape, Types
<1>6. Where'[Hd(w)] = Where[Hd(w)] \cup {h}
  BY <1>1, <1>2, <1>3, WhereIs, WhereIsNext DEF Shape, Types
<1>7. \A r \in Places \ {Dq(o), Hd(w)} : Where'[r] = Where[r]
  <2>1. \A v \in Workers : /\ v = o \/ deque'[v] = deque[v]
                           /\ v = w \/ hand'[v] = hand[v]
    BY <1>3 DEF Shape, Types
  <2> QED BY <1>3, <2>1, Frame
<1> QED BY <1>1, <1>3, <1>4, <1>5, <1>6, <1>7, MoveStep, PlaceNames, PlacesDiffer, ZenonT(60)

(***************************************************************************)
(* A step that takes some tasks from a place and deals them out to two     *)
(* other places: the batch steals.                                         *)
(***************************************************************************)
Dealt(p, q, u, X, Y) ==
  /\ p # q /\ p # u /\ q # u
  /\ X \subseteq Where[p] /\ Y \subseteq Where[p] /\ X \cap Y = {}
  /\ Where'[p] = (Where[p] \ X) \ Y
  /\ Where'[q] = Where[q] \cup X /\ Where'[u] = Where[u] \cup Y
  /\ \A r \in Places \ {p, q, u} : Where'[r] = Where[r]
  /\ status' = status

\* A dealt step keeps every live task in one place.
LEMMA DealStep ==
  ASSUME Placed, NEW p \in Places, NEW q \in Places, NEW u \in Places,
         NEW X, NEW Y, Dealt(p, q, u, X, Y), Distinct'
  PROVE  Placed'
<1> USE DEF Dealt
<1> DEFINE g == [r \in Places |-> IF r = p THEN Where[r] \ X
                                  ELSE IF r = q THEN Where[r] \cup X
                                  ELSE Where[r]]
<1>1. Moved(Where, g, Places, p, q, X)
  BY DEF Moved
<1>2. Partition(g, Places, Live)
  BY <1>1, MoveKeepsPartition DEF Placed
<1>3. Y \subseteq g[p]
  OBVIOUS
<1>4. Moved(g, Where', Places, p, u, Y)
  BY DEF Moved
<1> HIDE DEF g
<1>5. Partition(Where', Places, Live)
  BY <1>2, <1>3, <1>4, MoveKeepsPartition
<1>6. Live' = Live
  BY DEF Live
<1> QED BY <1>5, <1>6 DEF Placed, Partition

(***************************************************************************)
(* A task at one place is at no other.                                     *)
(***************************************************************************)
LEMMA NotElsewhere ==
  ASSUME Placed, NEW p \in Places, NEW q \in Places, p # q,
         NEW t \in Where[p]
  PROVE  t \notin Where[q] /\ t \in Live
BY DEF Placed, Partition

(***************************************************************************)
(* Stealing from the injector deals a batch to the hand and the own deque. *)
(***************************************************************************)
LEMMA PlacedStealInjector ==
  ASSUME Shape, Placed, NEW w \in Workers, StealInjector(w) PROVE Placed'
<1> DEFINE o == OwnDeque(w)
           h == Head(injector)
<1>1. PICK k \in BatchSizes(injector) :
        /\ StartSlice(w, h)
        /\ deque' = [deque EXCEPT ![o] = SubSeq(injector, 2, k)]
        /\ injector' = SubSeq(injector, k + 1, Len(injector))
  BY DEF StealInjector
<1> DEFINE b == SubSeq(injector, 2, k)
           r == SubSeq(injector, k + 1, Len(injector))
<1>2. /\ o \in Workers /\ deque[o] = <<>> /\ hand[w] = NoTask
      /\ injector \in Seq(Tasks) /\ injector # <<>> /\ IsInjective(injector)
      /\ UNCHANGED <<child, sleeping, io, ready, status>>
  BY DequeIndices DEF StealInjector, Shape, Types, HandsOK, Placed, Distinct
<1>3. /\ h \in Tasks /\ b \in Seq(Tasks) /\ r \in Seq(Tasks)
      /\ Range(injector) = {h} \cup Range(b) \cup Range(r)
      /\ h \notin Range(b) /\ h \notin Range(r) /\ Range(b) \cap Range(r) = {}
      /\ IsInjective(b) /\ IsInjective(r)
  BY <1>2, BatchTypes, BatchFacts
<1>4. hand' = [hand EXCEPT ![w] = h]
  BY <1>1 DEF StartSlice
<1>5. deque' = [deque EXCEPT ![o] = b] /\ injector' = r
  BY <1>1
<1> HIDE DEF o, h, b, r
<1>6. Distinct'
  BY <1>2, <1>3, <1>5 DEF Distinct, Placed, Shape, Types
<1>7. Range(deque[o]) = {}
  BY <1>2 DEF Range
<1>8. /\ Where'[Inj] = (Where[Inj] \ {h}) \ Range(b)
      /\ {h} \subseteq Where[Inj] /\ Range(b) \subseteq Where[Inj]
  BY <1>3, <1>5, WhereIs, WhereIsNext
<1>9. Where'[Hd(w)] = Where[Hd(w)] \cup {h}
  BY <1>2, <1>3, <1>4, WhereIs, WhereIsNext DEF Shape, Types
<1>10. Where'[Dq(o)] = Where[Dq(o)] \cup Range(b)
  BY <1>2, <1>5, <1>7, WhereIs, WhereIsNext DEF Shape, Types
<1>11. \A p \in Places \ {Inj, Hd(w), Dq(o)} : Where'[p] = Where[p]
  <2>1. \A v \in Workers : /\ v = o \/ deque'[v] = deque[v]
                           /\ v = w \/ hand'[v] = hand[v]
    BY <1>4, <1>5 DEF Shape, Types
  <2> QED BY <1>2, <2>1, Frame
<1>12. {h} \cap Range(b) = {} /\ status' = status
  BY <1>2, <1>3
<1>13. /\ Inj \in Places /\ Hd(w) \in Places /\ Dq(o) \in Places
       /\ Inj # Hd(w) /\ Inj # Dq(o) /\ Hd(w) # Dq(o)
  BY <1>2, PlaceNames, PlacesDiffer
<1>14. Dealt(Inj, Hd(w), Dq(o), {h}, Range(b))
  BY <1>8, <1>9, <1>10, <1>11, <1>12, <1>13 DEF Dealt
<1> QED BY <1>6, <1>13, <1>14, DealStep

(***************************************************************************)
(* Stealing from a peer deals a batch to the hand and the own deque.       *)
(***************************************************************************)
LEMMA PlacedStealFromPeer ==
  ASSUME Shape, Placed, NEW w \in Workers, StealFromPeer(w),
         deque[OwnDeque(w)] = <<>>
  PROVE  Placed'
<1> DEFINE o == OwnDeque(w)
           v == Victim(w, victim[w])
           h == Head(deque[v])
<1>1. PICK k \in BatchSizes(deque[v]) :
        /\ StartSlice(w, h)
        /\ deque' = [deque EXCEPT ![v] = SubSeq(@, k + 1, Len(@)),
                                  ![o] = SubSeq(deque[v], 2, k)]
  BY DEF StealFromPeer
<1> DEFINE b == SubSeq(deque[v], 2, k)
           r == SubSeq(deque[v], k + 1, Len(deque[v]))
<1>2. /\ o \in Workers /\ v \in Workers /\ v # o
      /\ deque \in [Workers -> Seq(Tasks)]
      /\ deque[v] \in Seq(Tasks) /\ deque[v] # <<>> /\ IsInjective(deque[v])
      /\ hand[w] = NoTask
      /\ UNCHANGED <<injector, child, sleeping, io, ready, status>>
  BY DequeIndices DEF StealFromPeer, Shape, Types, HandsOK, Placed, Distinct
<1>3. /\ h \in Tasks /\ b \in Seq(Tasks) /\ r \in Seq(Tasks)
      /\ Range(deque[v]) = {h} \cup Range(b) \cup Range(r)
      /\ h \notin Range(b) /\ h \notin Range(r) /\ Range(b) \cap Range(r) = {}
      /\ IsInjective(b) /\ IsInjective(r)
  BY <1>2, BatchTypes, BatchFacts
<1>4. hand' = [hand EXCEPT ![w] = h]
  BY <1>1 DEF StartSlice
<1>5. deque' = [deque EXCEPT ![v] = r, ![o] = b]
  BY <1>1, <1>2
<1> HIDE DEF v, h, b, r
<1>6. /\ deque'[v] = r /\ deque'[o] = b
      /\ \A x \in Workers \ {v, o} : deque'[x] = deque[x]
  BY <1>2, <1>5
<1>7. Distinct'
  BY <1>2, <1>3, <1>6 DEF Distinct, Placed
<1>8. Range(deque[o]) = {}
  BY DEF Range
<1> HIDE DEF o
<1>9. /\ Where'[Dq(v)] = (Where[Dq(v)] \ {h}) \ Range(b)
      /\ {h} \subseteq Where[Dq(v)] /\ Range(b) \subseteq Where[Dq(v)]
  BY <1>2, <1>3, <1>6, WhereIs, WhereIsNext
<1>10. Where'[Hd(w)] = Where[Hd(w)] \cup {h}
  BY <1>2, <1>3, <1>4, WhereIs, WhereIsNext, SMTT(60) DEF Shape, Types
<1>11. Where'[Dq(o)] = Where[Dq(o)] \cup Range(b)
  BY <1>2, <1>6, <1>8, WhereIs, WhereIsNext
<1>12. \A p \in Places \ {Dq(v), Hd(w), Dq(o)} : Where'[p] = Where[p]
  <2>1. \A x \in Workers : /\ x = v \/ x = o \/ deque'[x] = deque[x]
                           /\ x = w \/ hand'[x] = hand[x]
    BY <1>4, <1>6 DEF Shape, Types
  <2> QED BY <1>2, <2>1, Frame
<1>13. {h} \cap Range(b) = {} /\ status' = status
  BY <1>2, <1>3
<1>14. /\ Dq(v) \in Places /\ Hd(w) \in Places /\ Dq(o) \in Places
       /\ Dq(v) # Hd(w) /\ Dq(v) # Dq(o) /\ Hd(w) # Dq(o)
  BY <1>2, PlaceNames, PlacesDiffer
<1>15. Dealt(Dq(v), Hd(w), Dq(o), {h}, Range(b))
  BY <1>9, <1>10, <1>11, <1>12, <1>13, <1>14 DEF Dealt
<1> QED BY <1>7, <1>14, <1>15, DealStep

\* The tasks of X go from place p to place q, and nothing else moves.
MovedTo(p, q, X) ==
  /\ p # q /\ X \subseteq Where[p]
  /\ Where'[p] = Where[p] \ X /\ Where'[q] = Where[q] \cup X
  /\ \A r \in Places \ {p, q} : Where'[r] = Where[r]
  /\ status' = status

\* Such a step keeps every live task in one place.
LEMMA MovedToStep ==
  ASSUME Placed, NEW p \in Places, NEW q \in Places, NEW X,
         MovedTo(p, q, X), Distinct'
  PROVE  Placed'
BY MoveStep DEF MovedTo

\* A worker that lets go of its task empties its hand and no other.
LEMMA LetGo ==
  ASSUME Shape, NEW w \in Workers, EmptyHand(w), hand[w] # NoTask
  PROVE  /\ hand[w] \in Tasks /\ {hand[w]} \subseteq Where[Hd(w)]
         /\ Where'[Hd(w)] = Where[Hd(w)] \ {hand[w]}
         /\ \A v \in Workers : v # w => hand'[v] = hand[v]
<1>1. hand \in [Workers -> Tasks \cup {NoTask}] /\ hand' = [hand EXCEPT ![w] = NoTask]
  BY DEF Shape, Types, EmptyHand
<1> QED BY <1>1, WhereIs, WhereIsNext

(***************************************************************************)
(* Pushing a task to the injector keeps both queues free of duplicates if  *)
(* the task was somewhere else.                                            *)
(***************************************************************************)
LEMMA PushInjector ==
  ASSUME Shape, Placed, NEW p \in Places, p # Inj, NEW t \in Tasks,
         t \in Where[p], injector' = Append(injector, t), deque' = deque
  PROVE  Distinct' /\ Where'[Inj] = Where[Inj] \cup {t}
<1>1. injector \in Seq(Tasks) /\ IsInjective(injector)
  BY DEF Shape, Types, Placed, Distinct
<1>2. t \notin Range(injector)
  BY NotElsewhere, PlaceNames, WhereIs
<1>3. Range(injector') = Range(injector) \cup {t} /\ IsInjective(injector')
  BY <1>1, <1>2, PushFacts
<1>4. Distinct'
  BY <1>3 DEF Distinct, Placed
<1> QED BY <1>3, <1>4, WhereIs, WhereIsNext

(***************************************************************************)
(* The tasks that stay alive at the end of a slice move from the hand to   *)
(* the injector, the sleepers or the socket waiters.                       *)
(***************************************************************************)
LEMMA PlacedRequeue ==
  ASSUME Shape, Placed, NEW w \in Workers,
         Requeue(w) \/ GoToSleep(w) \/ WaitForIo(w)
  PROVE  Placed'
<1> DEFINE t == hand[w]
<1>1. /\ t # NoTask /\ EmptyHand(w)
      /\ UNCHANGED <<deque, child, ready, status>>
  BY DEF Requeue, GoToSleep, WaitForIo, Running, Shape, HandsOK
<1>2. /\ t \in Tasks /\ {t} \subseteq Where[Hd(w)]
      /\ Where'[Hd(w)] = Where[Hd(w)] \ {t}
      /\ \A v \in Workers : v # w => hand'[v] = hand[v]
  BY <1>1, LetGo
<1>3. Hd(w) \in Places /\ Inj \in Places /\ Slp \in Places /\ IoL \in Places
      /\ Hd(w) # Inj /\ Hd(w) # Slp /\ Hd(w) # IoL
  BY PlaceNames, PlacesDiffer
<1> HIDE DEF t
<1>4. CASE Requeue(w)
  <2>1. injector' = Append(injector, t) /\ UNCHANGED <<sleeping, io>>
    BY <1>4 DEF Requeue, t
  <2>2. Distinct' /\ Where'[Inj] = Where[Inj] \cup {t}
    BY <1>1, <1>2, <1>3, <2>1, PushInjector
  <2>3. \A r \in Places \ {Hd(w), Inj} : Where'[r] = Where[r]
    BY <1>1, <1>2, <2>1, Frame
  <2>4. MovedTo(Hd(w), Inj, {t})
    BY <1>1, <1>2, <1>3, <2>2, <2>3 DEF MovedTo
  <2> QED BY <1>3, <2>2, <2>4, MovedToStep
<1>5. CASE GoToSleep(w)
  <2>1. sleeping' = sleeping \cup {t} /\ UNCHANGED <<injector, io>>
    BY <1>5 DEF GoToSleep, t
  <2>2. Distinct' /\ Where'[Slp] = Where[Slp] \cup {t}
    BY <1>1, <2>1, WhereIs, WhereIsNext DEF Distinct, Placed
  <2>3. \A r \in Places \ {Hd(w), Slp} : Where'[r] = Where[r]
    BY <1>1, <1>2, <2>1, Frame
  <2>4. MovedTo(Hd(w), Slp, {t})
    BY <1>1, <1>2, <1>3, <2>2, <2>3 DEF MovedTo
  <2> QED BY <1>3, <2>2, <2>4, MovedToStep
<1>6. CASE WaitForIo(w)
  <2>1. io' = io \cup {t} /\ UNCHANGED <<injector, sleeping>>
    BY <1>6 DEF WaitForIo, t
  <2>2. Distinct' /\ Where'[IoL] = Where[IoL] \cup {t}
    BY <1>1, <2>1, WhereIs, WhereIsNext DEF Distinct, Placed
  <2>3. \A r \in Places \ {Hd(w), IoL} : Where'[r] = Where[r]
    BY <1>1, <1>2, <2>1, Frame
  <2>4. MovedTo(Hd(w), IoL, {t})
    BY <1>1, <1>2, <1>3, <2>2, <2>3 DEF MovedTo
  <2> QED BY <1>3, <2>2, <2>4, MovedToStep
<1> QED BY <1>4, <1>5, <1>6

(***************************************************************************)
(* A task that is over, or lost with its thread, leaves the hand for good. *)
(***************************************************************************)
LEMMA PlacedEnd ==
  ASSUME Shape, Placed, NEW w \in Workers,
         Complete(w) \/ MainError(w) \/ WorkerPanic(w)
  PROVE  Placed'
<1> DEFINE t == hand[w]
<1>1. /\ t # NoTask /\ EmptyHand(w)
      /\ UNCHANGED <<injector, deque, child, sleeping, io, ready>>
  BY DEF Complete, MainError, WorkerPanic, Running, Shape, HandsOK
<1>2. /\ t \in Tasks /\ t \in Where[Hd(w)]
      /\ Where'[Hd(w)] = Where[Hd(w)] \ {t}
      /\ \A v \in Workers : v # w => hand'[v] = hand[v]
  BY <1>1, LetGo
<1>3. \/ status' = [status EXCEPT ![t] = "done"]
      \/ status' = [status EXCEPT ![t] = "lost"]
  BY DEF Complete, MainError, WorkerPanic
<1>4. status \in [Tasks -> {"unborn", "live", "done", "lost"}]
  BY DEF Shape, Types
<1> HIDE DEF t
<1>5. Live' = Live \ {t}
  BY <1>2, <1>3, <1>4 DEF Live
<1>6. Removed(Where, Where', Places, Hd(w), t)
  <2>1. \A r \in Places \ {Hd(w)} : Where'[r] = Where[r]
    BY <1>1, <1>2, Frame
  <2> QED BY <1>2, <2>1 DEF Removed
<1>7. Partition(Where', Places, Live \ {t})
  BY <1>6, PlaceNames, RemoveKeepsPartition DEF Placed
<1>8. Distinct'
  BY <1>1 DEF Distinct, Placed
<1>9. Partition(Where', Places, Live')
  BY <1>5, <1>7
<1> QED BY <1>8, <1>9 DEF Placed, Partition

(***************************************************************************)
(* Spawn puts a task that was nowhere into the worker's other hand, then   *)
(* files it.                                                               *)
(***************************************************************************)
LEMMA PlacedSpawn ==
  ASSUME Shape, Placed, NEW w \in Workers,
         (\E c \in Tasks : SpawnCount(w, c)) \/ SpawnFile(w)
  PROVE  Placed'
<1>1. child \in [Workers -> Tasks \cup {NoTask}]
  BY DEF Shape, Types
<1>2. ASSUME NEW c \in Tasks, SpawnCount(w, c) PROVE Placed'
  <2>1. /\ child[w] = NoTask /\ child' = [child EXCEPT ![w] = c]
        /\ status[c] = "unborn" /\ status' = [status EXCEPT ![c] = "live"]
        /\ UNCHANGED <<injector, deque, hand, sleeping, io, ready>>
    BY <1>2 DEF SpawnCount, Running, Shape, HandsOK
  <2>2. c \notin Live /\ Live' = Live \cup {c}
    BY <2>1 DEF Live, Shape, Types
  <2>3. Where'[Ch(w)] = Where[Ch(w)] \cup {c}
    BY <1>1, <2>1, WhereIs, WhereIsNext
  <2>4. Added(Where, Where', Places, Ch(w), c)
    <3>1. \A v \in Workers : v # w => child'[v] = child[v]
      BY <1>1, <2>1
    <3>2. \A r \in Places \ {Ch(w)} : Where'[r] = Where[r]
      BY <2>1, <3>1, Frame
    <3> QED BY <2>3, <3>2 DEF Added
  <2>5. Partition(Where', Places, Live \cup {c})
    BY <2>2, <2>4, PlaceNames, AddKeepsPartition DEF Placed
  <2>6. Distinct'
    BY <2>1 DEF Distinct, Placed
  <2>7. Partition(Where', Places, Live')
    BY <2>2, <2>5
  <2> QED BY <2>6, <2>7 DEF Placed, Partition
<1>3. CASE SpawnFile(w)
  <2> DEFINE c == child[w]
  <2>1. /\ c \in Tasks /\ child' = [child EXCEPT ![w] = NoTask]
        /\ UNCHANGED <<deque, hand, ready, status>>
    BY <1>1, <1>3 DEF SpawnFile, Shape, HandsOK
  <2>2. \/ injector' = Append(injector, c) /\ UNCHANGED <<sleeping, io>>
        \/ sleeping' = sleeping \cup {c} /\ UNCHANGED <<injector, io>>
        \/ io' = io \cup {c} /\ UNCHANGED <<injector, sleeping>>
    BY <1>3 DEF SpawnFile
  <2>3. {c} \subseteq Where[Ch(w)] /\ Where'[Ch(w)] = Where[Ch(w)] \ {c}
    BY <1>1, <2>1, WhereIs, WhereIsNext
  <2>4. \A v \in Workers : v # w => child'[v] = child[v]
    BY <1>1, <2>1
  <2>5. /\ Ch(w) \in Places /\ Inj \in Places /\ Slp \in Places /\ IoL \in Places
        /\ Ch(w) # Inj /\ Ch(w) # Slp /\ Ch(w) # IoL
    BY PlaceNames, PlacesDiffer
  <2> HIDE DEF c
  <2>6. CASE injector' = Append(injector, c) /\ UNCHANGED <<sleeping, io>>
    <3>1. Distinct' /\ Where'[Inj] = Where[Inj] \cup {c}
      BY <2>1, <2>3, <2>5, <2>6, PushInjector
    <3>2. \A r \in Places \ {Ch(w), Inj} : Where'[r] = Where[r]
      BY <2>1, <2>4, <2>6, Frame
    <3>3. MovedTo(Ch(w), Inj, {c})
      BY <2>1, <2>3, <2>5, <3>1, <3>2 DEF MovedTo
    <3> QED BY <2>5, <3>1, <3>3, MovedToStep
  <2>7. CASE sleeping' = sleeping \cup {c} /\ UNCHANGED <<injector, io>>
    <3>1. Distinct' /\ Where'[Slp] = Where[Slp] \cup {c}
      BY <2>1, <2>7, WhereIs, WhereIsNext DEF Distinct, Placed
    <3>2. \A r \in Places \ {Ch(w), Slp} : Where'[r] = Where[r]
      BY <2>1, <2>4, <2>7, Frame
    <3>3. MovedTo(Ch(w), Slp, {c})
      BY <2>1, <2>3, <2>5, <3>1, <3>2 DEF MovedTo
    <3> QED BY <2>5, <3>1, <3>3, MovedToStep
  <2>8. CASE io' = io \cup {c} /\ UNCHANGED <<injector, sleeping>>
    <3>1. Distinct' /\ Where'[IoL] = Where[IoL] \cup {c}
      BY <2>1, <2>8, WhereIs, WhereIsNext DEF Distinct, Placed
    <3>2. \A r \in Places \ {Ch(w), IoL} : Where'[r] = Where[r]
      BY <2>1, <2>4, <2>8, Frame
    <3>3. MovedTo(Ch(w), IoL, {c})
      BY <2>1, <2>3, <2>5, <3>1, <3>2 DEF MovedTo
    <3> QED BY <2>5, <3>1, <3>3, MovedToStep
  <2> QED BY <2>2, <2>6, <2>7, <2>8
<1> QED BY <1>2, <1>3

(***************************************************************************)
(* The I/O thread takes tasks off its lists and pushes them one by one.    *)
(***************************************************************************)
LEMMA PlacedIo ==
  ASSUME Shape, Placed, IoThread PROVE Placed'
<1>1. UNCHANGED <<deque, hand, child, status>>
  BY DEF IoThread, IoTop, IoTakeDue, IoFireTimers, IoPush, IoPushed, IoWake,
         IoUnchanged
<1>2. /\ Inj \in Places /\ Slp \in Places /\ IoL \in Places /\ Rdy \in Places
      /\ Inj # Rdy /\ Slp # Rdy /\ IoL # Rdy
  BY PlaceNames, PlacesDiffer
<1>3. CASE IoTop \/ IoFireTimers \/ IoPushed
  <2>1. UNCHANGED queues
    BY <1>1, <1>3 DEF IoTop, IoFireTimers, IoPushed, queues
  <2> QED BY <1>1, <2>1, StillStep
<1>4. CASE IoTakeDue
  <2>1. PICK due \in SUBSET sleeping : sleeping' = sleeping \ due /\ ready' = due
    BY <1>4 DEF IoTakeDue
  <2>2. ready = {} /\ UNCHANGED <<injector, io>>
    BY <1>4 DEF IoTakeDue, Shape, HandsOK
  <2>3. \A r \in Places \ {Slp, Rdy} : Where'[r] = Where[r]
    BY <1>1, <2>2, Frame
  <2>4. MovedTo(Slp, Rdy, due)
    BY <1>1, <1>2, <2>1, <2>2, <2>3, WhereIs, WhereIsNext DEF MovedTo
  <2>5. Distinct'
    BY <1>1, <2>2 DEF Distinct, Placed
  <2> QED BY <1>2, <2>4, <2>5, MovedToStep
<1>5. CASE IoPush
  <2>1. PICK t \in ready : injector' = Append(injector, t) /\ ready' = ready \ {t}
    BY <1>5 DEF IoPush
  <2>2. t \in Tasks /\ t \in Where[Rdy] /\ UNCHANGED <<sleeping, io>>
    BY <1>5, <2>1, WhereIs DEF IoPush, Shape, Types
  <2>3. Distinct' /\ Where'[Inj] = Where[Inj] \cup {t}
    BY <1>1, <1>2, <2>1, <2>2, PushInjector
  <2>4. Where'[Rdy] = Where[Rdy] \ {t}
    BY <2>1, WhereIs, WhereIsNext
  <2>5. \A r \in Places \ {Rdy, Inj} : Where'[r] = Where[r]
    BY <1>1, <2>2, Frame
  <2>6. MovedTo(Rdy, Inj, {t})
    BY <1>1, <1>2, <2>2, <2>3, <2>4, <2>5 DEF MovedTo
  <2> QED BY <1>2, <2>3, <2>6, MovedToStep
<1>6. CASE IoWake
  <2>1. PICK woken \in SUBSET io : io' = io \ woken /\ ready' = woken
    BY <1>6 DEF IoWake
  <2>2. ready = {} /\ UNCHANGED <<injector, sleeping>>
    BY <1>6 DEF IoWake, Shape, HandsOK
  <2>3. \A r \in Places \ {IoL, Rdy} : Where'[r] = Where[r]
    BY <1>1, <2>2, Frame
  <2>4. MovedTo(IoL, Rdy, woken)
    BY <1>1, <1>2, <2>1, <2>2, <2>3, WhereIs, WhereIsNext DEF MovedTo
  <2>5. Distinct'
    BY <1>1, <2>2 DEF Distinct, Placed
  <2> QED BY <1>2, <2>4, <2>5, MovedToStep
<1> QED BY <1>3, <1>4, <1>5, <1>6 DEF IoThread

(***************************************************************************)
(* The steps that move no task.                                            *)
(***************************************************************************)
LEMMA PlacedStill ==
  ASSUME Placed, NEW w \in Workers,
         \/ LoopTop(w) \/ NothingQueued(w) \/ NextVictim(w) \/ IdleRound(w)
         \/ AddTimer(w) \/ Uncount(w) \/ Run \/ UNCHANGED vars
  PROVE  Placed'
<1>1. UNCHANGED queues /\ status' = status
  BY DEF LoopTop, NothingQueued, NextVictim, IdleRound, ScanSleepers,
         ScanTimers, ScanIo, ScanStep, Idle, CountWaiting, ReportDeadlock,
         AddTimer, Uncount, Run, JoinWorkers, JoinIo, vars, queues
<1> QED BY <1>1, StillStep
=============================================================================

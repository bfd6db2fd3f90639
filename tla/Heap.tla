--------------------------------- MODULE Heap ---------------------------------
(* The heap (src/heap.rs) and its collector (trigger_gc in src/vm.rs), with   *)
(* the locks they take: the tasks of several workers allocate, read and write *)
(* objects, and the one that finds too many of them marks and sweeps.         *)
(*                                                                            *)
(* chunks is a read-write lock: a reader waits as soon as a writer does, even *)
(* if it reads already (parking_lot). free_list and gc_start_mutex are        *)
(* mutexes. The lock of one slot is held within one step only, and that of    *)
(* allocated_count too: whoever holds it waits for nothing.                   *)
(*                                                                            *)
(* An object is reduced to the objects it refers to, directly or from within  *)
(* a tuple in its data; a task to those its stack and the closures of its     *)
(* frames refer to, and those its deferred calls do; and the globals and      *)
(* modules to one variable. A tuple is a value, not an object: on a stack or  *)
(* in a global it stands for what it holds, as mark_value looks inside; in an *)
(* object it hides it, as push_value_refs does not.                           *)
EXTENDS Integers, Sequences, FiniteSets, SequencesExt

CONSTANTS
    Tasks,         \* the tasks, each on a worker of its own while it runs
    NoTask,
    MaxSlots,      \* bound on the slots of the heap
    MinThreshold,  \* 256 in the code
    MaxOps,        \* bound on the instructions of a task that use the heap; what
                   \* it has deferred is executed beyond that
    Kinds          \* what they do: a subset of AllKinds

ASSUME HeapAssumption ==
    /\ NoTask \notin Tasks
    /\ MaxSlots \in Nat \ {0}
    /\ MinThreshold \in Nat \ {0}
    /\ MaxOps \in Nat

Ids == 1..MaxSlots
NoSlot == 0

VARIABLES
    total,        \* Heap::allocated_count
    occupied,     \* the slots with occupied set
    marked,       \* the slots with marked set
    refs,         \* what the data of a slot refers to itself
    inner,        \* what a tuple in the data of a slot refers to
    freeList,     \* Heap::free_list
    reading,      \* how often a task holds chunks for reading
    asking,       \* the tasks that want to hold chunks for writing
    freeOwner,    \* the task that holds free_list
    gcOwner,      \* the task that holds gc_start_mutex
    threshold,    \* SharedRuntime::gc_threshold
    globals,      \* what the globals refer to
    place,        \* "running", "queued" (injector or deque) or "sleeping"
    stack,        \* what the stack of a task, and the closures of its frames, are
    deferred,     \* what the deferred calls of its frames refer to
    pc,           \* where a task is in the code
    hand,         \* the slot a task has taken off free_list
    into,         \* the object whose missing entry a task allocates
    phase,        \* the roots a collecting task is at
    todo,         \* the roots it has not marked yet
    work,         \* the worklist of Heap::mark
    at,           \* the next slot of Heap::sweep
    kept,         \* what could be traced when the task began its collection
    left,         \* the instructions a task may still execute
    quiet         \* no task has changed anything since a collection began

slots == <<total, occupied, marked, refs, inner, freeList>>
locks == <<reading, asking, freeOwner, gcOwner>>
roots == <<globals, place, stack, deferred>>
collector == <<phase, todo, work, at, kept>>
alloc == <<hand, into>>
vars == <<slots, locks, roots, collector, alloc, threshold, pc, left, quiet>>

LargerOf(m, n) == IF m > n THEN m ELSE n
Goto(t, l) == pc' = [pc EXCEPT ![t] = l]

\* RwLock::read, which a waiting writer holds up, and RwLock::write.
CanRead == asking = {}
CanWrite == \A t \in Tasks : reading[t] = 0

\* live_count, which takes the lock of free_list.
LiveCount == total - Len(freeList)

\* VM::new_with_function and register_natives: one object the globals keep.
Init ==
    /\ total = 1
    /\ occupied = {1}
    /\ marked = {}
    /\ refs = [x \in Ids |-> {}]
    /\ inner = [x \in Ids |-> {}]
    /\ freeList = <<>>
    /\ reading = [t \in Tasks |-> 0]
    /\ asking = {}
    /\ freeOwner = NoTask
    /\ gcOwner = NoTask
    /\ threshold = MinThreshold
    /\ globals = {1}
    /\ place \in [Tasks -> {"running", "queued"}]
    /\ stack = [t \in Tasks |-> {}]
    /\ deferred = [t \in Tasks |-> {}]
    /\ pc = [t \in Tasks |-> "head"]
    /\ hand = [t \in Tasks |-> NoSlot]
    /\ into = [t \in Tasks |-> NoSlot]
    /\ phase = [t \in Tasks |-> "own"]
    /\ todo = [t \in Tasks |-> {}]
    /\ work = [t \in Tasks |-> {}]
    /\ at = [t \in Tasks |-> 1]
    /\ kept = [t \in Tasks |-> {}]
    /\ left = [t \in Tasks |-> MaxOps]
    /\ quiet = TRUE

\* The objects that can be reached from xs over edges; over the references that
\* Heap::mark follows; and over all there are.
ReachableOver(edges, xs) ==
    LET within[n \in 0..MaxSlots] ==
            IF n = 0 THEN xs
            ELSE within[n - 1] \cup UNION {edges[x] : x \in within[n - 1] \cap occupied}
    IN  within[MaxSlots] \cap occupied
TracedFrom(xs) == ReachableOver(refs, xs)
Holds(x) == refs[x] \cup inner[x]
ReachableFrom(xs) == ReachableOver([x \in Ids |-> Holds(x)], xs)

Sleepers == {t \in Tasks : place[t] = "sleeping"}

\* What the marking of a collection that t begins now should find: what can be
\* traced from its stack, those of the sleepers, and the globals.
Wanted(t) == TracedFrom(stack[t] \cup globals \cup UNION {stack[s] : s \in Sleepers})

(* ---- The head of execute_task_slice, and trigger_gc ---------------------- *)

\* Every instruction begins with a look at live_count.
StartInstruction(t) ==
    /\ pc[t] = "head"
    /\ place[t] = "running"
    /\ left[t] > 0 \/ ("return" \in Kinds /\ deferred[t] # {})
    /\ freeOwner = NoTask
    /\ Goto(t, IF LiveCount >= threshold THEN "gcLock" ELSE "op")
    /\ UNCHANGED <<slots, locks, roots, collector, alloc, threshold, left, quiet>>

\* Mutant: collections are not serialized.
GcLockShared(t) ==
    /\ pc[t] = "gcLock"
    /\ gcOwner' = t
    /\ Goto(t, "gcCheck")
    /\ UNCHANGED <<slots, reading, asking, freeOwner, roots, collector, alloc, threshold,
                   left, quiet>>

GcLock(t) ==
    /\ pc[t] = "gcLock"
    /\ gcOwner = NoTask
    /\ gcOwner' = t
    /\ Goto(t, "gcCheck")
    /\ UNCHANGED <<slots, reading, asking, freeOwner, roots, collector, alloc, threshold,
                   left, quiet>>

\* The count again: another task may have collected in the meantime. The first
\* roots are the stack and the closures of the frames; frame.defers is not
\* looked at, here or in NextRoots.
GcCheck(t) ==
    /\ pc[t] = "gcCheck"
    /\ freeOwner = NoTask
    /\ IF LiveCount < threshold
       THEN /\ Goto(t, "op")
            /\ gcOwner' = NoTask
            /\ UNCHANGED <<collector, quiet>>
       ELSE /\ Goto(t, "mark")
            /\ phase' = [phase EXCEPT ![t] = "own"]
            /\ todo' = [todo EXCEPT ![t] = stack[t]]
            /\ kept' = [kept EXCEPT ![t] = Wanted(t)]
            /\ quiet' = TRUE
            /\ UNCHANGED <<gcOwner, work, at>>
    /\ UNCHANGED <<slots, reading, asking, freeOwner, roots, alloc, threshold, left>>

\* Heap::mark of one root holds chunks for reading until the worklist is empty.
MarkRoot(t) ==
    /\ pc[t] = "mark"
    /\ work[t] = {}
    /\ CanRead
    /\ \E x \in todo[t] :
         /\ todo' = [todo EXCEPT ![t] = @ \ {x}]
         /\ work' = [work EXCEPT ![t] = {x}]
    /\ reading' = [reading EXCEPT ![t] = 1]
    /\ UNCHANGED <<slots, asking, freeOwner, gcOwner, roots, phase, at, kept, alloc,
                   threshold, pc, left, quiet>>

\* Mutant: what a newly marked object refers to is not looked at.
MarkNextShallow(t) ==
    /\ pc[t] = "mark"
    /\ \E x \in work[t] :
         /\ marked' = IF x \in occupied THEN marked \cup {x} ELSE marked
         /\ work' = [work EXCEPT ![t] = @ \ {x}]
    /\ reading' = IF work'[t] = {} THEN [reading EXCEPT ![t] = 0] ELSE reading
    /\ UNCHANGED <<total, occupied, refs, inner, freeList, asking, freeOwner, gcOwner, roots,
                   phase, todo, at, kept, alloc, threshold, pc, left, quiet>>

\* Mutant: a free slot is marked too.
MarkNextFree(t) ==
    /\ pc[t] = "mark"
    /\ \E x \in work[t] :
         /\ marked' = marked \cup {x}
         /\ work' = [work EXCEPT ![t] = (@ \ {x}) \cup IF x \notin marked THEN refs[x] ELSE {}]
    /\ reading' = IF work'[t] = {} THEN [reading EXCEPT ![t] = 0] ELSE reading
    /\ UNCHANGED <<total, occupied, refs, inner, freeList, asking, freeOwner, gcOwner, roots,
                   phase, todo, at, kept, alloc, threshold, pc, left, quiet>>

\* One round of the loop: a slot that is free or marked already is passed over.
\* push_value_refs takes the references of the data, and none inside a tuple.
MarkNext(t) ==
    /\ pc[t] = "mark"
    /\ \E x \in work[t] :
         LET new == x \in occupied \ marked
         IN  /\ marked' = IF new THEN marked \cup {x} ELSE marked
             /\ work' = [work EXCEPT ![t] = (@ \ {x}) \cup IF new THEN refs[x] ELSE {}]
    /\ reading' = IF work'[t] = {} THEN [reading EXCEPT ![t] = 0] ELSE reading
    /\ UNCHANGED <<total, occupied, refs, inner, freeList, asking, freeOwner, gcOwner, roots,
                   phase, todo, at, kept, alloc, threshold, pc, left, quiet>>

\* After its own roots, those of the tasks that sleep or wait for the network
\* (their lists are locked meanwhile), then the globals and modules.
NextRoots(t) ==
    /\ pc[t] = "mark"
    /\ work[t] = {}
    /\ todo[t] = {}
    /\ CASE phase[t] = "own" ->
              /\ phase' = [phase EXCEPT ![t] = "sleepers"]
              /\ todo' = [todo EXCEPT ![t] = UNION {stack[s] : s \in Sleepers}]
              /\ UNCHANGED pc
         [] phase[t] = "sleepers" ->
              /\ phase' = [phase EXCEPT ![t] = "globals"]
              /\ todo' = [todo EXCEPT ![t] = globals]
              /\ UNCHANGED pc
         [] phase[t] = "globals" ->
              /\ phase' = [phase EXCEPT ![t] = "own"]
              /\ Goto(t, "sweepRead")
              /\ UNCHANGED todo
    /\ UNCHANGED <<slots, locks, roots, work, at, kept, alloc, threshold, left, quiet>>

\* Heap::sweep holds chunks for reading, and then free_list too.
SweepRead(t) ==
    /\ pc[t] = "sweepRead"
    /\ CanRead
    /\ reading' = [reading EXCEPT ![t] = 1]
    /\ Goto(t, "sweepLock")
    /\ UNCHANGED <<slots, asking, freeOwner, gcOwner, roots, collector, alloc, threshold,
                   left, quiet>>

SweepLock(t) ==
    /\ pc[t] = "sweepLock"
    /\ freeOwner = NoTask
    /\ freeOwner' = t
    /\ at' = [at EXCEPT ![t] = 1]
    /\ Goto(t, "sweep")
    /\ UNCHANGED <<slots, reading, asking, gcOwner, roots, phase, todo, work, kept,
                   alloc, threshold, left, quiet>>

\* Mutant: a slot that is already free is put on the list again.
SweepSlotAgain(t) ==
    LET x == at[t] IN
    /\ pc[t] = "sweep"
    /\ x <= total
    /\ IF x \in marked
       THEN /\ marked' = marked \ {x}
            /\ UNCHANGED <<occupied, freeList>>
       ELSE /\ occupied' = occupied \ {x}
            /\ freeList' = Append(freeList, x)
            /\ UNCHANGED marked
    /\ at' = [at EXCEPT ![t] = x + 1]
    /\ UNCHANGED <<total, refs, inner, locks, roots, phase, todo, work, kept, alloc, threshold,
                   pc, left, quiet>>

SweepSlot(t) ==
    LET x == at[t] IN
    /\ pc[t] = "sweep"
    /\ x <= total
    /\ CASE x \in occupied /\ x \in marked ->
              /\ marked' = marked \ {x}
              /\ UNCHANGED <<occupied, freeList>>
         [] x \in occupied /\ x \notin marked ->
              /\ occupied' = occupied \ {x}
              /\ freeList' = Append(freeList, x)
              /\ UNCHANGED marked
         [] x \notin occupied -> UNCHANGED <<occupied, marked, freeList>>
    /\ at' = [at EXCEPT ![t] = x + 1]
    /\ UNCHANGED <<total, refs, inner, locks, roots, phase, todo, work, kept, alloc, threshold,
                   pc, left, quiet>>

\* Mutant: the lock of free_list is still held when live_count is called.
SweepEndHeld(t) ==
    /\ pc[t] = "sweep"
    /\ at[t] > total
    /\ reading' = [reading EXCEPT ![t] = 0]
    /\ Goto(t, "swept")
    /\ UNCHANGED <<slots, asking, freeOwner, gcOwner, roots, collector, alloc, threshold,
                   left, quiet>>

SweepEnd(t) ==
    /\ pc[t] = "sweep"
    /\ at[t] > total
    /\ reading' = [reading EXCEPT ![t] = 0]
    /\ freeOwner' = NoTask
    /\ Goto(t, "swept")
    /\ UNCHANGED <<slots, asking, gcOwner, roots, collector, alloc, threshold, left, quiet>>

\* The new threshold, and the end of trigger_gc.
GcEnd(t) ==
    /\ pc[t] = "swept"
    /\ freeOwner = NoTask
    /\ threshold' = LargerOf(2 * LiveCount, MinThreshold)
    /\ gcOwner' = NoTask
    /\ kept' = [kept EXCEPT ![t] = {}]
    /\ Goto(t, "op")
    /\ UNCHANGED <<slots, reading, asking, freeOwner, roots, phase, todo, work, at, alloc,
                   left, quiet>>

(* ---- Instructions -------------------------------------------------------- *)

AllKinds ==
    {"alloc", "create", "get", "set", "wrap", "load", "store", "pop", "print", "defer",
     "return", "park"}

\* The task executes an instruction of that kind.
Executes(t, kind) ==
    pc[t] = "op" /\ kind \in Kinds /\ (left[t] > 0 \/ kind = "return")

\* The end of an instruction. What a collection in progress saw has changed.
Done(t) ==
    /\ Goto(t, "head")
    /\ left' = [left EXCEPT ![t] = LargerOf(@ - 1, 0)]
    /\ quiet' = (gcOwner = NoTask)

\* An object of the stack that is still there.
Live(t) == stack[t] \cap occupied
OnStack(t, xs) == stack' = [stack EXCEPT ![t] = xs]

\* x holds ys now, and nothing else: themselves, or a tuple with them.
Store(x, ys) ==
    \/ /\ refs' = [refs EXCEPT ![x] = ys]
       /\ inner' = [inner EXCEPT ![x] = {}]
    \/ /\ "wrap" \in Kinds
       /\ refs' = [refs EXCEPT ![x] = {}]
       /\ inner' = [inner EXCEPT ![x] = ys]

\* with_read of a field, whose value is pushed.
GetField(t) ==
    /\ Executes(t, "get")
    /\ CanRead
    /\ \E x \in Live(t) : \E y \in Holds(x) : OnStack(t, stack[t] \cup {y})
    /\ Done(t)
    /\ UNCHANGED <<slots, locks, globals, place, deferred, collector, alloc, threshold>>

\* with_write of the only field of an object.
SetField(t) ==
    /\ Executes(t, "set")
    /\ CanRead
    /\ \E x \in Live(t), y \in stack[t] : Store(x, {y})
    /\ Done(t)
    /\ UNCHANGED <<total, occupied, marked, freeList, locks, roots, collector, alloc,
                   threshold>>

LoadGlobal(t) ==
    /\ Executes(t, "load")
    /\ OnStack(t, stack[t] \cup globals)
    /\ Done(t)
    /\ UNCHANGED <<slots, locks, globals, place, deferred, collector, alloc, threshold>>

\* The globals cannot be written while a collector reads them.
GlobalsFree == \A t \in Tasks : ~(pc[t] = "mark" /\ phase[t] = "globals")
StoreGlobal(t) ==
    /\ Executes(t, "store")
    /\ GlobalsFree
    /\ \E x \in stack[t] : /\ globals' = {x}
                           /\ OnStack(t, stack[t] \ {x})
    /\ Done(t)
    /\ UNCHANGED <<slots, locks, place, deferred, collector, alloc, threshold>>

Pop(t) ==
    /\ Executes(t, "pop")
    /\ \E x \in stack[t] : OnStack(t, stack[t] \ {x})
    /\ Done(t)
    /\ UNCHANGED <<slots, locks, globals, place, deferred, collector, alloc, threshold>>

\* stringify of an object with another one inside: a read within a read.
PrintOuter(t) ==
    /\ Executes(t, "print")
    /\ CanRead
    /\ \E x \in Live(t) : Holds(x) # {}
    /\ reading' = [reading EXCEPT ![t] = 1]
    /\ Goto(t, "print")
    /\ UNCHANGED <<slots, asking, freeOwner, gcOwner, roots, collector, alloc, threshold,
                   left, quiet>>

PrintInner(t) ==
    /\ pc[t] = "print"
    /\ CanRead
    /\ reading' = [reading EXCEPT ![t] = 0]
    /\ Done(t)
    /\ UNCHANGED <<slots, asking, freeOwner, gcOwner, roots, collector, alloc, threshold>>

\* DeferCall or DeferMethodCall: x, its callee, receiver or an argument, goes
\* from the stack to frame.defers; it may be on the stack elsewhere too.
DeferCall(t) ==
    /\ Executes(t, "defer")
    /\ \E x \in stack[t] :
         /\ deferred' = [deferred EXCEPT ![t] = @ \cup {x}]
         /\ OnStack(t, stack[t]) \/ OnStack(t, stack[t] \ {x})
    /\ Done(t)
    /\ UNCHANGED <<slots, locks, globals, place, collector, alloc, threshold>>

\* Return, with a call left in frame.defers: what it is about is pushed again.
Return(t) ==
    /\ Executes(t, "return")
    /\ \E x \in deferred[t] :
         /\ deferred' = [deferred EXCEPT ![t] = @ \ {x}]
         /\ OnStack(t, stack[t] \cup {x})
    /\ Done(t)
    /\ UNCHANGED <<slots, locks, globals, place, collector, alloc, threshold>>

(* ---- Heap::alloc --------------------------------------------------------- *)

Allocate(t) ==
    /\ Executes(t, "alloc")
    /\ Goto(t, "alloc")
    /\ UNCHANGED <<slots, locks, roots, collector, alloc, threshold, left, quiet>>

\* use() of a map without middlewares: the list it lacks is allocated inside
\* with_write.
CreateEntry(t) ==
    /\ Executes(t, "create")
    /\ CanRead
    /\ \E x \in Live(t) : Holds(x) = {} /\ into' = [into EXCEPT ![t] = x]
    /\ reading' = [reading EXCEPT ![t] = 1]
    /\ Goto(t, "alloc")
    /\ UNCHANGED <<slots, asking, freeOwner, gcOwner, roots, collector, hand, threshold,
                   left, quiet>>

\* if let Some(idx) = self.free_list.lock().pop(): the lock is held to the end
\* of the block.
AllocPop(t) ==
    /\ pc[t] = "alloc"
    /\ freeOwner = NoTask
    /\ freeList # <<>>
    /\ hand' = [hand EXCEPT ![t] = Last(freeList)]
    /\ freeList' = Front(freeList)
    /\ freeOwner' = t
    /\ Goto(t, "allocRead")
    /\ UNCHANGED <<total, occupied, marked, refs, inner, reading, asking, gcOwner, roots,
                   collector, into, threshold, left, quiet>>

\* Otherwise it is released, and chunks asked for for writing.
AllocMiss(t) ==
    /\ pc[t] = "alloc"
    /\ freeOwner = NoTask
    /\ freeList = <<>>
    /\ total < MaxSlots
    /\ Goto(t, "allocGrow")
    /\ UNCHANGED <<slots, locks, roots, collector, alloc, threshold, left, quiet>>

\* The new object x is in the heap: it holds one the task had, or none; or it
\* is the entry it was made for.
Born(t, x) ==
    /\ occupied' = occupied \cup {x}
    /\ marked' = marked \ {x}
    /\ IF into[t] = NoSlot
       THEN /\ \E ys \in {{}} \cup {{y} : y \in stack[t]} : Store(x, ys)
            /\ OnStack(t, stack[t] \cup {x})
       ELSE /\ refs' = [refs EXCEPT ![x] = {}, ![into[t]] = {x}]
            /\ inner' = [inner EXCEPT ![x] = {}, ![into[t]] = {}]
            /\ UNCHANGED stack
    /\ hand' = [hand EXCEPT ![t] = NoSlot]
    /\ into' = [into EXCEPT ![t] = NoSlot]
    /\ reading' = [reading EXCEPT ![t] = 0]
    /\ Done(t)

\* The slot popped is unmarked and written, and then occupied.
AllocRead(t) ==
    /\ pc[t] = "allocRead"
    /\ CanRead
    /\ reading' = [reading EXCEPT ![t] = @ + 1]
    /\ Goto(t, "allocFill")
    /\ UNCHANGED <<slots, asking, freeOwner, gcOwner, roots, collector, alloc, threshold,
                   left, quiet>>

AllocFill(t) ==
    /\ pc[t] = "allocFill"
    /\ Born(t, hand[t])
    /\ freeOwner' = NoTask
    /\ UNCHANGED <<total, freeList, asking, gcOwner, globals, place, deferred, collector,
                   threshold>>

AllocAsk(t) ==
    /\ pc[t] = "allocGrow"
    /\ asking' = asking \cup {t}
    /\ Goto(t, "allocWait")
    /\ UNCHANGED <<slots, reading, freeOwner, gcOwner, roots, collector, alloc, threshold,
                   left, quiet>>

AllocGrow(t) ==
    /\ pc[t] = "allocWait"
    /\ CanWrite
    /\ total < MaxSlots
    /\ total' = total + 1
    /\ Born(t, total + 1)
    /\ asking' = asking \ {t}
    /\ UNCHANGED <<freeList, freeOwner, gcOwner, globals, place, deferred, collector,
                   threshold>>

(* ---- The scheduler ------------------------------------------------------- *)

\* The task is parked: for a time, or to poll again.
Park(t) ==
    /\ Executes(t, "park")
    /\ \E p \in {"queued", "sleeping"} : place' = [place EXCEPT ![t] = p]
    /\ Done(t)
    /\ UNCHANGED <<slots, locks, globals, stack, deferred, collector, alloc, threshold>>

Resume(t) ==
    /\ place[t] = "queued"
    /\ place' = [place EXCEPT ![t] = "running"]
    /\ quiet' = (gcOwner = NoTask)
    /\ UNCHANGED <<slots, locks, globals, stack, deferred, collector, alloc, threshold, pc,
                   left>>

\* The timer thread needs the list of sleepers, which a collector locks.
SleepersFree == \A t \in Tasks : ~(pc[t] = "mark" /\ phase[t] = "sleepers")
Wake(t) ==
    /\ place[t] = "sleeping"
    /\ SleepersFree
    /\ place' = [place EXCEPT ![t] = "queued"]
    /\ quiet' = (gcOwner = NoTask)
    /\ UNCHANGED <<slots, locks, globals, stack, deferred, collector, alloc, threshold, pc,
                   left>>

Collect(t) ==
    \/ GcLock(t) \/ GcCheck(t) \/ MarkRoot(t) \/ MarkNext(t) \/ NextRoots(t)
    \/ SweepRead(t) \/ SweepLock(t) \/ SweepSlot(t) \/ SweepEnd(t) \/ GcEnd(t)

Alloc(t) ==
    \/ AllocPop(t) \/ AllocMiss(t) \/ AllocRead(t) \/ AllocFill(t) \/ AllocAsk(t)
    \/ AllocGrow(t)

Execute(t) ==
    \/ GetField(t) \/ SetField(t) \/ LoadGlobal(t) \/ StoreGlobal(t) \/ Pop(t)
    \/ PrintOuter(t) \/ PrintInner(t) \/ DeferCall(t) \/ Return(t) \/ Allocate(t)
    \/ CreateEntry(t) \/ Park(t)

Next ==
    \E t \in Tasks :
        StartInstruction(t) \/ Collect(t) \/ Alloc(t) \/ Execute(t) \/ Resume(t) \/ Wake(t)

Spec == Init /\ [][Next]_vars

(* ---- Properties ---------------------------------------------------------- *)

TypeOK ==
    /\ total \in 1..MaxSlots
    /\ occupied \subseteq 1..total
    /\ marked \subseteq occupied
    /\ refs \in [Ids -> SUBSET Ids]
    /\ inner \in [Ids -> SUBSET Ids]
    /\ freeList \in Seq(1..total)
    /\ reading \in [Tasks -> 0..2]
    /\ asking \subseteq Tasks
    /\ {freeOwner, gcOwner} \subseteq Tasks \cup {NoTask}
    /\ threshold \in Nat
    /\ globals \subseteq Ids
    /\ place \in [Tasks -> {"running", "queued", "sleeping"}]
    /\ stack \in [Tasks -> SUBSET Ids]
    /\ deferred \in [Tasks -> SUBSET Ids]
    /\ hand \in [Tasks -> 0..total]
    /\ into \in [Tasks -> 0..total]
    /\ phase \in [Tasks -> {"own", "sleepers", "globals"}]
    /\ todo \in [Tasks -> SUBSET Ids]
    /\ work \in [Tasks -> SUBSET Ids]
    /\ at \in [Tasks -> 1..(MaxSlots + 1)]
    /\ kept \in [Tasks -> SUBSET Ids]
    /\ left \in [Tasks -> 0..MaxOps]
    /\ quiet \in BOOLEAN

\* A slot is occupied, or once in the free list, or in the hands of one task
\* that allocates, whatever sweeps run between the pop of a slot and its use
\* (heap.rs, alloc and sweep): no slot is lost, and none is handed out twice.
InHand == {t \in Tasks : hand[t] # NoSlot}
SlotsAccountedFor ==
    /\ 1..total = occupied \cup ToSet(freeList) \cup {hand[t] : t \in InHand}
    /\ total = Cardinality(occupied) + Len(freeList) + Cardinality(InHand)

\* What a collecting task has on its stack, or runs as the closure of a frame,
\* survives its collection, whatever the others do in the meantime (vm.rs,
\* trigger_gc): no other task, and no other collection, can take its marks off
\* again before the sweep. It says nothing of what its deferred calls hold.
OwnRootsSurvive == \A t \in Tasks : stack[t] \cap kept[t] \subseteq occupied

\* A collection during which the other tasks did nothing is exact: it leaves
\* the objects that can be traced from the stack of its task, those of the
\* sleepers and the globals, all of them and no other, and no mark (heap.rs,
\* mark and sweep). What only a tuple inside an object or a deferred call holds
\* cannot be traced, and goes: see NothingDangles.
QuietCollectionExact ==
    \A t \in Tasks : (pc[t] = "swept" /\ quiet) => occupied = kept[t] /\ marked = {}

\* The tasks that are inside an operation on the heap, and those that can go on.
Inside == {t \in Tasks : pc[t] \notin {"head", "op"}}
CanMove(t) ==
    CASE pc[t] = "gcLock" -> gcOwner = NoTask
      [] pc[t] \in {"gcCheck", "sweepLock", "swept", "alloc"} -> freeOwner = NoTask
      [] pc[t] \in {"sweepRead", "print", "allocRead"} -> CanRead
      [] pc[t] = "mark" -> work[t] # {} \/ todo[t] = {} \/ CanRead
      [] pc[t] = "allocWait" -> CanWrite
      [] OTHER -> TRUE

\* Operations on the heap wait for each other for good only while a task waits
\* to extend the heap (heap.rs, the write of chunks in alloc): as long as the
\* free list serves every allocation, the locks of the heap, of the free list
\* and of the collector cannot deadlock, in whatever order they are taken.
JamsNeedGrowth == (Inside # {} /\ \A t \in Inside : ~CanMove(t)) => asking # {}

\* A task in the injector keeps the objects on its stack: what the manual says
\* of the roots (03-concurrency.md), and trigger_gc does not do.
QueuedTasksKeepTheirs ==
    \A t \in Tasks : place[t] = "queued" => stack[t] \subseteq occupied

(* What the roots of trigger_gc are enough for. They are those of the task    *)
(* that collects, of the sleepers and of the globals: the task that is in the *)
(* injector, in a deque or on another worker is not among them.               *)

\* The labels of trigger_gc with its lock held.
Collecting == {"gcCheck", "mark", "sweepRead", "sweepLock", "sweep", "swept"}

\* Whenever a task collects, all others sleep or wait for the network.
CollectsAlone ==
    \A t \in Tasks : pc[t] \in Collecting =>
        \A s \in Tasks \ {t} : place[s] = "sleeping"

StackRoots == globals \cup UNION {stack[t] : t \in Tasks}
AllRoots == StackRoots \cup UNION {deferred[t] : t \in Tasks}

\* Whenever a collection begins, all that can be reached can be traced from the
\* stacks and the globals: nothing is held by a tuple inside an object only
\* (heap.rs, push_value_refs) or by a deferred call only (vm.rs, trigger_gc).
NothingHidden ==
    \A t \in Tasks :
        pc[t] = "gcCheck" => ReachableFrom(AllRoots) \subseteq TracedFrom(StackRoots)

\* No task, global or object that they reach refers to a slot that was freed:
\* what a collector is for ("unreferenced items are cleaned up", vm.rs).
NothingDangles ==
    /\ AllRoots \subseteq occupied
    /\ \A x \in ReachableFrom(AllRoots) : Holds(x) \subseteq occupied
=============================================================================

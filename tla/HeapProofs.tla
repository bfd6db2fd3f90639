------------------------------ MODULE HeapProofs ------------------------------
(***************************************************************************)
(* The inductive invariant of module Heap and the theorems that follow     *)
(* from it, for every set of tasks, every number of slots and every graph  *)
(* of objects, with and without references that the marking does not see.  *)
(***************************************************************************)
EXTENDS Heap, QueueFacts, FiniteSetTheorems, WellFoundedInduction

USE HeapAssumption

Filling == {"allocRead", "allocFill"}
Allocating == {"alloc", "allocGrow", "allocWait"} \cup Filling
Labels == {"head", "gcLock", "op", "print"} \cup Collecting \cup Allocating

Typed == TypeOK /\ pc \in [Tasks -> Labels]

\* Who holds a lock, asks for one or has an object in hand is where the code
\* says.
Holders == \A t \in Tasks :
    /\ gcOwner = t <=> pc[t] \in Collecting
    /\ freeOwner = t <=> pc[t] \in Filling \cup {"sweep"}
    /\ t \in asking <=> pc[t] = "allocWait"
    /\ hand[t] # NoSlot <=> pc[t] \in Filling
    /\ into[t] # NoSlot => pc[t] \in Allocating
    /\ reading[t] = 2 => pc[t] = "allocFill"
    /\ work[t] # {} => pc[t] = "mark"

\* A slot is in one place only.
SlotsApart ==
    /\ ToSet(freeList) \cap occupied = {}
    /\ IsInjective(freeList)
    /\ \A t \in Tasks : hand[t] \notin occupied \cup ToSet(freeList)

\* What a task that marks has seen so far.
Seen(t) == marked \cup work[t] \cup todo[t]

\* The own roots of a collecting task, on their way through its collection.
OwnRootsOf(t) ==
    LET own == stack[t] \cap kept[t] IN
    /\ pc[t] \notin Collecting \ {"gcCheck"} => kept[t] = {}
    /\ own \subseteq occupied
    /\ pc[t] = "mark" => own \subseteq Seen(t)
    /\ pc[t] \in {"sweepRead", "sweepLock"} => own \subseteq marked
    /\ pc[t] = "sweep" => \A x \in own : x >= at[t] => x \in marked
OwnRoots == \A t \in Tasks : OwnRootsOf(t)

\* There are marks only between the beginning of a marking and the sweep.
Marking == {"mark", "sweepRead", "sweepLock", "sweep"}
NoStaleMarks ==
    /\ marked # {} => \E t \in Tasks : pc[t] \in Marking
    /\ \A t \in Tasks : pc[t] = "sweep" => \A x \in marked : x >= at[t]

SleepingRoots == UNION {stack[s] : s \in Sleepers}

\* A collection that nobody disturbs marks what can be traced, and that only.
MarksExactly(t) ==
    /\ kept[t] = Wanted(t)
    /\ Seen(t) \cap occupied \subseteq kept[t]
    /\ \A x \in marked : refs[x] \cap occupied \subseteq marked \cup work[t]
    /\ stack[t] \cap occupied \subseteq Seen(t)
    /\ phase[t] # "own" => SleepingRoots \cap occupied \subseteq Seen(t)
    /\ phase[t] = "globals" => globals \cap occupied \subseteq Seen(t)
SweepsExactly(t) ==
    /\ kept[t] \subseteq occupied
    /\ marked = {x \in kept[t] : x >= at[t]}
    /\ \A x \in occupied : x < at[t] => x \in kept[t]
ExactOf(t) ==
    /\ pc[t] = "mark" => MarksExactly(t)
    /\ pc[t] \in {"sweepRead", "sweepLock"} => marked = kept[t]
    /\ pc[t] = "sweep" => SweepsExactly(t)
    /\ pc[t] = "swept" => occupied = kept[t]
Exact == quiet => \A t \in Tasks : ExactOf(t)

IInv == Typed /\ Holders /\ SlotsApart /\ SlotsAccountedFor /\ OwnRoots /\ NoStaleMarks /\ Exact

-----------------------------------------------------------------------------
(***************************************************************************)
(* The free list.                                                          *)
(***************************************************************************)

(***************************************************************************)
(* Freeing a slot puts it on the list, once.                               *)
(***************************************************************************)
LEMMA FreeFacts ==
  ASSUME NEW S, NEW q \in Seq(S), NEW x \in S
  PROVE  /\ Append(q, x) \in Seq(S) /\ Len(Append(q, x)) = Len(q) + 1
         /\ ToSet(Append(q, x)) = ToSet(q) \cup {x}
         /\ IsInjective(q) /\ x \notin ToSet(q) => IsInjective(Append(q, x))
BY PushFacts, AppendProperties DEF ToSet, Range

(***************************************************************************)
(* Taking a slot off the list leaves the others on it.                     *)
(***************************************************************************)
LEMMA TakeFacts ==
  ASSUME NEW S, NEW q \in Seq(S), IsInjective(q), q # <<>>
  PROVE  /\ Front(q) \in Seq(S) /\ Len(Front(q)) = Len(q) - 1
         /\ Last(q) \in S /\ Last(q) \notin ToSet(Front(q))
         /\ ToSet(q) = ToSet(Front(q)) \cup {Last(q)}
         /\ IsInjective(Front(q))
<1> DEFINE n == Len(q)
           f == Front(q)
<1>1. /\ n \in Nat \ {0} /\ DOMAIN q = 1 .. n /\ \A i \in 1 .. n : q[i] \in S
  BY LenProperties, EmptySeq, ElementOfSeq
<1>2. /\ f \in Seq(S) /\ Len(f) = n - 1 /\ \A i \in 1 .. n - 1 : f[i] = q[i]
  <2>1. 1 \in Int /\ n - 1 \in Int /\ \A i \in 1 .. n - 1 : q[i] \in S
    BY <1>1
  <2>2. f = SubSeq(q, 1, n - 1)
    BY DEF Front
  <2> HIDE DEF f
  <2>3. /\ SubSeq(q, 1, n - 1) \in Seq(S)
        /\ Len(SubSeq(q, 1, n - 1)) = IF 1 <= n - 1 THEN n - 1 - 1 + 1 ELSE 0
        /\ \A i \in 1 .. n - 1 - 1 + 1 : SubSeq(q, 1, n - 1)[i] = q[1 + i - 1]
    BY <2>1, SubSeqProperties
  <2> QED BY <1>1, <2>2, <2>3
<1>3. DOMAIN f = 1 .. n - 1
  BY <1>2, LenProperties
<1>4. Last(q) = q[n]
  BY DEF Last
<1>5. ToSet(q) = {q[i] : i \in 1 .. n} /\ ToSet(f) = {q[i] : i \in 1 .. n - 1}
  BY <1>1, <1>2, <1>3 DEF ToSet
<1>6. 1 .. n = (1 .. n - 1) \cup {n} /\ n \in 1 .. n /\ n \notin 1 .. n - 1
  BY <1>1
<1>7. ToSet(q) = ToSet(f) \cup {q[n]}
  BY <1>5, <1>6
<1>8. q[n] \notin ToSet(f)
  BY <1>1, <1>5, <1>6 DEF IsInjective
<1>9. IsInjective(f)
  BY <1>1, <1>2, <1>3, <1>6 DEF IsInjective
<1> QED BY <1>1, <1>2, <1>4, <1>6, <1>7, <1>8, <1>9

-----------------------------------------------------------------------------
(***************************************************************************)
(* Types.                                                                  *)
(***************************************************************************)

(***************************************************************************)
(* The initial values are of their types.                                  *)
(***************************************************************************)
LEMMA TypedInit == Init => Typed
<1> SUFFICES ASSUME Init PROVE Typed
  OBVIOUS
<1>1. pc \in [Tasks -> Labels] /\ freeList \in Seq(1..total)
  BY DEF Init, Labels
<1>2. place \in [Tasks -> {"running", "queued", "sleeping"}]
  BY DEF Init
<1> QED BY <1>1, <1>2 DEF Init, Typed, TypeOK, Ids, NoSlot

(***************************************************************************)
(* The end of an instruction.                                              *)
(***************************************************************************)
LEMMA DoneTypes ==
  ASSUME Typed, Holders, NEW t \in Tasks, pc[t] # "head", Done(t)
  PROVE  /\ pc' \in [Tasks -> Labels] /\ left' \in [Tasks -> 0..MaxOps]
         /\ quiet' \in BOOLEAN
         /\ pc'[t] = "head" /\ \A s \in Tasks \ {t} : pc'[s] = pc[s] /\ left'[s] = left[s]
<1>1. LargerOf(left[t] - 1, 0) \in 0..MaxOps
  BY HeapAssumption DEF LargerOf, Typed, TypeOK
<1> QED BY <1>1, SMTT(60) DEF Done, Goto, Typed, TypeOK, Labels

(***************************************************************************)
(* Only what is in the heap is worth keeping.                              *)
(***************************************************************************)
LEMMA ReachableIsOccupied ==
  \A xs : TracedFrom(xs) \subseteq occupied /\ ReachableFrom(xs) \subseteq occupied
BY DEF TracedFrom, ReachableFrom, ReachableOver

(***************************************************************************)
(* A collection keeps the types.                                           *)
(***************************************************************************)
LEMMA TypedCollect ==
  ASSUME Typed, Holders, NEW t \in Tasks, Collect(t) PROVE Typed'
<1>0. occupied \subseteq Ids /\ Wanted(t) \in SUBSET Ids /\ stack[t] \in SUBSET Ids
  <2>1. total \in 1..MaxSlots /\ occupied \subseteq 1..total /\ stack \in [Tasks -> SUBSET Ids]
    BY DEF Typed, TypeOK
  <2>2. occupied \subseteq Ids
    BY <2>1 DEF Ids
  <2> QED BY <2>1, <2>2, ReachableIsOccupied DEF Wanted
<1> USE DEF Typed, TypeOK, slots, locks, roots, collector, alloc, Goto, Labels, Collecting, Allocating, Filling
<1>1. CASE GcLock(t)
  BY <1>1 DEF GcLock
<1>2. CASE GcCheck(t)
  <2> DEFINE W == Wanted(t)
  <2> HIDE DEF W
  <2>3. /\ pc' \in [Tasks -> Labels] /\ gcOwner' \in Tasks \cup {NoTask}
        /\ phase' \in [Tasks -> {"own", "sleepers", "globals"}]
        /\ todo' \in [Tasks -> SUBSET Ids] /\ quiet' \in BOOLEAN
        /\ kept' \in [Tasks -> SUBSET Ids]
    <3>1. CASE LiveCount < threshold
      BY <1>2, <3>1 DEF GcCheck
    <3>2. CASE ~(LiveCount < threshold)
      <4>1. /\ Goto(t, "mark") /\ phase' = [phase EXCEPT ![t] = "own"]
            /\ todo' = [todo EXCEPT ![t] = stack[t]] /\ kept' = [kept EXCEPT ![t] = W]
            /\ quiet' = TRUE /\ gcOwner' = gcOwner
        BY <1>2, <3>2 DEF GcCheck, W
      <4>2. W \in SUBSET Ids
        BY <1>0 DEF W
      <4> QED BY <1>0, <4>1, <4>2
    <3> QED BY <3>1, <3>2
  <2>4. UNCHANGED <<slots, reading, asking, freeOwner, roots, work, at, alloc, threshold, left>>
    BY <1>2 DEF GcCheck
  <2> QED BY <2>3, <2>4
<1>3. CASE MarkRoot(t)
  <2>1. /\ todo' \in [Tasks -> SUBSET Ids] /\ work' \in [Tasks -> SUBSET Ids]
        /\ reading' \in [Tasks -> 0..2]
    BY <1>3 DEF MarkRoot
  <2>2. UNCHANGED <<slots, asking, freeOwner, gcOwner, roots, phase, at, kept, alloc,
                    threshold, pc, left, quiet>>
    BY <1>3 DEF MarkRoot
  <2> QED BY <2>1, <2>2
<1>4. CASE MarkNext(t)
  <2>1. PICK x \in work[t] :
          /\ marked' = IF x \in occupied \ marked THEN marked \cup {x} ELSE marked
          /\ work' = [work EXCEPT ![t] = (@ \ {x}) \cup
                                         IF x \in occupied \ marked THEN refs[x] ELSE {}]
    BY <1>4 DEF MarkNext
  <2>2. /\ work' \in [Tasks -> SUBSET Ids] /\ marked' \subseteq occupied
        /\ reading' \in [Tasks -> 0..2]
    <3>1. reading' = reading \/ reading' = [reading EXCEPT ![t] = 0]
      BY <1>4 DEF MarkNext
    <3>2. PICK W \in SUBSET Ids : work' = [work EXCEPT ![t] = W]
      <4>1. CASE x \in occupied \ marked
        <5>1. work' = [work EXCEPT ![t] = (work[t] \ {x}) \cup refs[x]]
          BY <2>1, <4>1
        <5>2. (work[t] \ {x}) \cup refs[x] \in SUBSET Ids
          OBVIOUS
        <5> QED BY <5>1, <5>2
      <4>2. CASE x \notin occupied \ marked
        <5>1. work' = [work EXCEPT ![t] = work[t] \ {x}]
          BY <2>1, <4>2
        <5>2. work[t] \ {x} \in SUBSET Ids
          OBVIOUS
        <5> QED BY <5>1, <5>2
      <4> QED BY <4>1, <4>2
    <3>3. work' \in [Tasks -> SUBSET Ids]
      BY <3>2
    <3>4. marked' \subseteq occupied
      BY <2>1
    <3>5. reading' \in [Tasks -> 0..2]
      <4>1. reading \in [Tasks -> 0..2]
        OBVIOUS
      <4> HIDE DEF Typed, TypeOK
      <4> QED BY <3>1, <4>1
    <3> QED BY <3>3, <3>4, <3>5
  <2>3. UNCHANGED <<total, occupied, refs, inner, freeList, asking, freeOwner, gcOwner, roots, phase,
                    todo, at, kept, alloc, threshold, pc, left, quiet>>
    BY <1>4 DEF MarkNext
  <2> QED BY <2>2, <2>3
<1>5. CASE NextRoots(t)
  <2>1. phase[t] \in {"own", "sleepers", "globals"}
    OBVIOUS
  <2>2. UNION {stack[s] : s \in Sleepers} \subseteq Ids /\ globals \subseteq Ids
    BY SMTT(60) DEF Sleepers
  <2>3. /\ \/ UNCHANGED phase
           \/ \E p \in {"own", "sleepers", "globals"} : phase' = [phase EXCEPT ![t] = p]
        /\ \/ UNCHANGED todo
           \/ todo' = [todo EXCEPT ![t] = UNION {stack[s] : s \in Sleepers}]
           \/ todo' = [todo EXCEPT ![t] = globals]
        /\ UNCHANGED pc \/ Goto(t, "sweepRead")
    BY <1>5, <2>1 DEF NextRoots
  <2>4. /\ phase' \in [Tasks -> {"own", "sleepers", "globals"}]
        /\ todo' \in [Tasks -> SUBSET Ids] /\ pc' \in [Tasks -> Labels]
    <3> DEFINE S == UNION {stack[s] : s \in Sleepers}
    <3>1. S \in SUBSET Ids
      BY <2>2
    <3> HIDE DEF S
    <3>2. \/ UNCHANGED todo \/ todo' = [todo EXCEPT ![t] = S] \/ todo' = [todo EXCEPT ![t] = globals]
      BY <2>3 DEF S
    <3>3. todo' \in [Tasks -> SUBSET Ids]
      BY <3>1, <3>2, ZenonT(60)
    <3>4. phase' \in [Tasks -> {"own", "sleepers", "globals"}]
      BY <2>3
    <3>5. pc' \in [Tasks -> Labels]
      BY <2>3
    <3> QED BY <3>3, <3>4, <3>5
  <2>5. UNCHANGED <<slots, locks, roots, work, at, kept, alloc, threshold, left, quiet>>
    BY <1>5 DEF NextRoots
  <2> QED BY <2>4, <2>5
<1>6. CASE SweepRead(t)
  <2>1. reading' \in [Tasks -> 0..2] /\ pc' \in [Tasks -> Labels]
    <3>1. reading' = [reading EXCEPT ![t] = 1] /\ pc' = [pc EXCEPT ![t] = "sweepLock"]
      BY <1>6 DEF SweepRead
    <3>2. reading' \in [Tasks -> 0..2]
      BY <3>1, SMTT(60)
    <3>3. pc' \in [Tasks -> Labels]
      BY <3>1, SMTT(60)
    <3> QED BY <3>2, <3>3
  <2>2. UNCHANGED <<slots, asking, freeOwner, gcOwner, roots, collector, alloc, threshold,
                    left, quiet>>
    BY <1>6 DEF SweepRead
  <2> QED BY <2>1, <2>2
<1>7. CASE SweepLock(t)
  <2>1. /\ freeOwner' \in Tasks \cup {NoTask}
        /\ at' \in [Tasks -> 1..(MaxSlots + 1)] /\ pc' \in [Tasks -> Labels]
    BY <1>7 DEF SweepLock
  <2>2. UNCHANGED <<slots, reading, asking, gcOwner, roots, phase, todo, work, kept,
                    alloc, threshold, left, quiet>>
    BY <1>7 DEF SweepLock
  <2> QED BY <2>1, <2>2
<1>8. CASE SweepSlot(t)
  <2>1. at[t] \in 1..total /\ at[t] + 1 \in 1..(MaxSlots + 1)
    <3>1. at[t] \in 1..(MaxSlots + 1) /\ total \in 1..MaxSlots /\ at[t] <= total
      BY <1>8 DEF SweepSlot
    <3> QED BY <3>1, SMTT(60)
  <2>2. Append(freeList, at[t]) \in Seq(1..total)
    BY <2>1, AppendProperties
  <2>3. /\ \/ UNCHANGED <<occupied, freeList>> /\ marked' \subseteq marked
           \/ /\ occupied' = occupied \ {at[t]} /\ marked' = marked /\ at[t] \notin marked
              /\ freeList' = Append(freeList, at[t])
        /\ at' = [at EXCEPT ![t] = at[t] + 1]
    BY <1>8 DEF SweepSlot
  <2>4. /\ occupied' \subseteq 1..total /\ marked' \subseteq occupied'
        /\ freeList' \in Seq(1..total) /\ at' \in [Tasks -> 1..(MaxSlots + 1)]
    BY <2>1, <2>2, <2>3
  <2>5. UNCHANGED <<total, refs, inner, locks, roots, phase, todo, work, kept, alloc, threshold, pc,
                    left, quiet>>
    BY <1>8 DEF SweepSlot
  <2> QED BY <2>4, <2>5
<1>9. CASE SweepEnd(t)
  <2>1. /\ freeOwner' \in Tasks \cup {NoTask}
        /\ reading' \in [Tasks -> 0..2] /\ pc' \in [Tasks -> Labels]
    BY <1>9, SMTT(60) DEF SweepEnd
  <2>2. UNCHANGED <<slots, asking, gcOwner, roots, collector, alloc, threshold, left, quiet>>
    BY <1>9 DEF SweepEnd
  <2> QED BY <2>1, <2>2
<1>10. CASE GcEnd(t)
  <2>1. Len(freeList) \in Nat
    BY LenProperties
  <2>2. LargerOf(2 * LiveCount, MinThreshold) \in Nat
    BY <2>1 DEF LargerOf, LiveCount
  <2> QED BY <1>10, <2>2 DEF GcEnd
<1> QED BY <1>1, <1>2, <1>3, <1>4, <1>5, <1>6, <1>7, <1>8, <1>9, <1>10 DEF Collect

(***************************************************************************)
(* What an object holds is of the heap's slots.                            *)
(***************************************************************************)
LEMMA StoreTypes ==
  ASSUME Typed, NEW x \in Ids, NEW ys \in SUBSET Ids, Store(x, ys)
  PROVE  /\ refs' \in [Ids -> SUBSET Ids] /\ inner' \in [Ids -> SUBSET Ids]
         /\ Holds(x)' = ys /\ \A z \in Ids \ {x} : Holds(z)' = Holds(z)
<1>1. refs \in [Ids -> SUBSET Ids] /\ inner \in [Ids -> SUBSET Ids]
  BY DEF Typed, TypeOK
<1> QED BY <1>1 DEF Store, Holds

(***************************************************************************)
(* The birth of an object in slot x.                                       *)
(***************************************************************************)
LEMMA BornTypes ==
  ASSUME Typed, Holders, NEW t \in Tasks, pc[t] # "head", NEW x \in Ids, Born(t, x)
  PROVE  /\ pc' \in [Tasks -> Labels] /\ left' \in [Tasks -> 0..MaxOps]
         /\ quiet' \in BOOLEAN /\ refs' \in [Ids -> SUBSET Ids]
         /\ inner' \in [Ids -> SUBSET Ids] /\ stack' \in [Tasks -> SUBSET Ids] /\ reading' \in [Tasks -> 0..2]
         /\ hand' \in [Tasks -> 0..total] /\ into' \in [Tasks -> 0..total]
         /\ pc'[t] = "head" /\ \A s \in Tasks \ {t} : pc'[s] = pc[s]
         /\ hand' = [hand EXCEPT ![t] = NoSlot] /\ into' = [into EXCEPT ![t] = NoSlot]
         /\ reading' = [reading EXCEPT ![t] = 0]
         /\ \A s \in Tasks \ {t} : stack'[s] = stack[s]
         /\ stack'[t] \in {stack[t], stack[t] \cup {x}}
         /\ occupied' = occupied \cup {x} /\ marked' = marked \ {x}
         /\ quiet' = (gcOwner = NoTask)
<1>1. /\ total \in 1..MaxSlots /\ stack \in [Tasks -> SUBSET Ids]
      /\ refs \in [Ids -> SUBSET Ids] /\ inner \in [Ids -> SUBSET Ids]
      /\ reading \in [Tasks -> 0..2] /\ hand \in [Tasks -> 0..total] /\ into \in [Tasks -> 0..total]
  BY DEF Typed, TypeOK
<1>2. Done(t)
  BY DEF Born
<1>3. /\ hand' = [hand EXCEPT ![t] = NoSlot] /\ into' = [into EXCEPT ![t] = NoSlot]
      /\ reading' = [reading EXCEPT ![t] = 0]
      /\ occupied' = occupied \cup {x} /\ marked' = marked \ {x}
  BY DEF Born
<1>4. /\ hand' \in [Tasks -> 0..total] /\ into' \in [Tasks -> 0..total]
      /\ reading' \in [Tasks -> 0..2]
  BY <1>1, <1>3 DEF NoSlot
<1>5. /\ refs' \in [Ids -> SUBSET Ids] /\ inner' \in [Ids -> SUBSET Ids]
      /\ stack' \in [Tasks -> SUBSET Ids] /\ \A s \in Tasks \ {t} : stack'[s] = stack[s]
      /\ stack'[t] \in {stack[t], stack[t] \cup {x}}
  <2>1. CASE into[t] = NoSlot
    <3>1. PICK ys \in {{}} \cup {{y} : y \in stack[t]} : Store(x, ys)
      BY <2>1 DEF Born
    <3>2. ys \in SUBSET Ids
      BY <1>1
    <3>5. refs' \in [Ids -> SUBSET Ids] /\ inner' \in [Ids -> SUBSET Ids]
      BY <1>1, <3>2, StoreTypes, <3>1
    <3>3. stack' = [stack EXCEPT ![t] = stack[t] \cup {x}]
      BY <2>1 DEF Born, OnStack
    <3>4. stack[t] \cup {x} \in SUBSET Ids
      BY <1>1
    <3> QED BY <1>1, <3>3, <3>4, <3>5
  <2>2. CASE into[t] # NoSlot
    <3>1. /\ refs' = [refs EXCEPT ![x] = {}, ![into[t]] = {x}] /\ stack' = stack
          /\ inner' = [inner EXCEPT ![x] = {}, ![into[t]] = {}]
      BY <2>2 DEF Born
    <3> QED BY <1>1, <3>1
  <2> QED BY <2>1, <2>2
<1>6. quiet' = (gcOwner = NoTask)
  BY <1>2 DEF Done
<1> QED BY <1>2, <1>3, <1>4, <1>5, <1>6, DoneTypes

(***************************************************************************)
(* An allocation keeps the types.                                          *)
(***************************************************************************)
LEMMA TypedAlloc ==
  ASSUME Typed, Holders, SlotsApart, NEW t \in Tasks, Alloc(t) PROVE Typed'
<1> USE DEF slots, locks, roots, collector, alloc
<1>1. CASE AllocPop(t)
  <2>1. freeList \in Seq(1..total) /\ IsInjective(freeList) /\ freeList # <<>>
    BY <1>1 DEF AllocPop, Typed, TypeOK, SlotsApart
  <2>2. freeList' \in Seq(1..total) /\ Last(freeList) \in 1..total
    BY <1>1, <2>1, TakeFacts DEF AllocPop
  <2>3. hand' = [hand EXCEPT ![t] = Last(freeList)] /\ freeOwner' = t
    BY <1>1 DEF AllocPop
  <2>4. hand' \in [Tasks -> 0..total]
    <3>1. hand \in [Tasks -> 0..total] /\ total \in Nat
      BY DEF Typed, TypeOK
    <3> QED BY <2>2, <2>3, <3>1
  <2>5. pc' \in [Tasks -> Labels]
    BY <1>1 DEF AllocPop, Goto, Typed, Labels, Allocating, Filling
  <2>6. UNCHANGED <<total, occupied, marked, refs, inner, reading, asking, gcOwner, roots, collector,
                    into, threshold, left, quiet>>
    BY <1>1 DEF AllocPop
  <2> QED BY <2>2, <2>3, <2>4, <2>5, <2>6 DEF Typed, TypeOK
<1>2. CASE AllocMiss(t)
  BY <1>2 DEF AllocMiss, Goto, Typed, TypeOK, Labels, Allocating, Filling
<1>3. CASE AllocRead(t)
  <2>1. reading[t] \in 0..2 /\ reading[t] # 2
    BY <1>3, SMTT(60) DEF AllocRead, Holders, Typed, TypeOK
  <2>2. reading' \in [Tasks -> 0..2]
    <3>1. reading \in [Tasks -> 0..2] /\ reading' = [reading EXCEPT ![t] = reading[t] + 1]
      BY <1>3 DEF AllocRead, Typed, TypeOK
    <3>2. reading[t] + 1 \in 0..2
      BY <2>1
    <3> QED BY <3>1, <3>2
  <2>3. pc' \in [Tasks -> Labels]
    BY <1>3 DEF AllocRead, Goto, Typed, Labels, Allocating, Filling
  <2>4. UNCHANGED <<slots, asking, freeOwner, gcOwner, roots, collector, alloc, threshold,
                    left, quiet>>
    BY <1>3 DEF AllocRead
  <2> QED BY <2>2, <2>3, <2>4 DEF Typed, TypeOK
<1>4. CASE AllocFill(t)
  <2>1. total \in 1..MaxSlots /\ hand[t] \in 1..total /\ pc[t] # "head"
    BY <1>4 DEF AllocFill, Holders, Filling, NoSlot, Typed, TypeOK
  <2>2. hand[t] \in Ids
    BY <2>1 DEF Ids
  <2>3. PICK x \in Ids : x = hand[t] /\ Born(t, x)
    BY <1>4, <2>2 DEF AllocFill
  <2>4. occupied' \subseteq 1..total /\ marked' \subseteq occupied'
    BY <2>1, <2>3 DEF Born, Typed, TypeOK
  <2>5. UNCHANGED <<total, freeList, asking, gcOwner, globals, place, deferred, collector,
                    threshold>>
        /\ freeOwner' = NoTask
    BY <1>4 DEF AllocFill
  <2>6. /\ pc' \in [Tasks -> Labels] /\ left' \in [Tasks -> 0..MaxOps]
        /\ quiet' \in BOOLEAN /\ refs' \in [Ids -> SUBSET Ids]
        /\ inner' \in [Ids -> SUBSET Ids] /\ stack' \in [Tasks -> SUBSET Ids] /\ reading' \in [Tasks -> 0..2]
        /\ hand' \in [Tasks -> 0..total] /\ into' \in [Tasks -> 0..total]
    BY <2>1, <2>3, BornTypes
  <2> QED BY <2>4, <2>5, <2>6 DEF Typed, TypeOK
<1>5. CASE AllocAsk(t)
  BY <1>5 DEF AllocAsk, Goto, Typed, TypeOK, Labels, Allocating, Filling
<1>6. CASE AllocGrow(t)
  <2>1. /\ total \in Nat /\ total + 1 \in 1..MaxSlots /\ total + 1 \in Ids /\ pc[t] # "head"
        /\ total' = total + 1
    BY <1>6 DEF AllocGrow, Typed, TypeOK, Ids
  <2>2. PICK x \in Ids : x = total + 1 /\ Born(t, x)
    BY <1>6, <2>1 DEF AllocGrow
  <2>3. occupied' \subseteq 1..total' /\ marked' \subseteq occupied'
    <3>1. occupied \subseteq 1..total /\ marked \subseteq occupied
      BY DEF Typed, TypeOK
    <3>2. occupied' = occupied \cup {total + 1} /\ marked' = marked \ {total + 1}
      BY <2>2 DEF Born
    <3>3. 1..total \subseteq 1..total' /\ total + 1 \in 1..total'
      BY <2>1
    <3> QED BY <3>1, <3>2, <3>3
  <2>4. UNCHANGED <<freeList, freeOwner, gcOwner, globals, place, deferred, collector,
                    threshold>>
        /\ asking' = asking \ {t}
    BY <1>6 DEF AllocGrow
  <2>5. /\ pc' \in [Tasks -> Labels] /\ left' \in [Tasks -> 0..MaxOps]
        /\ quiet' \in BOOLEAN /\ refs' \in [Ids -> SUBSET Ids]
        /\ inner' \in [Ids -> SUBSET Ids] /\ stack' \in [Tasks -> SUBSET Ids] /\ reading' \in [Tasks -> 0..2]
        /\ hand' \in [Tasks -> 0..total] /\ into' \in [Tasks -> 0..total]
    BY <2>1, <2>2, BornTypes
  <2>6. 1..total \subseteq 1..total' /\ 0..total \subseteq 0..total'
    BY <2>1
  <2>7. hand' \in [Tasks -> 0..total'] /\ into' \in [Tasks -> 0..total']
    BY <2>5, <2>6
  <2>8. freeList' \in Seq(1..total')
    <3>1. freeList \in Seq(1..total)
      BY DEF Typed, TypeOK
    <3> QED BY <2>4, <2>6, <3>1, SeqMonotonic
  <2> QED BY <2>1, <2>3, <2>4, <2>5, <2>7, <2>8 DEF Typed, TypeOK
<1> QED BY <1>1, <1>2, <1>3, <1>4, <1>5, <1>6 DEF Alloc

(***************************************************************************)
(* The other instructions keep the types.                                  *)
(***************************************************************************)
LEMMA TypedExecute ==
  ASSUME Typed, Holders, NEW t \in Tasks, Execute(t) PROVE Typed'
<1> USE DEF slots, locks, roots, collector, alloc
<1>1. /\ total \in 1..MaxSlots /\ stack \in [Tasks -> SUBSET Ids]
      /\ refs \in [Ids -> SUBSET Ids] /\ inner \in [Ids -> SUBSET Ids]
      /\ deferred \in [Tasks -> SUBSET Ids] /\ occupied \subseteq 1..total
      /\ globals \subseteq Ids
  BY DEF Typed, TypeOK
<1>2. occupied \subseteq Ids
  BY <1>1 DEF Ids
<1>3. pc[t] # "head"
  BY DEF Execute, Executes, GetField, SetField, LoadGlobal, StoreGlobal, Pop, PrintOuter,
         PrintInner, DeferCall, Return, Allocate, CreateEntry, Park
<1>4. CASE GetField(t)
  <2>1. PICK y \in Ids : stack' = [stack EXCEPT ![t] = stack[t] \cup {y}]
    <3>1. PICK x \in Live(t) : \E y \in Holds(x) : OnStack(t, stack[t] \cup {y})
      BY <1>4 DEF GetField
    <3>2. Holds(x) \subseteq Ids
      BY <1>1, <1>2 DEF Live, Holds
    <3> QED BY <3>1, <3>2 DEF OnStack
  <2>2. stack' \in [Tasks -> SUBSET Ids]
    BY <1>1, <2>1
  <2> QED BY <1>3, <1>4, <2>2, DoneTypes DEF GetField, Typed, TypeOK
<1>5. CASE SetField(t)
  <2>1. PICK x \in Live(t), y \in stack[t] : Store(x, {y})
    BY <1>5 DEF SetField
  <2>2. refs' \in [Ids -> SUBSET Ids] /\ inner' \in [Ids -> SUBSET Ids]
    <3>1. x \in Ids /\ {y} \in SUBSET Ids
      BY <1>1, <1>2 DEF Live
    <3> QED BY <2>1, <3>1, StoreTypes
  <2> QED BY <1>3, <1>5, <2>2, DoneTypes DEF SetField, Typed, TypeOK
<1>6. CASE LoadGlobal(t)
  <2>1. stack' \in [Tasks -> SUBSET Ids]
    BY <1>1, <1>6 DEF LoadGlobal, OnStack
  <2> QED BY <1>3, <1>6, <2>1, DoneTypes DEF LoadGlobal, Typed, TypeOK
<1>7. CASE StoreGlobal(t)
  <2>1. stack' \in [Tasks -> SUBSET Ids] /\ globals' \subseteq Ids
    BY <1>1, <1>7 DEF StoreGlobal, OnStack
  <2> QED BY <1>3, <1>7, <2>1, DoneTypes DEF StoreGlobal, Typed, TypeOK
<1>8. CASE Pop(t)
  <2>1. stack' \in [Tasks -> SUBSET Ids]
    BY <1>1, <1>8 DEF Pop, OnStack
  <2> QED BY <1>3, <1>8, <2>1, DoneTypes DEF Pop, Typed, TypeOK
<1>9. CASE PrintOuter(t)
  <2>1. reading' \in [Tasks -> 0..2]
    BY <1>9 DEF PrintOuter, Typed, TypeOK
  <2> QED BY <1>9, <2>1 DEF PrintOuter, Goto, Typed, TypeOK, Labels
<1>10. CASE PrintInner(t)
  <2>1. reading' \in [Tasks -> 0..2]
    BY <1>10 DEF PrintInner, Typed, TypeOK
  <2> QED BY <1>3, <1>10, <2>1, DoneTypes DEF PrintInner, Typed, TypeOK
<1>11. CASE Allocate(t)
  BY <1>11 DEF Allocate, Goto, Typed, TypeOK, Labels, Allocating
<1>12. CASE CreateEntry(t)
  <2>1. into' \in [Tasks -> 0..total]
    <3>1. PICK x \in occupied : into' = [into EXCEPT ![t] = x]
      BY <1>12 DEF CreateEntry, Live
    <3>2. x \in 0..total
      BY <1>1
    <3>3. into \in [Tasks -> 0..total]
      BY DEF Typed, TypeOK
    <3> QED BY <3>1, <3>2, <3>3
  <2>2. reading' \in [Tasks -> 0..2] /\ pc' \in [Tasks -> Labels]
    BY <1>12, SMTT(60) DEF CreateEntry, Goto, Typed, TypeOK, Labels, Allocating
  <2>3. UNCHANGED <<slots, asking, freeOwner, gcOwner, roots, collector, hand, threshold,
                    left, quiet>>
    BY <1>12 DEF CreateEntry
  <2> QED BY <2>1, <2>2, <2>3 DEF Typed, TypeOK
<1>13. CASE Park(t)
  <2>1. place' \in [Tasks -> {"running", "queued", "sleeping"}]
    BY <1>13 DEF Park, Typed, TypeOK
  <2> QED BY <1>3, <1>13, <2>1, DoneTypes DEF Park, Typed, TypeOK
<1>14. CASE DeferCall(t) \/ Return(t)
  <2>1. PICK x \in Ids, xs \in SUBSET Ids, ds \in SUBSET Ids :
          stack' = [stack EXCEPT ![t] = xs] /\ deferred' = [deferred EXCEPT ![t] = ds]
    <3>1. CASE DeferCall(t)
      <4>1. PICK x \in stack[t] : /\ deferred' = [deferred EXCEPT ![t] = deferred[t] \cup {x}]
                                 /\ \/ OnStack(t, stack[t])
                                    \/ OnStack(t, stack[t] \ {x})
        BY <3>1 DEF DeferCall
      <4>2. x \in Ids /\ deferred[t] \cup {x} \in SUBSET Ids
            /\ stack[t] \in SUBSET Ids /\ stack[t] \ {x} \in SUBSET Ids
        BY <1>1
      <4> QED BY <4>1, <4>2 DEF OnStack
    <3>2. CASE Return(t)
      <4>1. PICK x \in deferred[t] : /\ deferred' = [deferred EXCEPT ![t] = deferred[t] \ {x}]
                                    /\ OnStack(t, stack[t] \cup {x})
        BY <3>2 DEF Return
      <4>2. x \in Ids /\ deferred[t] \ {x} \in SUBSET Ids /\ stack[t] \cup {x} \in SUBSET Ids
        BY <1>1
      <4> QED BY <4>1, <4>2 DEF OnStack
    <3> QED BY <1>14, <3>1, <3>2
  <2>2. stack' \in [Tasks -> SUBSET Ids] /\ deferred' \in [Tasks -> SUBSET Ids]
    BY <1>1, <2>1
  <2>3. Done(t) /\ UNCHANGED <<slots, locks, globals, place, collector, alloc, threshold>>
    BY <1>14 DEF DeferCall, Return
  <2>4. /\ pc' \in [Tasks -> Labels] /\ left' \in [Tasks -> 0..MaxOps]
        /\ quiet' \in BOOLEAN
    BY <1>3, <2>3, DoneTypes
  <2> QED BY <2>2, <2>3, <2>4 DEF Typed, TypeOK
<1> QED BY <1>4, <1>5, <1>6, <1>7, <1>8, <1>9, <1>10, <1>11, <1>12, <1>13, <1>14 DEF Execute

(***************************************************************************)
(* Every step keeps the types.                                             *)
(***************************************************************************)
LEMMA TypedNext ==
  Typed /\ Holders /\ SlotsApart /\ [Next]_vars => Typed'
<1> SUFFICES ASSUME Typed, Holders, SlotsApart, [Next]_vars PROVE Typed'
  OBVIOUS
<1> USE DEF slots, locks, roots, collector, alloc
<1>1. CASE UNCHANGED vars
  BY <1>1 DEF vars, Typed, TypeOK
<1>2. ASSUME NEW t \in Tasks, StartInstruction(t) PROVE Typed'
  BY <1>2 DEF StartInstruction, Goto, Typed, TypeOK, Labels
<1>3. ASSUME NEW t \in Tasks, Resume(t) PROVE Typed'
  <2>1. quiet' \in BOOLEAN /\ place' \in [Tasks -> {"running", "queued", "sleeping"}]
    BY <1>3 DEF Resume, Typed, TypeOK
  <2> QED BY <1>3, <2>1 DEF Resume, Typed, TypeOK
<1>4. ASSUME NEW t \in Tasks, Wake(t) PROVE Typed'
  <2>1. quiet' \in BOOLEAN /\ place' \in [Tasks -> {"running", "queued", "sleeping"}]
    BY <1>4 DEF Wake, Typed, TypeOK
  <2> QED BY <1>4, <2>1 DEF Wake, Typed, TypeOK
<1> QED BY <1>1, <1>2, <1>3, <1>4, TypedCollect, TypedAlloc, TypedExecute DEF Next

-----------------------------------------------------------------------------
(***************************************************************************)
(* Who holds what.                                                         *)
(***************************************************************************)

(***************************************************************************)
(* Nobody holds a lock at first.                                           *)
(***************************************************************************)
LEMMA HoldersInit == Init => Holders
BY DEF Init, Holders, Collecting, Filling, Allocating, NoSlot

(***************************************************************************)
(* Every step of a task takes and releases what Holders says of the place  *)
(* it goes to.                                                             *)
(***************************************************************************)
LEMMA HoldersNext ==
  ASSUME Typed, Holders, SlotsApart, [Next]_vars PROVE Holders'
<1> USE DEF slots, locks, roots, collector, alloc, Goto, Collecting, Filling, Allocating, NoSlot
<1>1. /\ pc \in [Tasks -> Labels] /\ reading \in [Tasks -> 0..2] /\ hand \in [Tasks -> 0..total]
      /\ into \in [Tasks -> 0..total] /\ work \in [Tasks -> SUBSET Ids]
      /\ left \in [Tasks -> 0..MaxOps] /\ total \in Nat
  BY DEF Typed, TypeOK
<1>2. CASE UNCHANGED vars
  BY <1>2 DEF vars, Holders
<1>3. ASSUME NEW t \in Tasks, StartInstruction(t) PROVE Holders'
  BY <1>1, <1>3 DEF StartInstruction, Holders
<1>4. ASSUME NEW t \in Tasks, Resume(t) \/ Wake(t) PROVE Holders'
  BY <1>1, <1>4 DEF Resume, Wake, Holders
<1>5. ASSUME NEW t \in Tasks, Collect(t) PROVE Holders'
  <2>1. CASE GcLock(t)
    BY <1>1, <2>1 DEF GcLock, Holders
  <2>2. CASE GcCheck(t)
    BY <1>1, <2>2 DEF GcCheck, Holders
  <2>3. CASE MarkRoot(t)
    BY <1>1, <2>3 DEF MarkRoot, Holders
  <2>4. CASE MarkNext(t)
    BY <1>1, <2>4 DEF MarkNext, Holders
  <2>5. CASE NextRoots(t)
    <3>1. /\ pc[t] = "mark" /\ work[t] = {}
          /\ UNCHANGED pc \/ pc' = [pc EXCEPT ![t] = "sweepRead"]
          /\ UNCHANGED <<locks, work, hand, into, left>>
      <4>1. phase[t] \in {"own", "sleepers", "globals"}
        BY DEF Typed, TypeOK
      <4> QED BY <2>5, <4>1 DEF NextRoots
    <3> QED BY <1>1, <3>1 DEF Holders
  <2>6. CASE SweepRead(t)
    BY <1>1, <2>6 DEF SweepRead, Holders
  <2>7. CASE SweepLock(t)
    BY <1>1, <2>7 DEF SweepLock, Holders
  <2>8. CASE SweepSlot(t)
    BY <1>1, <2>8 DEF SweepSlot, Holders
  <2>9. CASE SweepEnd(t)
    BY <1>1, <2>9 DEF SweepEnd, Holders
  <2>10. CASE GcEnd(t)
    BY <1>1, <2>10 DEF GcEnd, Holders
  <2> QED BY <1>5, <2>1, <2>2, <2>3, <2>4, <2>5, <2>6, <2>7, <2>8, <2>9, <2>10 DEF Collect
<1>6. ASSUME NEW t \in Tasks, Alloc(t) PROVE Holders'
  <2>1. CASE AllocPop(t)
    <3>1. freeList \in Seq(1..total) /\ IsInjective(freeList) /\ freeList # <<>>
      BY <2>1 DEF AllocPop, Typed, TypeOK, SlotsApart
    <3>2. Last(freeList) \in 1..total
      BY <3>1, TakeFacts
    <3> QED BY <1>1, <2>1, <3>2 DEF AllocPop, Holders
  <2>2. CASE AllocMiss(t)
    BY <1>1, <2>2 DEF AllocMiss, Holders
  <2>3. CASE AllocRead(t)
    BY <1>1, <2>3 DEF AllocRead, Holders
  <2>4. CASE AllocFill(t)
    BY <1>1, <2>4 DEF AllocFill, Born, Done, Holders
  <2>5. CASE AllocAsk(t)
    BY <1>1, <2>5 DEF AllocAsk, Holders
  <2>6. CASE AllocGrow(t)
    BY <1>1, <2>6 DEF AllocGrow, Born, Done, Holders
  <2> QED BY <1>6, <2>1, <2>2, <2>3, <2>4, <2>5, <2>6 DEF Alloc
<1>7. ASSUME NEW t \in Tasks, Execute(t) PROVE Holders'
  <2> USE DEF Executes, Done
  <2>1. CASE GetField(t)
    BY <1>1, <2>1 DEF GetField, Holders
  <2>2. CASE SetField(t)
    BY <1>1, <2>2 DEF SetField, Holders
  <2>3. CASE LoadGlobal(t)
    BY <1>1, <2>3 DEF LoadGlobal, Holders
  <2>4. CASE StoreGlobal(t)
    BY <1>1, <2>4 DEF StoreGlobal, Holders
  <2>5. CASE Pop(t)
    BY <1>1, <2>5 DEF Pop, Holders
  <2>6. CASE PrintOuter(t)
    BY <1>1, <2>6 DEF PrintOuter, Holders
  <2>7. CASE PrintInner(t)
    BY <1>1, <2>7 DEF PrintInner, Holders
  <2>8. CASE Allocate(t)
    BY <1>1, <2>8 DEF Allocate, Holders
  <2>9. CASE CreateEntry(t)
    BY <1>1, <2>9 DEF CreateEntry, Holders
  <2>10. CASE Park(t)
    BY <1>1, <2>10 DEF Park, Holders
  <2>11. CASE DeferCall(t) \/ Return(t)
    BY <1>1, <2>11 DEF DeferCall, Return, Holders
  <2> QED BY <1>7, <2>1, <2>2, <2>3, <2>4, <2>5, <2>6, <2>7, <2>8, <2>9, <2>10, <2>11
      DEF Execute
<1> QED BY <1>2, <1>3, <1>4, <1>5, <1>6, <1>7 DEF Next

-----------------------------------------------------------------------------
(***************************************************************************)
(* Where the slots are.                                                    *)
(***************************************************************************)

(***************************************************************************)
(* One slot at most is in the hands of a task: that of the task that holds *)
(* the lock of the free list.                                              *)
(***************************************************************************)
LEMMA InHandFacts ==
  ASSUME Typed, Holders
  PROVE  /\ InHand = {t \in Tasks : freeOwner = t /\ pc[t] \in Filling}
         /\ \A t \in Tasks : t \in InHand => InHand = {t}
         /\ \A t \in Tasks \ InHand : hand[t] = NoSlot
BY DEF Typed, TypeOK, Holders, InHand

(***************************************************************************)
(* There are finitely many objects, in slots that exist; so are the free   *)
(* slots.                                                                  *)
(***************************************************************************)
LEMMA FiniteHeap ==
  ASSUME Typed
  PROVE  /\ total \in Nat /\ IsFiniteSet(occupied) /\ Cardinality(occupied) \in Nat
         /\ freeList \in Seq(1..total) /\ Len(freeList) \in Nat
         /\ ToSet(freeList) \subseteq 1..total /\ NoSlot \notin occupied \cup ToSet(freeList)
         /\ Cardinality({}) = 0 /\ \A x : Cardinality({x}) = 1
<1>1. total \in Nat /\ occupied \subseteq 1..total /\ freeList \in Seq(1..total)
  BY DEF Typed, TypeOK
<1>2. IsFiniteSet(occupied) /\ Cardinality(occupied) \in Nat
  <2>1. IsFiniteSet(1..total)
    BY <1>1, FS_Interval
  <2>2. IsFiniteSet(occupied)
    BY <1>1, <2>1, FS_Subset
  <2> QED BY <2>2, FS_CardinalityType
<1>3. Len(freeList) \in Nat /\ ToSet(freeList) \subseteq 1..total
  BY <1>1, LenProperties, ElementOfSeq DEF ToSet
<1>4. NoSlot \notin 1..total
  BY <1>1 DEF NoSlot
<1>5. Cardinality({}) = 0 /\ \A x : Cardinality({x}) = 1
  BY FS_EmptySet, FS_Singleton
<1> QED BY <1>1, <1>2, <1>3, <1>4, <1>5

(***************************************************************************)
(* Four steps move a slot.                                                 *)
(***************************************************************************)
LEMMA SlotsStay ==
  ASSUME [Next]_vars
  PROVE  \/ UNCHANGED <<total, occupied, freeList, hand>>
         \/ \E t \in Tasks : SweepSlot(t) \/ AllocPop(t) \/ AllocFill(t) \/ AllocGrow(t)
<1> USE DEF slots, locks, roots, collector, alloc
<1>1. CASE UNCHANGED vars
  BY <1>1 DEF vars
<1>2. ASSUME NEW t \in Tasks, StartInstruction(t) \/ Resume(t) \/ Wake(t)
      PROVE  UNCHANGED <<total, occupied, freeList, hand>>
  BY <1>2 DEF StartInstruction, Resume, Wake
<1>3. ASSUME NEW t \in Tasks, Collect(t), ~SweepSlot(t)
      PROVE  UNCHANGED <<total, occupied, freeList, hand>>
  BY <1>3 DEF Collect, GcLock, GcCheck, MarkRoot, MarkNext, NextRoots, SweepRead, SweepLock,
              SweepEnd, GcEnd
<1>4. ASSUME NEW t \in Tasks, AllocMiss(t) \/ AllocRead(t) \/ AllocAsk(t)
      PROVE  UNCHANGED <<total, occupied, freeList, hand>>
  BY <1>4 DEF AllocMiss, AllocRead, AllocAsk
<1>5. ASSUME NEW t \in Tasks, Execute(t)
      PROVE  UNCHANGED <<total, occupied, freeList, hand>>
  BY <1>5 DEF Execute, GetField, SetField, LoadGlobal, StoreGlobal, Pop, PrintOuter,
              PrintInner, DeferCall, Return, Allocate, CreateEntry, Park
<1> QED BY <1>1, <1>2, <1>3, <1>4, <1>5 DEF Next, Alloc

(***************************************************************************)
(* At first one slot exists, and is occupied.                              *)
(***************************************************************************)
LEMMA SlotsInit == Init => SlotsApart /\ SlotsAccountedFor
<1> SUFFICES ASSUME Init PROVE SlotsApart /\ SlotsAccountedFor
  OBVIOUS
<1>1. total = 1 /\ occupied = {1} /\ freeList = <<>> /\ hand = [t \in Tasks |-> 0]
  BY DEF Init, NoSlot
<1>2. ToSet(freeList) = {} /\ IsInjective(freeList) /\ Len(freeList) = 0
  BY <1>1 DEF ToSet, IsInjective
<1>3. InHand = {}
  BY <1>1 DEF InHand, NoSlot
<1>4. Cardinality(occupied) = 1 /\ Cardinality(InHand) = 0
  BY <1>1, <1>3, FS_EmptySet, FS_Singleton
<1> QED BY <1>1, <1>2, <1>3, <1>4 DEF SlotsApart, SlotsAccountedFor

(***************************************************************************)
(* No step loses a slot or has it in two places.                           *)
(***************************************************************************)
LEMMA SlotsNext ==
  ASSUME Typed, Holders, SlotsApart, SlotsAccountedFor, [Next]_vars
  PROVE  SlotsApart' /\ SlotsAccountedFor'
<1>1. /\ hand \in [Tasks -> 0..total] /\ total \in 1..MaxSlots
      /\ NoTask \notin Tasks /\ occupied \subseteq 1..total
  BY DEF Typed, TypeOK
<1>2. CASE UNCHANGED <<total, occupied, freeList, hand>>
  BY <1>2 DEF SlotsApart, SlotsAccountedFor, InHand
<1>3. ASSUME NEW t \in Tasks, SweepSlot(t) PROVE SlotsApart' /\ SlotsAccountedFor'
  <2> DEFINE x == at[t]
  <2>1. InHand = {} /\ hand = [s \in Tasks |-> NoSlot]
    <3>1. freeOwner = t /\ pc[t] = "sweep"
      BY <1>3 DEF SweepSlot, Holders
    <3>2. InHand = {}
      BY <3>1, InHandFacts DEF Filling
    <3> QED BY <1>1, <3>2, InHandFacts
  <2>2. UNCHANGED <<total, hand>>
    BY <1>3 DEF SweepSlot, alloc
  <2>3. InHand' = {}
    BY <2>1, <2>2 DEF InHand
  <2>4. CASE UNCHANGED <<occupied, freeList>>
    BY <2>2, <2>4 DEF SlotsApart, SlotsAccountedFor, InHand
  <2>5. CASE x \in occupied /\ occupied' = occupied \ {x} /\ freeList' = Append(freeList, x)
    <3>1. /\ x \in 1..total /\ x \notin ToSet(freeList)
          /\ IsInjective(freeList) /\ ToSet(freeList) \cap occupied = {}
      BY <1>1, <2>5 DEF SlotsApart
    <3> HIDE DEF x
    <3>2. /\ ToSet(freeList') = ToSet(freeList) \cup {x} /\ Len(freeList') = Len(freeList) + 1
          /\ IsInjective(freeList')
      BY <2>5, <3>1, FiniteHeap, FreeFacts
    <3>3. Cardinality(occupied') = Cardinality(occupied) - 1
      BY <2>5, FiniteHeap, FS_RemoveElement
    <3>4. 1..total = occupied \cup ToSet(freeList)
          /\ total = Cardinality(occupied) + Len(freeList)
      BY <2>1, FiniteHeap DEF SlotsAccountedFor
    <3>5. SlotsApart'
      <4>1. ToSet(freeList') \cap occupied' = {}
        BY <2>5, <3>1, <3>2
      <4>2. \A s \in Tasks : hand'[s] \notin occupied' \cup ToSet(freeList')
        BY <1>1, <2>1, <2>2, <2>5, <3>1, <3>2, FiniteHeap
      <4> QED BY <3>2, <4>1, <4>2 DEF SlotsApart
    <3>6. SlotsAccountedFor'
      <4>1. 1..total' = occupied' \cup ToSet(freeList')
        BY <2>2, <2>5, <3>2, <3>4
      <4>2. total' = Cardinality(occupied') + Len(freeList')
        BY <2>2, <3>2, <3>3, <3>4, FiniteHeap
      <4> QED BY <2>3, <4>1, <4>2, FiniteHeap DEF SlotsAccountedFor
    <3> QED BY <3>5, <3>6
  <2> QED BY <1>3, <2>4, <2>5 DEF SweepSlot
<1>4. ASSUME NEW t \in Tasks, AllocPop(t) PROVE SlotsApart' /\ SlotsAccountedFor'
  <2>1. InHand = {} /\ hand = [s \in Tasks |-> NoSlot]
    BY <1>1, <1>4, InHandFacts DEF AllocPop
  <2>2. /\ freeList # <<>> /\ freeList' = Front(freeList) /\ UNCHANGED <<total, occupied>>
        /\ hand' = [hand EXCEPT ![t] = Last(freeList)]
    BY <1>4 DEF AllocPop
  <2>3. IsInjective(freeList) /\ ToSet(freeList) \cap occupied = {}
    BY DEF SlotsApart
  <2>4. PICK x \in 1..total : x = Last(freeList)
    BY <2>2, <2>3, FiniteHeap, TakeFacts
  <2>5. /\ Len(freeList') = Len(freeList) - 1 /\ x \notin ToSet(freeList')
        /\ ToSet(freeList) = ToSet(freeList') \cup {x} /\ IsInjective(freeList')
    BY <2>2, <2>3, <2>4, FiniteHeap, TakeFacts
  <2>6. hand' = [s \in Tasks |-> IF s = t THEN x ELSE NoSlot] /\ x # NoSlot
    BY <1>1, <2>1, <2>2, <2>4 DEF NoSlot
  <2>7. InHand' = {t} /\ {hand'[s] : s \in InHand'} = {x}
    <3>1. InHand' = {t}
      BY <2>6 DEF InHand
    <3> QED BY <2>6, <3>1
  <2>8. 1..total = occupied \cup ToSet(freeList) /\ total = Cardinality(occupied) + Len(freeList)
    BY <2>1, FiniteHeap DEF SlotsAccountedFor
  <2>9. SlotsApart'
    <3>1. NoSlot \notin occupied' \cup ToSet(freeList')
      BY <2>2, <2>5, FiniteHeap
    <3>2. x \notin occupied' \cup ToSet(freeList')
      BY <2>2, <2>3, <2>5
    <3>3. \A s \in Tasks : hand'[s] \notin occupied' \cup ToSet(freeList')
      BY <2>6, <3>1, <3>2
    <3>4. ToSet(freeList') \cap occupied' = {}
      BY <2>2, <2>3, <2>5
    <3> QED BY <2>5, <3>3, <3>4 DEF SlotsApart
  <2>10. SlotsAccountedFor'
    <3>1. 1..total' = occupied' \cup ToSet(freeList') \cup {x}
      BY <2>2, <2>5, <2>8
    <3>2. total' = Cardinality(occupied') + Len(freeList') + 1
      BY <2>2, <2>5, <2>8, FiniteHeap
    <3> QED BY <2>7, <3>1, <3>2, FiniteHeap DEF SlotsAccountedFor
  <2> QED BY <2>9, <2>10
<1>5. ASSUME NEW t \in Tasks, AllocFill(t) PROVE SlotsApart' /\ SlotsAccountedFor'
  <2>1. t \in InHand /\ InHand = {t} /\ \A s \in Tasks \ {t} : hand[s] = NoSlot
    <3>1. t \in InHand
      BY <1>5 DEF AllocFill, Holders, Filling, InHand
    <3> QED BY <3>1, InHandFacts
  <2>2. PICK x \in 1..total : x = hand[t]
    BY <1>1, <2>1 DEF InHand, NoSlot
  <2>3. /\ UNCHANGED <<total, freeList>> /\ occupied' = occupied \cup {x}
        /\ hand' = [hand EXCEPT ![t] = NoSlot]
    BY <1>5, <2>2 DEF AllocFill, Born
  <2>4. hand' = [s \in Tasks |-> NoSlot]
    BY <1>1, <2>1, <2>3
  <2>5. InHand' = {}
    BY <2>4 DEF InHand
  <2>6. x \notin occupied \cup ToSet(freeList)
    BY <2>2 DEF SlotsApart
  <2>7. Cardinality(occupied') = Cardinality(occupied) + 1
    BY <2>3, <2>6, FiniteHeap, FS_AddElement
  <2>8. /\ 1..total = occupied \cup ToSet(freeList) \cup {x}
        /\ total = Cardinality(occupied) + Len(freeList) + 1
    <3>1. {hand[s] : s \in InHand} = {x} /\ Cardinality(InHand) = 1
      BY <2>1, <2>2, FiniteHeap
    <3> QED BY <3>1 DEF SlotsAccountedFor
  <2>9. SlotsApart'
    <3>1. NoSlot \notin occupied' \cup ToSet(freeList')
      BY <1>1, <2>3, FiniteHeap DEF NoSlot
    <3>2. ToSet(freeList') \cap occupied' = {} /\ IsInjective(freeList')
      BY <2>3, <2>6 DEF SlotsApart
    <3> QED BY <2>4, <3>1, <3>2 DEF SlotsApart
  <2>10. SlotsAccountedFor'
    <3>1. 1..total' = occupied' \cup ToSet(freeList')
      BY <2>3, <2>8
    <3>2. total' = Cardinality(occupied') + Len(freeList')
      BY <2>3, <2>7, <2>8, FiniteHeap
    <3>3. {hand'[s] : s \in InHand'} = {} /\ Cardinality(InHand') = 0
      BY <2>5, FiniteHeap
    <3>4. Cardinality(occupied') + Len(freeList') \in Nat
      BY <2>3, <2>7, FiniteHeap
    <3>5. 1..total' = occupied' \cup ToSet(freeList') \cup {hand'[s] : s \in InHand'}
      BY <3>1, <3>3
    <3>6. total' = Cardinality(occupied') + Len(freeList') + Cardinality(InHand')
      BY <3>2, <3>3, <3>4
    <3> QED BY <3>5, <3>6 DEF SlotsAccountedFor
  <2> QED BY <2>9, <2>10
<1>6. ASSUME NEW t \in Tasks, AllocGrow(t) PROVE SlotsApart' /\ SlotsAccountedFor'
  <2>1. hand[t] = NoSlot
    BY <1>6 DEF AllocGrow, Holders, Filling
  <2>2. UNCHANGED <<freeList, hand>> /\ total' = total + 1 /\ occupied' = occupied \cup {total + 1}
    BY <1>1, <1>6, <2>1 DEF AllocGrow, Born
  <2>3. /\ total + 1 \notin occupied \cup ToSet(freeList) /\ \A s \in Tasks : hand[s] # total + 1
        /\ 1..total + 1 = (1..total) \cup {total + 1}
    BY <1>1, FiniteHeap
  <2>4. Cardinality(occupied') = Cardinality(occupied) + 1
    BY <2>2, <2>3, FiniteHeap, FS_AddElement
  <2>5. SlotsApart'
    BY <2>2, <2>3 DEF SlotsApart
  <2>6. SlotsAccountedFor'
    <3>1. Cardinality(InHand) \in Nat
      <4>1. InHand = {} \/ \E s \in Tasks : InHand = {s}
        BY InHandFacts DEF InHand
      <4>2. Cardinality({}) = 0 /\ \A s \in Tasks : Cardinality({s}) = 1
        BY FiniteHeap
      <4> QED BY <4>1, <4>2
    <3>2. InHand' = InHand /\ {hand'[s] : s \in InHand'} = {hand[s] : s \in InHand}
      BY <2>2 DEF InHand
    <3>3. 1..total' = occupied' \cup ToSet(freeList) \cup {hand[s] : s \in InHand}
      BY <2>2, <2>3 DEF SlotsAccountedFor
    <3>4. total' = Cardinality(occupied') + Len(freeList) + Cardinality(InHand)
      BY <2>2, <2>4, <3>1, FiniteHeap DEF SlotsAccountedFor
    <3> QED BY <2>2, <3>2, <3>3, <3>4 DEF SlotsAccountedFor
  <2> QED BY <2>5, <2>6
<1> QED BY <1>2, <1>3, <1>4, <1>5, <1>6, SlotsStay

-----------------------------------------------------------------------------
(***************************************************************************)
(* The marks, and what a collecting task keeps.                            *)
(***************************************************************************)

(***************************************************************************)
(* What a step that is not one of a collection leaves alone: the marks,    *)
(* what exists, and the collector; and, unless it clears quiet, everything *)
(* else a collection reads.                                                *)
(***************************************************************************)
Bystander ==
    /\ UNCHANGED <<gcOwner, collector, marked>>
    /\ \A s \in Tasks : pc[s] \in Collecting => pc'[s] = pc[s] /\ stack'[s] = stack[s]
    /\ \A s \in Tasks : pc'[s] \in Collecting => pc[s] \in Collecting
    /\ occupied \subseteq occupied'
    /\ quiet' /\ gcOwner # NoTask => quiet /\ UNCHANGED <<occupied, refs, roots>>

(***************************************************************************)
(* An allocation leaves a collection alone: its object is in a slot that   *)
(* was free, without a mark.                                               *)
(***************************************************************************)
LEMMA BystanderAlloc ==
  ASSUME Typed, Holders, SlotsApart, NEW t \in Tasks, Alloc(t) PROVE Bystander
<1> USE DEF slots, locks, roots, collector, alloc, Goto, Collecting, Filling, Allocating
<1>1. /\ pc \in [Tasks -> Labels] /\ stack \in [Tasks -> SUBSET Ids] /\ total \in 1..MaxSlots
      /\ occupied \subseteq 1..total /\ marked \subseteq occupied /\ hand \in [Tasks -> 0..total]
  BY DEF Typed, TypeOK
<1>2. CASE AllocPop(t)
  BY <1>1, <1>2 DEF AllocPop, Bystander
<1>3. CASE AllocMiss(t)
  BY <1>1, <1>3 DEF AllocMiss, Bystander
<1>4. CASE AllocRead(t)
  BY <1>1, <1>4 DEF AllocRead, Bystander
<1>5. CASE AllocAsk(t)
  BY <1>1, <1>5 DEF AllocAsk, Bystander
<1>6. ASSUME NEW x \in Ids \ occupied, Born(t, x), pc[t] \in {"allocFill", "allocWait"},
             UNCHANGED <<gcOwner, globals, place, collector>>
      PROVE  Bystander
  <2>1. /\ pc'[t] = "head" /\ \A s \in Tasks \ {t} : pc'[s] = pc[s] /\ stack'[s] = stack[s]
        /\ occupied' = occupied \cup {x} /\ marked' = marked \ {x} /\ quiet' = (gcOwner = NoTask)
    BY <1>6, BornTypes
  <2>2. marked' = marked
    BY <1>1, <1>6, <2>1
  <2> QED BY <1>1, <1>6, <2>1, <2>2 DEF Bystander
<1>7. CASE AllocFill(t)
  <2>1. hand[t] \in Ids \ occupied
    BY <1>1, <1>7 DEF AllocFill, Holders, SlotsApart, Ids, NoSlot
  <2> QED BY <1>6, <1>7, <2>1 DEF AllocFill
<1>8. CASE AllocGrow(t)
  <2>1. total + 1 \in Ids \ occupied
    BY <1>1, <1>8 DEF AllocGrow, Ids
  <2> QED BY <1>6, <1>8, <2>1 DEF AllocGrow
<1> QED BY <1>2, <1>3, <1>4, <1>5, <1>7, <1>8 DEF Alloc

(***************************************************************************)
(* A step is one of the collecting task or leaves its collection alone.    *)
(***************************************************************************)
LEMMA BystanderNext ==
  ASSUME Typed, Holders, SlotsApart, [Next]_vars
  PROVE  Bystander \/ \E t \in Tasks : Collect(t)
<1> USE DEF slots, locks, roots, collector, alloc, Goto, Collecting
<1>1. pc \in [Tasks -> Labels] /\ stack \in [Tasks -> SUBSET Ids]
  BY DEF Typed, TypeOK
<1>2. CASE UNCHANGED vars
  BY <1>2 DEF vars, Bystander
<1>3. ASSUME NEW t \in Tasks, StartInstruction(t) PROVE Bystander
  BY <1>1, <1>3 DEF StartInstruction, Bystander
<1>4. ASSUME NEW t \in Tasks, Resume(t) \/ Wake(t) PROVE Bystander
  BY <1>1, <1>4 DEF Resume, Wake, Bystander
<1>5. ASSUME NEW t \in Tasks, Execute(t) PROVE Bystander
  <2> USE DEF Executes, Done, OnStack
  <2>1. CASE GetField(t)
    BY <1>1, <2>1 DEF GetField, Bystander
  <2>2. CASE SetField(t)
    BY <1>1, <2>2 DEF SetField, Bystander
  <2>3. CASE LoadGlobal(t)
    BY <1>1, <2>3 DEF LoadGlobal, Bystander
  <2>4. CASE StoreGlobal(t)
    BY <1>1, <2>4 DEF StoreGlobal, Bystander
  <2>5. CASE Pop(t)
    BY <1>1, <2>5 DEF Pop, Bystander
  <2>6. CASE PrintOuter(t)
    BY <1>1, <2>6 DEF PrintOuter, Bystander
  <2>7. CASE PrintInner(t)
    BY <1>1, <2>7 DEF PrintInner, Bystander
  <2>8. CASE Allocate(t)
    BY <1>1, <2>8 DEF Allocate, Bystander
  <2>9. CASE CreateEntry(t)
    BY <1>1, <2>9 DEF CreateEntry, Bystander
  <2>10. CASE Park(t)
    BY <1>1, <2>10 DEF Park, Bystander
  <2>11. CASE DeferCall(t) \/ Return(t)
    BY <1>1, <2>11 DEF DeferCall, Return, Bystander
  <2> QED BY <1>5, <2>1, <2>2, <2>3, <2>4, <2>5, <2>6, <2>7, <2>8, <2>9, <2>10, <2>11
      DEF Execute
<1> QED BY <1>2, <1>3, <1>4, <1>5, BystanderAlloc DEF Next

(***************************************************************************)
(* While one task collects no other does, and nothing changes the objects  *)
(* or the roots.                                                           *)
(***************************************************************************)
LEMMA CollectorAlone ==
  ASSUME Typed, Holders, NEW t \in Tasks, Collect(t)
  PROVE  /\ \A s \in Tasks \ {t} : /\ pc[s] \notin Collecting /\ pc'[s] = pc[s]
                                  /\ kept'[s] = kept[s]
         /\ UNCHANGED <<total, refs, inner, roots>>
<1> USE DEF slots, locks, roots, collector, alloc, Goto
<1>1. /\ pc \in [Tasks -> Labels] /\ kept \in [Tasks -> SUBSET Ids]
      /\ phase[t] \in {"own", "sleepers", "globals"}
  BY DEF Typed, TypeOK
<1>2. gcOwner = NoTask \/ gcOwner = t
  BY DEF Collect, GcLock, GcCheck, MarkRoot, MarkNext, NextRoots, SweepRead, SweepLock,
         SweepSlot, SweepEnd, GcEnd, Holders, Collecting
<1>3. \A s \in Tasks \ {t} : pc[s] \notin Collecting
  BY <1>2 DEF Holders
<1>4. \A s \in Tasks \ {t} : pc'[s] = pc[s] /\ kept'[s] = kept[s]
  <2>1. CASE GcLock(t)
    BY <1>1, <2>1 DEF GcLock
  <2>2. CASE GcCheck(t)
    BY <1>1, <2>2 DEF GcCheck
  <2>3. CASE MarkRoot(t)
    BY <1>1, <2>3 DEF MarkRoot
  <2>4. CASE MarkNext(t)
    BY <1>1, <2>4 DEF MarkNext
  <2>5. CASE NextRoots(t)
    BY <1>1, <2>5 DEF NextRoots
  <2>6. CASE SweepRead(t)
    BY <1>1, <2>6 DEF SweepRead
  <2>7. CASE SweepLock(t)
    BY <1>1, <2>7 DEF SweepLock
  <2>8. CASE SweepSlot(t)
    BY <1>1, <2>8 DEF SweepSlot
  <2>9. CASE SweepEnd(t)
    BY <1>1, <2>9 DEF SweepEnd
  <2>10. CASE GcEnd(t)
    BY <1>1, <2>10 DEF GcEnd
  <2> QED BY <2>1, <2>2, <2>3, <2>4, <2>5, <2>6, <2>7, <2>8, <2>9, <2>10 DEF Collect
<1>5. UNCHANGED <<total, refs, inner, roots>>
  BY DEF Collect, GcLock, GcCheck, MarkRoot, MarkNext, NextRoots, SweepRead, SweepLock,
         SweepSlot, SweepEnd, GcEnd
<1> QED BY <1>3, <1>4, <1>5

(***************************************************************************)
(* At first there is no mark, and nothing to keep.                         *)
(***************************************************************************)
LEMMA OwnRootsInit == Init => OwnRoots /\ NoStaleMarks
BY DEF Init, OwnRoots, OwnRootsOf, NoStaleMarks, Collecting

(***************************************************************************)
(* A collecting task marks all of its roots before it sweeps, and frees none*)
(* of them.                                                                *)
(***************************************************************************)
LEMMA OwnRootsNext ==
  ASSUME Typed, Holders, SlotsApart, OwnRoots, [Next]_vars PROVE OwnRoots'
<1> USE DEF slots, locks, roots, collector, alloc, Goto
<1>1. /\ pc \in [Tasks -> Labels] /\ stack \in [Tasks -> SUBSET Ids]
      /\ kept \in [Tasks -> SUBSET Ids] /\ work \in [Tasks -> SUBSET Ids]
      /\ todo \in [Tasks -> SUBSET Ids] /\ at \in [Tasks -> 1..(MaxSlots + 1)]
      /\ total \in 1..MaxSlots /\ occupied \subseteq 1..total /\ marked \subseteq occupied
  BY DEF Typed, TypeOK
<1>2. CASE Bystander
  <2> SUFFICES ASSUME NEW s \in Tasks PROVE OwnRootsOf(s)'
    BY DEF OwnRoots
  <2>1. OwnRootsOf(s)
    BY DEF OwnRoots
  <2>2. CASE pc[s] \in Collecting
    <3>1. pc'[s] = pc[s] /\ stack'[s] = stack[s] /\ occupied \subseteq occupied'
          /\ UNCHANGED <<collector, marked>>
      BY <1>2, <2>2 DEF Bystander
    <3> QED BY <2>1, <3>1 DEF OwnRootsOf, Seen
  <2>3. CASE pc[s] \notin Collecting
    <3>1. pc'[s] \notin Collecting /\ kept'[s] = {}
      BY <1>2, <2>1, <2>3 DEF Bystander, OwnRootsOf
    <3> QED BY <3>1 DEF OwnRootsOf, Collecting
  <2> QED BY <2>2, <2>3
<1>3. ASSUME NEW t \in Tasks, Collect(t) PROVE OwnRoots'
  <2>1. \A s \in Tasks \ {t} : OwnRootsOf(s)'
    <3> SUFFICES ASSUME NEW s \in Tasks \ {t} PROVE OwnRootsOf(s)'
      OBVIOUS
    <3>1. pc'[s] \notin Collecting /\ kept'[s] = {}
      BY <1>3, CollectorAlone DEF OwnRoots, OwnRootsOf
    <3> QED BY <3>1 DEF OwnRootsOf, Collecting
  <2>2. OwnRootsOf(t)
    BY DEF OwnRoots
  <2>3. OwnRootsOf(t)'
    <3>1. CASE GcLock(t)
      BY <1>1, <2>2, <3>1 DEF GcLock, OwnRootsOf, Collecting
    <3>2. CASE GcCheck(t)
      <4>1. CASE LiveCount < threshold
        BY <1>1, <2>2, <3>2, <4>1 DEF GcCheck, OwnRootsOf, Collecting
      <4>2. CASE ~(LiveCount < threshold)
        <5> DEFINE W == Wanted(t)
        <5>1. W \subseteq occupied
          BY ReachableIsOccupied DEF Wanted
        <5>2. /\ pc'[t] = "mark" /\ todo'[t] = stack[t] /\ kept'[t] = W
              /\ UNCHANGED <<stack, occupied>>
          BY <1>1, <3>2, <4>2 DEF GcCheck
        <5> HIDE DEF W
        <5> QED BY <5>1, <5>2 DEF OwnRootsOf, Seen, Collecting
      <4> QED BY <4>1, <4>2
    <3>3. CASE MarkRoot(t)
      <4>1. /\ pc[t] = "mark" /\ work[t] = {} /\ UNCHANGED <<pc, stack, kept, occupied, marked>>
        BY <3>3 DEF MarkRoot
      <4>2. PICK x \in todo[t] : todo'[t] = todo[t] \ {x} /\ work'[t] = {x}
        BY <1>1, <3>3 DEF MarkRoot
      <4> QED BY <2>2, <4>1, <4>2 DEF OwnRootsOf, Seen, Collecting
    <3>4. CASE MarkNext(t)
      <4>1. pc[t] = "mark" /\ UNCHANGED <<pc, stack, kept, occupied, todo>>
        BY <3>4 DEF MarkNext
      <4>2. PICK x \in work[t] :
              /\ marked' = IF x \in occupied \ marked THEN marked \cup {x} ELSE marked
              /\ work[t] \ {x} \subseteq work'[t]
        BY <1>1, <3>4, ZenonT(60) DEF MarkNext
      <4>3. Seen(t) \cap occupied \subseteq Seen(t)'
        BY <4>1, <4>2 DEF Seen
      <4> QED BY <2>2, <4>1, <4>3 DEF OwnRootsOf, Collecting
    <3>5. CASE NextRoots(t)
      <4>1. /\ pc[t] = "mark" /\ work[t] = {} /\ todo[t] = {} /\ pc'[t] \in {"mark", "sweepRead"}
            /\ UNCHANGED <<stack, kept, occupied, marked>>
        <5>1. phase[t] \in {"own", "sleepers", "globals"}
          BY DEF Typed, TypeOK
        <5> QED BY <1>1, <3>5, <5>1 DEF NextRoots
      <4>2. stack[t] \cap kept[t] \subseteq marked
        BY <2>2, <4>1 DEF OwnRootsOf, Seen
      <4> QED BY <2>2, <4>1, <4>2 DEF OwnRootsOf, Seen, Collecting
    <3>6. CASE SweepRead(t)
      BY <1>1, <2>2, <3>6 DEF SweepRead, OwnRootsOf, Collecting
    <3>7. CASE SweepLock(t)
      BY <1>1, <2>2, <3>7 DEF SweepLock, OwnRootsOf, Collecting
    <3>8. CASE SweepSlot(t)
      <4>1. pc[t] = "sweep" /\ UNCHANGED <<pc, stack, kept>> /\ at'[t] = at[t] + 1 /\ at[t] \in Nat
        BY <1>1, <3>8 DEF SweepSlot
      <4>2. \/ marked' = marked \ {at[t]} /\ occupied' = occupied
            \/ UNCHANGED marked /\ occupied' = occupied \ {at[t]} /\ at[t] \notin marked
            \/ UNCHANGED <<marked, occupied>>
        BY <3>8 DEF SweepSlot
      <4>3. \A x \in stack[t] \cap kept[t] : x \in occupied /\ (x >= at[t] => x \in marked)
        BY <2>2, <4>1 DEF OwnRootsOf
      <4>4. \A x \in stack[t] \cap kept[t] : x \in occupied' /\ (x >= at[t] + 1 => x \in marked')
        <5>1. \A x \in occupied : x \in Nat
          BY <1>1
        <5> QED BY <4>1, <4>2, <4>3, <5>1
      <4> QED BY <4>1, <4>4 DEF OwnRootsOf, Collecting
    <3>9. CASE SweepEnd(t)
      BY <1>1, <2>2, <3>9 DEF SweepEnd, OwnRootsOf, Collecting
    <3>10. CASE GcEnd(t)
      BY <1>1, <2>2, <3>10 DEF GcEnd, OwnRootsOf, Collecting
    <3> QED BY <1>3, <3>1, <3>2, <3>3, <3>4, <3>5, <3>6, <3>7, <3>8, <3>9, <3>10 DEF Collect
  <2> QED BY <2>1, <2>3 DEF OwnRoots
<1> QED BY <1>2, <1>3, BystanderNext

(***************************************************************************)
(* A sweep takes off all marks.                                            *)
(***************************************************************************)
LEMMA NoStaleMarksNext ==
  ASSUME Typed, Holders, SlotsApart, NoStaleMarks, [Next]_vars PROVE NoStaleMarks'
<1> USE DEF slots, locks, roots, collector, alloc, Goto
<1>1. /\ pc \in [Tasks -> Labels] /\ at \in [Tasks -> 1..(MaxSlots + 1)]
      /\ total \in 1..MaxSlots /\ occupied \subseteq 1..total /\ marked \subseteq occupied
      /\ phase \in [Tasks -> {"own", "sleepers", "globals"}]
  BY DEF Typed, TypeOK
<1>2. CASE Bystander
  BY <1>2 DEF Bystander, NoStaleMarks, Marking, Collecting
<1>3. ASSUME NEW t \in Tasks, Collect(t) PROVE NoStaleMarks'
  <2>1. \A s \in Tasks \ {t} : pc[s] \notin Collecting /\ pc'[s] \notin Collecting
    BY <1>3, CollectorAlone
  <2>2. /\ marked # {} => pc[t] \in Marking
        /\ pc[t] = "sweep" => \A x \in marked : x >= at[t]
    BY <2>1 DEF NoStaleMarks, Marking, Collecting
  <2>3. /\ marked' # {} => pc'[t] \in Marking
        /\ pc'[t] = "sweep" => \A x \in marked' : x >= at'[t]
    <3> USE DEF Marking
    <3>1. CASE GcLock(t)
      BY <1>1, <2>2, <3>1 DEF GcLock
    <3>2. CASE GcCheck(t)
      BY <1>1, <2>2, <3>2 DEF GcCheck
    <3>3. CASE MarkRoot(t)
      BY <1>1, <2>2, <3>3 DEF MarkRoot
    <3>4. CASE MarkNext(t)
      BY <1>1, <2>2, <3>4 DEF MarkNext
    <3>5. CASE NextRoots(t)
      BY <1>1, <2>2, <3>5 DEF NextRoots
    <3>6. CASE SweepRead(t)
      BY <1>1, <2>2, <3>6 DEF SweepRead
    <3>7. CASE SweepLock(t)
      BY <1>1, <2>2, <3>7 DEF SweepLock
    <3>8. CASE SweepSlot(t)
      <4>1. pc[t] = "sweep" /\ UNCHANGED pc /\ at'[t] = at[t] + 1 /\ at[t] \in Nat
        BY <1>1, <3>8 DEF SweepSlot
      <4>2. marked' = marked \ {at[t]}
        BY <1>1, <3>8 DEF SweepSlot
      <4> QED BY <1>1, <2>2, <4>1, <4>2
    <3>9. CASE SweepEnd(t)
      <4>1. marked = {}
        BY <1>1, <2>2, <3>9 DEF SweepEnd
      <4> QED BY <1>1, <3>9, <4>1 DEF SweepEnd
    <3>10. CASE GcEnd(t)
      BY <1>1, <2>2, <3>10 DEF GcEnd
    <3> QED BY <1>3, <3>1, <3>2, <3>3, <3>4, <3>5, <3>6, <3>7, <3>8, <3>9, <3>10 DEF Collect
  <2> QED BY <2>1, <2>3 DEF NoStaleMarks, Collecting
<1> QED BY <1>2, <1>3, BystanderNext

-----------------------------------------------------------------------------
(***************************************************************************)
(* Who waits for whom.                                                     *)
(***************************************************************************)

(***************************************************************************)
(* A task that waits waits for gc_start_mutex, whose owner waits at most   *)
(* for the lock of the free list, whose owner waits for a writer at most.  *)
(***************************************************************************)
LEMMA NoJam == Typed /\ Holders => JamsNeedGrowth
<1> SUFFICES ASSUME Typed, Holders, Inside # {}, \A t \in Inside : ~CanMove(t), asking = {}
             PROVE  FALSE
  BY DEF JamsNeedGrowth
<1>1. /\ pc \in [Tasks -> Labels] /\ {freeOwner, gcOwner} \subseteq Tasks \cup {NoTask}
      /\ CanRead
  BY DEF Typed, TypeOK, CanRead
<1>2. \A t \in Tasks : freeOwner # t
  <2> SUFFICES ASSUME NEW t \in Tasks, freeOwner = t PROVE FALSE
    OBVIOUS
  <2>1. pc[t] \in {"allocRead", "allocFill", "sweep"}
    BY DEF Holders, Filling
  <2>2. CanMove(t) /\ t \in Inside
    BY <1>1, <2>1 DEF CanMove, Inside
  <2> QED BY <2>2
<1>3. freeOwner = NoTask
  BY <1>1, <1>2
<1>4. \A t \in Tasks : gcOwner # t
  <2> SUFFICES ASSUME NEW t \in Tasks, gcOwner = t PROVE FALSE
    OBVIOUS
  <2>1. pc[t] \in Collecting
    BY DEF Holders
  <2>2. CanMove(t) /\ t \in Inside
    BY <1>1, <1>3, <2>1 DEF CanMove, Inside, Collecting
  <2> QED BY <2>2
<1>5. gcOwner = NoTask
  BY <1>1, <1>4
<1>6. PICK t \in Tasks : pc[t] \notin {"head", "op"} /\ t \in Inside
  BY DEF Inside
<1>7. pc[t] # "allocWait"
  BY <1>6 DEF Holders
<1>8. CanMove(t)
  BY <1>1, <1>3, <1>5, <1>6, <1>7 DEF CanMove, Labels, Collecting, Allocating, Filling
<1> QED BY <1>6, <1>8

-----------------------------------------------------------------------------
(***************************************************************************)
(* What can be reached.                                                    *)
(***************************************************************************)

(***************************************************************************)
(* Induction on the natural numbers, for a set: a set that has 0, and with *)
(* every number its successor, has no number missing, for there would be a *)
(* least one.                                                              *)
(***************************************************************************)
LEMMA SetInduction ==
  ASSUME NEW S, 0 \in S, \A n \in Nat : n \in S => n + 1 \in S
  PROVE  Nat \subseteq S
<1> DEFINE T == Nat \ S
           R == OpToRel(<, Nat)
<1> SUFFICES ASSUME T # {} PROVE FALSE
  OBVIOUS
<1>1. IsWellFoundedOn(R, Nat)
  BY NatLessThanWellFounded
<1>2. \A x, y \in Nat : x < y => <<x, y>> \in R
  BY DEF OpToRel
<1> HIDE DEF R
<1>3. PICK n \in T : \A m \in T : <<m, n>> \notin R
  BY <1>1, WFMin
<1>4. n \in Nat /\ n # 0 /\ n - 1 \in Nat
  BY <1>3
<1>5. n - 1 \in S
  <2>1. n - 1 < n
    BY <1>4
  <2>2. <<n - 1, n>> \in R
    BY <1>2, <1>4, <2>1
  <2> QED BY <1>3, <1>4, <2>2
<1>6. n \in S
  BY <1>4, <1>5
<1> QED BY <1>3, <1>6

\* f iterates g on x0, N times.
Iterates(f, g, x0, N) == \A n \in 0..N : f[n] = IF n = 0 THEN x0 ELSE g[f[n - 1]]

(***************************************************************************)
(* A function that iterates another one exists.                            *)
(***************************************************************************)
LEMMA RecursiveFunction ==
  ASSUME NEW X, NEW g \in [X -> X], NEW x0 \in X, NEW N \in Nat
  PROVE  \E f : f \in [0..N -> X] /\ Iterates(f, g, x0, N)
<1> DEFINE S == {k \in Nat : \E f : f \in [0..k -> X] /\ Iterates(f, g, x0, k)}
<1>1. 0 \in S
  <2> DEFINE f == [n \in 0..0 |-> x0]
  <2>1. f \in [0..0 -> X] /\ Iterates(f, g, x0, 0)
    BY DEF Iterates
  <2> QED BY <2>1
<1>2. ASSUME NEW k \in Nat, k \in S PROVE k + 1 \in S
  <2>1. PICK f : f \in [0..k -> X] /\ Iterates(f, g, x0, k)
    BY <1>2
  <2> DEFINE h == [n \in 0..k + 1 |-> IF n = k + 1 THEN g[f[k]] ELSE f[n]]
  <2>2. h \in [0..k + 1 -> X]
    BY <2>1
  <2>3. \A n \in 0..k + 1 : h[n] = IF n = 0 THEN x0 ELSE g[h[n - 1]]
    <3> SUFFICES ASSUME NEW n \in 0..k + 1 PROVE h[n] = IF n = 0 THEN x0 ELSE g[h[n - 1]]
      OBVIOUS
    <3>1. CASE n = k + 1
      BY <2>1, <3>1
    <3>2. CASE n # k + 1
      <4>1. n \in 0..k /\ h[n] = f[n] /\ f[n] = IF n = 0 THEN x0 ELSE g[f[n - 1]]
        BY <2>1, <3>2 DEF Iterates
      <4>2. n # 0 => n - 1 \in 0..k + 1 /\ n - 1 # k + 1
        BY <4>1
      <4> QED BY <4>1, <4>2
    <3> QED BY <3>1, <3>2
  <2>4. Iterates(h, g, x0, k + 1)
    BY <2>3 DEF Iterates
  <2> HIDE DEF h
  <2> QED BY <2>2, <2>4
<1> HIDE DEF S
<1>3. N \in S
  BY <1>1, <1>2, SetInduction
<1> QED BY <1>3 DEF S

(***************************************************************************)
(* The steps in which ReachableOver reaches objects.                        *)
(***************************************************************************)
LEMMA ReachSteps ==
  ASSUME Typed, NEW edges \in [Ids -> SUBSET Ids], NEW xs \in SUBSET Ids
  PROVE  \E w : /\ w[0] = xs
               /\ \A n \in 1..MaxSlots :
                    w[n] = w[n - 1] \cup UNION {edges[x] : x \in w[n - 1] \cap occupied}
               /\ ReachableOver(edges, xs) = w[MaxSlots] \cap occupied
<1> DEFINE Refs(V) == UNION {edges[x] : x \in V \cap occupied}
           g == [V \in SUBSET Ids |-> V \cup Refs(V)]
           Reaches(w) == w = [n \in 0..MaxSlots |->
                                IF n = 0 THEN xs ELSE w[n - 1] \cup Refs(w[n - 1])]
           within == CHOOSE w : Reaches(w)
<1>1. MaxSlots \in Nat
  OBVIOUS
<1>2. g \in [SUBSET Ids -> SUBSET Ids]
  <2>1. \A x \in occupied : edges[x] \subseteq Ids
    BY DEF Typed, TypeOK, Ids
  <2> QED BY <2>1
<1>3. \E w : Reaches(w)
  <2>1. \A V \in SUBSET Ids : g[V] = V \cup Refs(V)
    OBVIOUS
  <2> HIDE DEF g, Refs
  <2>2. PICK w : w \in [0..MaxSlots -> SUBSET Ids] /\ Iterates(w, g, xs, MaxSlots)
    BY <1>1, <1>2, RecursiveFunction
  <2>3. \A n \in 0..MaxSlots : n # 0 => g[w[n - 1]] = w[n - 1] \cup Refs(w[n - 1])
    <3> SUFFICES ASSUME NEW n \in 0..MaxSlots, n # 0
                 PROVE  g[w[n - 1]] = w[n - 1] \cup Refs(w[n - 1])
      OBVIOUS
    <3>1. n - 1 \in 0..MaxSlots
      BY <1>1
    <3>2. w[n - 1] \in SUBSET Ids
      BY <2>2, <3>1
    <3> QED BY <2>1, <3>2
  <2>4. \A n \in 0..MaxSlots : w[n] = IF n = 0 THEN xs ELSE w[n - 1] \cup Refs(w[n - 1])
    BY <2>2, <2>3 DEF Iterates
  <2>5. Reaches(w)
    <3> DEFINE e(n) == IF n = 0 THEN xs ELSE w[n - 1] \cup Refs(w[n - 1])
    <3>1. \A n \in 0..MaxSlots : w[n] = e(n)
      BY <2>4
    <3> HIDE DEF e
    <3>2. w = [n \in 0..MaxSlots |-> e(n)]
      BY <2>2, <3>1
    <3> QED BY <3>2 DEF e
  <2> QED BY <2>5
<1>4. ReachableOver(edges, xs) = within[MaxSlots] \cap occupied
  BY DEF ReachableOver
<1>5. Reaches(within)
  BY <1>3
<1> HIDE DEF within, Refs
<1>6. within[0] = xs
  BY <1>1, <1>5
<1>7. \A n \in 1..MaxSlots : within[n] = within[n - 1] \cup Refs(within[n - 1])
  <2> DEFINE e(n) == IF n = 0 THEN xs ELSE within[n - 1] \cup Refs(within[n - 1])
  <2>1. within = [n \in 0..MaxSlots |-> e(n)]
    BY <1>5
  <2> HIDE DEF e
  <2>2. \A n \in 0..MaxSlots : within[n] = e(n)
    BY <2>1
  <2>3. \A n \in 1..MaxSlots : n \in 0..MaxSlots /\ n # 0
    BY <1>1
  <2> QED BY <2>2, <2>3 DEF e
<1> QED BY <1>4, <1>6, <1>7 DEF Refs

(***************************************************************************)
(* What ReachableOver reaches is closed under the edges, as MaxSlots       *)
(* steps are enough: each reaches another object or is the last that does; *)
(* and it is the least such set.                                           *)
(***************************************************************************)
LEMMA ReachableFacts ==
  ASSUME Typed, NEW edges \in [Ids -> SUBSET Ids], NEW xs \in SUBSET Ids
  PROVE  /\ xs \cap occupied \subseteq ReachableOver(edges, xs)
         /\ \A x \in ReachableOver(edges, xs) : edges[x] \cap occupied \subseteq ReachableOver(edges, xs)
         /\ \A M : (/\ xs \cap occupied \subseteq M
                   /\ \A x \in M \cap occupied : edges[x] \cap occupied \subseteq M)
                  => ReachableOver(edges, xs) \subseteq M
<1>1. PICK w : /\ w[0] = xs
               /\ \A n \in 1..MaxSlots :
                    w[n] = w[n - 1] \cup UNION {edges[x] : x \in w[n - 1] \cap occupied}
               /\ ReachableOver(edges, xs) = w[MaxSlots] \cap occupied
  BY ReachSteps
<1> DEFINE V(n) == w[n] \cap occupied
           Closed(n) == \A x \in V(n) : edges[x] \cap occupied \subseteq V(n)
<1>2. MaxSlots \in Nat /\ V(0) = xs \cap occupied /\ ReachableOver(edges, xs) = V(MaxSlots)
  BY <1>1
<1>3. \A n \in Nat : n + 1 <= MaxSlots =>
        \A y : y \in V(n + 1) <=> y \in V(n) \/ (y \in occupied /\ \E x \in V(n) : y \in edges[x])
  <2> SUFFICES ASSUME NEW n \in Nat, n + 1 <= MaxSlots
               PROVE  \A y : y \in V(n + 1) <=>
                             y \in V(n) \/ (y \in occupied /\ \E x \in V(n) : y \in edges[x])
    OBVIOUS
  <2>1. n + 1 \in 1..MaxSlots /\ n + 1 - 1 = n
    BY <1>2
  <2>2. w[n + 1] = w[n] \cup UNION {edges[x] : x \in w[n] \cap occupied}
    BY <1>1, <2>1
  <2> QED BY <2>2
<1>4. /\ IsFiniteSet(occupied) /\ Cardinality(occupied) \in Nat /\ Cardinality(occupied) <= MaxSlots
      /\ \A n \in Nat :
               /\ IsFiniteSet(V(n)) /\ Cardinality(V(n)) \in Nat
               /\ Cardinality(V(n)) <= Cardinality(occupied)
               /\ Cardinality(V(n)) = Cardinality(occupied) => V(n) = occupied
  <2>1. occupied \subseteq 1..MaxSlots
    BY DEF Typed, TypeOK
  <2>2. IsFiniteSet(1..MaxSlots) /\ Cardinality(1..MaxSlots) = MaxSlots
    BY <1>2, FS_Interval
  <2>3. /\ IsFiniteSet(occupied) /\ Cardinality(occupied) \in Nat
        /\ Cardinality(occupied) <= MaxSlots
    BY <2>1, <2>2, FS_Subset, FS_CardinalityType
  <2>4. ASSUME NEW n \in Nat
        PROVE  /\ IsFiniteSet(V(n)) /\ Cardinality(V(n)) \in Nat
               /\ Cardinality(V(n)) <= Cardinality(occupied)
               /\ Cardinality(V(n)) = Cardinality(occupied) => V(n) = occupied
    <3>1. V(n) \subseteq occupied
      OBVIOUS
    <3> HIDE DEF V
    <3> QED BY <2>3, <3>1, FS_Subset, FS_CardinalityType
  <2> QED BY <2>3, <2>4
<1> HIDE DEF V
<1>5. xs \cap occupied \subseteq V(MaxSlots) /\ Closed(MaxSlots)
  <2> DEFINE Reaches(n) == /\ xs \cap occupied \subseteq V(n)
                           /\ Closed(n) \/ Cardinality(V(n)) >= n
             S == {n \in Nat : n <= MaxSlots => Reaches(n)}
  <2>1. 0 \in S
    <3>1. Cardinality(V(0)) \in Nat
      BY <1>4
    <3>2. Reaches(0)
      BY <1>2, <3>1
    <3> QED BY <3>2
  <2>2. ASSUME NEW n \in Nat, n \in S PROVE n + 1 \in S
    <3> SUFFICES ASSUME n + 1 <= MaxSlots PROVE Reaches(n + 1)
      OBVIOUS
    <3>1. Reaches(n)
      BY <1>2, <2>2
    <3>2. V(n) \subseteq V(n + 1)
      BY <1>3
    <3>3. CASE Closed(n)
      <4>1. V(n + 1) = V(n)
        BY <1>3, <3>3
      <4> QED BY <3>1, <3>3, <4>1
    <3>4. CASE ~Closed(n)
      <4>1. PICK x \in V(n) : \E y \in edges[x] \cap occupied : y \notin V(n)
        BY <3>4
      <4>2. PICK y \in edges[x] \cap occupied : y \notin V(n)
        BY <4>1
      <4>3. y \in V(n + 1)
        BY <1>3, <4>1, <4>2
      <4>4. Cardinality(V(n)) >= n
        BY <3>1, <3>4
      <4>5. Cardinality(V(n)) < Cardinality(V(n + 1))
        <5>1. /\ IsFiniteSet(V(n + 1)) /\ V(n) # V(n + 1)
              /\ Cardinality(V(n)) \in Nat /\ Cardinality(V(n + 1)) \in Nat
          <6>1. n + 1 \in Nat
            OBVIOUS
          <6> QED BY <1>4, <4>2, <4>3, <6>1
        <5>2. /\ Cardinality(V(n)) <= Cardinality(V(n + 1))
              /\ Cardinality(V(n)) # Cardinality(V(n + 1))
          BY <3>2, <5>1, FS_Subset
        <5> QED BY <5>1, <5>2
      <4>6. Cardinality(V(n + 1)) >= n + 1
        <5>1. n + 1 \in Nat /\ Cardinality(V(n)) \in Nat /\ Cardinality(V(n + 1)) \in Nat
          BY <1>4
        <5> QED BY <4>4, <4>5, <5>1
      <4> HIDE DEF Closed
      <4> QED BY <3>1, <3>2, <4>6
    <3> QED BY <3>3, <3>4
  <2> HIDE DEF S
  <2>3. MaxSlots \in S
    BY <1>2, <2>1, <2>2, SetInduction
  <2>4. Reaches(MaxSlots)
    BY <1>2, <2>3 DEF S
  <2>5. CASE Cardinality(V(MaxSlots)) >= MaxSlots
    <3>1. V(MaxSlots) = occupied
      <4>1. /\ Cardinality(V(MaxSlots)) \in Nat
            /\ Cardinality(V(MaxSlots)) <= Cardinality(occupied)
            /\ Cardinality(V(MaxSlots)) = Cardinality(occupied) => V(MaxSlots) = occupied
        BY <1>2, <1>4
      <4> QED BY <1>2, <1>4, <2>5, <4>1
    <3> QED BY <2>4, <3>1
  <2> QED BY <2>4, <2>5
<1>6. ASSUME NEW M, xs \cap occupied \subseteq M,
             \A x \in M \cap occupied : edges[x] \cap occupied \subseteq M
      PROVE  V(MaxSlots) \subseteq M
  <2> DEFINE S == {n \in Nat : n <= MaxSlots => V(n) \subseteq M}
  <2>1. 0 \in S
    BY <1>2, <1>6
  <2>2. ASSUME NEW n \in Nat, n \in S PROVE n + 1 \in S
    <3> SUFFICES ASSUME n + 1 <= MaxSlots, NEW y \in V(n + 1) PROVE y \in M
      OBVIOUS
    <3>1. V(n) \subseteq M /\ V(n) \subseteq occupied
      BY <1>2, <2>2 DEF V
    <3>2. y \in V(n) \/ (y \in occupied /\ \E x \in V(n) : y \in edges[x])
      BY <1>3
    <3> QED BY <1>6, <3>1, <3>2
  <2> HIDE DEF S
  <2>3. MaxSlots \in S
    BY <1>2, <2>1, <2>2, SetInduction
  <2> QED BY <1>2, <2>3 DEF S
<1> HIDE DEF V
<1> QED BY <1>2, <1>5, <1>6

(***************************************************************************)
(* What can be traced from the roots of a collection.                      *)
(***************************************************************************)
LEMMA WantedFacts ==
  ASSUME Typed, NEW t \in Tasks
  PROVE  /\ Wanted(t) \subseteq occupied
         /\ (stack[t] \cup globals \cup SleepingRoots) \cap occupied \subseteq Wanted(t)
         /\ \A x \in Wanted(t) : refs[x] \cap occupied \subseteq Wanted(t)
         /\ \A M : (/\ (stack[t] \cup globals \cup SleepingRoots) \cap occupied \subseteq M
                   /\ \A x \in M \cap occupied : refs[x] \cap occupied \subseteq M)
                  => Wanted(t) \subseteq M
<1> DEFINE xs == stack[t] \cup globals \cup SleepingRoots
<1>1. xs \in SUBSET Ids
  BY DEF Typed, TypeOK, SleepingRoots, Sleepers
<1>2. Wanted(t) = ReachableOver(refs, xs) /\ refs \in [Ids -> SUBSET Ids]
  BY DEF Wanted, TracedFrom, SleepingRoots, Typed, TypeOK
<1> HIDE DEF xs
<1>3. /\ ReachableOver(refs, xs) \subseteq occupied
      /\ xs \cap occupied \subseteq ReachableOver(refs, xs)
      /\ \A x \in ReachableOver(refs, xs) : refs[x] \cap occupied \subseteq ReachableOver(refs, xs)
      /\ \A M : (/\ xs \cap occupied \subseteq M
                /\ \A x \in M \cap occupied : refs[x] \cap occupied \subseteq M)
               => ReachableOver(refs, xs) \subseteq M
  <2>1. ReachableOver(refs, xs) \subseteq occupied
    BY ReachableIsOccupied DEF TracedFrom
  <2> QED BY <1>1, <1>2, <2>1, ReachableFacts
<1> QED BY <1>2, <1>3 DEF xs

(***************************************************************************)
(* It changes with the objects and the roots only.                         *)
(***************************************************************************)
LEMMA WantedStays ==
  ASSUME UNCHANGED <<refs, occupied, roots>>
  PROVE  \A t : Wanted(t)' = Wanted(t)
BY DEF Wanted, TracedFrom, ReachableOver, Sleepers, roots

-----------------------------------------------------------------------------
(***************************************************************************)
(* A collection that nobody disturbs.                                      *)
(***************************************************************************)

(***************************************************************************)
(* At first nothing is marked and nobody collects.                         *)
(***************************************************************************)
LEMMA ExactInit == Init => Exact
BY DEF Init, Exact, ExactOf

(***************************************************************************)
(* The steps of the other tasks disturb a collection or change nothing it  *)
(* has to do with.                                                         *)
(***************************************************************************)
LEMMA ExactBystander ==
  ASSUME Typed, Holders, Exact, Bystander PROVE Exact'
<1> SUFFICES ASSUME quiet', NEW s \in Tasks PROVE ExactOf(s)'
  BY DEF Exact
<1>1. CASE pc'[s] \notin Collecting
  BY <1>1 DEF ExactOf, Collecting
<1>2. CASE pc'[s] \in Collecting
  <2>1. pc[s] \in Collecting /\ pc'[s] = pc[s] /\ gcOwner = s
    BY <1>2 DEF Bystander, Holders
  <2>2. quiet /\ UNCHANGED <<occupied, refs, roots, collector, marked>>
    BY <2>1 DEF Bystander
  <2>3. ExactOf(s)
    BY <2>2 DEF Exact
  <2>4. Wanted(s)' = Wanted(s)
    BY <2>2, WantedStays
  <2>5. MarksExactly(s)' <=> MarksExactly(s)
    <3>1. UNCHANGED <<stack, globals, SleepingRoots>>
      BY <2>2 DEF SleepingRoots, Sleepers, roots
    <3> QED BY <2>2, <2>4, <3>1 DEF MarksExactly, Seen, collector
  <2>6. SweepsExactly(s)' <=> SweepsExactly(s)
    BY <2>2 DEF SweepsExactly, collector
  <2> QED BY <2>1, <2>2, <2>3, <2>5, <2>6 DEF ExactOf, collector
<1> QED BY <1>1, <1>2

(***************************************************************************)
(* A round of the worklist marks an object to keep, and has those it refers*)
(* to looked at.                                                           *)
(***************************************************************************)
LEMMA ExactMarkNext ==
  ASSUME Typed, NEW t \in Tasks, MarkNext(t), MarksExactly(t) PROVE MarksExactly(t)'
<1>1. UNCHANGED <<occupied, refs, roots, kept, todo, phase>>
  BY DEF MarkNext
<1>2. PICK x \in work[t] :
        \/ /\ x \in occupied \ marked /\ marked' = marked \cup {x}
           /\ work'[t] = (work[t] \ {x}) \cup refs[x]
        \/ /\ x \notin occupied \ marked /\ marked' = marked
           /\ work'[t] = work[t] \ {x}
  <2>1. work \in [Tasks -> SUBSET Ids]
    BY DEF Typed, TypeOK
  <2> QED BY <2>1 DEF MarkNext
<1>3. kept'[t] = Wanted(t)'
  BY <1>1, WantedStays DEF MarksExactly
<1>4. Seen(t)' \cap occupied \subseteq kept[t]
  <2>1. CASE x \in occupied \ marked
    <3>1. x \in Wanted(t) /\ kept[t] = Wanted(t)
      BY <1>2, <2>1 DEF MarksExactly, Seen
    <3>2. refs[x] \cap occupied \subseteq kept[t]
      BY <3>1, WantedFacts
    <3> QED BY <1>1, <1>2, <2>1, <3>1, <3>2 DEF MarksExactly, Seen
  <2>2. CASE x \notin occupied \ marked
    BY <1>1, <1>2, <2>2 DEF MarksExactly, Seen
  <2> QED BY <2>1, <2>2
<1>5. \A y \in marked' : refs[y] \cap occupied \subseteq marked' \cup work'[t]
  BY <1>2 DEF MarksExactly
<1>6. Seen(t) \cap occupied \subseteq Seen(t)'
  BY <1>1, <1>2 DEF Seen
<1>7. \A xs : xs \cap occupied \subseteq Seen(t) => xs \cap occupied \subseteq Seen(t)'
  BY <1>6
<1>8. /\ stack[t] \cap occupied \subseteq Seen(t)'
      /\ phase[t] # "own" => SleepingRoots \cap occupied \subseteq Seen(t)'
      /\ phase[t] = "globals" => globals \cap occupied \subseteq Seen(t)'
  BY <1>7 DEF MarksExactly
<1>9. UNCHANGED <<stack, globals, SleepingRoots>>
  BY <1>1 DEF SleepingRoots, Sleepers, roots
<1> QED BY <1>1, <1>3, <1>4, <1>5, <1>8, <1>9 DEF MarksExactly

(***************************************************************************)
(* Once all roots are taken from and the worklist is empty, what is marked *)
(* is what can be reached.                                                 *)
(***************************************************************************)
LEMMA MarkedAll ==
  ASSUME Typed, NEW t \in Tasks, MarksExactly(t), phase[t] = "globals",
         work[t] = {}, todo[t] = {}
  PROVE  marked = kept[t]
<1>1. marked \subseteq occupied /\ Seen(t) = marked
  BY DEF Typed, TypeOK, Seen
<1>2. marked \subseteq Wanted(t) /\ kept[t] = Wanted(t)
  BY <1>1 DEF MarksExactly
<1>3. (stack[t] \cup globals \cup SleepingRoots) \cap occupied \subseteq marked
  BY <1>1 DEF MarksExactly
<1>4. \A x \in marked \cap occupied : refs[x] \cap occupied \subseteq marked
  BY DEF MarksExactly
<1>5. Wanted(t) \subseteq marked
  BY <1>3, <1>4, WantedFacts
<1> QED BY <1>2, <1>5

(***************************************************************************)
(* The collecting task marks what is reachable and sweeps the rest away.   *)
(***************************************************************************)
LEMMA ExactCollect ==
  ASSUME Typed, Holders, NoStaleMarks, Exact, NEW t \in Tasks, Collect(t) PROVE Exact'
<1> USE DEF slots, locks, collector, alloc, Goto
<1>1. /\ pc \in [Tasks -> Labels] /\ kept \in [Tasks -> SUBSET Ids]
      /\ work \in [Tasks -> SUBSET Ids] /\ todo \in [Tasks -> SUBSET Ids]
      /\ at \in [Tasks -> 1..(MaxSlots + 1)] /\ phase \in [Tasks -> {"own", "sleepers", "globals"}]
      /\ total \in 1..MaxSlots /\ occupied \subseteq 1..total /\ marked \subseteq occupied
  BY DEF Typed, TypeOK
<1>2. UNCHANGED <<total, refs, roots>> /\ UNCHANGED <<stack, globals, SleepingRoots>>
  BY CollectorAlone DEF roots, SleepingRoots, Sleepers
<1>3. \A s \in Tasks \ {t} : ExactOf(s)'
  BY CollectorAlone DEF ExactOf, Collecting
<1>4. ASSUME quiet' PROVE ExactOf(t)'
  <2>1. CASE GcLock(t)
    BY <1>1, <2>1 DEF GcLock, ExactOf
  <2>2. CASE GcCheck(t)
    <3>1. CASE LiveCount < threshold
      BY <1>1, <2>2, <3>1 DEF GcCheck, ExactOf
    <3>2. CASE ~(LiveCount < threshold)
      <4>1. /\ pc'[t] = "mark" /\ phase'[t] = "own" /\ todo'[t] = stack[t]
            /\ kept'[t] = Wanted(t) /\ UNCHANGED <<work, occupied, marked>>
        BY <1>1, <2>2, <3>2 DEF GcCheck
      <4>2. work[t] = {} /\ marked = {}
        BY <1>1, <2>2, CollectorAlone DEF GcCheck, Holders, NoStaleMarks, Marking, Collecting
      <4>3. Wanted(t)' = Wanted(t)
        BY <1>2, <4>1, WantedStays
      <4>4. stack[t] \cap occupied \subseteq Wanted(t)
        BY WantedFacts
      <4>5. Seen(t)' = stack[t]
        BY <4>1, <4>2 DEF Seen
      <4>6. MarksExactly(t)'
        BY <1>2, <4>1, <4>2, <4>3, <4>4, <4>5 DEF MarksExactly
      <4> QED BY <4>1, <4>6 DEF ExactOf
    <3> QED BY <3>1, <3>2
  <2>3. ASSUME ~GcCheck(t) PROVE quiet /\ ExactOf(t)
    <3>1. UNCHANGED quiet
      BY <2>3 DEF Collect, GcLock, MarkRoot, MarkNext, NextRoots, SweepRead, SweepLock,
                  SweepSlot, SweepEnd, GcEnd
    <3> QED BY <1>4, <3>1 DEF Exact
  <2>4. CASE MarkRoot(t)
    <3>1. /\ pc[t] = "mark" /\ pc'[t] = "mark" /\ work[t] = {}
          /\ UNCHANGED <<occupied, marked, kept, phase>>
      BY <1>1, <2>4 DEF MarkRoot
    <3>2. PICK x \in todo[t] : todo'[t] = todo[t] \ {x} /\ work'[t] = {x}
      BY <1>1, <2>4 DEF MarkRoot
    <3>3. Seen(t)' = Seen(t) /\ work[t] \subseteq work'[t]
      BY <3>1, <3>2 DEF Seen
    <3>4. Wanted(t)' = Wanted(t)
      BY <1>2, <3>1, WantedStays
    <3>5. MarksExactly(t)
      BY <2>3, <3>1 DEF ExactOf, MarkRoot, GcCheck
    <3>6. MarksExactly(t)'
      BY <1>2, <3>1, <3>3, <3>4, <3>5 DEF MarksExactly
    <3> QED BY <3>1, <3>6 DEF ExactOf
  <2>5. CASE MarkNext(t)
    <3>1. pc[t] = "mark" /\ pc'[t] = "mark"
      BY <1>1, <2>5 DEF MarkNext
    <3>2. MarksExactly(t)
      BY <2>3, <3>1 DEF ExactOf, GcCheck
    <3>3. MarksExactly(t)'
      BY <2>5, <3>2, ExactMarkNext
    <3> QED BY <3>1, <3>3 DEF ExactOf
  <2>6. CASE NextRoots(t)
    <3>1. /\ pc[t] = "mark" /\ work[t] = {} /\ todo[t] = {}
          /\ UNCHANGED <<occupied, marked, kept, work>>
      BY <2>6 DEF NextRoots
    <3>2. MarksExactly(t)
      BY <2>3, <3>1 DEF ExactOf, GcCheck
    <3>3. CASE phase[t] = "globals"
      <4>1. pc'[t] = "sweepRead"
        BY <1>1, <2>6, <3>3 DEF NextRoots
      <4>2. marked = kept[t]
        BY <3>1, <3>2, <3>3, MarkedAll
      <4> QED BY <3>1, <4>1, <4>2 DEF ExactOf
    <3>4. CASE phase[t] # "globals"
      <4>1. /\ pc'[t] = "mark"
            /\ \/ phase[t] = "own" /\ phase'[t] = "sleepers" /\ todo'[t] = SleepingRoots
               \/ phase[t] = "sleepers" /\ phase'[t] = "globals" /\ todo'[t] = globals
        <5>1. CASE phase[t] = "own"
          BY <1>1, <2>6, <5>1 DEF NextRoots, SleepingRoots
        <5>2. CASE phase[t] = "sleepers"
          BY <1>1, <2>6, <5>2 DEF NextRoots
        <5> QED BY <1>1, <3>4, <5>1, <5>2
      <4>2. Wanted(t)' = Wanted(t)
        BY <1>2, <3>1, WantedStays
      <4>3. Seen(t) = marked /\ Seen(t)' = marked \cup todo'[t]
        BY <3>1 DEF Seen
      <4>4. todo'[t] \cap occupied \subseteq Wanted(t)
        BY <4>1, WantedFacts
      <4>5. MarksExactly(t)'
        BY <1>2, <3>1, <3>2, <4>1, <4>2, <4>3, <4>4 DEF MarksExactly
      <4> QED BY <4>1, <4>5 DEF ExactOf
    <3> QED BY <3>3, <3>4
  <2>7. CASE SweepRead(t)
    <3>1. pc[t] = "sweepRead" /\ pc'[t] = "sweepLock" /\ UNCHANGED <<marked, kept>>
      BY <1>1, <2>7 DEF SweepRead
    <3> QED BY <2>3, <3>1 DEF ExactOf, GcCheck
  <2>8. CASE SweepLock(t)
    <3>1. /\ pc[t] = "sweepLock" /\ pc'[t] = "sweep" /\ at'[t] = 1
          /\ UNCHANGED <<occupied, marked, kept>>
      BY <1>1, <2>8 DEF SweepLock
    <3>2. marked = kept[t]
      BY <2>3, <3>1 DEF ExactOf, GcCheck
    <3>3. \A x \in occupied : x \in Nat /\ x >= 1
      BY <1>1
    <3>4. SweepsExactly(t)'
      <4>1. kept[t] \subseteq occupied /\ marked = {x \in kept[t] : x >= 1}
        BY <1>1, <3>2, <3>3
      <4>2. \A x \in occupied : ~(x < 1)
        BY <3>3
      <4> QED BY <3>1, <4>1, <4>2 DEF SweepsExactly
    <3> QED BY <3>1, <3>4 DEF ExactOf
  <2>9. CASE SweepSlot(t)
    <3>1. /\ pc[t] = "sweep" /\ pc'[t] = "sweep" /\ UNCHANGED kept
          /\ at'[t] = at[t] + 1 /\ at[t] \in Nat
      BY <1>1, <2>9 DEF SweepSlot
    <3>2. \/ at[t] \in marked /\ marked' = marked \ {at[t]} /\ occupied' = occupied
          \/ UNCHANGED marked /\ occupied' = occupied \ {at[t]} /\ at[t] \notin marked
          \/ at[t] \notin occupied /\ UNCHANGED <<marked, occupied>>
      BY <2>9 DEF SweepSlot
    <3>3. SweepsExactly(t)
      BY <2>3, <3>1 DEF ExactOf, GcCheck
    <3>4. \A x \in occupied \cup kept[t] : x \in Nat
      <4>1. kept[t] \subseteq occupied
        BY <3>3 DEF SweepsExactly
      <4>2. \A x \in occupied : x \in Nat
        BY <1>1
      <4> QED BY <4>1, <4>2
    <3>5. at[t] \in kept[t] <=> at[t] \in marked
      BY <3>1, <3>3 DEF SweepsExactly
    <3>6. kept[t] \subseteq occupied'
      BY <3>2, <3>3, <3>5 DEF SweepsExactly
    <3>7. marked' = {x \in kept[t] : x >= at[t] + 1}
      <4>1. marked' = marked \ {at[t]}
        BY <1>1, <3>2
      <4>2. marked = {x \in kept[t] : x >= at[t]}
        BY <3>3 DEF SweepsExactly
      <4> QED BY <3>1, <3>4, <4>1, <4>2
    <3>8. \A x \in occupied' : x < at[t] + 1 => x \in kept[t]
      <4> SUFFICES ASSUME NEW x \in occupied', x < at[t] + 1 PROVE x \in kept[t]
        OBVIOUS
      <4>1. x \in occupied /\ x \in Nat /\ (x = at[t] => at[t] \in marked)
        BY <3>2, <3>4
      <4>2. CASE x = at[t]
        BY <3>5, <4>1, <4>2
      <4>3. CASE x # at[t]
        BY <3>1, <3>3, <4>1, <4>3 DEF SweepsExactly
      <4> QED BY <4>2, <4>3
    <3>9. SweepsExactly(t)'
      BY <3>1, <3>6, <3>7, <3>8 DEF SweepsExactly
    <3> QED BY <3>1, <3>9 DEF ExactOf
  <2>10. CASE SweepEnd(t)
    <3>1. /\ pc[t] = "sweep" /\ pc'[t] = "swept" /\ UNCHANGED <<occupied, kept>>
          /\ at[t] > total /\ at[t] \in Nat
      BY <1>1, <2>10 DEF SweepEnd
    <3>2. SweepsExactly(t)
      BY <2>3, <3>1 DEF ExactOf, GcCheck
    <3>3. \A x \in occupied : x < at[t]
      BY <1>1, <3>1
    <3>4. occupied = kept[t]
      BY <3>2, <3>3 DEF SweepsExactly
    <3> QED BY <3>1, <3>4 DEF ExactOf
  <2>11. CASE GcEnd(t)
    BY <1>1, <2>11 DEF GcEnd, ExactOf
  <2> QED BY <2>1, <2>2, <2>4, <2>5, <2>6, <2>7, <2>8, <2>9, <2>10, <2>11 DEF Collect
<1> QED BY <1>3, <1>4 DEF Exact

-----------------------------------------------------------------------------
(***************************************************************************)
(* The invariant, and what follows from it.                                *)
(***************************************************************************)

(***************************************************************************)
(* IInv is inductive.                                                      *)
(***************************************************************************)
THEOREM Invariant == Spec => []IInv
<1>1. Init => IInv
  BY TypedInit, HoldersInit, SlotsInit, OwnRootsInit, ExactInit DEF IInv
<1>2. IInv /\ [Next]_vars => IInv'
  <2> SUFFICES ASSUME IInv, [Next]_vars PROVE IInv'
    OBVIOUS
  <2> USE DEF IInv
  <2>1. Typed' /\ Holders'
    BY TypedNext, HoldersNext
  <2>2. SlotsApart' /\ SlotsAccountedFor'
    BY SlotsNext
  <2>3. OwnRoots' /\ NoStaleMarks'
    BY OwnRootsNext, NoStaleMarksNext
  <2>4. Exact'
    BY BystanderNext, ExactBystander, ExactCollect
  <2> QED BY <2>1, <2>2, <2>3, <2>4
<1> QED BY <1>1, <1>2, PTL DEF Spec

(***************************************************************************)
(* The variables keep their types (heap.rs, vm.rs).                        *)
(***************************************************************************)
THEOREM TypesHold == Spec => []TypeOK
<1>1. IInv => TypeOK
  BY DEF IInv, Typed
<1> QED BY <1>1, Invariant, PTL

(***************************************************************************)
(* No slot is lost or handed out twice (heap.rs, alloc and sweep).         *)
(***************************************************************************)
THEOREM NoSlotIsLost == Spec => []SlotsAccountedFor
<1>1. IInv => SlotsAccountedFor
  BY DEF IInv
<1> QED BY <1>1, Invariant, PTL

(***************************************************************************)
(* A collection frees nothing that its own task has on its stack or runs   *)
(* as the closure of a frame (vm.rs, trigger_gc), whatever the others do.  *)
(***************************************************************************)
THEOREM CollectionKeepsOwnRoots == Spec => []OwnRootsSurvive
<1>1. IInv => OwnRootsSurvive
  BY DEF IInv, OwnRoots, OwnRootsOf, OwnRootsSurvive
<1> QED BY <1>1, Invariant, PTL

(***************************************************************************)
(* A collection that nobody disturbs frees exactly what cannot be traced   *)
(* from its roots over direct references (heap.rs, mark and sweep),        *)
(* whatever the graph of these is.                                         *)
(***************************************************************************)
THEOREM QuietCollectionsAreExact == Spec => []QuietCollectionExact
<1>1. IInv => QuietCollectionExact
  <2> SUFFICES ASSUME IInv, NEW t \in Tasks, pc[t] = "swept", quiet
               PROVE  occupied = kept[t] /\ marked = {}
    BY DEF QuietCollectionExact
  <2>1. occupied = kept[t]
    BY DEF IInv, Exact, ExactOf
  <2>2. \A s \in Tasks : pc[s] \in Collecting => s = t
    BY DEF IInv, Holders, Collecting
  <2>3. marked = {}
    BY <2>2 DEF IInv, NoStaleMarks, Marking, Collecting
  <2> QED BY <2>1, <2>3
<1> QED BY <1>1, Invariant, PTL

(***************************************************************************)
(* Operations on the heap wait for each other for good only while a task   *)
(* waits to extend it (heap.rs, the write of chunks in alloc).             *)
(***************************************************************************)
THEOREM OnlyGrowthJams == Spec => []JamsNeedGrowth
<1>1. IInv => JamsNeedGrowth
  BY NoJam DEF IInv
<1> QED BY <1>1, Invariant, PTL

-----------------------------------------------------------------------------
(***************************************************************************)
(* What the roots of trigger_gc are enough for.                            *)
(***************************************************************************)

\* A task that does not run is between two instructions.
Parked == \A t \in Tasks : place[t] # "running" => pc[t] = "head"

\* Nothing refers to a free slot.
Whole ==
    /\ globals \subseteq occupied
    /\ \A t \in Tasks : stack[t] \cup deferred[t] \subseteq occupied
    /\ \A x \in occupied : Holds(x) \subseteq occupied

\* A collection that has begun, and what it keeps.
Reclaiming == Collecting \ {"gcCheck"}
KeepsAll(t) ==
    /\ quiet
    /\ globals \subseteq kept[t]
    /\ \A s \in Tasks : stack[s] \cup deferred[s] \subseteq kept[t]
    /\ \A x \in kept[t] : Holds(x) \subseteq kept[t]

(***************************************************************************)
(* During a collection the heap is not Whole: what is to be freed may      *)
(* refer to what has been freed.  What is kept does not.                   *)
(***************************************************************************)
Sound ==
    /\ Parked
    /\ (\A t \in Tasks : pc[t] \notin Reclaiming) => Whole
    /\ \A t \in Tasks : pc[t] \in Reclaiming => KeepsAll(t)

(***************************************************************************)
(* A task moves itself only, and it runs when it does.                     *)
(***************************************************************************)
LEMMA OwnSteps ==
  ASSUME Typed, Holders, Parked, NEW t \in Tasks,
         StartInstruction(t) \/ Collect(t) \/ Alloc(t) \/ Execute(t)
  PROVE  /\ place[t] = "running"
         /\ \A s \in Tasks \ {t} : pc'[s] = pc[s]
         /\ place' = place \/ (Park(t) /\ pc'[t] = "head"
                               /\ \A s \in Tasks \ {t} : place'[s] = place[s])
<1> USE DEF slots, locks, roots, collector, alloc, Goto
<1>1. pc \in [Tasks -> Labels] /\ place \in [Tasks -> {"running", "queued", "sleeping"}]
  BY DEF Typed, TypeOK
<1>2. CASE StartInstruction(t)
  BY <1>1, <1>2 DEF StartInstruction
<1>3. CASE Collect(t)
  <2>1. pc[t] # "head"
    BY <1>3 DEF Collect, GcLock, GcCheck, MarkRoot, MarkNext, NextRoots, SweepRead,
                SweepLock, SweepSlot, SweepEnd, GcEnd
  <2> QED BY <1>3, <2>1, CollectorAlone DEF Parked
<1>4. CASE Alloc(t)
  <2>1. pc[t] # "head"
    BY <1>4 DEF Alloc, AllocPop, AllocMiss, AllocRead, AllocFill, AllocAsk, AllocGrow
  <2>2. \A s \in Tasks \ {t} : pc'[s] = pc[s]
    BY <1>1, <1>4 DEF Alloc, AllocPop, AllocMiss, AllocRead, AllocFill, AllocAsk,
                      AllocGrow, Born, Done
  <2>3. place' = place
    BY <1>4 DEF Alloc, AllocPop, AllocMiss, AllocRead, AllocFill, AllocAsk, AllocGrow
  <2> QED BY <2>1, <2>2, <2>3 DEF Parked
<1>5. CASE Execute(t)
  <2>1. pc[t] # "head"
    BY <1>5 DEF Execute, Executes, GetField, SetField, LoadGlobal, StoreGlobal, Pop,
                PrintOuter, PrintInner, DeferCall, Return, Allocate, CreateEntry, Park
  <2>2. \A s \in Tasks \ {t} : pc'[s] = pc[s]
    BY <1>1, <1>5 DEF Execute, GetField, SetField, LoadGlobal, StoreGlobal, Pop,
                      PrintOuter, PrintInner, DeferCall, Return, Allocate, CreateEntry, Park, Done
  <2>3. CASE Park(t)
    BY <1>1, <2>1, <2>2, <2>3 DEF Park, Done, Parked
  <2>4. CASE ~Park(t)
    <3>1. place' = place
      BY <1>5, <2>4 DEF Execute, GetField, SetField, LoadGlobal, StoreGlobal, Pop,
                        PrintOuter, PrintInner, DeferCall, Return, Allocate, CreateEntry
    <3> QED BY <2>1, <2>2, <3>1 DEF Parked
  <2> QED BY <2>3, <2>4
<1> QED BY <1>2, <1>3, <1>4, <1>5

(***************************************************************************)
(* A task that does not run stands between two instructions: it is neither *)
(* in a collection nor in the construction of an object.                   *)
(***************************************************************************)
LEMMA ParkedNext ==
  ASSUME Typed, Holders, Parked, [Next]_vars PROVE Parked'
<1>1. ASSUME NEW t \in Tasks, StartInstruction(t) \/ Collect(t) \/ Alloc(t) \/ Execute(t)
      PROVE  Parked'
  BY <1>1, OwnSteps DEF Parked
<1>2. ASSUME NEW t \in Tasks, Resume(t) \/ Wake(t) PROVE Parked'
  <2>1. pc' = pc /\ place[t] # "running"
    BY <1>2 DEF Resume, Wake
  <2>2. \A s \in Tasks \ {t} : place'[s] = place[s]
    BY <1>2 DEF Resume, Wake, Typed, TypeOK
  <2> QED BY <2>1, <2>2 DEF Parked
<1>3. ASSUME UNCHANGED vars PROVE Parked'
  BY <1>3 DEF vars, roots, Parked
<1> QED BY <1>1, <1>2, <1>3 DEF Next

(***************************************************************************)
(* While the others sleep, the collecting task is the only one that moves. *)
(***************************************************************************)
LEMMA OnlyCollects ==
  ASSUME Typed, Holders, Parked, CollectsAlone, CollectsAlone', Next,
         NEW t \in Tasks, pc[t] \in Collecting
  PROVE  Collect(t)
<1>1. \A s \in Tasks \ {t} : place[s] = "sleeping"
  BY DEF CollectsAlone
<1>2. place[t] = "running"
  BY DEF Parked, Collecting
<1>3. PICK u \in Tasks : \/ StartInstruction(u) \/ Collect(u) \/ Alloc(u) \/ Execute(u)
                         \/ Resume(u) \/ Wake(u)
  BY DEF Next
<1>4. ASSUME Resume(u) \/ Wake(u) PROVE FALSE
  <2>1. pc' = pc /\ place[u] # "running" /\ place'[u] # "sleeping"
    BY <1>4 DEF Resume, Wake, Typed, TypeOK
  <2>2. u # t
    BY <1>2, <2>1
  <2> QED BY <2>1, <2>2 DEF CollectsAlone
<1>5. u = t
  BY <1>1, <1>3, <1>4, OwnSteps
<1>6. ~StartInstruction(t) /\ ~Alloc(t) /\ ~Execute(t)
  BY DEF Collecting, StartInstruction, Alloc, AllocPop, AllocMiss, AllocRead, AllocFill,
         AllocAsk, AllocGrow, Execute, Executes, GetField, SetField, LoadGlobal,
         StoreGlobal, Pop, PrintOuter, PrintInner, DeferCall, Return, Allocate, CreateEntry, Park
<1> QED BY <1>3, <1>4, <1>5, <1>6

(***************************************************************************)
(* The slots in use are among those there can be.                          *)
(***************************************************************************)
LEMMA IdsInUse ==
  ASSUME Typed
  PROVE  /\ stack \in [Tasks -> SUBSET Ids] /\ deferred \in [Tasks -> SUBSET Ids]
         /\ refs \in [Ids -> SUBSET Ids] /\ inner \in [Ids -> SUBSET Ids]
         /\ occupied \subseteq Ids
         /\ \A t \in Tasks : hand[t] # 0 => hand[t] \in Ids
<1>1. /\ total \in 1..MaxSlots /\ occupied \subseteq 1..total
      /\ hand \in [Tasks -> 0..total]
      /\ stack \in [Tasks -> SUBSET Ids] /\ deferred \in [Tasks -> SUBSET Ids]
      /\ refs \in [Ids -> SUBSET Ids] /\ inner \in [Ids -> SUBSET Ids]
  BY DEF Typed, TypeOK
<1>2. 1..total \subseteq Ids /\ \A h \in 0..total : h # 0 => h \in Ids
  BY <1>1 DEF Ids
<1> QED BY <1>1, <1>2

(***************************************************************************)
(* The program keeps the heap whole: it stores and pushes only what it     *)
(* has, and a new object refers to such ones.                              *)
(***************************************************************************)
LEMMA WholeBorn ==
  ASSUME Typed, Holders, Whole, NEW t \in Tasks, pc[t] # "head",
         NEW x \in Ids, Born(t, x), globals' = globals, deferred' = deferred
  PROVE  Whole'
<1>1. /\ \A s \in Tasks \ {t} : stack'[s] = stack[s]
      /\ stack'[t] \in {stack[t], stack[t] \cup {x}}
      /\ occupied' = occupied \cup {x}
  BY BornTypes
<1>2. \A y \in occupied' : Holds(y)' \subseteq occupied'
  <2>1. /\ refs \in [Ids -> SUBSET Ids] /\ inner \in [Ids -> SUBSET Ids]
        /\ occupied \subseteq Ids /\ stack[t] \in SUBSET Ids
    BY IdsInUse
  <2>2. CASE into[t] = NoSlot
    <3>1. PICK ys \in {{}} \cup {{y} : y \in stack[t]} : Store(x, ys)
      BY <2>2 DEF Born
    <3>2. ys \subseteq occupied
      BY <3>1 DEF Whole
    <3>3. Holds(x)' = ys /\ \A z \in Ids \ {x} : Holds(z)' = Holds(z)
      BY <2>1, <3>1, <3>2, StoreTypes
    <3> QED BY <1>1, <2>1, <3>2, <3>3 DEF Whole
  <2>3. CASE into[t] # NoSlot
    <3>1. /\ refs' = [refs EXCEPT ![x] = {}, ![into[t]] = {x}]
          /\ inner' = [inner EXCEPT ![x] = {}, ![into[t]] = {}]
      BY <2>3 DEF Born
    <3>2. \A z \in occupied' : Holds(z)' \subseteq Holds(z) \cup {x} \/ z = x
      BY <1>1, <2>1, <3>1 DEF Holds
    <3>3. Holds(x)' \subseteq {x}
      BY <2>1, <3>1 DEF Holds
    <3> QED BY <1>1, <3>2, <3>3 DEF Whole
  <2> QED BY <2>2, <2>3
<1> QED BY <1>1, <1>2 DEF Whole

(***************************************************************************)
(* A step outside a collection brings no identifier into a root or an      *)
(* object but of an object that is there.                                  *)
(***************************************************************************)
LEMMA WholeNext ==
  ASSUME Typed, Holders, SlotsApart, Whole, NEW t \in Tasks,
         StartInstruction(t) \/ Alloc(t) \/ Execute(t) \/ Resume(t) \/ Wake(t)
  PROVE  Whole'
<1> USE DEF slots, locks, roots, collector, alloc
<1>1. /\ stack \in [Tasks -> SUBSET Ids] /\ deferred \in [Tasks -> SUBSET Ids]
      /\ refs \in [Ids -> SUBSET Ids] /\ inner \in [Ids -> SUBSET Ids]
      /\ occupied \subseteq Ids
  BY IdsInUse
<1>2. ASSUME UNCHANGED <<occupied, refs, inner, globals>>,
             NEW xs, xs \subseteq occupied, stack' = [stack EXCEPT ![t] = xs],
             NEW ds, ds \subseteq occupied, deferred' = [deferred EXCEPT ![t] = ds]
      PROVE  Whole'
  BY <1>1, <1>2 DEF Whole, Holds
<1>3. ASSUME UNCHANGED <<occupied, refs, inner, globals, stack, deferred>> PROVE Whole'
  BY <1>3 DEF Whole, Holds
<1>7. ASSUME UNCHANGED <<occupied, refs, inner, globals, deferred>>,
             NEW xs, xs \subseteq occupied, stack' = [stack EXCEPT ![t] = xs]
      PROVE  Whole'
  BY <1>1, <1>7 DEF Whole, Holds
<1>4. CASE StartInstruction(t) \/ Resume(t) \/ Wake(t)
  BY <1>3, <1>4 DEF StartInstruction, Resume, Wake
<1>5. CASE Alloc(t)
  <2>1. CASE AllocFill(t)
    <3>1. hand[t] \in Ids
      <4>1. hand[t] # NoSlot
        BY <2>1 DEF AllocFill, Holders, Filling
      <4> QED BY <4>1, IdsInUse DEF NoSlot
    <3> QED BY <2>1, <3>1, WholeBorn DEF AllocFill
  <2>2. CASE AllocGrow(t)
    <3>1. total + 1 \in Ids
      BY <2>2 DEF AllocGrow, Typed, TypeOK, Ids
    <3> QED BY <2>2, <3>1, WholeBorn DEF AllocGrow
  <2>3. CASE AllocPop(t) \/ AllocMiss(t) \/ AllocRead(t) \/ AllocAsk(t)
    BY <1>3, <2>3 DEF AllocPop, AllocMiss, AllocRead, AllocAsk
  <2> QED BY <1>5, <2>1, <2>2, <2>3 DEF Alloc
<1>6. CASE Execute(t)
  <2> USE DEF OnStack
  <2>1. CASE GetField(t)
    <3>1. PICK x \in Live(t) : \E y \in Holds(x) : OnStack(t, stack[t] \cup {y})
      BY <2>1 DEF GetField
    <3>2. PICK y \in Holds(x) : stack' = [stack EXCEPT ![t] = stack[t] \cup {y}]
      BY <3>1
    <3>3. stack[t] \cup {y} \subseteq occupied
      BY <3>1, <3>2 DEF Live, Whole
    <3>4. UNCHANGED <<occupied, refs, inner, globals, deferred>>
      BY <2>1 DEF GetField
    <3> QED BY <1>7, <3>2, <3>3, <3>4
  <2>2. CASE SetField(t)
    <3>1. PICK x \in Live(t), y \in stack[t] : Store(x, {y})
      BY <2>2 DEF SetField
    <3>2. UNCHANGED <<occupied, globals, stack, deferred>>
      BY <2>2 DEF SetField
    <3>3. x \in Ids /\ {y} \in SUBSET Ids /\ {y} \subseteq occupied
      BY <1>1, <3>1 DEF Live, Whole
    <3>4. Holds(x)' = {y} /\ \A z \in Ids \ {x} : Holds(z)' = Holds(z)
      BY <3>1, <3>3, StoreTypes
    <3> QED BY <1>1, <3>2, <3>3, <3>4 DEF Whole
  <2>3. CASE LoadGlobal(t)
    <3>1. stack[t] \cup globals \subseteq occupied
      BY DEF Whole
    <3> QED BY <1>7, <2>3, <3>1 DEF LoadGlobal
  <2>4. CASE StoreGlobal(t)
    <3>1. PICK x \in stack[t] : /\ globals' = {x}
                                /\ stack' = [stack EXCEPT ![t] = stack[t] \ {x}]
      BY <2>4 DEF StoreGlobal
    <3>2. UNCHANGED <<occupied, refs, inner, deferred>>
      BY <2>4 DEF StoreGlobal
    <3> QED BY <1>1, <3>1, <3>2 DEF Whole, Holds
  <2>5. CASE Pop(t)
    <3>1. PICK x \in stack[t] : stack' = [stack EXCEPT ![t] = stack[t] \ {x}]
      BY <2>5 DEF Pop
    <3>2. stack[t] \ {x} \subseteq occupied
      BY DEF Whole
    <3> QED BY <1>7, <2>5, <3>1, <3>2 DEF Pop
  <2>6. CASE DeferCall(t)
    <3>1. PICK x \in stack[t] : /\ deferred' = [deferred EXCEPT ![t] = deferred[t] \cup {x}]
                                /\ \/ stack' = [stack EXCEPT ![t] = stack[t]]
                                   \/ stack' = [stack EXCEPT ![t] = stack[t] \ {x}]
      BY <2>6 DEF DeferCall
    <3>2. /\ deferred[t] \cup {x} \subseteq occupied /\ stack[t] \subseteq occupied
          /\ stack[t] \ {x} \subseteq occupied
      BY DEF Whole
    <3>3. UNCHANGED <<occupied, refs, inner, globals>>
      BY <2>6 DEF DeferCall
    <3> QED BY <1>2, <3>1, <3>2, <3>3
  <2>7. CASE Return(t)
    <3>1. PICK x \in deferred[t] : /\ deferred' = [deferred EXCEPT ![t] = deferred[t] \ {x}]
                                   /\ stack' = [stack EXCEPT ![t] = stack[t] \cup {x}]
      BY <2>7 DEF Return
    <3>2. deferred[t] \ {x} \subseteq occupied /\ stack[t] \cup {x} \subseteq occupied
      BY DEF Whole
    <3>3. UNCHANGED <<occupied, refs, inner, globals>>
      BY <2>7 DEF Return
    <3> QED BY <1>2, <3>1, <3>2, <3>3
  <2>8. CASE \/ PrintOuter(t) \/ PrintInner(t) \/ Allocate(t) \/ CreateEntry(t) \/ Park(t)
    BY <1>3, <2>8 DEF PrintOuter, PrintInner, Allocate, CreateEntry, Park
  <2> QED BY <1>6, <2>1, <2>2, <2>3, <2>4, <2>5, <2>6, <2>7, <2>8 DEF Execute
<1> QED BY <1>4, <1>5, <1>6

(***************************************************************************)
(* While the heap is whole, all that a root or a reachable object refers   *)
(* to is reachable, whichever way; and so is what can be traced.           *)
(***************************************************************************)
LEMMA AllReachable ==
  ASSUME Typed, Whole
  PROVE  /\ AllRoots \subseteq ReachableFrom(AllRoots)
         /\ \A x \in ReachableFrom(AllRoots) : Holds(x) \subseteq ReachableFrom(AllRoots)
         /\ TracedFrom(StackRoots) \subseteq ReachableFrom(AllRoots)
<1> DEFINE edges == [x \in Ids |-> Holds(x)]
           M == ReachableOver(edges, AllRoots)
<1>1. /\ edges \in [Ids -> SUBSET Ids] /\ refs \in [Ids -> SUBSET Ids] /\ occupied \subseteq Ids
      /\ \A x \in Ids : edges[x] = Holds(x) /\ refs[x] \subseteq Holds(x)
  BY IdsInUse DEF Holds
<1>2. AllRoots \subseteq occupied /\ StackRoots \subseteq AllRoots
  BY DEF AllRoots, StackRoots, Whole
<1>3. ReachableFrom(AllRoots) = M
  BY DEF ReachableFrom
<1>4. M \subseteq occupied
  BY <1>3, ReachableIsOccupied
<1> HIDE DEF edges
<1>5. /\ AllRoots \in SUBSET Ids /\ StackRoots \in SUBSET Ids
      /\ AllRoots \cap occupied \subseteq M
      /\ \A x \in M : edges[x] \cap occupied \subseteq M
  <2>1. AllRoots \in SUBSET Ids /\ StackRoots \in SUBSET Ids
    BY <1>1, <1>2
  <2> QED BY <1>1, <2>1, ReachableFacts
<1> HIDE DEF M
<1>6. \A x \in M : Holds(x) \subseteq M
  BY <1>1, <1>4, <1>5 DEF Whole
<1>7. ReachableOver(refs, StackRoots) \subseteq M
  <2>1. StackRoots \cap occupied \subseteq M
    BY <1>2, <1>5
  <2>2. \A x \in M \cap occupied : refs[x] \cap occupied \subseteq M
    BY <1>1, <1>6
  <2> QED BY <1>1, <1>5, <2>1, <2>2, ReachableFacts
<1> QED BY <1>2, <1>3, <1>5, <1>6, <1>7 DEF TracedFrom

(***************************************************************************)
(* A collection that begins while all others sleep, and nothing is hidden  *)
(* from it, keeps all that any of them, or the globals, refer to.          *)
(***************************************************************************)
LEMMA KeepsAllBegins ==
  ASSUME Typed, Whole, CollectsAlone, NothingHidden, NEW t \in Tasks, pc[t] = "gcCheck",
         GcCheck(t), pc'[t] \in Reclaiming
  PROVE  KeepsAll(t)'
<1>1. ~(LiveCount < threshold)
  BY DEF GcCheck, Goto, Typed, Labels, Reclaiming, Collecting
<1>2. kept'[t] = Wanted(t) /\ quiet'
  <2>1. kept' = [kept EXCEPT ![t] = Wanted(t)] /\ quiet' = TRUE
    BY <1>1 DEF GcCheck
  <2>2. kept \in [Tasks -> SUBSET Ids]
    BY DEF Typed, TypeOK
  <2> HIDE DEF Wanted
  <2> QED BY <2>1, <2>2
<1>3. UNCHANGED <<refs, inner, globals, stack, deferred>>
  BY DEF GcCheck, slots, roots
<1>4. Wanted(t) = TracedFrom(StackRoots)
  <2>1. StackRoots = stack[t] \cup globals \cup SleepingRoots
    BY DEF CollectsAlone, Collecting, SleepingRoots, Sleepers, StackRoots
  <2> QED BY <2>1 DEF Wanted, SleepingRoots
<1>5. ReachableFrom(AllRoots) \subseteq Wanted(t)
  BY <1>4 DEF NothingHidden
<1>6. /\ AllRoots \subseteq ReachableFrom(AllRoots) /\ Wanted(t) \subseteq ReachableFrom(AllRoots)
      /\ \A x \in ReachableFrom(AllRoots) : Holds(x) \subseteq ReachableFrom(AllRoots)
  BY <1>4, AllReachable
<1>7. globals \subseteq AllRoots /\ \A s \in Tasks : stack[s] \cup deferred[s] \subseteq AllRoots
  BY DEF AllRoots, StackRoots
<1> HIDE DEF Wanted
<1>8. /\ globals \subseteq Wanted(t) /\ \A s \in Tasks : stack[s] \cup deferred[s] \subseteq Wanted(t)
      /\ \A x \in Wanted(t) : Holds(x) \subseteq Wanted(t)
  BY <1>5, <1>6, <1>7
<1> QED BY <1>2, <1>3, <1>8 DEF KeepsAll, Holds

(***************************************************************************)
(* The rest of a collection leaves what it keeps alone.                    *)
(***************************************************************************)
LEMMA KeepsAllStays ==
  ASSUME Typed, Holders, NEW t \in Tasks, pc[t] \in Reclaiming, KeepsAll(t), Collect(t),
         pc'[t] \in Reclaiming
  PROVE  KeepsAll(t)'
<1>1. UNCHANGED <<refs, inner, globals, stack, deferred>>
  BY CollectorAlone DEF roots
<1>2. ~GcLock(t) /\ ~GcCheck(t) /\ ~GcEnd(t)
  <2>1. pc \in [Tasks -> Labels]
    BY DEF Typed
  <2> QED BY <2>1 DEF GcLock, GcCheck, GcEnd, Goto, Reclaiming, Collecting
<1>3. kept' = kept /\ quiet' = quiet
  BY <1>2 DEF Collect, MarkRoot, MarkNext, NextRoots, SweepRead, SweepLock, SweepSlot,
              SweepEnd, collector
<1> QED BY <1>1, <1>3 DEF KeepsAll, Holds

(***************************************************************************)
(* When it is over, what it kept is what there is.                         *)
(***************************************************************************)
LEMMA WholeAgain ==
  ASSUME IInv, NEW t \in Tasks, pc[t] \in Reclaiming, KeepsAll(t), Collect(t),
         pc'[t] \notin Reclaiming
  PROVE  Whole'
<1>1. GcEnd(t)
  <2>1. pc \in [Tasks -> Labels]
    BY DEF IInv, Typed
  <2>2. CASE NextRoots(t)
    <3>1. pc[t] = "mark" /\ (pc' = pc \/ Goto(t, "sweepRead"))
      BY <2>2 DEF NextRoots, IInv, Typed, TypeOK
    <3> QED BY <2>1, <3>1 DEF Goto, Reclaiming, Collecting
  <2>3. CASE \/ GcLock(t) \/ GcCheck(t) \/ MarkRoot(t) \/ MarkNext(t) \/ SweepRead(t)
             \/ SweepLock(t) \/ SweepSlot(t) \/ SweepEnd(t)
    BY <2>1, <2>3 DEF GcLock, GcCheck, MarkRoot, MarkNext, SweepRead, SweepLock,
                      SweepSlot, SweepEnd, Goto, Reclaiming, Collecting
  <2> QED BY <2>2, <2>3 DEF Collect
<1>2. pc[t] = "swept" /\ UNCHANGED <<occupied, refs, inner, globals, stack, deferred>>
  BY <1>1 DEF GcEnd, slots, roots
<1>3. occupied = kept[t]
  BY <1>2 DEF IInv, Exact, ExactOf, KeepsAll
<1> QED BY <1>2, <1>3 DEF Whole, KeepsAll, Holds

(***************************************************************************)
(* As long as nobody else moves during a collection, every step keeps the  *)
(* objects whole, or the marks such that the sweep spares what the roots   *)
(* hold.                                                                   *)
(***************************************************************************)
LEMMA SoundNext ==
  ASSUME IInv, Sound, NothingHidden, CollectsAlone, CollectsAlone', [Next]_vars
  PROVE  Sound'
<1> USE DEF IInv
<1>1. Parked'
  BY ParkedNext DEF Sound
<1>2. CASE UNCHANGED vars
  BY <1>1, <1>2 DEF vars, slots, roots, collector, Sound, Whole, KeepsAll, Holds
<1>3. ASSUME NEW t \in Tasks, pc[t] \in Collecting, Next PROVE Sound'
  <2>1. Collect(t)
    BY <1>3, OnlyCollects DEF Sound
  <2>2. \A s \in Tasks \ {t} : pc'[s] \notin Collecting
    BY <2>1, CollectorAlone
  <2>3. CASE pc[t] \in Reclaiming
    BY <1>1, <2>1, <2>2, <2>3, KeepsAllStays, WholeAgain DEF Sound, Reclaiming
  <2>4. CASE pc[t] = "gcCheck"
    <3>1. GcCheck(t)
      BY <2>1, <2>4 DEF Collect, GcLock, MarkRoot, MarkNext, NextRoots, SweepRead,
                        SweepLock, SweepSlot, SweepEnd, GcEnd
    <3>2. Whole
      BY <2>1, <2>4, CollectorAlone DEF Sound, Reclaiming
    <3>3. Whole'
      BY <3>1, <3>2 DEF GcCheck, slots, roots, Whole, Holds
    <3> QED BY <1>1, <2>2, <2>4, <3>1, <3>2, <3>3, KeepsAllBegins DEF Sound, Reclaiming
  <2> QED BY <1>3, <2>3, <2>4 DEF Reclaiming
<1>4. ASSUME \A t \in Tasks : pc[t] \notin Collecting, NEW t \in Tasks,
             \/ StartInstruction(t) \/ Collect(t) \/ Alloc(t) \/ Execute(t)
             \/ Resume(t) \/ Wake(t)
      PROVE  Sound'
  <2>1. Whole
    BY <1>4 DEF Sound, Reclaiming
  <2>2. CASE Collect(t)
    <3>1. GcLock(t)
      BY <1>4, <2>2 DEF Collect, GcCheck, MarkRoot, MarkNext, NextRoots, SweepRead,
                        SweepLock, SweepSlot, SweepEnd, GcEnd, Collecting
    <3>2. \A s \in Tasks : pc'[s] \notin Reclaiming
      BY <1>4, <3>1 DEF GcLock, Goto, Typed, Reclaiming, Collecting
    <3>3. Whole'
      BY <2>1, <3>1 DEF GcLock, slots, roots, Whole, Holds
    <3> QED BY <1>1, <3>2, <3>3 DEF Sound
  <2>3. CASE ~Collect(t)
    <3>1. Whole'
      BY <1>4, <2>1, <2>3, WholeNext
    <3>2. \A s \in Tasks : pc'[s] \notin Collecting
      <4>1. CASE StartInstruction(t)
        BY <1>4, <4>1 DEF StartInstruction, Goto, Typed, Collecting
      <4>2. CASE Alloc(t)
        BY <1>4, <4>2, BystanderAlloc DEF Bystander
      <4>3. CASE Execute(t)
        <5>1. \A s \in Tasks \ {t} : pc'[s] = pc[s]
          BY <4>3, OwnSteps DEF Sound
        <5>2. pc'[t] \in {"head", "print", "alloc"}
          BY <4>3 DEF Execute, GetField, SetField, LoadGlobal, StoreGlobal, Pop,
                      PrintOuter, PrintInner, DeferCall, Return, Allocate, CreateEntry, Park, Done, Goto,
                      Typed
        <5> QED BY <1>4, <5>1, <5>2 DEF Collecting
      <4>4. CASE Resume(t) \/ Wake(t)
        BY <1>4, <4>4 DEF Resume, Wake
      <4> QED BY <1>4, <2>3, <4>1, <4>2, <4>3, <4>4
    <3> QED BY <1>1, <3>1, <3>2 DEF Sound, Reclaiming
  <2> QED BY <2>2, <2>3
<1> QED BY <1>2, <1>3, <1>4 DEF Next

(***************************************************************************)
(* At first nothing is marked and nothing is held but what is there.       *)
(***************************************************************************)
LEMMA SoundInit == Init => Sound
<1> SUFFICES ASSUME Init PROVE Sound
  OBVIOUS
<1>1. \A t \in Tasks : pc[t] = "head"
  BY DEF Init
<1>2. Whole
  BY DEF Init, Whole, Holds, Ids
<1> QED BY <1>1, <1>2 DEF Sound, Parked, Reclaiming, Collecting

(***************************************************************************)
(* What is reachable is kept, and what is kept refers to nothing else.     *)
(***************************************************************************)
LEMMA SoundIsSafe == IInv /\ Sound => NothingDangles
<1> SUFFICES ASSUME IInv, Sound PROVE NothingDangles
  OBVIOUS
<1> USE DEF IInv
<1>1. ASSUME NEW K \in SUBSET occupied, globals \subseteq K,
             \A s \in Tasks : stack[s] \cup deferred[s] \subseteq K,
             \A x \in K : Holds(x) \subseteq K
      PROVE  NothingDangles
  <2>1. AllRoots \subseteq K
    BY <1>1 DEF AllRoots, StackRoots
  <2> DEFINE edges == [x \in Ids |-> Holds(x)]
  <2>2. /\ AllRoots \in SUBSET Ids /\ edges \in [Ids -> SUBSET Ids] /\ occupied \subseteq Ids
        /\ \A x \in Ids : edges[x] = Holds(x)
    BY <2>1, IdsInUse DEF Holds
  <2>3. ReachableFrom(AllRoots) = ReachableOver(edges, AllRoots)
    BY DEF ReachableFrom
  <2> HIDE DEF edges
  <2>4. AllRoots \cap occupied \subseteq K /\ \A x \in K \cap occupied : edges[x] \cap occupied \subseteq K
    BY <1>1, <2>1, <2>2
  <2>5. ReachableOver(edges, AllRoots) \subseteq K
    BY <2>2, <2>4, ReachableFacts
  <2> QED BY <1>1, <2>1, <2>3, <2>5 DEF NothingDangles
<1>2. CASE \A t \in Tasks : pc[t] \notin Reclaiming
  BY <1>1, <1>2 DEF Sound, Whole
<1>3. ASSUME NEW t \in Tasks, pc[t] \in Reclaiming PROVE NothingDangles
  <2>1. KeepsAll(t)
    BY <1>3 DEF Sound
  <2>2. kept[t] \subseteq occupied
    <3>1. ExactOf(t)
      BY <2>1 DEF KeepsAll, Exact
    <3>2. CASE pc[t] = "mark"
      BY <3>1, <3>2, WantedFacts DEF ExactOf, MarksExactly
    <3>3. CASE pc[t] \in {"sweepRead", "sweepLock"}
      BY <3>1, <3>3 DEF ExactOf, Typed, TypeOK
    <3>4. CASE pc[t] = "sweep"
      BY <3>1, <3>4 DEF ExactOf, SweepsExactly
    <3>5. CASE pc[t] = "swept"
      BY <3>1, <3>5 DEF ExactOf
    <3> QED BY <1>3, <3>2, <3>3, <3>4, <3>5 DEF Reclaiming, Collecting
  <2> QED BY <1>1, <2>1, <2>2 DEF KeepsAll
<1> QED BY <1>2, <1>3

(***************************************************************************)
(* If every collection runs while all other tasks sleep or wait for the    *)
(* network, and nothing is hidden from it (in a tuple inside an object, or *)
(* in a deferred call), no reference ever dangles, whatever the programs   *)
(* do between two collections and however the allocations interleave: what *)
(* the marking and the roots of trigger_gc lack are such tuples, the       *)
(* deferred calls, and the tasks in the queues and on the other workers;   *)
(* and nothing else.                                                       *)
(***************************************************************************)
THEOREM SleepersAreRootsEnough ==
  Spec /\ []CollectsAlone /\ []NothingHidden => []NothingDangles
<1>1. IInv /\ Sound /\ NothingHidden /\ CollectsAlone /\ CollectsAlone' /\ [Next]_vars => Sound'
  BY SoundNext
<1> QED BY <1>1, SoundInit, SoundIsSafe, Invariant, PTL DEF Spec

(***************************************************************************)
(* A program that spawns nothing is never left with a dangling reference,  *)
(* as long as nothing is hidden from its collections in a tuple inside an  *)
(* object or in a deferred call. (Otherwise it can be: MCHeapReach.cfg.)   *)
(***************************************************************************)
THEOREM LoneTaskNeverDangles ==
  ASSUME NEW t, Tasks = {t}
  PROVE  Spec /\ []NothingHidden => []NothingDangles
<1>1. CollectsAlone
  BY DEF CollectsAlone
<1> QED BY <1>1, SleepersAreRootsEnough, PTL
=============================================================================

----------------------------- MODULE FramesProofs -----------------------------
(***************************************************************************)
(* The inductive invariant of module Frames and the theorems that follow   *)
(* from it, for every finite set of tasks and stacks of any depth.         *)
(***************************************************************************)
EXTENDS Frames, QueueFacts, FiniteSetTheorems

USE TasksAssumption, DeferrableAssumption, BoundsAssumption

Kinds == {"unlock", "done"} \cup Deferrable
Entries == Entry(Kinds)
FrameType == [script : BOOLEAN, returning : BOOLEAN, defers : Seq(Entries)]

Typed ==
  /\ frames \in [Tasks -> Seq(FrameType)]
  /\ pending \in [Tasks -> Seq(Entries)]
  /\ mode \in [Tasks -> {"unborn", "run", "propagate", "fail", "completed", "failed"}]
  /\ need \in [Tasks -> {"none", "unlock", "done", "spawn"}]
  /\ want \in [Tasks -> {"none", "lock", "wait"}]
  /\ steps \in [Tasks -> Nat]
  /\ owner \in Tasks \cup {Nobody}
  /\ count \in Nat
  /\ made \in [Tasks -> Seq(Kinds)]
  /\ ran \in [Tasks -> Seq(Nat \ {0})]

\* In which modes a task has frames, deferred calls to unwind, an obligation
\* and a blocking instruction.
ControlOf(t) ==
  /\ mode[t] \in {"run", "propagate"} => frames[t] # <<>>
  /\ mode[t] \in {"unborn", "completed"} => frames[t] = <<>>
  /\ mode[t] = "failed" /\ t # Main => frames[t] = <<>>
  /\ pending[t] # <<>> => Unwinding(t) \/ (t = Main /\ mode[t] = "completed")
  /\ need[t] # "none" \/ want[t] # "none" => mode[t] = "run" /\ ~Top(t).returning
  /\ need[t] = "none" \/ want[t] = "none"
  /\ need[t] = "done" => t # Main /\ frames[t] = <<Frame>>
  /\ need[t] = "spawn" \/ want[t] = "wait" => t = Main
  /\ t = Main => mode[t] \notin {"unborn", "fail"} /\ fatal = (mode[t] = "failed")
Control == \A t \in Tasks : ControlOf(t)

\* The deferred calls of t in its frames and on its list, whether t still owes
\* them or the script's end dropped them; LockIsOwed and CountIsOwed in terms
\* of those, as they are kept by every step.
Listed(t) == Range(pending[t]) \cup UNION {Range(f.defers) : f \in Range(frames[t])}
Lists(t, act) == \E d \in Listed(t) : d.act = act
LockIsListed ==
  \A t \in Tasks :
    /\ (owner = t) = (need[t] = "unlock" \/ Lists(t, "unlock"))
    /\ \A d, e \in Listed(t) : d.act = "unlock" /\ e.act = "unlock" => d = e
CountIsListed ==
  count = Cardinality({t \in Tasks : need[t] = "done" \/ Lists(t, "done")})
            + (IF need[Main] = "spawn" THEN 1 ELSE 0)

\* The deferred calls of t, frame by frame, and those being unwound behind
\* them: in the order in which they were registered.
DebtOf(fs, p) == [i \in 1 .. Len(fs) + 1 |-> IF i > Len(fs) THEN p ELSE fs[i].defers]
Debt(t) == DebtOf(frames[t], pending[t])
Sorted(D) == \A i, j \in DOMAIN D : \A k \in DOMAIN D[i], l \in DOMAIN D[j] :
               (i < j \/ (i = j /\ k < l)) => D[i][k].id < D[j][l].id

\* A deferred call that t lists was made and has not been executed; one it
\* does not list any more was executed, unless it was a Whalli function.
LedgerOf(t) ==
  /\ Sorted(Debt(t))
  /\ \A d \in Listed(t) : /\ d.id \in DOMAIN made[t] /\ made[t][d.id] = d.act
                        /\ d.id \notin Range(ran[t])
  /\ IsInjective(ran[t])
  /\ Range(ran[t]) \subseteq DOMAIN made[t]
  /\ \A i \in DOMAIN made[t] : \/ made[t][i] = "call"
                               \/ i \in Range(ran[t])
                               \/ \E d \in Listed(t) : d.id = i
Ledger == \A t \in Tasks : LedgerOf(t)

\* An obligation is not yet a deferred call.
NeedsOrOwes ==
  \A t \in Tasks : need[t] \in {"unlock", "done"} => ~Lists(t, need[t])

\* The main task registers no done(), a worker one at most.
OneDone == \A t \in Tasks :
             /\ Lists(t, "done") => t # Main
             /\ \A d, e \in Listed(t) : d.act = "done" /\ e.act = "done" => d = e

\* The outermost frame of a worker has its done() at the bottom until that
\* frame is just being left.
DoneAtBottom ==
  \A t \in Tasks \ {Main} :
    frames[t] # <<>> =>
      \/ need[t] = "done"
      \/ frames[t][1].defers # <<>> /\ frames[t][1].defers[1].act = "done"
      \/ Len(frames[t]) = 1 /\ frames[t][1].returning /\ frames[t][1].defers = <<>>

IInv == /\ Typed /\ Control /\ Ledger /\ LockIsListed /\ NeedsOrOwes
        /\ CountIsListed /\ OneDone /\ DoneAtBottom

-----------------------------------------------------------------------------
(***************************************************************************)
(* Stacks of frames and of deferred calls.                                 *)
(***************************************************************************)

(***************************************************************************)
(* Leaving out the last element of a sequence (Vec::pop).                  *)
(***************************************************************************)
LEMMA FrontFacts ==
  ASSUME NEW S, NEW s \in Seq(S), s # <<>>
  PROVE  /\ Len(s) \in Nat \ {0} /\ Last(s) \in S /\ Last(s) = s[Len(s)]
         /\ Front(s) \in Seq(S) /\ Len(Front(s)) = Len(s) - 1
         /\ \A i \in 1 .. Len(s) - 1 : Front(s)[i] = s[i]
         /\ \A i \in 1 .. Len(s) : i # Len(s) => Front(s)[i] = s[i]
<1>1. Len(s) \in Nat \ {0} /\ \A i \in 1 .. Len(s) : s[i] \in S
  BY EmptySeq, ElementOfSeq
<1>2. /\ Front(s) \in Seq(S)
      /\ Len(Front(s)) = IF 1 <= Len(s) - 1 THEN Len(s) - 1 - 1 + 1 ELSE 0
      /\ \A i \in 1 .. Len(s) - 1 - 1 + 1 : Front(s)[i] = s[1 + i - 1]
  <2>1. \A i \in 1 .. Len(s) - 1 : s[i] \in S
    BY <1>1
  <2>2. Len(s) - 1 \in Int
    BY <1>1
  <2> QED BY <2>1, <2>2, SubSeqProperties DEF Front
<1>3. Len(Front(s)) = Len(s) - 1
  <2>1. ASSUME NEW n \in Nat \ {0}, NEW m, m = IF 1 <= n - 1 THEN n - 1 - 1 + 1 ELSE 0
        PROVE  m = n - 1
    BY <2>1
  <2> QED BY <1>1, <1>2, <2>1
<1>4. \A i \in 1 .. Len(s) - 1 : Front(s)[i] = s[i]
  BY <1>1, <1>2
<1>5. \A i \in 1 .. Len(s) : i # Len(s) => Front(s)[i] = s[i]
  <2> SUFFICES ASSUME NEW i \in 1 .. Len(s), i # Len(s) PROVE Front(s)[i] = s[i]
    OBVIOUS
  <2>1. i \in 1 .. Len(s) - 1
    BY <1>1
  <2> QED BY <1>4, <2>1
<1> QED BY <1>1, <1>2, <1>3, <1>4, <1>5 DEF Last

(***************************************************************************)
(* Replacing the last element of a sequence (frames.last_mut).             *)
(***************************************************************************)
LEMMA ReplaceLast ==
  ASSUME NEW S, NEW s \in Seq(S), s # <<>>, NEW x \in S
  PROVE  LET r == Append(Front(s), x) IN
         /\ r \in Seq(S) /\ Len(r) = Len(s) /\ r[Len(s)] = x
         /\ \A i \in 1 .. Len(s) : i # Len(s) => r[i] = s[i]
<1>1. /\ Len(s) \in Nat \ {0} /\ Front(s) \in Seq(S) /\ Len(Front(s)) = Len(s) - 1
      /\ \A i \in 1 .. Len(s) - 1 : Front(s)[i] = s[i]
  BY FrontFacts
<1>2. /\ Append(Front(s), x) \in Seq(S)
      /\ Len(Append(Front(s), x)) = Len(Front(s)) + 1
      /\ \A i \in 1 .. Len(Front(s)) : Append(Front(s), x)[i] = Front(s)[i]
      /\ Append(Front(s), x)[Len(Front(s)) + 1] = x
  BY <1>1, AppendProperties
<1>3. \A i \in 1 .. Len(s) : i # Len(s) => Append(Front(s), x)[i] = s[i]
  <2> SUFFICES ASSUME NEW i \in 1 .. Len(s), i # Len(s)
               PROVE  Append(Front(s), x)[i] = s[i]
    OBVIOUS
  <2>1. i \in 1 .. Len(s) - 1
    BY <1>1
  <2> QED BY <1>1, <1>2, <2>1
<1>4. Len(Append(Front(s), x)) = Len(s) /\ Append(Front(s), x)[Len(s)] = x
  BY <1>1, <1>2
<1> QED BY <1>2, <1>3, <1>4

(***************************************************************************)
(* Replacing the last frame and pushing another one on it: Return executes *)
(* a deferred Whalli function.                                             *)
(***************************************************************************)
LEMMA ReplaceLastAndPush ==
  ASSUME NEW S, NEW s \in Seq(S), s # <<>>, NEW x \in S, NEW y \in S
  PROVE  LET r == Front(s) \o <<x, y>> IN
         /\ r \in Seq(S) /\ Len(r) = Len(s) + 1
         /\ r[Len(s)] = x /\ r[Len(s) + 1] = y
         /\ \A i \in 1 .. Len(s) : i # Len(s) => r[i] = s[i]
<1> DEFINE r == Front(s) \o <<x, y>>
<1>1. /\ Len(s) \in Nat \ {0} /\ Front(s) \in Seq(S) /\ Len(Front(s)) = Len(s) - 1
      /\ \A i \in 1 .. Len(s) - 1 : Front(s)[i] = s[i]
  BY FrontFacts
<1>2. <<x, y>> \in Seq(S) /\ Len(<<x, y>>) = 2
  OBVIOUS
<1>3. /\ r \in Seq(S) /\ Len(r) = Len(s) - 1 + 2
      /\ \A i \in 1 .. Len(s) - 1 + 2 :
            r[i] = IF i <= Len(s) - 1 THEN Front(s)[i] ELSE <<x, y>>[i - (Len(s) - 1)]
  BY <1>1, <1>2, ConcatProperties
<1>4. r[Len(s)] = x
  <2>1. r[Len(s)] = <<x, y>>[Len(s) - (Len(s) - 1)]
    BY <1>1, <1>3
  <2>2. Len(s) - (Len(s) - 1) = 1
    BY <1>1
  <2>3. <<x, y>>[1] = x
    OBVIOUS
  <2> QED BY <2>1, <2>2, <2>3, Zenon
<1>5. r[Len(s) + 1] = y
  <2>1. r[Len(s) + 1] = <<x, y>>[Len(s) + 1 - (Len(s) - 1)]
    BY <1>1, <1>3
  <2>2. Len(s) + 1 - (Len(s) - 1) = 2
    BY <1>1
  <2>3. <<x, y>>[2] = y
    OBVIOUS
  <2> QED BY <2>1, <2>2, <2>3, Zenon
<1>6. \A i \in 1 .. Len(s) : i # Len(s) => r[i] = s[i]
  <2> SUFFICES ASSUME NEW i \in 1 .. Len(s), i # Len(s) PROVE r[i] = s[i]
    OBVIOUS
  <2>1. i \in 1 .. Len(s) - 1 /\ i \in 1 .. Len(s) - 1 + 2 /\ i <= Len(s) - 1
    BY <1>1
  <2> QED BY <1>1, <1>3, <2>1
<1>7. Len(r) = Len(s) + 1
  BY <1>1, <1>3
<1> QED BY <1>3, <1>4, <1>5, <1>6, <1>7

(***************************************************************************)
(* The last element of what replacing and pushing make of a sequence.      *)
(***************************************************************************)
LEMMA LastOfStack ==
  ASSUME NEW S, NEW s \in Seq(S), s # <<>>, NEW x \in S, NEW y \in S
  PROVE  /\ Append(Front(s), x) # <<>> /\ Last(Append(Front(s), x)) = x
         /\ Front(s) \o <<x, y>> # <<>> /\ Last(Front(s) \o <<x, y>>) = y
<1> DEFINE p == Append(Front(s), x)
           q == Front(s) \o <<x, y>>
<1>1. Len(s) \in Nat \ {0}
  BY FrontFacts
<1>2. Len(p) = Len(s) /\ p[Len(s)] = x
  BY ReplaceLast
<1>3. Len(q) = Len(s) + 1 /\ q[Len(s) + 1] = y
  BY ReplaceLastAndPush
<1>4. Len(<<>>) = 0
  OBVIOUS
<1> HIDE DEF p, q
<1>5. p # <<>> /\ Last(p) = x
  BY <1>1, <1>2, <1>4 DEF Last
<1>6. q # <<>> /\ Last(q) = y
  BY <1>1, <1>3, <1>4 DEF Last
<1> QED BY <1>5, <1>6 DEF p, q

(***************************************************************************)
(* What t lists, by place.                                                 *)
(***************************************************************************)
Holds(D, d) == \E i \in DOMAIN D : \E k \in DOMAIN D[i] : d = D[i][k]

\* Two debts of the same deferred calls, in the same order.
SameDebt(D, E) == /\ Sorted(D) => Sorted(E)
                  /\ \A d : Holds(E, d) <=> Holds(D, d)

Stacks == Seq(Seq(Entries))

(***************************************************************************)
(* A debt is a sequence of sequences; the last but one is that of the top  *)
(* frame.                                                                  *)
(***************************************************************************)
LEMMA DebtFacts ==
  ASSUME NEW fs \in Seq(FrameType), NEW p \in Seq(Entries)
  PROVE  LET D == DebtOf(fs, p)
             n == Len(fs)
         IN  /\ n \in Nat /\ D \in Stacks /\ Len(D) = n + 1 /\ DOMAIN D = 1 .. n + 1
             /\ D[n + 1] = p
             /\ \A i \in 1 .. n : D[i] = fs[i].defers
             /\ fs # <<>> => n > 0 /\ Last(fs) = fs[n] /\ Last(fs) \in FrameType
<1> DEFINE D == DebtOf(fs, p)
           n == Len(fs)
<1>1. n \in Nat
  BY LenProperties
<1>2. \A i \in 1 .. n : fs[i] \in FrameType
  BY ElementOfSeq
<1>3. \A f \in FrameType : f.defers \in Seq(Entries)
  BY DEF FrameType
<1>4. \A i \in 1 .. n + 1 : (IF i > n THEN p ELSE fs[i].defers) \in Seq(Entries)
  BY <1>1, <1>2, <1>3
<1>5. D \in [1 .. n + 1 -> Seq(Entries)]
  BY <1>4 DEF DebtOf
<1>6. D \in Stacks /\ Len(D) = n + 1 /\ DOMAIN D = 1 .. n + 1
  BY <1>1, <1>5 DEF Stacks
<1>7. D[n + 1] = p
  BY <1>1 DEF DebtOf
<1>8. \A i \in 1 .. n : D[i] = fs[i].defers
  BY <1>1 DEF DebtOf
<1>9. ASSUME fs # <<>>
      PROVE  n > 0 /\ Last(fs) = fs[n] /\ Last(fs) \in FrameType
  BY <1>9, FrontFacts
<1> QED BY <1>1, <1>6, <1>7, <1>8, <1>9

\* What is listed by frames fs and the list p.
OwedOf(fs, p) == Range(p) \cup UNION {Range(f.defers) : f \in Range(fs)}

(***************************************************************************)
(* What is listed is what the debt holds.                                  *)
(***************************************************************************)
LEMMA OwedFacts ==
  ASSUME NEW fs \in Seq(FrameType), NEW p \in Seq(Entries)
  PROVE  /\ \A d : d \in OwedOf(fs, p) <=> Holds(DebtOf(fs, p), d)
         /\ OwedOf(fs, p) \subseteq Entries
<1> DEFINE D == DebtOf(fs, p)
           n == Len(fs)
<1>1. /\ D \in Stacks /\ DOMAIN D = 1 .. n + 1 /\ n \in Nat /\ D[n + 1] = p
      /\ \A i \in 1 .. n : D[i] = fs[i].defers
  BY DebtFacts
<1>2. DOMAIN fs = 1 .. n
  BY LenProperties
<1>3. \A d : d \in Range(p) <=> \E k \in DOMAIN D[n + 1] : d = D[n + 1][k]
  BY <1>1 DEF Range
<1>4. \A d : d \in UNION {Range(f.defers) : f \in Range(fs)}
             <=> \E i \in 1 .. n : \E k \in DOMAIN D[i] : d = D[i][k]
  <2>1. \A d : d \in UNION {Range(f.defers) : f \in Range(fs)}
               <=> \E f \in Range(fs) : \E k \in DOMAIN f.defers : d = f.defers[k]
    BY DEF Range
  <2>2. Range(fs) = {fs[i] : i \in 1 .. n}
    BY <1>2 DEF Range
  <2>3. \A d : (\E f \in Range(fs) : \E k \in DOMAIN f.defers : d = f.defers[k])
               <=> \E i \in 1 .. n : \E k \in DOMAIN D[i] : d = D[i][k]
    BY <1>1, <2>2
  <2> QED BY <2>1, <2>3
<1>5. \A i \in 1 .. n + 1 : i \in 1 .. n \/ i = n + 1
  BY <1>1
<1>6. n + 1 \in 1 .. n + 1 /\ 1 .. n \subseteq 1 .. n + 1
  BY <1>1
<1>7. \A d : d \in OwedOf(fs, p) <=> Holds(D, d)
  <2>1. \A d : Holds(D, d) <=> \/ \E i \in 1 .. n : \E k \in DOMAIN D[i] : d = D[i][k]
                               \/ \E k \in DOMAIN D[n + 1] : d = D[n + 1][k]
    BY <1>1, <1>5, <1>6, Zenon DEF Holds
  <2>2. \A d : d \in OwedOf(fs, p) <=> \/ d \in Range(p)
                                       \/ d \in UNION {Range(f.defers) : f \in Range(fs)}
    BY Zenon DEF OwedOf
  <2> HIDE DEF D
  <2> QED BY <1>3, <1>4, <2>1, <2>2, Zenon
<1>8. ASSUME NEW d, Holds(D, d) PROVE d \in Entries
  <2>1. PICK i \in DOMAIN D : \E k \in DOMAIN D[i] : d = D[i][k]
    BY <1>8 DEF Holds
  <2>2. D[i] \in Seq(Entries)
    BY <1>1, LenProperties, ElementOfSeq DEF Stacks
  <2>3. PICK k \in DOMAIN D[i] : d = D[i][k]
    BY <2>1
  <2>4. k \in 1 .. Len(D[i])
    BY <2>2, <2>3, LenProperties
  <2> QED BY <2>2, <2>3, <2>4, ElementOfSeq
<1> QED BY <1>7, <1>8

(***************************************************************************)
(* An empty list at the end of a debt does not count: pushing a frame, or  *)
(* leaving one without deferred calls, changes nothing.                    *)
(***************************************************************************)
LEMMA DebtPadded ==
  ASSUME NEW D \in Stacks, NEW E \in Stacks, Len(E) = Len(D) + 1,
         E[Len(E)] = <<>>, \A i \in 1 .. Len(D) : E[i] = D[i]
  PROVE  SameDebt(D, E) /\ SameDebt(E, D)
<1>1. Len(D) \in Nat /\ DOMAIN D = 1 .. Len(D) /\ DOMAIN E = 1 .. Len(D) + 1
  BY LenProperties DEF Stacks
<1>2. DOMAIN E[Len(D) + 1] = {}
  BY <1>1
<1>3. \A i \in DOMAIN E : i \in DOMAIN D \/ i = Len(D) + 1
  BY <1>1
<1>4. DOMAIN D \subseteq DOMAIN E /\ \A i \in DOMAIN D : E[i] = D[i]
  BY <1>1
<1>5. \A d : Holds(E, d) <=> Holds(D, d)
  BY <1>2, <1>3, <1>4, Zenon DEF Holds
<1>6. Sorted(D) => Sorted(E)
  BY <1>2, <1>3, <1>4 DEF Sorted
<1>7. Sorted(E) => Sorted(D)
  BY <1>4 DEF Sorted
<1> QED BY <1>5, <1>6, <1>7 DEF SameDebt

\* E is D with d added at position n, after all others.
AddedAt(D, E, n, d) ==
  /\ Len(E) = Len(D) /\ n \in DOMAIN D /\ E[n] = Append(D[n], d)
  /\ \A i \in DOMAIN D : i # n => E[i] = D[i]
  /\ \A i \in DOMAIN D : i > n => D[i] = <<>>
  /\ \A x : Holds(D, x) => x.id < d.id

(***************************************************************************)
(* A deferred call that is registered later than all that are owed comes   *)
(* last, if nothing is owed behind the list it is added to (DeferCall).    *)
(***************************************************************************)
LEMMA DebtAdded ==
  ASSUME NEW D \in Stacks, NEW E \in Stacks, NEW n, NEW d \in Entries, AddedAt(D, E, n, d)
  PROVE  /\ Sorted(D) => Sorted(E)
         /\ \A x : Holds(E, x) <=> Holds(D, x) \/ x = d
<1> USE DEF AddedAt
<1>1. Len(D) \in Nat /\ DOMAIN D = 1 .. Len(D) /\ DOMAIN E = DOMAIN D /\ D[n] \in Seq(Entries)
  BY LenProperties, ElementOfSeq DEF Stacks
<1> DEFINE m == Len(D[n])
<1>2. /\ m \in Nat /\ DOMAIN D[n] = 1 .. m /\ DOMAIN E[n] = 1 .. m + 1
      /\ E[n][m + 1] = d /\ \A k \in 1 .. m : E[n][k] = D[n][k]
  BY <1>1, LenProperties, AppendProperties
<1>3. \A k \in DOMAIN E[n] : k \in DOMAIN D[n] \/ k = m + 1
  BY <1>2
<1>4. \A x : Holds(E, x) <=> Holds(D, x) \/ x = d
  <2>1. ASSUME NEW x, Holds(E, x) PROVE Holds(D, x) \/ x = d
    <3>1. PICK i \in DOMAIN D : \E k \in DOMAIN E[i] : x = E[i][k]
      BY <1>1, <2>1 DEF Holds
    <3>2. CASE i # n
      BY <3>1, <3>2 DEF Holds
    <3>3. CASE i = n
      BY <1>2, <1>3, <3>1, <3>3 DEF Holds
    <3> QED BY <3>2, <3>3
  <2>2. ASSUME NEW x, Holds(D, x) PROVE Holds(E, x)
    <3>1. PICK i \in DOMAIN D : \E k \in DOMAIN D[i] : x = D[i][k]
      BY <2>2 DEF Holds
    <3>2. CASE i # n
      BY <1>1, <3>1, <3>2 DEF Holds
    <3>3. CASE i = n
      <4>1. PICK k \in 1 .. m : x = D[n][k]
        BY <1>2, <3>1, <3>3
      <4>2. k \in DOMAIN E[n] /\ E[n][k] = x
        BY <1>2, <4>1
      <4> QED BY <1>1, <4>2 DEF Holds
    <3> QED BY <3>2, <3>3
  <2>3. Holds(E, d)
    <3>1. m + 1 \in DOMAIN E[n]
      BY <1>2
    <3> QED BY <1>1, <1>2, <3>1 DEF Holds
  <2> QED BY <2>1, <2>2, <2>3
<1>5. ASSUME Sorted(D) PROVE Sorted(E)
  <2> SUFFICES ASSUME NEW i \in DOMAIN D, NEW j \in DOMAIN D,
                      NEW k \in DOMAIN E[i], NEW l \in DOMAIN E[j],
                      i < j \/ (i = j /\ k < l)
               PROVE  E[i][k].id < E[j][l].id
    BY <1>1 DEF Sorted
  <2>1. j \in Nat /\ i \in Nat /\ n \in Nat
    BY <1>1
  <2>2. j <= n
    <3>1. ASSUME j > n PROVE FALSE
      <4>1. DOMAIN E[j] = {}
        BY <1>1, <2>1, <3>1
      <4> QED BY <4>1
    <3> QED BY <2>1, <3>1
  <2>3. i <= n
    BY <2>1, <2>2
  <2>4. CASE j = n /\ l = m + 1
    <3>1. i # n \/ k # m + 1
      BY <1>1, <1>2, <2>4
    <3>2. k \in DOMAIN D[i] /\ E[i][k] = D[i][k]
      BY <1>2, <1>3, <3>1
    <3>3. Holds(D, E[i][k])
      BY <3>2 DEF Holds
    <3> QED BY <1>2, <2>4, <3>3
  <2>5. CASE ~(j = n /\ l = m + 1)
    <3>1. l \in DOMAIN D[j] /\ E[j][l] = D[j][l]
      BY <1>2, <1>3, <2>5
    <3>2. i # n \/ k # m + 1
      BY <1>2, <1>3, <2>1, <2>2, <2>5
    <3>3. k \in DOMAIN D[i] /\ E[i][k] = D[i][k]
      BY <1>2, <1>3, <3>2
    <3> QED BY <1>5, <3>1, <3>3 DEF Sorted
  <2> QED BY <2>4, <2>5
<1> QED BY <1>4, <1>5

\* E is D without the last entry of position n, above which there is nothing.
TakenAt(D, E, n) ==
  /\ Len(E) = Len(D) /\ n \in DOMAIN D /\ D[n] # <<>> /\ E[n] = Front(D[n])
  /\ \A i \in DOMAIN D : i # n => E[i] = D[i]
  /\ \A i \in DOMAIN D : i > n => D[i] = <<>>

(***************************************************************************)
(* Taking the last deferred call of a debt, behind which nothing is owed:  *)
(* it is the one that was registered last.                                 *)
(***************************************************************************)
LEMMA DebtTaken ==
  ASSUME NEW D \in Stacks, NEW E \in Stacks, NEW n, Sorted(D), TakenAt(D, E, n)
  PROVE  /\ Sorted(E)
         /\ Last(D[n]) \in Entries /\ Holds(D, Last(D[n]))
         /\ \A x : Holds(E, x) <=> Holds(D, x) /\ x # Last(D[n])
         /\ \A x : Holds(D, x) => x.id <= Last(D[n]).id
<1> USE DEF TakenAt
<1>1. Len(D) \in Nat /\ DOMAIN D = 1 .. Len(D) /\ DOMAIN E = DOMAIN D /\ D[n] \in Seq(Entries)
  BY LenProperties, ElementOfSeq DEF Stacks
<1> DEFINE m == Len(D[n])
           d == Last(D[n])
<1>2. /\ m \in Nat \ {0} /\ DOMAIN D[n] = 1 .. m /\ d \in Entries /\ d = D[n][m]
      /\ \A k \in 1 .. m - 1 : E[n][k] = D[n][k]
  BY <1>1, LenProperties, FrontFacts
<1>3. DOMAIN E[n] = 1 .. m - 1
  <2>1. E[n] \in Seq(Entries) /\ Len(E[n]) = m - 1
    BY <1>1, FrontFacts
  <2> QED BY <2>1, LenProperties
<1>4. m \in DOMAIN D[n]
  BY <1>2
<1> HIDE DEF d, m
<1>5. Holds(D, d)
  BY <1>2, <1>4 DEF Holds
<1>6. \A i \in DOMAIN E : \A k \in DOMAIN E[i] :
        /\ k \in DOMAIN D[i] /\ E[i][k] = D[i][k]
        /\ i < n \/ (i = n /\ k < m)
  <2> SUFFICES ASSUME NEW i \in DOMAIN E, NEW k \in DOMAIN E[i]
               PROVE  /\ k \in DOMAIN D[i] /\ E[i][k] = D[i][k]
                      /\ i < n \/ (i = n /\ k < m)
    OBVIOUS
  <2>1. CASE i = n
    BY <1>2, <1>3, <2>1
  <2>2. CASE i # n
    <3>1. E[i] = D[i]
      BY <1>1, <2>2
    <3>2. ~(i > n)
      <4>1. ASSUME i > n PROVE DOMAIN E[i] = {}
        BY <1>1, <3>1, <4>1
      <4> QED BY <4>1
    <3>3. i \in Nat /\ n \in Nat
      BY <1>1
    <3> QED BY <2>2, <3>1, <3>2, <3>3
  <2> QED BY <2>1, <2>2
<1>7. Sorted(E)
  BY <1>1, <1>6 DEF Sorted
<1>8. \A i \in DOMAIN D : \A k \in DOMAIN D[i] :
        (i = n /\ k = m) \/ (D[i][k].id < d.id /\ k \in DOMAIN E[i] /\ E[i][k] = D[i][k])
  <2> SUFFICES ASSUME NEW i \in DOMAIN D, NEW k \in DOMAIN D[i], ~(i = n /\ k = m)
               PROVE  D[i][k].id < d.id /\ k \in DOMAIN E[i] /\ E[i][k] = D[i][k]
    OBVIOUS
  <2>1. i \in Nat /\ n \in Nat
    BY <1>1
  <2>2. ~(i > n)
    <3>1. ASSUME i > n PROVE DOMAIN D[i] = {}
      BY <3>1
    <3> QED BY <3>1
  <2>3. CASE i = n
    <3>1. k \in 1 .. m /\ k < m
      BY <1>2, <2>3
    <3>2. k \in DOMAIN E[n]
      BY <1>2, <1>3, <3>1
    <3>3. D[i][k].id < d.id
      BY <1>2, <1>4, <2>1, <2>3, <3>1 DEF Sorted
    <3> QED BY <1>2, <1>3, <2>3, <3>2, <3>3
  <2>4. CASE i # n
    <3>1. i < n
      BY <2>1, <2>2, <2>4
    <3> QED BY <1>2, <1>4, <2>4, <3>1 DEF Sorted
  <2> QED BY <2>3, <2>4
<1>9. d.id \in Nat
  BY <1>2 DEF Entries, Entry
<1>10. \A x : Holds(D, x) => x.id <= d.id
  <2> SUFFICES ASSUME NEW x, Holds(D, x) PROVE x.id <= d.id
    OBVIOUS
  <2>1. PICK i \in DOMAIN D : \E k \in DOMAIN D[i] : x = D[i][k]
    BY DEF Holds
  <2>2. PICK k \in DOMAIN D[i] : x = D[i][k]
    BY <2>1
  <2>3. CASE i = n /\ k = m
    BY <1>2, <1>9, <2>2, <2>3
  <2>4. CASE ~(i = n /\ k = m)
    <3>1. x.id < d.id
      BY <1>8, <2>2, <2>4
    <3>2. D[i] \in Seq(Entries)
      BY <1>1, ElementOfSeq DEF Stacks
    <3>3. x \in Entries
      BY <2>2, <3>2, LenProperties, ElementOfSeq
    <3>4. x.id \in Nat
      BY <3>3 DEF Entries, Entry
    <3> QED BY <1>9, <3>1, <3>4
  <2> QED BY <2>3, <2>4
<1>11. \A x : Holds(E, x) <=> Holds(D, x) /\ x # d
  <2>1. ASSUME NEW x, Holds(E, x) PROVE Holds(D, x) /\ x # d
    <3>1. PICK i \in DOMAIN E : \E k \in DOMAIN E[i] : x = E[i][k]
      BY <2>1 DEF Holds
    <3>2. PICK k \in DOMAIN E[i] : x = E[i][k]
      BY <3>1
    <3>3. k \in DOMAIN D[i] /\ x = D[i][k] /\ ~(i = n /\ k = m)
      <4>1. n \in Nat /\ m \in Nat
        BY <1>1, <1>2
      <4> QED BY <1>6, <3>2, <4>1
    <3>4. x.id < d.id
      BY <1>1, <1>8, <3>3
    <3>5. x # d
      BY <1>9, <3>4
    <3> QED BY <1>1, <3>3, <3>5 DEF Holds
  <2>2. ASSUME NEW x, Holds(D, x), x # d PROVE Holds(E, x)
    <3>1. PICK i \in DOMAIN D : \E k \in DOMAIN D[i] : x = D[i][k]
      BY <2>2 DEF Holds
    <3>2. PICK k \in DOMAIN D[i] : x = D[i][k]
      BY <3>1
    <3>3. ~(i = n /\ k = m)
      BY <1>2, <2>2, <3>2
    <3> QED BY <1>1, <1>8, <3>2, <3>3 DEF Holds
  <2> QED BY <2>1, <2>2
<1> QED BY <1>2, <1>5, <1>7, <1>10, <1>11 DEF d

-----------------------------------------------------------------------------
(***************************************************************************)
(* Types.                                                                  *)
(***************************************************************************)

(***************************************************************************)
(* The frames of a call and of the script, and a frame from which Return   *)
(* has taken the last deferred call.                                       *)
(***************************************************************************)
LEMMA FrameTypes ==
  /\ Frame \in FrameType /\ ScriptFrame \in FrameType
  /\ \A f \in FrameType :
       f.defers # <<>> =>
         LET rest == [f EXCEPT !.returning = TRUE, !.defers = Front(@)]
         IN  rest \in FrameType /\ rest.returning /\ rest.defers = Front(f.defers)
<1>1. Frame \in FrameType /\ ScriptFrame \in FrameType
  <2>1. <<>> \in Seq(Entries)
    OBVIOUS
  <2> QED BY <2>1 DEF Frame, ScriptFrame, FrameType
<1>2. ASSUME NEW f \in FrameType, f.defers # <<>>
      PROVE  LET rest == [f EXCEPT !.returning = TRUE, !.defers = Front(@)]
             IN  rest \in FrameType /\ rest.returning /\ rest.defers = Front(f.defers)
  <2>1. f.defers \in Seq(Entries)
    BY DEF FrameType
  <2>2. Front(f.defers) \in Seq(Entries)
    BY <1>2, <2>1, FrontFacts
  <2> QED BY <2>2 DEF FrameType
<1> QED BY <1>1, <1>2

(***************************************************************************)
(* The stacks that the instructions make of a stack.                       *)
(***************************************************************************)
LEMMA StackTypes ==
  ASSUME Typed, NEW t \in Tasks
  PROVE  /\ {Frame, ScriptFrame} \subseteq FrameType
         /\ <<Frame>> \in Seq(FrameType)
         /\ Append(frames[t], Frame) \in Seq(FrameType)
         /\ frames[t] # <<>> =>
              /\ Top(t) \in FrameType /\ Top(t).defers \in Seq(Entries)
              /\ Front(frames[t]) \in Seq(FrameType)
              /\ \A x \in FrameType :
                   /\ Append(Front(frames[t]), x) \in Seq(FrameType)
                   /\ Front(frames[t]) \o <<x, Frame>> \in Seq(FrameType)
<1>1. frames[t] \in Seq(FrameType)
  BY DEF Typed
<1>2. Frame \in FrameType /\ ScriptFrame \in FrameType
  BY FrameTypes
<1>3. <<Frame>> \in Seq(FrameType)
  BY <1>2
<1>4. Append(frames[t], Frame) \in Seq(FrameType)
  BY <1>1, <1>2, AppendProperties
<1>5. ASSUME frames[t] # <<>>
      PROVE  /\ Top(t) \in FrameType /\ Top(t).defers \in Seq(Entries)
             /\ Front(frames[t]) \in Seq(FrameType)
             /\ \A x \in FrameType :
                  /\ Append(Front(frames[t]), x) \in Seq(FrameType)
                  /\ Front(frames[t]) \o <<x, Frame>> \in Seq(FrameType)
  <2>1. Top(t) \in FrameType /\ Front(frames[t]) \in Seq(FrameType)
    BY <1>1, <1>5, FrontFacts DEF Top
  <2>2. Top(t).defers \in Seq(Entries)
    BY <2>1 DEF FrameType
  <2>3. ASSUME NEW x \in FrameType
        PROVE  /\ Append(Front(frames[t]), x) \in Seq(FrameType)
               /\ Front(frames[t]) \o <<x, Frame>> \in Seq(FrameType)
    <3>1. Append(Front(frames[t]), x) \in Seq(FrameType)
      BY <1>1, <1>5, ReplaceLast
    <3>2. Front(frames[t]) \o <<x, Frame>> \in Seq(FrameType)
      BY <1>1, <1>2, <1>5, ReplaceLastAndPush
    <3> QED BY <3>1, <3>2
  <2> QED BY <2>1, <2>2, <2>3
<1> QED BY <1>2, <1>3, <1>4, <1>5

(***************************************************************************)
(* Registering a deferred call keeps the types.                            *)
(***************************************************************************)
LEMMA AddDeferTypes ==
  ASSUME Typed, NEW t \in Tasks, frames[t] # <<>>, NEW act \in Kinds, AddDefer(t, act)
  PROVE  /\ [act |-> act, id |-> Len(made[t]) + 1] \in Entries
         /\ [Top(t) EXCEPT !.defers = Append(@, [act |-> act, id |-> Len(made[t]) + 1])] \in FrameType
         /\ frames' \in [Tasks -> Seq(FrameType)]
         /\ made' \in [Tasks -> Seq(Kinds)]
<1> DEFINE d == [act |-> act, id |-> Len(made[t]) + 1]
           f == [Top(t) EXCEPT !.defers = Append(@, d)]
<1>1. made[t] \in Seq(Kinds)
  BY DEF Typed
<1>2. d \in Entries
  <2>1. Len(made[t]) \in Nat
    BY <1>1, LenProperties
  <2> QED BY <2>1 DEF Entries, Entry
<1>3. Top(t) \in FrameType /\ Top(t).defers \in Seq(Entries)
  BY StackTypes
<1>4. Append(Top(t).defers, d) \in Seq(Entries)
  BY <1>2, <1>3, AppendProperties
<1> HIDE DEF d
<1>5. f \in FrameType
  BY <1>3, <1>4 DEF FrameType
<1>6. Append(Front(frames[t]), f) \in Seq(FrameType)
  BY <1>5, StackTypes
<1>7. frames' = [frames EXCEPT ![t] = Append(Front(frames[t]), f)]
      /\ made' = [made EXCEPT ![t] = Append(@, act)]
  BY DEF AddDefer, SetFrames, d
<1>8. frames' \in [Tasks -> Seq(FrameType)]
  BY <1>6, <1>7 DEF Typed
<1>9. Append(made[t], act) \in Seq(Kinds)
  BY <1>1, AppendProperties
<1>10. made' \in [Tasks -> Seq(Kinds)]
  BY <1>7, <1>9 DEF Typed
<1> QED BY <1>2, <1>5, <1>8, <1>10 DEF d

(***************************************************************************)
(* Performing a deferred call keeps the types.                             *)
(***************************************************************************)
LEMMA PerformTypes ==
  ASSUME Typed, NEW t \in Tasks, NEW d \in Entries, Perform(t, d)
  PROVE  /\ owner' \in Tasks \cup {Nobody}
         /\ count' \in Nat
         /\ ran' \in [Tasks -> Seq(Nat \ {0})]
<1>1. owner \in Tasks \cup {Nobody} /\ count \in Nat /\ ran \in [Tasks -> Seq(Nat \ {0})]
  BY DEF Typed
<1>2. owner' \in Tasks \cup {Nobody}
  BY <1>1 DEF Perform
<1>3. count' \in Nat
  BY <1>1 DEF Perform
<1>4. d.id \in Nat \ {0}
  BY DEF Entries, Entry
<1>5. Append(ran[t], d.id) \in Seq(Nat \ {0})
  <2>1. ran[t] \in Seq(Nat \ {0})
    BY <1>1
  <2> QED BY <1>4, <2>1, AppendProperties
<1>6. ran' \in [Tasks -> Seq(Nat \ {0})]
  BY <1>1, <1>5 DEF Perform
<1> QED BY <1>2, <1>3, <1>6

(***************************************************************************)
(* The initial state: the main task alone, in its outermost frame.         *)
(***************************************************************************)
LEMMA TypedInit == Init => Typed
<1> SUFFICES ASSUME Init PROVE Typed
  OBVIOUS
<1>1. <<ScriptFrame>> \in Seq(FrameType) /\ <<>> \in Seq(FrameType)
  <2>1. ScriptFrame \in FrameType
    BY FrameTypes
  <2> QED BY <2>1
<1>2. frames \in [Tasks -> Seq(FrameType)]
  BY <1>1 DEF Init
<1>3. pending \in [Tasks -> Seq(Entries)] /\ made \in [Tasks -> Seq(Kinds)]
      /\ ran \in [Tasks -> Seq(Nat \ {0})]
  BY DEF Init
<1>4. mode \in [Tasks -> {"unborn", "run", "propagate", "fail", "completed", "failed"}]
  BY DEF Init
<1>5. need \in [Tasks -> {"none", "unlock", "done", "spawn"}]
      /\ want \in [Tasks -> {"none", "lock", "wait"}]
      /\ steps \in [Tasks -> Nat]
  BY DEF Init
<1>6. owner \in Tasks \cup {Nobody} /\ count \in Nat
  BY DEF Init
<1> QED BY <1>2, <1>3, <1>4, <1>5, <1>6 DEF Typed

(***************************************************************************)
(* Popping the top frame, whose deferred calls are to be unwound.          *)
(***************************************************************************)
LEMMA PopTypes ==
  ASSUME Typed, NEW t \in Tasks, frames[t] # <<>>, NEW how \in {"propagate", "fail", "completed"},
         PopTo(t, how)
  PROVE  /\ frames' \in [Tasks -> Seq(FrameType)]
         /\ pending' \in [Tasks -> Seq(Entries)]
         /\ mode' \in [Tasks -> {"unborn", "run", "propagate", "fail", "completed", "failed"}]
<1>1. Front(frames[t]) \in Seq(FrameType) /\ Top(t).defers \in Seq(Entries)
  BY StackTypes
<1>2. /\ frames' = [frames EXCEPT ![t] = Front(frames[t])]
      /\ pending' = [pending EXCEPT ![t] = Top(t).defers]
      /\ mode' = [mode EXCEPT ![t] = how]
  BY DEF PopTo, SetFrames
<1>3. frames' \in [Tasks -> Seq(FrameType)] /\ pending' \in [Tasks -> Seq(Entries)]
  BY <1>1, <1>2 DEF Typed
<1>4. mode' \in [Tasks -> {"unborn", "run", "propagate", "fail", "completed", "failed"}]
  BY <1>2 DEF Typed
<1> QED BY <1>3, <1>4

(***************************************************************************)
(* Every step keeps the types.                                             *)
(***************************************************************************)
LEMMA TypedNext == Typed /\ Control /\ [Next]_vars => Typed'
<1> SUFFICES ASSUME Typed, Control, [Next]_vars PROVE Typed'
  OBVIOUS
<1>1. CASE UNCHANGED vars
  BY <1>1 DEF Typed, vars, stack
<1>2. CASE Add
  <2>1. count' \in Nat /\ need' \in [Tasks -> {"none", "unlock", "done", "spawn"}]
    BY <1>2 DEF Add, Typed
  <2> QED BY <1>2, <2>1 DEF Add, Typed
<1>3. ASSUME NEW t \in Tasks, Task(t) PROVE Typed'
  <2>s. Step(t) => steps' \in [Tasks -> Nat]
    BY SMTT(60) DEF Step, Typed
  <2>f. Free(t) \/ CanReturn(t) => frames[t] # <<>>
    BY DEF Free, CanReturn, Control, ControlOf
  <2>p. Push(t) => frames' \in [Tasks -> Seq(FrameType)]
    <3>1. Append(frames[t], Frame) \in Seq(FrameType)
      BY StackTypes
    <3> QED BY <3>1 DEF Push, SetFrames, Typed
  <2>1. CASE Call(t)
    BY <2>1, <2>s, <2>p DEF Call, Typed
  <2>2. CASE TailCall(t)
    <3>1. frames' \in [Tasks -> Seq(FrameType)]
      <4>1. Append(Front(frames[t]), Frame) \in Seq(FrameType)
        BY <2>2, <2>f, StackTypes DEF TailCall
      <4>2. SetFrames(t, Append(Front(frames[t]), Frame)) => frames' \in [Tasks -> Seq(FrameType)]
        BY <4>1 DEF SetFrames, Typed
      <4> QED BY <2>2, <2>p, <4>2 DEF TailCall
    <3> QED BY <2>2, <2>s, <3>1 DEF TailCall, Typed
  <2>3. CASE Defer(t)
    <3>1. PICK act \in Deferrable : AddDefer(t, act)
      BY <2>3 DEF Defer
    <3>2. act \in Kinds
      BY DEF Kinds
    <3>3. frames[t] # <<>>
      BY <2>3, <2>f DEF Defer
    <3>4. frames' \in [Tasks -> Seq(FrameType)] /\ made' \in [Tasks -> Seq(Kinds)]
      BY <3>1, <3>2, <3>3, AddDeferTypes
    <3> QED BY <2>3, <2>s, <3>4 DEF Defer, Typed
  <2>4. CASE Want(t)
    <3>1. want' \in [Tasks -> {"none", "lock", "wait"}]
      BY <2>4 DEF Want, Typed
    <3> QED BY <2>4, <2>s, <3>1 DEF Want, Typed
  <2>5. ASSUME Acquire(t), steps' \in [Tasks -> Nat] PROVE Typed'
    <3>1. owner' \in Tasks \cup {Nobody}
      BY <2>5 DEF Acquire
    <3>2. need' \in [Tasks -> {"none", "unlock", "done", "spawn"}]
      BY <2>5 DEF Acquire, Typed
    <3>3. want' \in [Tasks -> {"none", "lock", "wait"}]
      BY <2>5 DEF Acquire, Typed
    <3> QED BY <2>5, <3>1, <3>2, <3>3 DEF Acquire, Typed
  <2>6. CASE Lock(t)
    <3>1. steps' \in [Tasks -> Nat]
      BY <2>6 DEF Lock, Typed
    <3> QED BY <2>5, <2>6, <3>1 DEF Lock
  <2>7. CASE TryLock(t)
    BY <2>5, <2>7, <2>s DEF TryLock
  <2>8. CASE DeferUnlock(t)
    <3>1. need' \in [Tasks -> {"none", "unlock", "done", "spawn"}]
      BY <2>8 DEF DeferUnlock, Typed
    <3>2. frames[t] # <<>>
      BY <2>8 DEF DeferUnlock, Control, ControlOf
    <3>3. /\ frames' \in [Tasks -> Seq(FrameType)] /\ made' \in [Tasks -> Seq(Kinds)]
          /\ owner' \in Tasks \cup {Nobody}
      <4>1. CASE AddDefer(t, "unlock") /\ UNCHANGED owner
        <5>1. "unlock" \in Kinds
          BY DEF Kinds
        <5>2. frames' \in [Tasks -> Seq(FrameType)] /\ made' \in [Tasks -> Seq(Kinds)]
          BY <3>2, <4>1, <5>1, AddDeferTypes
        <5> QED BY <4>1, <5>2 DEF Typed
      <4>2. CASE owner' = Nobody /\ UNCHANGED <<frames, made>>
        BY <4>2 DEF Typed
      <4> QED BY <2>8, <4>1, <4>2 DEF DeferUnlock
    <3> QED BY <2>8, <3>1, <3>3 DEF DeferUnlock, Typed
  <2>9. CASE Wait(t)
    <3>1. want' \in [Tasks -> {"none", "lock", "wait"}]
      BY <2>9 DEF Wait, Typed
    <3> QED BY <2>9, <3>1 DEF Wait, Typed
  <2>10. CASE Spawn(t)
    <3>1. <<Frame>> \in Seq(FrameType)
      BY StackTypes
    <3>2. frames' \in [Tasks -> Seq(FrameType)]
      BY <2>10, <3>1 DEF Spawn, SetFrames, Typed
    <3>3. need' \in [Tasks -> {"none", "unlock", "done", "spawn"}]
      BY <2>10 DEF Spawn, Typed
    <3>4. mode' \in [Tasks -> {"unborn", "run", "propagate", "fail", "completed", "failed"}]
      BY <2>10 DEF Spawn, Typed
    <3> QED BY <2>10, <3>2, <3>3, <3>4 DEF Spawn, Typed
  <2>11. CASE DeferDone(t)
    <3>1. need' \in [Tasks -> {"none", "unlock", "done", "spawn"}]
      BY <2>11 DEF DeferDone, Typed
    <3>2. frames[t] # <<>>
      BY <2>11 DEF DeferDone, Control, ControlOf
    <3>3. "done" \in Kinds
      BY DEF Kinds
    <3>4. frames' \in [Tasks -> Seq(FrameType)] /\ made' \in [Tasks -> Seq(Kinds)]
      BY <2>11, <3>2, <3>3, AddDeferTypes DEF DeferDone
    <3> QED BY <2>11, <3>1, <3>4 DEF DeferDone, Typed
  <2>12. CASE ReturnDeferred(t)
    <3> DEFINE d == Last(Top(t).defers)
               rest == [Top(t) EXCEPT !.returning = TRUE, !.defers = Front(@)]
    <3>1. frames[t] # <<>> /\ Top(t).defers # <<>>
      BY <2>12, <2>f DEF ReturnDeferred
    <3>2. Top(t).defers \in Seq(Entries)
      BY <3>1, StackTypes
    <3>3. d \in Entries
      BY <3>1, <3>2, FrontFacts
    <3>4. rest \in FrameType
      BY <3>1, StackTypes, FrameTypes
    <3>5. Append(Front(frames[t]), rest) \in Seq(FrameType)
          /\ Front(frames[t]) \o <<rest, Frame>> \in Seq(FrameType)
      BY <3>1, <3>4, StackTypes
    <3>6. d.id \in Nat \ {0} /\ ran[t] \in Seq(Nat \ {0})
      BY <3>3 DEF Entries, Entry, Typed
    <3>7. Append(ran[t], d.id) \in Seq(Nat \ {0})
      BY <3>6, AppendProperties
    <3>8. \/ /\ SetFrames(t, Front(frames[t]) \o <<rest, Frame>>)
             /\ ran' = [ran EXCEPT ![t] = Append(@, d.id)]
             /\ UNCHANGED <<owner, count>>
          \/ SetFrames(t, Append(Front(frames[t]), rest)) /\ Perform(t, d)
      BY <2>12 DEF ReturnDeferred
    <3>9. UNCHANGED <<pending, mode, need, want, steps, fatal, made>>
      BY <2>12 DEF ReturnDeferred
    <3> HIDE DEF d, rest
    <3>10. frames' \in [Tasks -> Seq(FrameType)]
      BY <3>5, <3>8 DEF SetFrames, Typed
    <3>11. /\ owner' \in Tasks \cup {Nobody} /\ count' \in Nat
           /\ ran' \in [Tasks -> Seq(Nat \ {0})]
      <4>1. CASE ran' = [ran EXCEPT ![t] = Append(@, d.id)] /\ UNCHANGED <<owner, count>>
        BY <3>7, <4>1 DEF Typed
      <4>2. CASE Perform(t, d)
        BY <3>3, <4>2, PerformTypes
      <4> QED BY <3>8, <4>1, <4>2
    <3> QED BY <3>9, <3>10, <3>11 DEF Typed
  <2>13. CASE Return(t)
    <3>1. Front(frames[t]) \in Seq(FrameType)
      BY <2>13, <2>f, StackTypes DEF Return
    <3>2. frames' \in [Tasks -> Seq(FrameType)]
      BY <2>13, <3>1 DEF Return, SetFrames, Typed
    <3>3. mode' \in [Tasks -> {"unborn", "run", "propagate", "fail", "completed", "failed"}]
      BY <2>13 DEF Return, Typed
    <3> QED BY <2>13, <3>2, <3>3 DEF Return, Typed
  <2>18. CASE End(t)
    <3>1. frames[t] # <<>> /\ PopTo(t, "completed")
      BY <2>18, <2>f DEF End
    <3>2. /\ frames' \in [Tasks -> Seq(FrameType)] /\ pending' \in [Tasks -> Seq(Entries)]
          /\ mode' \in [Tasks -> {"unborn", "run", "propagate", "fail", "completed", "failed"}]
      BY <3>1, PopTypes
    <3> QED BY <2>18, <3>2 DEF End, Typed
  <2>14. CASE Propagate(t)
    <3>1. frames[t] # <<>> /\ PopTo(t, "propagate")
      BY <2>14, <2>f DEF Propagate
    <3>2. /\ frames' \in [Tasks -> Seq(FrameType)] /\ pending' \in [Tasks -> Seq(Entries)]
          /\ mode' \in [Tasks -> {"unborn", "run", "propagate", "fail", "completed", "failed"}]
      BY <3>1, PopTypes
    <3> QED BY <2>14, <3>2 DEF Propagate, Typed
  <2>15. CASE Fail(t)
    <3>1. frames[t] # <<>>
      BY <2>15, <2>f DEF Fail
    <3>2. CASE t = Main
      <4>1. mode' \in [Tasks -> {"unborn", "run", "propagate", "fail", "completed", "failed"}]
        BY <2>15, <3>2 DEF Fail, Typed
      <4> QED BY <2>15, <3>2, <4>1 DEF Fail, Typed
    <3>3. CASE t # Main
      <4>1. /\ frames' \in [Tasks -> Seq(FrameType)] /\ pending' \in [Tasks -> Seq(Entries)]
            /\ mode' \in [Tasks -> {"unborn", "run", "propagate", "fail", "completed", "failed"}]
        BY <2>15, <3>1, <3>3, PopTypes DEF Fail
      <4> QED BY <2>15, <3>3, <4>1 DEF Fail, Typed
    <3> QED BY <3>2, <3>3
  <2>16. CASE Unwind(t)
    <3> DEFINE d == Last(pending[t])
    <3>1. pending[t] \in Seq(Entries) /\ pending[t] # <<>>
      BY <2>16 DEF Unwind, Typed
    <3>2. Front(pending[t]) \in Seq(Entries) /\ d \in Entries
      BY <3>1, FrontFacts
    <3>3. UNCHANGED <<owner, count, ran>> \/ Perform(t, d)
      BY <2>16 DEF Unwind
    <3> HIDE DEF d
    <3>4. /\ owner' \in Tasks \cup {Nobody} /\ count' \in Nat
          /\ ran' \in [Tasks -> Seq(Nat \ {0})]
      <4>1. CASE UNCHANGED <<owner, count, ran>>
        BY <4>1 DEF Typed
      <4>2. CASE Perform(t, d)
        BY <3>2, <4>2, PerformTypes
      <4> QED BY <3>3, <4>1, <4>2
    <3>5. pending' \in [Tasks -> Seq(Entries)]
      BY <2>16, <3>2 DEF Unwind, Typed
    <3> QED BY <2>16, <3>4, <3>5 DEF Unwind, Typed
  <2>17. CASE Unwound(t)
    <3>1. CASE mode[t] = "propagate"
      <4>1. mode' = [mode EXCEPT ![t] = "run"] /\ UNCHANGED <<frames, pending>>
        BY <2>17, <3>1 DEF Unwound
      <4>2. mode' \in [Tasks -> {"unborn", "run", "propagate", "fail", "completed", "failed"}]
        BY <4>1 DEF Typed
      <4> QED BY <2>17, <4>1, <4>2 DEF Unwound, Typed
    <3>2. CASE mode[t] # "propagate" /\ frames[t] # <<>>
      <4>1. /\ frames' \in [Tasks -> Seq(FrameType)] /\ pending' \in [Tasks -> Seq(Entries)]
            /\ mode' \in [Tasks -> {"unborn", "run", "propagate", "fail", "completed", "failed"}]
        BY <2>17, <3>2, PopTypes DEF Unwound
      <4> QED BY <2>17, <4>1 DEF Unwound, Typed
    <3>3. CASE mode[t] # "propagate" /\ frames[t] = <<>>
      <4>1. mode' = [mode EXCEPT ![t] = "failed"] /\ UNCHANGED <<frames, pending>>
        BY <2>17, <3>3 DEF Unwound
      <4>2. mode' \in [Tasks -> {"unborn", "run", "propagate", "fail", "completed", "failed"}]
        BY <4>1 DEF Typed
      <4> QED BY <2>17, <4>1, <4>2 DEF Unwound, Typed
    <3> QED BY <3>1, <3>2, <3>3
  <2> QED BY <1>3, <2>1, <2>2, <2>3, <2>4, <2>6, <2>7, <2>8, <2>9, <2>10, <2>11,
             <2>12, <2>13, <2>14, <2>15, <2>16, <2>17, <2>18 DEF Task
<1> QED BY <1>1, <1>2, <1>3 DEF Next

-----------------------------------------------------------------------------
(***************************************************************************)
(* Control.                                                                *)
(***************************************************************************)

\* What only a task's own steps change.
Untouched(u) == /\ frames'[u] = frames[u] /\ pending'[u] = pending[u]
                /\ mode'[u] = mode[u] /\ want'[u] = want[u]
                /\ made'[u] = made[u] /\ ran'[u] = ran[u]

(***************************************************************************)
(* A task changes its own stack only; spawning a worker fulfils the        *)
(* obligation of the main task as well.                                    *)
(***************************************************************************)
LEMMA Bystander ==
  ASSUME Typed, NEW t \in Tasks, Task(t), NEW u \in Tasks, u # t
  PROVE  /\ Untouched(u)
         /\ \/ need'[u] = need[u]
            \/ Spawn(t) /\ u = Main /\ need[u] = "spawn" /\ need'[u] = "none"
         /\ t # Main => fatal' = fatal
<1> USE DEF Typed, Untouched
<1>1. CASE Call(t)
  BY <1>1 DEF Call, Step, Push, SetFrames
<1>2. CASE TailCall(t)
  BY <1>2 DEF TailCall, Step, Push, SetFrames
<1>3. CASE Defer(t)
  BY <1>3 DEF Defer, Step, AddDefer, SetFrames
<1>4. CASE Want(t)
  BY <1>4 DEF Want, Step
<1>5. CASE Lock(t)
  BY <1>5 DEF Lock, Acquire
<1>6. CASE TryLock(t)
  BY <1>6 DEF TryLock, Acquire, Step
<1>7. CASE DeferUnlock(t)
  BY <1>7 DEF DeferUnlock, AddDefer, SetFrames
<1>8. CASE Wait(t)
  BY <1>8 DEF Wait
<1>9. CASE Spawn(t)
  <2>1. Untouched(u) /\ fatal' = fatal
    BY <1>9 DEF Spawn, SetFrames
  <2>2. need' = [need EXCEPT ![Main] = "none", ![t] = "done"] /\ need[Main] = "spawn"
    BY <1>9 DEF Spawn
  <2>3. u = Main => need'[u] = "none"
    BY <2>2
  <2>4. u # Main => need'[u] = need[u]
    BY <2>2
  <2> QED BY <1>9, <2>1, <2>2, <2>3, <2>4
<1>10. CASE DeferDone(t)
  BY <1>10 DEF DeferDone, AddDefer, SetFrames
<1>11. CASE ReturnDeferred(t)
  BY <1>11 DEF ReturnDeferred, Perform, SetFrames
<1>12. CASE Return(t)
  BY <1>12 DEF Return, SetFrames
<1>17. CASE End(t)
  BY <1>17 DEF End, PopTo, SetFrames
<1>13. CASE Propagate(t)
  BY <1>13 DEF Propagate, PopTo, SetFrames
<1>14. CASE Fail(t)
  BY <1>14 DEF Fail, PopTo, SetFrames
<1>15. CASE Unwind(t)
  BY <1>15 DEF Unwind, Perform
<1>16. CASE Unwound(t)
  BY <1>16 DEF Unwound, PopTo, SetFrames
<1> QED BY <1>1, <1>2, <1>3, <1>4, <1>5, <1>6, <1>7, <1>8, <1>9, <1>10, <1>11,
           <1>12, <1>13, <1>14, <1>15, <1>16, <1>17 DEF Task

(***************************************************************************)
(* Only the main task begins, in the body of its outermost frame.          *)
(***************************************************************************)
LEMMA ControlInit == Init => Control
<1> SUFFICES ASSUME Init, NEW t \in Tasks PROVE ControlOf(t)
  BY DEF Control
<1> USE DEF Init
<1>1. /\ frames[t] = IF t = Main THEN <<ScriptFrame>> ELSE <<>>
      /\ mode[t] = IF t = Main THEN "run" ELSE "unborn"
      /\ pending[t] = <<>> /\ need[t] = "none" /\ want[t] = "none" /\ fatal = FALSE
  OBVIOUS
<1>2. <<ScriptFrame>> # <<>> /\ Last(<<ScriptFrame>>) = ScriptFrame
  BY DEF Last
<1>3. ~ScriptFrame.returning
  BY DEF ScriptFrame, Frame
<1> QED BY <1>1, <1>2, <1>3 DEF ControlOf, Unwinding

(***************************************************************************)
(* The top of the stacks that the instructions make.                       *)
(***************************************************************************)
LEMMA TopFacts ==
  ASSUME Typed, NEW t \in Tasks
  PROVE  /\ Append(frames[t], Frame) # <<>>
         /\ Last(Append(frames[t], Frame)) = Frame
         /\ <<Frame>> # <<>> /\ Last(<<Frame>>) = Frame
         /\ frames[t] # <<>> =>
              \A x \in FrameType :
                /\ Append(Front(frames[t]), x) # <<>>
                /\ Last(Append(Front(frames[t]), x)) = x
                /\ Front(frames[t]) \o <<x, Frame>> # <<>>
                /\ Last(Front(frames[t]) \o <<x, Frame>>) = Frame
<1>1. frames[t] \in Seq(FrameType) /\ Frame \in FrameType
  BY StackTypes DEF Typed
<1>2. /\ Append(frames[t], Frame) \in Seq(FrameType)
      /\ Len(Append(frames[t], Frame)) = Len(frames[t]) + 1
      /\ Append(frames[t], Frame)[Len(frames[t]) + 1] = Frame
      /\ Len(frames[t]) \in Nat
  BY <1>1, AppendProperties, LenProperties
<1>3. Append(frames[t], Frame) # <<>> /\ Last(Append(frames[t], Frame)) = Frame
  BY <1>2 DEF Last
<1>4. <<Frame>> # <<>> /\ Last(<<Frame>>) = Frame
  BY DEF Last
<1>5. ASSUME frames[t] # <<>>, NEW x \in FrameType
      PROVE  /\ Append(Front(frames[t]), x) # <<>>
             /\ Last(Append(Front(frames[t]), x)) = x
             /\ Front(frames[t]) \o <<x, Frame>> # <<>>
             /\ Last(Front(frames[t]) \o <<x, Frame>>) = Frame
  BY <1>1, <1>5, LastOfStack
<1> QED BY <1>3, <1>4, <1>5

(***************************************************************************)
(* Registering a deferred call leaves the top frame where it was.          *)
(***************************************************************************)
LEMMA AddDeferTop ==
  ASSUME Typed, NEW t \in Tasks, frames[t] # <<>>, NEW act \in Kinds, AddDefer(t, act)
  PROVE  frames'[t] # <<>> /\ Top(t)'.returning = Top(t).returning
<1> DEFINE d == [act |-> act, id |-> Len(made[t]) + 1]
           f == [Top(t) EXCEPT !.defers = Append(@, d)]
<1>1. f \in FrameType
  BY AddDeferTypes
<1>2. frames'[t] = Append(Front(frames[t]), f)
  BY DEF AddDefer, SetFrames, Typed
<1>3. f.returning = Top(t).returning
  BY StackTypes DEF FrameType
<1> HIDE DEF f
<1>4. frames'[t] # <<>> /\ Last(frames'[t]) = f
  BY <1>1, <1>2, TopFacts
<1> QED BY <1>3, <1>4 DEF Top

(***************************************************************************)
(* Every step keeps the control of every task.                             *)
(***************************************************************************)
LEMMA ControlNext == Typed /\ Control /\ [Next]_vars => Control'
<1> SUFFICES ASSUME Typed, Control, [Next]_vars PROVE Control'
  OBVIOUS
<1>1. CASE UNCHANGED vars
  BY <1>1 DEF Control, ControlOf, Top, Unwinding, vars, stack
<1>2. CASE Add
  <2> SUFFICES ASSUME NEW u \in Tasks PROVE ControlOf(u)'
    BY DEF Control
  <2>1. ControlOf(u) /\ Free(Main)
    BY <1>2 DEF Add, Control
  <2>2. /\ UNCHANGED <<frames, pending, mode, want, fatal>>
        /\ need' = [need EXCEPT ![Main] = "spawn"]
    BY <1>2 DEF Add
  <2>3. CASE u = Main
    <3>1. need'[u] = "spawn" /\ want[u] = "none" /\ mode[u] = "run" /\ ~Top(u).returning
      BY <2>1, <2>2, <2>3 DEF Free, Typed
    <3> QED BY <2>1, <2>2, <2>3, <3>1 DEF ControlOf, Top, Unwinding
  <2>4. CASE u # Main
    <3>1. need'[u] = need[u]
      BY <2>2, <2>4 DEF Typed
    <3> QED BY <2>1, <2>2, <2>4, <3>1 DEF ControlOf, Top, Unwinding
  <2> QED BY <2>3, <2>4
<1>3. ASSUME NEW t \in Tasks, Task(t) PROVE Control'
  <2>1. ASSUME NEW u \in Tasks, u # t PROVE ControlOf(u)'
    <3>1. /\ Untouched(u) /\ need'[u] \in {need[u], "none"}
          /\ t # Main => fatal' = fatal
      BY <1>3, <2>1, Bystander
    <3>2. ControlOf(u)
      BY DEF Control
    <3>3. u = Main => fatal' = fatal
      BY <2>1, <3>1
    <3> QED BY <3>1, <3>2, <3>3 DEF ControlOf, Untouched, Top, Unwinding
  <2>2. ControlOf(t)'
    <3> USE DEF ControlOf
    <3>c. ControlOf(t)
      BY DEF Control
    <3>f. Free(t) \/ CanReturn(t) => frames[t] # <<>> /\ mode[t] = "run" /\ pending[t] = <<>>
      BY <3>c DEF Free, CanReturn, Unwinding
    <3>n. Free(t) => need[t] = "none" /\ want[t] = "none" /\ ~Top(t).returning
      BY DEF Free
    <3>r. CanReturn(t) => need[t] = "none" /\ want[t] = "none"
      BY <3>c, <3>n DEF CanReturn
    <3>t. /\ Append(frames[t], Frame) # <<>> /\ Last(Append(frames[t], Frame)) = Frame
          /\ frames[t] # <<>> => /\ Append(Front(frames[t]), Frame) # <<>>
                                 /\ Last(Append(Front(frames[t]), Frame)) = Frame
      BY TopFacts, StackTypes
    <3>1. CASE Call(t)
      <4>1. frames'[t] = Append(frames[t], Frame)
        BY <3>1 DEF Call, Push, SetFrames, Typed
      <4>2. Free(t) /\ UNCHANGED <<pending, mode, need, want, fatal>>
        BY <3>1 DEF Call
      <4> QED BY <3>c, <3>f, <3>n, <3>t, <4>1, <4>2 DEF Unwinding
    <3>2. CASE TailCall(t)
      <4>1. frames'[t] \in {Append(frames[t], Frame), Append(Front(frames[t]), Frame)}
        BY <3>2 DEF TailCall, Push, SetFrames, Typed
      <4>2. Free(t) /\ UNCHANGED <<pending, mode, need, want, fatal>>
        BY <3>2 DEF TailCall
      <4> QED BY <3>c, <3>f, <3>n, <3>t, <4>1, <4>2 DEF Unwinding
    <3>3. CASE Defer(t)
      <4>1. frames'[t] # <<>>
        <5>1. PICK act \in Deferrable : AddDefer(t, act)
          BY <3>3 DEF Defer
        <5> QED BY <3>3, <3>f, <5>1, AddDeferTop DEF Defer, Kinds
      <4>2. Free(t) /\ UNCHANGED <<pending, mode, need, want, fatal>>
        BY <3>3 DEF Defer
      <4> QED BY <3>c, <3>f, <3>n, <4>1, <4>2 DEF Unwinding
    <3>4. CASE Want(t)
      <4>1. PICK w \in {"lock", "wait"} : (w = "wait" => t = Main) /\ want' = [want EXCEPT ![t] = w]
        BY <3>4 DEF Want
      <4>2. Free(t) /\ UNCHANGED <<frames, pending, mode, need, fatal>>
        BY <3>4 DEF Want
      <4>3. want'[t] = w
        BY <4>1 DEF Typed
      <4> QED BY <3>c, <3>f, <3>n, <4>1, <4>2, <4>3 DEF Unwinding, Top
    <3>5. CASE Lock(t) \/ TryLock(t)
      <4>1. /\ UNCHANGED <<frames, pending, mode, fatal>>
            /\ need'[t] = "unlock" /\ want'[t] = "none"
        BY <3>5 DEF Lock, TryLock, Acquire, Typed
      <4>2. mode[t] = "run" /\ ~Top(t).returning
        BY <3>5, <3>c, <3>f, <3>n DEF Lock, TryLock
      <4> QED BY <3>c, <4>1, <4>2 DEF Unwinding, Top
    <3>6. CASE DeferUnlock(t) \/ DeferDone(t)
      <4>1. /\ UNCHANGED <<pending, mode, want, fatal>> /\ need'[t] = "none"
        BY <3>6 DEF DeferUnlock, DeferDone, Typed
      <4>2. mode[t] = "run" /\ want[t] = "none" /\ frames[t] # <<>>
        BY <3>6, <3>c DEF DeferUnlock, DeferDone
      <4>3. frames'[t] # <<>>
        <5>1. AddDefer(t, "unlock") => frames'[t] # <<>>
          BY <4>2, AddDeferTop DEF Kinds
        <5>2. AddDefer(t, "done") => frames'[t] # <<>>
          BY <4>2, AddDeferTop DEF Kinds
        <5> QED BY <3>6, <4>2, <5>1, <5>2 DEF DeferUnlock, DeferDone
      <4> QED BY <3>c, <4>1, <4>2, <4>3 DEF Unwinding
    <3>7. CASE Wait(t)
      <4>1. UNCHANGED <<frames, pending, mode, need, fatal>> /\ want'[t] = "none"
        BY <3>7 DEF Wait, Typed
      <4> QED BY <3>c, <4>1 DEF Unwinding, Top
    <3>8. CASE Spawn(t)
      <4>1. mode[t] = "unborn" /\ t # Main
        BY <3>8, <3>c DEF Spawn
      <4>2. /\ UNCHANGED <<pending, want, fatal>>
            /\ frames'[t] = <<Frame>> /\ mode'[t] = "run" /\ need'[t] = "done"
        BY <3>8, <4>1 DEF Spawn, SetFrames, Typed
      <4>3. Last(<<Frame>>) = Frame /\ <<Frame>> # <<>> /\ ~Frame.returning
        BY TopFacts DEF Frame
      <4> QED BY <3>c, <4>1, <4>2, <4>3 DEF Unwinding, Top
    <3>9. CASE ReturnDeferred(t)
      <4> DEFINE rest == [Top(t) EXCEPT !.returning = TRUE, !.defers = Front(@)]
      <4>1. CanReturn(t) /\ UNCHANGED <<pending, mode, need, want, fatal>>
        BY <3>9 DEF ReturnDeferred
      <4>2. rest \in FrameType
        <5>1. Top(t) \in FrameType /\ Top(t).defers # <<>>
          BY <3>9, <3>f, StackTypes DEF ReturnDeferred
        <5> QED BY <5>1, FrameTypes
      <4>3. frames'[t] \in {Front(frames[t]) \o <<rest, Frame>>, Append(Front(frames[t]), rest)}
        BY <3>9 DEF ReturnDeferred, SetFrames, Typed
      <4>4. frames'[t] # <<>>
        BY <3>f, <4>1, <4>2, <4>3, TopFacts
      <4> QED BY <3>c, <3>f, <3>r, <4>1, <4>4 DEF Unwinding
    <3>10. CASE Return(t)
      <4>1. /\ CanReturn(t) /\ UNCHANGED <<pending, need, want, fatal>>
            /\ frames'[t] = Front(frames[t])
            /\ mode'[t] = IF Len(frames[t]) = 1 THEN "completed" ELSE "run"
        BY <3>10 DEF Return, SetFrames, Typed
      <4>2. Len(Front(frames[t])) = Len(frames[t]) - 1 /\ Len(frames[t]) \in Nat \ {0}
            /\ Front(frames[t]) \in Seq(FrameType)
        <5>1. frames[t] \in Seq(FrameType) /\ frames[t] # <<>>
          BY <3>f, <4>1 DEF Typed
        <5> QED BY <5>1, FrontFacts
      <4>3. Len(frames[t]) = 1 => frames'[t] = <<>>
        BY <4>1, <4>2, EmptySeq
      <4>4. Len(frames[t]) # 1 => frames'[t] # <<>>
        <5>1. Len(<<>>) = 0
          OBVIOUS
        <5>2. Len(frames[t]) # 1 => Len(Front(frames[t])) # 0
          BY <4>2
        <5> QED BY <4>1, <5>1, <5>2, Zenon
      <4>5. t = Main => fatal' = (mode'[t] = "failed")
        BY <3>c, <3>f, <4>1
      <4> QED BY <3>c, <3>f, <3>r, <4>1, <4>3, <4>4, <4>5 DEF Unwinding
    <3>16. CASE End(t)
      <4>1. /\ t = Main /\ Free(t) /\ Len(frames[t]) = 1 /\ UNCHANGED <<need, want, fatal>>
            /\ frames'[t] = Front(frames[t]) /\ mode'[t] = "completed"
        BY <3>16 DEF End, PopTo, SetFrames, Typed
      <4>2. frames'[t] = <<>>
        <5>1. frames[t] \in Seq(FrameType) /\ frames[t] # <<>>
          BY <3>f, <4>1 DEF Typed
        <5>2. Front(frames[t]) \in Seq(FrameType) /\ Len(Front(frames[t])) = 0
          BY <4>1, <5>1, FrontFacts
        <5> QED BY <4>1, <5>2, EmptySeq
      <4> QED BY <3>c, <3>f, <3>n, <4>1, <4>2
    <3>11. ASSUME NEW how \in {"propagate", "fail"}, PopTo(t, how), UNCHANGED <<need, want, fatal>>,
                  need[t] = "none", want[t] = "none", frames[t] # <<>>,
                  how = "fail" => t # Main, how = "propagate" => Len(frames[t]) > 1,
                  t = Main => mode[t] # "failed"
           PROVE  ControlOf(t)'
      <4>1. frames'[t] = Front(frames[t]) /\ mode'[t] = how
        BY <3>11 DEF PopTo, SetFrames, Typed
      <4>2. Len(Front(frames[t])) = Len(frames[t]) - 1 /\ Len(frames[t]) \in Nat \ {0}
        <5>1. frames[t] \in Seq(FrameType) /\ frames[t] # <<>>
          BY <3>11 DEF Typed
        <5> QED BY <5>1, FrontFacts
      <4>3. how = "propagate" => frames'[t] # <<>>
        <5>1. Len(<<>>) = 0
          OBVIOUS
        <5> QED BY <3>11, <4>1, <4>2, <5>1
      <4>4. t = Main => fatal' = (mode'[t] = "failed")
        BY <3>c, <3>11, <4>1
      <4> QED BY <3>11, <4>1, <4>3, <4>4 DEF Unwinding
    <3>12. CASE Propagate(t)
      BY <3>12, <3>f, <3>n, <3>11 DEF Propagate
    <3>13. CASE Fail(t)
      <4>1. CASE t = Main
        <5>1. UNCHANGED <<frames, pending, need, want>> /\ fatal' = TRUE /\ mode'[t] = "failed"
          BY <3>13, <4>1 DEF Fail, Typed
        <5>2. need[t] = "none" /\ want[t] = "none" /\ pending[t] = <<>>
          BY <3>13, <3>f, <3>r DEF Fail
        <5> QED BY <4>1, <5>1, <5>2 DEF Unwinding
      <4>2. CASE t # Main
        BY <3>13, <3>f, <3>r, <3>11, <4>2 DEF Fail
      <4> QED BY <4>1, <4>2
    <3>14. CASE Unwind(t)
      <4>1. Unwinding(t) /\ UNCHANGED <<frames, mode, need, want, fatal>>
        BY <3>14 DEF Unwind
      <4> QED BY <3>c, <4>1 DEF Unwinding, Top
    <3>15. CASE Unwound(t)
      <4>1. Unwinding(t) /\ pending[t] = <<>> /\ UNCHANGED <<need, want, fatal>>
        BY <3>15 DEF Unwound
      <4>2. need[t] = "none" /\ want[t] = "none"
        BY <3>c, <4>1 DEF Unwinding
      <4>3. CASE mode[t] = "propagate"
        <5>1. UNCHANGED <<frames, pending>> /\ mode'[t] = "run"
          BY <3>15, <4>3 DEF Unwound, Typed
        <5> QED BY <3>c, <4>1, <4>2, <4>3, <5>1 DEF Unwinding
      <4>4. CASE mode[t] = "fail" /\ frames[t] # <<>>
        <5>1. PopTo(t, "fail")
          BY <3>15, <4>4 DEF Unwound
        <5> QED BY <3>c, <3>11, <4>1, <4>2, <4>4, <5>1
      <4>5. CASE mode[t] = "fail" /\ frames[t] = <<>>
        <5>1. UNCHANGED <<frames, pending>> /\ mode'[t] = "failed"
          BY <3>15, <4>5 DEF Unwound, Typed
        <5> QED BY <3>c, <4>1, <4>2, <4>5, <5>1 DEF Unwinding
      <4> QED BY <4>1, <4>3, <4>4, <4>5 DEF Unwinding
    <3> QED BY <1>3, <3>1, <3>2, <3>3, <3>4, <3>5, <3>6, <3>7, <3>8, <3>9, <3>10,
               <3>12, <3>13, <3>14, <3>15, <3>16 DEF Task
  <2> QED BY <2>1, <2>2 DEF Control
<1> QED BY <1>1, <1>2, <1>3 DEF Next

-----------------------------------------------------------------------------
(***************************************************************************)
(* The ledger of deferred calls.                                           *)
(***************************************************************************)

\* The stack is kept, a frame is pushed, replaced, or left with its calls pending.
StackMoves(fs, p, gs, q) ==
  \/ gs = fs /\ q = p
  \/ gs = Append(fs, Frame) /\ p = <<>> /\ q = <<>>
  \/ fs # <<>> /\ Last(fs).defers = <<>> /\ gs = Append(Front(fs), Frame) /\ q = p
  \/ fs # <<>> /\ gs = Front(fs) /\ p = <<>> /\ q = Last(fs).defers

(***************************************************************************)
(* Calls, tail calls, returns and the unwinding of a frame move deferred   *)
(* calls between frames and the list being unwound, and lose none.         *)
(***************************************************************************)
LEMMA StackMovesKeep ==
  ASSUME NEW fs \in Seq(FrameType), NEW gs \in Seq(FrameType),
         NEW p \in Seq(Entries), NEW q \in Seq(Entries), StackMoves(fs, p, gs, q)
  PROVE  /\ Sorted(DebtOf(fs, p)) => Sorted(DebtOf(gs, q))
         /\ OwedOf(gs, q) = OwedOf(fs, p)
<1> DEFINE D == DebtOf(fs, p)
           E == DebtOf(gs, q)
           n == Len(fs)
<1>1. /\ n \in Nat /\ D \in Stacks /\ Len(D) = n + 1 /\ D[n + 1] = p
      /\ \A i \in 1 .. n : D[i] = fs[i].defers
      /\ fs # <<>> => n > 0 /\ Last(fs) = fs[n]
  BY DebtFacts
<1>2. /\ E \in Stacks /\ Len(E) = Len(gs) + 1 /\ E[Len(gs) + 1] = q
      /\ \A i \in 1 .. Len(gs) : E[i] = gs[i].defers
  BY DebtFacts
<1>3. Frame \in FrameType /\ Frame.defers = <<>>
  <2>1. <<>> \in Seq(Entries)
    OBVIOUS
  <2> QED BY <2>1 DEF Frame, FrameType
<1> HIDE DEF D, E
<1>4. SameDebt(D, E)
  <2>1. CASE gs = fs /\ q = p
    BY <2>1 DEF SameDebt, D, E
  <2>2. CASE gs = Append(fs, Frame) /\ p = <<>> /\ q = <<>>
    <3>1. /\ Len(gs) = n + 1 /\ gs[n + 1] = Frame
          /\ \A i \in 1 .. n : gs[i] = fs[i]
      BY <1>3, <2>2, AppendProperties
    <3>2. \A i \in 1 .. n : E[i] = D[i]
      BY <1>1, <1>2, <3>1
    <3>3. E[n + 1] = D[n + 1]
      BY <1>1, <1>2, <1>3, <2>2, <3>1
    <3>4. \A i \in 1 .. n + 1 : E[i] = D[i]
      <4>1. \A i \in 1 .. n + 1 : i \in 1 .. n \/ i = n + 1
        BY <1>1
      <4> QED BY <3>2, <3>3, <4>1, Zenon
    <3>5. Len(E) = Len(D) + 1 /\ E[Len(E)] = <<>>
      BY <1>1, <1>2, <2>2, <3>1
    <3> QED BY <1>1, <1>2, <3>4, <3>5, DebtPadded
  <2>3. CASE fs # <<>> /\ Last(fs).defers = <<>> /\ gs = Append(Front(fs), Frame) /\ q = p
    <3>1. Len(gs) = n /\ gs[n] = Frame /\ \A i \in 1 .. n : i # n => gs[i] = fs[i]
      <4>1. Frame \in FrameType
        BY <1>3
      <4> HIDE DEF Frame
      <4> QED BY <2>3, <4>1, ReplaceLast, SMTT(60)
    <3>2. \A i \in 1 .. n : i # n => E[i] = D[i]
      BY <1>1, <1>2, <3>1
    <3>3. E[n] = D[n] /\ E[n + 1] = D[n + 1]
      BY <1>1, <1>2, <1>3, <2>3, <3>1
    <3>4. \A i \in 1 .. Len(D) : E[i] = D[i]
      <4>1. \A i \in 1 .. Len(D) : i \in 1 .. n \/ i = n + 1
        BY <1>1
      <4> QED BY <3>2, <3>3, <4>1, Zenon
    <3>5. Len(E) = Len(D)
      BY <1>1, <1>2, <3>1
    <3>6. E = D
      <4>1. E \in Seq(Seq(Entries)) /\ D \in Seq(Seq(Entries))
        BY <1>1, <1>2 DEF Stacks
      <4>2. \A i \in 1 .. Len(E) : E[i] = D[i]
        BY <3>4, <3>5
      <4> QED BY <3>5, <4>1, <4>2, SeqEqual
    <3> QED BY <3>6 DEF SameDebt
  <2>4. CASE fs # <<>> /\ gs = Front(fs) /\ p = <<>> /\ q = Last(fs).defers
    <3>1. Len(gs) = n - 1 /\ \A i \in 1 .. n : i # n => gs[i] = fs[i]
      BY <2>4, FrontFacts
    <3>2. \A i \in 1 .. n : i # n => E[i] = D[i]
      <4>1. \A i \in 1 .. n : i # n => i \in 1 .. Len(gs)
        BY <1>1, <2>4, <3>1
      <4> QED BY <1>1, <1>2, <3>1, <4>1
    <3>3. E[n] = D[n] /\ Len(E) = n
      BY <1>1, <1>2, <2>4, <3>1
    <3>4. \A i \in 1 .. Len(E) : D[i] = E[i]
      BY <3>2, <3>3, Zenon
    <3>5. Len(D) = Len(E) + 1 /\ D[Len(D)] = <<>>
      BY <1>1, <2>4, <3>3
    <3> QED BY <1>1, <1>2, <3>4, <3>5, DebtPadded
  <2> QED BY <2>1, <2>2, <2>3, <2>4 DEF StackMoves
<1>5. OwedOf(gs, q) = OwedOf(fs, p)
  <2>1. \A d : d \in OwedOf(fs, p) <=> Holds(D, d)
    BY OwedFacts DEF D
  <2>2. \A d : d \in OwedOf(gs, q) <=> Holds(E, d)
    BY OwedFacts DEF E
  <2> QED BY <1>4, <2>1, <2>2 DEF SameDebt
<1> QED BY <1>4, <1>5 DEF SameDebt, D, E

\* Frame f is the top frame of fs with d registered in it.
Empty(p) == p = <<>>
Adds(fs, p, f, d) == /\ f.defers = Append(Last(fs).defers, d)
                     /\ \A x \in OwedOf(fs, p) : x.id < d.id

(***************************************************************************)
(* The top frame gets one more deferred call, which was registered last.   *)
(***************************************************************************)
LEMMA OwedAdded ==
  ASSUME NEW fs \in Seq(FrameType), fs # <<>>, NEW f \in FrameType, NEW d \in Entries,
         NEW p \in Seq(Entries), Empty(p), Adds(fs, p, f, d)
  PROVE  LET gs == Append(Front(fs), f) IN
         /\ Sorted(DebtOf(fs, p)) => Sorted(DebtOf(gs, p))
         /\ OwedOf(gs, p) = OwedOf(fs, p) \cup {d}
<1> DEFINE gs == Append(Front(fs), f)
           D == DebtOf(fs, p)
           E == DebtOf(gs, p)
           n == Len(fs)
<1>1. /\ n \in Nat \ {0} /\ D \in Stacks /\ Len(D) = n + 1 /\ DOMAIN D = 1 .. n + 1
      /\ D[n + 1] = p /\ \A i \in 1 .. n : D[i] = fs[i].defers
      /\ Last(fs) = fs[n]
  BY DebtFacts
<1>2. gs \in Seq(FrameType) /\ Len(gs) = n /\ gs[n] = f /\ \A i \in 1 .. n : i # n => gs[i] = fs[i]
  BY ReplaceLast
<1> HIDE DEF gs
<1>3. /\ E \in Stacks /\ Len(E) = n + 1 /\ E[n + 1] = p
      /\ \A i \in 1 .. n : E[i] = gs[i].defers
  BY <1>2, DebtFacts
<1>4. \A x : x \in OwedOf(fs, p) <=> Holds(D, x)
  BY OwedFacts
<1>5. \A x : x \in OwedOf(gs, p) <=> Holds(E, x)
  BY <1>2, OwedFacts
<1> HIDE DEF D, E
<1>6. E[n] = Append(D[n], d) /\ n \in DOMAIN D
  BY <1>1, <1>2, <1>3 DEF Adds
<1>l. Len(E) = Len(D)
  BY <1>1, <1>3
<1>7. \A i \in DOMAIN D : i # n => E[i] = D[i]
  <2> SUFFICES ASSUME NEW i \in 1 .. n + 1, i # n PROVE E[i] = D[i]
    BY <1>1
  <2>1. CASE i = n + 1
    BY <1>1, <1>3, <2>1
  <2>2. CASE i # n + 1
    <3>1. i \in 1 .. n
      BY <1>1, <2>2
    <3> QED BY <1>1, <1>2, <1>3, <3>1
  <2> QED BY <2>1, <2>2
<1>8. \A i \in DOMAIN D : i > n => D[i] = <<>>
  <2> SUFFICES ASSUME NEW i \in 1 .. n + 1, i > n PROVE D[i] = <<>>
    BY <1>1
  <2>1. i = n + 1
    BY <1>1
  <2>2. p = <<>>
    BY DEF Empty
  <2> QED BY <1>1, <2>1, <2>2
<1>9. \A x : Holds(D, x) => x.id < d.id
  BY <1>4 DEF Adds
<1>t. AddedAt(D, E, n, d)
  BY <1>6, <1>7, <1>8, <1>9, <1>l DEF AddedAt
<1>10. /\ Sorted(D) => Sorted(E)
       /\ \A x : Holds(E, x) <=> Holds(D, x) \/ x = d
  BY <1>1, <1>3, <1>t, DebtAdded
<1>11. OwedOf(gs, p) = OwedOf(fs, p) \cup {d}
  BY <1>4, <1>5, <1>10
<1> QED BY <1>10, <1>11 DEF D, E, gs

\* Frame f is the top frame of fs without its last deferred call.
Takes(fs, f) == Last(fs).defers # <<>> /\ f.defers = Front(Last(fs).defers)

(***************************************************************************)
(* Return takes the last deferred call of the top frame, with or without a *)
(* frame of its own for it.                                                *)
(***************************************************************************)
LEMMA OwedTakenByReturn ==
  ASSUME NEW fs \in Seq(FrameType), fs # <<>>, NEW f \in FrameType, Takes(fs, f),
         NEW p \in Seq(Entries), Empty(p), Sorted(DebtOf(fs, p)),
         NEW gs, gs \in {Append(Front(fs), f), Front(fs) \o <<f, Frame>>},
         NEW d, d = Last(Last(fs).defers)
  PROVE  /\ d \in OwedOf(fs, p) /\ Sorted(DebtOf(gs, p))
         /\ OwedOf(gs, p) = OwedOf(fs, p) \ {d}
         /\ \A x \in OwedOf(fs, p) : x.id <= d.id
<1> DEFINE hs == Append(Front(fs), f)
           D == DebtOf(fs, p)
           E == DebtOf(hs, p)
           n == Len(fs)
<1>e. Frame \in FrameType
  <2>1. <<>> \in Seq(Entries)
    OBVIOUS
  <2> QED BY <2>1 DEF Frame, FrameType
<1>1. /\ n \in Nat \ {0} /\ D \in Stacks /\ Len(D) = n + 1 /\ DOMAIN D = 1 .. n + 1
      /\ D[n + 1] = p /\ \A i \in 1 .. n : D[i] = fs[i].defers
      /\ Last(fs) = fs[n]
  BY DebtFacts
<1>2. hs \in Seq(FrameType) /\ Len(hs) = n /\ hs[n] = f /\ \A i \in 1 .. n : i # n => hs[i] = fs[i]
  BY ReplaceLast, SMTT(90)
<1>g. StackMoves(hs, p, gs, p) /\ gs \in Seq(FrameType)
  <2>1. CASE gs = hs
    BY <1>2, <2>1 DEF StackMoves
  <2>2. CASE gs = Front(fs) \o <<f, Frame>>
    <3>e. p = <<>>
      BY DEF Empty
    <3>1. /\ gs \in Seq(FrameType) /\ Len(gs) = n + 1 /\ gs[n] = f /\ gs[n + 1] = Frame
          /\ \A i \in 1 .. n : i # n => gs[i] = fs[i]
      <4>1. ASSUME NEW S, NEW s \in Seq(S), s # <<>>, NEW y \in S, NEW z \in S
            PROVE  LET r == Front(s) \o <<y, z>> IN
                   /\ r \in Seq(S) /\ Len(r) = Len(s) + 1
                   /\ r[Len(s)] = y /\ r[Len(s) + 1] = z
                   /\ \A i \in 1 .. Len(s) : i # Len(s) => r[i] = s[i]
        BY <4>1, ReplaceLastAndPush
      <4> HIDE DEF Frame
      <4>2. LET r == Front(fs) \o <<f, Frame>> IN
            /\ r \in Seq(FrameType) /\ Len(r) = n + 1
            /\ r[n] = f /\ r[n + 1] = Frame
            /\ \A i \in 1 .. n : i # n => r[i] = fs[i]
        BY <1>e, <4>1
      <4> QED BY <2>2, <4>2
    <3>2. /\ Append(hs, Frame) \in Seq(FrameType) /\ Len(Append(hs, Frame)) = n + 1
          /\ Append(hs, Frame)[n + 1] = Frame
          /\ \A i \in 1 .. n : Append(hs, Frame)[i] = hs[i]
      BY <1>e, <1>2, AppendProperties
    <3>3. \A i \in 1 .. Len(gs) : gs[i] = Append(hs, Frame)[i]
      <4> HIDE DEF hs
      <4> SUFFICES ASSUME NEW i \in 1 .. n + 1 PROVE gs[i] = Append(hs, Frame)[i]
        BY <3>1
      <4>1. (i \in 1 .. n /\ i # n) \/ i = n \/ i = n + 1
        BY <1>1
      <4>2. CASE i \in 1 .. n /\ i # n
        BY <1>2, <3>1, <3>2, <4>2
      <4>3. CASE i = n
        <5>1. i \in 1 .. n
          BY <1>1, <4>3
        <5> QED BY <1>2, <3>1, <3>2, <4>3, <5>1
      <4> QED BY <3>1, <3>2, <4>1, <4>2, <4>3
    <3>4. gs = Append(hs, Frame)
      <4> HIDE DEF hs
      <4> QED BY <3>1, <3>2, <3>3, SeqEqual
    <3> QED BY <3>1, <3>e, <3>4 DEF StackMoves
  <2> QED BY <2>1, <2>2
<1>h. /\ Sorted(DebtOf(hs, p)) => Sorted(DebtOf(gs, p))
      /\ OwedOf(gs, p) = OwedOf(hs, p)
  <2> HIDE DEF hs
  <2> QED BY <1>2, <1>g, StackMovesKeep
<1> HIDE DEF hs
<1>3. /\ E \in Stacks /\ Len(E) = n + 1 /\ E[n + 1] = p
      /\ \A i \in 1 .. n : E[i] = hs[i].defers
  BY <1>2, DebtFacts
<1>4. \A x : x \in OwedOf(fs, p) <=> Holds(D, x)
  BY OwedFacts
<1>5. \A x : x \in OwedOf(hs, p) <=> Holds(E, x)
  BY <1>2, OwedFacts
<1>s. Sorted(D)
  OBVIOUS
<1> HIDE DEF D, E
<1>6. D[n] = Last(fs).defers /\ E[n] = Front(D[n]) /\ D[n] # <<>> /\ n \in DOMAIN D
  BY <1>1, <1>2, <1>3 DEF Takes
<1>7. \A i \in DOMAIN D : i # n => E[i] = D[i]
  <2> SUFFICES ASSUME NEW i \in 1 .. n + 1, i # n PROVE E[i] = D[i]
    BY <1>1
  <2>1. CASE i = n + 1
    BY <1>1, <1>3, <2>1
  <2>2. CASE i # n + 1
    <3>1. i \in 1 .. n
      BY <1>1, <2>2
    <3> QED BY <1>1, <1>2, <1>3, <3>1
  <2> QED BY <2>1, <2>2
<1>8. \A i \in DOMAIN D : i > n => D[i] = <<>>
  <2> SUFFICES ASSUME NEW i \in 1 .. n + 1, i > n PROVE D[i] = <<>>
    BY <1>1
  <2>1. i = n + 1
    BY <1>1
  <2>2. p = <<>>
    BY DEF Empty
  <2> QED BY <1>1, <2>1, <2>2
<1>t. TakenAt(D, E, n) /\ Last(D[n]) = d
  <2>1. Len(E) = Len(D)
    BY <1>1, <1>3
  <2> QED BY <1>6, <1>7, <1>8, <2>1 DEF TakenAt
<1>9. /\ Sorted(E) /\ Holds(D, d)
      /\ \A x : Holds(E, x) <=> Holds(D, x) /\ x # d
      /\ \A x : Holds(D, x) => x.id <= d.id
  BY <1>1, <1>3, <1>s, <1>t, DebtTaken
<1>10. d \in OwedOf(fs, p) /\ \A x \in OwedOf(fs, p) : x.id <= d.id
  BY <1>4, <1>9
<1>11. OwedOf(hs, p) = OwedOf(fs, p) \ {d}
  BY <1>4, <1>5, <1>9
<1> QED BY <1>h, <1>9, <1>10, <1>11 DEF E

(***************************************************************************)
(* The unwinding takes the last deferred call of the list.                 *)
(***************************************************************************)
LEMMA OwedTakenByUnwind ==
  ASSUME NEW fs \in Seq(FrameType), NEW p \in Seq(Entries), p # <<>>, Sorted(DebtOf(fs, p))
  PROVE  /\ Last(p) \in OwedOf(fs, p) /\ Sorted(DebtOf(fs, Front(p)))
         /\ OwedOf(fs, Front(p)) = OwedOf(fs, p) \ {Last(p)}
         /\ \A x \in OwedOf(fs, p) : x.id <= Last(p).id
<1> DEFINE D == DebtOf(fs, p)
           E == DebtOf(fs, Front(p))
           n == Len(fs)
<1>1. /\ n \in Nat /\ D \in Stacks /\ Len(D) = n + 1 /\ DOMAIN D = 1 .. n + 1
      /\ D[n + 1] = p /\ \A i \in 1 .. n : D[i] = fs[i].defers
  BY DebtFacts
<1>2. Front(p) \in Seq(Entries)
  BY FrontFacts
<1>3. /\ E \in Stacks /\ Len(E) = n + 1 /\ E[n + 1] = Front(p)
      /\ \A i \in 1 .. n : E[i] = fs[i].defers
  BY <1>2, DebtFacts
<1>4. \A x : x \in OwedOf(fs, p) <=> Holds(D, x)
  BY OwedFacts
<1>5. \A x : x \in OwedOf(fs, Front(p)) <=> Holds(E, x)
  BY <1>2, OwedFacts
<1>s. Sorted(D)
  OBVIOUS
<1> HIDE DEF D, E
<1>6. n + 1 \in DOMAIN D /\ E[n + 1] = Front(D[n + 1]) /\ D[n + 1] # <<>>
  BY <1>1, <1>3
<1>7. \A i \in DOMAIN D : i # n + 1 => E[i] = D[i]
  BY <1>1, <1>3
<1>8. \A i \in DOMAIN D : i > n + 1 => D[i] = <<>>
  BY <1>1
<1>t. TakenAt(D, E, n + 1) /\ Last(D[n + 1]) = Last(p)
  <2>1. Len(E) = Len(D)
    BY <1>1, <1>3
  <2> QED BY <1>1, <1>6, <1>7, <1>8, <2>1 DEF TakenAt
<1>9. /\ Sorted(E) /\ Holds(D, Last(p))
      /\ \A x : Holds(E, x) <=> Holds(D, x) /\ x # Last(p)
      /\ \A x : Holds(D, x) => x.id <= Last(p).id
  BY <1>1, <1>3, <1>s, <1>t, DebtTaken
<1>10. Last(p) \in OwedOf(fs, p) /\ \A x \in OwedOf(fs, p) : x.id <= Last(p).id
  BY <1>4, <1>9
<1>11. OwedOf(fs, Front(p)) = OwedOf(fs, p) \ {Last(p)}
  BY <1>4, <1>5, <1>9
<1> QED BY <1>9, <1>10, <1>11 DEF E

(***************************************************************************)
(* What the debt of a task is made of.                                     *)
(***************************************************************************)
LEMMA StackOf ==
  ASSUME Typed, NEW t \in Tasks
  PROVE  /\ frames[t] \in Seq(FrameType) /\ pending[t] \in Seq(Entries)
         /\ Listed(t) = OwedOf(frames[t], pending[t]) /\ Listed(t) \subseteq Entries
         /\ Debt(t) = DebtOf(frames[t], pending[t])
         /\ made[t] \in Seq(Kinds) /\ ran[t] \in Seq(Nat \ {0})
<1>1. frames[t] \in Seq(FrameType) /\ pending[t] \in Seq(Entries)
  BY DEF Typed
<1>2. made[t] \in Seq(Kinds) /\ ran[t] \in Seq(Nat \ {0})
  BY DEF Typed
<1>3. Listed(t) = OwedOf(frames[t], pending[t])
  BY DEF Listed, OwedOf
<1>4. Listed(t) \subseteq Entries
  BY <1>1, <1>3, OwedFacts
<1> QED BY <1>1, <1>2, <1>3, <1>4 DEF Debt

(***************************************************************************)
(* A deferred call is known by its kind and its number.                    *)
(***************************************************************************)
LEMMA SameEntry ==
  ASSUME NEW x \in Entries, NEW y \in Entries, x.act = y.act, x.id = y.id
  PROVE  x = y
BY DEF Entries, Entry

(***************************************************************************)
(* What the steps of other tasks do not touch keeps its ledger.            *)
(***************************************************************************)
LEMMA UntouchedLedger ==
  ASSUME NEW u \in Tasks, Untouched(u)
  PROVE  /\ Listed(u)' = Listed(u)
         /\ LedgerOf(u) => LedgerOf(u)'
<1>1. frames'[u] = frames[u] /\ pending'[u] = pending[u]
      /\ made'[u] = made[u] /\ ran'[u] = ran[u]
  BY DEF Untouched
<1>2. Listed(u)' = Listed(u)
  BY <1>1 DEF Listed
<1>3. Debt(u)' = Debt(u)
  BY <1>1 DEF Debt
<1> QED BY <1>1, <1>2, <1>3 DEF LedgerOf

\* The steps of t that move its deferred calls about.
Moves(t) == \/ Call(t) \/ TailCall(t) \/ Want(t) \/ Lock(t) \/ TryLock(t) \/ Wait(t)
            \/ Spawn(t) \/ Return(t) \/ End(t) \/ Propagate(t) \/ Fail(t) \/ Unwound(t)

(***************************************************************************)
(* Most steps lose no deferred call and add none.                          *)
(***************************************************************************)
LEMMA MovesKeep ==
  ASSUME Typed, Typed', Control, NEW t \in Tasks, Moves(t)
  PROVE  /\ Listed(t)' = Listed(t)
         /\ Sorted(Debt(t)) => Sorted(Debt(t))'
         /\ made'[t] = made[t] /\ ran'[t] = ran[t]
<1>c. ControlOf(t)
  BY DEF Control
<1>f. Free(t) \/ CanReturn(t) => frames[t] # <<>> /\ pending[t] = <<>>
  BY <1>c DEF Free, CanReturn, ControlOf, Unwinding
<1>0. frames[t] \in Seq(FrameType) /\ pending[t] \in Seq(Entries)
      /\ frames'[t] \in Seq(FrameType) /\ pending'[t] \in Seq(Entries)
  BY DEF Typed
<1> DEFINE Goal == /\ StackMoves(frames[t], pending[t], frames'[t], pending'[t])
                   /\ made'[t] = made[t] /\ ran'[t] = ran[t]
<1>a. ASSUME Push(t), UNCHANGED pending, pending[t] = <<>>
      PROVE  StackMoves(frames[t], pending[t], frames'[t], pending'[t])
  <2>1. frames'[t] = Append(frames[t], Frame)
    BY <1>a DEF Push, SetFrames, Typed
  <2> QED BY <1>a, <2>1 DEF StackMoves
<1>p. ASSUME NEW how, PopTo(t, how), pending[t] = <<>>, frames[t] # <<>>
      PROVE  StackMoves(frames[t], pending[t], frames'[t], pending'[t])
  <2>1. frames'[t] = Front(frames[t]) /\ pending'[t] = Last(frames[t]).defers
    BY <1>p DEF PopTo, SetFrames, Typed, Top
  <2> QED BY <1>p, <2>1 DEF StackMoves
<1>s. UNCHANGED <<frames, pending>> => StackMoves(frames[t], pending[t], frames'[t], pending'[t])
  BY DEF StackMoves
<1>1. Goal
  <2>1. CASE Call(t)
    BY <2>1, <1>f, <1>a DEF Call
  <2>2. CASE TailCall(t)
    <3>1. Free(t) /\ UNCHANGED <<pending, made, ran>>
      BY <2>2 DEF TailCall
    <3>2. CASE Top(t).defers = <<>>
      <4>1. frames'[t] = Append(Front(frames[t]), Frame)
        BY <2>2, <3>2 DEF TailCall, SetFrames, Typed
      <4>2. StackMoves(frames[t], pending[t], frames'[t], pending'[t])
        BY <1>f, <3>1, <3>2, <4>1 DEF StackMoves, Top
      <4> QED BY <3>1, <4>2
    <3>3. CASE Top(t).defers # <<>>
      BY <1>f, <1>a, <2>2, <3>1, <3>3 DEF TailCall
    <3> QED BY <3>2, <3>3
  <2>3. CASE Want(t)
    BY <2>3, <1>s DEF Want
  <2>4. CASE Lock(t) \/ TryLock(t)
    BY <2>4, <1>s DEF Lock, TryLock, Acquire
  <2>5. CASE Wait(t)
    BY <2>5, <1>s DEF Wait
  <2>6. CASE Spawn(t)
    <3>1. mode[t] = "unborn" /\ frames[t] = <<>> /\ pending[t] = <<>>
      BY <1>c, <2>6 DEF Spawn, ControlOf, Unwinding
    <3>2. frames'[t] = <<Frame>> /\ UNCHANGED <<pending, made, ran>>
      BY <2>6 DEF Spawn, SetFrames, Typed
    <3>3. <<Frame>> = Append(<<>>, Frame)
      OBVIOUS
    <3>4. StackMoves(frames[t], pending[t], frames'[t], pending'[t])
      BY <3>1, <3>2, <3>3 DEF StackMoves
    <3> QED BY <3>2, <3>4
  <2>7. CASE Return(t)
    <3>1. /\ CanReturn(t) /\ Top(t).defers = <<>> /\ frames'[t] = Front(frames[t])
          /\ UNCHANGED <<pending, made, ran>>
      BY <2>7 DEF Return, SetFrames, Typed
    <3>2. StackMoves(frames[t], pending[t], frames'[t], pending'[t])
      BY <1>f, <3>1 DEF StackMoves, Top
    <3> QED BY <3>1, <3>2
  <2>11. CASE End(t)
    BY <2>11, <1>f, <1>p DEF End
  <2>8. CASE Propagate(t)
    BY <2>8, <1>f, <1>p DEF Propagate
  <2>9. CASE Fail(t)
    BY <2>9, <1>f, <1>p, <1>s DEF Fail
  <2>10. CASE Unwound(t)
    BY <2>10, <1>p, <1>s DEF Unwound
  <2> QED BY <2>1, <2>2, <2>3, <2>4, <2>5, <2>6, <2>7, <2>8, <2>9, <2>10, <2>11
          DEF Moves
<1>2. /\ Sorted(DebtOf(frames[t], pending[t])) => Sorted(DebtOf(frames'[t], pending'[t]))
      /\ OwedOf(frames'[t], pending'[t]) = OwedOf(frames[t], pending[t])
  BY <1>0, <1>1, StackMovesKeep
<1> QED BY <1>1, <1>2 DEF Listed, OwedOf, Debt

\* t registers a deferred call act and does nothing else to its stack.
Registers(t, act) == /\ frames[t] # <<>> /\ pending[t] = <<>> /\ pending'[t] = pending[t]
                     /\ AddDefer(t, act) /\ ran'[t] = ran[t]
NewEntry(t, act) == [act |-> act, id |-> Len(made[t]) + 1]

(***************************************************************************)
(* A deferred call that is registered is owed from then on (DeferCall).    *)
(***************************************************************************)
LEMMA RegistersOwes ==
  ASSUME Typed, Typed', NEW t \in Tasks, NEW act \in Kinds, Registers(t, act), LedgerOf(t)
  PROVE  /\ NewEntry(t, act) \notin Listed(t) /\ Listed(t)' = Listed(t) \cup {NewEntry(t, act)}
         /\ LedgerOf(t)'
<1> DEFINE f == [Top(t) EXCEPT !.defers = Append(@, NewEntry(t, act))]
<1>1. frames[t] \in Seq(FrameType) /\ pending[t] \in Seq(Entries) /\ frames[t] # <<>>
      /\ Listed(t) = OwedOf(frames[t], pending[t]) /\ Listed(t) \subseteq Entries
      /\ Debt(t) = DebtOf(frames[t], pending[t])
      /\ made[t] \in Seq(Kinds) /\ ran[t] \in Seq(Nat \ {0})
  BY StackOf DEF Registers
<1>2. PICK d : d = NewEntry(t, act)
  OBVIOUS
<1>3. d \in Entries /\ f \in FrameType
  BY <1>2, AddDeferTypes DEF Registers, NewEntry
<1>4. d.id = Len(made[t]) + 1 /\ d.act = act
  BY <1>2 DEF NewEntry
<1>5. Len(made[t]) \in Nat /\ DOMAIN made[t] = 1 .. Len(made[t])
  BY <1>1, LenProperties
<1>6. \A x \in Listed(t) : x.id \in 1 .. Len(made[t]) /\ x.id < d.id
  BY <1>4, <1>5 DEF LedgerOf
<1>7. d \notin Listed(t)
  BY <1>4, <1>5, <1>6
<1>8. frames'[t] = Append(Front(frames[t]), f) /\ pending'[t] = pending[t]
      /\ made'[t] = Append(made[t], act) /\ ran'[t] = ran[t]
  BY DEF Registers, AddDefer, SetFrames, Typed, NewEntry
<1>9. f.defers = Append(Last(frames[t]).defers, d)
  <2>1. Top(t) \in FrameType
    BY <1>1, StackTypes
  <2> QED BY <1>2, <2>1 DEF FrameType, Top
<1> HIDE DEF f
<1>10. Adds(frames[t], pending[t], f, d)
  BY <1>1, <1>6, <1>9 DEF Adds
<1>11. Empty(pending[t])
  BY DEF Registers, Empty
<1>12. /\ Sorted(DebtOf(frames[t], pending[t])) => Sorted(DebtOf(frames'[t], pending'[t]))
       /\ OwedOf(frames'[t], pending'[t]) = OwedOf(frames[t], pending[t]) \cup {d}
  BY <1>1, <1>3, <1>8, <1>10, <1>11, OwedAdded
<1>13. Listed(t)' = Listed(t) \cup {d} /\ Debt(t)' = DebtOf(frames'[t], pending'[t])
  BY <1>12 DEF Listed, OwedOf, Debt
<1>14. LedgerOf(t)'
  <2>1. Sorted(Debt(t))'
    BY <1>1, <1>12, <1>13 DEF LedgerOf
  <2>2. /\ DOMAIN made'[t] = 1 .. Len(made[t]) + 1 /\ made'[t][Len(made[t]) + 1] = act
        /\ \A i \in 1 .. Len(made[t]) : made'[t][i] = made[t][i]
    BY <1>1, <1>5, <1>8, AppendProperties, LenProperties
  <2>3. \A i \in DOMAIN made'[t] : i \in DOMAIN made[t] \/ i = d.id
    BY <1>4, <1>5, <2>2
  <2>4. DOMAIN made[t] \subseteq DOMAIN made'[t] /\ d.id \in DOMAIN made'[t]
    BY <1>4, <1>5, <2>2
  <2>5. Range(ran[t]) \subseteq DOMAIN made[t]
    BY DEF LedgerOf
  <2>6. \A x \in Listed(t)' : /\ x.id \in DOMAIN made'[t] /\ made'[t][x.id] = x.act
                            /\ x.id \notin Range(ran'[t])
    <3>1. ASSUME NEW x \in Listed(t)
          PROVE  /\ x.id \in DOMAIN made'[t] /\ made'[t][x.id] = x.act
                 /\ x.id \notin Range(ran'[t])
      BY <1>5, <1>8, <2>2, <2>4 DEF LedgerOf
    <3>2. /\ d.id \in DOMAIN made'[t] /\ made'[t][d.id] = d.act
          /\ d.id \notin Range(ran'[t])
      BY <1>4, <1>5, <1>8, <2>2, <2>4, <2>5
    <3> QED BY <1>13, <3>1, <3>2
  <2>7. \A i \in DOMAIN made'[t] : \/ made'[t][i] = "call"
                                   \/ i \in Range(ran'[t])
                                   \/ \E x \in Listed(t)' : x.id = i
    BY <1>5, <1>8, <1>13, <2>2, <2>3 DEF LedgerOf
  <2>8. IsInjective(ran'[t]) /\ Range(ran'[t]) \subseteq DOMAIN made'[t]
    BY <1>8, <2>4, <2>5 DEF LedgerOf
  <2> QED BY <2>1, <2>6, <2>7, <2>8 DEF LedgerOf
<1> QED BY <1>2, <1>7, <1>13, <1>14

\* t executes, or drops, the deferred call d, the last one it registered.
Executes(t, d) ==
  /\ d \in Listed(t) /\ \A x \in Listed(t) : x.id <= d.id
  /\ Listed(t)' = Listed(t) \ {d} /\ Sorted(Debt(t))' /\ made'[t] = made[t]
  /\ \/ d.act # "call" /\ Perform(t, d)
     \/ /\ d.act = "call" /\ UNCHANGED <<owner, count>>
        /\ ran'[t] \in {ran[t], Append(ran[t], d.id)}

(***************************************************************************)
(* Return and the unwinding take the deferred call that was registered     *)
(* last.                                                                   *)
(***************************************************************************)
LEMMA ExecutesLast ==
  ASSUME Typed, Typed', Control, NEW t \in Tasks, LedgerOf(t), ReturnDeferred(t) \/ Unwind(t)
  PROVE  /\ \E d \in Entries : Executes(t, d)
         /\ UNCHANGED <<need, want, mode, fatal>>
<1>1. frames[t] \in Seq(FrameType) /\ pending[t] \in Seq(Entries)
      /\ Listed(t) = OwedOf(frames[t], pending[t]) /\ Listed(t) \subseteq Entries
      /\ Debt(t) = DebtOf(frames[t], pending[t])
  BY StackOf
<1>2. Sorted(DebtOf(frames[t], pending[t]))
  BY <1>1 DEF LedgerOf
<1>3. Listed(t)' = OwedOf(frames'[t], pending'[t]) /\ Debt(t)' = DebtOf(frames'[t], pending'[t])
  BY DEF Listed, OwedOf, Debt
<1>4. CASE ReturnDeferred(t)
  <2> DEFINE d == Last(Top(t).defers)
             rest == [Top(t) EXCEPT !.returning = TRUE, !.defers = Front(@)]
  <2>1. frames[t] # <<>> /\ pending[t] = <<>> /\ Top(t).defers # <<>>
    BY <1>4 DEF ReturnDeferred, Free, CanReturn, Control, ControlOf, Unwinding
  <2>2. Top(t).defers \in Seq(Entries) /\ Top(t) = Last(frames[t])
    BY <2>1, StackTypes DEF Top
  <2>3. rest \in FrameType /\ rest.defers = Front(Top(t).defers)
    BY <2>1, StackTypes, FrameTypes
  <2>4. frames'[t] \in {Append(Front(frames[t]), rest), Front(frames[t]) \o <<rest, Frame>>}
        /\ UNCHANGED <<pending, need, want, mode, fatal, made>>
    BY <1>4 DEF ReturnDeferred, SetFrames, Typed
  <2>5. \/ d.act # "call" /\ Perform(t, d)
        \/ /\ d.act = "call" /\ UNCHANGED <<owner, count>>
           /\ ran' = [ran EXCEPT ![t] = Append(@, d.id)]
    BY <1>4 DEF ReturnDeferred
  <2>6. Takes(frames[t], rest) /\ Empty(pending[t])
    BY <2>1, <2>2, <2>3 DEF Takes, Empty
  <2>d. d = Last(Last(frames[t]).defers)
    BY <2>2
  <2>t. d \in Entries
    BY <2>1, <2>2, FrontFacts
  <2> HIDE DEF d, rest
  <2>7. /\ d \in OwedOf(frames[t], pending[t])
        /\ Sorted(DebtOf(frames'[t], pending[t]))
        /\ OwedOf(frames'[t], pending[t]) = OwedOf(frames[t], pending[t]) \ {d}
        /\ \A x \in OwedOf(frames[t], pending[t]) : x.id <= d.id
    <3>1. frames'[t] \in {Append(Front(frames[t]), rest), Front(frames[t]) \o <<rest, Frame>>}
      BY <2>4
    <3>2. frames[t] # <<>>
      BY <2>1
    <3>3. frames[t] \in Seq(FrameType) /\ pending[t] \in Seq(Entries)
      BY <1>1
    <3>4. ASSUME NEW fs \in Seq(FrameType), NEW p \in Seq(Entries), NEW gs,
                 gs \in {Append(Front(fs), rest), Front(fs) \o <<rest, Frame>>},
                 fs # <<>>, Takes(fs, rest), Empty(p), Sorted(DebtOf(fs, p)),
                 d = Last(Last(fs).defers)
          PROVE  /\ d \in OwedOf(fs, p) /\ Sorted(DebtOf(gs, p))
                 /\ OwedOf(gs, p) = OwedOf(fs, p) \ {d}
                 /\ \A x \in OwedOf(fs, p) : x.id <= d.id
      BY <2>3, <3>4, OwedTakenByReturn
    <3> QED BY <1>2, <2>6, <2>d, <3>1, <3>2, <3>3, <3>4, Zenon
  <2>8. d.act = "call" => ran'[t] \in {ran[t], Append(ran[t], d.id)}
    BY <2>5 DEF Typed
  <2>9. Executes(t, d)
    BY <1>1, <1>3, <2>4, <2>5, <2>7, <2>8 DEF Executes
  <2> QED BY <2>4, <2>9, <2>t
<1>5. CASE Unwind(t)
  <2> DEFINE d == Last(pending[t])
  <2>1. pending[t] # <<>> /\ pending'[t] = Front(pending[t])
        /\ UNCHANGED <<frames, need, want, mode, fatal, made>>
    BY <1>5 DEF Unwind, Typed
  <2>2. \/ d.act # "call" /\ Perform(t, d)
        \/ d.act = "call" /\ UNCHANGED <<owner, count, ran>>
    BY <1>5 DEF Unwind
  <2>t. d \in Entries
    BY <1>1, <2>1, FrontFacts
  <2>3. /\ d \in OwedOf(frames[t], pending[t])
        /\ Sorted(DebtOf(frames[t], Front(pending[t])))
        /\ OwedOf(frames[t], Front(pending[t])) = OwedOf(frames[t], pending[t]) \ {d}
        /\ \A x \in OwedOf(frames[t], pending[t]) : x.id <= d.id
    BY <1>1, <1>2, <2>1, OwedTakenByUnwind
  <2> HIDE DEF d
  <2>4. Executes(t, d)
    BY <1>1, <1>3, <2>1, <2>2, <2>3 DEF Executes
  <2> QED BY <2>1, <2>4, <2>t
<1> QED BY <1>4, <1>5

(***************************************************************************)
(* The ledger of a task that executes a deferred call.                     *)
(***************************************************************************)
LEMMA ExecutesLedger ==
  ASSUME Typed, NEW t \in Tasks, LedgerOf(t), NEW d \in Entries, Executes(t, d)
  PROVE  LedgerOf(t)'
<1>1. Listed(t) \subseteq Entries /\ made[t] \in Seq(Kinds) /\ ran[t] \in Seq(Nat \ {0})
  BY StackOf
<1>2. d \in Listed(t) /\ Listed(t)' = Listed(t) \ {d} /\ Sorted(Debt(t))' /\ made'[t] = made[t]
  BY DEF Executes
<1>3. d.id \in DOMAIN made[t] /\ made[t][d.id] = d.act /\ d.id \notin Range(ran[t])
  BY <1>2 DEF LedgerOf
<1>4. \A x \in Listed(t) \ {d} : x.id # d.id
  <2> SUFFICES ASSUME NEW x \in Listed(t), x.id = d.id PROVE x = d
    OBVIOUS
  <2>1. made[t][x.id] = x.act
    BY DEF LedgerOf
  <2>2. x.act = d.act /\ x \in Entries
    BY <1>1, <1>3, <2>1
  <2> QED BY <2>2, SameEntry
<1>5. ran'[t] = Append(ran[t], d.id) \/ (ran'[t] = ran[t] /\ d.act = "call")
  BY DEF Executes, Perform, Typed
<1>6. /\ IsInjective(ran'[t])
      /\ Range(ran[t]) \subseteq Range(ran'[t]) /\ Range(ran'[t]) \subseteq Range(ran[t]) \cup {d.id}
      /\ d.id \in Range(ran'[t]) \/ made[t][d.id] = "call"
  <2>1. CASE ran'[t] = ran[t] /\ d.act = "call"
    BY <1>3, <2>1 DEF LedgerOf
  <2>2. CASE ran'[t] = Append(ran[t], d.id)
    <3>1. d.id \in Nat \ {0}
      BY DEF Entries, Entry
    <3>2. Range(Append(ran[t], d.id)) = Range(ran[t]) \cup {d.id}
          /\ IsInjective(Append(ran[t], d.id))
      BY <1>1, <1>3, <3>1, PushFacts DEF LedgerOf
    <3> QED BY <2>2, <3>2
  <2> QED BY <1>5, <2>1, <2>2
<1>7. \A x \in Listed(t)' : /\ x.id \in DOMAIN made'[t] /\ made'[t][x.id] = x.act
                          /\ x.id \notin Range(ran'[t])
  BY <1>2, <1>4, <1>6 DEF LedgerOf
<1>8. Range(ran'[t]) \subseteq DOMAIN made'[t]
  BY <1>2, <1>3, <1>6 DEF LedgerOf
<1>9. \A i \in DOMAIN made'[t] : \/ made'[t][i] = "call"
                                 \/ i \in Range(ran'[t])
                                 \/ \E x \in Listed(t)' : x.id = i
  <2> SUFFICES ASSUME NEW i \in DOMAIN made[t], made[t][i] # "call", i \notin Range(ran'[t])
               PROVE  \E x \in Listed(t)' : x.id = i
    BY <1>2
  <2>1. PICK x \in Listed(t) : x.id = i
    BY <1>6 DEF LedgerOf
  <2>2. x # d
    BY <1>6, <2>1
  <2> QED BY <1>2, <2>1, <2>2
<1> QED BY <1>2, <1>6, <1>7, <1>8, <1>9 DEF LedgerOf

(***************************************************************************)
(* At first there is nothing in the ledger.                                *)
(***************************************************************************)
LEMMA LedgerInit == Init => Ledger /\ \A t \in Tasks : Listed(t) = {}
<1> SUFFICES ASSUME Init, NEW t \in Tasks PROVE LedgerOf(t) /\ Listed(t) = {}
  BY DEF Ledger
<1>1. Typed
  BY TypedInit
<1>2. /\ frames[t] \in {<<>>, <<ScriptFrame>>} /\ pending[t] = <<>>
      /\ made[t] = <<>> /\ ran[t] = <<>>
  BY DEF Init
<1>3. frames[t] \in Seq(FrameType) /\ pending[t] \in Seq(Entries)
      /\ Debt(t) = DebtOf(frames[t], pending[t]) /\ Listed(t) = OwedOf(frames[t], pending[t])
  BY <1>1, StackOf
<1>4. \A i \in DOMAIN Debt(t) : DOMAIN Debt(t)[i] = {}
  <2>1. /\ Len(frames[t]) \in Nat /\ DOMAIN Debt(t) = 1 .. Len(frames[t]) + 1
        /\ Debt(t)[Len(frames[t]) + 1] = pending[t]
        /\ \A i \in 1 .. Len(frames[t]) : Debt(t)[i] = frames[t][i].defers
    BY <1>3, DebtFacts
  <2>2. \A i \in 1 .. Len(frames[t]) : frames[t][i].defers = <<>>
    BY <1>2 DEF ScriptFrame, Frame
  <2>3. \A i \in 1 .. Len(frames[t]) + 1 : i \in 1 .. Len(frames[t]) \/ i = Len(frames[t]) + 1
    BY <2>1
  <2>4. \A i \in DOMAIN Debt(t) : Debt(t)[i] = <<>>
    BY <1>2, <2>1, <2>2, <2>3, Zenon
  <2> QED BY <2>4
<1>5. Sorted(Debt(t))
  BY <1>4 DEF Sorted
<1>6. Listed(t) = {}
  <2>1. \A d : d \in Listed(t) <=> Holds(Debt(t), d)
    BY <1>3, OwedFacts
  <2> QED BY <1>4, <2>1 DEF Holds
<1>7. IsInjective(ran[t]) /\ Range(ran[t]) = {} /\ DOMAIN made[t] = {}
  BY <1>2 DEF IsInjective, Range
<1> QED BY <1>5, <1>6, <1>7 DEF LedgerOf

\* t registers a deferred call: which, and in what it differs otherwise.
Registering(t) == Defer(t) \/ DeferDone(t) \/ (DeferUnlock(t) /\ AddDefer(t, "unlock"))
Unlocking(t) == DeferUnlock(t) /\ owner' = Nobody /\ UNCHANGED <<frames, made>>

(***************************************************************************)
(* The three instructions that defer a call.                               *)
(***************************************************************************)
LEMMA RegisteringFacts ==
  ASSUME Typed, Control, NEW t \in Tasks, Registering(t)
  PROVE  \E act \in Kinds :
           /\ Registers(t, act)
           /\ UNCHANGED <<owner, count, want, mode, fatal>>
           /\ \/ act \in Deferrable /\ UNCHANGED need
              \/ act \in {"unlock", "done"} /\ need[t] = act /\ need' = [need EXCEPT ![t] = "none"]
<1>c. ControlOf(t)
  BY DEF Control
<1>1. CASE Defer(t)
  <2>1. PICK act \in Deferrable : AddDefer(t, act)
    BY <1>1 DEF Defer
  <2>2. frames[t] # <<>> /\ pending[t] = <<>>
    BY <1>1, <1>c DEF Defer, Free, ControlOf, Unwinding
  <2>3. /\ UNCHANGED <<pending, ran>> /\ UNCHANGED <<owner, count, want, mode, fatal>>
        /\ UNCHANGED need
    BY <1>1 DEF Defer
  <2>4. Registers(t, act)
    BY <2>1, <2>2, <2>3 DEF Registers
  <2> QED BY <2>3, <2>4 DEF Kinds
<1>2. CASE DeferDone(t) \/ (DeferUnlock(t) /\ AddDefer(t, "unlock"))
  <2>1. need[t] \in {"unlock", "done"} /\ AddDefer(t, need[t])
    BY <1>2 DEF DeferDone, DeferUnlock
  <2>2. frames[t] # <<>> /\ pending[t] = <<>>
    BY <1>c, <2>1 DEF ControlOf, Unwinding
  <2>3. /\ UNCHANGED <<pending, ran>> /\ UNCHANGED <<count, want, mode, fatal>>
        /\ need' = [need EXCEPT ![t] = "none"]
    BY <1>2 DEF DeferDone, DeferUnlock
  <2>4. Registers(t, need[t])
    BY <2>1, <2>2, <2>3 DEF Registers
  <2>5. UNCHANGED owner
    <3>1. made'[t] # made[t]
      <4>1. made'[t] = Append(made[t], need[t]) /\ made[t] \in Seq(Kinds) /\ need[t] \in Kinds
        BY <2>1 DEF AddDefer, Typed, Kinds
      <4>2. Len(made'[t]) = Len(made[t]) + 1 /\ Len(made[t]) \in Nat
        BY <4>1, AppendProperties, LenProperties
      <4> QED BY <4>2
    <3> QED BY <1>2, <3>1 DEF DeferDone, DeferUnlock
  <2> QED BY <2>1, <2>3, <2>4, <2>5 DEF Kinds
<1> QED BY <1>1, <1>2 DEF Registering

(***************************************************************************)
(* Every step of a task moves, registers or executes its deferred calls,   *)
(* or unlocks the mutex.                                                   *)
(***************************************************************************)
LEMMA TaskKinds ==
  ASSUME NEW t, Task(t)
  PROVE  Moves(t) \/ Registering(t) \/ Unlocking(t) \/ ReturnDeferred(t) \/ Unwind(t)
<1>1. DeferUnlock(t) => Registering(t) \/ Unlocking(t)
  BY DEF DeferUnlock, Registering, Unlocking
<1> QED BY <1>1 DEF Task, Moves, Registering

(***************************************************************************)
(* Every step keeps the ledgers.                                           *)
(***************************************************************************)
LEMMA LedgerNext ==
  Typed /\ Typed' /\ Control /\ Ledger /\ [Next]_vars => Ledger'
<1> SUFFICES ASSUME Typed, Typed', Control, Ledger, [Next]_vars, NEW u \in Tasks PROVE LedgerOf(u)'
  BY DEF Ledger
<1>u. LedgerOf(u)
  BY DEF Ledger
<1>1. CASE UNCHANGED vars \/ Add
  <2>1. Untouched(u)
    BY <1>1 DEF Add, Untouched, vars, stack
  <2> QED BY <1>u, <2>1, UntouchedLedger
<1>2. ASSUME NEW t \in Tasks, Task(t), t # u PROVE LedgerOf(u)'
  BY <1>u, <1>2, Bystander, UntouchedLedger
<1>3. ASSUME Task(u) PROVE LedgerOf(u)'
  <2>1. CASE Moves(u)
    BY <1>u, <2>1, MovesKeep DEF LedgerOf
  <2>2. CASE Registering(u)
    BY <1>u, <2>2, RegisteringFacts, RegistersOwes
  <2>3. CASE Unlocking(u)
    <3>1. Untouched(u)
      BY <2>3 DEF Unlocking, DeferUnlock, Untouched
    <3> QED BY <1>u, <3>1, UntouchedLedger
  <2>4. CASE ReturnDeferred(u) \/ Unwind(u)
    BY <1>u, <2>4, ExecutesLast, ExecutesLedger
  <2> QED BY <1>3, <2>1, <2>2, <2>3, <2>4, TaskKinds
<1> QED BY <1>1, <1>2, <1>3 DEF Next

-----------------------------------------------------------------------------
(***************************************************************************)
(* The mutex and the WaitGroup: an obligation of the program (need) turns  *)
(* into a deferred call, and is fulfilled once.                            *)
(***************************************************************************)
Duty(t, act) == need[t] = act \/ Lists(t, act)
Alone(t, act) == \A d, e \in Listed(t) : d.act = act /\ e.act = act => d = e
Fits(t) == /\ need[t] \in {"unlock", "done"} => ~Lists(t, need[t])
           /\ Lists(t, "done") => t # Main
           /\ Alone(t, "unlock") /\ Alone(t, "done")
           /\ (owner = t) <=> Duty(t, "unlock")
Spawning == need[Main] = "spawn"

\* What a step of t does to the mutex, and to the count of the WaitGroup.
LockEffect(t) == \/ owner' = owner /\ (Duty(t, "unlock")' <=> Duty(t, "unlock"))
                 \/ owner = Nobody /\ owner' = t /\ Duty(t, "unlock")'
                 \/ owner = t /\ owner' = Nobody /\ ~Duty(t, "unlock")'
CountEffect(t) ==
  \/ /\ count' = count /\ (Duty(t, "done")' <=> Duty(t, "done"))
     /\ Spawning' <=> Spawning
  \/ /\ count' = count /\ ~Duty(t, "done") /\ Duty(t, "done")'
     /\ Spawning /\ ~Spawning'
  \/ /\ count' = IF count > 0 THEN count - 1 ELSE count
     /\ Duty(t, "done") /\ ~Duty(t, "done")'
     /\ Spawning' <=> Spawning
FitsNext(t) == /\ need'[t] \in {"unlock", "done"} => ~Lists(t, need[t])'
               /\ Lists(t, "done")' => t # Main
               /\ Alone(t, "unlock")' /\ Alone(t, "done")'
Effect(t) == LockEffect(t) /\ CountEffect(t) /\ FitsNext(t)

(***************************************************************************)
(* Of the steps that leave the deferred calls alone, only those that take  *)
(* the lock and the one that spawns change an obligation.                  *)
(***************************************************************************)
LEMMA MovesNeeds ==
  ASSUME Typed, Control, NEW t \in Tasks, Moves(t)
  PROVE  \/ UNCHANGED <<owner, count, need>>
         \/ /\ owner = Nobody /\ owner' = t /\ need[t] = "none"
            /\ need' = [need EXCEPT ![t] = "unlock"] /\ UNCHANGED count
         \/ /\ t # Main /\ need[Main] = "spawn" /\ need[t] = "none" /\ Listed(t) = {}
            /\ need' = [need EXCEPT ![Main] = "none", ![t] = "done"]
            /\ UNCHANGED <<owner, count>>
<1>c. ControlOf(t)
  BY DEF Control
<1>1. CASE Lock(t) \/ TryLock(t)
  BY <1>1, <1>c DEF Lock, TryLock, Acquire, ControlOf, Free
<1>2. CASE Spawn(t)
  <2>1. need[Main] = "spawn" /\ mode[t] = "unborn"
    BY <1>2 DEF Spawn
  <2>2. t # Main /\ frames[t] = <<>> /\ pending[t] = <<>> /\ need[t] = "none"
    BY <1>c, <2>1 DEF ControlOf, Unwinding, Typed
  <2>3. Listed(t) = {}
    BY <2>2 DEF Listed, Range
  <2>4. need' = [need EXCEPT ![Main] = "none", ![t] = "done"] /\ UNCHANGED <<owner, count>>
    BY <1>2 DEF Spawn
  <2> QED BY <2>1, <2>2, <2>3, <2>4
<1>3. CASE Moves(t) /\ ~(Lock(t) \/ TryLock(t) \/ Spawn(t))
  BY <1>3 DEF Moves, Call, TailCall, Want, Wait, Return, End, Propagate, Fail, Unwound
<1> QED BY <1>1, <1>2, <1>3

(***************************************************************************)
(* A lock is taken with the obligation to unlock, a worker spawned with    *)
(* the obligation to be done.                                              *)
(***************************************************************************)
LEMMA EffectOfMoves ==
  ASSUME Typed, Typed', Control, NEW t \in Tasks, Moves(t), Fits(t)
  PROVE  Effect(t)
<1>1. Listed(t)' = Listed(t)
  BY MovesKeep
<1>2. \A act : Lists(t, act)' <=> Lists(t, act)
  BY <1>1 DEF Lists
<1>3. \A act : Alone(t, act)' <=> Alone(t, act)
  BY <1>1 DEF Alone
<1>n. need \in [Tasks -> {"none", "unlock", "done", "spawn"}] /\ Main \in Tasks
      /\ Nobody # t
  BY DEF Typed
<1>4. CASE UNCHANGED <<owner, count, need>>
  BY <1>2, <1>3, <1>4 DEF Effect, LockEffect, CountEffect, FitsNext, Fits, Duty, Spawning
<1>5. CASE /\ owner = Nobody /\ owner' = t /\ need[t] = "none"
           /\ need' = [need EXCEPT ![t] = "unlock"] /\ UNCHANGED count
  <2>1. need'[t] = "unlock" /\ (need'[Main] = "spawn" <=> need[Main] = "spawn")
    BY <1>5, <1>n
  <2>2. ~Lists(t, "unlock")
    BY <1>5, <1>n DEF Fits, Duty
  <2>3. Duty(t, "unlock")' /\ (Duty(t, "done")' <=> Duty(t, "done"))
    BY <1>2, <1>5, <2>1 DEF Duty
  <2>4. FitsNext(t)
    BY <1>2, <1>3, <2>1, <2>2 DEF Fits, FitsNext
  <2> QED BY <1>5, <2>1, <2>3, <2>4 DEF Effect, LockEffect, CountEffect, Spawning
<1>6. CASE /\ t # Main /\ need[Main] = "spawn" /\ need[t] = "none" /\ Listed(t) = {}
           /\ need' = [need EXCEPT ![Main] = "none", ![t] = "done"]
           /\ UNCHANGED <<owner, count>>
  <2>1. need'[t] = "done" /\ need'[Main] = "none"
    BY <1>6, <1>n
  <2>2. \A act : ~Lists(t, act)
    BY <1>6 DEF Lists
  <2>3. ~Duty(t, "done") /\ Duty(t, "done")' /\ (Duty(t, "unlock")' <=> Duty(t, "unlock"))
    BY <1>2, <1>6, <2>1, <2>2 DEF Duty
  <2>4. FitsNext(t)
    BY <1>2, <1>3, <2>1, <2>2 DEF Fits, FitsNext
  <2> QED BY <1>6, <2>1, <2>3, <2>4 DEF Effect, LockEffect, CountEffect, Spawning
<1> QED BY <1>4, <1>5, <1>6, MovesNeeds

(***************************************************************************)
(* defer mu.unlock() and defer wg.done() turn the obligation into a        *)
(* deferred call.                                                          *)
(***************************************************************************)
LEMMA EffectOfRegistering ==
  ASSUME Typed, Typed', Control, NEW t \in Tasks, Registering(t), Fits(t), LedgerOf(t)
  PROVE  Effect(t)
<1>c. ControlOf(t)
  BY DEF Control
<1>1. PICK act \in Kinds :
        /\ Registers(t, act)
        /\ UNCHANGED <<owner, count, want, mode, fatal>>
        /\ \/ act \in Deferrable /\ UNCHANGED need
           \/ act \in {"unlock", "done"} /\ need[t] = act /\ need' = [need EXCEPT ![t] = "none"]
  BY RegisteringFacts
<1>2. PICK d : d = NewEntry(t, act)
  OBVIOUS
<1>3. d \notin Listed(t) /\ Listed(t)' = Listed(t) \cup {d}
  BY <1>1, <1>2, RegistersOwes
<1>4. d.act = act
  BY <1>2 DEF NewEntry
<1>n. need \in [Tasks -> {"none", "unlock", "done", "spawn"}] /\ Main \in Tasks
  BY DEF Typed
<1>5. \A a : Lists(t, a)' <=> Lists(t, a) \/ a = act
  BY <1>3, <1>4 DEF Lists
<1>6. \A a : a # act => (Alone(t, a)' <=> Alone(t, a))
  BY <1>3, <1>4 DEF Alone
<1>7. CASE act \in Deferrable /\ UNCHANGED need
  <2>1. act \notin {"unlock", "done"}
    BY <1>7
  <2>2. \A a \in {"unlock", "done"} : /\ Lists(t, a)' <=> Lists(t, a)
                                      /\ Alone(t, a)' <=> Alone(t, a)
    BY <1>5, <1>6, <2>1
  <2> QED BY <1>1, <1>7, <2>2
          DEF Effect, LockEffect, CountEffect, FitsNext, Fits, Duty, Spawning
<1>8. CASE act \in {"unlock", "done"} /\ need[t] = act /\ need' = [need EXCEPT ![t] = "none"]
  <2>1. need'[t] = "none" /\ (need'[Main] = "spawn" <=> need[Main] = "spawn")
    BY <1>8, <1>n
  <2>2. ~Lists(t, act)
    BY <1>8 DEF Fits
  <2>3. Alone(t, act)'
    BY <1>3, <1>4, <2>2 DEF Alone, Lists
  <2>4. Alone(t, "unlock")' /\ Alone(t, "done")'
    BY <1>6, <2>3 DEF Fits
  <2>5. \A a \in {"unlock", "done"} : Duty(t, a)' <=> Duty(t, a)
    BY <1>5, <1>8, <2>1 DEF Duty
  <2>6. act = "done" => t # Main
    BY <1>8, <1>c DEF ControlOf
  <2>7. FitsNext(t)
    BY <1>5, <2>1, <2>4, <2>6 DEF FitsNext, Fits
  <2> QED BY <1>1, <2>1, <2>5, <2>7 DEF Effect, LockEffect, CountEffect, Spawning
<1> QED BY <1>1, <1>7, <1>8

(***************************************************************************)
(* mu.unlock() at once fulfils the obligation.                             *)
(***************************************************************************)
LEMMA EffectOfUnlocking ==
  ASSUME Typed, Typed', Control, NEW t \in Tasks, Unlocking(t), Fits(t)
  PROVE  Effect(t)
<1>n. need \in [Tasks -> {"none", "unlock", "done", "spawn"}] /\ Main \in Tasks
  BY DEF Typed
<1>1. /\ need[t] = "unlock" /\ need' = [need EXCEPT ![t] = "none"] /\ owner' = Nobody
      /\ UNCHANGED <<frames, pending, count>>
  BY DEF Unlocking, DeferUnlock
<1>2. Listed(t)' = Listed(t)
  BY <1>1 DEF Listed
<1>3. \A act : /\ Lists(t, act)' <=> Lists(t, act)
               /\ Alone(t, act)' <=> Alone(t, act)
  BY <1>2 DEF Lists, Alone
<1>4. need'[t] = "none" /\ (need'[Main] = "spawn" <=> need[Main] = "spawn")
  BY <1>1, <1>n
<1>5. owner = t /\ ~Lists(t, "unlock")
  BY <1>1 DEF Fits, Duty
<1>6. ~Duty(t, "unlock")' /\ (Duty(t, "done")' <=> Duty(t, "done"))
  BY <1>1, <1>3, <1>4, <1>5 DEF Duty
<1>7. FitsNext(t)
  BY <1>3, <1>4 DEF FitsNext, Fits
<1> QED BY <1>1, <1>4, <1>5, <1>6, <1>7 DEF Effect, LockEffect, CountEffect, Spawning

(***************************************************************************)
(* A deferred unlock or done that is executed is the only one.             *)
(***************************************************************************)
LEMMA EffectOfExecuting ==
  ASSUME Typed, Typed', Control, NEW t \in Tasks, ReturnDeferred(t) \/ Unwind(t),
         Fits(t), LedgerOf(t)
  PROVE  Effect(t)
<1>1. (\E d \in Entries : Executes(t, d)) /\ UNCHANGED <<need, want, mode, fatal>>
  BY ExecutesLast
<1>2. PICK d \in Entries : Executes(t, d)
  BY <1>1
<1>3. d \in Listed(t) /\ Listed(t)' = Listed(t) \ {d}
  BY <1>2 DEF Executes
<1>4. \A a : a # d.act => (Lists(t, a)' <=> Lists(t, a))
  BY <1>3 DEF Lists
<1>5. \A a : Alone(t, a) => Alone(t, a)'
  BY <1>3 DEF Alone
<1>6. \A a : a = d.act /\ Alone(t, a) => Lists(t, a) /\ ~Lists(t, a)'
  BY <1>3 DEF Lists, Alone
<1>7. \A a : Lists(t, a)' => Lists(t, a)
  BY <1>3 DEF Lists
<1>8. FitsNext(t)
  BY <1>1, <1>5, <1>7 DEF Fits, FitsNext
<1>9. Spawning' <=> Spawning
  BY <1>1 DEF Spawning
<1>10. LockEffect(t)
  <2>1. CASE d.act = "unlock"
    <3>1. owner' = Nobody
      BY <1>2, <2>1 DEF Executes, Perform
    <3>2. Lists(t, "unlock") /\ ~Lists(t, "unlock")'
      BY <1>6, <2>1 DEF Fits
    <3>3. need'[t] # "unlock" /\ owner = t
      BY <1>1, <3>2 DEF Fits, Duty
    <3> QED BY <3>1, <3>2, <3>3 DEF LockEffect, Duty
  <2>2. CASE d.act # "unlock"
    <3>1. owner' = owner
      BY <1>2, <2>2 DEF Executes, Perform
    <3>2. Lists(t, "unlock")' <=> Lists(t, "unlock")
      BY <1>4, <2>2
    <3> QED BY <1>1, <3>1, <3>2 DEF LockEffect, Duty
  <2> QED BY <2>1, <2>2
<1>11. CountEffect(t)
  <2>1. CASE d.act = "done"
    <3>1. count' = IF count > 0 THEN count - 1 ELSE count
      BY <1>2, <2>1 DEF Executes, Perform
    <3>2. Lists(t, "done") /\ ~Lists(t, "done")'
      BY <1>6, <2>1 DEF Fits
    <3>3. need'[t] # "done"
      BY <1>1, <3>2 DEF Fits
    <3> QED BY <1>9, <3>1, <3>2, <3>3 DEF CountEffect, Duty
  <2>2. CASE d.act # "done"
    <3>1. count' = count
      BY <1>2, <2>2 DEF Executes, Perform
    <3>2. Lists(t, "done")' <=> Lists(t, "done")
      BY <1>4, <2>2
    <3> QED BY <1>1, <1>9, <3>1, <3>2 DEF CountEffect, Duty
  <2> QED BY <2>1, <2>2
<1> QED BY <1>8, <1>10, <1>11 DEF Effect

(***************************************************************************)
(* What a step of a task does to its own obligations.                      *)
(***************************************************************************)
LEMMA TaskEffect ==
  ASSUME Typed, Typed', Control, NEW t \in Tasks, Task(t), Fits(t), LedgerOf(t)
  PROVE  Effect(t)
BY TaskKinds, EffectOfMoves, EffectOfRegistering, EffectOfUnlocking, EffectOfExecuting

(***************************************************************************)
(* The three invariants about obligations, task by task.                   *)
(***************************************************************************)
LEMMA FitsTogether ==
  Typed => ((\A t \in Tasks : Fits(t)) <=> LockIsListed /\ NeedsOrOwes /\ OneDone)
BY Zenon DEF Fits, LockIsListed, NeedsOrOwes, OneDone, Duty, Alone

(***************************************************************************)
(* A task's step leaves the obligations of the others alone.               *)
(***************************************************************************)
LEMMA OthersFit ==
  ASSUME Typed, NEW t \in Tasks, Task(t), NEW u \in Tasks, u # t, Fits(u)
  PROVE  /\ Duty(u, "unlock")' <=> Duty(u, "unlock")
         /\ Duty(u, "done")' <=> Duty(u, "done")
         /\ FitsNext(u)
<1>1. Untouched(u) /\ (need'[u] = need[u] \/ (need[u] = "spawn" /\ need'[u] = "none"))
  BY Bystander
<1>2. Listed(u)' = Listed(u)
  BY <1>1, UntouchedLedger
<1>3. \A act : /\ Lists(u, act)' <=> Lists(u, act)
               /\ Alone(u, act)' <=> Alone(u, act)
  BY <1>2 DEF Lists, Alone
<1> QED BY <1>1, <1>3 DEF Duty, Fits, FitsNext

(***************************************************************************)
(* Every step keeps the mutex with its obligation.                         *)
(***************************************************************************)
LEMMA FitsStep ==
  ASSUME Typed, Typed', Control, Ledger, \A t \in Tasks : Fits(t),
         NEW t \in Tasks, Task(t), NEW u \in Tasks
  PROVE  Fits(u)'
<1>1. Effect(t)
  BY TaskEffect DEF Ledger
<1>n. Nobody # t /\ Nobody # u
  OBVIOUS
<1>2. CASE u = t
  <2>1. (owner' = t) <=> Duty(t, "unlock")'
    BY <1>1, <1>n DEF Effect, LockEffect, Fits
  <2> QED BY <1>1, <1>2, <2>1 DEF Effect, FitsNext, Fits
<1>3. CASE u # t
  <2>1. FitsNext(u) /\ (Duty(u, "unlock")' <=> Duty(u, "unlock"))
    BY <1>3, OthersFit
  <2>2. owner' = u <=> owner = u
    BY <1>1, <1>n, <1>3 DEF Effect, LockEffect
  <2>3. (owner' = u) <=> Duty(u, "unlock")'
    BY <2>1, <2>2 DEF Fits
  <2> QED BY <2>1, <2>3 DEF FitsNext, Fits
<1> QED BY <1>2, <1>3

(***************************************************************************)
(* At first nobody owes anything.                                          *)
(***************************************************************************)
LEMMA FitsInit == Init => \A t \in Tasks : Fits(t)
<1> SUFFICES ASSUME Init, NEW t \in Tasks PROVE Fits(t)
  OBVIOUS
<1>1. Listed(t) = {}
  BY LedgerInit
<1>2. need[t] = "none" /\ owner # t
  BY DEF Init
<1> QED BY <1>1, <1>2 DEF Fits, Duty, Lists, Alone

(***************************************************************************)
(* wg.add(1) obliges the main task to spawn a worker.                      *)
(***************************************************************************)
LEMMA AddKeeps ==
  ASSUME Typed, Add, NEW u \in Tasks
  PROVE  /\ Listed(u)' = Listed(u) /\ (Fits(u) => Fits(u)')
         /\ Duty(u, "done")' <=> Duty(u, "done")
         /\ ~Spawning /\ Spawning' /\ count' = count + 1
<1>1. /\ need[Main] = "none" /\ need' = [need EXCEPT ![Main] = "spawn"]
      /\ UNCHANGED <<frames, pending, owner>> /\ count' = count + 1
  BY DEF Add, Free
<1>n. need \in [Tasks -> {"none", "unlock", "done", "spawn"}] /\ Main \in Tasks
  BY DEF Typed
<1>2. Listed(u)' = Listed(u)
  BY <1>1 DEF Listed
<1>3. \A act : /\ Lists(u, act)' <=> Lists(u, act)
               /\ Alone(u, act)' <=> Alone(u, act)
  BY <1>2 DEF Lists, Alone
<1>4. need'[u] = need[u] \/ (need[u] = "none" /\ need'[u] = "spawn")
  BY <1>1, <1>n
<1>5. need'[Main] = "spawn"
  BY <1>1, <1>n
<1>6. \A act \in {"unlock", "done"} : Duty(u, act)' <=> Duty(u, act)
  BY <1>3, <1>4 DEF Duty
<1>7. Fits(u) => Fits(u)'
  BY <1>1, <1>3, <1>4, <1>6 DEF Fits
<1> QED BY <1>1, <1>2, <1>5, <1>6, <1>7 DEF Spawning

(***************************************************************************)
(* Every step keeps the obligations.                                       *)
(***************************************************************************)
LEMMA FitsNextStep ==
  Typed /\ Typed' /\ Control /\ Ledger /\ (\A t \in Tasks : Fits(t)) /\ [Next]_vars
    => (\A t \in Tasks : Fits(t))'
<1> SUFFICES ASSUME Typed, Typed', Control, Ledger, \A t \in Tasks : Fits(t), [Next]_vars,
                    NEW u \in Tasks
             PROVE  Fits(u)'
  OBVIOUS
<1>1. CASE UNCHANGED vars
  BY <1>1 DEF vars, stack, Fits, Duty, Alone, Lists, Listed
<1>2. CASE Add
  BY <1>2, AddKeeps
<1>3. CASE \E t \in Tasks : Task(t)
  BY <1>3, FitsStep
<1> QED BY <1>1, <1>2, <1>3 DEF Next

\* Those that owe a done, and the one about to be spawned.
Counted == {t \in Tasks : Duty(t, "done")}
Announced == IF Spawning THEN 1 ELSE 0

(***************************************************************************)
(* The workers the WaitGroup counts.                                       *)
(***************************************************************************)
LEMMA CountedFacts ==
  /\ CountIsListed <=> count = Cardinality(Counted) + Announced
  /\ IsFiniteSet(Counted) /\ Cardinality(Counted) \in Nat
<1>1. Counted \in SUBSET Tasks
  BY DEF Counted
<1>2. IsFiniteSet(Counted) /\ Cardinality(Counted) \in Nat
  BY <1>1, FS_Subset, FS_CardinalityType
<1> QED BY <1>2 DEF CountIsListed, Counted, Duty, Announced, Spawning

(***************************************************************************)
(* Every step keeps the count with the obligations.                        *)
(***************************************************************************)
LEMMA CountNext ==
  Typed /\ Typed' /\ Control /\ Ledger /\ (\A t \in Tasks : Fits(t)) /\ CountIsListed /\ [Next]_vars
    => CountIsListed'
<1> SUFFICES ASSUME Typed, Typed', Control, Ledger, \A t \in Tasks : Fits(t), CountIsListed,
                    [Next]_vars
             PROVE  count' = Cardinality(Counted') + Announced'
  BY CountedFacts DEF CountIsListed, Counted, Duty, Announced, Spawning
<1>1. count = Cardinality(Counted) + Announced /\ IsFiniteSet(Counted)
      /\ Cardinality(Counted) \in Nat
  BY CountedFacts
<1>2. CASE UNCHANGED vars
  <2>1. Counted' = Counted /\ Announced' = Announced /\ count' = count
    BY <1>2 DEF vars, stack, Counted, Duty, Lists, Listed, Announced, Spawning
  <2> QED BY <1>1, <2>1
<1>3. CASE Add
  <2>1. \A u \in Tasks : Duty(u, "done")' <=> Duty(u, "done")
    BY <1>3, AddKeeps
  <2>2. ~Spawning /\ Spawning' /\ count' = count + 1
    BY <1>3, AddKeeps
  <2>3. Counted' = Counted
    BY <2>1 DEF Counted
  <2>4. Announced = 0 /\ Announced' = 1
    BY <2>2 DEF Announced
  <2> QED BY <1>1, <2>2, <2>3, <2>4
<1>4. ASSUME NEW t \in Tasks, Task(t) PROVE count' = Cardinality(Counted') + Announced'
  <2>1. CountEffect(t)
    BY <1>4, TaskEffect DEF Effect, Ledger
  <2>2. \A u \in Tasks : u # t => (Duty(u, "done")' <=> Duty(u, "done"))
    BY <1>4, OthersFit
  <2>3. CASE /\ count' = count /\ (Duty(t, "done")' <=> Duty(t, "done"))
             /\ Spawning' <=> Spawning
    <3>1. Counted' = Counted
      BY <2>2, <2>3 DEF Counted
    <3>2. Announced' = Announced
      BY <2>3 DEF Announced
    <3> QED BY <1>1, <2>3, <3>1, <3>2
  <2>4. CASE /\ count' = count /\ ~Duty(t, "done") /\ Duty(t, "done")'
             /\ Spawning /\ ~Spawning'
    <3>1. Counted' = Counted \cup {t} /\ t \notin Counted
      BY <2>2, <2>4 DEF Counted
    <3>2. Cardinality(Counted') = Cardinality(Counted) + 1
      BY <1>1, <3>1, FS_AddElement
    <3>3. Announced = 1 /\ Announced' = 0
      BY <2>4 DEF Announced
    <3> QED BY <1>1, <2>4, <3>2, <3>3
  <2>5. CASE /\ count' = IF count > 0 THEN count - 1 ELSE count
             /\ Duty(t, "done") /\ ~Duty(t, "done")'
             /\ Spawning' <=> Spawning
    <3>1. Counted' = Counted \ {t} /\ t \in Counted
      BY <2>2, <2>5 DEF Counted
    <3>2. Cardinality(Counted') = Cardinality(Counted) - 1 /\ Cardinality(Counted) # 0
      BY <1>1, <3>1, FS_RemoveElement, FS_EmptySet
    <3>3. Announced' = Announced /\ Announced \in Nat
      BY <2>5 DEF Announced
    <3>4. count > 0 /\ count' = count - 1
      BY <1>1, <2>5, <3>2, <3>3
    <3> QED BY <1>1, <3>2, <3>3, <3>4
  <2> QED BY <2>1, <2>3, <2>4, <2>5 DEF CountEffect
<1> QED BY <1>2, <1>3, <1>4 DEF Next

-----------------------------------------------------------------------------
(***************************************************************************)
(* The done() of a worker stays at the bottom of its stack.                *)
(***************************************************************************)
Low(f) == f.defers # <<>> /\ f.defers[1].act = "done"
Leaving(fs) == Len(fs) = 1 /\ fs[1].returning /\ fs[1].defers = <<>>
Bottom(t) == frames[t] # <<>> => need[t] = "done" \/ Low(frames[t][1]) \/ Leaving(frames[t])

(***************************************************************************)
(* The outermost frame of the stacks that the instructions make.           *)
(***************************************************************************)
LEMMA OutermostFrame ==
  ASSUME NEW fs \in Seq(FrameType), fs # <<>>
  PROVE  /\ Len(fs) \in Nat \ {0} /\ Append(fs, Frame)[1] = fs[1]
         /\ Len(fs) # 1 => /\ Front(fs)[1] = fs[1]
                           /\ \A x \in FrameType : /\ Append(Front(fs), x)[1] = fs[1]
                                                   /\ (Front(fs) \o <<x, Frame>>)[1] = fs[1]
         /\ Len(fs) = 1 => /\ Last(fs) = fs[1] /\ Front(fs) = <<>>
                           /\ \A x \in FrameType : /\ Append(Front(fs), x)[1] = x
                                                   /\ Len(Append(Front(fs), x)) = 1
                                                   /\ (Front(fs) \o <<x, Frame>>)[1] = x
<1>1. Len(fs) \in Nat \ {0} /\ Last(fs) = fs[Len(fs)] /\ Front(fs) \in Seq(FrameType)
      /\ Len(Front(fs)) = Len(fs) - 1
      /\ \A i \in 1 .. Len(fs) : i # Len(fs) => Front(fs)[i] = fs[i]
  BY FrontFacts
<1>2. 1 \in 1 .. Len(fs)
  BY <1>1
<1>3. Append(fs, Frame)[1] = fs[1]
  <2>1. \A i \in 1 .. Len(fs) : Append(fs, Frame)[i] = fs[i]
    BY AppendProperties
  <2> QED BY <1>2, <2>1
<1>4. Frame \in FrameType
  <2>1. <<>> \in Seq(Entries)
    OBVIOUS
  <2> QED BY <2>1 DEF Frame, FrameType
<1>5. ASSUME NEW x \in FrameType
      PROVE  /\ Len(Append(Front(fs), x)) = Len(fs)
             /\ Append(Front(fs), x)[Len(fs)] = x
             /\ \A i \in 1 .. Len(fs) : i # Len(fs) => Append(Front(fs), x)[i] = fs[i]
             /\ (Front(fs) \o <<x, Frame>>)[Len(fs)] = x
             /\ \A i \in 1 .. Len(fs) : i # Len(fs) => (Front(fs) \o <<x, Frame>>)[i] = fs[i]
  BY <1>4, ReplaceLast, ReplaceLastAndPush
<1>6. ASSUME Len(fs) # 1
      PROVE  /\ Front(fs)[1] = fs[1]
             /\ \A x \in FrameType : /\ Append(Front(fs), x)[1] = fs[1]
                                     /\ (Front(fs) \o <<x, Frame>>)[1] = fs[1]
  <2>1. 1 # Len(fs)
    BY <1>6
  <2>2. Front(fs)[1] = fs[1]
    BY <1>1, <1>2, <2>1, Zenon
  <2>3. ASSUME NEW x \in FrameType
        PROVE  Append(Front(fs), x)[1] = fs[1] /\ (Front(fs) \o <<x, Frame>>)[1] = fs[1]
    BY <1>2, <1>5, <2>1, Zenon
  <2> QED BY <2>2, <2>3
<1>7. ASSUME Len(fs) = 1 PROVE Last(fs) = fs[1] /\ Front(fs) = <<>>
  <2>1. Len(Front(fs)) = 0
    BY <1>1, <1>7
  <2> QED BY <1>1, <1>7, <2>1, EmptySeq
<1> QED BY <1>1, <1>3, <1>5, <1>6, <1>7

(***************************************************************************)
(* The steps that leave the deferred calls alone: the outermost frame is   *)
(* as before, or was reused when it had none.                              *)
(***************************************************************************)
LEMMA BottomOfMoves ==
  ASSUME Typed, Typed', Control, NEW t \in Tasks, t # Main, Moves(t), Bottom(t)
  PROVE  Bottom(t)'
<1> DEFINE fs == frames[t]
           gs == frames'[t]
<1>c. ControlOf(t)
  BY DEF Control
<1>n. need \in [Tasks -> {"none", "unlock", "done", "spawn"}] /\ fs \in Seq(FrameType)
  BY DEF Typed
<1>f. Free(t) => fs # <<>> /\ ~Last(fs).returning /\ need[t] = "none"
  BY <1>c DEF Free, ControlOf, Top
<1>r. CanReturn(t) => fs # <<>> /\ need[t] = "none"
  BY <1>c, <1>f DEF CanReturn, ControlOf, Typed
<1>o. fs # <<>> => /\ Append(fs, Frame)[1] = fs[1] /\ Len(fs) \in Nat \ {0}
                   /\ Len(fs) # 1 => Front(fs)[1] = fs[1]
                   /\ Len(fs) = 1 => Last(fs) = fs[1] /\ Front(fs) = <<>>
  BY <1>n, OutermostFrame
<1>e. Frame \in FrameType
  BY StackTypes
<1>l. Free(t) => fs # <<>> /\ Low(fs[1])
  <2>1. Free(t) /\ Leaving(fs) => FALSE
    BY <1>f, <1>o DEF Leaving
  <2> QED BY <1>f, <2>1 DEF Bottom
<1>k. fs # <<>> /\ Low(fs[1]) /\ gs[1] = fs[1] => Bottom(t)'
  BY DEF Bottom
<1>g. gs = <<>> => Bottom(t)'
  BY DEF Bottom
<1>1. CASE Call(t)
  <2>1. gs = Append(fs, Frame) /\ Free(t)
    BY <1>1 DEF Call, Push, SetFrames, Typed
  <2> QED BY <2>1, <1>l, <1>o, <1>k
<1>2. CASE TailCall(t)
  <2>1. Free(t) /\ gs \in {Append(fs, Frame), Append(Front(fs), Frame)}
    BY <1>2 DEF TailCall, Push, SetFrames, Typed
  <2>2. gs = Append(fs, Frame) \/ (gs = Append(Front(fs), Frame) /\ Last(fs).defers = <<>>)
    BY <1>2, <2>1 DEF TailCall, Push, SetFrames, Typed, Top
  <2>3. CASE gs = Append(fs, Frame)
    BY <2>1, <2>3, <1>l, <1>o, <1>k
  <2>4. CASE gs = Append(Front(fs), Frame) /\ Last(fs).defers = <<>>
    <3>1. Len(fs) # 1
      BY <1>l, <1>o, <2>1, <2>4 DEF Low
    <3>2. gs[1] = fs[1]
      <4>1. \A x \in FrameType : Append(Front(fs), x)[1] = fs[1]
        BY <1>l, <1>n, <2>1, <3>1, OutermostFrame
      <4>2. Append(Front(fs), Frame)[1] = fs[1]
        BY <1>e, <4>1
      <4>3. gs = Append(Front(fs), Frame)
        BY <2>4
      <4> QED BY <4>2, <4>3
    <3> QED BY <1>l, <2>1, <3>2, <1>k
  <2> QED BY <2>2, <2>3, <2>4
<1>3. CASE Want(t) \/ Lock(t) \/ TryLock(t) \/ Wait(t)
  <2>1. gs = fs
    BY <1>3 DEF Want, Lock, TryLock, Acquire, Wait
  <2>2. need[t] # "done"
    BY <1>3, <1>c DEF Want, Lock, TryLock, Wait, Free, ControlOf
  <2> QED BY <2>1, <2>2 DEF Bottom
<1>4. CASE Spawn(t)
  <2>1. need'[t] = "done"
    BY <1>4, <1>n DEF Spawn
  <2> QED BY <2>1 DEF Bottom
<1>5. ASSUME gs = Front(fs), fs # <<>>, need[t] # "done" PROVE Bottom(t)'
  <2>1. CASE Len(fs) = 1
    BY <1>5, <1>o, <2>1, <1>g
  <2>2. CASE Len(fs) # 1
    <3>1. Low(fs[1])
      BY <1>5, <2>2 DEF Bottom, Leaving
    <3> QED BY <1>5, <1>o, <2>2, <3>1, <1>k
  <2> QED BY <2>1, <2>2
<1>6. CASE Return(t)
  <2>1. gs = Front(fs) /\ CanReturn(t)
    BY <1>6 DEF Return, SetFrames, Typed
  <2> QED BY <1>r, <1>5, <2>1
<1>7. CASE Propagate(t)
  <2>1. gs = Front(fs) /\ Free(t)
    BY <1>7 DEF Propagate, PopTo, SetFrames, Typed
  <2> QED BY <1>f, <1>5, <2>1
<1>8. CASE Fail(t)
  <2>1. gs = Front(fs) /\ CanReturn(t)
    BY <1>8 DEF Fail, PopTo, SetFrames, Typed
  <2> QED BY <1>r, <1>5, <2>1
<1>9. CASE Unwound(t)
  <2>1. (gs = Front(fs) /\ fs # <<>>) \/ gs = fs
    BY <1>9 DEF Unwound, PopTo, SetFrames, Typed
  <2>2. need'[t] = need[t] /\ need[t] # "done"
    BY <1>9, <1>c DEF Unwound, Unwinding, ControlOf
  <2>3. CASE gs = fs
    BY <2>2, <2>3 DEF Bottom
  <2> QED BY <1>5, <2>1, <2>2, <2>3
<1> QED BY <1>1, <1>2, <1>3, <1>4, <1>6, <1>7, <1>8, <1>9 DEF Moves, End

(***************************************************************************)
(* A deferred call is added behind the done(), and a worker starts with    *)
(* it.                                                                     *)
(***************************************************************************)
LEMMA BottomOfRegistering ==
  ASSUME Typed, Typed', Control, NEW t \in Tasks, t # Main, Registering(t), Bottom(t)
  PROVE  Bottom(t)'
<1> DEFINE fs == frames[t]
           gs == frames'[t]
<1>c. ControlOf(t)
  BY DEF Control
<1>n. fs \in Seq(FrameType)
  BY DEF Typed
<1>1. PICK act \in Kinds :
        /\ Registers(t, act)
        /\ UNCHANGED <<owner, count, want, mode, fatal>>
        /\ \/ act \in Deferrable /\ UNCHANGED need
           \/ act \in {"unlock", "done"} /\ need[t] = act /\ need' = [need EXCEPT ![t] = "none"]
  BY RegisteringFacts
<1>2. PICK d : d = NewEntry(t, act)
  OBVIOUS
<1>3. PICK f : f = [Top(t) EXCEPT !.defers = Append(@, d)]
  OBVIOUS
<1>4. fs # <<>> /\ gs = Append(Front(fs), f) /\ d.act = act
  BY <1>1, <1>2, <1>3 DEF Registers, AddDefer, SetFrames, NewEntry, Typed
<1>5. Last(fs) \in FrameType /\ Last(fs).defers \in Seq(Entries)
  BY <1>4, StackTypes DEF Top
<1>6. d \in Entries /\ f \in FrameType
  BY <1>1, <1>2, <1>3, AddDeferTypes DEF Registers, NewEntry
<1>7. f.defers = Append(Last(fs).defers, d)
  BY <1>3, <1>5 DEF FrameType, Top
<1>o. /\ Len(fs) # 1 => gs[1] = fs[1]
      /\ Len(fs) = 1 => gs[1] = f /\ fs[1] = Last(fs)
  <2>1. /\ Len(fs) # 1 => \A x \in FrameType : Append(Front(fs), x)[1] = fs[1]
        /\ Len(fs) = 1 => Last(fs) = fs[1] /\ \A x \in FrameType : Append(Front(fs), x)[1] = x
    BY <1>4, <1>n, OutermostFrame
  <2> QED BY <1>4, <1>6, <2>1, Zenon
<1>8. /\ Len(Append(Last(fs).defers, d)) # 0
      /\ Last(fs).defers = <<>> => Append(Last(fs).defers, d)[1] = d
      /\ Last(fs).defers # <<>> => Append(Last(fs).defers, d)[1] = Last(fs).defers[1]
  <2>1. /\ Len(Append(Last(fs).defers, d)) = Len(Last(fs).defers) + 1
        /\ Append(Last(fs).defers, d)[Len(Last(fs).defers) + 1] = d
        /\ \A i \in 1 .. Len(Last(fs).defers) :
              Append(Last(fs).defers, d)[i] = Last(fs).defers[i]
        /\ Len(Last(fs).defers) \in Nat
    BY <1>5, <1>6, AppendProperties, LenProperties
  <2>2. Last(fs).defers # <<>> => 1 \in 1 .. Len(Last(fs).defers)
    BY <1>5, EmptySeq, LenProperties
  <2>3. Last(fs).defers = <<>> => Len(Last(fs).defers) = 0
    OBVIOUS
  <2> QED BY <2>1, <2>2, <2>3
<1>9. Low(Last(fs)) \/ (Last(fs).defers = <<>> /\ act = "done") => Low(f)
  BY <1>4, <1>7, <1>8 DEF Low
<1>10. CASE need[t] = "done"
  <2>1. fs = <<Frame>> /\ act = "done"
    <3>1. DeferDone(t)
      BY <1>10 DEF Registering, Defer, DeferUnlock, Free
    <3>2. need'[t] # need[t]
      BY <1>10, <3>1 DEF DeferDone, Typed
    <3>3. act = "done"
      BY <1>1, <1>10, <3>2
    <3> QED BY <1>10, <1>c, <3>3 DEF ControlOf
  <2>2. Len(fs) = 1 /\ fs[1].defers = <<>>
    BY <2>1 DEF Frame
  <2>3. Low(gs[1])
    BY <1>9, <1>o, <2>1, <2>2
  <2> QED BY <2>3 DEF Bottom
<1>11. CASE need[t] # "done"
  <2>1. ~Top(t).returning
    BY <1>c, <1>11 DEF ControlOf, Registering, Defer, DeferDone, DeferUnlock, Free
  <2>2. Low(fs[1])
    BY <1>4, <1>11, <1>o, <2>1 DEF Bottom, Leaving, Top
  <2>3. Low(gs[1])
    BY <1>9, <1>o, <2>2
  <2> QED BY <2>3 DEF Bottom
<1> QED BY <1>10, <1>11

(***************************************************************************)
(* The done() is the last deferred call that a worker executes, and the    *)
(* frame is being left then.                                               *)
(***************************************************************************)
LEMMA BottomOfExecuting ==
  ASSUME Typed, Typed', Control, NEW t \in Tasks, t # Main, ReturnDeferred(t) \/ Unwind(t),
         Bottom(t)
  PROVE  Bottom(t)'
<1> DEFINE fs == frames[t]
           gs == frames'[t]
           ds == Top(t).defers
           rest == [Top(t) EXCEPT !.returning = TRUE, !.defers = Front(@)]
<1>c. ControlOf(t)
  BY DEF Control
<1>n. fs \in Seq(FrameType)
  BY DEF Typed
<1>1. CASE Unwind(t)
  BY <1>1 DEF Unwind, Bottom
<1>2. CASE ReturnDeferred(t)
  <2>1. fs # <<>> /\ need[t] # "done" /\ ds # <<>>
    BY <1>2, <1>c DEF ReturnDeferred, CanReturn, Free, ControlOf
  <2>2. /\ Last(ds).act = "call" => gs = Front(fs) \o <<rest, Frame>>
        /\ Last(ds).act # "call" => gs = Append(Front(fs), rest)
    BY <1>2 DEF ReturnDeferred, SetFrames, Typed
  <2>3. ds \in Seq(Entries) /\ Top(t) = Last(fs)
    BY <2>1, StackTypes DEF Top
  <2>4. /\ Len(ds) \in Nat \ {0} /\ Last(ds) = ds[Len(ds)] /\ Front(ds) \in Seq(Entries)
        /\ Len(Front(ds)) = Len(ds) - 1
        /\ \A i \in 1 .. Len(ds) : i # Len(ds) => Front(ds)[i] = ds[i]
    BY <2>1, <2>3, FrontFacts
  <2>5. rest \in FrameType /\ rest.returning /\ rest.defers = Front(ds)
    BY <2>1, StackTypes, FrameTypes
  <2>6. rest.returning /\ rest.defers = Front(ds)
    BY <2>5
  <2> HIDE DEF rest, ds
  <2>7. /\ Len(fs) # 1 => \A x \in FrameType : /\ Append(Front(fs), x)[1] = fs[1]
                                               /\ (Front(fs) \o <<x, Frame>>)[1] = fs[1]
        /\ Len(fs) = 1 => /\ Last(fs) = fs[1]
                          /\ \A x \in FrameType : /\ Append(Front(fs), x)[1] = x
                                                  /\ Len(Append(Front(fs), x)) = 1
                                                  /\ (Front(fs) \o <<x, Frame>>)[1] = x
    BY <1>n, <2>1, OutermostFrame
  <2>8. /\ Len(fs) # 1 => /\ Append(Front(fs), rest)[1] = fs[1]
                          /\ (Front(fs) \o <<rest, Frame>>)[1] = fs[1]
        /\ Len(fs) = 1 => /\ Last(fs) = fs[1]
                          /\ Append(Front(fs), rest)[1] = rest
                          /\ Len(Append(Front(fs), rest)) = 1
                          /\ (Front(fs) \o <<rest, Frame>>)[1] = rest
    BY <2>5, <2>7
  <2>9. /\ Len(fs) # 1 => gs[1] = fs[1]
        /\ Len(fs) = 1 => /\ Last(fs) = fs[1] /\ gs[1] = rest
                          /\ Last(ds).act # "call" => Len(gs) = 1
    BY <2>2, <2>8
  <2>l. Len(fs) = 1 => fs[1].defers = ds
    BY <2>3, <2>9 DEF ds
  <2>10. Low(fs[1])
    BY <2>1, <2>l DEF Bottom, Leaving
  <2>11. CASE Len(fs) # 1
    BY <2>9, <2>10, <2>11 DEF Bottom
  <2>12. CASE Len(fs) = 1
    <3>1. ds[1].act = "done"
      BY <2>l, <2>10, <2>12 DEF Low
    <3>2. CASE Len(ds) = 1
      <4>1. Last(ds).act # "call"
        BY <2>4, <3>1, <3>2
      <4>2. Front(ds) = <<>>
        BY <2>4, <3>2, EmptySeq
      <4>3. Leaving(gs)
        BY <2>6, <2>9, <2>12, <4>1, <4>2 DEF Leaving
      <4> QED BY <4>3 DEF Bottom
    <3>3. CASE Len(ds) # 1
      <4>1. 1 \in 1 .. Len(ds) /\ 1 # Len(ds) /\ Len(Front(ds)) # 0
        BY <2>4, <3>3
      <4>2. Front(ds)[1] = ds[1]
        BY <2>4, <4>1
      <4>3. Front(ds) # <<>>
        BY <4>1
      <4>4. Low(gs[1])
        BY <2>6, <2>9, <2>12, <3>1, <4>2, <4>3 DEF Low
      <4> QED BY <4>4 DEF Bottom
    <3> QED BY <3>2, <3>3
  <2> QED BY <2>11, <2>12
<1> QED BY <1>1, <1>2

(***************************************************************************)
(* At first no worker has a frame.                                         *)
(***************************************************************************)
LEMMA BottomInit == Init => DoneAtBottom
BY DEF Init, DoneAtBottom

(***************************************************************************)
(* Every step keeps the done() at the bottom.                              *)
(***************************************************************************)
LEMMA BottomNext ==
  Typed /\ Typed' /\ Control /\ DoneAtBottom /\ [Next]_vars => DoneAtBottom'
<1> SUFFICES ASSUME Typed, Typed', Control, DoneAtBottom, [Next]_vars,
                    NEW u \in Tasks, u # Main
             PROVE  Bottom(u)'
  BY DEF DoneAtBottom, Bottom, Low, Leaving
<1>u. Bottom(u)
  BY DEF DoneAtBottom, Bottom, Low, Leaving
<1>1. CASE UNCHANGED vars
  BY <1>1, <1>u DEF vars, stack, Bottom
<1>2. CASE Add
  <2>1. UNCHANGED frames /\ need'[u] = need[u]
    BY <1>2 DEF Add, Typed
  <2> QED BY <1>u, <2>1 DEF Bottom
<1>3. ASSUME NEW t \in Tasks, Task(t), t # u PROVE Bottom(u)'
  <2>1. Untouched(u) /\ need'[u] = need[u]
    BY <1>3, Bystander
  <2> QED BY <1>u, <2>1 DEF Untouched, Bottom
<1>4. ASSUME Task(u) PROVE Bottom(u)'
  <2>1. CASE Moves(u)
    BY <1>u, <2>1, BottomOfMoves
  <2>2. CASE Registering(u)
    BY <1>u, <2>2, BottomOfRegistering
  <2>3. CASE Unlocking(u)
    <3>1. UNCHANGED frames /\ need[u] = "unlock"
      BY <2>3 DEF Unlocking, DeferUnlock
    <3> QED BY <1>u, <3>1 DEF Bottom
  <2>4. CASE ReturnDeferred(u) \/ Unwind(u)
    BY <1>u, <2>4, BottomOfExecuting
  <2> QED BY <1>4, <2>1, <2>2, <2>3, <2>4, TaskKinds
<1> QED BY <1>1, <1>2, <1>3, <1>4 DEF Next

-----------------------------------------------------------------------------
(***************************************************************************)
(* Theorems.                                                               *)
(***************************************************************************)

(***************************************************************************)
(* The inductive invariant.                                                *)
(***************************************************************************)
THEOREM Invariant == Spec => []IInv
<1>1. Init => IInv
  <2> SUFFICES ASSUME Init PROVE IInv
    OBVIOUS
  <2>1. Typed /\ Control /\ Ledger /\ (\A t \in Tasks : Fits(t)) /\ DoneAtBottom
    BY TypedInit, ControlInit, LedgerInit, FitsInit, BottomInit
  <2>2. LockIsListed /\ NeedsOrOwes /\ OneDone
    BY <2>1, FitsTogether
  <2>3. CountIsListed
    <3>1. \A t \in Tasks : ~Duty(t, "done")
      BY LedgerInit DEF Init, Duty, Lists
    <3>2. Counted = {} /\ count = 0 /\ ~Spawning
      BY <3>1 DEF Counted, Init, Spawning
    <3> QED BY <3>2, CountedFacts, FS_EmptySet DEF Announced
  <2> QED BY <2>1, <2>2, <2>3 DEF IInv
<1>2. IInv /\ [Next]_vars => IInv'
  <2> SUFFICES ASSUME IInv, [Next]_vars PROVE IInv'
    OBVIOUS
  <2>1. Typed /\ Control /\ Ledger /\ CountIsListed /\ DoneAtBottom
        /\ \A t \in Tasks : Fits(t)
    BY FitsTogether DEF IInv
  <2>2. Typed' /\ Control'
    BY <2>1, TypedNext, ControlNext
  <2>3. Ledger' /\ CountIsListed' /\ DoneAtBottom' /\ (\A t \in Tasks : Fits(t))'
    BY <2>1, <2>2, LedgerNext, CountNext, BottomNext, FitsNextStep
  <2>4. (LockIsListed /\ NeedsOrOwes /\ OneDone)'
    <3>1. (Typed => ((\A t \in Tasks : Fits(t)) <=> LockIsListed /\ NeedsOrOwes /\ OneDone))'
      BY FitsTogether, PTL
    <3> QED BY <2>2, <2>3, <3>1
  <2> QED BY <2>2, <2>3, <2>4 DEF IInv
<1> QED BY <1>1, <1>2, PTL DEF Spec

(***************************************************************************)
(* Types: of the stacks, the obligations and the primitives, and that a    *)
(* task has frames exactly while it is not over.                           *)
(***************************************************************************)
THEOREM TypesHold == Spec => []TypeOK
<1>1. IInv => TypeOK
  <2> SUFFICES ASSUME Typed, Control PROVE TypeOK
    BY DEF IInv
  <2>1. owner \in Tasks \cup {Nobody} /\ count \in Nat /\ fatal = (mode[Main] = "failed")
    BY DEF Typed, Control, ControlOf
  <2> SUFFICES ASSUME NEW t \in Tasks
               PROVE  /\ \A f \in Range(frames[t]) :
                           /\ {f.script, f.returning} \subseteq BOOLEAN
                           /\ Range(f.defers) \subseteq Entries
                      /\ Range(pending[t]) \subseteq Entries
                      /\ mode[t] \in {"run", "propagate"} => frames[t] # <<>>
                      /\ mode[t] \in {"unborn", "completed"} => frames[t] = <<>>
                      /\ pending[t] # <<>> =>
                           Unwinding(t) \/ (t = Main /\ mode[t] = "completed")
                      /\ need[t] \in {"none", "unlock", "done", "spawn"}
                      /\ want[t] \in {"none", "lock", "wait"}
    BY <2>1 DEF TypeOK, Entries, Kinds
  <2>2. need[t] \in {"none", "unlock", "done", "spawn"} /\ want[t] \in {"none", "lock", "wait"}
    BY DEF Typed
  <2>3. frames[t] \in Seq(FrameType) /\ pending[t] \in Seq(Entries)
    BY DEF Typed
  <2>4. \A s \in Seq(Entries) : Range(s) \subseteq Entries
    BY DEF Range
  <2>5. \A f \in Range(frames[t]) : f \in FrameType
    BY <2>3 DEF Range
  <2>6. \A f \in FrameType : {f.script, f.returning} \subseteq BOOLEAN /\ f.defers \in Seq(Entries)
    BY DEF FrameType
  <2>7. \A f \in Range(frames[t]) :
          {f.script, f.returning} \subseteq BOOLEAN /\ Range(f.defers) \subseteq Entries
    BY <2>4, <2>5, <2>6
  <2>8. ControlOf(t)
    BY DEF Control
  <2> QED BY <2>2, <2>3, <2>4, <2>7, <2>8 DEF ControlOf
<1> QED BY <1>1, Invariant, PTL

(***************************************************************************)
(* What a task lists it owes, but for what the script's end dropped.       *)
(***************************************************************************)
DroppedOf(t) == IF t = Main THEN Dropped ELSE {}

LEMMA ListedIsOwed ==
  ASSUME Control, NEW t \in Tasks
  PROVE  /\ Listed(t) = Owed(t) \cup DroppedOf(t)
         /\ Over(t) /\ ~(t = Main /\ fatal) => Owed(t) = {}
<1>1. ControlOf(t)
  BY DEF Control
<1>2. CASE t = Main /\ mode[t] = "completed"
  <2>1. frames[t] = <<>> /\ ~Unwinding(t)
    BY <1>1, <1>2 DEF ControlOf, Unwinding
  <2>2. Owed(t) = {}
    BY <2>1 DEF Owed, Range
  <2>3. Listed(t) = Range(pending[t])
    BY <2>1 DEF Listed, Range
  <2> QED BY <1>2, <2>2, <2>3 DEF DroppedOf, Dropped
<1>3. CASE ~(t = Main /\ mode[t] = "completed")
  <2>1. DroppedOf(t) = {}
    BY <1>3 DEF DroppedOf, Dropped
  <2>2. ~Unwinding(t) => Range(pending[t]) = {}
    BY <1>1, <1>3 DEF ControlOf, Range
  <2>3. Listed(t) = Owed(t)
    BY <2>2 DEF Listed, Owed
  <2>4. ASSUME Over(t), ~(t = Main /\ fatal) PROVE Owed(t) = {}
    <3>1. frames[t] = <<>> /\ ~Unwinding(t)
      BY <1>1, <2>4 DEF ControlOf, Over, Unwinding
    <3> QED BY <3>1 DEF Owed, Range
  <2> QED BY <2>1, <2>3, <2>4
<1> QED BY <1>2, <1>3

(***************************************************************************)
(* Whoever holds the mutex owes its unlock, once: however the frames of    *)
(* the holder are left, the mutex is released by it and by nobody else -   *)
(* or it is the main task that holds it, whose unlock the end of the       *)
(* script dropped.                                                         *)
(***************************************************************************)
THEOREM LocksAreOwed == Spec => []LockIsOwed
<1>1. IInv => LockIsOwed
  <2> SUFFICES ASSUME IInv, NEW t \in Tasks
               PROVE  /\ (owner = t) = (need[t] = "unlock" \/ Owes(t, "unlock")
                                          \/ (t = Main /\ LockLost))
                      /\ \A d, e \in Owed(t) : d.act = "unlock" /\ e.act = "unlock" => d = e
    BY DEF LockIsOwed
  <2>1. /\ (owner = t) = (need[t] = "unlock" \/ Lists(t, "unlock"))
        /\ \A d, e \in Listed(t) : d.act = "unlock" /\ e.act = "unlock" => d = e
    BY DEF IInv, LockIsListed
  <2>2. Listed(t) = Owed(t) \cup DroppedOf(t)
    BY ListedIsOwed DEF IInv
  <2>3. Lists(t, "unlock") <=> Owes(t, "unlock") \/ (t = Main /\ LockLost)
    BY <2>2 DEF Lists, Owes, LockLost, DroppedOf
  <2> QED BY <2>1, <2>2, <2>3
<1> QED BY <1>1, Invariant, PTL

(***************************************************************************)
(* The WaitGroup counts the workers that are not done, however they end.   *)
(***************************************************************************)
THEOREM CountsAreOwed == Spec => []CountIsOwed
<1>1. IInv => CountIsOwed
  <2> SUFFICES ASSUME IInv PROVE CountIsOwed
    OBVIOUS
  <2>1. ASSUME NEW t \in Tasks PROVE Lists(t, "done") <=> Owes(t, "done")
    <3>1. Listed(t) = Owed(t) \cup DroppedOf(t)
      BY ListedIsOwed DEF IInv
    <3>2. Lists(t, "done") => t # Main
      BY DEF IInv, OneDone
    <3>3. t # Main => DroppedOf(t) = {}
      BY DEF DroppedOf
    <3> QED BY <3>1, <3>2, <3>3 DEF Lists, Owes
  <2>2. {t \in Tasks : need[t] = "done" \/ Lists(t, "done")}
          = {t \in Tasks : need[t] = "done" \/ Owes(t, "done")}
    BY <2>1
  <2> QED BY <2>2 DEF IInv, CountIsListed, CountIsOwed
<1> QED BY <1>1, Invariant, PTL

(***************************************************************************)
(* A task that returned, or a background task that failed, has executed    *)
(* every deferred native, unlock and done, and none of them twice; the     *)
(* main task all but those that the end of the script dropped, and those   *)
(* it did not execute.                                                     *)
(***************************************************************************)
THEOREM CleanupsRun == Spec => []CleanupRuns
<1>1. IInv => CleanupRuns
  <2> SUFFICES ASSUME IInv, NEW t \in Tasks
               PROVE  /\ IsInjective(ran[t])
                      /\ \A i \in DOMAIN made[t] : ~(Executed(t, i) /\ DroppedCall(t, i))
                      /\ Over(t) /\ ~(t = Main /\ fatal)
                           => \A i \in DOMAIN made[t] :
                                made[t][i] # "call" => Executed(t, i) \/ DroppedCall(t, i)
    BY DEF CleanupRuns
  <2>1. LedgerOf(t)
    BY DEF IInv, Ledger
  <2>2. /\ Listed(t) = Owed(t) \cup DroppedOf(t)
        /\ Over(t) /\ ~(t = Main /\ fatal) => Owed(t) = {}
    BY ListedIsOwed DEF IInv
  <2>3. \A i : (\E d \in DroppedOf(t) : d.id = i) <=> DroppedCall(t, i)
    BY DEF DroppedOf, DroppedCall
  <2>4. \A i : DroppedCall(t, i) => i \notin Range(ran[t])
    BY <2>1, <2>2, <2>3 DEF LedgerOf
  <2> QED BY <2>1, <2>2, <2>3, <2>4 DEF LedgerOf, Executed
<1> QED BY <1>1, Invariant, PTL

(***************************************************************************)
(* When wait() returns, each worker has left its outermost frame or is     *)
(* just leaving it.                                                        *)
(***************************************************************************)
THEOREM WaitsAreKept == Spec => WaitMeansDone
<1>1. IInv /\ [Next]_vars => [want[Main] = "wait" /\ want'[Main] = "none"
                                => \A t \in Tasks \ {Main} :
                                     mode[t] = "unborn" \/ Over(t) \/ Len(frames[t]) <= 1]_vars
  <2> SUFFICES ASSUME IInv, Next, want[Main] = "wait", want'[Main] = "none",
                      NEW t \in Tasks, t # Main
               PROVE  Len(frames[t]) <= 1
    BY DEF vars, stack
  <2>1. Typed /\ Control /\ CountIsListed /\ DoneAtBottom
    BY DEF IInv
  <2>2. Wait(Main)
    <3>1. want \in [Tasks -> {"none", "lock", "wait"}] /\ Main \in Tasks
      BY <2>1 DEF Typed
    <3>2. ~Add
      BY <3>1 DEF Add
    <3>3. PICK u \in Tasks : Task(u)
      BY <3>2 DEF Next
    <3>4. u = Main
      BY <2>1, <3>1, <3>3, Bystander DEF Untouched
    <3>5. Task(Main)
      BY <3>3, <3>4
    <3> QED BY <3>1, <3>5 DEF Task, Call, TailCall, Defer, Want, Lock, TryLock, Free, Acquire,
            DeferUnlock, Spawn, DeferDone, ReturnDeferred, CanReturn, Return, End, Propagate,
            Fail, Unwind, Unwound
  <2>3. count = 0
    BY <2>2 DEF Wait
  <2>4. ~Duty(t, "done")
    <3>1. count = Cardinality(Counted) + Announced /\ IsFiniteSet(Counted)
          /\ Cardinality(Counted) \in Nat
      BY <2>1, CountedFacts
    <3>2. Announced \in Nat
      BY DEF Announced
    <3>3. Cardinality(Counted) = 0
      BY <2>3, <3>1, <3>2
    <3>4. Counted = {}
      BY <3>1, <3>3, FS_EmptySet
    <3> QED BY <3>4 DEF Counted
  <2>5. frames[t] \in Seq(FrameType)
    BY <2>1 DEF Typed
  <2>6. CASE frames[t] = <<>>
    BY <2>6
  <2>7. CASE frames[t] # <<>>
    <3>1. Bottom(t)
      BY <2>1 DEF DoneAtBottom, Bottom, Low, Leaving
    <3>2. ~Low(frames[t][1])
      <4> SUFFICES ASSUME Low(frames[t][1]) PROVE FALSE
        OBVIOUS
      <4>1. 1 \in DOMAIN frames[t]
        BY <2>5, <2>7, EmptySeq, LenProperties
      <4>2. frames[t][1] \in FrameType /\ frames[t][1] \in Range(frames[t])
        BY <2>5, <4>1 DEF Range
      <4>3. frames[t][1].defers \in Seq(Entries)
        BY <4>2 DEF FrameType
      <4>4. 1 \in DOMAIN frames[t][1].defers
        BY <4>3, EmptySeq, LenProperties DEF Low
      <4>5. frames[t][1].defers[1] \in Range(frames[t][1].defers)
        BY <4>4 DEF Range
      <4>6. frames[t][1].defers[1] \in Listed(t)
        BY <4>2, <4>5 DEF Listed
      <4> QED BY <2>4, <4>6 DEF Low, Duty, Lists
    <3>3. Leaving(frames[t])
      BY <2>4, <2>7, <3>1, <3>2 DEF Bottom, Duty
    <3> QED BY <3>3 DEF Leaving
  <2> QED BY <2>6, <2>7
<1> QED BY <1>1, Invariant, PTL DEF Spec, WaitMeansDone

(***************************************************************************)
(* Deferred calls are executed in LIFO order, over all frames of a task.   *)
(***************************************************************************)
THEOREM DefersAreLifo == Spec => LastInFirstOut
<1>1. IInv /\ [Next]_vars => [\A t \in Tasks : ran'[t] # ran[t]
                                => \A d \in Owed(t) : d.id <= Last(ran'[t])]_vars
  <2> SUFFICES ASSUME IInv, Next, NEW t \in Tasks, ran'[t] # ran[t], NEW e \in Owed(t)
               PROVE  e.id <= Last(ran'[t])
    OBVIOUS
  <2>e. e \in Listed(t)
    BY ListedIsOwed DEF IInv
  <2>1. Typed /\ Control /\ LedgerOf(t)
    BY DEF IInv, Ledger
  <2>2. Typed'
    BY <2>1, TypedNext
  <2>3. Task(t)
    BY <2>1, Bystander DEF Next, Add, Untouched
  <2>4. ReturnDeferred(t) \/ Unwind(t)
    <3>1. ~Moves(t)
      BY <2>1, <2>2, MovesKeep
    <3>2. ~Registering(t)
      BY <2>1, RegisteringFacts DEF Registers
    <3>3. ~Unlocking(t)
      BY DEF Unlocking, DeferUnlock
    <3> QED BY <2>3, <3>1, <3>2, <3>3, TaskKinds
  <2>5. PICK d \in Entries : Executes(t, d)
    BY <2>1, <2>2, <2>4, ExecutesLast
  <2>6. ran'[t] = Append(ran[t], d.id)
    BY <2>1, <2>5 DEF Executes, Perform, Typed
  <2>7. Last(ran'[t]) = d.id
    <3>1. ran[t] \in Seq(Nat \ {0}) /\ d.id \in Nat \ {0}
      BY <2>1 DEF Typed, Entries, Entry
    <3>2. /\ Len(Append(ran[t], d.id)) = Len(ran[t]) + 1
          /\ Append(ran[t], d.id)[Len(ran[t]) + 1] = d.id
      BY <3>1, AppendProperties
    <3> QED BY <2>6, <3>2 DEF Last
  <2> QED BY <2>e, <2>5, <2>7 DEF Executes
<1> QED BY <1>1, Invariant, PTL DEF Spec, LastInFirstOut
-----------------------------------------------------------------------------
(***************************************************************************)
(* Deferred calls in a task that never unwinds.                            *)
(***************************************************************************)

\* Every deferred call of t has been executed or is still listed.
Kept(t) == \A i \in DOMAIN made[t] : i \in Range(ran[t]) \/ \E d \in Listed(t) : d.id = i

(***************************************************************************)
(* Only the unwinding drops a deferred call: Return executes the call it   *)
(* takes, a Whalli function in a frame of its own.                         *)
(***************************************************************************)
LEMMA KeptNext ==
  ASSUME Typed, Typed', Control, Ledger, NEW t \in Tasks, ErrorFree(t), Kept(t), [Next]_vars
  PROVE  Kept(t)'
<1>0. LedgerOf(t) /\ made[t] \in Seq(Kinds) /\ ran[t] \in Seq(Nat \ {0})
  BY DEF Ledger, Typed
<1>1. ASSUME Untouched(t) PROVE Kept(t)'
  <2>1. Listed(t)' = Listed(t) /\ made'[t] = made[t] /\ ran'[t] = ran[t]
    BY <1>1, UntouchedLedger DEF Untouched
  <2> QED BY <2>1 DEF Kept
<1>2. CASE UNCHANGED vars \/ Add
  BY <1>1, <1>2 DEF Add, Untouched, vars, stack
<1>3. ASSUME NEW u \in Tasks, Task(u), u # t PROVE Kept(t)'
  BY <1>1, <1>3, Bystander
<1>4. ASSUME Task(t) PROVE Kept(t)'
  <2>1. CASE Moves(t)
    BY <2>1, MovesKeep DEF Kept
  <2>2. CASE Registering(t)
    <3>1. PICK act \in Kinds : Registers(t, act)
      BY <2>2, RegisteringFacts
    <3>2. /\ Listed(t)' = Listed(t) \cup {NewEntry(t, act)}
          /\ made'[t] = Append(made[t], act) /\ ran'[t] = ran[t]
      BY <1>0, <3>1, RegistersOwes DEF Registers, AddDefer, Typed
    <3>3. \A i \in DOMAIN made'[t] : i \in DOMAIN made[t] \/ i = Len(made[t]) + 1
      BY <1>0, <3>2, AppendProperties, LenProperties
    <3>4. NewEntry(t, act).id = Len(made[t]) + 1
      BY DEF NewEntry
    <3> QED BY <3>2, <3>3, <3>4 DEF Kept
  <2>3. CASE Unlocking(t)
    BY <1>1, <2>3 DEF Unlocking, DeferUnlock, Untouched
  <2>4. CASE ReturnDeferred(t)
    <3>1. PICK d \in Entries : Executes(t, d)
      BY <1>0, <2>4, ExecutesLast
    <3>2. d \in Listed(t) /\ Listed(t)' = Listed(t) \ {d} /\ made'[t] = made[t]
      BY <3>1 DEF Executes
    <3>3. ran'[t] # ran[t]
      <4> DEFINE n == Last(Top(t).defers).id
      <4>1. ran' = [ran EXCEPT ![t] = Append(@, n)]
        BY <2>4 DEF ReturnDeferred, Perform
      <4> HIDE DEF n
      <4>2. ran'[t] = Append(ran[t], n)
        BY <4>1 DEF Typed
      <4> QED BY <1>0, <4>2
    <3>4. ran'[t] = Append(ran[t], d.id) /\ d.id \in Nat \ {0}
      BY <3>1, <3>3 DEF Executes, Perform, Typed, Entries, Entry
    <3>5. Range(ran'[t]) = Range(ran[t]) \cup {d.id}
      <4>1. d.id \notin Range(ran[t]) /\ IsInjective(ran[t])
        BY <1>0, <3>2 DEF LedgerOf
      <4> QED BY <1>0, <3>4, <4>1, PushFacts
    <3> QED BY <3>2, <3>5 DEF Kept
  <2>5. ~Unwind(t)
    BY DEF Unwind, ErrorFree
  <2> QED BY <1>4, <2>1, <2>2, <2>3, <2>4, <2>5, TaskKinds
<1> QED BY <1>2, <1>3, <1>4 DEF Next

(***************************************************************************)
(* A task that never leaves a frame by an error executes all its deferred  *)
(* calls before it is over, Whalli functions too, whatever the other tasks *)
(* do, but for those in the script's own frame when the script ends: that  *)
(* and the unwinding are the only places where one is lost.                *)
(***************************************************************************)
THEOREM ErrorFreeTasksRunAllDefers ==
  ASSUME NEW t \in Tasks
  PROVE  Spec /\ []ErrorFree(t) => []DefersRun(t)
<1>1. Init => Kept(t)
  BY DEF Init, Kept
<1>2. IInv /\ IInv' /\ ErrorFree(t) /\ Kept(t) /\ [Next]_vars => Kept(t)'
  BY KeptNext DEF IInv
<1>3. IInv /\ Kept(t) => DefersRun(t)
  <2> SUFFICES ASSUME IInv, Kept(t), Over(t), ~(t = Main /\ fatal), NEW i \in DOMAIN made[t]
               PROVE  Executed(t, i) \/ DroppedCall(t, i)
    BY DEF DefersRun
  <2>1. Listed(t) = DroppedOf(t)
    BY ListedIsOwed DEF IInv
  <2> QED BY <2>1 DEF Kept, Executed, DroppedCall, DroppedOf
<1> QED BY <1>1, <1>2, <1>3, Invariant, PTL DEF Spec

-----------------------------------------------------------------------------
(***************************************************************************)
(* Tasks that wait for one another.                                        *)
(***************************************************************************)

\* The holder of the mutex waits for nothing.
HolderGoesOn == \A t \in Tasks : want[t] # "none" => owner # t

(***************************************************************************)
(* A task that is about to block does not hold the mutex, and comes to     *)
(* hold it only when it is no longer about to.                             *)
(***************************************************************************)
LEMMA HolderNext == Typed /\ Control /\ HolderGoesOn /\ [Next]_vars => HolderGoesOn'
<1> SUFFICES ASSUME Typed, Control, HolderGoesOn, [Next]_vars,
                    NEW u \in Tasks, want'[u] # "none"
             PROVE  owner' # u
  BY DEF HolderGoesOn
<1>0. want[u] # "none" => owner # u
  BY DEF HolderGoesOn
<1>1. CASE UNCHANGED vars \/ Add
  BY <1>0, <1>1 DEF Add, vars, stack
<1>2. ASSUME NEW t \in Tasks, Task(t) PROVE owner' # u
  <2>1. CASE Want(t)
    <3>1. owner' = owner /\ owner # t
      BY <2>1 DEF Want
    <3>2. u # t => want'[u] = want[u]
      BY <1>2, Bystander DEF Untouched
    <3> QED BY <1>0, <3>1, <3>2
  <2>2. CASE Lock(t) \/ TryLock(t)
    <3>1. owner' = t /\ want'[t] = "none"
      BY <2>2 DEF Lock, TryLock, Acquire, Typed
    <3> QED BY <3>1
  <2>3. CASE ~(Want(t) \/ Lock(t) \/ TryLock(t))
    <3>1. owner' = owner \/ owner' = Nobody
      BY <1>2, <2>3 DEF Task, Call, TailCall, Defer, DeferUnlock, Wait, Spawn, DeferDone,
         ReturnDeferred, Perform, Return, End, Propagate, Fail, Unwind, Unwound
    <3>2. want'[u] = want[u] \/ want'[u] = "none"
      BY <1>2, <2>3 DEF Typed, Task, Call, TailCall, Defer, DeferUnlock, Wait, Spawn, DeferDone,
         ReturnDeferred, Return, End, Propagate, Fail, Unwind, Unwound
    <3> QED BY <1>0, <3>1, <3>2
  <2> QED BY <2>1, <2>2, <2>3
<1> QED BY <1>1, <1>2 DEF Next

(***************************************************************************)
(* Who still has an obligation, or lists a deferred call, is not over, but *)
(* for the main task with calls that the end of the script dropped.        *)
(***************************************************************************)
LEMMA DutyIsAlive ==
  ASSUME Typed, Control, ~fatal, NEW t \in Tasks, NEW act, act # "none", Duty(t, act),
         ~(t = Main /\ mode[t] = "completed")
  PROVE  Alive(t)
<1>1. ControlOf(t)
  BY DEF Control
<1>2. CASE need[t] = act
  BY <1>1, <1>2 DEF ControlOf, Alive, Over
<1>3. CASE Lists(t, act)
  <2>1. frames[t] # <<>> \/ pending[t] # <<>>
    <3> SUFFICES ASSUME frames[t] = <<>>, pending[t] = <<>> PROVE Listed(t) = {}
      BY <1>3 DEF Lists
    <3> QED BY DEF Listed, Range
  <2>2. CASE frames[t] # <<>>
    BY <1>1, <2>2 DEF ControlOf, Alive, Over
  <2>3. CASE pending[t] # <<>>
    BY <1>1, <2>3 DEF ControlOf, Alive, Over, Unwinding
  <2> QED BY <2>1, <2>2, <2>3
<1> QED BY <1>2, <1>3 DEF Duty

(***************************************************************************)
(* A blocked task waits for one that is not over; the holder of the mutex, *)
(* and the main task before a spawn, are not blocked, and whom a wait()    *)
(* waits for can only be blocked on the mutex.  If the script has ended    *)
(* with the mutex locked, nothing of the kind holds.                       *)
(***************************************************************************)
THEOREM SomebodyGoesOn == Spec => []NeverAllBlocked
<1>1. Init => HolderGoesOn
  BY DEF Init, HolderGoesOn
<1>2. IInv /\ HolderGoesOn /\ [Next]_vars => HolderGoesOn'
  BY HolderNext DEF IInv
<1>3. IInv /\ HolderGoesOn => NeverAllBlocked
  <2> SUFFICES ASSUME IInv, HolderGoesOn, ~fatal, ~LockLost, NEW t \in Tasks, Alive(t), Blocked(t)
               PROVE  \E u \in Tasks : Alive(u) /\ ~Blocked(u)
    BY DEF NeverAllBlocked
  <2>0. /\ Typed /\ Control /\ CountIsListed /\ OneDone
        /\ \A u \in Tasks : Fits(u)
    BY FitsTogether DEF IInv
  <2>1. CASE owner # Nobody
    <3>1. owner \in Tasks /\ want[owner] = "none"
      BY <2>0, <2>1 DEF Typed, HolderGoesOn
    <3>2. Duty(owner, "unlock")
      BY <2>0, <3>1 DEF Fits
    <3>3. ASSUME owner = Main, mode[owner] = "completed" PROVE FALSE
      <4>1. Lists(owner, "unlock")
        BY <2>0, <3>1, <3>2, <3>3 DEF Control, ControlOf, Duty
      <4>2. Listed(owner) = Dropped
        BY <2>0, <3>1, <3>3, ListedIsOwed DEF DroppedOf, Over
      <4> QED BY <4>1, <4>2 DEF Lists, LockLost
    <3>4. Alive(owner)
      BY <2>0, <3>1, <3>2, <3>3, DutyIsAlive
    <3> QED BY <3>1, <3>4 DEF Blocked
  <2>2. CASE owner = Nobody
    <3>1. want[t] = "wait" /\ count > 0
      BY <2>2 DEF Blocked
    <3>2. t = Main /\ need[Main] = "none"
      BY <2>0, <3>1 DEF Control, ControlOf
    <3>3. Announced = 0
      BY <3>2 DEF Announced, Spawning
    <3>4. Counted # {}
      BY <2>0, <3>1, <3>3, CountedFacts, FS_EmptySet
    <3>5. PICK u \in Tasks : Duty(u, "done")
      BY <3>4 DEF Counted
    <3>6. u # Main
      BY <2>0, <3>2, <3>5 DEF Duty, OneDone
    <3>7. Alive(u)
      BY <2>0, <3>5, <3>6, DutyIsAlive
    <3>8. want[u] # "wait"
      BY <2>0, <3>6 DEF Control, ControlOf
    <3> QED BY <2>2, <3>7, <3>8 DEF Blocked
  <2> QED BY <2>1, <2>2
<1> QED BY <1>1, <1>2, <1>3, Invariant, PTL DEF Spec
=============================================================================

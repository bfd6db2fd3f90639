----------------------------- MODULE QueueFacts -----------------------------
(***************************************************************************)
(* What the queue operations of the runtime (push to the tail, pop of the  *)
(* head, steal of a prefix) do to the set of queued elements, and that     *)
(* they keep a queue free of duplicates.                                   *)
(***************************************************************************)
EXTENDS Integers, Sequences, Functions, SequenceTheorems, TLAPS

(***************************************************************************)
(* Pushing an element adds it to the queued ones; a queue without          *)
(* duplicates keeps none if the element was not in it (Injector::push).    *)
(***************************************************************************)
LEMMA PushFacts ==
  ASSUME NEW S, NEW q \in Seq(S), NEW e \in S
  PROVE  /\ Append(q, e) \in Seq(S)
         /\ Range(Append(q, e)) = Range(q) \cup {e}
         /\ IsInjective(q) /\ e \notin Range(q) => IsInjective(Append(q, e))
<1> DEFINE p == Append(q, e)
<1>1. /\ p \in Seq(S) /\ Len(p) = Len(q) + 1 /\ Len(q) \in Nat
      /\ \A i \in 1 .. Len(q) : p[i] = q[i]
      /\ p[Len(q) + 1] = e
  BY AppendProperties, LenProperties
<1>2. DOMAIN p = 1 .. Len(q) + 1 /\ DOMAIN q = 1 .. Len(q)
  BY <1>1, LenProperties
<1>3. Range(p) = {p[i] : i \in 1 .. Len(q) + 1} /\ Range(q) = {q[i] : i \in 1 .. Len(q)}
  BY <1>2 DEF Range
<1>4. Range(p) = Range(q) \cup {e}
  <2>1. 1 .. Len(q) + 1 = (1 .. Len(q)) \cup {Len(q) + 1}
    BY <1>1
  <2> QED BY <1>1, <1>3, <2>1
<1>5. ASSUME IsInjective(q), e \notin Range(q) PROVE IsInjective(p)
  <2> SUFFICES ASSUME NEW i \in 1 .. Len(q) + 1, NEW j \in 1 .. Len(q) + 1,
                      p[i] = p[j]
               PROVE  i = j
    BY <1>2 DEF IsInjective
  <2>1. CASE i \in 1 .. Len(q) /\ j \in 1 .. Len(q)
    BY <1>1, <1>2, <1>5, <2>1 DEF IsInjective
  <2>2. CASE i = Len(q) + 1 /\ j \in 1 .. Len(q)
    BY <1>1, <1>3, <1>5, <2>2
  <2>3. CASE j = Len(q) + 1 /\ i \in 1 .. Len(q)
    BY <1>1, <1>3, <1>5, <2>3
  <2> QED BY <1>1, <2>1, <2>2, <2>3
<1> QED BY <1>1, <1>4, <1>5

(***************************************************************************)
(* Stealing the first k elements of a queue without duplicates: its head,  *)
(* the rest of the batch and what stays are disjoint, have no duplicates   *)
(* and make up the queue (steal_batch_and_pop).                            *)
(***************************************************************************)
LEMMA BatchFacts ==
  ASSUME NEW S, NEW q \in Seq(S), IsInjective(q), NEW k \in 1 .. Len(q)
  PROVE  LET h == Head(q)
             b == SubSeq(q, 2, k)
             r == SubSeq(q, k + 1, Len(q))
         IN  /\ h \in S /\ b \in Seq(S) /\ r \in Seq(S)
             /\ Range(q) = {h} \cup Range(b) \cup Range(r)
             /\ h \notin Range(b) /\ h \notin Range(r)
             /\ Range(b) \cap Range(r) = {}
             /\ IsInjective(b) /\ IsInjective(r)
<1> DEFINE h == Head(q)
           n == Len(q)
           b == SubSeq(q, 2, k)
           r == SubSeq(q, k + 1, n)
<1>1. n \in Nat /\ k \in Nat /\ k >= 1 /\ k <= n /\ DOMAIN q = 1 .. n
      /\ \A i \in 1 .. n : q[i] \in S
  BY LenProperties, ElementOfSeq
<1>2. h = q[1] /\ h \in S
  BY <1>1, HeadTailProperties
<1>3. b \in Seq(S) /\ DOMAIN b = 1 .. (k - 1)
      /\ \A i \in 1 .. (k - 1) : b[i] = q[i + 1]
  <2>1. \A i \in 2 .. k : q[i] \in S
    BY <1>1
  <2>2. /\ b \in Seq(S)
        /\ Len(b) = IF 2 <= k THEN k - 2 + 1 ELSE 0
        /\ \A i \in 1 .. k - 2 + 1 : b[i] = q[2 + i - 1]
    BY <1>1, <2>1, SubSeqProperties
  <2> HIDE DEF b, r
  <2>3. Len(b) = k - 1
    <3>1. Len(b) = IF 2 <= k THEN k - 2 + 1 ELSE 0
      BY <2>2
    <3>2. k \in Nat /\ k >= 1
      BY <1>1
    <3> QED BY <3>1, <3>2
  <2>4. DOMAIN b = 1 .. (k - 1)
    BY <2>2, <2>3, LenProperties
  <2> QED BY <1>1, <2>2, <2>4
<1>4. r \in Seq(S) /\ DOMAIN r = 1 .. (n - k)
      /\ \A i \in 1 .. (n - k) : r[i] = q[i + k]
  <2>1. \A i \in k + 1 .. n : q[i] \in S
    BY <1>1
  <2>2. /\ r \in Seq(S)
        /\ Len(r) = IF k + 1 <= n THEN n - (k + 1) + 1 ELSE 0
        /\ \A i \in 1 .. n - (k + 1) + 1 : r[i] = q[k + 1 + i - 1]
    BY <1>1, <2>1, SubSeqProperties
  <2> HIDE DEF b, r
  <2>3. Len(r) = n - k
    <3>1. Len(r) = IF k + 1 <= n THEN n - (k + 1) + 1 ELSE 0
      BY <2>2
    <3>2. k \in Nat /\ n \in Nat /\ k <= n
      BY <1>1
    <3> QED BY <3>1, <3>2
  <2>4. DOMAIN r = 1 .. (n - k)
    BY <2>2, <2>3, LenProperties
  <2>5. \A i \in 1 .. (n - k) :
          i \in 1 .. n - (k + 1) + 1 /\ k + 1 + i - 1 = i + k
    BY <1>1
  <2>6. \A i \in 1 .. (n - k) : r[i] = q[i + k]
    BY <2>2, <2>5
  <2> QED BY <2>2, <2>4, <2>6
<1> HIDE DEF h, b, r, n
<1>5. \A i, j \in 1 .. n : q[i] = q[j] => i = j
  BY <1>1 DEF IsInjective
<1>6. Range(q) = {h} \cup Range(b) \cup Range(r)
  <2>1. ASSUME NEW i \in 1 .. n PROVE q[i] \in {h} \cup Range(b) \cup Range(r)
    <3>1. CASE i = 1
      BY <1>2, <3>1
    <3>2. CASE i \in 2 .. k
      <4>1. i - 1 \in 1 .. (k - 1) /\ (i - 1) + 1 = i
        BY <1>1, <3>2
      <4> QED BY <1>3, <4>1 DEF Range
    <3>3. CASE i \in k + 1 .. n
      <4>1. i - k \in 1 .. (n - k) /\ (i - k) + k = i
        BY <1>1, <3>3
      <4> QED BY <1>4, <4>1 DEF Range
    <3> QED BY <1>1, <3>1, <3>2, <3>3
  <2>2. h \in Range(q)
    BY <1>1, <1>2 DEF Range
  <2>3. Range(b) \subseteq Range(q)
    <3>1. \A i \in 1 .. (k - 1) : i + 1 \in 1 .. n
      BY <1>1
    <3> QED BY <1>1, <1>3, <3>1 DEF Range
  <2>4. Range(r) \subseteq Range(q)
    <3>1. \A i \in 1 .. (n - k) : i + k \in 1 .. n
      BY <1>1
    <3> QED BY <1>1, <1>4, <3>1 DEF Range
  <2>5. Range(q) \subseteq {h} \cup Range(b) \cup Range(r)
    BY <1>1, <2>1 DEF Range
  <2> QED BY <2>2, <2>3, <2>4, <2>5
<1>7. h \notin Range(b) /\ h \notin Range(r)
  <2>1. \A i \in 1 .. (k - 1) : i + 1 \in 1 .. n /\ i + 1 # 1 /\ 1 \in 1 .. n
    BY <1>1
  <2>2. \A i \in 1 .. (n - k) : i + k \in 1 .. n /\ i + k # 1 /\ 1 \in 1 .. n
    BY <1>1
  <2>3. \A i \in 1 .. (k - 1) : b[i] # h
    BY <1>2, <1>3, <1>5, <2>1
  <2>4. \A i \in 1 .. (n - k) : r[i] # h
    BY <1>2, <1>4, <1>5, <2>2
  <2> QED BY <1>3, <1>4, <2>3, <2>4 DEF Range
<1>8. Range(b) \cap Range(r) = {}
  <2>1. \A i \in 1 .. (k - 1), j \in 1 .. (n - k) :
          i + 1 \in 1 .. n /\ j + k \in 1 .. n /\ i + 1 # j + k
    BY <1>1
  <2>2. \A i \in 1 .. (k - 1), j \in 1 .. (n - k) : b[i] # r[j]
    BY <1>3, <1>4, <1>5, <2>1, SMTT(60)
  <2> QED BY <1>3, <1>4, <2>2 DEF Range
<1>9. IsInjective(b)
  <2>1. \A i, j \in 1 .. (k - 1) :
          i + 1 \in 1 .. n /\ j + 1 \in 1 .. n /\ (i + 1 = j + 1 => i = j)
    BY <1>1
  <2> QED BY <1>3, <1>5, <2>1, SMTT(60) DEF IsInjective
<1>10. IsInjective(r)
  <2>1. \A i, j \in 1 .. (n - k) :
          i + k \in 1 .. n /\ j + k \in 1 .. n /\ (i + k = j + k => i = j)
    BY <1>1
  <2> QED BY <1>4, <1>5, <2>1 DEF IsInjective
<1> QED BY <1>2, <1>3, <1>4, <1>6, <1>7, <1>8, <1>9, <1>10 DEF h, b, r, n

(***************************************************************************)
(* Popping the head of a queue without duplicates (Worker::pop of a FIFO   *)
(* deque, VecDeque::pop_front).                                            *)
(***************************************************************************)
LEMMA PopFacts ==
  ASSUME NEW S, NEW q \in Seq(S), IsInjective(q), q # <<>>
  PROVE  /\ Head(q) \in S /\ Tail(q) \in Seq(S)
         /\ Range(q) = {Head(q)} \cup Range(Tail(q))
         /\ Head(q) \notin Range(Tail(q))
         /\ IsInjective(Tail(q))
<1>1. Len(q) \in Nat /\ Len(q) # 0
  BY LenProperties, EmptySeq
<1>2. 1 \in 1 .. Len(q)
  BY <1>1
<1>3. Tail(q) = SubSeq(q, 2, Len(q)) /\ SubSeq(q, 2, 1) = <<>>
  BY TailIsSubSeq, SubSeqEmpty
<1>4. SubSeq(q, 1 + 1, Len(q)) = Tail(q)
  BY <1>3
<1>5. /\ Head(q) \in S /\ SubSeq(q, 1 + 1, Len(q)) \in Seq(S)
      /\ Range(q) = {Head(q)} \cup Range(SubSeq(q, 2, 1))
                      \cup Range(SubSeq(q, 1 + 1, Len(q)))
      /\ Head(q) \notin Range(SubSeq(q, 1 + 1, Len(q)))
      /\ IsInjective(SubSeq(q, 1 + 1, Len(q)))
  BY <1>2, BatchFacts
<1>6. Range(<<>>) = {}
  BY DEF Range
<1> QED BY <1>3, <1>4, <1>5, <1>6
=============================================================================

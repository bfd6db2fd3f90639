----------------------------- MODULE ServerProofs -----------------------------
(***************************************************************************)
(* The inductive invariants of modules Router and Server and the theorems  *)
(* that follow from them, for any number of steps of setting a router up,  *)
(* any middlewares and paths, any requests and frames of the client, any   *)
(* size of reads, and wherever TCP cuts what the client sends.             *)
(***************************************************************************)
EXTENDS Server, WellFoundedInduction, SequenceTheorems, FiniteSetTheorems, TLAPS

Places == {"setup", "reading", "parse", "dispatch", "closing", "closed", "socket"}
Serving == pc \in {"setup", "reading", "parse", "dispatch"}
Answerers == {"400", "middleware", "404", "405", "not_found", "method_not_allowed",
              "page", "socket", "files"}
Kinds == {"text", "binary", "ping", "close"}

RequestUnit == [of : DOMAIN Script, part : {"head", "blank", "body"}]
FrameUnit == [of : DOMAIN Frames, part : {"start", "end"}]
AnyUnit == RequestUnit \cup FrameUnit
Stream == Seq(AnyUnit)
Exchange == [of : DOMAIN Script, body : Stream]
Reply == [to : 0 .. Len(Script), by : Answerers, last : BOOLEAN]

(***************************************************************************)
(* The router.                                                             *)
(***************************************************************************)
Segments == {Wildcard} \cup UNION {ToSet(p) : p \in Paths}
PathSet == Seq(Segments)
GroupRecord == [prefix : PathSet, middlewares : Seq(Middlewares)]
Declaration == [methods : SUBSET (Methods \cup StandardMethods), paths : SUBSET PathSet,
                handler : {"page", "socket", "files"}, scope : SUBSET Middlewares]

RouterTyped ==
  /\ global \in Seq(Middlewares)
  /\ groups \in Seq(GroupRecord)
  /\ declared \in Seq(Declaration)
  /\ scopes \in Seq(SUBSET Middlewares)
  /\ Len(scopes) = Len(groups) + 1

\* The middlewares in scope are those that have been put in force.
ScopesAre ==
  /\ scopes[1] = ToSet(global)
  /\ \A g \in 1 .. Len(groups) : scopes[g + 1] = ToSet(groups[g].middlewares)

Covers(i, m, p) == m \in declared[i].methods /\ p \in declared[i].paths

\* There is a route for what has been declared, and it is the last one's.
RoutesAre ==
  /\ \A r \in DOMAIN routes : r = <<r[1], r[2]>>
  /\ \A m, p : <<m, p>> \in DOMAIN routes <=> \E i \in DOMAIN declared : Covers(i, m, p)
  /\ \A m, p : <<m, p>> \in DOMAIN routes =>
       \E i \in DOMAIN declared :
         /\ Covers(i, m, p)
         /\ routes[<<m, p>>] = declared[i].handler
         /\ \A j \in (i + 1) .. Len(declared) : ~Covers(j, m, p)

\* What is attached to a path was in scope of a declaration of it, the last in
\* scope of anything.
AttachedAre ==
  /\ \A p \in DOMAIN attached :
       /\ attached[p] \in Seq(Middlewares)
       /\ \E i \in Deciding(declared, p) : ToSet(attached[p]) = declared[i].scope
  /\ \A i \in DOMAIN declared : declared[i].scope # {} => declared[i].paths \subseteq DOMAIN attached

RouterInv == RouterTyped /\ ScopesAre /\ RoutesAre /\ AttachedAre

(***************************************************************************)
(* The connection.                                                         *)
(***************************************************************************)
Typed ==
  /\ setup \in 0 .. MaxSetup /\ pc \in Places /\ fin \in BOOLEAN /\ patient \in BOOLEAN
  /\ unsent \in Stream /\ wire \in Stream /\ buffer \in Stream /\ frames \in Stream
  /\ handled \in Seq(Exchange) /\ replies \in Seq(Reply)
  /\ messages \in Seq(DOMAIN Frames) /\ pongs \in 0 .. Len(Frames)
  /\ pc \notin {"reading", "parse"} => buffer = <<>>
  /\ pc # "socket" => frames = <<>>
  /\ pc \notin {"socket", "closed"} => messages = <<>> /\ pongs = 0

\* What the client has not been asked yet begins after the n-th unit, and
\* whatever begins there is later than what has been handled.
AheadOf(n) ==
  /\ buffer \o (wire \o unsent) = Rest(AllUnits, n)
  /\ \A i \in DOMAIN handled, q \in (n + 1) .. Len(AllUnits) :
       AllUnits[q].part = "head" => handled[i].of < AllUnits[q].of
Ahead == Serving => \E n \in 0 .. Len(AllUnits) : AheadOf(n)

\* A request to upgrade is the last thing that is sent before its answer.
KeyIsLast == pc = "dispatch" /\ Current.key => wire = <<>> /\ unsent = <<>>

Answered ==
  /\ pc \in {"setup", "reading", "parse"} => Len(replies) = Len(handled)
  /\ pc \in {"dispatch", "socket"} => Len(handled) = Len(replies) + 1

\* A patient client has sent the requests that were answered, and then either
\* nothing or one more.
Waited == buffer = <<>> /\ wire = <<>> /\ Sent = 1 .. Len(replies)
OneMore == /\ Len(replies) < Len(Script)
           /\ buffer \o wire = Units(Len(replies) + 1)
           /\ Sent = 1 .. Len(replies) + 1
Patience ==
  patient /\ Serving =>
    /\ pc \in {"setup", "reading"} => Waited \/ OneMore
    /\ pc = "parse" => OneMore /\ wire = <<>>
    /\ pc = "dispatch" => wire = <<>> /\ Sent = 1 .. Len(replies) + 1

\* On an upgraded connection k frames have been taken out of the stream: x is
\* what has been read beyond them, y the rest, msgs the messages among them.
StreamAt(k, msgs, x, y) ==
  /\ x \in Stream /\ y \in Stream /\ msgs \in Seq(DOMAIN Frames)
  /\ x \o y = Rest(AllFrames, 2 * k)
  /\ msgs \o MessagesIn(x \o y) = MessagesIn(AllFrames)
Framed == Upgraded => \E k \in 0 .. Len(Frames) :
                        pongs <= k /\ StreamAt(k, messages, frames, wire \o unsent)

ConnectionInv ==
  /\ Typed /\ Ahead /\ KeyIsLast /\ Answered /\ ExchangesInOrder
  /\ Patience /\ WholeRequestsServed /\ Framed

IInv == RouterInv /\ ConnectionInv

-----------------------------------------------------------------------------
(***************************************************************************)
(* Induction, and sequences of sequences one after the other.              *)
(***************************************************************************)

(***************************************************************************)
(* A non-empty set of natural numbers has a least element: what induction  *)
(* over data rests on below.                                               *)
(***************************************************************************)
LEMMA LeastNatural == \A T \in SUBSET Nat : T # {} => \E m \in T : \A k \in T : m <= k
<1>1. PICK R : IsWellFoundedOn(R, Nat) /\ \A x, y \in Nat : x < y => <<x, y>> \in R
  <2> DEFINE Q == OpToRel(<, Nat)
  <2>1. IsWellFoundedOn(Q, Nat)
    BY NatLessThanWellFounded
  <2>2. \A x, y \in Nat : x < y => <<x, y>> \in Q
    BY DEF OpToRel
  <2> HIDE DEF Q
  <2> QED BY <2>1, <2>2, Zenon
<1>2. TAKE T \in SUBSET Nat
<1>3. HAVE T # {}
<1>4. PICK x \in T : \A y \in T : ~(<<y, x>> \in R)
  <2>1. T \subseteq Nat
    OBVIOUS
  <2>2. IsWellFoundedOn(R, Nat)
    BY <1>1
  <2> QED BY ONLY <2>1, <2>2, <1>3, WFMin
<1>5. \A y \in T : ~(y < x)
  BY <1>4, <1>1, Zenon
<1> QED BY <1>5

(***************************************************************************)
(* So a set of numbers up to n that has 0, and with a number the next one, *)
(* has all of them.                                                        *)
(***************************************************************************)
LEMMA Climb ==
  ASSUME NEW n \in Nat, NEW G, 0 \in G, \A m \in 1 .. n : m - 1 \in G => m \in G
  PROVE  \A m \in 0 .. n : m \in G
<1> DEFINE Bad == {m \in 0 .. n : m \notin G}
<1>1. CASE Bad = {}
  BY <1>1
<1>2. CASE Bad # {}
  <2>1. PICK m \in Bad : \A k \in Bad : m <= k
    <3>1. Bad \in SUBSET Nat
      OBVIOUS
    <3> HIDE DEF Bad
    <3> QED BY <3>1, <1>2, LeastNatural
  <2>2. m \in 1 .. n
    BY <2>1
  <2>3. m - 1 \in G
    BY <2>1, <2>2
  <2> QED BY <2>1, <2>2, <2>3
<1> QED BY <1>1, <1>2

\* f lists what the first n sequences of s are, one after the other.
Joins(f, s, n, X) ==
  /\ f \in [0 .. n -> Seq(X)]
  /\ f[0] = <<>>
  /\ \A k \in 1 .. n : f[k] = f[k - 1] \o s[k]

(***************************************************************************)
(* There are such lists.                                                   *)
(***************************************************************************)
LEMMA JoinsExist ==
  ASSUME NEW X, NEW s \in Seq(Seq(X))
  PROVE  \E f : Joins(f, s, Len(s), X)
<1> DEFINE G == {n \in 0 .. Len(s) : \E f : Joins(f, s, n, X)}
<1>0. Len(s) \in Nat /\ \A k \in 1 .. Len(s) : s[k] \in Seq(X)
  OBVIOUS
<1>1. 0 \in G
  <2>1. Joins([k \in 0 .. 0 |-> <<>>], s, 0, X)
    BY DEF Joins
  <2> QED BY <2>1, <1>0
<1>2. ASSUME NEW m \in 1 .. Len(s), m - 1 \in G
      PROVE  m \in G
  <2>1. PICK f : Joins(f, s, m - 1, X)
    BY <1>2
  <2> DEFINE h == [k \in 0 .. m |-> IF k = m THEN f[m - 1] \o s[m] ELSE f[k]]
  <2>2. f[m - 1] \in Seq(X) /\ s[m] \in Seq(X)
    BY <2>1, <1>0 DEF Joins
  <2>2a. f[m - 1] \o s[m] \in Seq(X)
    BY <2>2
  <2>3. h \in [0 .. m -> Seq(X)]
    BY <2>1, <2>2a DEF Joins
  <2>4. h[0] = <<>>
    BY <2>1, <1>0 DEF Joins
  <2>5. ASSUME NEW k \in 1 .. m
        PROVE  h[k] = h[k - 1] \o s[k]
    <3>1. k - 1 \in 0 .. m /\ k - 1 # m /\ k \in 0 .. m
      BY <1>0
    <3>2. h[k - 1] = f[k - 1]
      BY <3>1
    <3>3. CASE k = m
      BY <3>2, <3>3, <3>1
    <3>4. CASE k # m
      <4>1. k \in 1 .. m - 1
        BY <3>4, <1>0
      <4>2. f[k] = f[k - 1] \o s[k]
        BY <4>1, <2>1 DEF Joins
      <4> QED BY <3>1, <3>2, <3>4, <4>2
    <3> QED BY <3>3, <3>4
  <2>6. Joins(h, s, m, X)
    BY <2>3, <2>4, <2>5 DEF Joins
  <2> QED BY <2>6, <1>0
<1>3. \A m \in 0 .. Len(s) : m \in G
  <2> HIDE DEF G
  <2> QED BY <1>0, <1>1, <1>2, Climb
<1> QED BY <1>3, <1>0

(***************************************************************************)
(* FlattenSeq ends with what such a list ends with.                        *)
(***************************************************************************)
LEMMA FlattenJoins ==
  ASSUME NEW X, NEW s \in Seq(Seq(X)), NEW f, Joins(f, s, Len(s), X)
  PROVE  FlattenSeq(s) = f[Len(s)]
<1>0. Len(s) \in Nat /\ \A k \in 1 .. Len(s) : s[k] \in Seq(X)
  OBVIOUS
<1>1. CASE Len(s) = 0
  <2>1. s = <<>>
    BY <1>1
  <2>2. FlattenSeq(s) = s
    BY <1>1 DEF FlattenSeq
  <2>3. f[Len(s)] = <<>>
    BY <1>1 DEF Joins
  <2> QED BY <2>1, <2>2, <2>3
<1>2. CASE Len(s) # 0
  <2> DEFINE IsFlatten(h) == h = [i \in 1 .. Len(s) |-> IF i = 1 THEN s[i] ELSE h[i - 1] \o s[i]]
             g == [i \in 1 .. Len(s) |-> f[i]]
  <2>1. IsFlatten(g)
    <3>1. ASSUME NEW i \in 1 .. Len(s)
          PROVE  g[i] = IF i = 1 THEN s[i] ELSE g[i - 1] \o s[i]
      <4>1. f[i] = f[i - 1] \o s[i]
        BY DEF Joins
      <4>2. CASE i = 1
        <5>1. f[0] = <<>>
          BY DEF Joins
        <5>2. <<>> \o s[1] = s[1]
          BY <1>0, <1>2
        <5>3. f[1] = f[0] \o s[1]
          <6>1. 1 \in 1 .. Len(s) /\ 1 - 1 = 0
            BY <1>0, <1>2
          <6>2. f[1] = f[1 - 1] \o s[1]
            BY <6>1 DEF Joins
          <6> QED BY <6>1, <6>2
        <5> QED BY <4>2, <5>1, <5>2, <5>3
      <4>3. CASE i # 1
        <5>1. i - 1 \in 1 .. Len(s)
          BY <4>3, <1>0
        <5> QED BY <4>1, <4>3, <5>1
      <4> QED BY <4>2, <4>3
    <3> QED BY <3>1
  <2>2. ASSUME NEW h, IsFlatten(h)
        PROVE  h = g
    <3> DEFINE G == {n \in 0 .. Len(s) : n # 0 => h[n] = g[n]}
    <3>1. 0 \in G
      BY <1>0
    <3>2. ASSUME NEW m \in 1 .. Len(s), m - 1 \in G
          PROVE  m \in G
      <4>1. h[m] = IF m = 1 THEN s[m] ELSE h[m - 1] \o s[m]
        BY <2>2
      <4>2. g[m] = IF m = 1 THEN s[m] ELSE g[m - 1] \o s[m]
        BY <2>1
      <4>3. m # 1 => h[m - 1] = g[m - 1]
        BY <3>2, <1>0
      <4>4. h[m] = g[m]
        <5> HIDE DEF g
        <5> QED BY <4>1, <4>2, <4>3
      <4> HIDE DEF g
      <4> QED BY <4>4, <1>0
    <3>3. \A m \in 0 .. Len(s) : m \in G
      <4> HIDE DEF G
      <4> QED BY <1>0, <3>1, <3>2, Climb
    <3>4. \A m \in 1 .. Len(s) : h[m] = g[m]
      <4> HIDE DEF g
      <4> QED BY <3>3, <1>0
    <3>5. DOMAIN h = 1 .. Len(s) /\ h = [i \in DOMAIN h |-> h[i]]
      BY <2>2
    <3> QED BY <3>4, <3>5
  <2>3. FlattenSeq(s) = g[Len(s)]
    <3> HIDE DEF g
    <3> QED BY <2>1, <2>2, <1>2 DEF FlattenSeq
  <2> QED BY <2>3, <1>2, <1>0
<1> QED BY <1>1, <1>2

(***************************************************************************)
(* FlattenSeq, by cases of what it is applied to.                          *)
(***************************************************************************)
LEMMA FlattenEmpty == FlattenSeq(<<>>) = <<>>
BY DEF FlattenSeq

(***************************************************************************)
(* What it answers is a sequence of the same elements.                     *)
(***************************************************************************)
LEMMA FlattenType ==
  ASSUME NEW X, NEW s \in Seq(Seq(X))
  PROVE  FlattenSeq(s) \in Seq(X)
<1>1. PICK f : Joins(f, s, Len(s), X)
  BY JoinsExist
<1>2. FlattenSeq(s) = f[Len(s)]
  BY <1>1, FlattenJoins
<1>3. Len(s) \in 0 .. Len(s)
  OBVIOUS
<1> QED BY <1>1, <1>2, <1>3 DEF Joins

(***************************************************************************)
(* One more sequence at the end comes after the rest.                      *)
(***************************************************************************)
LEMMA FlattenAppend ==
  ASSUME NEW X, NEW s \in Seq(Seq(X)), NEW x \in Seq(X)
  PROVE  FlattenSeq(Append(s, x)) = FlattenSeq(s) \o x
<1> DEFINE n == Len(s)
           a == Append(s, x)
<1>0. /\ n \in Nat /\ a \in Seq(Seq(X)) /\ Len(a) = n + 1
      /\ \A k \in 1 .. n : a[k] = s[k]
      /\ a[n + 1] = x
  OBVIOUS
<1>1. PICK f : Joins(f, s, n, X)
  BY JoinsExist
<1>2. PICK h : Joins(h, a, n + 1, X)
  BY JoinsExist, <1>0
<1>3. \A m \in 0 .. n : h[m] = f[m]
  <2> DEFINE G == {m \in 0 .. n : h[m] = f[m]}
  <2>1. 0 \in G
    BY <1>0, <1>1, <1>2 DEF Joins
  <2>2. ASSUME NEW m \in 1 .. n, m - 1 \in G
        PROVE  m \in G
    <3>1. f[m] = f[m - 1] \o s[m]
      BY <1>1 DEF Joins
    <3>2. h[m] = h[m - 1] \o a[m]
      <4>1. m \in 1 .. n + 1
        BY <1>0
      <4> QED BY <4>1, <1>2 DEF Joins
    <3>3. a[m] = s[m] /\ h[m - 1] = f[m - 1]
      BY <1>0, <2>2
    <3>4. h[m] = f[m]
      <4> HIDE DEF a
      <4> QED BY <3>1, <3>2, <3>3
    <3> QED BY <3>4, <1>0
  <2>3. \A m \in 0 .. n : m \in G
    <3> HIDE DEF G, n
    <3> QED BY <1>0, <2>1, <2>2, Climb
  <2> QED BY <2>3
<1>4. h[n + 1] = h[n] \o x
  <2>1. n + 1 \in 1 .. n + 1 /\ (n + 1) - 1 = n
    BY <1>0
  <2>2. h[n + 1] = h[(n + 1) - 1] \o a[n + 1]
    BY <2>1, <1>2 DEF Joins
  <2>3. a[n + 1] = x
    BY <1>0
  <2> HIDE DEF a, n
  <2> QED BY <2>1, <2>2, <2>3
<1>5. FlattenSeq(s) = f[n]
  BY <1>1, FlattenJoins
<1>6. FlattenSeq(a) = h[n + 1]
  <2>1. Joins(h, a, Len(a), X)
    BY <1>2, <1>0
  <2>2. FlattenSeq(a) = h[Len(a)]
    BY <2>1, <1>0, FlattenJoins
  <2> QED BY <2>2, <1>0
<1>7. h[n] = f[n]
  BY <1>3, <1>0
<1> HIDE DEF n, a
<1> QED BY <1>4, <1>5, <1>6, <1>7 DEF a

(***************************************************************************)
(* It takes one after the other to one after the other.                    *)
(***************************************************************************)
LEMMA FlattenConcat ==
  ASSUME NEW X, NEW s \in Seq(Seq(X)), NEW t \in Seq(Seq(X))
  PROVE  FlattenSeq(s \o t) = FlattenSeq(s) \o FlattenSeq(t)
<1> DEFINE Up(n) == SubSeq(t, 1, n)
           G == {n \in 0 .. Len(t) : FlattenSeq(s \o Up(n)) = FlattenSeq(s) \o FlattenSeq(Up(n))}
<1>0. Len(t) \in Nat /\ Up(0) = <<>> /\ Up(Len(t)) = t
  OBVIOUS
<1>1. 0 \in G
  <2>1. s \o <<>> = s
    OBVIOUS
  <2>2. FlattenSeq(s) \o <<>> = FlattenSeq(s)
    BY FlattenType
  <2>3. 0 \in 0 .. Len(t)
    BY <1>0
  <2> QED BY <2>1, <2>2, <2>3, <1>0, FlattenEmpty
<1>2. ASSUME NEW m \in 1 .. Len(t), m - 1 \in G
      PROVE  m \in G
  <2>1. t[m] \in Seq(X) /\ Up(m - 1) \in Seq(Seq(X)) /\ Up(m) = Append(Up(m - 1), t[m])
    BY <1>0
  <2>2. s \o Up(m) = Append(s \o Up(m - 1), t[m]) /\ s \o Up(m - 1) \in Seq(Seq(X))
    <3> HIDE DEF Up
    <3> QED BY <2>1, SMTT(60)
  <2>3. FlattenSeq(s \o Up(m)) = FlattenSeq(s \o Up(m - 1)) \o t[m]
    BY <2>1, <2>2, FlattenAppend
  <2>4. FlattenSeq(Up(m)) = FlattenSeq(Up(m - 1)) \o t[m]
    BY <2>1, FlattenAppend
  <2>5. FlattenSeq(s \o Up(m - 1)) = FlattenSeq(s) \o FlattenSeq(Up(m - 1))
    BY <1>2
  <2>6. FlattenSeq(s) \in Seq(X) /\ FlattenSeq(Up(m - 1)) \in Seq(X)
    BY <2>1, FlattenType
  <2>7. (FlattenSeq(s) \o FlattenSeq(Up(m - 1))) \o t[m]
          = FlattenSeq(s) \o (FlattenSeq(Up(m - 1)) \o t[m])
    <3>1. t[m] \in Seq(X)
      BY <2>1
    <3> HIDE DEF Up
    <3>2. \A u, v, w \in Seq(X) : (u \o v) \o w = u \o (v \o w)
      BY ConcatAssociative, SMTT(60)
    <3> QED BY ONLY <2>6, <3>1, <3>2
  <2>8. m \in 0 .. Len(t)
    BY <1>0
  <2> HIDE DEF Up
  <2> QED BY <2>3, <2>4, <2>5, <2>7, <2>8
<1>3. \A m \in 0 .. Len(t) : m \in G
  <2> HIDE DEF G
  <2> QED BY <1>0, <1>1, <1>2, Climb
<1>4. Len(t) \in G
  <2> HIDE DEF G
  <2> QED BY <1>3, <1>0
<1> HIDE DEF Up
<1> QED BY <1>4, <1>0

(***************************************************************************)
(* What is left of a sequence, and of a sequence in front of another.      *)
(***************************************************************************)
LEMMA RestFacts ==
  ASSUME NEW X, NEW s \in Seq(X), NEW n \in 0 .. Len(s)
  PROVE  /\ Rest(s, n) \in Seq(X)
         /\ Len(Rest(s, n)) = Len(s) - n
         /\ \A i \in 1 .. Len(s) - n : Rest(s, n)[i] = s[n + i]
         /\ SubSeq(s, 1, n) \in Seq(X) /\ Len(SubSeq(s, 1, n)) = n
         /\ \A i \in 1 .. n : SubSeq(s, 1, n)[i] = s[i]
         /\ SubSeq(s, 1, n) \o Rest(s, n) = s
         /\ Rest(s, 0) = s /\ Rest(s, Len(s)) = <<>>
<1>1. /\ Rest(s, n) \in Seq(X)
      /\ Len(Rest(s, n)) = Len(s) - n
      /\ \A i \in 1 .. Len(s) - n : Rest(s, n)[i] = s[n + i]
  BY DEF Rest
<1>2. /\ SubSeq(s, 1, n) \in Seq(X) /\ Len(SubSeq(s, 1, n)) = n
      /\ \A i \in 1 .. n : SubSeq(s, 1, n)[i] = s[i]
  OBVIOUS
<1>3. SubSeq(s, 1, n) \o Rest(s, n) = s
  <2> DEFINE a == SubSeq(s, 1, n)
             b == Rest(s, n)
  <2>0. /\ a \in Seq(X) /\ b \in Seq(X) /\ Len(a) = n /\ Len(b) = Len(s) - n
        /\ \A i \in 1 .. n : a[i] = s[i]
        /\ \A i \in 1 .. Len(s) - n : b[i] = s[n + i]
    BY <1>1, <1>2
  <2> HIDE DEF a, b
  <2>1. a \o b \in Seq(X) /\ Len(a \o b) = Len(s)
    BY <2>0, SMTT(60)
  <2>2. ASSUME NEW i \in 1 .. Len(s)
        PROVE  (a \o b)[i] = s[i]
    <3>1. CASE i <= n
      BY <3>1, <2>0
    <3>2. CASE i > n
      <4>1. (a \o b)[i] = b[i - n] /\ i - n \in 1 .. Len(s) - n
        BY <3>2, <2>0
      <4> QED BY <4>1, <2>0
    <3> QED BY <3>1, <3>2, <2>0
  <2>3. a \o b = s
    BY <2>1, <2>2, SeqEqual
  <2> QED BY <2>3 DEF a, b
<1>4. Rest(s, 0) = s /\ Rest(s, Len(s)) = <<>>
  BY DEF Rest
<1> QED BY <1>1, <1>2, <1>3, <1>4

(***************************************************************************)
(* What is left when less is taken than the first of two sequences has.    *)
(***************************************************************************)
LEMMA RestOfConcat ==
  ASSUME NEW X, NEW s \in Seq(X), NEW t \in Seq(X), NEW n \in 0 .. Len(s)
  PROVE  Rest(s \o t, n) = Rest(s, n) \o t
<1>1. s \o t \in Seq(X) /\ Len(s \o t) = Len(s) + Len(t) /\ n \in 0 .. Len(s \o t)
  OBVIOUS
<1> DEFINE a == Rest(s \o t, n)
           b == Rest(s, n)
<1>2. /\ a \in Seq(X) /\ Len(a) = Len(s) + Len(t) - n
      /\ \A i \in 1 .. Len(s) + Len(t) - n : a[i] = (s \o t)[n + i]
  <2> DEFINE u == s \o t
  <2>1. u \in Seq(X) /\ n \in 0 .. Len(u) /\ Len(u) = Len(s) + Len(t)
    BY <1>1
  <2>2. /\ Rest(u, n) \in Seq(X) /\ Len(Rest(u, n)) = Len(u) - n
        /\ \A i \in 1 .. Len(u) - n : Rest(u, n)[i] = u[n + i]
    <3> HIDE DEF u
    <3> QED BY <2>1, RestFacts
  <2> HIDE DEF u
  <2> QED BY <2>1, <2>2 DEF a, u
<1>3. /\ b \in Seq(X) /\ Len(b) = Len(s) - n
      /\ \A i \in 1 .. Len(s) - n : b[i] = s[n + i]
  BY RestFacts
<1> HIDE DEF a, b
<1>4. b \o t \in Seq(X) /\ Len(b \o t) = Len(a)
  <2>1. b \o t \in Seq(X) /\ Len(b \o t) = Len(b) + Len(t)
    BY <1>3, ConcatProperties
  <2>2. Len(b) + Len(t) = Len(a)
    BY <1>2, <1>3
  <2> QED BY <2>1, <2>2
<1>5. ASSUME NEW i \in 1 .. Len(a)
      PROVE  (b \o t)[i] = a[i]
  <2>0. (b \o t)[i] = IF i <= Len(b) THEN b[i] ELSE t[i - Len(b)]
    BY <1>2, <1>3, ConcatProperties
  <2>1. (s \o t)[n + i] = IF n + i <= Len(s) THEN s[n + i] ELSE t[n + i - Len(s)]
    BY <1>2, ConcatProperties
  <2>2. i \in 1 .. Len(s) + Len(t) - n /\ i \in Int /\ n \in Int /\ Len(s) \in Int
    BY <1>2
  <2>3. n + i - Len(s) = i - (Len(s) - n)
    BY ONLY <2>2
  <2>4. CASE i <= Len(s) - n
    BY <2>4, <2>0, <2>1, <2>2, <1>2, <1>3
  <2>5. CASE ~(i <= Len(s) - n)
    BY <2>5, <2>0, <2>1, <2>2, <2>3, <1>2, <1>3
  <2> QED BY <2>4, <2>5
<1>6. b \o t = a
  BY <1>2, <1>4, <1>5, SeqEqual
<1> QED BY <1>6 DEF a, b

(***************************************************************************)
(* Taking twice is taking the sum.                                         *)
(***************************************************************************)
LEMMA RestOfRest ==
  ASSUME NEW X, NEW s \in Seq(X), NEW m \in 0 .. Len(s), NEW n \in 0 .. Len(s) - m
  PROVE  Rest(Rest(s, m), n) = Rest(s, m + n)
BY DEF Rest

-----------------------------------------------------------------------------
(***************************************************************************)
(* What the client sends.                                                  *)
(***************************************************************************)

(***************************************************************************)
(* The script, its requests and the units of one of them.                  *)
(***************************************************************************)
LEMMA ScriptFacts ==
  /\ Len(Script) \in Nat /\ DOMAIN Script = 1 .. Len(Script)
  /\ Len(Frames) \in Nat /\ DOMAIN Frames = 1 .. Len(Frames)
  /\ \A i \in 1 .. Len(Script) : Script[i].body \in Nat
  /\ \A i \in 1 .. Len(Frames) : Frames[i] \in Kinds
<1>1. /\ Len(Script) \in Nat /\ DOMAIN Script = 1 .. Len(Script)
      /\ Len(Frames) \in Nat /\ DOMAIN Frames = 1 .. Len(Frames)
  BY ServerAssumption
<1>2. \A i \in 1 .. Len(Script) : Script[i].body \in Nat
  <2> DEFINE R == [method : STRING, path : Seq(STRING), body : Nat, close : BOOLEAN, key : BOOLEAN]
  <2>1. \A r \in R : r.body \in Nat
    OBVIOUS
  <2>2. Script \in Seq(R)
    BY ServerAssumption
  <2>3. \A i \in 1 .. Len(Script) : Script[i] \in R
    <3> HIDE DEF R
    <3> QED BY <2>2
  <2> HIDE DEF R
  <2> QED BY <2>1, <2>3
<1>3. \A i \in 1 .. Len(Frames) : Frames[i] \in Kinds
  BY ServerAssumption DEF Kinds
<1> QED BY <1>1, <1>2, <1>3

(***************************************************************************)
(* A request is a head, an empty line and the units of its body.           *)
(***************************************************************************)
LEMMA UnitsFacts ==
  ASSUME NEW i \in DOMAIN Script
  PROVE  /\ Units(i) \in Seq(RequestUnit)
         /\ Len(Units(i)) = 2 + Script[i].body
         /\ Units(i)[1] = [of |-> i, part |-> "head"]
         /\ Units(i)[2] = [of |-> i, part |-> "blank"]
         /\ \A k \in 3 .. 2 + Script[i].body : Units(i)[k] = [of |-> i, part |-> "body"]
<1> DEFINE n == Script[i].body
           a == <<[of |-> i, part |-> "head"], [of |-> i, part |-> "blank"]>>
           b == [k \in 1 .. n |-> [of |-> i, part |-> "body"]]
<1>1. n \in Nat
  BY ScriptFacts
<1>2. /\ [of |-> i, part |-> "head"] \in RequestUnit
      /\ [of |-> i, part |-> "blank"] \in RequestUnit
      /\ [of |-> i, part |-> "body"] \in RequestUnit
  BY DEF RequestUnit
<1>3. /\ a \in Seq(RequestUnit) /\ Len(a) = 2
      /\ a[1] = [of |-> i, part |-> "head"] /\ a[2] = [of |-> i, part |-> "blank"]
  BY <1>2
<1>4. b \in Seq(RequestUnit) /\ Len(b) = n /\ \A k \in 1 .. n : b[k] = [of |-> i, part |-> "body"]
  BY <1>1, <1>2
<1>5. Units(i) = a \o b
  BY DEF Units
<1> HIDE DEF n, a, b
<1>6. /\ a \o b \in Seq(RequestUnit) /\ Len(a \o b) = 2 + n
      /\ \A k \in 1 .. 2 + n : (a \o b)[k] = IF k <= 2 THEN a[k] ELSE b[k - 2]
  <2>1. /\ a \o b \in Seq(RequestUnit) /\ Len(a \o b) = Len(a) + Len(b)
        /\ \A k \in 1 .. Len(a) + Len(b) : (a \o b)[k] = IF k <= Len(a) THEN a[k] ELSE b[k - Len(a)]
    BY <1>3, <1>4, ConcatProperties, Zenon
  <2>2. Len(a) = 2 /\ Len(b) = n
    BY <1>3, <1>4
  <2> QED BY <2>1, <2>2, Zenon
<1>7. /\ (a \o b)[1] = a[1] /\ (a \o b)[2] = a[2]
      /\ \A k \in 3 .. 2 + n : (a \o b)[k] = b[k - 2] /\ k - 2 \in 1 .. n
  BY <1>1, <1>6
<1> QED BY <1>3, <1>4, <1>5, <1>6, <1>7 DEF n

\* The units of the first n requests: a head is later than all before it, and
\* the head of the n-th has only its own request behind it.
Shaped(s, n) ==
  /\ s \in Seq(RequestUnit)
  /\ \A p \in 1 .. Len(s) : s[p].of \in 1 .. n
  /\ \A p, q \in 1 .. Len(s) : p < q /\ s[q].part = "head" => s[p].of < s[q].of
  /\ \A p \in 1 .. Len(s) : s[p].part = "head" /\ s[p].of = n => p = Len(s) - 1 - Script[n].body

(***************************************************************************)
(* The next request, behind those before it, keeps that shape.             *)
(***************************************************************************)
LEMMA ShapedStep ==
  ASSUME NEW n \in Nat, n + 1 \in DOMAIN Script, NEW s, Shaped(s, n)
  PROVE  Shaped(s \o Units(n + 1), n + 1)
<1> DEFINE t == Units(n + 1)
           u == s \o t
           l == Len(s)
           b == Script[n + 1].body
<1>1. /\ t \in Seq(RequestUnit) /\ Len(t) = 2 + b /\ b \in Nat
      /\ \A k \in 1 .. 2 + b : t[k].of = n + 1 /\ (t[k].part = "head" => k = 1)
  <2>1. /\ t \in Seq(RequestUnit) /\ Len(t) = 2 + b
        /\ t[1] = [of |-> n + 1, part |-> "head"]
        /\ t[2] = [of |-> n + 1, part |-> "blank"]
        /\ \A k \in 3 .. 2 + b : t[k] = [of |-> n + 1, part |-> "body"]
    BY UnitsFacts
  <2>2. b \in Nat
    BY ScriptFacts
  <2>3. \A k \in 1 .. 2 + b : k = 1 \/ k = 2 \/ k \in 3 .. 2 + b
    BY <2>2
  <2> HIDE DEF t, b
  <2> QED BY <2>1, <2>2, <2>3
<1>2. /\ s \in Seq(RequestUnit) /\ l \in Nat
      /\ \A p \in 1 .. l : s[p].of \in 1 .. n
      /\ \A p, q \in 1 .. l : p < q /\ s[q].part = "head" => s[p].of < s[q].of
  BY DEF Shaped
<1> HIDE DEF t, b
<1>3. /\ u \in Seq(RequestUnit) /\ Len(u) = l + 2 + b
      /\ \A k \in 1 .. l : u[k] = s[k]
      /\ \A k \in l + 1 .. l + 2 + b : u[k] = t[k - l] /\ k - l \in 1 .. 2 + b
  <2>1. /\ u \in Seq(RequestUnit) /\ Len(u) = l + (2 + b)
        /\ \A k \in 1 .. l + (2 + b) : u[k] = IF k <= l THEN s[k] ELSE t[k - l]
    <3>1. /\ s \o t \in Seq(RequestUnit) /\ Len(s \o t) = Len(s) + Len(t)
          /\ \A k \in 1 .. Len(s) + Len(t) :
               (s \o t)[k] = IF k <= Len(s) THEN s[k] ELSE t[k - Len(s)]
      BY <1>1, <1>2, ConcatProperties, Zenon
    <3>2. Len(t) = 2 + b
      BY <1>1
    <3> QED BY <3>1, <3>2, Zenon
  <2> HIDE DEF u, l
  <2> QED BY <2>1, <1>1, <1>2
<1> HIDE DEF u, l
<1>4. \A p \in 1 .. l : u[p].of \in 1 .. n
  BY <1>2, <1>3
<1>5. \A p \in l + 1 .. l + 2 + b : u[p].of = n + 1 /\ (u[p].part = "head" => p = l + 1)
  BY <1>1, <1>2, <1>3
<1>6. \A p \in 1 .. Len(u) : p \in 1 .. l \/ p \in l + 1 .. l + 2 + b
  BY <1>1, <1>2, <1>3
<1>7. \A p \in 1 .. Len(u) : u[p].of \in 1 .. n + 1
  BY <1>4, <1>5, <1>6
<1>8. ASSUME NEW p \in 1 .. Len(u), NEW q \in 1 .. Len(u), p < q, u[q].part = "head"
      PROVE  u[p].of < u[q].of
  <2>1. CASE q \in 1 .. l
    <3>1. p \in 1 .. l
      BY <1>8, <2>1, <1>2
    <3> QED BY <2>1, <3>1, <1>2, <1>3, <1>8
  <2>2. CASE q \in l + 1 .. l + 2 + b
    <3>1. u[q].of = n + 1 /\ q = l + 1
      BY <2>2, <1>5, <1>8
    <3>2. p \in 1 .. l
      BY <3>1, <1>8, <1>2
    <3> QED BY <3>1, <3>2, <1>4
  <2> QED BY <2>1, <2>2, <1>6
<1>9. ASSUME NEW p \in 1 .. Len(u), u[p].part = "head", u[p].of = n + 1
      PROVE  p = Len(u) - 1 - Script[n + 1].body
  <2>1. p \in l + 1 .. l + 2 + b
    BY <1>4, <1>6, <1>9
  <2>2. p = l + 1
    BY <2>1, <1>5, <1>9
  <2> QED BY <2>2, <1>1, <1>2, <1>3 DEF b
<1> QED BY <1>3, <1>7, <1>8, <1>9 DEF Shaped, u, t

(***************************************************************************)
(* All the units the client sends as requests: a head is later than all    *)
(* that comes before it, and the last one has only its own behind it.      *)
(***************************************************************************)
LEMMA AllUnitsShaped == Len(Script) > 0 => Shaped(AllUnits, Len(Script))
<1> DEFINE First(n) == [i \in 1 .. n |-> Units(i)]
           G == {n \in 0 .. Len(Script) : n # 0 => Shaped(FlattenSeq(First(n)), n)}
           SR == Seq(RequestUnit)
<1>0. Len(Script) \in Nat /\ DOMAIN Script = 1 .. Len(Script)
  BY ScriptFacts
<1>1. \A n \in 0 .. Len(Script) : First(n) \in Seq(SR)
  <2>1. \A i \in 1 .. Len(Script) : Units(i) \in SR
    BY UnitsFacts, <1>0
  <2> HIDE DEF SR
  <2> QED BY <2>1, <1>0
<1>2. 0 \in G
  BY <1>0
<1>3. ASSUME NEW m \in 1 .. Len(Script), m - 1 \in G
      PROVE  m \in G
  <2> DEFINE s == FlattenSeq(First(m - 1))
  <2>1. First(m) = Append(First(m - 1), Units(m))
    <3>1. First(m - 1) \in Seq(SR) /\ Len(First(m - 1)) = m - 1
      BY <1>0, <1>1
    <3> HIDE DEF SR
    <3>2. Append(First(m - 1), Units(m)) = [i \in 1 .. m |-> IF i = m THEN Units(m) ELSE First(m - 1)[i]]
      BY <3>1, <1>0
    <3> QED BY <3>2, <1>0
  <2>2. FlattenSeq(First(m)) = s \o Units(m)
    <3>1. First(m - 1) \in Seq(SR) /\ Units(m) \in SR
      BY <1>0, <1>1, UnitsFacts
    <3> HIDE DEF First
    <3> QED BY <3>1, <2>1, FlattenAppend DEF SR
  <2>3. Shaped(s \o Units(m), m)
    <3>1. CASE m = 1
      <4>1. First(0) = <<>>
        OBVIOUS
      <4>2. s = <<>>
        BY <3>1, <4>1, FlattenEmpty
      <4>3. Shaped(<<>>, 0)
        BY DEF Shaped
      <4>4. 0 + 1 \in DOMAIN Script
        BY <1>0, <3>1
      <4>5. Shaped(<<>> \o Units(0 + 1), 0 + 1)
        BY <4>3, <4>4, ShapedStep
      <4> HIDE DEF s
      <4> QED BY <3>1, <4>2, <4>5
    <3>2. CASE m # 1
      <4>1. m - 1 \in Nat /\ m - 1 # 0 /\ (m - 1) + 1 = m
        BY <3>2, <1>0
      <4>2. Shaped(s, m - 1)
        BY <1>3, <4>1
      <4> HIDE DEF s
      <4>3. Shaped(s \o Units((m - 1) + 1), (m - 1) + 1)
        BY <4>1, <4>2, <1>0, ShapedStep
      <4> QED BY <4>1, <4>3
    <3> QED BY <3>1, <3>2
  <2>4. Shaped(FlattenSeq(First(m)), m)
    <3> HIDE DEF First, s
    <3> QED BY <2>2, <2>3, Zenon
  <2> HIDE DEF First
  <2> QED BY <2>4, <1>0
<1>4. \A m \in 0 .. Len(Script) : m \in G
  <2> HIDE DEF G
  <2> QED BY <1>0, <1>2, <1>3, Climb
<1>5. AllUnits = FlattenSeq(First(Len(Script)))
  BY <1>0 DEF AllUnits
<1> QED
  <2>1. Len(Script) \in G
    <3> HIDE DEF G
    <3> QED BY <1>0, <1>4
  <2> HIDE DEF First
  <2> QED BY <2>1, <1>0, <1>5

(***************************************************************************)
(* The same without a condition: of no requests there are no units.        *)
(***************************************************************************)
LEMMA AllUnitsFacts ==
  /\ AllUnits \in Seq(RequestUnit)
  /\ \A p, q \in 1 .. Len(AllUnits) :
       p < q /\ AllUnits[q].part = "head" => AllUnits[p].of < AllUnits[q].of
  /\ \A p \in 1 .. Len(AllUnits) :
       AllUnits[p].part = "head" /\ AllUnits[p].of = Len(Script)
         => p = Len(AllUnits) - 1 - Script[Len(Script)].body
<1>0. Len(Script) \in Nat /\ DOMAIN Script = 1 .. Len(Script)
  BY ScriptFacts
<1>1. CASE Len(Script) > 0
  BY <1>1, AllUnitsShaped, Zenon DEF Shaped
<1>2. CASE Len(Script) = 0
  <2>1. [i \in DOMAIN Script |-> Units(i)] = <<>>
    BY <1>0, <1>2
  <2>2. AllUnits = <<>>
    BY <2>1, FlattenEmpty DEF AllUnits
  <2> QED BY <2>2
<1> QED BY <1>0, <1>1, <1>2

(***************************************************************************)
(* All its frames: the i-th is the i-th pair of units.                     *)
(***************************************************************************)
LEMMA AllFramesFacts ==
  /\ AllFrames \in Seq(FrameUnit)
  /\ Len(AllFrames) = 2 * Len(Frames)
  /\ \A i \in 1 .. Len(Frames) : /\ AllFrames[2 * i - 1] = [of |-> i, part |-> "start"]
                                 /\ AllFrames[2 * i] = [of |-> i, part |-> "end"]
<1> DEFINE First(n) == [i \in 1 .. n |-> FrameUnits(i)]
           SF == Seq(FrameUnit)
           Paired(s, n) ==
             /\ s \in SF /\ Len(s) = 2 * n
             /\ \A i \in 1 .. n : /\ s[2 * i - 1] = [of |-> i, part |-> "start"]
                                  /\ s[2 * i] = [of |-> i, part |-> "end"]
           G == {n \in 0 .. Len(Frames) : Paired(FlattenSeq(First(n)), n)}
<1>0. Len(Frames) \in Nat /\ DOMAIN Frames = 1 .. Len(Frames)
  BY ScriptFacts
<1>1. ASSUME NEW i \in 1 .. Len(Frames)
      PROVE  /\ FrameUnits(i) \in SF /\ Len(FrameUnits(i)) = 2
             /\ FrameUnits(i)[1] = [of |-> i, part |-> "start"]
             /\ FrameUnits(i)[2] = [of |-> i, part |-> "end"]
  <2>1. [of |-> i, part |-> "start"] \in FrameUnit /\ [of |-> i, part |-> "end"] \in FrameUnit
    BY <1>0 DEF FrameUnit
  <2> QED BY <2>1 DEF FrameUnits
<1>2. \A n \in 0 .. Len(Frames) : First(n) \in Seq(SF)
  <2>1. \A i \in 1 .. Len(Frames) : FrameUnits(i) \in SF
    BY <1>1
  <2> HIDE DEF SF
  <2> QED BY <2>1, <1>0
<1>3. 0 \in G
  <2>1. First(0) = <<>>
    OBVIOUS
  <2>2. Paired(<<>>, 0)
    OBVIOUS
  <2> HIDE DEF First, Paired
  <2> QED BY <2>1, <2>2, <1>0, FlattenEmpty
<1>4. ASSUME NEW m \in 1 .. Len(Frames), m - 1 \in G
      PROVE  m \in G
  <2> DEFINE s == FlattenSeq(First(m - 1))
             t == FrameUnits(m)
             u == s \o t
  <2>1. First(m) = Append(First(m - 1), FrameUnits(m))
    <3>1. First(m - 1) \in Seq(SF) /\ Len(First(m - 1)) = m - 1
      BY <1>0, <1>2
    <3> HIDE DEF SF
    <3>2. Append(First(m - 1), FrameUnits(m))
            = [i \in 1 .. m |-> IF i = m THEN FrameUnits(m) ELSE First(m - 1)[i]]
      BY <3>1, <1>0
    <3> QED BY <3>2, <1>0
  <2>2. FlattenSeq(First(m)) = u
    <3>1. First(m - 1) \in Seq(SF) /\ FrameUnits(m) \in SF
      BY <1>0, <1>1, <1>2
    <3> HIDE DEF First
    <3> QED BY <3>1, <2>1, FlattenAppend DEF SF
  <2>3. /\ s \in SF /\ Len(s) = 2 * (m - 1)
        /\ \A i \in 1 .. m - 1 : /\ s[2 * i - 1] = [of |-> i, part |-> "start"]
                                 /\ s[2 * i] = [of |-> i, part |-> "end"]
    BY <1>4
  <2>4. /\ t \in SF /\ Len(t) = 2
        /\ t[1] = [of |-> m, part |-> "start"] /\ t[2] = [of |-> m, part |-> "end"]
    BY <1>1
  <2> HIDE DEF s, t
  <2>5. /\ u \in SF /\ Len(u) = Len(s) + Len(t)
        /\ \A k \in 1 .. Len(s) + Len(t) : u[k] = IF k <= Len(s) THEN s[k] ELSE t[k - Len(s)]
    BY <2>3, <2>4, ConcatProperties, Zenon
  <2> HIDE DEF u
  <2>6. Len(u) = 2 * m /\ Len(s) = 2 * m - 2 /\ Len(t) = 2
    BY <2>3, <2>4, <2>5
  <2>7. ASSUME NEW i \in 1 .. m - 1
        PROVE  u[2 * i - 1] = s[2 * i - 1] /\ u[2 * i] = s[2 * i]
    <3>1. /\ 2 * i - 1 \in 1 .. Len(s) + Len(t) /\ 2 * i - 1 <= Len(s)
          /\ 2 * i \in 1 .. Len(s) + Len(t) /\ 2 * i <= Len(s)
      BY <2>6, <1>0
    <3> QED BY <3>1, <2>5
  <2>8. u[2 * m - 1] = t[1] /\ u[2 * m] = t[2]
    <3>1. /\ 2 * m - 1 \in 1 .. Len(s) + Len(t) /\ ~(2 * m - 1 <= Len(s)) /\ (2 * m - 1) - Len(s) = 1
          /\ 2 * m \in 1 .. Len(s) + Len(t) /\ ~(2 * m <= Len(s)) /\ 2 * m - Len(s) = 2
      BY <2>6, <1>0
    <3> QED BY <3>1, <2>5
  <2>9. \A i \in 1 .. m : i = m \/ i \in 1 .. m - 1
    BY <1>0
  <2>10. Paired(u, m)
    BY <2>3, <2>4, <2>5, <2>6, <2>7, <2>8, <2>9
  <2> HIDE DEF First, Paired
  <2> QED BY <2>2, <2>10, <1>0
<1>5. Len(Frames) \in G
  <2> HIDE DEF G
  <2>1. \A m \in 0 .. Len(Frames) : m \in G
    BY <1>0, <1>3, <1>4, Climb
  <2> QED BY <1>0, <2>1
<1>6. AllFrames = FlattenSeq(First(Len(Frames)))
  BY <1>0 DEF AllFrames
<1>7. Paired(AllFrames, Len(Frames))
  <2> HIDE DEF First, Paired
  <2> QED BY <1>5, <1>6
<1> QED BY <1>7

-----------------------------------------------------------------------------
(***************************************************************************)
(* Setting the router up.                                                  *)
(***************************************************************************)

(***************************************************************************)
(* The elements of sequences.                                              *)
(***************************************************************************)
LEMMA ElementsOfConcat ==
  ASSUME NEW X, NEW s \in Seq(X), NEW t \in Seq(X)
  PROVE  s \o t \in Seq(X) /\ ToSet(s \o t) = ToSet(s) \cup ToSet(t)
<1>1. /\ s \o t \in Seq(X) /\ Len(s \o t) = Len(s) + Len(t)
      /\ \A i \in 1 .. Len(s) + Len(t) : (s \o t)[i] = IF i <= Len(s) THEN s[i] ELSE t[i - Len(s)]
  BY ConcatProperties
<1>2. /\ DOMAIN (s \o t) = 1 .. Len(s) + Len(t) /\ DOMAIN s = 1 .. Len(s) /\ DOMAIN t = 1 .. Len(t)
      /\ Len(s) \in Nat /\ Len(t) \in Nat
  BY <1>1
<1> DEFINE u == s \o t
<1>3. \A i \in DOMAIN u : u[i] \in ToSet(s) \cup ToSet(t)
  <2>1. TAKE i \in DOMAIN u
  <2>2. CASE i <= Len(s)
    BY <1>1, <1>2, <2>2 DEF ToSet
  <2>3. CASE ~(i <= Len(s))
    <3>1. i - Len(s) \in DOMAIN t
      BY <1>2, <2>3
    <3>2. u[i] = t[i - Len(s)]
      BY <1>1, <1>2, <2>3
    <3> QED BY <3>1, <3>2 DEF ToSet
  <2> QED BY <2>2, <2>3
<1>4. \A i \in DOMAIN s : s[i] \in ToSet(u)
  <2>1. TAKE i \in DOMAIN s
  <2>2. i \in DOMAIN u /\ u[i] = s[i]
    BY <1>1, <1>2
  <2> HIDE DEF u
  <2> QED BY <2>2 DEF ToSet
<1>5. \A i \in DOMAIN t : t[i] \in ToSet(u)
  <2>1. TAKE i \in DOMAIN t
  <2>2. i + Len(s) \in 1 .. Len(s) + Len(t) /\ ~(i + Len(s) <= Len(s)) /\ (i + Len(s)) - Len(s) = i
    BY <1>2
  <2>3. i + Len(s) \in DOMAIN u /\ u[i + Len(s)] = t[i]
    BY <1>1, <1>2, <2>2
  <2> HIDE DEF u
  <2> QED BY <2>3 DEF ToSet
<1> HIDE DEF u
<1>6. ToSet(u) = ToSet(s) \cup ToSet(t)
  BY <1>3, <1>4, <1>5 DEF ToSet
<1> QED BY <1>1, <1>6 DEF u

(***************************************************************************)
(* One more element.                                                       *)
(***************************************************************************)
LEMMA ElementsOfAppend ==
  ASSUME NEW X, NEW s \in Seq(X), NEW x \in X
  PROVE  Append(s, x) \in Seq(X) /\ ToSet(Append(s, x)) = ToSet(s) \cup {x}
<1>1. Append(s, x) = s \o <<x>> /\ <<x>> \in Seq(X)
  OBVIOUS
<1>2. ToSet(<<x>>) = {x}
  BY DEF ToSet
<1>3. ToSet(s \o <<x>>) = ToSet(s) \cup ToSet(<<x>>) /\ s \o <<x>> \in Seq(X)
  BY <1>1, ElementsOfConcat, ZenonT(60)
<1> QED BY <1>1, <1>2, <1>3

(***************************************************************************)
(* The empty sequence has none.                                            *)
(***************************************************************************)
LEMMA ElementsOfEmpty == \A s : s = <<>> => ToSet(s) = {}
BY DEF ToSet

(***************************************************************************)
(* What is in force for an owner is what is in its scope and the root's.   *)
(***************************************************************************)
LEMMA InForceIsScope ==
  ASSUME RouterTyped, ScopesAre, NEW o \in Owners
  PROVE  /\ Prefix(o) \in PathSet /\ Own(o) \in Seq(Middlewares)
         /\ ToSet(Own(o)) = scopes[o + 1]
         /\ InForce(o) \in Seq(Middlewares)
         /\ ToSet(InForce(o)) = scopes[1] \cup scopes[o + 1]
<1>1. o = 0 \/ o \in 1 .. Len(groups)
  BY DEF Owners, RouterTyped
<1>2. CASE o = 0
  <2>1. <<>> \in PathSet
    BY DEF PathSet
  <2> QED BY <1>2, <2>1 DEF RouterTyped, ScopesAre, Prefix, Own, InForce, Root
<1>3. CASE o \in 1 .. Len(groups)
  <2>1. /\ groups[o].prefix \in PathSet /\ groups[o].middlewares \in Seq(Middlewares)
        /\ o # 0
    <3>1. groups[o] \in GroupRecord
      BY <1>3 DEF RouterTyped
    <3> QED BY <3>1, <1>3 DEF GroupRecord
  <2>2. /\ Prefix(o) \in PathSet /\ Own(o) \in Seq(Middlewares)
        /\ ToSet(Own(o)) = scopes[o + 1]
    BY <2>1, <1>3 DEF ScopesAre, Prefix, Own, Root
  <2>3. global \in Seq(Middlewares) /\ scopes[1] = ToSet(global)
    BY DEF RouterTyped, ScopesAre
  <2>4. InForce(o) = global \o Own(o)
    BY <2>1 DEF InForce, Root
  <2> QED BY <2>2, <2>3, <2>4, ElementsOfConcat
<1> QED BY <1>1, <1>2, <1>3

(***************************************************************************)
(* What a step that declares no route leaves as it is.                     *)
(***************************************************************************)
LEMMA SameRoutes ==
  ASSUME RouterInv, UNCHANGED <<routes, attached, declared>>
  PROVE  RoutesAre' /\ AttachedAre'
<1>1. AttachedAre'
  BY DEF RouterInv, AttachedAre
<1>2. RoutesAre'
  BY DEF RouterInv, RoutesAre, Covers
<1> QED BY <1>1, <1>2

(***************************************************************************)
(* use: the middleware joins one list and one scope.                       *)
(***************************************************************************)
LEMMA UseKeeps ==
  ASSUME RouterInv, NEW o \in Owners, NEW m \in Middlewares, Use(o, m)
  PROVE  RouterInv'
<1> USE DEF RouterInv
<1>0. /\ Len(groups) \in Nat /\ (o = 0 \/ o \in 1 .. Len(groups))
      /\ scopes \in Seq(SUBSET Middlewares) /\ Len(scopes) = Len(groups) + 1
      /\ o + 1 \in 1 .. Len(scopes)
  BY DEF Owners, RouterTyped
<1>1. /\ scopes' \in Seq(SUBSET Middlewares) /\ Len(scopes') = Len(scopes)
      /\ scopes'[o + 1] = scopes[o + 1] \cup {m}
      /\ \A k \in 1 .. Len(scopes) : k # o + 1 => scopes'[k] = scopes[k]
  BY <1>0 DEF Use
<1>2. CASE o = 0
  <2>1. global' = Append(global, m) /\ groups' = groups
    BY <1>2 DEF Use, Root
  <2>2. global' \in Seq(Middlewares) /\ ToSet(global') = ToSet(global) \cup {m}
    BY <2>1, ElementsOfAppend DEF RouterTyped
  <2>3. RouterTyped'
    BY <1>0, <1>1, <2>1, <2>2 DEF RouterTyped, Use
  <2>4. ScopesAre'
    BY <1>0, <1>1, <1>2, <2>1, <2>2 DEF ScopesAre
  <2> QED BY <2>3, <2>4, SameRoutes DEF Use
<1>3. CASE o \in 1 .. Len(groups)
  <2>1. /\ global' = global
        /\ groups' = [groups EXCEPT ![o].middlewares = Append(@, m)]
    BY <1>3 DEF Use, Root
  <2>2. /\ groups \in Seq(GroupRecord) /\ groups[o] \in GroupRecord
        /\ groups[o].middlewares \in Seq(Middlewares)
    <3>1. groups \in Seq(GroupRecord) /\ groups[o] \in GroupRecord
      BY <1>3 DEF RouterTyped
    <3> QED BY <3>1 DEF GroupRecord
  <2>3. /\ Append(groups[o].middlewares, m) \in Seq(Middlewares)
        /\ ToSet(Append(groups[o].middlewares, m)) = ToSet(groups[o].middlewares) \cup {m}
    BY <2>2, ElementsOfAppend
  <2>4. /\ groups' \in Seq(GroupRecord) /\ Len(groups') = Len(groups)
        /\ groups'[o].middlewares = Append(groups[o].middlewares, m)
        /\ \A g \in 1 .. Len(groups) : g # o => groups'[g] = groups[g]
    <3> DEFINE new == [groups[o] EXCEPT !.middlewares = Append(groups[o].middlewares, m)]
    <3>1. new \in GroupRecord /\ new.middlewares = Append(groups[o].middlewares, m)
      BY <2>2, <2>3 DEF GroupRecord
    <3>2. groups' = [groups EXCEPT ![o] = new]
      BY <2>1
    <3> HIDE DEF new
    <3> QED BY <3>1, <3>2, <2>2, <1>3
  <2>5. RouterTyped'
    BY <1>0, <1>1, <2>1, <2>4 DEF RouterTyped, Use
  <2>6. ScopesAre'
    <3>1. scopes'[1] = ToSet(global')
      BY <1>0, <1>1, <1>3, <2>1 DEF ScopesAre
    <3>2. ASSUME NEW g \in 1 .. Len(groups)
          PROVE  scopes'[g + 1] = ToSet(groups'[g].middlewares)
      <4>1. scopes[g + 1] = ToSet(groups[g].middlewares)
        BY DEF ScopesAre
      <4>2. CASE g = o
        BY <1>1, <2>3, <2>4, <4>1, <4>2
      <4>3. CASE g # o
        <5>1. g + 1 \in 1 .. Len(scopes) /\ g + 1 # o + 1
          BY <1>0, <1>3, <4>3
        <5> QED BY <1>1, <2>4, <4>1, <4>3, <5>1
      <4> QED BY <4>2, <4>3
    <3> QED BY <3>1, <3>2, <2>4 DEF ScopesAre
  <2> QED BY <2>5, <2>6, SameRoutes DEF Use
<1> QED BY <1>0, <1>2, <1>3

(***************************************************************************)
(* group: a copy of what is in force for its owner, in the same scope.     *)
(***************************************************************************)
LEMMA GroupKeeps ==
  ASSUME RouterInv, NEW o \in Owners, NEW p \in PathSet, Group(o, p)
  PROVE  RouterInv'
<1> USE DEF RouterInv
<1> DEFINE new == [prefix |-> Prefix(o) \o p, middlewares |-> Own(o)]
<1>0. /\ Len(groups) \in Nat /\ o + 1 \in 1 .. Len(scopes)
      /\ groups \in Seq(GroupRecord)
      /\ scopes \in Seq(SUBSET Middlewares) /\ Len(scopes) = Len(groups) + 1
  BY DEF Owners, RouterTyped
<1>1. new \in GroupRecord /\ ToSet(new.middlewares) = scopes[o + 1]
  <2>1. /\ Prefix(o) \in PathSet /\ Own(o) \in Seq(Middlewares)
        /\ ToSet(Own(o)) = scopes[o + 1]
    BY InForceIsScope
  <2>2. Prefix(o) \o p \in PathSet
    BY <2>1 DEF PathSet
  <2> QED BY <2>1, <2>2 DEF GroupRecord
<1>2. groups' = Append(groups, new) /\ scopes' = Append(scopes, scopes[o + 1])
  BY DEF Group
<1> HIDE DEF new
<1>3. /\ groups' \in Seq(GroupRecord) /\ Len(groups') = Len(groups) + 1
      /\ groups'[Len(groups) + 1] = new
      /\ \A g \in 1 .. Len(groups) : groups'[g] = groups[g]
  BY <1>0, <1>1, <1>2
<1>4. /\ scopes' \in Seq(SUBSET Middlewares) /\ Len(scopes') = Len(scopes) + 1
      /\ scopes'[Len(scopes) + 1] = scopes[o + 1]
      /\ \A k \in 1 .. Len(scopes) : scopes'[k] = scopes[k]
  BY <1>0, <1>2
<1>5. RouterTyped'
  BY <1>0, <1>3, <1>4 DEF RouterTyped, Group
<1>6. ScopesAre'
  <2>1. scopes'[1] = ToSet(global')
    BY <1>0, <1>4 DEF ScopesAre, Group
  <2>2. ASSUME NEW g \in 1 .. Len(groups')
        PROVE  scopes'[g + 1] = ToSet(groups'[g].middlewares)
    <3>1. CASE g = Len(groups) + 1
      BY <3>1, <1>0, <1>1, <1>3, <1>4
    <3>2. CASE g # Len(groups) + 1
      <4>1. g \in 1 .. Len(groups) /\ g + 1 \in 1 .. Len(scopes)
        BY <3>2, <1>0, <1>3
      <4>2. scopes[g + 1] = ToSet(groups[g].middlewares)
        BY <4>1 DEF ScopesAre
      <4> QED BY <4>1, <4>2, <1>3, <1>4
    <3> QED BY <3>1, <3>2
  <2> QED BY <2>1, <2>2 DEF ScopesAre
<1> QED BY <1>5, <1>6, SameRoutes DEF Group

(***************************************************************************)
(* A declaration decides for its paths if it is in scope of something.     *)
(***************************************************************************)
LEMMA DecidingAppend ==
  ASSUME NEW ds \in Seq(Declaration), NEW d \in Declaration, NEW p
  PROVE  /\ p \notin d.paths \/ d.scope = {} => Deciding(Append(ds, d), p) = Deciding(ds, p)
         /\ p \in d.paths /\ d.scope # {} => Len(ds) + 1 \in Deciding(Append(ds, d), p)
<1> DEFINE es == Append(ds, d)
<1>1. PICK n \in Nat : n = Len(ds) /\ DOMAIN ds = 1 .. n
  OBVIOUS
<1>2. /\ Len(es) = n + 1 /\ DOMAIN es = 1 .. n + 1 /\ es[n + 1] = d
      /\ \A i \in 1 .. n : es[i] = ds[i]
  BY <1>1
<1> HIDE DEF es
<1>3. ASSUME p \notin d.paths \/ d.scope = {}
      PROVE  Deciding(es, p) = Deciding(ds, p)
  <2>1. \A i \in 1 .. n + 1 : i = n + 1 \/ i \in 1 .. n
    BY <1>1
  <2>2. \A i \in 1 .. n : i \in 1 .. n + 1
    BY <1>1
  <2>3. ASSUME NEW i \in 1 .. n
        PROVE  (\A j \in i + 1 .. n + 1 : p \in es[j].paths => es[j].scope = {})
               <=> (\A j \in i + 1 .. n : p \in ds[j].paths => ds[j].scope = {})
    <3>1. \A j \in i + 1 .. n + 1 : j = n + 1 \/ j \in i + 1 .. n
      BY <1>1
    <3>2. \A j \in i + 1 .. n : j \in i + 1 .. n + 1 /\ j \in 1 .. n
      BY <1>1
    <3> QED BY <3>1, <3>2, <1>2, <1>3
  <2>4. ~(p \in es[n + 1].paths /\ es[n + 1].scope # {})
    BY <1>2, <1>3
  <2> QED BY <2>1, <2>2, <2>3, <2>4, <1>1, <1>2 DEF Deciding
<1>4. ASSUME p \in d.paths, d.scope # {}
      PROVE  n + 1 \in Deciding(es, p)
  <2>1. n + 1 \in 1 .. n + 1 /\ \A j \in (n + 1) + 1 .. n + 1 : FALSE
    BY <1>1
  <2> QED BY <2>1, <1>2, <1>4 DEF Deciding
<1> QED BY <1>1, <1>3, <1>4 DEF es

(***************************************************************************)
(* A route: what it puts in the maps is its declaration's, the latest.     *)
(***************************************************************************)
LEMMA RegisterKeeps ==
  ASSUME RouterInv, NEW o \in Owners, NEW methods \in SUBSET (Methods \cup StandardMethods),
         NEW paths \in SUBSET PathSet, NEW handler \in {"page", "socket", "files"},
         Register(o, methods, paths, handler)
  PROVE  RouterInv'
<1> USE DEF RouterInv
<1> DEFINE full == {Prefix(o) \o p : p \in paths}
           scope == scopes[1] \cup scopes[o + 1]
           d == [methods |-> methods, paths |-> full, handler |-> handler, scope |-> scope]
<1>0. PICK n \in Nat : n = Len(declared) /\ DOMAIN declared = 1 .. n /\ declared \in Seq(Declaration)
  BY DEF RouterTyped
<1>1. /\ Prefix(o) \in PathSet /\ InForce(o) \in Seq(Middlewares)
      /\ ToSet(InForce(o)) = scope
  BY InForceIsScope
<1>2. full \in SUBSET PathSet
  <2>1. \A p \in paths : p \in Seq(Segments) /\ Prefix(o) \in Seq(Segments)
    BY <1>1 DEF PathSet
  <2>2. \A p \in paths : Prefix(o) \o p \in PathSet
    BY <2>1 DEF PathSet
  <2> QED BY <2>2
<1>3. scope \in SUBSET Middlewares
  <2>1. /\ scopes \in Seq(SUBSET Middlewares) /\ 1 \in 1 .. Len(scopes)
        /\ o + 1 \in 1 .. Len(scopes)
    BY DEF Owners, RouterTyped
  <2> QED BY <2>1
<1>4. /\ d \in Declaration /\ d.methods = methods /\ d.paths = full /\ d.handler = handler
      /\ d.scope = scope
  <2> HIDE DEF full, scope
  <2> QED BY <1>2, <1>3 DEF Declaration
<1>5. /\ routes' = Put(routes, methods \X full, handler)
      /\ attached' = Attached(full, o)
      /\ declared' = Append(declared, d)
      /\ UNCHANGED <<global, groups, custom, scopes>>
  BY DEF Register
<1> HIDE DEF full, scope, d
<1>6. /\ declared' \in Seq(Declaration) /\ DOMAIN declared' = 1 .. n + 1 /\ Len(declared') = n + 1
      /\ declared'[n + 1] = d /\ \A i \in 1 .. n : declared'[i] = declared[i]
  BY <1>0, <1>4, <1>5
<1>7. RouterTyped' /\ ScopesAre'
  BY <1>5, <1>6 DEF RouterTyped, ScopesAre
<1>8. /\ DOMAIN routes' = (methods \X full) \cup DOMAIN routes
      /\ \A r \in methods \X full : routes'[r] = handler
      /\ \A r \in DOMAIN routes : r \notin methods \X full => routes'[r] = routes[r]
  BY <1>5 DEF Put
<1>9. \A m, p : /\ Covers(n + 1, m, p)' <=> <<m, p>> \in methods \X full
                /\ \A i \in 1 .. n : Covers(i, m, p)' <=> Covers(i, m, p)
  BY <1>4, <1>6 DEF Covers
<1>10. RoutesAre'
  <2>1. \A r \in DOMAIN routes' : r = <<r[1], r[2]>>
    BY <1>8 DEF RoutesAre
  <2>2. \A m, p : <<m, p>> \in DOMAIN routes' <=> \E i \in 1 .. n + 1 : Covers(i, m, p)'
    <3>1. TAKE m, p
    <3>2. <<m, p>> \in DOMAIN routes <=> \E i \in 1 .. n : Covers(i, m, p)
      BY <1>0 DEF RoutesAre
    <3>3. \A i \in 1 .. n + 1 : i = n + 1 \/ i \in 1 .. n
      BY <1>0
    <3>4. n + 1 \in 1 .. n + 1 /\ \A i \in 1 .. n : i \in 1 .. n + 1
      BY <1>0
    <3> QED BY <3>2, <3>3, <3>4, <1>8, <1>9
  <2>3. ASSUME NEW m, NEW p, <<m, p>> \in DOMAIN routes'
        PROVE  \E i \in 1 .. n + 1 :
                 /\ Covers(i, m, p)'
                 /\ routes'[<<m, p>>] = declared'[i].handler
                 /\ \A j \in i + 1 .. n + 1 : ~Covers(j, m, p)'
    <3>1. CASE <<m, p>> \in methods \X full
      <4>1. n + 1 \in 1 .. n + 1 /\ \A j \in (n + 1) + 1 .. n + 1 : FALSE
        BY <1>0
      <4> QED BY <3>1, <4>1, <1>4, <1>6, <1>8, <1>9
    <3>2. CASE <<m, p>> \notin methods \X full
      <4>1. <<m, p>> \in DOMAIN routes
        BY <2>3, <3>2, <1>8
      <4>2. PICK i \in 1 .. n : /\ Covers(i, m, p)
                                /\ routes[<<m, p>>] = declared[i].handler
                                /\ \A j \in i + 1 .. n : ~Covers(j, m, p)
        BY <4>1, <1>0 DEF RoutesAre
      <4>3. \A j \in i + 1 .. n + 1 : j = n + 1 \/ j \in i + 1 .. n
        BY <1>0
      <4>4. \A j \in i + 1 .. n + 1 : ~Covers(j, m, p)'
        <5>1. \A j \in i + 1 .. n : j \in 1 .. n
          BY <1>0
        <5> QED BY <4>2, <4>3, <5>1, <3>2, <1>9
      <4>5. i \in 1 .. n + 1
        BY <1>0
      <4> QED BY <4>1, <4>2, <4>4, <4>5, <3>2, <1>6, <1>8, <1>9
    <3> QED BY <3>1, <3>2
  <2> QED BY <2>1, <2>2, <2>3, <1>6 DEF RoutesAre
<1>11. AttachedAre'
  <2>1. CASE InForce(o) = <<>>
    <3>1. attached' = attached /\ scope = {}
      BY <2>1, <1>1, <1>5, ElementsOfEmpty DEF Attached
    <3>2. ASSUME NEW p \in DOMAIN attached'
          PROVE  /\ attached'[p] \in Seq(Middlewares)
                 /\ \E i \in Deciding(declared', p) : ToSet(attached'[p]) = declared'[i].scope
      <4>1. PICK i \in Deciding(declared, p) : /\ attached[p] \in Seq(Middlewares)
                                     /\ ToSet(attached[p]) = declared[i].scope
        BY <3>1 DEF AttachedAre
      <4>2. i \in 1 .. n
        BY <4>1, <1>0 DEF Deciding
      <4>3. i \in Deciding(declared', p)
        <5>1. Deciding(declared', p) = Deciding(declared, p)
          BY <3>1, <1>0, <1>4, <1>5, DecidingAppend
        <5> QED BY <4>1, <5>1
      <4> QED BY <3>1, <4>1, <4>2, <4>3, <1>6
    <3>3. ASSUME NEW i \in 1 .. n + 1, declared'[i].scope # {}
          PROVE  declared'[i].paths \subseteq DOMAIN attached'
      <4>1. i # n + 1
        BY <3>1, <3>3, <1>4, <1>6
      <4>2. i \in 1 .. n
        BY <4>1, <1>0
      <4> QED BY <3>1, <3>3, <4>2, <1>0, <1>6 DEF AttachedAre
    <3> QED BY <3>2, <3>3, <1>6 DEF AttachedAre
  <2>2. CASE InForce(o) # <<>>
    <3>1. /\ DOMAIN attached' = full \cup DOMAIN attached
          /\ \A p \in full : attached'[p] = InForce(o)
          /\ \A p \in DOMAIN attached : p \notin full => attached'[p] = attached[p]
      BY <2>2, <1>5 DEF Attached, Put
    <3>2. scope # {}
      <4>1. 1 \in DOMAIN InForce(o)
        BY <2>2, <1>1
      <4> QED BY <4>1, <1>1 DEF ToSet
    <3>3. ASSUME NEW p \in DOMAIN attached'
          PROVE  /\ attached'[p] \in Seq(Middlewares)
                 /\ \E i \in Deciding(declared', p) : ToSet(attached'[p]) = declared'[i].scope
      <4>1. CASE p \in full
        <5>1. n + 1 \in Deciding(declared', p)
          BY <4>1, <3>2, <1>0, <1>4, <1>5, DecidingAppend
        <5> QED BY <4>1, <5>1, <3>1, <1>1, <1>4, <1>6
      <4>2. CASE p \notin full
        <5>1. PICK i \in Deciding(declared, p) : /\ attached[p] \in Seq(Middlewares)
                                       /\ ToSet(attached[p]) = declared[i].scope
          BY <4>2, <3>1 DEF AttachedAre
        <5>2. i \in 1 .. n
          BY <5>1, <1>0 DEF Deciding
        <5>3. i \in Deciding(declared', p)
          <6>1. Deciding(declared', p) = Deciding(declared, p)
            BY <4>2, <1>0, <1>4, <1>5, DecidingAppend
          <6> QED BY <5>1, <6>1
        <5> QED BY <4>2, <3>1, <5>1, <5>2, <5>3, <1>6
      <4> QED BY <4>1, <4>2
    <3>4. ASSUME NEW i \in 1 .. n + 1, declared'[i].scope # {}
          PROVE  declared'[i].paths \subseteq DOMAIN attached'
      <4>1. CASE i = n + 1
        BY <4>1, <3>1, <1>4, <1>6
      <4>2. CASE i # n + 1
        <5>1. i \in 1 .. n
          BY <4>2, <1>0
        <5> QED BY <5>1, <3>1, <3>4, <1>0, <1>6 DEF AttachedAre
      <4> QED BY <4>1, <4>2
    <3> QED BY <3>3, <3>4, <1>6 DEF AttachedAre
  <2> QED BY <2>1, <2>2
<1> HIDE DEF RouterInv
<1> QED BY <1>7, <1>10, <1>11 DEF RouterInv

(***************************************************************************)
(* Whatever is done to set the router up.                                  *)
(***************************************************************************)
LEMMA RouterKept ==
  ASSUME RouterInv, UNCHANGED routerVars
  PROVE  RouterInv'
<1>1. RouterTyped' /\ ScopesAre'
  BY DEF RouterInv, RouterTyped, ScopesAre, routerVars
<1> QED BY <1>1, SameRoutes DEF RouterInv, routerVars

(***************************************************************************)
(* Every step of the set up keeps the invariant of the router.             *)
(***************************************************************************)
LEMMA SetUpKeeps ==
  ASSUME RouterInv, SetUp
  PROVE  RouterInv'
<1>0. PICK o \in Owners :
         \/ \E m \in Middlewares : Use(o, m)
         \/ \E p \in Paths : p # <<>> /\ Group(o, p)
         \/ \E m \in Methods, p \in Paths, h \in {"page", "socket"} : Route(o, m, p, h)
         \/ \E p \in Paths : Static(o, p)
         \/ \E which \in {"not_found", "method_not_allowed"} : SetCustom(which)
  BY DEF SetUp
<1>p. \A p \in Paths : p \in PathSet
  <2>1. TAKE p \in Paths
  <2>2. p \in Seq(ToSet(p)) /\ ToSet(p) \subseteq Segments
    BY SetupAssumption DEF Segments
  <2>3. p \in Seq(Segments)
    BY ONLY <2>2
  <2> QED BY <2>3 DEF PathSet
<1>1. CASE \E m \in Middlewares : Use(o, m)
  BY <1>1, UseKeeps
<1>2. CASE \E p \in Paths : p # <<>> /\ Group(o, p)
  BY <1>2, <1>p, GroupKeeps
<1>3. ASSUME NEW m \in Methods, NEW p \in Paths, NEW h \in {"page", "socket"}, Route(o, m, p, h)
      PROVE  RouterInv'
  <2>1. {m} \in SUBSET (Methods \cup StandardMethods) /\ {p} \in SUBSET PathSet
        /\ h \in {"page", "socket", "files"}
    BY <1>p
  <2>2. Register(o, {m}, {p}, h)
    BY <1>3 DEF Route
  <2> QED BY <2>1, <2>2, RegisterKeeps
<1>4. ASSUME NEW p \in Paths, Static(o, p)
      PROVE  RouterInv'
  <2> DEFINE below == {p, p \o <<Wildcard>>} \ {<<>>}
  <2>1. {"GET", "HEAD"} \in SUBSET (Methods \cup StandardMethods)
    BY DEF StandardMethods
  <2>2. below \in SUBSET PathSet
    <3>0. Wildcard \in Segments
      BY DEF Segments
    <3>1. p \in Seq(Segments) /\ <<Wildcard>> \in Seq(Segments)
      BY <1>p, <3>0 DEF PathSet
    <3>2. p \o <<Wildcard>> \in Seq(Segments)
      BY <3>1, ConcatProperties
    <3> QED BY <3>1, <3>2 DEF PathSet
  <2>3. Register(o, {"GET", "HEAD"}, below, "files")
    BY <1>4 DEF Static
  <2> HIDE DEF below
  <2> QED BY <2>1, <2>2, <2>3, RegisterKeeps
<1>5. CASE \E which \in {"not_found", "method_not_allowed"} : SetCustom(which)
  <2>1. UNCHANGED <<global, groups, routes, attached, scopes, declared>>
    BY <1>5 DEF SetCustom, RouterInv, RouterTyped
  <2>2. RouterTyped' /\ ScopesAre'
    BY <2>1 DEF RouterInv, RouterTyped, ScopesAre
  <2> QED BY <2>1, <2>2, SameRoutes DEF RouterInv
<1> QED BY <1>0, <1>1, <1>2, <1>3, <1>4, <1>5

(***************************************************************************)
(* A new router satisfies it.                                              *)
(***************************************************************************)
LEMMA RouterAtFirst == RouterInit => RouterInv
<1> SUFFICES ASSUME RouterInit PROVE RouterInv
  OBVIOUS
<1>1. RouterTyped
  BY DEF RouterInit, RouterTyped
<1>2. ScopesAre
  BY DEF RouterInit, ScopesAre, ToSet
<1>3. RoutesAre /\ AttachedAre
  BY DEF RouterInit, RoutesAre, AttachedAre, Covers, Deciding
<1> QED BY <1>1, <1>2, <1>3 DEF RouterInv

-----------------------------------------------------------------------------
(***************************************************************************)
(* Looking a request up.                                                   *)
(***************************************************************************)

(***************************************************************************)
(* The middlewares that run: all of them, or up to the first that answers. *)
(***************************************************************************)
LEMMA RunStops ==
  ASSUME NEW X, NEW mws \in Seq(X), NEW answering
  PROVE  /\ ~Stopped(mws, answering) =>
              Run(mws, answering) = mws /\ ToSet(mws) \cap answering = {}
         /\ Stopped(mws, answering) =>
              \E k \in 1 .. Len(mws) :
                /\ Run(mws, answering) = SubSeq(mws, 1, k)
                /\ mws[k] \in answering
                /\ \A i \in 1 .. k - 1 : mws[i] \notin answering
<1> DEFINE stops == {i \in DOMAIN mws : mws[i] \in answering}
<1>0. DOMAIN mws = 1 .. Len(mws) /\ Len(mws) \in Nat
  OBVIOUS
<1>1. Stopped(mws, answering) <=> stops # {}
  BY DEF Stopped, ToSet
<1>2. CASE ~Stopped(mws, answering)
  BY <1>1, <1>2 DEF Run, Stopped
<1>3. CASE Stopped(mws, answering)
  <2> DEFINE k == CHOOSE i \in stops : \A j \in stops : i <= j
  <2>1. stops \in SUBSET Nat
    BY <1>0
  <2>2. \E i \in stops : \A j \in stops : i <= j
    <3> HIDE DEF stops
    <3> QED BY <1>1, <1>3, <2>1, LeastNatural
  <2>3. k \in stops /\ \A j \in stops : k <= j
    <3> HIDE DEF stops
    <3> QED BY <2>2
  <2>4. Run(mws, answering) = SubSeq(mws, 1, k)
    BY <1>1, <1>3 DEF Run
  <2> HIDE DEF k
  <2>5. k \in 1 .. Len(mws) /\ mws[k] \in answering
    BY <2>3, <1>0
  <2>6. \A i \in 1 .. k - 1 : mws[i] \notin answering
    <3>1. TAKE i \in 1 .. k - 1
    <3>2. i \in DOMAIN mws /\ ~(k <= i)
      BY <2>5, <1>0
    <3> QED BY <3>2, <2>3
  <2> QED BY <2>4, <2>5, <2>6, <1>3
<1> QED BY <1>2, <1>3

(***************************************************************************)
(* When middlewares that pass are followed by some of which one answers,   *)
(* that one is the last that runs.                                         *)
(***************************************************************************)
LEMMA StoppedLast ==
  ASSUME NEW X, NEW before \in Seq(X), NEW mws \in Seq(X), NEW answering,
         ToSet(before) \cap answering = {}, Stopped(mws, answering)
  PROVE  LET ran == before \o Run(mws, answering)
         IN  Last(ran) \in answering /\ ToSet(Front(ran)) \cap answering = {}
<1> DEFINE run == Run(mws, answering)
           ran == before \o run
<1>1. PICK k \in 1 .. Len(mws) : /\ run = SubSeq(mws, 1, k)
                                 /\ mws[k] \in answering
                                 /\ \A i \in 1 .. k - 1 : mws[i] \notin answering
  BY RunStops
<1>2. run \in Seq(X) /\ Len(run) = k /\ k \in Nat /\ \A i \in 1 .. k : run[i] = mws[i]
  BY <1>1
<1> HIDE DEF run
<1>3. /\ ran \in Seq(X) /\ Len(ran) = Len(before) + k
      /\ \A i \in 1 .. Len(before) + k :
           ran[i] = IF i <= Len(before) THEN before[i] ELSE run[i - Len(before)]
  <2>1. /\ ran \in Seq(X) /\ Len(ran) = Len(before) + Len(run)
        /\ \A i \in 1 .. Len(before) + Len(run) :
             ran[i] = IF i <= Len(before) THEN before[i] ELSE run[i - Len(before)]
    BY <1>2, ConcatProperties, Zenon
  <2> HIDE DEF ran
  <2> QED BY <2>1, <1>2
<1> HIDE DEF ran
<1>4. ran[Len(ran)] \in answering
  <2>1. Len(ran) \in 1 .. Len(before) + k /\ ~(Len(ran) <= Len(before))
        /\ Len(ran) - Len(before) = k /\ k \in 1 .. k
    BY <1>1, <1>3
  <2> QED BY <2>1, <1>1, <1>2, <1>3
<1>5. ASSUME NEW i \in 1 .. Len(ran) - 1
      PROVE  ran[i] \notin answering
  <2>0. i \in 1 .. Len(before) + k /\ i < Len(before) + k /\ Len(before) \in Nat
    BY <1>3, <1>1
  <2>1. CASE i <= Len(before)
    <3>1. before[i] \in ToSet(before)
      BY <2>0, <2>1 DEF ToSet
    <3> QED BY <3>1, <2>0, <2>1, <1>3
  <2>2. CASE ~(i <= Len(before))
    <3>1. i - Len(before) \in 1 .. k - 1 /\ i - Len(before) \in 1 .. k
      BY <2>0, <2>2, <1>1
    <3> QED BY <3>1, <2>0, <2>2, <1>1, <1>2, <1>3
  <2> QED BY <2>1, <2>2
<1>6. Last(ran) = ran[Len(ran)] /\ Front(ran) = SubSeq(ran, 1, Len(ran) - 1)
  BY DEF Last, Front
<1>7. ToSet(Front(ran)) \cap answering = {}
  <2>1. /\ DOMAIN Front(ran) = 1 .. Len(ran) - 1
        /\ \A i \in 1 .. Len(ran) - 1 : Front(ran)[i] = ran[i]
    BY <1>1, <1>3, <1>6
  <2> QED BY <2>1, <1>5 DEF ToSet
<1> QED BY <1>4, <1>6, <1>7 DEF ran, run

(***************************************************************************)
(* A path that matches is one of a route, and there is one just when a     *)
(* declaration speaks of the request.                                      *)
(***************************************************************************)
LEMMA MatchedIsDeclared ==
  ASSUME RouterInv, NEW m, NEW t
  PROVE  /\ \A p \in Matched(m, t) : /\ <<m, p>> \in DOMAIN routes
                                     /\ p = t \/ ParameterMatches(p, t) \/ WildMatches(p, t)
         /\ Matched(m, t) # {} <=> For(m, t) # {}
<1>1. \A p : p \in PathsOf(m) <=> <<m, p>> \in DOMAIN routes
  BY DEF PathsOf
<1>2. \A p \in Matched(m, t) : /\ p \in PathsOf(m)
                               /\ p = t \/ ParameterMatches(p, t) \/ WildMatches(p, t)
  BY DEF Matched, Patterns
<1>3. \A p \in PathsOf(m) : p = t \/ ParameterMatches(p, t) \/ WildMatches(p, t)
                              => Matched(m, t) # {}
  BY DEF Matched, Patterns
<1>4. \A d : Speaks(d, t) <=> \E p \in d.paths :
                                p = t \/ ParameterMatches(p, t) \/ WildMatches(p, t)
  BY DEF Speaks, Fits, WildMatches
<1>5. \A p : <<m, p>> \in DOMAIN routes <=> \E i \in DOMAIN declared : Covers(i, m, p)
  BY DEF RouterInv, RoutesAre
<1>6. ASSUME Matched(m, t) # {}
      PROVE  For(m, t) # {}
  <2>1. PICK p \in Matched(m, t) : TRUE
    BY <1>6
  <2>2. PICK i \in DOMAIN declared : Covers(i, m, p)
    BY <1>1, <1>2, <1>5
  <2>3. Speaks(declared[i], t)
    BY <1>2, <1>4, <2>2 DEF Covers
  <2> QED BY <2>2, <2>3 DEF For, Covers
<1>7. ASSUME For(m, t) # {}
      PROVE  Matched(m, t) # {}
  <2>1. PICK i \in DOMAIN declared : m \in declared[i].methods /\ Speaks(declared[i], t)
    BY <1>7 DEF For
  <2>2. PICK p \in declared[i].paths : p = t \/ ParameterMatches(p, t) \/ WildMatches(p, t)
    BY <2>1, <1>4
  <2>3. p \in PathsOf(m)
    BY <2>1, <2>2, <1>1, <1>5 DEF Covers
  <2> QED BY <2>2, <2>3, <1>3
<1> QED BY <1>1, <1>2, <1>6, <1>7

(***************************************************************************)
(* The last declaration of a path that matches is one of the best.         *)
(***************************************************************************)
LEMMA MatchedIsBest ==
  ASSUME RouterInv, NEW m, NEW t, NEW p \in Matched(m, t)
  PROVE  \E i \in Best(m, t) : /\ p \in declared[i].paths
                               /\ routes[<<m, p>>] = declared[i].handler
<1>1. /\ <<m, p>> \in DOMAIN routes
      /\ p = t \/ ParameterMatches(p, t) \/ WildMatches(p, t)
  BY MatchedIsDeclared
<1>2. PICK i \in DOMAIN declared : /\ Covers(i, m, p)
                                   /\ routes[<<m, p>>] = declared[i].handler
                                   /\ \A j \in (i + 1) .. Len(declared) : ~Covers(j, m, p)
  BY <1>1 DEF RouterInv, RoutesAre
<1>3. i \in For(m, t)
  BY <1>1, <1>2 DEF For, Speaks, Fits, Covers, WildMatches
<1>4. ~Superseded(i, m)
  BY <1>2 DEF Superseded, Covers
<1>5. ASSUME NEW j \in For(m, t)
      PROVE  Rank(declared[i], t) <= Rank(declared[j], t)
  <2>0. \A d : Rank(d, t) \in {1, 2, 3}
    BY DEF Rank
  <2>1. /\ j \in DOMAIN declared /\ m \in declared[j].methods
        /\ \A q \in declared[j].paths : q \in PathsOf(m)
    <3>1. j \in DOMAIN declared /\ m \in declared[j].methods
      BY DEF For
    <3>2. \A q \in declared[j].paths : <<m, q>> \in DOMAIN routes
      BY <3>1 DEF RouterInv, RoutesAre, Covers
    <3> QED BY <3>1, <3>2 DEF PathsOf
  <2>2. p \in declared[i].paths
    BY <1>2 DEF Covers
  <2>3. CASE p = t
    <3>1. Rank(declared[i], t) = 1
      BY <2>2, <2>3 DEF Rank
    <3> QED BY <3>1, <2>0
  <2>4. CASE p # t /\ ParameterMatches(p, t)
    <3>1. t \notin PathsOf(m)
      BY <2>4 DEF Matched, Patterns
    <3>2. Rank(declared[j], t) \in {2, 3}
      BY <3>1, <2>1 DEF Rank
    <3>3. Rank(declared[i], t) \in {1, 2}
      BY <2>2, <2>4 DEF Rank
    <3> QED BY <3>2, <3>3
  <2>5. CASE p # t /\ ~ParameterMatches(p, t)
    <3>1. t \notin PathsOf(m) /\ \A q \in PathsOf(m) : ~ParameterMatches(q, t)
      BY <2>5 DEF Matched, Patterns
    <3>2. Rank(declared[j], t) = 3
      BY <3>1, <2>1 DEF Rank
    <3> QED BY <3>2, <2>0
  <2> QED BY <2>3, <2>4, <2>5
<1> QED BY <1>2, <1>3, <1>4, <1>5 DEF Best, Covers

(***************************************************************************)
(* What is attached to a path is the scope of the declaration that decides *)
(* for it, of which there is one at most.                                  *)
(***************************************************************************)
LEMMA AttachedIsScope ==
  ASSUME RouterInv, NEW p
  PROVE  AttachedTo(p) \in Seq(Middlewares) /\ ToSet(AttachedTo(p)) = ScopeOf(p)
<1>0. PICK n \in Nat : n = Len(declared) /\ DOMAIN declared = 1 .. n
  BY DEF RouterInv, RouterTyped
<1>1. CASE p \in DOMAIN attached
  <2>1. PICK j \in Deciding(declared, p) : /\ attached[p] \in Seq(Middlewares)
                                 /\ ToSet(attached[p]) = declared[j].scope
    BY <1>1 DEF RouterInv, AttachedAre
  <2>2. AttachedTo(p) = attached[p]
    BY <1>1 DEF AttachedTo
  <2>3. ASSUME NEW i \in Deciding(declared, p)
        PROVE  i = j
    <3>1. /\ i \in 1 .. n /\ j \in 1 .. n
          /\ \A k \in {i, j} : p \in declared[k].paths /\ declared[k].scope # {}
          /\ \A k \in i + 1 .. n : p \in declared[k].paths => declared[k].scope = {}
          /\ \A k \in j + 1 .. n : p \in declared[k].paths => declared[k].scope = {}
      BY <1>0 DEF Deciding
    <3>2. i \notin j + 1 .. n /\ j \notin i + 1 .. n
      BY <3>1
    <3> QED BY <3>1, <3>2, <1>0
  <2>4. Deciding(declared, p) = {j}
    BY <2>3
  <2>5. {declared[i].scope : i \in Deciding(declared, p)} = {declared[j].scope}
    BY <2>4
  <2> QED BY <2>1, <2>2, <2>5 DEF ScopeOf
<1>2. CASE p \notin DOMAIN attached
  <2>1. AttachedTo(p) = <<>>
    BY <1>2 DEF AttachedTo
  <2>2. Deciding(declared, p) = {}
    BY <1>2 DEF RouterInv, AttachedAre, Deciding
  <2>3. ToSet(AttachedTo(p)) = {}
    BY <2>1, ElementsOfEmpty
  <2>4. AttachedTo(p) \in Seq(Middlewares)
    BY <2>1
  <2> QED BY <2>2, <2>3, <2>4 DEF ScopeOf
<1> QED BY <1>1, <1>2

(***************************************************************************)
(* In a router that was set up, a request is dispatched as was declared,   *)
(* and by one of those who answer.                                         *)
(***************************************************************************)
LEMMA DispatchIsDeclared ==
  ASSUME RouterInv, NEW m, NEW t, NEW answering, NEW out \in Dispatch(m, t, answering)
  PROVE  /\ out.by \in Answerers
         /\ IF out.by = "middleware"
            THEN Last(out.ran) \in answering /\ ToSet(Front(out.ran)) \cap answering = {}
            ELSE /\ ToSet(out.ran) \cap answering = {}
                 /\ IF For(m, t) = {}
                    THEN out.by \in IF \E other \in StandardMethods : For(other, t) # {}
                                    THEN {"405", "method_not_allowed"} ELSE {"404", "not_found"}
                    ELSE \E i \in Best(m, t) : \E p \in declared[i].paths :
                           /\ Fits(p, t)
                           /\ out.by = declared[i].handler
                           /\ ToSet(out.ran) = ScopeOf(p) \cup ToSet(global)
<1>0. global \in Seq(Middlewares)
  BY DEF RouterInv, RouterTyped
<1>1. CASE Stopped(global, answering)
  <2>1. out = [ran |-> Run(global, answering), by |-> "middleware"]
    BY <1>1 DEF Dispatch
  <2>2. /\ Last(<<>> \o Run(global, answering)) \in answering
        /\ ToSet(Front(<<>> \o Run(global, answering))) \cap answering = {}
    <3>1. <<>> \in Seq(Middlewares) /\ ToSet(<<>>) \cap answering = {}
      BY ElementsOfEmpty
    <3> QED BY <3>1, <1>0, <1>1, StoppedLast
  <2>3. <<>> \o Run(global, answering) = Run(global, answering)
    <3>1. Run(global, answering) \in Seq(Middlewares)
      <4>1. PICK k \in 1 .. Len(global) : Run(global, answering) = SubSeq(global, 1, k)
        BY <1>0, <1>1, RunStops
      <4> QED BY <4>1, <1>0
    <3> QED BY <3>1, ConcatEmptySeq
  <2> QED BY <2>1, <2>2, <2>3 DEF Answerers
<1>2. CASE ~Stopped(global, answering) /\ Matched(m, t) = {}
  <2>1. out = [ran |-> global, by |-> Missing(t)]
    BY <1>2 DEF Dispatch
  <2>2. ToSet(global) \cap answering = {}
    BY <1>2 DEF Stopped
  <2>3. Allowed(t) # {} <=> \E other \in StandardMethods : For(other, t) # {}
    <3>1. \A other : Matched(other, t) # {} <=> For(other, t) # {}
      BY MatchedIsDeclared
    <3> QED BY <3>1 DEF Allowed
  <2>4. Missing(t) \in IF Allowed(t) # {} THEN {"405", "method_not_allowed"}
                       ELSE {"404", "not_found"}
    BY DEF Missing
  <2>5. For(m, t) = {}
    BY <1>2, MatchedIsDeclared
  <2> QED BY <2>1, <2>2, <2>3, <2>4, <2>5 DEF Answerers
<1>3. CASE ~Stopped(global, answering) /\ Matched(m, t) # {}
  <2>1. PICK p \in Matched(m, t) :
          out = [ran |-> global \o Run(AttachedTo(p), answering),
                 by |-> IF Stopped(AttachedTo(p), answering) THEN "middleware"
                        ELSE routes[m, p]]
    BY <1>3 DEF Dispatch
  <2>2. ToSet(global) \cap answering = {}
    BY <1>3 DEF Stopped
  <2>3. AttachedTo(p) \in Seq(Middlewares)
    BY AttachedIsScope
  <2>4. CASE Stopped(AttachedTo(p), answering)
    <3>1. /\ Last(global \o Run(AttachedTo(p), answering)) \in answering
          /\ ToSet(Front(global \o Run(AttachedTo(p), answering))) \cap answering = {}
      BY <1>0, <2>2, <2>3, <2>4, StoppedLast
    <3> QED BY <2>1, <2>4, <3>1 DEF Answerers
  <2>5. CASE ~Stopped(AttachedTo(p), answering)
    <3>1. /\ Run(AttachedTo(p), answering) = AttachedTo(p)
          /\ ToSet(AttachedTo(p)) \cap answering = {}
      BY <2>3, <2>5, RunStops
    <3>2. ToSet(global \o AttachedTo(p)) = ToSet(global) \cup ToSet(AttachedTo(p))
      BY <1>0, <2>3, ElementsOfConcat
    <3>3. PICK i \in Best(m, t) : /\ p \in declared[i].paths
                                  /\ routes[<<m, p>>] = declared[i].handler
      BY MatchedIsBest
    <3>4. i \in DOMAIN declared
      BY DEF Best, For
    <3>5. declared[i].handler \in {"page", "socket", "files"}
      <4>1. declared[i] \in Declaration
        BY <3>4 DEF RouterInv, RouterTyped
      <4> QED BY <4>1 DEF Declaration
    <3>6. out.ran = global \o AttachedTo(p) /\ out.by = declared[i].handler
      BY <2>1, <2>5, <3>1, <3>3
    <3>7. For(m, t) # {}
      BY <1>3, MatchedIsDeclared
    <3>8. ToSet(out.ran) = ScopeOf(p) \cup ToSet(global)
      BY <3>2, <3>6, AttachedIsScope
    <3>9. ToSet(out.ran) \cap answering = {}
      BY <2>2, <3>1, <3>2, <3>6
    <3>10. out.by # "middleware" /\ out.by \in Answerers
      BY <3>5, <3>6 DEF Answerers
    <3>11. Fits(p, t)
      BY MatchedIsDeclared DEF Fits, WildMatches
    <3> QED BY <3>3, <3>6, <3>7, <3>8, <3>9, <3>10, <3>11
  <2> QED BY <2>4, <2>5
<1> QED BY <1>1, <1>2, <1>3

-----------------------------------------------------------------------------
(***************************************************************************)
(* Streams of units and the messages in them.                              *)
(***************************************************************************)

(***************************************************************************)
(* What the client sends, as streams.                                      *)
(***************************************************************************)
LEMMA SentAreStreams ==
  /\ AllUnits \in Stream /\ AllFrames \in Stream
  /\ \A i \in DOMAIN Script : Units(i) \in Stream
<1>1. \A s : s \in Seq(RequestUnit) => s \in Stream
  BY DEF Stream, AnyUnit
<1>2. \A s : s \in Seq(FrameUnit) => s \in Stream
  BY DEF Stream, AnyUnit
<1>3. AllUnits \in Seq(RequestUnit) /\ AllFrames \in Seq(FrameUnit)
  BY AllUnitsFacts, AllFramesFacts
<1>4. \A i \in DOMAIN Script : Units(i) \in Seq(RequestUnit)
  BY UnitsFacts
<1> QED BY <1>1, <1>2, <1>3, <1>4

(***************************************************************************)
(* A chunk that is read goes from the front of y to the end of x.          *)
(***************************************************************************)
LEMMA MoveOver ==
  ASSUME NEW x \in Stream, NEW w \in Stream, NEW z \in Stream, NEW n \in 0 .. Len(w)
  PROVE  /\ x \o SubSeq(w, 1, n) \in Stream /\ Rest(w, n) \in Stream
         /\ Len(x \o SubSeq(w, 1, n)) = Len(x) + n
         /\ (x \o SubSeq(w, 1, n)) \o (Rest(w, n) \o z) = x \o (w \o z)
<1> DEFINE a == SubSeq(w, 1, n)
           b == Rest(w, n)
<1>1. a \in Stream /\ b \in Stream /\ Len(a) = n /\ a \o b = w
  BY RestFacts DEF Stream
<1> HIDE DEF a, b
<1>2. \A s, t, u \in Stream : (s \o t) \o u = s \o (t \o u)
  BY ConcatAssociative, SMTT(60) DEF Stream
<1>3. \A s, t \in Stream : s \o t \in Stream /\ Len(s \o t) = Len(s) + Len(t)
  BY ConcatProperties DEF Stream
<1>4. (x \o a) \o (b \o z) = x \o (a \o (b \o z))
  <2>1. b \o z \in Stream
    BY <1>1, <1>3
  <2> QED BY <2>1, <1>1, <1>2, ZenonT(60)
<1>5. a \o (b \o z) = (a \o b) \o z
  BY <1>1, <1>2, ZenonT(60)
<1> QED BY <1>1, <1>3, <1>4, <1>5, ZenonT(60) DEF a, b

(***************************************************************************)
(* One read takes a beginning of what is there, and something if it can.   *)
(***************************************************************************)
LEMMA ChunkFacts ==
  ASSUME wire \in Stream
  PROVE  /\ Len(Taken) \in 0 .. Len(wire)
         /\ Taken = SubSeq(wire, 1, Len(Taken))
         /\ wire # <<>> => Len(Taken) >= 1
<1> DEFINE n == IF Len(wire) < ChunkUnits THEN Len(wire) ELSE ChunkUnits
<1>1. n \in 0 .. Len(wire) /\ (wire # <<>> => n >= 1)
  BY ServerAssumption DEF Stream
<1>2. Taken = SubSeq(wire, 1, n)
  BY DEF Taken
<1> HIDE DEF n
<1>3. Len(Taken) = n
  BY <1>1, <1>2 DEF Stream
<1> QED BY <1>1, <1>2, <1>3

(***************************************************************************)
(* The messages in one stream after another.                               *)
(***************************************************************************)
LEMMA MessagesInConcat ==
  ASSUME NEW x \in Stream, NEW y \in Stream
  PROVE  /\ MessagesIn(x) \in Seq(DOMAIN Frames)
         /\ MessagesIn(x \o y) = MessagesIn(x) \o MessagesIn(y)
<1> DEFINE D == DOMAIN Frames
           C(s) == [k \in DOMAIN s |-> Completes(s[k])]
<1>1. \A u \in AnyUnit : Completes(u) \in Seq(D)
  <2>1. TAKE u \in AnyUnit
  <2>2. CASE u.part = "end"
    <3>1. u.of \in D
      BY <2>2 DEF AnyUnit, RequestUnit, FrameUnit
    <3> HIDE DEF D
    <3> QED BY <3>1 DEF Completes
  <2>3. CASE u.part # "end"
    BY <2>3 DEF Completes
  <2> QED BY <2>2, <2>3
<1> HIDE DEF D
<1>2. ASSUME NEW s \in Stream
      PROVE  C(s) \in Seq(Seq(D)) /\ Len(C(s)) = Len(s)
  <2> DEFINE SD == Seq(D)
  <2>1. DOMAIN s = 1 .. Len(s) /\ Len(s) \in Nat /\ \A k \in 1 .. Len(s) : s[k] \in AnyUnit
    BY DEF Stream
  <2>2. \A k \in 1 .. Len(s) : Completes(s[k]) \in SD
    BY <1>1, <2>1
  <2> HIDE DEF SD
  <2>3. C(s) \in Seq(SD) /\ Len(C(s)) = Len(s)
    BY <2>1, <2>2
  <2> QED BY <2>3 DEF SD
<1>3. C(x \o y) = C(x) \o C(y)
  <2> DEFINE z == x \o y
  <2>1. /\ z \in Stream /\ Len(z) = Len(x) + Len(y)
        /\ \A i \in 1 .. Len(x) + Len(y) : z[i] = IF i <= Len(x) THEN x[i] ELSE y[i - Len(x)]
    BY ConcatProperties DEF Stream
  <2>2. \A s \in Stream : DOMAIN s = 1 .. Len(s) /\ Len(s) \in Nat
    BY DEF Stream
  <2> HIDE DEF z
  <2> DEFINE a == C(x)
             b == C(y)
             c == C(z)
  <2>3. /\ a \in Seq(Seq(D)) /\ b \in Seq(Seq(D)) /\ c \in Seq(Seq(D))
        /\ Len(a) = Len(x) /\ Len(b) = Len(y) /\ Len(c) = Len(x) + Len(y)
    BY <1>2, <2>1
  <2>4. /\ \A i \in 1 .. Len(x) : a[i] = Completes(x[i])
        /\ \A i \in 1 .. Len(y) : b[i] = Completes(y[i])
        /\ \A i \in 1 .. Len(x) + Len(y) : c[i] = Completes(z[i])
    BY <2>1, <2>2
  <2> HIDE DEF a, b, c
  <2>5. /\ a \o b \in Seq(Seq(D)) /\ Len(a \o b) = Len(a) + Len(b)
        /\ \A i \in 1 .. Len(a) + Len(b) : (a \o b)[i] = IF i <= Len(a) THEN a[i] ELSE b[i - Len(a)]
    <3>1. \A S : \A p, q \in Seq(S) :
            /\ p \o q \in Seq(S) /\ Len(p \o q) = Len(p) + Len(q)
            /\ \A i \in 1 .. Len(p) + Len(q) :
                 (p \o q)[i] = IF i <= Len(p) THEN p[i] ELSE q[i - Len(p)]
      BY ConcatProperties
    <3>2. a \in Seq(Seq(D)) /\ b \in Seq(Seq(D))
      BY <2>3
    <3> QED BY ONLY <3>1, <3>2
  <2>6. ASSUME NEW i \in 1 .. Len(c)
        PROVE  c[i] = (a \o b)[i]
    <3>1. i \in 1 .. Len(x) + Len(y) /\ Len(x) \in Nat /\ Len(y) \in Nat
      BY <2>2, <2>3
    <3>2. CASE i <= Len(x)
      <4>1. i \in 1 .. Len(x)
        BY <3>1, <3>2
      <4> QED BY <2>1, <2>3, <2>4, <2>5, <3>1, <3>2, <4>1
    <3>3. CASE ~(i <= Len(x))
      <4>1. i - Len(x) \in 1 .. Len(y)
        BY <3>1, <3>3
      <4> QED BY <2>1, <2>3, <2>4, <2>5, <3>1, <3>3, <4>1
    <3> QED BY <3>2, <3>3
  <2>7. c = a \o b
    BY <2>3, <2>5, <2>6, SeqEqual
  <2> QED BY <2>7 DEF a, b, c, z
<1>4. \A s : MessagesIn(s) = FlattenSeq(C(s))
  BY DEF MessagesIn
<1>5. C(x) \in Seq(Seq(D)) /\ C(y) \in Seq(Seq(D))
  BY <1>2
<1> HIDE DEF C
<1>6. FlattenSeq(C(x)) \in Seq(D)
  BY <1>5, FlattenType
<1>7. FlattenSeq(C(x) \o C(y)) = FlattenSeq(C(x)) \o FlattenSeq(C(y))
  BY <1>5, FlattenConcat
<1> QED BY <1>3, <1>4, <1>6, <1>7 DEF D

\* The message a frame brings, if it brings one.
Brings(i) == IF Frames[i] \in {"text", "binary"} THEN <<i>> ELSE <<>>

(***************************************************************************)
(* The units of a frame bring what the frame brings.                       *)
(***************************************************************************)
LEMMA MessageInFrame ==
  ASSUME NEW i \in DOMAIN Frames
  PROVE  /\ Brings(i) \in Seq(DOMAIN Frames)
         /\ MessagesIn(FrameUnits(i)) = Brings(i)
<1> DEFINE D == DOMAIN Frames
           s == [of |-> i, part |-> "start"]
           e == [of |-> i, part |-> "end"]
<1>1. Brings(i) \in Seq(D)
  <2>1. \A S : \A j \in S : <<j>> \in Seq(S) /\ <<>> \in Seq(S)
    OBVIOUS
  <2> QED BY <2>1 DEF Brings
<1>2. Completes(s) = <<>> /\ Completes(e) = Brings(i)
  BY DEF Completes, Brings
<1>3. [k \in DOMAIN FrameUnits(i) |-> Completes(FrameUnits(i)[k])] = <<<<>>, Brings(i)>>
  <2>1. FrameUnits(i) = <<s, e>>
    BY DEF FrameUnits
  <2> HIDE DEF s, e
  <2>2. DOMAIN <<s, e>> = 1 .. 2 /\ <<s, e>>[1] = s /\ <<s, e>>[2] = e
    OBVIOUS
  <2> QED BY <1>2, <2>1, <2>2
<1> HIDE DEF D
<1>4. FlattenSeq(<<<<>>, Brings(i)>>) = Brings(i)
  <2>1. <<>> \in Seq(Seq(D)) /\ <<>> \in Seq(D) /\ <<<<>>>> \in Seq(Seq(D))
    OBVIOUS
  <2>2. FlattenSeq(Append(<<>>, <<>>)) = FlattenSeq(<<>>) \o <<>>
    BY <2>1, FlattenAppend
  <2>3. FlattenSeq(<<<<>>>>) = <<>>
    BY <2>2, FlattenEmpty
  <2>4. FlattenSeq(Append(<<<<>>>>, Brings(i))) = FlattenSeq(<<<<>>>>) \o Brings(i)
    BY <2>1, <1>1, FlattenAppend
  <2>5. Append(<<<<>>>>, Brings(i)) = <<<<>>, Brings(i)>>
    <3>1. ASSUME NEW S, NEW a \in S, NEW b \in S
          PROVE  Append(<<a>>, b) = <<a, b>>
      <4>1. /\ Append(<<a>>, b) \in Seq(S) /\ Len(Append(<<a>>, b)) = 2
            /\ Append(<<a>>, b)[1] = a /\ Append(<<a>>, b)[2] = b
        OBVIOUS
      <4>2. <<a, b>> \in Seq(S) /\ Len(<<a, b>>) = 2 /\ <<a, b>>[1] = a /\ <<a, b>>[2] = b
        OBVIOUS
      <4>3. \A m \in 1 .. 2 : m = 1 \/ m = 2
        OBVIOUS
      <4> QED BY ONLY <4>1, <4>2, <4>3, SeqEqual
    <3>2. <<>> \in Seq(D) /\ Brings(i) \in Seq(D)
      BY <1>1
    <3> QED BY ONLY <3>1, <3>2
  <2>6. <<>> \o Brings(i) = Brings(i)
    BY <1>1, ConcatEmptySeq
  <2> QED BY <2>3, <2>4, <2>5, <2>6
<1> QED BY <1>1, <1>3, <1>4 DEF MessagesIn, D

(***************************************************************************)
(* What has been read goes on from x to y when a chunk is read.            *)
(***************************************************************************)
LEMMA ReadInto ==
  ASSUME NEW k, NEW msgs, NEW x, NEW w \in Stream, NEW z \in Stream, NEW n \in 0 .. Len(w),
         StreamAt(k, msgs, x, w \o z)
  PROVE  StreamAt(k, msgs, x \o SubSeq(w, 1, n), Rest(w, n) \o z)
<1>1. x \in Stream
  BY DEF StreamAt
<1>2. /\ x \o SubSeq(w, 1, n) \in Stream /\ Rest(w, n) \in Stream
      /\ (x \o SubSeq(w, 1, n)) \o (Rest(w, n) \o z) = x \o (w \o z)
  BY <1>1, MoveOver
<1>3. Rest(w, n) \o z \in Stream
  BY <1>2, ConcatProperties DEF Stream
<1> QED BY <1>2, <1>3, Zenon DEF StreamAt

(***************************************************************************)
(* Three sequences, one after the other.                                   *)
(***************************************************************************)
LEMMA Joined ==
  ASSUME NEW X, NEW a \in Seq(X), NEW b \in Seq(X), NEW c \in Seq(X)
  PROVE  a \o b \in Seq(X) /\ (a \o b) \o c = a \o (b \o c)
<1>1. \A u, v, w \in Seq(X) : (u \o v) \o w = u \o (v \o w)
  BY ConcatAssociative, SMTT(60)
<1>2. a \o b \in Seq(X)
  BY ConcatProperties
<1> QED BY <1>1, <1>2, Zenon

(***************************************************************************)
(* Two units that have been read are the next frame; taking them out takes *)
(* the message it brings.                                                  *)
(***************************************************************************)
LEMMA TakeFrame ==
  ASSUME NEW k \in 0 .. Len(Frames), NEW msgs, NEW x, NEW y,
         StreamAt(k, msgs, x, y), Len(x) >= 2
  PROVE  /\ k + 1 \in 0 .. Len(Frames) /\ k + 1 \in DOMAIN Frames
         /\ x[1].of = k + 1
         /\ StreamAt(k + 1, msgs \o Brings(k + 1), Rest(x, 2), y)
<1> DEFINE R == Rest(AllFrames, 2 * k)
           z == x \o y
           r == Rest(x, 2)
           f == FrameUnits(k + 1)
<1>0. Len(Frames) \in Nat /\ DOMAIN Frames = 1 .. Len(Frames)
  BY ScriptFacts
<1>1. /\ x \in Stream /\ y \in Stream /\ msgs \in Seq(DOMAIN Frames) /\ z = R
      /\ msgs \o MessagesIn(z) = MessagesIn(AllFrames)
  BY DEF StreamAt
<1>2. AllFrames \in Stream /\ Len(AllFrames) = 2 * Len(Frames) /\ 2 * k \in 0 .. Len(AllFrames)
  BY <1>0, SentAreStreams, AllFramesFacts
<1>3. /\ R \in Stream /\ Len(R) = Len(AllFrames) - 2 * k
      /\ \A i \in 1 .. Len(AllFrames) - 2 * k : R[i] = AllFrames[2 * k + i]
  BY <1>2, RestFacts DEF Stream
<1>4. /\ z \in Stream /\ Len(z) = Len(x) + Len(y)
      /\ \A i \in 1 .. Len(x) + Len(y) : z[i] = IF i <= Len(x) THEN x[i] ELSE y[i - Len(x)]
  BY <1>1, ConcatProperties DEF Stream
<1>5. Len(x) \in Nat /\ Len(y) \in Nat
  BY <1>1 DEF Stream
<1> HIDE DEF R, z
<1>6. 2 * Len(Frames) - 2 * k = Len(x) + Len(y)
  BY <1>1, <1>2, <1>3, <1>4
<1>7. k + 1 \in 1 .. Len(Frames) /\ k \in Nat
  BY <1>6, <1>5, <1>0
<1>8. /\ AllFrames[2 * (k + 1) - 1] = [of |-> k + 1, part |-> "start"]
      /\ AllFrames[2 * (k + 1)] = [of |-> k + 1, part |-> "end"]
  BY <1>7, AllFramesFacts
<1>9. x[1] = [of |-> k + 1, part |-> "start"] /\ x[2] = [of |-> k + 1, part |-> "end"]
  <2>1. /\ 1 \in 1 .. Len(x) + Len(y) /\ 1 <= Len(x) /\ 2 \in 1 .. Len(x) + Len(y) /\ 2 <= Len(x)
    BY <1>5
  <2>2. z[1] = x[1] /\ z[2] = x[2]
    BY <2>1, <1>4
  <2>3. R[1] = AllFrames[2 * k + 1] /\ R[2] = AllFrames[2 * k + 2]
    BY <2>1, <1>2, <1>3, <1>6
  <2>4. 2 * k + 1 = 2 * (k + 1) - 1 /\ 2 * k + 2 = 2 * (k + 1)
    BY <1>7
  <2> QED BY <2>2, <2>3, <2>4, <1>1, <1>8
<1>10. f \in Stream
  <2>1. [of |-> k + 1, part |-> "start"] \in AnyUnit /\ [of |-> k + 1, part |-> "end"] \in AnyUnit
    BY <1>0, <1>7 DEF AnyUnit, FrameUnit
  <2> QED BY <2>1 DEF FrameUnits, Stream
<1>11. /\ r \in Stream /\ SubSeq(x, 1, 2) \in Stream /\ Len(SubSeq(x, 1, 2)) = 2
       /\ \A i \in 1 .. 2 : SubSeq(x, 1, 2)[i] = x[i]
       /\ SubSeq(x, 1, 2) \o r = x
  <2>1. 2 \in 0 .. Len(x)
    BY <1>5
  <2> QED BY <2>1, <1>1, RestFacts DEF Stream
<1>12. SubSeq(x, 1, 2) = f
  <2>1. Len(f) = 2 /\ f[1] = x[1] /\ f[2] = x[2]
    BY <1>9 DEF FrameUnits
  <2>2. \A i \in 1 .. 2 : i = 1 \/ i = 2
    OBVIOUS
  <2>3. \A i \in 1 .. 2 : SubSeq(x, 1, 2)[i] = f[i]
    BY <2>1, <2>2, <1>11
  <2> HIDE DEF f
  <2> QED BY <2>1, <2>3, <1>10, <1>11, SeqEqual DEF Stream
<1> HIDE DEF f, r
<1>13. r \o y \in Stream /\ z = f \o (r \o y)
  <2>1. (f \o r) \o y = f \o (r \o y)
    <3>1. f \in Seq(AnyUnit) /\ r \in Seq(AnyUnit) /\ y \in Seq(AnyUnit)
      BY <1>1, <1>10, <1>11 DEF Stream
    <3> QED BY ONLY <3>1, Joined
  <2>2. z = (f \o r) \o y
    BY <1>11, <1>12 DEF z
  <2>3. r \o y \in Stream
    BY <1>1, <1>11, ConcatProperties DEF Stream
  <2> QED BY <2>1, <2>2, <2>3
<1>14. r \o y = Rest(AllFrames, 2 * (k + 1))
  <2>1. 2 \in 0 .. Len(x) /\ 2 \in 0 .. Len(AllFrames) - 2 * k
    BY <1>2, <1>5, <1>6
  <2>2. Rest(x \o y, 2) = Rest(x, 2) \o y
    BY <2>1, <1>1, RestOfConcat DEF Stream
  <2>3. Rest(Rest(AllFrames, 2 * k), 2) = Rest(AllFrames, 2 * k + 2)
    BY <2>1, <1>2, RestOfRest DEF Stream
  <2>4. 2 * k + 2 = 2 * (k + 1)
    BY <1>7
  <2> QED BY <2>2, <2>3, <2>4, <1>1 DEF z, R, r
<1>15. /\ Brings(k + 1) \in Seq(DOMAIN Frames)
       /\ MessagesIn(f) = Brings(k + 1)
  BY <1>0, <1>7, MessageInFrame DEF f
<1>16. /\ MessagesIn(z) = Brings(k + 1) \o MessagesIn(r \o y)
       /\ MessagesIn(r \o y) \in Seq(DOMAIN Frames)
  BY <1>10, <1>13, <1>15, MessagesInConcat
<1>17. /\ msgs \o Brings(k + 1) \in Seq(DOMAIN Frames)
       /\ (msgs \o Brings(k + 1)) \o MessagesIn(r \o y) = msgs \o (Brings(k + 1) \o MessagesIn(r \o y))
  <2> DEFINE b == Brings(k + 1)
             c == MessagesIn(r \o y)
  <2>1. msgs \in Seq(DOMAIN Frames) /\ b \in Seq(DOMAIN Frames) /\ c \in Seq(DOMAIN Frames)
    BY <1>1, <1>15, <1>16
  <2> HIDE DEF b, c
  <2>2. msgs \o b \in Seq(DOMAIN Frames) /\ (msgs \o b) \o c = msgs \o (b \o c)
    BY ONLY <2>1, Joined, SMTT(60)
  <2> QED BY <2>2 DEF b, c
<1>18. StreamAt(k + 1, msgs \o Brings(k + 1), r, y)
  BY <1>1, <1>11, <1>14, <1>16, <1>17, Zenon DEF StreamAt
<1>19. x[1].of = k + 1
  BY <1>9
<1> QED BY <1>0, <1>7, <1>18, <1>19 DEF r

-----------------------------------------------------------------------------
(***************************************************************************)
(* The connection, step by step.                                           *)
(***************************************************************************)

(***************************************************************************)
(* Streams, one after the other.                                           *)
(***************************************************************************)
LEMMA StreamsJoin ==
  ASSUME NEW a \in Stream, NEW b \in Stream
  PROVE  /\ a \o b \in Stream /\ Len(a) \in Nat /\ Len(b) \in Nat
         /\ Len(a \o b) = Len(a) + Len(b)
         /\ \A i \in 1 .. Len(a) : (a \o b)[i] = a[i]
         /\ <<>> \in Stream /\ <<>> \o a = a /\ a \o <<>> = a
         /\ Len(a) = 0 <=> a = <<>>
<1>1. /\ a \o b \in Stream /\ Len(a \o b) = Len(a) + Len(b)
      /\ \A i \in 1 .. Len(a) + Len(b) : (a \o b)[i] = IF i <= Len(a) THEN a[i] ELSE b[i - Len(a)]
  BY ConcatProperties DEF Stream
<1>2. Len(a) \in Nat /\ Len(b) \in Nat /\ <<>> \in Stream /\ (Len(a) = 0 <=> a = <<>>)
  BY DEF Stream
<1>3. <<>> \o a = a /\ a \o <<>> = a
  BY ConcatEmptySeq DEF Stream
<1>4. \A i \in 1 .. Len(a) : (a \o b)[i] = a[i]
  <2>1. TAKE i \in 1 .. Len(a)
  <2>2. i \in 1 .. Len(a) + Len(b) /\ i <= Len(a)
    BY <1>2
  <2> QED BY <2>2, <1>1
<1> QED BY <1>1, <1>2, <1>3, <1>4

(***************************************************************************)
(* At the end of a connection nothing is said of what is still to come.    *)
(***************************************************************************)
LEMMA Ended ==
  ASSUME pc' \in {"closing", "closed"}
  PROVE  Ahead' /\ KeyIsLast' /\ Answered' /\ Patience' /\ Framed'
BY DEF Ahead, Serving, KeyIsLast, Answered, Patience, Framed, Upgraded

(***************************************************************************)
(* A step that neither reads a request nor answers one keeps the exchanges *)
(* as they are, if it leaves no closed connection.                         *)
(***************************************************************************)
LEMMA ExchangesKept ==
  ASSUME ExchangesInOrder, WholeRequestsServed, UNCHANGED <<handled, replies>>, patient' => patient,
         pc \in {"closing", "closed"} => pc' \in {"closing", "closed"},
         pc' = "reading" => Len(replies) = Len(handled),
         pc' = "socket" => Len(replies) = Len(handled) - 1
  PROVE  ExchangesInOrder' /\ WholeRequestsServed'
BY DEF ExchangesInOrder, WholeRequestsServed

(***************************************************************************)
(* What the client has sent, by the numbers of its units.                  *)
(***************************************************************************)
SentUpTo(n) == {AllUnits[q].of : q \in 1 .. n}

(***************************************************************************)
(* They are those in front of what is unsent.                              *)
(***************************************************************************)
LEMMA SentIs ==
  ASSUME NEW k \in 0 .. Len(AllUnits), Len(unsent) = Len(AllUnits) - k, Len(unsent) \in Nat
  PROVE  Sent = SentUpTo(k)
<1>1. AllUnits \in Stream /\ Len(AllUnits) \in Nat
  BY SentAreStreams DEF Stream
<1>2. Len(AllUnits) - Len(unsent) = k
  BY <1>1
<1> DEFINE s == SubSeq(AllUnits, 1, k)
<1>3. DOMAIN s = 1 .. k /\ \A q \in 1 .. k : s[q] = AllUnits[q]
  <2>1. s \in Seq(AnyUnit) /\ Len(s) = k /\ \A q \in 1 .. k : s[q] = AllUnits[q]
    BY <1>1, RestFacts DEF Stream
  <2> HIDE DEF s
  <2> QED BY <2>1
<1> HIDE DEF s
<1>4. ToSet(s) = {AllUnits[q] : q \in 1 .. k}
  BY <1>3 DEF ToSet
<1> QED BY <1>2, <1>4 DEF Sent, s, SentUpTo

(***************************************************************************)
(* A step of setting the router up, or none, leaves the connection alone.  *)
(***************************************************************************)
LEMMA ConnectionKept ==
  ASSUME ConnectionInv, UNCHANGED connection, setup' \in 0 .. MaxSetup
  PROVE  ConnectionInv'
<1>1. Typed'
  BY DEF ConnectionInv, Typed, connection
<1>2. Ahead'
  BY DEF ConnectionInv, Ahead, AheadOf, Serving, connection
<1>3. KeyIsLast' /\ Answered'
  BY DEF ConnectionInv, KeyIsLast, Answered, Current, connection
<1>4. ExchangesInOrder' /\ WholeRequestsServed'
  BY DEF ConnectionInv, ExchangesInOrder, WholeRequestsServed, connection
<1>5. Patience'
  BY DEF ConnectionInv, Patience, Waited, OneMore, Sent, Serving, connection
<1>6. Framed'
  BY DEF ConnectionInv, Framed, Upgraded, connection
<1> QED BY <1>1, <1>2, <1>3, <1>4, <1>5, <1>6 DEF ConnectionInv

(***************************************************************************)
(* At first nothing has been sent.                                         *)
(***************************************************************************)
LEMMA ConnectionAtFirst == Init => ConnectionInv
<1> SUFFICES ASSUME Init PROVE ConnectionInv
  OBVIOUS
<1>0. /\ AllUnits \in Stream /\ Len(AllUnits) \in Nat /\ Len(Frames) \in Nat /\ MaxSetup \in Nat
      /\ <<>> \in Stream
  BY SentAreStreams, ScriptFacts, SetupAssumption DEF Stream
<1>1. Typed
  <2>1. \A S : <<>> \in Seq(S)
    OBVIOUS
  <2>2. <<>> \in Seq(Exchange) /\ <<>> \in Seq(Reply) /\ <<>> \in Seq(DOMAIN Frames)
    BY <2>1, Zenon
  <2>3. 0 \in 0 .. MaxSetup /\ 0 \in 0 .. Len(Frames) /\ "setup" \in Places
    BY <1>0 DEF Places
  <2> QED BY <1>0, <2>2, <2>3 DEF Init, Typed
<1>2. Ahead
  <2>1. <<>> \o (<<>> \o AllUnits) = AllUnits
    BY <1>0, StreamsJoin
  <2>2. Rest(AllUnits, 0) = AllUnits
    BY <1>0, RestFacts DEF Stream
  <2>3. AheadOf(0)
    BY <2>1, <2>2 DEF Init, AheadOf
  <2> QED BY <2>3, <1>0 DEF Ahead
<1>3. KeyIsLast /\ Answered /\ ExchangesInOrder /\ WholeRequestsServed /\ Framed
  BY DEF Init, KeyIsLast, Answered, ExchangesInOrder, WholeRequestsServed, Framed, Upgraded
<1>4. Patience
  <2>1. Len(unsent) = Len(AllUnits) - 0 /\ Len(unsent) \in Nat /\ 0 \in 0 .. Len(AllUnits)
    BY <1>0 DEF Init
  <2>2. Sent = SentUpTo(0)
    BY <2>1, SentIs
  <2>3. Sent = 1 .. Len(replies)
    BY <2>2 DEF SentUpTo, Init
  <2> QED BY <2>3 DEF Patience, Waited, Init
<1> QED BY <1>1, <1>2, <1>3, <1>4 DEF ConnectionInv

(***************************************************************************)
(* Accepting the client, and its leaving, change nothing of this.          *)
(***************************************************************************)
LEMMA AcceptKeeps == ConnectionInv /\ Accept => ConnectionInv'
<1> SUFFICES ASSUME ConnectionInv, Accept PROVE ConnectionInv'
  OBVIOUS
<1>1. Typed'
  BY DEF ConnectionInv, Typed, Accept, Places
<1>2. Ahead'
  BY DEF ConnectionInv, Ahead, AheadOf, Serving, Accept
<1>3. KeyIsLast' /\ Answered'
  BY DEF ConnectionInv, KeyIsLast, Answered, Accept
<1>4. ExchangesInOrder' /\ WholeRequestsServed'
  BY ExchangesKept DEF ConnectionInv, Answered, Accept
<1>5. Patience'
  BY DEF ConnectionInv, Patience, Waited, OneMore, Sent, Serving, Accept
<1>6. Framed'
  BY DEF Framed, Upgraded, Accept
<1> QED BY <1>1, <1>2, <1>3, <1>4, <1>5, <1>6 DEF ConnectionInv

(***************************************************************************)
(* The client closes its side.                                             *)
(***************************************************************************)
LEMMA LeaveKeeps == ConnectionInv /\ Leave => ConnectionInv'
<1> SUFFICES ASSUME ConnectionInv, Leave PROVE ConnectionInv'
  OBVIOUS
<1>1. Typed'
  BY DEF ConnectionInv, Typed, Leave
<1>2. Ahead'
  BY DEF ConnectionInv, Ahead, AheadOf, Serving, Leave
<1>3. KeyIsLast' /\ Answered'
  BY DEF ConnectionInv, KeyIsLast, Answered, Current, Leave
<1>4. ExchangesInOrder' /\ WholeRequestsServed'
  BY DEF ConnectionInv, ExchangesInOrder, WholeRequestsServed, Leave
<1>5. Patience'
  BY DEF ConnectionInv, Patience, Waited, OneMore, Sent, Serving, Leave
<1>6. Framed'
  BY DEF ConnectionInv, Framed, Upgraded, Leave
<1> QED BY <1>1, <1>2, <1>3, <1>4, <1>5, <1>6 DEF ConnectionInv

(***************************************************************************)
(* More of what was sent arrives: a patient client sends one request, when *)
(* everything before it has been answered.                                 *)
(***************************************************************************)
LEMMA ArriveKeeps == ConnectionInv /\ Arrive => ConnectionInv'
<1> SUFFICES ASSUME ConnectionInv, Arrive PROVE ConnectionInv'
  OBVIOUS
<1>0. /\ Typed /\ Ahead /\ KeyIsLast /\ Answered /\ ExchangesInOrder /\ Patience
      /\ WholeRequestsServed /\ Framed
  BY DEF ConnectionInv
<1>1. PICK n \in 1 .. Len(unsent) :
        /\ wire' = wire \o SubSeq(unsent, 1, n)
        /\ unsent' = Rest(unsent, n)
        /\ patient' = (patient /\ (Upgraded \/
                         (Cardinality(Sent) = Len(replies) /\ Len(replies) < Len(Script)
                          /\ SubSeq(unsent, 1, n) = Units(Len(replies) + 1))))
  BY DEF Arrive, Rest
<1>2. /\ pc \notin {"setup", "closed"}
      /\ UNCHANGED <<routerVars, setup, pc, fin, buffer, handled, replies, frames, messages, pongs>>
  BY DEF Arrive
<1>3. wire \in Stream /\ unsent \in Stream /\ buffer \in Stream /\ n \in 0 .. Len(unsent) /\ n \in Nat
  BY <1>0 DEF Typed
<1>4. /\ wire' \in Stream /\ unsent' \in Stream
      /\ wire' \o unsent' = wire \o unsent
  <2>1. <<>> \in Stream
    BY <1>3, StreamsJoin
  <2>2. /\ wire \o SubSeq(unsent, 1, n) \in Stream /\ Rest(unsent, n) \in Stream
        /\ (wire \o SubSeq(unsent, 1, n)) \o (Rest(unsent, n) \o <<>>) = wire \o (unsent \o <<>>)
    BY <2>1, <1>3, MoveOver, ZenonT(60)
  <2>3. Rest(unsent, n) \o <<>> = Rest(unsent, n) /\ unsent \o <<>> = unsent
    BY <2>2, <1>3, StreamsJoin
  <2> QED BY <2>2, <2>3, <1>1
<1>5. Typed'
  BY <1>0, <1>1, <1>2, <1>4 DEF Typed
<1>6. Ahead'
  BY <1>0, <1>2, <1>4 DEF Ahead, AheadOf, Serving
<1>7. KeyIsLast'
  <2>1. unsent # <<>>
    BY <1>1, <1>3
  <2> QED BY <1>0, <1>2, <2>1 DEF KeyIsLast, Current
<1>8. Answered'
  BY <1>0, <1>2 DEF Answered
<1>9. ExchangesInOrder' /\ WholeRequestsServed'
  BY <1>0, <1>1, <1>2 DEF ExchangesInOrder, WholeRequestsServed
<1>10. Patience'
  <2> SUFFICES ASSUME patient', Serving' PROVE Patience'
    BY DEF Patience
  <2>1. /\ pc \in {"reading", "parse", "dispatch"} /\ Serving /\ patient
        /\ Cardinality(Sent) = Len(replies) /\ Len(replies) < Len(Script)
        /\ SubSeq(unsent, 1, n) = Units(Len(replies) + 1)
    BY <1>1, <1>2 DEF Serving, Upgraded
  <2>2. \A k \in Nat : Cardinality(1 .. k) = k
    <3>1. TAKE k \in Nat
    <3> QED BY FS_Interval
  <2>3. Len(replies) \in Nat
    BY <1>0 DEF Typed
  <2>4. Sent # 1 .. Len(replies) + 1
    BY <2>1, <2>2, <2>3
  <2>5. pc = "reading" /\ Waited
    BY <2>1, <2>4, <1>0 DEF Patience, OneMore
  <2>6. Len(replies) + 1 \in DOMAIN Script /\ Len(replies) + 1 \in Nat
    BY <2>1, <2>3, ScriptFacts
  <2>7. buffer \o wire' = Units(Len(replies) + 1)
    <3>1. Units(Len(replies) + 1) \in Stream
      BY <2>6, SentAreStreams
    <3>2. <<>> \o (<<>> \o Units(Len(replies) + 1)) = Units(Len(replies) + 1)
      BY <3>1, StreamsJoin
    <3> QED BY <3>2, <2>1, <2>5, <1>1 DEF Waited
  <2>8. PICK k \in 0 .. Len(AllUnits) : AheadOf(k)
    BY <1>0, <2>1 DEF Ahead
  <2>9. unsent = Rest(AllUnits, k)
    <3>1. <<>> \o (<<>> \o unsent) = unsent
      BY <1>3, StreamsJoin
    <3> QED BY <3>1, <2>5, <2>8 DEF Waited, AheadOf
  <2>10. AllUnits \in Seq(AnyUnit) /\ Len(AllUnits) \in Nat
    BY SentAreStreams DEF Stream
  <2>11. /\ Len(unsent) = Len(AllUnits) - k /\ Len(unsent) \in Nat
         /\ \A i \in 1 .. Len(unsent) : unsent[i] = AllUnits[k + i]
    BY <2>9, <2>10, RestFacts
  <2>12. k + n \in 0 .. Len(AllUnits) /\ Len(unsent') = Len(AllUnits) - (k + n) /\ Len(unsent') \in Nat
    <3>1. Len(unsent') = Len(unsent) - n
      BY <1>1, <1>3, RestFacts DEF Stream
    <3> QED BY <3>1, <2>10, <2>11, <1>3
  <2>13. Sent = SentUpTo(k)
    BY <2>11, SentIs
  <2>14. Sent' = SentUpTo(k + n)
    <3>1. AllUnits \in Stream
      BY SentAreStreams
    <3> DEFINE s == SubSeq(AllUnits, 1, k + n)
    <3>2. DOMAIN s = 1 .. k + n /\ \A q \in 1 .. k + n : s[q] = AllUnits[q]
      <4>1. s \in Seq(AnyUnit) /\ Len(s) = k + n /\ \A q \in 1 .. k + n : s[q] = AllUnits[q]
        BY <2>10, <2>12, RestFacts
      <4> HIDE DEF s
      <4> QED BY <4>1
    <3> HIDE DEF s
    <3>3. ToSet(s) = {AllUnits[q] : q \in 1 .. k + n}
      BY <3>2 DEF ToSet
    <3>4. Len(AllUnits) - Len(unsent') = k + n
      BY <2>10, <2>12
    <3>5. Sent' = {u.of : u \in ToSet(s)}
      BY <3>4 DEF Sent, s
    <3> QED BY <3>3, <3>5 DEF SentUpTo
  <2>15. Len(Units(Len(replies) + 1)) = n
    BY <2>1, <1>3, RestFacts DEF Stream
  <2>16. \A i \in 1 .. n : AllUnits[k + i].of = Len(replies) + 1
    <3>1. \A i \in 1 .. n : Units(Len(replies) + 1)[i].of = Len(replies) + 1
      <4>1. /\ Len(Units(Len(replies) + 1)) = 2 + Script[Len(replies) + 1].body
            /\ Units(Len(replies) + 1)[1] = [of |-> Len(replies) + 1, part |-> "head"]
            /\ Units(Len(replies) + 1)[2] = [of |-> Len(replies) + 1, part |-> "blank"]
            /\ \A j \in 3 .. 2 + Script[Len(replies) + 1].body :
                 Units(Len(replies) + 1)[j] = [of |-> Len(replies) + 1, part |-> "body"]
        BY <2>6, UnitsFacts
      <4>2. \A i \in 1 .. n : i = 1 \/ i = 2 \/ i \in 3 .. n
        BY <1>3
      <4> QED BY <4>1, <4>2, <2>15
    <3>2. \A i \in 1 .. n : SubSeq(unsent, 1, n)[i] = unsent[i]
      BY <1>3, RestFacts DEF Stream
    <3>3. \A i \in 1 .. n : unsent[i] = AllUnits[k + i]
      BY <1>3, <2>11
    <3> QED BY <3>1, <3>2, <3>3, <2>1, ZenonT(60)
  <2>17. SentUpTo(k + n) = SentUpTo(k) \cup {Len(replies) + 1}
    <3>1. n >= 1 /\ k \in Nat
      BY <2>10
    <3>2. \A q \in 1 .. k + n : q \in 1 .. k \/ (q - k \in 1 .. n /\ k + (q - k) = q)
      BY <3>1, <1>3
    <3>3. k + 1 \in 1 .. k + n /\ 1 \in 1 .. n /\ \A q \in 1 .. k : q \in 1 .. k + n
      BY <3>1, <1>3
    <3>4. \A q \in 1 .. k + n :
            AllUnits[q].of \in {AllUnits[r].of : r \in 1 .. k} \cup {Len(replies) + 1}
      <4>1. TAKE q \in 1 .. k + n
      <4>2. CASE q \in 1 .. k
        BY <4>2
      <4>3. CASE q - k \in 1 .. n /\ k + (q - k) = q
        <5>1. AllUnits[k + (q - k)].of = Len(replies) + 1
          BY <4>3, <2>16
        <5> QED BY <4>3, <5>1
      <4> QED BY <4>2, <4>3, <3>2
    <3>5. AllUnits[k + 1].of = Len(replies) + 1
      BY <3>3, <2>16
    <3> QED BY <3>3, <3>4, <3>5 DEF SentUpTo
  <2>18. Sent' = 1 .. Len(replies) + 1
    <3>1. Sent' = (1 .. Len(replies)) \cup {Len(replies) + 1}
      BY <2>13, <2>14, <2>17, <2>5 DEF Waited
    <3> QED BY <3>1, <2>3
  <2>19. OneMore'
    BY <2>1, <2>7, <2>18, <1>2 DEF OneMore
  <2> QED BY <2>5, <2>19, <1>2 DEF Patience
<1>11. Framed'
  BY <1>0, <1>2, <1>4 DEF Framed, Upgraded
<1> QED BY <1>5, <1>6, <1>7, <1>8, <1>9, <1>10, <1>11 DEF ConnectionInv

(***************************************************************************)
(* The first units of a request: with the empty line, its head has come.   *)
(***************************************************************************)
LEMMA BeginsRequest ==
  ASSUME NEW i \in DOMAIN Script, NEW b \in Stream, NEW w \in Stream, b \o w = Units(i)
  PROVE  /\ Len(b) + Len(w) = 2 + Script[i].body /\ Script[i].body \in Nat
         /\ Blanks(b) # {} => HasHead(b) /\ b[1].of = i
<1>1. /\ Len(Units(i)) = 2 + Script[i].body
      /\ Units(i)[1] = [of |-> i, part |-> "head"]
      /\ Units(i)[2] = [of |-> i, part |-> "blank"]
      /\ \A k \in 3 .. 2 + Script[i].body : Units(i)[k] = [of |-> i, part |-> "body"]
  BY UnitsFacts
<1>2. Script[i].body \in Nat
  BY ScriptFacts
<1>3. /\ Len(b \o w) = Len(b) + Len(w) /\ Len(b) \in Nat /\ Len(w) \in Nat
      /\ \A k \in 1 .. Len(b) : (b \o w)[k] = b[k]
  BY StreamsJoin
<1>4. ASSUME Blanks(b) # {}
      PROVE  HasHead(b) /\ b[1].of = i
  <2>1. PICK k \in DOMAIN b : b[k].part = "blank"
    BY <1>4 DEF Blanks
  <2>2. k \in 1 .. Len(b)
    BY DEF Stream
  <2>3. Units(i)[k].part = "blank"
    BY <2>1, <2>2, <1>3
  <2>4. k \in 1 .. 2 + Script[i].body
    BY <2>2, <1>1, <1>2, <1>3
  <2>5. k = 1 \/ k = 2 \/ k \in 3 .. 2 + Script[i].body
    BY <2>4, <1>2
  <2>6. k = 2
    BY <2>3, <2>5, <1>1
  <2>7. b[1] = Units(i)[1] /\ b[2] = Units(i)[2] /\ Len(b) >= 2
    <3>1. 1 \in 1 .. Len(b) /\ 2 \in 1 .. Len(b)
      BY <2>2, <2>6
    <3> QED BY <3>1, <1>3
  <2> QED BY <2>7, <1>1 DEF HasHead
<1> QED BY <1>1, <1>2, <1>3, <1>4

(***************************************************************************)
(* read_request goes on with a chunk: one request of a patient client is   *)
(* enough just when all of it has been read.                               *)
(***************************************************************************)
LEMMA ReadChunkKeeps == ConnectionInv /\ ReadChunk => ConnectionInv'
<1> SUFFICES ASSUME ConnectionInv, ReadChunk PROVE ConnectionInv'
  OBVIOUS
<1>0. /\ Typed /\ Ahead /\ KeyIsLast /\ Answered /\ ExchangesInOrder /\ Patience
      /\ WholeRequestsServed /\ Framed
  BY DEF ConnectionInv
<1>1. /\ pc = "reading" /\ wire # <<>>
      /\ buffer' = buffer \o Taken
      /\ wire' = Rest(wire, Len(Taken))
      /\ pc' = IF Enough(buffer \o Taken) THEN "parse" ELSE "reading"
      /\ UNCHANGED <<routerVars, setup, unsent, fin, handled, replies, frames, messages, pongs,
                     patient>>
  BY DEF ReadChunk
<1>2. wire \in Stream /\ unsent \in Stream /\ buffer \in Stream
  BY <1>0 DEF Typed
<1>3. Len(Taken) \in 0 .. Len(wire) /\ Taken = SubSeq(wire, 1, Len(Taken))
  BY <1>2, ChunkFacts
<1>4. \A z \in Stream : /\ buffer' \in Stream /\ wire' \in Stream
                        /\ buffer' \o (wire' \o z) = buffer \o (wire \o z)
  <2>1. TAKE z \in Stream
  <2> DEFINE n == Len(Taken)
  <2>2. /\ buffer \o SubSeq(wire, 1, n) \in Stream /\ Rest(wire, n) \in Stream
        /\ (buffer \o SubSeq(wire, 1, n)) \o (Rest(wire, n) \o z) = buffer \o (wire \o z)
    <3>1. n \in 0 .. Len(wire)
      BY <1>3
    <3> HIDE DEF n
    <3> QED BY <3>1, <1>2, MoveOver, ZenonT(60)
  <2> QED BY <2>2, <1>1, <1>3
<1>5. /\ buffer' \in Stream /\ wire' \in Stream
      /\ buffer' \o (wire' \o unsent) = buffer \o (wire \o unsent)
      /\ buffer' \o wire' = buffer \o wire
  <2>1. <<>> \in Stream
    BY <1>2, StreamsJoin
  <2>2. /\ buffer' \in Stream /\ wire' \in Stream
        /\ buffer' \o (wire' \o <<>>) = buffer \o (wire \o <<>>)
    BY <2>1, <1>4
  <2>3. wire' \o <<>> = wire' /\ wire \o <<>> = wire
    BY <2>2, <1>2, StreamsJoin
  <2> QED BY <2>2, <2>3, <1>4, <1>2
<1>6. Typed'
  BY <1>0, <1>1, <1>5 DEF Typed, Places
<1>7. Ahead'
  BY <1>0, <1>1, <1>5 DEF Ahead, AheadOf, Serving
<1>8. KeyIsLast' /\ Answered' /\ Framed'
  BY <1>0, <1>1 DEF KeyIsLast, Answered, Framed, Upgraded
<1>9. ExchangesInOrder' /\ WholeRequestsServed'
  BY <1>0, <1>1 DEF ExchangesInOrder, WholeRequestsServed, Answered
<1>10. Patience'
  <2> SUFFICES ASSUME patient', Serving' PROVE Patience'
    BY DEF Patience
  <2>1. Waited \/ OneMore
    BY <1>0, <1>1 DEF Patience, Serving
  <2>2. OneMore
    BY <2>1, <1>1 DEF Waited
  <2>3. OneMore'
    BY <2>2, <1>1, <1>5 DEF OneMore, Sent
  <2>4. ASSUME pc' = "parse"
        PROVE  wire' = <<>>
    <3>1. Enough(buffer')
      BY <1>1, <2>4
    <3> DEFINE i == Len(replies) + 1
    <3>2. i \in DOMAIN Script
      <4>1. Len(replies) \in Nat /\ Len(replies) < Len(Script)
        BY <1>0, <2>2 DEF Typed, OneMore
      <4> QED BY <4>1, ScriptFacts
    <3>3. buffer' \o wire' = Units(i)
      BY <2>2, <1>5 DEF OneMore
    <3> HIDE DEF i
    <3>4. /\ Len(buffer') + Len(wire') = 2 + Script[i].body /\ Script[i].body \in Nat
          /\ Blanks(buffer') # {} => HasHead(buffer') /\ buffer'[1].of = i
      BY <3>2, <3>3, <1>5, BeginsRequest
    <3>5. Len(buffer') >= 2 + Script[i].body
      BY <3>1, <3>4 DEF Enough
    <3>6. Len(buffer') \in Nat /\ Len(wire') \in Nat /\ (Len(wire') = 0 <=> wire' = <<>>)
      BY <1>5, StreamsJoin
    <3>7. Len(wire') = 0
      BY ONLY <3>4, <3>5, <3>6
    <3> QED BY <3>6, <3>7
  <2> QED BY <2>3, <2>4, <1>1 DEF Patience
<1> QED BY <1>6, <1>7, <1>8, <1>9, <1>10 DEF ConnectionInv

(***************************************************************************)
(* read_request stops when nothing more has come, or at the end.           *)
(***************************************************************************)
LEMMA ReadStopsKeeps == ConnectionInv /\ ReadStops => ConnectionInv'
<1> SUFFICES ASSUME ConnectionInv, ReadStops PROVE ConnectionInv'
  OBVIOUS
<1>1. Typed'
  BY DEF ConnectionInv, Typed, ReadStops, Places
<1>2. Ahead'
  BY DEF ConnectionInv, Ahead, AheadOf, Serving, ReadStops
<1>3. KeyIsLast' /\ Answered' /\ Framed'
  BY DEF ConnectionInv, KeyIsLast, Answered, Framed, Upgraded, ReadStops
<1>4. ExchangesInOrder' /\ WholeRequestsServed'
  BY DEF ConnectionInv, ExchangesInOrder, WholeRequestsServed, ReadStops
<1>5. Patience'
  BY DEF ConnectionInv, Patience, Waited, OneMore, Sent, Serving, ReadStops
<1> QED BY <1>1, <1>2, <1>3, <1>4, <1>5 DEF ConnectionInv

(***************************************************************************)
(* The end of the stream, with nothing read, ends the connection.          *)
(***************************************************************************)
LEMMA ReadEndKeeps == ConnectionInv /\ ReadEnd => ConnectionInv'
<1> SUFFICES ASSUME ConnectionInv, ReadEnd PROVE ConnectionInv'
  OBVIOUS
<1>1. Typed'
  BY DEF ConnectionInv, Typed, ReadEnd, Places
<1>2. Ahead' /\ KeyIsLast' /\ Answered' /\ Patience' /\ Framed'
  BY Ended DEF ReadEnd
<1>3. ExchangesInOrder' /\ WholeRequestsServed'
  BY DEF ConnectionInv, ExchangesInOrder, WholeRequestsServed, ReadEnd
<1> QED BY <1>1, <1>2, <1>3 DEF ConnectionInv

(***************************************************************************)
(* A head in front of what has been read is that of a request of the       *)
(* script, later than all that was handled; what is behind it is ahead, and *)
(* nothing is if it asks for an upgrade.                                   *)
(***************************************************************************)
LEMMA HeadIsNext ==
  ASSUME Typed, HasHead(buffer), NEW n \in 0 .. Len(AllUnits), AheadOf(n)
  PROVE  /\ buffer[1].of \in DOMAIN Script /\ Rest(buffer, 2) \in Stream
         /\ \A i \in DOMAIN handled : handled[i].of < buffer[1].of
         /\ n + Len(buffer) \in 0 .. Len(AllUnits)
         /\ wire \o unsent = Rest(AllUnits, n + Len(buffer))
         /\ \A q \in n + Len(buffer) + 1 .. Len(AllUnits) :
              AllUnits[q].part = "head" => buffer[1].of < AllUnits[q].of
         /\ Script[buffer[1].of].key => wire = <<>> /\ unsent = <<>>
<1> DEFINE y == wire \o unsent
           b == Len(buffer)
<1>1. /\ buffer \in Stream /\ wire \in Stream /\ unsent \in Stream /\ b \in Nat /\ b >= 2
      /\ buffer[1].part = "head"
  BY DEF Typed, HasHead, Stream
<1>2. /\ y \in Stream /\ Len(y) = Len(wire) + Len(unsent) /\ Len(wire) \in Nat /\ Len(unsent) \in Nat
      /\ (Len(wire) = 0 <=> wire = <<>>) /\ (Len(unsent) = 0 <=> unsent = <<>>)
  BY <1>1, StreamsJoin
<1>3. AllUnits \in Stream /\ AllUnits \in Seq(AnyUnit) /\ Len(AllUnits) \in Nat
  BY SentAreStreams DEF Stream
<1>4. /\ Rest(AllUnits, n) \in Stream /\ Len(Rest(AllUnits, n)) = Len(AllUnits) - n
      /\ \A i \in 1 .. Len(AllUnits) - n : Rest(AllUnits, n)[i] = AllUnits[n + i]
  BY <1>3, RestFacts DEF Stream
<1>5. buffer \o y = Rest(AllUnits, n)
  BY DEF AheadOf
<1> HIDE DEF y
<1>6. b + Len(y) = Len(AllUnits) - n /\ \A i \in 1 .. b : (buffer \o y)[i] = buffer[i]
  <2>1. Len(buffer \o y) = b + Len(y) /\ \A i \in 1 .. b : (buffer \o y)[i] = buffer[i]
    BY <1>1, <1>2, StreamsJoin
  <2> QED BY <2>1, <1>4, <1>5
<1>7. n + 1 \in 1 .. Len(AllUnits) /\ buffer[1] = AllUnits[n + 1]
  <2>1. 1 \in 1 .. b /\ 1 \in 1 .. Len(AllUnits) - n /\ n + 1 \in 1 .. Len(AllUnits)
    BY <1>1, <1>2, <1>3, <1>6
  <2> QED BY <2>1, <1>4, <1>5, <1>6
<1>8. buffer[1].of \in DOMAIN Script
  <2>1. AllUnits[n + 1] \in RequestUnit
    BY <1>7, AllUnitsFacts
  <2> QED BY <2>1, <1>7 DEF RequestUnit
<1>9. Rest(buffer, 2) \in Stream
  <2>1. 2 \in 0 .. Len(buffer)
    BY <1>1
  <2> QED BY <2>1, <1>1, RestFacts DEF Stream
<1>10. \A i \in DOMAIN handled : handled[i].of < buffer[1].of
  BY <1>1, <1>7 DEF AheadOf
<1>11. n + b \in 0 .. Len(AllUnits)
  BY <1>1, <1>2, <1>3, <1>6
<1>12. y = Rest(AllUnits, n + b)
  <2>1. b \in 0 .. Len(buffer) /\ b \in 0 .. Len(AllUnits) - n
    BY <1>1, <1>2, <1>3, <1>6
  <2>2. Rest(buffer \o y, b) = Rest(buffer, b) \o y
    BY <2>1, <1>1, <1>2, RestOfConcat DEF Stream
  <2>3. Rest(buffer, b) = <<>>
    <3>1. buffer \in Seq(AnyUnit) /\ b \in 0 .. Len(buffer)
      BY <1>1 DEF Stream
    <3> QED BY <3>1, RestFacts
  <2>4. <<>> \o y = y
    BY <1>2, StreamsJoin
  <2>5. Rest(Rest(AllUnits, n), b) = Rest(AllUnits, n + b)
    BY <2>1, <1>3, RestOfRest
  <2> QED BY <2>2, <2>3, <2>4, <2>5, <1>5
<1>13. \A q \in n + b + 1 .. Len(AllUnits) :
         AllUnits[q].part = "head" => buffer[1].of < AllUnits[q].of
  <2>1. TAKE q \in n + b + 1 .. Len(AllUnits)
  <2>2. q \in 1 .. Len(AllUnits) /\ n + 1 < q
    BY <1>1
  <2> QED BY <2>2, <1>7, AllUnitsFacts
<1>14. ASSUME Script[buffer[1].of].key
       PROVE  wire = <<>> /\ unsent = <<>>
  <2>1. buffer[1].of = Len(Script) /\ Script[Len(Script)].body = 0
    BY <1>8, <1>14, ServerAssumption
  <2>2. n + 1 = Len(AllUnits) - 1 - 0
    BY <2>1, <1>1, <1>7, AllUnitsFacts
  <2>3. Len(wire) = 0 /\ Len(unsent) = 0
    BY <2>2, <1>1, <1>2, <1>3, <1>6
  <2> QED BY <2>3, <1>2
<1> QED BY <1>8, <1>9, <1>10, <1>11, <1>12, <1>13, <1>14 DEF y

(***************************************************************************)
(* A request is read: later than those before it, and everything that was  *)
(* behind its head is its body.                                            *)
(***************************************************************************)
LEMMA ParseKeepsIt == ConnectionInv /\ Parse => ConnectionInv'
<1> SUFFICES ASSUME ConnectionInv, Parse PROVE ConnectionInv'
  OBVIOUS
<1> DEFINE new == [of |-> buffer[1].of, body |-> Rest(buffer, 2)]
<1>0. /\ Typed /\ Ahead /\ KeyIsLast /\ Answered /\ ExchangesInOrder /\ Patience
      /\ WholeRequestsServed /\ Framed
  BY DEF ConnectionInv
<1>1. /\ pc = "parse" /\ HasHead(buffer)
      /\ handled' = Append(handled, new)
      /\ buffer' = <<>> /\ pc' = "dispatch"
      /\ UNCHANGED <<routerVars, setup, unsent, wire, fin, replies, frames, messages, pongs, patient>>
  BY DEF Parse
<1>2. PICK n \in 0 .. Len(AllUnits) : AheadOf(n)
  BY <1>0, <1>1 DEF Ahead, Serving
<1>3. /\ buffer[1].of \in DOMAIN Script /\ Rest(buffer, 2) \in Stream
      /\ \A i \in DOMAIN handled : handled[i].of < buffer[1].of
      /\ n + Len(buffer) \in 0 .. Len(AllUnits)
      /\ wire \o unsent = Rest(AllUnits, n + Len(buffer))
      /\ \A q \in n + Len(buffer) + 1 .. Len(AllUnits) :
           AllUnits[q].part = "head" => buffer[1].of < AllUnits[q].of
      /\ Script[buffer[1].of].key => wire = <<>> /\ unsent = <<>>
  BY <1>0, <1>1, <1>2, HeadIsNext
<1>4. new \in Exchange /\ new.of = buffer[1].of
  BY <1>3 DEF Exchange
<1>5. /\ handled \in Seq(Exchange) /\ replies \in Seq(Reply)
      /\ Len(handled) \in Nat /\ Len(replies) = Len(handled)
      /\ buffer \in Stream /\ wire \in Stream /\ unsent \in Stream /\ Len(buffer) \in Nat
  BY <1>0, <1>1 DEF Typed, Answered, Stream
<1> HIDE DEF new
<1>6. /\ handled' \in Seq(Exchange) /\ Len(handled') = Len(handled) + 1
      /\ DOMAIN handled = 1 .. Len(handled) /\ DOMAIN handled' = 1 .. Len(handled) + 1
      /\ \A i \in 1 .. Len(handled) : handled'[i] = handled[i]
      /\ handled'[Len(handled) + 1] = new
  BY <1>1, <1>4, <1>5
<1>7. Typed'
  <2>1. <<>> \in Stream
    BY <1>5, StreamsJoin
  <2> QED BY <2>1, <1>0, <1>1, <1>6 DEF Typed, Places
<1>8. \A i \in DOMAIN handled' : i \in DOMAIN handled \/ i = Len(handled) + 1
  BY <1>5, <1>6
<1>9. Ahead'
  <2>k. PICK k \in Nat : k = n + Len(buffer)
    BY <1>5
  <2>1. <<>> \o (wire \o unsent) = wire \o unsent
    <3>1. wire \o unsent \in Stream
      BY <1>5, StreamsJoin
    <3> QED BY <3>1, StreamsJoin
  <2>2. \A i \in DOMAIN handled', q \in (k + 1) .. Len(AllUnits) :
          AllUnits[q].part = "head" => handled'[i].of < AllUnits[q].of
    <3>1. TAKE i \in DOMAIN handled', q \in (k + 1) .. Len(AllUnits)
    <3>2. q \in (n + 1) .. Len(AllUnits)
      BY <1>5, <2>k
    <3>3. CASE i \in DOMAIN handled
      BY <3>2, <3>3, <1>2, <1>6 DEF AheadOf
    <3>4. CASE i = Len(handled) + 1
      BY <3>4, <1>3, <1>4, <1>6, <2>k
    <3> QED BY <3>3, <3>4, <1>8
  <2>3. buffer' \o (wire' \o unsent') = Rest(AllUnits, k)
    BY <2>1, <2>k, <1>1, <1>3
  <2>4. k \in 0 .. Len(AllUnits)
    BY <1>3, <2>k
  <2>5. AheadOf(k)'
    BY <2>2, <2>3 DEF AheadOf
  <2> QED BY <2>4, <2>5 DEF Ahead
<1>10. KeyIsLast'
  <2>1. Current' = Script[buffer[1].of]
    BY <1>4, <1>6 DEF Current
  <2> QED BY <2>1, <1>1, <1>3 DEF KeyIsLast
<1>11. Answered' /\ Framed'
  BY <1>1, <1>5, <1>6 DEF Answered, Framed, Upgraded
<1>12. ExchangesInOrder'
  <2>1. \A i, j \in DOMAIN handled' : i < j => handled'[i].of < handled'[j].of
    <3>1. TAKE i, j \in DOMAIN handled'
    <3>2. HAVE i < j
    <3>3. i \in DOMAIN handled
      BY <3>2, <1>5, <1>6, SMTT(60)
    <3>4. CASE j \in DOMAIN handled
      BY <3>2, <3>3, <3>4, <1>0, <1>6 DEF ExchangesInOrder
    <3>5. CASE j = Len(handled) + 1
      BY <3>3, <3>5, <1>3, <1>4, <1>6
    <3> QED BY <3>4, <3>5, <1>8
  <2>2. \A i \in DOMAIN replies : ~replies[i].last /\ i \in DOMAIN handled
    <3>1. TAKE i \in DOMAIN replies
    <3>2. i \in DOMAIN handled
      BY <1>5
    <3> QED BY <3>2, <1>0, <1>1 DEF ExchangesInOrder
  <2>3. \A i \in DOMAIN replies : replies[i].to = handled[i].of
    <3>1. TAKE i \in DOMAIN replies
    <3>2. i \in 1 .. Len(handled)
      BY <2>2, <1>6
    <3>3. i # Len(handled) + 1
      BY <3>2, <1>5
    <3> QED BY <3>3, <1>0 DEF ExchangesInOrder
  <2>4. \A i \in DOMAIN replies' : i \in DOMAIN handled' /\ replies'[i].to = handled'[i].of
                                   /\ ~replies'[i].last
    <3>1. TAKE i \in DOMAIN replies'
    <3>2. i \in DOMAIN replies /\ replies' = replies
      BY <1>1
    <3>3. i \in 1 .. Len(handled) /\ ~replies[i].last /\ replies[i].to = handled[i].of
      BY <3>2, <2>2, <2>3, <1>6
    <3> QED BY <3>2, <3>3, <1>5, <1>6
  <2> QED BY <2>1, <2>4, <1>1 DEF ExchangesInOrder
<1>13. ASSUME patient
       PROVE  /\ wire = <<>> /\ Sent = 1 .. Len(replies) + 1
              /\ new = [of |-> Len(replies) + 1, body |-> BodyOf(Len(replies) + 1)]
  <2>1. OneMore /\ wire = <<>>
    BY <1>0, <1>1, <1>13 DEF Patience, Serving
  <2>2. buffer = Units(Len(replies) + 1)
    BY <2>1, <1>5, StreamsJoin DEF OneMore
  <2>3. Len(replies) + 1 \in DOMAIN Script
    <3>1. Len(replies) < Len(Script)
      BY <2>1 DEF OneMore
    <3> QED BY <3>1, <1>5, ScriptFacts
  <2>4. buffer[1].of = Len(replies) + 1
    <3>1. Units(Len(replies) + 1)[1] = [of |-> Len(replies) + 1, part |-> "head"]
      BY <2>3, UnitsFacts
    <3> QED BY <2>2, <3>1
  <2> QED BY <2>1, <2>2, <2>4 DEF OneMore, BodyOf, new
<1>14. Patience'
  BY <1>1, <1>13 DEF Patience, Sent
<1>15. WholeRequestsServed'
  <2> SUFFICES ASSUME patient' PROVE WholeRequestsServed'
    BY DEF WholeRequestsServed
  <2>1. /\ \A i \in DOMAIN replies : replies[i].to # 0
        /\ \A i \in DOMAIN handled : handled[i] = [of |-> i, body |-> BodyOf(i)]
    BY <1>0, <1>1 DEF WholeRequestsServed
  <2>2. new = [of |-> Len(handled) + 1, body |-> BodyOf(Len(handled) + 1)]
    BY <1>1, <1>5, <1>13
  <2>3. \A i \in DOMAIN handled' : handled'[i] = [of |-> i, body |-> BodyOf(i)]
    BY <2>1, <2>2, <1>6, <1>8
  <2> QED BY <2>1, <2>3, <1>1 DEF WholeRequestsServed
<1> QED BY <1>7, <1>9, <1>10, <1>11, <1>12, <1>14, <1>15 DEF ConnectionInv

(***************************************************************************)
(* An answer, of whatever kind, is the last of the answers.                *)
(***************************************************************************)
LEMMA OneMoreReply ==
  ASSUME replies \in Seq(Reply), NEW r \in Reply, replies' = Append(replies, r)
  PROVE  /\ replies' \in Seq(Reply) /\ Len(replies) \in Nat /\ Len(replies') = Len(replies) + 1
         /\ DOMAIN replies = 1 .. Len(replies) /\ DOMAIN replies' = 1 .. Len(replies) + 1
         /\ \A i \in DOMAIN replies : replies'[i] = replies[i]
         /\ replies'[Len(replies) + 1] = r
         /\ \A i \in DOMAIN replies' : i \in DOMAIN replies \/ i = Len(replies) + 1
OBVIOUS

(***************************************************************************)
(* What is no request is refused, which ends the connection; a patient     *)
(* client's requests never are.                                            *)
(***************************************************************************)
LEMMA RefuseKeeps == ConnectionInv /\ Refuse => ConnectionInv'
<1> SUFFICES ASSUME ConnectionInv, Refuse PROVE ConnectionInv'
  OBVIOUS
<1> DEFINE r == [to |-> 0, by |-> "400", last |-> TRUE]
<1>0. /\ Typed /\ Answered /\ ExchangesInOrder /\ Patience /\ WholeRequestsServed
  BY DEF ConnectionInv
<1>1. /\ pc = "parse" /\ ~HasHead(buffer)
      /\ replies' = Append(replies, r)
      /\ buffer' = <<>> /\ pc' = "closing"
      /\ UNCHANGED <<routerVars, setup, unsent, wire, fin, handled, frames, messages, pongs, patient>>
  BY DEF Refuse
<1>2. r \in Reply /\ r.to = 0 /\ r.last
  BY ScriptFacts DEF Reply, Answerers
<1>3. /\ replies \in Seq(Reply) /\ Len(replies) = Len(handled) /\ Len(handled) \in Nat
      /\ DOMAIN handled = 1 .. Len(handled)
      /\ buffer \in Stream
  BY <1>0, <1>1 DEF Typed, Answered
<1> HIDE DEF r
<1>4. /\ replies' \in Seq(Reply) /\ Len(replies) \in Nat /\ Len(replies') = Len(replies) + 1
      /\ DOMAIN replies = 1 .. Len(replies) /\ DOMAIN replies' = 1 .. Len(replies) + 1
      /\ \A i \in DOMAIN replies : replies'[i] = replies[i]
      /\ replies'[Len(replies) + 1] = r
      /\ \A i \in DOMAIN replies' : i \in DOMAIN replies \/ i = Len(replies) + 1
  BY <1>1, <1>2, <1>3, OneMoreReply
<1>5. Typed'
  <2>1. <<>> \in Stream
    BY <1>3, StreamsJoin
  <2> QED BY <2>1, <1>0, <1>1, <1>4 DEF Typed, Places
<1>6. Ahead' /\ KeyIsLast' /\ Answered' /\ Patience' /\ Framed'
  BY <1>1, Ended
<1>7. ExchangesInOrder'
  <2>1. \A i \in DOMAIN replies : i # Len(handled) + 1 /\ i \in DOMAIN handled /\ ~replies[i].last
    BY <1>0, <1>1, <1>3, <1>4 DEF ExchangesInOrder
  <2>2. \A i \in DOMAIN replies : replies[i].to = handled[i].of
    BY <2>1, <1>0 DEF ExchangesInOrder
  <2>3. \A i \in DOMAIN replies' :
          /\ \/ i \in DOMAIN handled' /\ replies'[i].to = handled'[i].of
             \/ i = Len(handled') + 1 /\ replies'[i].to = 0
          /\ replies'[i].last => i = Len(replies') /\ i >= Len(handled')
    BY <2>1, <2>2, <1>1, <1>2, <1>3, <1>4
  <2>4. \A i, j \in DOMAIN handled' : i < j => handled'[i].of < handled'[j].of
    BY <1>0, <1>1 DEF ExchangesInOrder
  <2> QED BY <2>3, <2>4, <1>1 DEF ExchangesInOrder
<1>8. WholeRequestsServed'
  <2> SUFFICES ASSUME patient' PROVE FALSE
    BY DEF WholeRequestsServed
  <2>1. OneMore /\ wire = <<>>
    BY <1>0, <1>1 DEF Patience, Serving
  <2>2. buffer = Units(Len(replies) + 1)
    BY <2>1, <1>3, StreamsJoin DEF OneMore
  <2>3. Len(replies) + 1 \in DOMAIN Script
    <3>1. Len(replies) < Len(Script)
      BY <2>1 DEF OneMore
    <3> QED BY <3>1, <1>4, ScriptFacts
  <2>4. /\ Len(Units(Len(replies) + 1)) = 2 + Script[Len(replies) + 1].body
        /\ Units(Len(replies) + 1)[1] = [of |-> Len(replies) + 1, part |-> "head"]
        /\ Units(Len(replies) + 1)[2] = [of |-> Len(replies) + 1, part |-> "blank"]
        /\ Script[Len(replies) + 1].body \in Nat
    BY <2>3, UnitsFacts, ScriptFacts
  <2> QED BY <2>2, <2>4, <1>1 DEF HasHead
<1> QED BY <1>5, <1>6, <1>7, <1>8 DEF ConnectionInv

(***************************************************************************)
(* The request that was read last is answered; whether it was a middleware, *)
(* a handler or the server that did, it is one of those there are.         *)
(***************************************************************************)
LEMMA AnswerKeeps == RouterInv /\ ConnectionInv /\ Answer => ConnectionInv'
<1> SUFFICES ASSUME RouterInv, ConnectionInv, Answer PROVE ConnectionInv'
  OBVIOUS
<1>0. /\ Typed /\ Answered /\ Ahead /\ ExchangesInOrder /\ Patience /\ WholeRequestsServed
  BY DEF ConnectionInv
<1>1. PICK out \in Outcomes, closes \in BOOLEAN :
        /\ replies' = Append(replies, [to |-> handled[Len(handled)].of, by |-> out.by,
                                       last |-> closes \/ Current.close])
        /\ pc' = IF closes \/ Current.close THEN "closing" ELSE "reading"
  BY DEF Answer
<1>2. /\ pc = "dispatch"
      /\ UNCHANGED <<routerVars, setup, unsent, wire, fin, buffer, handled, frames, messages,
                     pongs, patient>>
  BY DEF Answer
<1> DEFINE r == [to |-> handled[Len(handled)].of, by |-> out.by, last |-> closes \/ Current.close]
<1>3. /\ replies \in Seq(Reply) /\ Len(replies) \in Nat /\ Len(handled) = Len(replies) + 1
      /\ handled \in Seq(Exchange) /\ DOMAIN handled = 1 .. Len(handled)
      /\ buffer = <<>>
  BY <1>0, <1>2 DEF Typed, Answered
<1>4. handled[Len(handled)].of \in 1 .. Len(Script)
  <2>1. handled[Len(handled)] \in Exchange
    BY <1>3
  <2> QED BY <2>1, ScriptFacts DEF Exchange
<1>5. out.by \in Answerers
  <2>1. PICK answering \in SUBSET Middlewares :
          out \in Dispatch(Current.method, Current.path, answering)
    BY DEF Outcomes
  <2> QED BY <2>1, DispatchIsDeclared
<1>6. Current.close \in BOOLEAN
  <2> DEFINE R == [method : STRING, path : Seq(STRING), body : Nat, close : BOOLEAN, key : BOOLEAN]
  <2>1. \A s \in R : s.close \in BOOLEAN
    OBVIOUS
  <2>2. Script \in Seq(R)
    BY ServerAssumption
  <2> HIDE DEF R
  <2>3. Script[handled[Len(handled)].of] \in R
    BY <2>2, <1>4
  <2> QED BY <2>1, <2>3 DEF Current
<1>7. /\ r \in Reply /\ r.to = handled[Len(handled)].of /\ r.to # 0
      /\ r.last => pc' = "closing"
      /\ pc' \in {"reading", "closing"}
  <2>1. (closes \/ Current.close) \in BOOLEAN
    BY <1>6
  <2>2. r.to \in 0 .. Len(Script)
    BY <1>4, ScriptFacts
  <2> QED BY <2>1, <2>2, <1>1, <1>4, <1>5 DEF Reply
<1>8. replies' = Append(replies, r)
  BY <1>1
<1> HIDE DEF r
<1>9. /\ replies' \in Seq(Reply) /\ Len(replies') = Len(replies) + 1
      /\ DOMAIN replies = 1 .. Len(replies) /\ DOMAIN replies' = 1 .. Len(replies) + 1
      /\ \A i \in DOMAIN replies : replies'[i] = replies[i]
      /\ replies'[Len(replies) + 1] = r
      /\ \A i \in DOMAIN replies' : i \in DOMAIN replies \/ i = Len(replies) + 1
  BY <1>3, <1>7, <1>8, OneMoreReply
<1>10. Typed'
  BY <1>0, <1>2, <1>3, <1>7, <1>9 DEF Typed, Places
<1>11. Ahead'
  BY <1>0, <1>2, SMTT(60) DEF Ahead, AheadOf, Serving
<1>12. KeyIsLast' /\ Answered' /\ Framed'
  BY <1>2, <1>3, <1>7, <1>9 DEF KeyIsLast, Answered, Framed, Upgraded
<1>13. ExchangesInOrder'
  <2>1. \A i \in DOMAIN replies : i # Len(handled) + 1 /\ i \in DOMAIN handled /\ ~replies[i].last
    BY <1>0, <1>2, <1>3, <1>9 DEF ExchangesInOrder
  <2>2. \A i \in DOMAIN replies : replies[i].to = handled[i].of
    BY <2>1, <1>0 DEF ExchangesInOrder
  <2>3. \A i \in DOMAIN replies' :
          /\ i \in DOMAIN handled' /\ replies'[i].to = handled'[i].of
          /\ replies'[i].last => i = Len(replies') /\ i >= Len(handled') /\ pc' = "closing"
    <3>1. TAKE i \in DOMAIN replies'
    <3>2. CASE i \in DOMAIN replies
      BY <2>1, <2>2, <3>2, <1>2, <1>9
    <3>3. CASE i = Len(replies) + 1
      <4>1. handled' = handled /\ i \in DOMAIN handled /\ i = Len(handled) /\ i = Len(replies')
        BY <3>3, <1>2, <1>3, <1>9
      <4>2. i >= Len(handled')
        BY <4>1, <1>3
      <4> QED BY <4>1, <4>2, <3>3, <1>7, <1>9
    <3> QED BY <3>2, <3>3, <1>9
  <2>4. \A i, j \in DOMAIN handled' : i < j => handled'[i].of < handled'[j].of
    BY <1>0, <1>2 DEF ExchangesInOrder
  <2> QED BY <2>3, <2>4, <1>2, <1>3, <1>7, <1>9 DEF ExchangesInOrder
<1>14. Patience'
  BY <1>0, <1>2, <1>3, <1>7, <1>9 DEF Patience, Waited, Sent, Serving
<1>15. WholeRequestsServed'
  BY <1>0, <1>2, <1>7, <1>9 DEF WholeRequestsServed
<1> QED BY <1>10, <1>11, <1>12, <1>13, <1>14, <1>15 DEF ConnectionInv

(***************************************************************************)
(* The connection is upgraded: the client sends all its frames.            *)
(***************************************************************************)
LEMMA UpgradeKeeps == ConnectionInv /\ Upgrade => ConnectionInv'
<1> SUFFICES ASSUME ConnectionInv, Upgrade PROVE ConnectionInv'
  OBVIOUS
<1>0. /\ Typed /\ Answered /\ KeyIsLast /\ ExchangesInOrder /\ WholeRequestsServed
  BY DEF ConnectionInv
<1>1. /\ pc = "dispatch" /\ Current.key /\ pc' = "socket"
      /\ UNCHANGED <<routerVars, setup, wire, fin, buffer, handled, replies, frames, messages,
                     pongs, patient>>
      /\ unsent' = IF unsent = <<>> THEN AllFrames ELSE unsent
  BY DEF Upgrade
<1>2. wire = <<>> /\ unsent' = AllFrames
  BY <1>0, <1>1 DEF KeyIsLast
<1>3. AllFrames \in Stream /\ <<>> \in Stream /\ Len(Frames) \in Nat
  BY SentAreStreams, StreamsJoin, ScriptFacts
<1>4. Typed'
  BY <1>0, <1>1, <1>2, <1>3 DEF Typed, Places
<1>5. Ahead' /\ KeyIsLast' /\ Patience'
  BY <1>1 DEF Ahead, KeyIsLast, Patience, Serving
<1>6. Answered'
  BY <1>0, <1>1 DEF Answered
<1>7. ExchangesInOrder' /\ WholeRequestsServed'
  <2>1. Len(replies) = Len(handled) - 1
    BY <1>0, <1>1 DEF Answered, Typed
  <2> QED BY <2>1, <1>0, <1>1, ExchangesKept
<1>8. Framed'
  <2>1. messages = <<>> /\ pongs = 0 /\ frames = <<>>
    BY <1>0, <1>1 DEF Typed
  <2>2. <<>> \o (<<>> \o AllFrames) = AllFrames /\ <<>> \o AllFrames \in Stream
    BY <1>3, StreamsJoin
  <2>3. Rest(AllFrames, 2 * 0) = AllFrames
    <3>1. AllFrames \in Seq(AnyUnit) /\ 0 \in 0 .. Len(AllFrames) /\ 2 * 0 = 0
      BY <1>3 DEF Stream
    <3> QED BY <3>1, RestFacts
  <2>4. MessagesIn(AllFrames) \in Seq(DOMAIN Frames)
    BY <1>3, MessagesInConcat
  <2>5. <<>> \o MessagesIn(AllFrames) = MessagesIn(AllFrames) /\ <<>> \in Seq(DOMAIN Frames)
    BY <2>4, ConcatEmptySeq
  <2>6. StreamAt(0, <<>>, <<>>, <<>> \o AllFrames)
    BY <2>2, <2>3, <2>5, <1>3 DEF StreamAt
  <2>7. StreamAt(0, messages', frames', wire' \o unsent')
    BY <2>1, <2>6, <1>1, <1>2
  <2>8. 0 \in 0 .. Len(Frames) /\ pongs' <= 0
    BY <2>1, <1>1, <1>3
  <2> QED BY <2>7, <2>8 DEF Framed
<1> QED BY <1>4, <1>5, <1>6, <1>7, <1>8 DEF ConnectionInv

(***************************************************************************)
(* The connection is closed.                                               *)
(***************************************************************************)
LEMMA CloseKeeps == ConnectionInv /\ Close => ConnectionInv'
<1> SUFFICES ASSUME ConnectionInv, Close PROVE ConnectionInv'
  OBVIOUS
<1>1. Typed'
  <2>1. <<>> \in Stream
    BY DEF Stream
  <2> QED BY <2>1 DEF ConnectionInv, Typed, Close, Places
<1>2. Ahead' /\ KeyIsLast' /\ Answered' /\ Patience' /\ Framed'
  BY Ended DEF Close
<1>3. ExchangesInOrder' /\ WholeRequestsServed'
  BY ExchangesKept DEF ConnectionInv, Close
<1> QED BY <1>1, <1>2, <1>3 DEF ConnectionInv

(***************************************************************************)
(* ws.read: steps of an upgraded connection leave the exchanges alone.     *)
(***************************************************************************)
LEMMA SocketKeeps ==
  ASSUME ConnectionInv, pc = "socket", pc' \in {"socket", "closed"},
         UNCHANGED <<setup, unsent, fin, buffer, handled, replies, patient>>,
         wire' \in Stream, frames' \in Stream, messages' \in Seq(DOMAIN Frames),
         pongs' \in 0 .. Len(Frames), pc' = "closed" => frames' = <<>>,
         Framed'
  PROVE  ConnectionInv'
<1>1. Typed'
  BY DEF ConnectionInv, Typed, Places
<1>2. Ahead' /\ KeyIsLast' /\ Patience'
  BY DEF Ahead, KeyIsLast, Patience, Serving
<1>3. Answered'
  BY DEF ConnectionInv, Answered
<1>4. ExchangesInOrder' /\ WholeRequestsServed'
  BY DEF ConnectionInv, ExchangesInOrder, WholeRequestsServed
<1> QED BY <1>1, <1>2, <1>3, <1>4 DEF ConnectionInv

(***************************************************************************)
(* A whole frame at the front of the buffer is taken out of it, with the   *)
(* message it brings if it brings one.                                     *)
(***************************************************************************)
LEMMA FirstFrame ==
  ASSUME NEW k \in 0 .. Len(Frames), NEW msgs, NEW x, NEW y,
         StreamAt(k, msgs, x, y), Complete(x)
  PROVE  /\ k + 1 \in 0 .. Len(Frames)
         /\ IsMessage(x) => StreamAt(k + 1, Append(msgs, x[1].of), Rest(x, 2), y)
         /\ ~IsMessage(x) => StreamAt(k + 1, msgs, Rest(x, 2), y)
<1>1. /\ k + 1 \in 0 .. Len(Frames) /\ k + 1 \in DOMAIN Frames
      /\ x[1].of = k + 1
      /\ StreamAt(k + 1, msgs \o Brings(k + 1), Rest(x, 2), y)
  BY TakeFrame DEF Complete
<1>2. msgs \in Seq(DOMAIN Frames)
  BY DEF StreamAt
<1>3. ASSUME IsMessage(x)
      PROVE  msgs \o Brings(k + 1) = Append(msgs, x[1].of)
  <2>1. Brings(k + 1) = <<x[1].of>>
    BY <1>1, <1>3 DEF Brings, IsMessage, KindOf
  <2>2. x[1].of \in DOMAIN Frames
    BY <1>1
  <2>3. \A d \in DOMAIN Frames : msgs \o <<d>> = Append(msgs, d)
    BY <1>2
  <2> QED BY <2>1, <2>2, <2>3
<1>4. ASSUME ~IsMessage(x)
      PROVE  msgs \o Brings(k + 1) = msgs
  <2>1. Brings(k + 1) = <<>>
    BY <1>1, <1>4 DEF Brings, IsMessage, KindOf
  <2> QED BY <2>1, <1>2, ConcatEmptySeq
<1> QED BY <1>1, <1>3, <1>4

(***************************************************************************)
(* The buffer has a whole message.                                         *)
(***************************************************************************)
LEMMA ReadMessageKeeps == ConnectionInv /\ ReadMessage => ConnectionInv'
<1> SUFFICES ASSUME ConnectionInv, ReadMessage PROVE ConnectionInv'
  OBVIOUS
<1>1. /\ pc = "socket" /\ IsMessage(frames)
      /\ messages' = Append(messages, frames[1].of) /\ frames' = Rest(frames, 2)
      /\ UNCHANGED <<routerVars, setup, pc, unsent, wire, fin, buffer, handled, replies, pongs,
                     patient>>
  BY DEF ReadMessage
<1>2. PICK k \in 0 .. Len(Frames) : pongs <= k /\ StreamAt(k, messages, frames, wire \o unsent)
  BY <1>1 DEF ConnectionInv, Framed, Upgraded
<1>3. /\ k + 1 \in 0 .. Len(Frames)
      /\ StreamAt(k + 1, messages', frames', wire \o unsent)
  BY <1>1, <1>2, FirstFrame DEF IsMessage
<1>4. Framed'
  <2>1. pongs' <= k + 1 /\ wire' \o unsent' = wire \o unsent
    BY <1>1, <1>2 DEF ConnectionInv, Typed
  <2> QED BY <1>3, <2>1 DEF Framed
<1>5. frames' \in Stream /\ messages' \in Seq(DOMAIN Frames)
  BY <1>3 DEF StreamAt
<1>6. wire' \in Stream /\ pongs' \in 0 .. Len(Frames)
  BY <1>1 DEF ConnectionInv, Typed
<1> QED BY <1>1, <1>4, <1>5, <1>6, SocketKeeps

(***************************************************************************)
(* The buffer has a whole frame to close.                                  *)
(***************************************************************************)
LEMMA ReadCloseKeeps == ConnectionInv /\ ReadClose => ConnectionInv'
<1> SUFFICES ASSUME ConnectionInv, ReadClose PROVE ConnectionInv'
  OBVIOUS
<1>1. /\ pc = "socket" /\ pc' = "closed" /\ frames' = <<>>
      /\ UNCHANGED <<routerVars, setup, unsent, wire, fin, buffer, handled, replies, messages,
                     pongs, patient>>
  BY DEF ReadClose
<1>2. Framed'
  BY <1>1, Ended
<1>3. /\ wire' \in Stream /\ frames' \in Stream /\ messages' \in Seq(DOMAIN Frames)
      /\ pongs' \in 0 .. Len(Frames)
  <2>1. <<>> \in Stream
    BY DEF Stream
  <2> QED BY <2>1, <1>1 DEF ConnectionInv, Typed
<1> QED BY <1>1, <1>2, <1>3, SocketKeeps

(***************************************************************************)
(* A ping at the front of the buffer is taken out of it and answered.      *)
(***************************************************************************)
LEMMA PingTaken ==
  ASSUME ConnectionInv, ReadsOn
  PROVE  \E k \in 0 .. Len(Frames) :
           Pongs \in 0 .. k /\ StreamAt(k, messages, Kept, wire \o unsent)
<1>1. pc = "socket" /\ ~IsMessage(frames)
  BY DEF ReadsOn
<1>2. PICK k \in 0 .. Len(Frames) : pongs <= k /\ StreamAt(k, messages, frames, wire \o unsent)
  BY <1>1 DEF ConnectionInv, Framed, Upgraded
<1>3. pongs \in Nat /\ Len(Frames) \in Nat
  BY ScriptFacts DEF ConnectionInv, Typed
<1>4. CASE Complete(frames)
  <2>1. /\ k + 1 \in 0 .. Len(Frames)
        /\ StreamAt(k + 1, messages, Rest(frames, 2), wire \o unsent)
    BY <1>1, <1>2, <1>4, FirstFrame
  <2>2. Kept = Rest(frames, 2) /\ Pongs = pongs + 1
    BY <1>4 DEF Kept, Pongs
  <2>3. Pongs \in 0 .. k + 1
    BY <2>2, <1>2, <1>3
  <2> QED BY <2>1, <2>2, <2>3
<1>5. CASE ~Complete(frames)
  <2>1. Kept = frames /\ Pongs = pongs
    BY <1>3, <1>5 DEF Kept, Pongs
  <2>2. Pongs \in 0 .. k
    BY <2>1, <1>2, <1>3
  <2> QED BY <2>1, <2>2, <1>2
<1> QED BY <1>4, <1>5

(***************************************************************************)
(* One chunk is read and one frame taken out of the buffer.                *)
(***************************************************************************)
LEMMA ReadFrameKeeps == ConnectionInv /\ ReadFrame => ConnectionInv'
<1> SUFFICES ASSUME ConnectionInv, ReadFrame PROVE ConnectionInv'
  OBVIOUS
<1> DEFINE got == Kept \o Taken
<1>1. /\ ReadsOn /\ pc = "socket"
      /\ wire' = Rest(wire, Len(Taken))
      /\ pongs' = Pongs
      /\ messages' = IF IsMessage(got) THEN Append(messages, got[1].of) ELSE messages
      /\ frames' = IF Complete(got) /\ ~IsClose(got) THEN Rest(got, 2)
                   ELSE IF IsClose(got) THEN <<>> ELSE got
      /\ pc' = IF IsClose(got) THEN "closed" ELSE pc
      /\ UNCHANGED <<routerVars, setup, unsent, fin, buffer, handled, replies, patient>>
  BY DEF ReadFrame, ReadsOn
<1>2. PICK k \in 0 .. Len(Frames) : Pongs \in 0 .. k /\ StreamAt(k, messages, Kept, wire \o unsent)
  BY <1>1, PingTaken
<1>3. wire \in Stream /\ unsent \in Stream
  BY DEF ConnectionInv, Typed
<1>4. Len(Taken) \in 0 .. Len(wire) /\ Taken = SubSeq(wire, 1, Len(Taken))
  BY <1>3, ChunkFacts
<1>5. wire' \in Stream
  BY <1>1, <1>3, <1>4, RestFacts DEF Stream
<1>6. StreamAt(k, messages, got, wire' \o unsent)
  <2>1. StreamAt(k, messages, Kept \o SubSeq(wire, 1, Len(Taken)), Rest(wire, Len(Taken)) \o unsent)
    BY <1>2, <1>3, <1>4, ReadInto
  <2> QED BY <2>1, <1>1, <1>4
<1>7. Pongs \in 0 .. Len(Frames) /\ k \in Nat
  BY <1>2, ScriptFacts
<1> HIDE DEF got
<1>8. CASE IsClose(got)
  <2>1. frames' = <<>> /\ pc' = "closed" /\ messages' = messages
    BY <1>1, <1>8 DEF IsMessage, IsClose
  <2>2. Framed'
    BY <2>1, Ended
  <2>3. <<>> \in Stream /\ messages \in Seq(DOMAIN Frames)
    BY DEF ConnectionInv, Typed, Stream
  <2> QED BY <2>1, <2>2, <2>3, <1>1, <1>5, <1>7, SocketKeeps
<1>9. CASE ~IsClose(got) /\ Complete(got)
  <2>1. /\ k + 1 \in 0 .. Len(Frames)
        /\ StreamAt(k + 1, messages', frames', wire' \o unsent)
    BY <1>1, <1>6, <1>9, FirstFrame
  <2>2. pc' = "socket" /\ pongs' <= k + 1
    BY <1>1, <1>2, <1>7, <1>9
  <2>3. Framed'
    BY <2>1, <2>2, <1>1 DEF Framed
  <2>4. frames' \in Stream /\ messages' \in Seq(DOMAIN Frames)
    BY <2>1 DEF StreamAt
  <2> QED BY <2>2, <2>3, <2>4, <1>1, <1>5, <1>7, SocketKeeps
<1>10. CASE ~IsClose(got) /\ ~Complete(got)
  <2>1. messages' = messages /\ frames' = got /\ pc' = "socket" /\ pongs' <= k
    BY <1>1, <1>2, <1>7, <1>10 DEF IsMessage
  <2>2. Framed'
    BY <2>1, <1>1, <1>2, <1>6 DEF Framed
  <2>3. frames' \in Stream /\ messages' \in Seq(DOMAIN Frames)
    BY <2>1, <1>6 DEF StreamAt
  <2> QED BY <2>1, <2>2, <2>3, <1>1, <1>5, <1>7, SocketKeeps
<1> QED BY <1>8, <1>9, <1>10

(***************************************************************************)
(* Nothing to read: the buffer stays, or goes with the connection.         *)
(***************************************************************************)
LEMMA ReadNothingKeepsIt == ConnectionInv /\ ReadNothing => ConnectionInv'
<1> SUFFICES ASSUME ConnectionInv, ReadNothing PROVE ConnectionInv'
  OBVIOUS
<1>1. /\ ReadsOn /\ pc = "socket"
      /\ pongs' = Pongs
      /\ frames' = IF fin THEN <<>> ELSE Kept
      /\ pc' = IF fin THEN "closed" ELSE pc
      /\ UNCHANGED <<routerVars, setup, unsent, wire, fin, buffer, handled, replies, messages,
                     patient>>
  BY DEF ReadNothing, ReadsOn
<1>2. PICK k \in 0 .. Len(Frames) : Pongs \in 0 .. k /\ StreamAt(k, messages, Kept, wire \o unsent)
  BY <1>1, PingTaken
<1>3. /\ Pongs \in 0 .. Len(Frames) /\ k \in Nat
      /\ wire' \in Stream /\ messages' \in Seq(DOMAIN Frames)
  BY <1>1, <1>2, ScriptFacts DEF ConnectionInv, Typed
<1>4. frames' \in Stream
  <2>1. <<>> \in Stream /\ Kept \in Stream
    BY <1>2 DEF Stream, StreamAt
  <2> QED BY <2>1, <1>1
<1>5. CASE fin
  <2>1. Framed'
    BY <1>1, <1>5, Ended
  <2> QED BY <2>1, <1>1, <1>3, <1>4, <1>5, SocketKeeps
<1>6. CASE ~fin
  <2>1. Framed'
    <3>1. pongs' <= k /\ StreamAt(k, messages', frames', wire' \o unsent')
      BY <1>1, <1>2, <1>3, <1>6
    <3> QED BY <3>1 DEF Framed
  <2> QED BY <2>1, <1>1, <1>3, <1>4, <1>6, SocketKeeps
<1> QED BY <1>5, <1>6

-----------------------------------------------------------------------------
(***************************************************************************)
(* Every step keeps both invariants.                                       *)
(***************************************************************************)
LEMMA StepKeeps == IInv /\ [Next]_vars => IInv'
<1> SUFFICES ASSUME IInv, [Next]_vars PROVE IInv'
  OBVIOUS
<1>0. RouterInv /\ ConnectionInv /\ setup \in 0 .. MaxSetup
  BY DEF IInv, ConnectionInv, Typed
<1>1. CASE SetUp
  <2>1. UNCHANGED connection /\ setup' \in 0 .. MaxSetup
    BY <1>0, <1>1, SetupAssumption DEF SetUp
  <2> QED BY <2>1, <1>0, <1>1, SetUpKeeps, ConnectionKept DEF IInv
<1>2. CASE UNCHANGED vars
  BY <1>0, <1>2, RouterKept, ConnectionKept DEF IInv, vars
<1>3. CASE Accept
  BY <1>0, <1>3, RouterKept, AcceptKeeps DEF IInv, Accept
<1>4. CASE Arrive
  <2>1. UNCHANGED routerVars
    BY <1>4 DEF Arrive
  <2> QED BY <2>1, <1>0, <1>4, RouterKept, ArriveKeeps DEF IInv
<1>5. CASE Leave
  BY <1>0, <1>5, RouterKept, LeaveKeeps DEF IInv, Leave
<1>6. CASE ReadRequest
  <2>1. UNCHANGED routerVars
    BY <1>6 DEF ReadRequest, ReadChunk, ReadStops, ReadEnd
  <2>2. ConnectionInv'
    BY <1>0, <1>6, ReadChunkKeeps, ReadStopsKeeps, ReadEndKeeps DEF ReadRequest
  <2> QED BY <2>1, <2>2, <1>0, RouterKept DEF IInv
<1>7. CASE Serve
  <2>1. UNCHANGED routerVars
    BY <1>7 DEF Serve, Parse, Refuse, Answer, Upgrade, Close
  <2>2. ConnectionInv'
    BY <1>0, <1>7, ParseKeepsIt, RefuseKeeps, AnswerKeeps, UpgradeKeeps, CloseKeeps DEF Serve
  <2> QED BY <2>1, <2>2, <1>0, RouterKept DEF IInv
<1>8. CASE ReadSocket
  <2>1. UNCHANGED routerVars
    BY <1>8 DEF ReadSocket, ReadMessage, ReadClose, ReadFrame, ReadNothing
  <2>2. ConnectionInv'
    BY <1>0, <1>8, ReadMessageKeeps, ReadCloseKeeps, ReadFrameKeeps, ReadNothingKeepsIt
       DEF ReadSocket
  <2> QED BY <2>1, <2>2, <1>0, RouterKept DEF IInv
<1> QED BY <1>1, <1>2, <1>3, <1>4, <1>5, <1>6, <1>7, <1>8 DEF Next

(***************************************************************************)
(* The router and the connection are always as the invariants say.         *)
(***************************************************************************)
THEOREM Invariant == Spec => []IInv
<1>1. Init => IInv
  BY RouterAtFirst, ConnectionAtFirst DEF Init, IInv
<1> QED BY <1>1, StepKeeps, PTL DEF Spec

(***************************************************************************)
(* Nothing read for one request is left when the next is read, and nothing *)
(* of the frames of a connection when it is closed; what was handled is of *)
(* the client's script.                                                    *)
(***************************************************************************)
THEOREM TypesHold == Spec => []TypeOK
<1>1. IInv => TypeOK
  <2> SUFFICES ASSUME IInv PROVE TypeOK
    OBVIOUS
  <2>1. Typed
    BY DEF IInv, ConnectionInv
  <2>2. \A i \in DOMAIN handled : handled[i].of \in DOMAIN Script
    <3>1. \A e \in Exchange : e.of \in DOMAIN Script
      BY DEF Exchange
    <3>2. \A i \in DOMAIN handled : handled[i] \in Exchange
      BY <2>1 DEF Typed
    <3> QED BY <3>1, <3>2
  <2>3. \A i \in DOMAIN messages : messages[i] \in DOMAIN Frames
    BY <2>1 DEF Typed
  <2> QED BY <2>1, <2>2, <2>3 DEF Typed, TypeOK, Places
<1> QED BY <1>1, Invariant, PTL

(***************************************************************************)
(* Whatever steps a router was set up with, every request is answered by   *)
(* what was declared for it, behind the middlewares in scope of that.      *)
(***************************************************************************)
THEOREM RequestsFind == Spec => []RequestsFindTheirHandlers
<1>1. IInv => RequestsFindTheirHandlers
  BY DispatchIsDeclared DEF IInv, RequestsFindTheirHandlers, DispatchAsDeclared
<1> QED BY <1>1, Invariant, PTL

(***************************************************************************)
(* However TCP cuts the stream of requests: they are handled in the order  *)
(* they were sent in, none twice, each is answered before the next is      *)
(* read, and nothing follows an answer that closes.                        *)
(***************************************************************************)
THEOREM ExchangesOrdered == Spec => []ExchangesInOrder
<1>1. IInv => ExchangesInOrder
  BY DEF IInv, ConnectionInv
<1> QED BY <1>1, Invariant, PTL

(***************************************************************************)
(* A client that waits for each answer has every request handled with the  *)
(* whole body it sent, and none refused.                                   *)
(***************************************************************************)
THEOREM WholeServed == Spec => []WholeRequestsServed
<1>1. IInv => WholeRequestsServed
  BY DEF IInv, ConnectionInv
<1> QED BY <1>1, Invariant, PTL

(***************************************************************************)
(* Wherever TCP cuts the frames of an upgraded connection: the messages    *)
(* returned so far and those still on their way are the messages sent.     *)
(***************************************************************************)
THEOREM EveryMessageOnce == Spec => []MessagesExact
<1>1. IInv => MessagesExact
  <2> SUFFICES ASSUME IInv, Upgraded
               PROVE  messages \o MessagesIn(frames \o wire \o unsent) = MessagesIn(AllFrames)
    BY DEF MessagesExact
  <2>1. PICK k \in 0 .. Len(Frames) : StreamAt(k, messages, frames, wire \o unsent)
    BY DEF IInv, ConnectionInv, Framed
  <2>2. frames \in Seq(AnyUnit) /\ wire \in Seq(AnyUnit) /\ unsent \in Seq(AnyUnit)
    BY DEF IInv, ConnectionInv, Typed, Stream
  <2>3. (frames \o wire) \o unsent = frames \o (wire \o unsent)
    BY ONLY <2>2, Joined
  <2> QED BY <2>1, <2>3 DEF StreamAt
<1> QED BY <1>1, Invariant, PTL
=============================================================================

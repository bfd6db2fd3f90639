---------------------------- MODULE ReactorProofs ----------------------------
(***************************************************************************)
(* The inductive invariant of module Reactor and the theorems that follow  *)
(* from it, for every finite set of tasks, whatever natives they call, any *)
(* number of connections, any message and any size of the send buffers.    *)
(***************************************************************************)
EXTENDS Reactor, SequenceTheorems, TLAPS

USE TasksAssumption, KindsAssumption, BoundsAssumption

Labels == {"ready", "exec", "looping", "suspending", "waiting", "closing"}
OpKinds == {"none", "accept", "read", "write", "write_all", "close"}
Ops == [kind : OpKinds, on : Nat]

Typed ==
  /\ next_token \in 2 .. MaxStreams + 2 /\ backlog \in Nat
  /\ backlog + next_token <= MaxStreams + 2
  /\ peer \in [Streams -> {"open", "shut", "reset"}]
  /\ inbox \in [Streams -> Nat] /\ sent \in [Streams -> Nat]
  /\ out \in [Streams -> Seq(Nat)] /\ drained \in [Streams -> Nat]
  /\ at \in [Tasks -> Labels] /\ op \in [Tasks -> Ops]
  /\ done \in [Tasks -> Nat] /\ left \in [Tasks -> Nat]
  /\ lock \in Tasks \cup {Nobody} /\ missed \in SUBSET Tasks
  /\ ioPc \in {"poll", "closed", "events"} /\ nestedPc \in {"poll", "closed"}

\* Tokens are not used again: a closed one never names an open socket.
Tables ==
  /\ open \subseteq 1 .. next_token - 1
  /\ closed_tokens \subseteq (1 .. next_token - 1) \ open
  /\ edge \subseteq open
  /\ ioPc = "poll" => events = {}

BufferOf(s) == /\ inbox[s] <= sent[s] /\ drained[s] <= Len(out[s])
               /\ Len(out[s]) <= drained[s] + Room
Buffers == \A s \in Streams : BufferOf(s)

\* The last bytes of b are the first n of the message.
EndsWith(b, n) == /\ n <= Len(b)
                  /\ \A i \in 1 .. n : b[Len(b) - n + i] = Message[i]
Written(s, n) == EndsWith(out[s], n)

TaskOf(t) ==
  /\ Token(t) \in 1 .. next_token - 1
  /\ (at[t] = "ready") <=> (op[t] = Idle)
  /\ op[t].kind = "none" => op[t] = Idle
  /\ op[t].kind \in {"read", "write", "write_all"} => Token(t) # Listener
  /\ op[t].kind = "accept" => Token(t) = Listener
  /\ (at[t] = "looping") <=> (lock = t)
  /\ at[t] = "looping" => /\ op[t].kind = "write_all" /\ Token(t) \in open
                          /\ done[t] < Len(Message) /\ Written(Token(t), done[t])
  /\ at[t] = "closing" => Token(t) \notin open
  /\ t \in missed => at[t] \in {"waiting", "suspending", "exec"}
Control == \A t \in Tasks : TaskOf(t)

\* Somebody is going to tell the tasks that wait for token s.
Told(s) == \/ s \in edge \cup events \cup closed_tokens
           \/ \E u \in Tasks : at[u] = "closing" /\ Token(u) = s

\* A task that is about to wait is told as well as one that waits already.
WokenOf(t) == (Waits(t) \/ InGap(t)) /\ CanProceed(t) /\ t \notin missed => Told(Token(t))
Woken == \A t \in Tasks : WokenOf(t)

IInv == Typed /\ Tables /\ Buffers /\ Control /\ Woken

-----------------------------------------------------------------------------
(***************************************************************************)
(* Buffers and messages.                                                   *)
(***************************************************************************)

(***************************************************************************)
(* The message is a sequence of at least one byte.                         *)
(***************************************************************************)
LEMMA MessageFacts ==
  /\ Message \in Seq(Nat) /\ Len(Message) \in Nat \ {0}
  /\ DOMAIN Message = 1 .. Len(Message)
  /\ \A i \in 1 .. Len(Message) : Message[i] \in Nat
<1>1. Message \in Seq(Nat) /\ Message # <<>>
  BY MessageAssumption
<1>2. Len(Message) \in Nat /\ DOMAIN Message = 1 .. Len(Message)
  BY <1>1, LenProperties
<1>3. Len(Message) # 0
  BY <1>1, EmptySeq
<1>4. \A i \in 1 .. Len(Message) : Message[i] \in Nat
  BY <1>1, <1>2, ElementOfSeq
<1> QED BY <1>1, <1>2, <1>3, <1>4

(***************************************************************************)
(* Room in the send buffer of a stream.                                    *)
(***************************************************************************)
LEMMA FreeFacts ==
  ASSUME Typed, Buffers, NEW s \in Streams
  PROVE  /\ out[s] \in Seq(Nat) /\ Len(out[s]) \in Nat /\ drained[s] \in Nat
         /\ inbox[s] \in Nat /\ sent[s] \in Nat
         /\ Free(s) \in 0 .. Room
         /\ \A k \in Nat : Takes(s, k) \in 0 .. k /\ Takes(s, k) <= Free(s)
         /\ \A k \in Nat \ {0} : Free(s) > 0 => Takes(s, k) > 0
<1>1. out[s] \in Seq(Nat) /\ drained[s] \in Nat /\ inbox[s] \in Nat /\ sent[s] \in Nat
  BY DEF Typed
<1>2. Len(out[s]) \in Nat
  BY <1>1, LenProperties
<1>3. Free(s) \in 0 .. Room
  BY <1>1, <1>2 DEF Buffers, BufferOf, Free
<1>4. \A k \in Nat : Takes(s, k) \in 0 .. k /\ Takes(s, k) <= Free(s)
  BY <1>3 DEF Takes
<1>5. \A k \in Nat \ {0} : Free(s) > 0 => Takes(s, k) > 0
  BY <1>3 DEF Takes
<1> QED BY <1>1, <1>2, <1>3, <1>4, <1>5

(***************************************************************************)
(* The kernel appends n more bytes of the message, of which m are written. *)
(***************************************************************************)
LEMMA AppendPart ==
  ASSUME NEW b \in Seq(Nat), NEW m \in Nat, NEW n \in Nat, m + n <= Len(Message)
  PROVE  \A c : c = b \o SubSeq(Message, m + 1, m + n) =>
           /\ c \in Seq(Nat) /\ Len(c) = Len(b) + n
           /\ \A i \in 1 .. Len(b) : c[i] = b[i]
           /\ \A i \in 1 .. n : c[Len(b) + i] = Message[m + i]
<1> DEFINE p == SubSeq(Message, m + 1, m + n)
           c == b \o p
<1>1. Len(Message) \in Nat \ {0} /\ \A i \in 1 .. Len(Message) : Message[i] \in Nat
  BY MessageFacts
<1>2. \A i \in m + 1 .. m + n : Message[i] \in Nat
  BY <1>1
<1>3. m + 1 \in Int /\ m + n \in Int
  OBVIOUS
<1>4. /\ p \in Seq(Nat)
      /\ Len(p) = IF m + 1 <= m + n THEN m + n - (m + 1) + 1 ELSE 0
      /\ \A i \in 1 .. m + n - (m + 1) + 1 : p[i] = Message[m + 1 + i - 1]
  BY <1>2, <1>3, SubSeqProperties
<1>5. Len(p) = n /\ Len(b) \in Nat
  BY <1>4, LenProperties
<1>6. \A i \in 1 .. n : p[i] = Message[m + i]
  BY <1>4
<1> HIDE DEF p
<1>7. /\ c \in Seq(Nat) /\ Len(c) = Len(b) + Len(p)
      /\ \A i \in 1 .. Len(b) + Len(p) :
            c[i] = IF i <= Len(b) THEN b[i] ELSE p[i - Len(b)]
  <2>1. b \in Seq(Nat) /\ p \in Seq(Nat)
    BY <1>4
  <2> QED BY <2>1, ConcatProperties
<1> HIDE DEF c
<1>8. \A i \in 1 .. Len(b) : c[i] = b[i]
  BY <1>5, <1>7, SMTT(60)
<1>9. ASSUME NEW i \in 1 .. n PROVE c[Len(b) + i] = Message[m + i]
  <2>1. Len(b) + i \in 1 .. Len(b) + Len(p) /\ ~(Len(b) + i <= Len(b)) /\ Len(b) + i - Len(b) = i
    BY <1>5
  <2>2. c[Len(b) + i] = p[i]
    BY <1>7, <2>1, SMTT(60)
  <2> QED BY <1>6, <2>2
<1>10. c \in Seq(Nat) /\ Len(c) = Len(b) + n
  BY <1>5, <1>7
<1>11. \A x : x = b \o SubSeq(Message, m + 1, m + n) => x = c
  BY DEF c, p
<1> QED BY <1>8, <1>9, <1>10, <1>11, Zenon

(***************************************************************************)
(* The natives that read and write are called on streams.                  *)
(***************************************************************************)
LEMMA OnStream ==
  ASSUME Typed, NEW t \in Tasks, TaskOf(t), op[t].kind \in {"read", "write", "write_all"}
  PROVE  Token(t) \in Streams
<1>1. Token(t) \in 1 .. next_token - 1 /\ Token(t) # 1
  BY DEF TaskOf, Listener
<1>2. next_token \in Nat /\ next_token <= MaxStreams + 2 /\ MaxStreams \in Nat
  BY DEF Typed
<1> QED BY <1>1, <1>2 DEF Streams

-----------------------------------------------------------------------------
(***************************************************************************)
(* Types.                                                                  *)
(***************************************************************************)
\* The socket side and the task side of Typed.
TypedWorld ==
  /\ next_token \in 2 .. MaxStreams + 2 /\ backlog \in Nat
  /\ backlog + next_token <= MaxStreams + 2
  /\ peer \in [Streams -> {"open", "shut", "reset"}]
  /\ inbox \in [Streams -> Nat] /\ sent \in [Streams -> Nat]
  /\ out \in [Streams -> Seq(Nat)] /\ drained \in [Streams -> Nat]
TypedTasks ==
  /\ at \in [Tasks -> Labels] /\ op \in [Tasks -> Ops]
  /\ done \in [Tasks -> Nat] /\ left \in [Tasks -> Nat]
  /\ lock \in Tasks \cup {Nobody} /\ missed \in SUBSET Tasks

(***************************************************************************)
(* At first nothing is connected and no task calls a native.               *)
(***************************************************************************)
LEMMA TypedInit == Init => Typed
<1> SUFFICES ASSUME Init PROVE Typed
  OBVIOUS
<1>1. \A s \in Streams : <<>> \in Seq(Nat)
  OBVIOUS
<1>2. Idle \in Ops
  BY DEF Idle, Ops, OpKinds, Listener
<1>3. next_token = 2 /\ backlog = 0 /\ MaxStreams \in Nat
  BY DEF Init
<1>4. next_token \in 2 .. MaxStreams + 2 /\ backlog \in Nat
      /\ backlog + next_token <= MaxStreams + 2
  BY <1>3
<1>5. out \in [Streams -> Seq(Nat)]
  BY <1>1 DEF Init
<1> QED BY <1>2, <1>4, <1>5 DEF Init, Typed, Labels

(***************************************************************************)
(* Every step of the sockets and of the natives keeps their types.         *)
(***************************************************************************)
LEMMA TypedNext == Typed /\ Buffers /\ Control /\ [Next]_vars => Typed'
<1> SUFFICES ASSUME Typed, Buffers, Control, [Next]_vars PROVE Typed'
  OBVIOUS
<1>0. TypedWorld /\ TypedTasks /\ ioPc \in {"poll", "closed", "events"}
      /\ nestedPc \in {"poll", "closed"}
  BY DEF Typed, TypedWorld, TypedTasks
<1>q. ASSUME TypedWorld', TypedTasks', ioPc' \in {"poll", "closed", "events"},
             nestedPc' \in {"poll", "closed"}
      PROVE  Typed'
  BY <1>q DEF Typed, TypedWorld, TypedTasks
<1>1. CASE UNCHANGED vars
  BY <1>0, <1>1, <1>q DEF vars, net, world, io, program, TypedWorld, TypedTasks
<1>2. CASE World
  <2>1. TypedTasks'
    BY <1>0, <1>2 DEF World, Connect, PeerSends, PeerReads, PeerLeaves, net, io, program, TypedTasks
  <2>2. TypedWorld'
    <3>1. CASE Connect
      <4>1. MaxStreams \in Nat /\ next_token \in Nat /\ backlog \in Nat
        BY <1>0 DEF TypedWorld
      <4>2. backlog' = backlog + 1 /\ backlog + next_token <= MaxStreams + 1
            /\ UNCHANGED <<next_token, peer, inbox, sent, out, drained>>
        BY <3>1 DEF Connect, net
      <4>3. backlog' \in Nat /\ backlog' + next_token <= MaxStreams + 2
        BY <4>1, <4>2
      <4> QED BY <1>0, <4>2, <4>3 DEF TypedWorld
    <3>2. CASE \E s \in Streams : PeerSends(s) \/ PeerReads(s) \/ PeerLeaves(s)
      <4>1. PICK s \in Streams : PeerSends(s) \/ PeerReads(s) \/ PeerLeaves(s)
        BY <3>2
      <4>2. UNCHANGED <<next_token, backlog, out>>
        BY <4>1 DEF PeerSends, PeerReads, PeerLeaves, net
      <4>3. peer' \in [Streams -> {"open", "shut", "reset"}]
        BY <1>0, <4>1 DEF PeerSends, PeerReads, PeerLeaves, TypedWorld
      <4>n. \A f \in [Streams -> Nat] : [f EXCEPT ![s] = @ + 1] \in [Streams -> Nat]
        OBVIOUS
      <4>4. inbox' \in [Streams -> Nat] /\ sent' \in [Streams -> Nat]
        <5>1. inbox' = inbox \/ inbox' = [inbox EXCEPT ![s] = @ + 1]
          BY <4>1 DEF PeerSends, PeerReads, PeerLeaves
        <5>2. sent' = sent \/ sent' = [sent EXCEPT ![s] = @ + 1]
          BY <4>1 DEF PeerSends, PeerReads, PeerLeaves
        <5>3. inbox \in [Streams -> Nat] /\ sent \in [Streams -> Nat]
          BY <1>0 DEF TypedWorld
        <5> QED BY <4>n, <5>1, <5>2, <5>3, ZenonT(60)
      <4>5. drained' \in [Streams -> Nat]
        <5>1. drained' = drained \/ drained' = [drained EXCEPT ![s] = @ + 1]
          BY <4>1 DEF PeerSends, PeerReads, PeerLeaves
        <5>2. drained \in [Streams -> Nat]
          BY <1>0 DEF TypedWorld
        <5> QED BY <4>n, <5>1, <5>2, Zenon
      <4> QED BY <1>0, <4>2, <4>3, <4>4, <4>5 DEF TypedWorld
    <3> QED BY <1>2, <3>1, <3>2 DEF World
  <2> QED BY <1>0, <1>2, <1>q, <2>1, <2>2
          DEF World, Connect, PeerSends, PeerReads, PeerLeaves, net, io, program
<1>3. CASE IoThread
  <2>1. TypedWorld' /\ ioPc' \in {"poll", "closed", "events"} /\ nestedPc' \in {"poll", "closed"}
    BY <1>0, <1>3 DEF IoThread, IoPoll, IoClosed, IoEvents, Wake, net, world, TypedWorld
  <2>2. TypedTasks'
    <3>1. CASE IoPoll
      BY <1>0, <3>1 DEF IoPoll, net, program, TypedTasks
    <3>2. CASE \E tokens : Wake(tokens) /\ UNCHANGED lock
      BY <1>0, <3>2 DEF Wake, TypedTasks, Labels
    <3> QED BY <1>3, <3>1, <3>2 DEF IoThread, IoClosed, IoEvents, net
  <2> QED BY <1>q, <2>1, <2>2
<1>4. CASE Import
  BY <1>0, <1>4, <1>q DEF Import, NestedPoll, NestedClosed, Misses, net, world, program,
     TypedWorld, TypedTasks
<1>5. ASSUME NEW t \in Tasks, Begin(t) PROVE Typed'
  <2>1. UNCHANGED <<done, net, world, io, missed>>
    BY <1>5 DEF Begin
  <2>2. TypedWorld' /\ ioPc' \in {"poll", "closed", "events"} /\ nestedPc' \in {"poll", "closed"}
    BY <1>0, <2>1 DEF net, world, io, TypedWorld
  <2>3. PICK k \in Kinds[t], s \in 1 .. next_token - 1 : op' = [op EXCEPT ![t] = [kind |-> k, on |-> s]]
    BY <1>5 DEF Begin
  <2>4. [kind |-> k, on |-> s] \in Ops
    <3>1. k \in OpKinds
      BY DEF OpKinds
    <3> QED BY <3>1 DEF Ops
  <2>5. left' \in [Tasks -> Nat] /\ at' \in [Tasks -> Labels]
    BY <1>0, <1>5 DEF Begin, At, TypedTasks, Labels
  <2>6. TypedTasks'
    BY <1>0, <2>1, <2>3, <2>4, <2>5 DEF TypedTasks, net
  <2> QED BY <1>q, <2>2, <2>6
<1>6. ASSUME NEW t \in Tasks, Native(t) PROVE Typed'
  <2>0. TaskOf(t) /\ Idle \in Ops
    BY DEF Control, Idle, Ops, OpKinds, Listener
  <2> USE <1>0 DEF TypedWorld, TypedTasks, Labels, net, world, io, At, Finish, Suspend,
                   Executes
  <2>1. CASE Invalid(t) \/ Blocks(t) \/ WriteAll(t) \/ WriteBlocks(t) \/ Close(t) \/ Closed(t) \/ File(t)
    <3>1. CASE Invalid(t)
      BY <2>0, <3>1, <1>q DEF Invalid
    <3>2. CASE Blocks(t)
      BY <2>0, <3>2, <1>q DEF Blocks
    <3>3. CASE WriteAll(t)
      BY <2>0, <3>3, <1>q DEF WriteAll
    <3>4. CASE WriteBlocks(t)
      BY <2>0, <3>4, <1>q DEF WriteBlocks
    <3>5. CASE Close(t)
      <4>1. at' \in [Tasks -> Labels] /\ op' \in [Tasks -> Ops] /\ UNCHANGED <<done, left, lock>>
        <5>1. CASE Token(t) \in open
          BY <2>0, <3>5, <5>1 DEF Close
        <5>2. CASE Token(t) \notin open
          <6>1. /\ at' = [at EXCEPT ![t] = "ready"] /\ op' = [op EXCEPT ![t] = Idle]
                /\ UNCHANGED <<done, left, lock>>
            BY <3>5, <5>2 DEF Close
          <6> QED BY <2>0, <6>1
        <5> QED BY <5>1, <5>2
      <4>2. TypedTasks'
        BY <3>5, <4>1 DEF Close
      <4> QED BY <3>5, <4>2, <1>q DEF Close
    <3>6. CASE Closed(t)
      BY <2>0, <3>6, <1>q DEF Closed
    <3>7. CASE File(t)
      BY <2>0, <3>7, <1>q DEF File
    <3> QED BY <2>1, <3>1, <3>2, <3>3, <3>4, <3>5, <3>6, <3>7
  <2>2. CASE Accept(t)
    <3>1. next_token' = next_token + 1 /\ backlog' = backlog - 1 /\ backlog > 0
      BY <2>2 DEF Accept
    <3>2. next_token' \in 2 .. MaxStreams + 2 /\ backlog' \in Nat
          /\ backlog' + next_token' <= MaxStreams + 2
      BY <3>1
    <3>3. TypedTasks'
      BY <2>0, <2>2 DEF Accept
    <3>4. TypedWorld'
      BY <2>2, <3>2 DEF Accept
    <3> QED BY <2>2, <3>3, <3>4, <1>q DEF Accept
  <2>3. CASE Read(t)
    <3>1. Token(t) \in Streams
      BY <2>0, <2>3, OnStream DEF Read
    <3>2. inbox' \in [Streams -> Nat]
      BY <2>3, <3>1 DEF Read
    <3> QED BY <2>0, <2>3, <3>2, <1>q DEF Read
  <2>4. CASE ReadEnds(t)
    BY <2>0, <2>4, <1>q DEF ReadEnds, Drop
  <2>5. CASE Write(t)
    <3> DEFINE s == Token(t)
               n == Takes(s, Len(Message))
    <3>1. s \in Streams
      BY <2>0, <2>5, OnStream DEF Write
    <3>2. n \in Nat /\ n <= Len(Message)
      BY <3>1, FreeFacts, MessageFacts
    <3>3. out' = [out EXCEPT ![s] = @ \o SubSeq(Message, 1, n)]
      BY <2>5 DEF Write
    <3>4. out[s] \o SubSeq(Message, 1, n) \in Seq(Nat)
      <4> HIDE DEF n
      <4>1. 0 \in Nat /\ 0 + n <= Len(Message) /\ out[s] \in Seq(Nat)
        BY <3>1, <3>2
      <4>2. out[s] \o SubSeq(Message, 0 + 1, 0 + n) \in Seq(Nat)
        BY <3>2, <4>1, AppendPart, Zenon
      <4>3. 0 + 1 = 1 /\ 0 + n = n
        BY <3>2
      <4> QED BY <4>2, <4>3
    <3>5. out' \in [Streams -> Seq(Nat)]
      BY <3>1, <3>3, <3>4
    <3> QED BY <2>0, <2>5, <3>5, <1>q DEF Write
  <2>6. CASE WriteMore(t)
    <3> DEFINE s == Token(t)
               n == Takes(s, Len(Message) - done[t])
    <3>1. s \in Streams /\ done[t] \in Nat /\ done[t] < Len(Message)
      BY <2>0, <2>6, OnStream DEF WriteMore, TaskOf
    <3>2. Len(Message) - done[t] \in Nat
      BY <3>1, MessageFacts, SMTT(60)
    <3>3. n \in 0 .. Len(Message) - done[t]
      BY <3>1, <3>2, FreeFacts
    <3>4. out' = [out EXCEPT ![s] = @ \o SubSeq(Message, done[t] + 1, done[t] + n)]
      BY <2>6 DEF WriteMore
    <3>5. out[s] \o SubSeq(Message, done[t] + 1, done[t] + n) \in Seq(Nat)
      <4> HIDE DEF n
      <4>1. n \in Nat /\ done[t] + n <= Len(Message) /\ out[s] \in Seq(Nat)
        BY <3>1, <3>2, <3>3, MessageFacts, SMTT(60)
      <4> QED BY <3>1, <4>1, AppendPart
    <3>6. out' \in [Streams -> Seq(Nat)]
      BY <3>1, <3>4, <3>5
    <3>7. done' \in [Tasks -> Nat]
      <4>1. done' = [done EXCEPT ![t] = 0] \/ done' = [done EXCEPT ![t] = @ + n]
        BY <2>6 DEF WriteMore
      <4>2. n \in Nat
        BY <3>2, <3>3
      <4> HIDE DEF n
      <4>3. done \in [Tasks -> Nat]
        OBVIOUS
      <4>4. [done EXCEPT ![t] = 0] \in [Tasks -> Nat]
        BY <4>3
      <4>5. [done EXCEPT ![t] = @ + n] \in [Tasks -> Nat]
        BY <4>2, <4>3
      <4> QED BY <4>1, <4>4, <4>5, Zenon
    <3>8. TypedTasks'
      <4>1. \/ /\ at' = [at EXCEPT ![t] = "ready"] /\ op' = [op EXCEPT ![t] = Idle]
               /\ lock' = Nobody /\ UNCHANGED left
            \/ UNCHANGED <<at, op, left, lock>>
        BY <2>6 DEF WriteMore
      <4>2. UNCHANGED missed
        BY <2>6 DEF WriteMore
      <4> HIDE DEF n
      <4>3. CASE UNCHANGED <<at, op, left, lock>>
        BY <3>7, <4>2, <4>3
      <4>4. CASE /\ at' = [at EXCEPT ![t] = "ready"] /\ op' = [op EXCEPT ![t] = Idle]
                 /\ lock' = Nobody /\ UNCHANGED left
        BY <2>0, <3>7, <4>2, <4>4
      <4> QED BY <4>1, <4>3, <4>4
    <3> QED BY <2>6, <3>6, <3>8, <1>q DEF WriteMore
  <2>7. CASE WriteFails(t)
    BY <2>0, <2>7, <1>q DEF WriteFails, Drop
  <2> QED BY <1>6, <2>1, <2>2, <2>3, <2>4, <2>5, <2>6, <2>7 DEF Native
<1> QED BY <1>1, <1>2, <1>3, <1>4, <1>5, <1>6 DEF Next

-----------------------------------------------------------------------------
(***************************************************************************)
(* Buffers.                                                                *)
(***************************************************************************)
\* t gives the kernel n bytes of the message, of which m are written already.
Gives(t, m, n) ==
  /\ Token(t) \in Streams /\ m \in Nat /\ n \in Nat
  /\ m + n <= Len(Message) /\ n <= Free(Token(t))
  /\ out' = [out EXCEPT ![Token(t)] = @ \o SubSeq(Message, m + 1, m + n)]
  /\ UNCHANGED <<open, inbox, sent, drained>>

(***************************************************************************)
(* net.write gives the kernel a first part of the message.                 *)
(***************************************************************************)
LEMMA WriteGives ==
  ASSUME Typed, Buffers, Control, NEW t \in Tasks, Write(t)
  PROVE  \E n \in Nat : Gives(t, 0, n)
<1> DEFINE s == Token(t)
           n == Takes(s, Len(Message))
<1>1. TaskOf(t) /\ op[t].kind = "write"
  BY DEF Control, Write, Executes
<1>2. s \in Streams
  BY <1>1, OnStream
<1>3. n \in Nat /\ n <= Len(Message) /\ n <= Free(s)
  BY <1>2, FreeFacts, MessageFacts
<1>4. out' = [out EXCEPT ![s] = @ \o SubSeq(Message, 1, n)]
  BY DEF Write
<1>5. UNCHANGED <<open, inbox, sent, drained>>
  BY DEF Write, net
<1> HIDE DEF n
<1>6. 0 \in Nat /\ 0 + 1 = 1 /\ 0 + n = n
  BY <1>3
<1>7. out' = [out EXCEPT ![s] = @ \o SubSeq(Message, 0 + 1, 0 + n)]
  BY <1>4, <1>6
<1>8. Gives(t, 0, n)
  BY <1>2, <1>3, <1>5, <1>6, <1>7 DEF Gives
<1> QED BY <1>3, <1>8

(***************************************************************************)
(* A turn of the loop of net.write_all goes on where the last one ended.   *)
(***************************************************************************)
LEMMA WriteMoreGives ==
  ASSUME Typed, Buffers, Control, NEW t \in Tasks, WriteMore(t)
  PROVE  \E n \in Nat :
           /\ Gives(t, done[t], n)
           /\ \/ /\ done[t] + n = Len(Message)
                 /\ Finish(t) /\ lock' = Nobody /\ done' = [done EXCEPT ![t] = 0]
              \/ /\ done[t] + n # Len(Message)
                 /\ done' = [done EXCEPT ![t] = @ + n] /\ UNCHANGED <<at, op, left, lock>>
<1> DEFINE s == Token(t)
           n == Takes(s, Len(Message) - done[t])
<1>1. TaskOf(t) /\ op[t].kind = "write_all" /\ done[t] < Len(Message)
  BY DEF Control, WriteMore, TaskOf
<1>2. s \in Streams /\ done[t] \in Nat
  BY <1>1, OnStream DEF Typed
<1>3. Len(Message) - done[t] \in Nat
  BY <1>1, <1>2, MessageFacts
<1>4. n \in 0 .. Len(Message) - done[t] /\ n <= Free(s)
  BY <1>2, <1>3, FreeFacts
<1>5. out' = [out EXCEPT ![s] = @ \o SubSeq(Message, done[t] + 1, done[t] + n)]
  BY DEF WriteMore
<1>6. UNCHANGED <<open, inbox, sent, drained>>
  BY DEF WriteMore
<1>7. \/ /\ done[t] + n = Len(Message)
         /\ Finish(t) /\ lock' = Nobody /\ done' = [done EXCEPT ![t] = 0]
      \/ /\ done[t] + n # Len(Message)
         /\ done' = [done EXCEPT ![t] = @ + n] /\ UNCHANGED <<at, op, left, lock>>
  BY DEF WriteMore
<1>8. n \in Nat /\ done[t] + n <= Len(Message)
  BY <1>2, <1>3, <1>4, MessageFacts
<1> HIDE DEF n
<1>9. Gives(t, done[t], n)
  BY <1>2, <1>4, <1>5, <1>6, <1>8 DEF Gives
<1> QED BY <1>7, <1>8, <1>9

(***************************************************************************)
(* What a write appends to a stream.                                       *)
(***************************************************************************)
LEMMA GivesFacts ==
  ASSUME Typed, Buffers, NEW t \in Tasks, NEW m \in Nat, NEW n \in Nat, Gives(t, m, n)
  PROVE  /\ Len(out'[Token(t)]) = Len(out[Token(t)]) + n
         /\ \A i \in 1 .. Len(out[Token(t)]) : out'[Token(t)][i] = out[Token(t)][i]
         /\ \A i \in 1 .. n : out'[Token(t)][Len(out[Token(t)]) + i] = Message[m + i]
         /\ \A s \in Streams \ {Token(t)} : out'[s] = out[s]
<1> DEFINE s == Token(t)
<1>1. s \in Streams /\ m \in Nat /\ n \in Nat /\ m + n <= Len(Message)
  BY DEF Gives
<1>2. out[s] \in Seq(Nat) /\ out \in [Streams -> Seq(Nat)]
  BY <1>1 DEF Typed
<1>3. out'[s] = out[s] \o SubSeq(Message, m + 1, m + n)
      /\ \A r \in Streams \ {s} : out'[r] = out[r]
  BY <1>1, <1>2 DEF Gives
<1> QED BY <1>1, <1>2, <1>3, AppendPart

(***************************************************************************)
(* The natives that do not write.                                          *)
(***************************************************************************)
LEMMA NativeBuffers ==
  ASSUME NEW t \in Tasks, Begin(t) \/ Native(t), ~Write(t), ~WriteMore(t)
  PROVE  UNCHANGED <<sent, out, drained>> /\ (Read(t) \/ UNCHANGED inbox)
BY DEF Begin, Native, Invalid, Blocks, Accept, Read, ReadEnds, WriteAll, WriteBlocks, WriteFails,
   Close, Closed, File, world

(***************************************************************************)
(* The I/O threads do not touch the buffers.                               *)
(***************************************************************************)
LEMMA ThreadBuffers ==
  (IoThread \/ Import \/ UNCHANGED vars) => UNCHANGED <<peer, inbox, sent, out, drained, backlog, open>>
BY DEF IoThread, IoPoll, IoClosed, IoEvents, Import, NestedPoll, NestedClosed, world, net, vars

(***************************************************************************)
(* The bytes of a stream are accounted for: nothing is read that was not   *)
(* sent, and no more is buffered than there is room for.                   *)
(***************************************************************************)
LEMMA BuffersNext == Typed /\ Buffers /\ Control /\ [Next]_vars => Buffers'
<1> SUFFICES ASSUME Typed, Buffers, Control, [Next]_vars, NEW s \in Streams PROVE BufferOf(s)'
  BY DEF Buffers
<1>0. /\ out[s] \in Seq(Nat) /\ Len(out[s]) \in Nat /\ drained[s] \in Nat
      /\ inbox[s] \in Nat /\ sent[s] \in Nat /\ Free(s) \in 0 .. Room /\ Room \in Nat
      /\ BufferOf(s)
  BY FreeFacts DEF Buffers
<1>k. ASSUME out'[s] = out[s], drained'[s] = drained[s], sent'[s] = sent[s],
             inbox'[s] <= inbox[s], inbox'[s] \in Nat
      PROVE  BufferOf(s)'
  BY <1>0, <1>k DEF BufferOf
<1>1. CASE IoThread \/ Import \/ UNCHANGED vars
  BY <1>0, <1>1, <1>k, ThreadBuffers
<1>2. CASE World
  <2>1. CASE Connect \/ \E r \in Streams : PeerLeaves(r)
    BY <1>0, <1>k, <2>1 DEF Connect, PeerLeaves
  <2>2. ASSUME NEW r \in Streams, PeerSends(r) PROVE BufferOf(s)'
    <3>1. out' = out /\ drained' = drained
      BY <2>2 DEF PeerSends
    <3>2. (inbox'[s] = inbox[s] /\ sent'[s] = sent[s])
          \/ (inbox'[s] = inbox[s] + 1 /\ sent'[s] = sent[s] + 1)
      BY <2>2 DEF PeerSends, Typed
    <3> QED BY <1>0, <3>1, <3>2 DEF BufferOf
  <2>3. ASSUME NEW r \in Streams, PeerReads(r) PROVE BufferOf(s)'
    <3>1. UNCHANGED <<out, inbox, sent>>
      BY <2>3 DEF PeerReads
    <3>2. drained'[s] = drained[s] \/ (drained'[s] = drained[s] + 1 /\ drained[s] < Len(out[s]))
      BY <2>3 DEF PeerReads, Typed
    <3> QED BY <1>0, <3>1, <3>2 DEF BufferOf
  <2> QED BY <1>2, <2>1, <2>2, <2>3 DEF World
<1>3. ASSUME NEW t \in Tasks, Begin(t) \/ Native(t) PROVE BufferOf(s)'
  <2>1. CASE Write(t) \/ WriteMore(t)
    <3>1. PICK m \in Nat, n \in Nat : Gives(t, m, n)
      <4>1. 0 \in Nat /\ done[t] \in Nat
        BY DEF Typed
      <4> QED BY <2>1, <4>1, WriteGives, WriteMoreGives
    <3>2. UNCHANGED <<inbox, sent, drained>> /\ n \in Nat /\ n <= Free(Token(t))
      BY <3>1 DEF Gives
    <3>3. CASE s = Token(t)
      <4>1. Len(out'[s]) = Len(out[s]) + n
        BY <3>1, <3>3, GivesFacts
      <4> QED BY <1>0, <3>2, <3>3, <4>1, SMTT(60) DEF BufferOf, Free
    <3>4. CASE s # Token(t)
      BY <1>0, <1>k, <3>1, <3>2, <3>4, GivesFacts
    <3> QED BY <3>3, <3>4
  <2>2. CASE Read(t)
    <3>1. UNCHANGED <<sent, out, drained>>
      BY <2>2 DEF Read
    <3>2. Token(t) \in Streams
      BY <2>2, OnStream DEF Control, Read, Executes
    <3>3. PICK n \in 1 .. inbox[Token(t)] : inbox' = [inbox EXCEPT ![Token(t)] = @ - n]
      BY <2>2 DEF Read
    <3>4. inbox'[s] <= inbox[s] /\ inbox'[s] \in Nat
      <4>1. CASE s = Token(t)
        <5>1. inbox'[s] = inbox[s] - n
          BY <3>2, <3>3, <4>1 DEF Typed
        <5> QED BY <1>0, <3>3, <4>1, <5>1
      <4>2. CASE s # Token(t)
        BY <1>0, <3>3, <4>2 DEF Typed
      <4> QED BY <4>1, <4>2
    <3> QED BY <1>k, <3>1, <3>4
  <2>3. CASE ~Write(t) /\ ~WriteMore(t) /\ ~Read(t)
    BY <1>0, <1>3, <1>k, <2>3, NativeBuffers
  <2> QED BY <2>1, <2>2, <2>3
<1> QED BY <1>1, <1>2, <1>3 DEF Next

-----------------------------------------------------------------------------
(***************************************************************************)
(* The tables of sockets, and what a task is doing.                        *)
(***************************************************************************)
\* What a native does to the tables; only the holder of the lock, or a task
\* that found it free, removes a socket or writes.
OpenEffect(t) ==
  \/ UNCHANGED <<open, next_token>>
  \/ open' = open \cup {next_token} /\ next_token' = next_token + 1
  \/ /\ open' = open \ {Token(t)} /\ next_token' = next_token
     /\ lock \in {Nobody, t}
OutEffect(t) == out' = out \/ lock \in {Nobody, t}
LockEffect(t) == \/ lock' = lock
                 \/ lock = Nobody /\ lock' = t
                 \/ lock = t /\ lock' = Nobody

(***************************************************************************)
(* A native changes what its own task does, and not what others do.        *)
(***************************************************************************)
LEMMA NativeOthers ==
  ASSUME Typed, NEW t \in Tasks, Begin(t) \/ Native(t), NEW u \in Tasks, u # t
  PROVE  /\ at'[u] = at[u] /\ op'[u] = op[u] /\ done'[u] = done[u]
         /\ u \in missed' => u \in missed \/ Waits(u) \/ InGap(u)
<1> USE DEF Typed, At, Finish, Suspend, Executes
<1>1. CASE Begin(t)
  BY <1>1 DEF Begin
<1>2. CASE Invalid(t) \/ Blocks(t)
  BY <1>2 DEF Invalid, Blocks
<1>3. CASE Accept(t) \/ Read(t) \/ Write(t)
  BY <1>3 DEF Accept, Read, Write
<1>4. CASE ReadEnds(t) \/ WriteFails(t)
  BY <1>4 DEF ReadEnds, WriteFails, Drop
<1>5. CASE WriteAll(t) \/ WriteBlocks(t)
  BY <1>5 DEF WriteAll, WriteBlocks
<1>6. CASE WriteMore(t)
  BY <1>6 DEF WriteMore
<1>7. CASE Close(t)
  BY <1>7 DEF Close
<1>8. CASE Closed(t) \/ File(t)
  BY <1>8 DEF Closed, File
<1> QED BY <1>1, <1>2, <1>3, <1>4, <1>5, <1>6, <1>7, <1>8 DEF Native

(***************************************************************************)
(* The lock of streams, and what is changed under it.                      *)
(***************************************************************************)
LEMMA NativeEffects ==
  ASSUME Typed, Control, NEW t \in Tasks, Begin(t) \/ Native(t)
  PROVE  OpenEffect(t) /\ OutEffect(t) /\ LockEffect(t)
<1>c. TaskOf(t)
  BY DEF Control
<1> USE DEF OpenEffect, OutEffect, LockEffect, net, world, Executes
<1>1. CASE Begin(t)
  BY <1>1 DEF Begin
<1>2. CASE Invalid(t) \/ Blocks(t)
  BY <1>2 DEF Invalid, Blocks
<1>3. CASE Accept(t) \/ Read(t) \/ Write(t)
  BY <1>3 DEF Accept, Read, Write
<1>4. CASE ReadEnds(t) \/ WriteFails(t)
  BY <1>4, <1>c DEF ReadEnds, WriteFails, Drop, TaskOf
<1>5. CASE WriteAll(t) \/ WriteBlocks(t)
  BY <1>5, <1>c DEF WriteAll, WriteBlocks, TaskOf
<1>6. CASE WriteMore(t)
  BY <1>6, <1>c DEF WriteMore, TaskOf
<1>7. CASE Close(t)
  BY <1>7 DEF Close
<1>8. CASE Closed(t) \/ File(t)
  BY <1>8 DEF Closed, File
<1> QED BY <1>1, <1>2, <1>3, <1>4, <1>5, <1>6, <1>7, <1>8 DEF Native

(***************************************************************************)
(* The closed tokens and the edges, native by native.                      *)
(***************************************************************************)
LEMMA NativeTables ==
  ASSUME Typed, Control, Tables, NEW t \in Tasks, Begin(t) \/ Native(t)
  PROVE  Tables'
<1>c. TaskOf(t) /\ next_token \in Nat
  BY DEF Control, Typed
<1> USE DEF net, world, io, Executes, Tables
<1>1. CASE Begin(t)
  BY <1>1 DEF Begin
<1>2. CASE Invalid(t) \/ Blocks(t)
  BY <1>2 DEF Invalid, Blocks
<1>3. CASE Accept(t)
  <2>1. /\ open' = open \cup {next_token} /\ next_token' = next_token + 1
        /\ edge' = edge \cup {next_token} /\ UNCHANGED <<closed_tokens, ioPc, events>>
    BY <1>3 DEF Accept
  <2>2. next_token \notin 1 .. next_token - 1 /\ next_token \in 1 .. next_token' - 1
        /\ 1 .. next_token - 1 \subseteq 1 .. next_token' - 1
    BY <1>c, <2>1 DEF Typed
  <2> QED BY <2>1, <2>2
<1>4. CASE Read(t) \/ Write(t)
  BY <1>4 DEF Read, Write
<1>5. CASE ReadEnds(t) \/ WriteFails(t)
  BY <1>5 DEF ReadEnds, WriteFails, Drop
<1>6. CASE WriteAll(t) \/ WriteBlocks(t) \/ WriteMore(t)
  BY <1>6 DEF WriteAll, WriteBlocks, WriteMore
<1>7. CASE Close(t)
  BY <1>7 DEF Close
<1>8. CASE Closed(t)
  BY <1>8, <1>c DEF Closed, TaskOf
<1>9. CASE File(t)
  BY <1>9 DEF File
<1> QED BY <1>1, <1>2, <1>3, <1>4, <1>5, <1>6, <1>7, <1>8, <1>9 DEF Native

(***************************************************************************)
(* Every step keeps the tables.                                            *)
(***************************************************************************)
LEMMA TablesNext == Typed /\ Control /\ Tables /\ [Next]_vars => Tables'
<1> SUFFICES ASSUME Typed, Control, Tables, [Next]_vars PROVE Tables'
  OBVIOUS
<1>1. CASE UNCHANGED vars
  BY <1>1 DEF vars, net, world, io, Tables
<1>2. CASE World
  BY <1>2 DEF World, Connect, PeerSends, PeerReads, PeerLeaves, Raise, Alive, net, io, Tables
<1>3. CASE IoThread
  BY <1>3 DEF IoThread, IoPoll, IoClosed, IoEvents, net, world, Tables
<1>4. CASE Import
  BY <1>4 DEF Import, NestedPoll, NestedClosed, net, world, Tables
<1>5. ASSUME NEW t \in Tasks, Begin(t) \/ Native(t) PROVE Tables'
  BY <1>5, NativeTables
<1> QED BY <1>1, <1>2, <1>3, <1>4, <1>5 DEF Next

(***************************************************************************)
(* What is written grows by what the kernel takes.                         *)
(***************************************************************************)
LEMMA WrittenMore ==
  ASSUME NEW b \in Seq(Nat), NEW m \in Nat, NEW n \in Nat, m + n <= Len(Message),
         NEW c, c = b \o SubSeq(Message, m + 1, m + n), EndsWith(b, m),
         NEW k \in Nat, k = m + n
  PROVE  EndsWith(c, k)
<1>1. PICK l \in Nat : l = Len(b)
  BY LenProperties
<1>2. m <= l /\ \A i \in 1 .. m : b[l - m + i] = Message[i]
  BY <1>1 DEF EndsWith
<1>3. /\ Len(c) = l + n
      /\ \A i \in 1 .. l : c[i] = b[i]
      /\ \A i \in 1 .. n : c[l + i] = Message[m + i]
  <2>1. c = b \o SubSeq(Message, m + 1, m + n)
    OBVIOUS
  <2> QED BY <1>1, <2>1, AppendPart
<1>4. PICK h \in Nat : h = Len(c) /\ h = l + n
  BY <1>1, <1>3
<1>5. ASSUME NEW i \in 1 .. k PROVE c[h - k + i] = Message[i]
  <2>0. i \in Nat /\ 1 <= i /\ i <= m + n /\ k = m + n /\ m <= l /\ h = l + n
    <3>1. m <= l /\ h = l + n
      BY <1>2, <1>4
    <3> QED BY ONLY <3>1, k = m + n, i \in 1 .. k, m \in Nat, n \in Nat
  <2>1. CASE i <= m
    <3>1. i \in 1 .. m /\ l - m + i \in 1 .. l /\ h - k + i = l - m + i
      BY ONLY <2>0, <2>1, l \in Nat, n \in Nat, m \in Nat
    <3> QED BY <1>2, <1>3, <3>1
  <2>2. CASE i > m
    <3>1. i - m \in 1 .. n /\ l + (i - m) = h - k + i /\ m + (i - m) = i
      BY <2>0, <2>2
    <3>2. c[l + (i - m)] = Message[m + (i - m)]
      BY <1>3, <3>1
    <3> QED BY <3>1, <3>2
  <2>3. i <= m \/ i > m
    BY <2>0
  <2> QED BY <2>1, <2>2, <2>3, Zenon
<1>6. k <= h
  BY <1>1, <1>2, <1>4
<1> QED BY <1>4, <1>5, <1>6, Zenon DEF EndsWith

(***************************************************************************)
(* A native does not disturb another task: while that one loops, it holds  *)
(* the lock.                                                               *)
(***************************************************************************)
LEMMA OthersControl ==
  ASSUME Typed, Tables, Control, NEW t \in Tasks, Begin(t) \/ Native(t), NEW u \in Tasks, u # t
  PROVE  TaskOf(u)'
<1>1. at'[u] = at[u] /\ op'[u] = op[u] /\ done'[u] = done[u]
      /\ (u \in missed' => u \in missed \/ Waits(u) \/ InGap(u))
  BY NativeOthers
<1>2. OpenEffect(t) /\ OutEffect(t) /\ LockEffect(t)
  BY NativeEffects
<1>3. TaskOf(u) /\ Nobody # u /\ Token(u)' = Token(u)
  BY <1>1 DEF Control, Token
<1>4. lock' = u <=> lock = u
  BY <1>2, <1>3 DEF LockEffect
<1>5. Token(u) \in 1 .. next_token' - 1 /\ (Token(u) \in open' => Token(u) \in open)
  <2>1. next_token \in Nat /\ Token(u) \in 1 .. next_token - 1 /\ Token(u) # next_token
    BY <1>3 DEF Typed, TaskOf
  <2>2. next_token' = next_token \/ next_token' = next_token + 1
    BY <1>2 DEF OpenEffect
  <2>3. Token(u) \in open' => Token(u) \in open
    BY <1>2, <2>1 DEF OpenEffect
  <2> QED BY <2>1, <2>2, <2>3
<1>6. at[u] = "looping" => out' = out /\ (Token(u) \in open => Token(u) \in open')
  BY <1>2, <1>3 DEF OutEffect, OpenEffect, TaskOf
<1>7. u \in missed' => at'[u] \in {"waiting", "suspending", "exec"}
  BY <1>1, <1>3 DEF TaskOf, Waits, InGap
<1>8. at[u] = "looping" => (Written(Token(u), done[u]) => (Written(Token(u), done[u]))')
  BY <1>1, <1>3, <1>6 DEF Written
<1> QED BY <1>1, <1>3, <1>4, <1>5, <1>6, <1>7, <1>8 DEF TaskOf

(***************************************************************************)
(* A native leaves its own task in a state that goes with it.              *)
(***************************************************************************)
LEMMA OwnControl ==
  ASSUME Typed, Buffers, Tables, Control, NEW t \in Tasks, Begin(t) \/ Native(t)
  PROVE  TaskOf(t)'
<1>c. TaskOf(t)
  BY DEF Control
<1>n. /\ next_token \in Nat /\ next_token >= 2 /\ t # Nobody
      /\ at \in [Tasks -> Labels] /\ op \in [Tasks -> Ops] /\ done \in [Tasks -> Nat]
  BY DEF Typed
<1>i. /\ Idle.kind = "none" /\ Idle.on = Listener /\ Listener = 1
  BY DEF Idle, Listener
<1>f. ASSUME Finish(t), t \notin missed', lock' # t, next_token' >= next_token, next_token' \in Nat
      PROVE  TaskOf(t)'
  <2>1. at'[t] = "ready" /\ op'[t] = Idle
    BY <1>f, <1>n DEF Finish, At
  <2>2. 1 \in 1 .. next_token' - 1
    <3>1. \A a, b \in Nat : a >= 2 /\ b >= a => 1 \in 1 .. b - 1
      OBVIOUS
    <3> QED BY <1>f, <1>n, <3>1, Zenon
  <2> QED BY <1>f, <1>i, <2>1, <2>2 DEF TaskOf, Token
<1>1. CASE Begin(t)
  <2>1. PICK k \in Kinds[t], s \in 1 .. next_token - 1 :
          /\ (k = "accept") => s = Listener
          /\ (k \in {"read", "write", "write_all"}) => s # Listener
          /\ op' = [op EXCEPT ![t] = [kind |-> k, on |-> s]]
    BY <1>1 DEF Begin
  <2>2. /\ at[t] = "ready" /\ at'[t] = "exec" /\ UNCHANGED <<next_token, lock>>
    BY <1>1, <1>n DEF Begin, At, net
  <2>3. op'[t] = [kind |-> k, on |-> s] /\ k # "none"
    BY <1>n, <2>1
  <2>4. op'[t].kind = k /\ op'[t].on = s /\ op'[t] # Idle
    BY <1>i, <2>3
  <2> QED BY <1>c, <2>1, <2>2, <2>4 DEF TaskOf, Token
<1>2. CASE Invalid(t) \/ Accept(t) \/ Read(t) \/ Write(t)
  <2>1. Finish(t) /\ at[t] = "exec" /\ t \notin missed' /\ lock' = lock
    BY <1>2 DEF Invalid, Accept, Read, Write, Executes, net
  <2>2. next_token' \in {next_token, next_token + 1}
    BY <1>2 DEF Invalid, Accept, Read, Write, net
  <2> QED BY <1>c, <1>f, <1>n, <2>1, <2>2 DEF TaskOf
<1>3. CASE ReadEnds(t) \/ WriteFails(t)
  <2>1. Finish(t) /\ t \notin missed' /\ lock' # t /\ next_token' = next_token
    BY <1>3, <1>c, <1>n DEF ReadEnds, WriteFails, Drop, Executes, TaskOf
  <2> QED BY <1>f, <1>n, <2>1
<1>4. CASE Blocks(t) \/ WriteBlocks(t)
  <2>1. /\ at' = [at EXCEPT ![t] = "suspending"] /\ at[t] \in {"exec", "looping"} /\ op' = op
        /\ lock' # t /\ UNCHANGED next_token
    BY <1>4, <1>c, <1>n DEF Blocks, WriteBlocks, Suspend, At, Executes, net, TaskOf
  <2>2. at'[t] = "suspending"
    BY <1>n, <2>1
  <2> QED BY <1>c, <2>1, <2>2 DEF TaskOf, Token
<1>5. CASE WriteAll(t)
  <2>1. /\ at'[t] = "looping" /\ at[t] = "exec" /\ op' = op /\ lock' = t /\ done'[t] = 0
        /\ t \notin missed' /\ UNCHANGED <<next_token, open, out>>
        /\ op[t].kind = "write_all" /\ Token(t) \in open
    BY <1>5, <1>n DEF WriteAll, At, Executes, world
  <2>2. Token(t) \in Streams
    BY <1>c, <2>1, OnStream
  <2>3. 0 <= Len(out[Token(t)])
    BY <2>2, FreeFacts
  <2>4. (Written(Token(t), done[t]))'
    BY <2>1, <2>3 DEF Written, EndsWith, Token
  <2>5. 0 < Len(Message)
    BY MessageFacts
  <2> QED BY <1>c, <2>1, <2>4, <2>5 DEF TaskOf, Token
<1>6. CASE WriteMore(t)
  <2>0. at[t] = "looping" /\ UNCHANGED <<next_token, open, missed>>
    BY <1>6 DEF WriteMore
  <2>m. t \notin missed'
    BY <1>c, <2>0 DEF TaskOf
  <2>1. PICK n \in Nat :
           /\ Gives(t, done[t], n)
           /\ \/ /\ done[t] + n = Len(Message)
                 /\ Finish(t) /\ lock' = Nobody /\ done' = [done EXCEPT ![t] = 0]
              \/ /\ done[t] + n # Len(Message)
                 /\ done' = [done EXCEPT ![t] = @ + n] /\ UNCHANGED <<at, op, left, lock>>
    BY <1>6, WriteMoreGives
  <2>2. CASE Finish(t) /\ lock' = Nobody
    BY <1>f, <1>n, <2>0, <2>2, <2>m
  <2>3. CASE /\ done[t] + n # Len(Message)
             /\ done' = [done EXCEPT ![t] = @ + n] /\ UNCHANGED <<at, op, left, lock>>
    <3>1. Token(t)' = Token(t) /\ done'[t] = done[t] + n
      BY <1>n, <2>3 DEF Token
    <3>2. Written(Token(t), done[t])
      BY <1>c, <2>0 DEF TaskOf
    <3>3. (Written(Token(t), done[t]))'
      <4>1. Token(t) \in Streams /\ done[t] \in Nat /\ n \in Nat /\ done[t] + n <= Len(Message)
            /\ out' = [out EXCEPT ![Token(t)] = @ \o SubSeq(Message, done[t] + 1, done[t] + n)]
        BY <2>1 DEF Gives
      <4>2. out[Token(t)] \in Seq(Nat) /\ EndsWith(out[Token(t)], done[t])
            /\ out'[Token(t)] = out[Token(t)] \o SubSeq(Message, done[t] + 1, done[t] + n)
        BY <3>2, <4>1 DEF Typed, Written
      <4>3. EndsWith(out'[Token(t)], done'[t])
        <5>1. done'[t] \in Nat /\ done'[t] = done[t] + n
          BY <3>1, <4>1
        <5> QED BY <4>1, <4>2, <5>1, WrittenMore
      <4> QED BY <3>1, <4>3 DEF Written
    <3>4. done[t] + n < Len(Message)
      BY <1>n, <2>1, <2>3, MessageFacts DEF Gives
    <3> QED BY <1>c, <2>0, <2>3, <2>m, <3>1, <3>3, <3>4 DEF TaskOf
  <2> QED BY <2>1, <2>2, <2>3
<1>7. CASE Close(t)
  <2>1. at[t] = "exec" /\ t \notin missed' /\ UNCHANGED <<next_token, lock>> /\ lock = Nobody
    BY <1>7 DEF Close, Executes
  <2>2. CASE Token(t) \in open
    <3>1. open' = open \ {Token(t)} /\ at'[t] = "closing" /\ op' = op
      BY <1>7, <1>n, <2>2 DEF Close, At
    <3> QED BY <1>c, <1>n, <2>1, <3>1 DEF TaskOf, Token
  <2>3. CASE Token(t) \notin open
    <3>1. Finish(t)
      BY <1>7, <2>3 DEF Close
    <3> QED BY <1>f, <1>n, <2>1, <3>1
  <2> QED BY <2>2, <2>3
<1>8. CASE Closed(t)
  <2>1. Finish(t) /\ at[t] = "closing" /\ UNCHANGED <<next_token, lock, missed>>
    BY <1>8 DEF Closed
  <2> QED BY <1>c, <1>f, <1>n, <2>1 DEF TaskOf
<1>9. CASE File(t)
  <2>1. /\ at'[t] = "waiting" /\ at[t] = "suspending" /\ op' = op
        /\ UNCHANGED <<next_token, lock>>
    BY <1>9, <1>n DEF File, At, InGap, net
  <2> QED BY <1>c, <2>1 DEF TaskOf, Token
<1> QED BY <1>1, <1>2, <1>3, <1>4, <1>5, <1>6, <1>7, <1>8, <1>9 DEF Native

(***************************************************************************)
(* Every step keeps what the tasks are doing.                              *)
(***************************************************************************)
LEMMA ControlNext == Typed /\ Buffers /\ Tables /\ Control /\ [Next]_vars => Control'
<1> SUFFICES ASSUME Typed, Buffers, Tables, Control, [Next]_vars, NEW u \in Tasks
             PROVE  TaskOf(u)'
  BY DEF Control
<1>c. TaskOf(u) /\ at \in [Tasks -> Labels]
  BY DEF Control, Typed
<1>k. ASSUME UNCHANGED <<op, done, next_token, open, lock, out>>,
             at'[u] = at[u] \/ (at[u] = "waiting" /\ at'[u] = "exec"),
             u \in missed' => u \in missed \/ Waits(u) \/ InGap(u)
      PROVE  TaskOf(u)'
  <2>1. Token(u)' = Token(u)
    BY <1>k DEF Token
  <2>2. (Written(Token(u), done[u])) => (Written(Token(u), done[u]))'
    BY <1>k, <2>1 DEF Written
  <2> QED BY <1>c, <1>k, <2>1, <2>2 DEF TaskOf, Waits, InGap
<1>1. CASE UNCHANGED vars
  BY <1>1, <1>k DEF vars, net, world, program
<1>2. CASE World
  BY <1>2, <1>k DEF World, Connect, PeerSends, PeerReads, PeerLeaves, net, program
<1>3. CASE IoThread
  <2>1. CASE IoPoll
    BY <1>k, <2>1 DEF IoPoll, net, program
  <2>2. ASSUME NEW tokens, Wake(tokens), UNCHANGED <<next_token, open, lock, out>>
        PROVE  TaskOf(u)'
    BY <1>c, <1>k, <2>2 DEF Wake, Waits
  <2>3. CASE IoClosed \/ IoEvents
    BY <2>2, <2>3 DEF IoClosed, IoEvents, net, world
  <2> QED BY <1>3, <2>1, <2>3 DEF IoThread
<1>4. CASE Import
  BY <1>4, <1>k DEF Import, NestedPoll, NestedClosed, Misses, net, world, program
<1>5. ASSUME NEW t \in Tasks, Begin(t) \/ Native(t) PROVE TaskOf(u)'
  <2>1. CASE u = t
    BY <1>5, <2>1, OwnControl
  <2>2. CASE u # t
    BY <1>5, <2>2, OthersControl
  <2> QED BY <2>1, <2>2
<1> QED BY <1>1, <1>2, <1>3, <1>4, <1>5 DEF Next

(***************************************************************************)
(* At first every task is between two natives.                             *)
(***************************************************************************)
LEMMA StateInit == Init => Tables /\ Buffers /\ Control /\ Woken
<1> SUFFICES ASSUME Init PROVE Tables /\ Buffers /\ Control /\ Woken
  OBVIOUS
<1>1. Tables
  BY DEF Init, Tables, Listener
<1>2. Buffers
  <2>1. Len(<<>>) = 0 /\ Room \in Nat
    OBVIOUS
  <2>2. \A s \in Streams : inbox[s] = 0 /\ sent[s] = 0 /\ drained[s] = 0 /\ Len(out[s]) = 0
    BY <2>1 DEF Init
  <2> QED BY <2>1, <2>2 DEF Buffers, BufferOf
<1>3. ASSUME NEW t \in Tasks PROVE TaskOf(t) /\ WokenOf(t)
  <2>1. at[t] = "ready" /\ op[t] = Idle /\ lock # t /\ missed = {} /\ next_token = 2
    BY DEF Init
  <2>2. Idle.kind = "none" /\ Idle.on = 1
    BY DEF Idle, Listener
  <2> QED BY <2>1, <2>2 DEF TaskOf, WokenOf, Token, Waits, InGap
<1> QED BY <1>1, <1>2, <1>3 DEF Control, Woken

-----------------------------------------------------------------------------
(***************************************************************************)
(* Who is told.                                                            *)
(***************************************************************************)

(***************************************************************************)
(* Whether a native can proceed depends on its own socket only.            *)
(***************************************************************************)
LEMMA SameProceeds ==
  ASSUME Typed, Control, NEW u \in Tasks, op'[u] = op[u],
         Token(u) \in open <=> Token(u) \in open',
         op[u].kind = "accept" => backlog' = backlog,
         Token(u) \in Streams => /\ inbox'[Token(u)] = inbox[Token(u)]
                                 /\ peer'[Token(u)] = peer[Token(u)]
                                 /\ out'[Token(u)] = out[Token(u)]
                                 /\ drained'[Token(u)] = drained[Token(u)]
  PROVE  CanProceed(u)' <=> CanProceed(u)
<1>1. Token(u)' = Token(u)
  BY DEF Token
<1>2. op[u].kind \in {"read", "write", "write_all"} => Token(u) \in Streams
  BY OnStream DEF Control
<1> QED BY <1>1, <1>2 DEF CanProceed, Free

(***************************************************************************)
(* Something that arrives on an open socket is an event of it.             *)
(***************************************************************************)
LEMMA WorldTells ==
  ASSUME Typed, Buffers, Tables, Control, World, NEW u \in Tasks
  PROVE  /\ op' = op /\ edge \subseteq edge'
         /\ CanProceed(u)' => CanProceed(u) \/ Token(u) \in edge'
<1>0. op' = op /\ open' = open /\ edge \subseteq edge'
  BY DEF World, Connect, PeerSends, PeerReads, PeerLeaves, Raise, program, net
<1>1. Token(u)' = Token(u) /\ TaskOf(u)
  BY <1>0 DEF Token, Control
<1>2. CASE Connect
  <2>1. UNCHANGED <<peer, inbox, out, drained>> /\ (Listener \in open => Listener \in edge')
    BY <1>2 DEF Connect, Raise
  <2>2. CASE op[u].kind = "accept"
    <3>1. Token(u) = Listener
      BY <1>1, <2>2 DEF TaskOf
    <3>2. CASE Listener \in open
      BY <1>0, <2>1, <3>1, <3>2
    <3>3. CASE Listener \notin open
      BY <1>0, <3>1, <3>3 DEF CanProceed
    <3> QED BY <3>2, <3>3
  <2>3. CASE op[u].kind # "accept"
    BY <1>0, <2>1, <2>3, SameProceeds
  <2> QED BY <2>2, <2>3
<1>3. ASSUME NEW r \in Streams, PeerSends(r) \/ PeerReads(r) \/ PeerLeaves(r)
      PROVE  CanProceed(u)' => CanProceed(u) \/ Token(u) \in edge'
  <2>1. CASE Token(u) # r
    <3>1. backlog' = backlog
      BY <1>3 DEF PeerSends, PeerReads, PeerLeaves
    <3>2. Token(u) \in Streams => /\ inbox'[Token(u)] = inbox[Token(u)]
                                  /\ peer'[Token(u)] = peer[Token(u)]
                                  /\ out'[Token(u)] = out[Token(u)]
                                  /\ drained'[Token(u)] = drained[Token(u)]
      BY <1>3, <2>1 DEF PeerSends, PeerReads, PeerLeaves, Typed
    <3> QED BY <1>0, <3>1, <3>2, SameProceeds
  <2>2. CASE Token(u) = r
    <3>1. r \in edge' \/ (PeerReads(r) /\ Free(r) # 0)
      BY <1>3 DEF PeerSends, PeerReads, PeerLeaves, Alive, Raise
    <3>2. CASE PeerReads(r) /\ Free(r) # 0
      <4>1. Free(r) > 0
        BY <3>2, FreeFacts
      <4>2. UNCHANGED <<backlog, peer, inbox>>
        BY <3>2 DEF PeerReads
      <4> QED BY <1>0, <1>1, <2>2, <4>1, <4>2 DEF CanProceed
    <3> QED BY <2>2, <3>1, <3>2
  <2> QED BY <2>1, <2>2
<1> QED BY <1>0, <1>2, <1>3 DEF World

(***************************************************************************)
(* A native only takes: what another task waits for does not appear.       *)
(***************************************************************************)
LEMMA NativeTakes ==
  ASSUME Typed, Buffers, Control, NEW t \in Tasks, Begin(t) \/ Native(t)
  PROVE  /\ peer' = peer /\ (backlog' > 0 => backlog > 0)
         /\ \A s \in Streams : /\ inbox'[s] > 0 => inbox[s] > 0
                               /\ Free(s)' > 0 => Free(s) > 0
<1>1. peer' = peer /\ drained' = drained
  BY DEF Begin, Native, Invalid, Blocks, Accept, Read, ReadEnds, Write, WriteAll, WriteMore,
     WriteBlocks, WriteFails, Close, Closed, File, world
<1>2. backlog' > 0 => backlog > 0
  <2>1. Accept(t) => backlog > 0
    BY DEF Accept
  <2>2. ~Accept(t) => backlog' = backlog
    BY DEF Begin, Native, Invalid, Blocks, Read, ReadEnds, Write, WriteAll, WriteMore,
       WriteBlocks, WriteFails, Close, Closed, File, world
  <2> QED BY <2>1, <2>2
<1>3. ASSUME NEW s \in Streams PROVE inbox'[s] > 0 => inbox[s] > 0
  <2>1. CASE Read(t)
    <3>1. Token(t) \in Streams /\ inbox[Token(t)] > 0
      BY <2>1, OnStream DEF Control, Read, Executes
    <3>2. s # Token(t) => inbox'[s] = inbox[s]
      BY <2>1, <3>1 DEF Read, Typed
    <3> QED BY <3>1, <3>2
  <2>2. CASE ~Read(t)
    <3>1. inbox' = inbox
      BY <2>2 DEF Begin, Native, Invalid, Blocks, Accept, ReadEnds, Write, WriteAll, WriteMore,
         WriteBlocks, WriteFails, Close, Closed, File, world
    <3> QED BY <3>1
  <2> QED BY <2>1, <2>2
<1>4. ASSUME NEW s \in Streams PROVE Free(s)' > 0 => Free(s) > 0
  <2>1. CASE Write(t) \/ WriteMore(t)
    <3>1. PICK m \in Nat, n \in Nat : Gives(t, m, n)
      <4>1. 0 \in Nat /\ done[t] \in Nat
        BY DEF Typed
      <4> QED BY <2>1, <4>1, WriteGives, WriteMoreGives
    <3>2. Len(out'[s]) = Len(out[s]) \/ Len(out'[s]) = Len(out[s]) + n
      BY <3>1, GivesFacts
    <3>3. Len(out[s]) \in Nat /\ drained[s] \in Nat /\ Room \in Nat /\ n \in Nat
      BY FreeFacts
    <3> QED BY <1>1, <3>2, <3>3 DEF Free
  <2>2. CASE ~Write(t) /\ ~WriteMore(t)
    BY <1>1, <2>2, NativeBuffers DEF Free
  <2> QED BY <2>1, <2>2
<1> QED BY <1>1, <1>2, <1>3, <1>4

(***************************************************************************)
(* So another task can go on after a native only if it could before, or if *)
(* the native removed its socket.                                          *)
(***************************************************************************)
LEMMA OthersProceed ==
  ASSUME Typed, Buffers, Control, NEW t \in Tasks, Begin(t) \/ Native(t),
         NEW u \in Tasks, op'[u] = op[u], CanProceed(u)'
  PROVE  CanProceed(u) \/ (Token(u) \in open /\ Token(u) \notin open')
<1>1. Token(u)' = Token(u) /\ (op[u].kind \in {"read", "write", "write_all"} => Token(u) \in Streams)
  BY OnStream DEF Token, Control
<1>2. CASE Token(u) \notin open'
  BY <1>2 DEF CanProceed
<1>3. CASE op[u].kind = "accept" /\ backlog' > 0
  BY <1>3, NativeTakes DEF CanProceed
<1>4. CASE op[u].kind = "read" /\ (inbox'[Token(u)] > 0 \/ peer'[Token(u)] # "open")
  BY <1>1, <1>4, NativeTakes DEF CanProceed
<1>5. CASE /\ op[u].kind \in {"write", "write_all"}
           /\ (Free(Token(u)))' > 0 \/ peer'[Token(u)] = "reset"
  <2>1. Token(u) \in Streams /\ \A s : s = Token(u) => Free(s)' = (Free(Token(u)))'
    BY <1>1, <1>5 DEF Free
  <2> QED BY <1>5, <2>1, NativeTakes DEF CanProceed
<1> QED BY <1>1, <1>2, <1>3, <1>4, <1>5 DEF CanProceed

-----------------------------------------------------------------------------
\* What a native of t does to those that tell the waiting tasks.
Keeps(t) == /\ open \subseteq open' /\ edge \subseteq edge' /\ closed_tokens \subseteq closed_tokens'
            /\ at[t] = "closing" => Token(t) \in closed_tokens'
Drops(t) == /\ open' = open \ {Token(t)} /\ edge' = edge \ {Token(t)} /\ closed_tokens' = closed_tokens
            /\ at[t] # "closing"
            /\ \A u \in Tasks \ {t} : Token(u) = Token(t) /\ (Waits(u) \/ InGap(u)) => u \in missed'
Closes(t) == /\ open' = open \ {Token(t)} /\ edge' = edge \ {Token(t)} /\ closed_tokens' = closed_tokens
             /\ at[t] # "closing" /\ at'[t] = "closing" /\ op'[t] = op[t]

(***************************************************************************)
(* A native takes nothing from the waiting tasks, drops a socket without a *)
(* word, or is about to say that it closed one.                            *)
(***************************************************************************)
LEMMA NativeTells ==
  ASSUME Typed, Control, NEW t \in Tasks, Begin(t) \/ Native(t)
  PROVE  /\ Keeps(t) \/ Drops(t) \/ Closes(t)
         /\ events' = events /\ missed \ {t} \subseteq missed'
<1>c. TaskOf(t)
  BY DEF Control
<1> USE DEF net, world, io, Executes
<1>1. CASE Begin(t) \/ Invalid(t) \/ Blocks(t)
  BY <1>1 DEF Begin, Invalid, Blocks, Keeps
<1>2. CASE Accept(t)
  BY <1>2 DEF Accept, Keeps
<1>3. CASE Read(t) \/ Write(t)
  BY <1>3 DEF Read, Write, Keeps
<1>4. CASE ReadEnds(t) \/ WriteFails(t)
  BY <1>4 DEF ReadEnds, WriteFails, Drop, Drops
<1>5. CASE WriteAll(t) \/ WriteBlocks(t)
  BY <1>5 DEF WriteAll, WriteBlocks, Keeps
<1>6. CASE WriteMore(t)
  BY <1>6 DEF WriteMore, Keeps
<1>7. CASE Close(t)
  BY <1>7 DEF Close, At, Typed, Keeps, Closes
<1>8. CASE Closed(t)
  BY <1>8 DEF Closed, Keeps
<1>9. CASE File(t)
  BY <1>9 DEF File, InGap, Keeps
<1> QED BY <1>1, <1>2, <1>3, <1>4, <1>5, <1>6, <1>7, <1>8, <1>9 DEF Native

(***************************************************************************)
(* A native leaves the other tasks told that were told.                    *)
(***************************************************************************)
LEMMA OthersWoken ==
  ASSUME Typed, Buffers, Control, NEW t \in Tasks, Begin(t) \/ Native(t),
         NEW u \in Tasks, u # t, WokenOf(u)
  PROVE  WokenOf(u)'
<1> SUFFICES ASSUME (Waits(u) \/ InGap(u))', CanProceed(u)', u \notin missed'
             PROVE  Told(Token(u))'
  BY DEF WokenOf
<1>1. \A v \in Tasks \ {t} : at'[v] = at[v] /\ op'[v] = op[v]
  BY NativeOthers
<1>2. /\ Keeps(t) \/ Drops(t) \/ Closes(t)
      /\ events' = events /\ u \notin missed
  BY NativeTells
<1>3. Token(u)' = Token(u) /\ (Waits(u) \/ InGap(u)) /\ op'[u] = op[u]
  BY <1>1 DEF Token, Waits, InGap
<1>4. CanProceed(u) \/ (Token(u) \in open /\ Token(u) \notin open')
  BY <1>3, OthersProceed
<1>5. CanProceed(u) => Told(Token(u))
  BY <1>2, <1>3 DEF WokenOf
<1>6. ASSUME NEW v \in Tasks \ {t}, at[v] = "closing", Token(v) = Token(u) PROVE Told(Token(u))'
  BY <1>1, <1>3, <1>6 DEF Told, Token
<1>7. CASE Keeps(t)
  <2>1. Told(Token(u))
    BY <1>4, <1>5, <1>7 DEF Keeps
  <2>2. CASE Token(u) \in edge \cup events \cup closed_tokens
    BY <1>2, <1>3, <1>7, <2>2 DEF Keeps, Told
  <2>3. CASE at[t] = "closing" /\ Token(t) = Token(u)
    BY <1>3, <1>7, <2>3 DEF Keeps, Told
  <2> QED BY <1>6, <2>1, <2>2, <2>3 DEF Told
<1>8. CASE Token(u) # Token(t) /\ (Drops(t) \/ Closes(t))
  <2>1. CanProceed(u) /\ Told(Token(u)) /\ at[t] # "closing"
    BY <1>4, <1>5, <1>8 DEF Drops, Closes
  <2>2. CASE Token(u) \in edge \cup events \cup closed_tokens
    BY <1>2, <1>3, <1>8, <2>2 DEF Drops, Closes, Told
  <2> QED BY <1>6, <2>1, <2>2 DEF Told
<1>9. CASE Token(u) = Token(t) /\ Drops(t)
  BY <1>3, <1>9 DEF Drops
<1>10. CASE Token(u) = Token(t) /\ Closes(t)
  BY <1>3, <1>10 DEF Closes, Told, Token
<1> QED BY <1>2, <1>7, <1>8, <1>9, <1>10

(***************************************************************************)
(* A native suspends its own task only when it cannot go on, and what puts *)
(* the task on the list takes nothing away.                                *)
(***************************************************************************)
LEMMA OwnWoken ==
  ASSUME Typed, Buffers, Control, NEW t \in Tasks, Begin(t) \/ Native(t), WokenOf(t)
  PROVE  WokenOf(t)'
<1>c. TaskOf(t) /\ at \in [Tasks -> Labels]
  BY DEF Control, Typed
<1>1. CASE Blocks(t)
  <2>1. ~CanProceed(t) /\ UNCHANGED <<op, open, backlog, inbox, peer, out, drained>>
    BY <1>1 DEF Blocks, Suspend, net, world
  <2>2. ~CanProceed(t)'
    BY <2>1 DEF CanProceed, Token, Free
  <2> QED BY <2>2 DEF WokenOf
<1>2. CASE WriteBlocks(t)
  <2>1. /\ UNCHANGED <<op, open, backlog, inbox, peer, out, drained>>
        /\ peer[Token(t)] # "reset" /\ Free(Token(t)) = 0
        /\ op[t].kind = "write_all" /\ Token(t) \in open
    BY <1>2, <1>c DEF WriteBlocks, Suspend, world, TaskOf
  <2>2. ~CanProceed(t)'
    BY <2>1 DEF CanProceed, Token, Free
  <2> QED BY <2>2 DEF WokenOf
<1>3. CASE File(t)
  <2>1. InGap(t) /\ UNCHANGED <<op, open, backlog, inbox, peer, out, drained, edge, events,
                                closed_tokens, missed>>
    BY <1>3 DEF File, net, world, io
  <2>2. CanProceed(t)' <=> CanProceed(t)
    BY <2>1 DEF CanProceed, Token, Free
  <2>3. Told(Token(t)) => Told(Token(t))'
    <3>1. \A u \in Tasks : at[u] = "closing" => at'[u] = "closing"
      BY <1>3, <1>c DEF File, At, InGap
    <3> QED BY <2>1, <3>1 DEF Told, Token
  <2> QED BY <2>1, <2>2, <2>3 DEF WokenOf
<1>4. CASE ~Blocks(t) /\ ~WriteBlocks(t) /\ ~File(t)
  <2>1. at'[t] \notin {"waiting", "suspending"}
    <3> USE <1>c DEF At, Finish, Drop
    <3>1. CASE Begin(t) \/ Invalid(t) \/ Accept(t) \/ Read(t) \/ Write(t)
      BY <3>1 DEF Begin, Invalid, Accept, Read, Write
    <3>2. CASE ReadEnds(t) \/ WriteFails(t) \/ WriteAll(t) \/ Closed(t)
      BY <3>2 DEF ReadEnds, WriteFails, WriteAll, Closed
    <3>3. CASE WriteMore(t) \/ Close(t)
      BY <3>3 DEF WriteMore, Close, Executes
    <3> QED BY <1>4, <3>1, <3>2, <3>3 DEF Native
  <2> QED BY <2>1 DEF WokenOf, Waits, InGap
<1> QED BY <1>1, <1>2, <1>3, <1>4

(***************************************************************************)
(* The I/O threads wake the tasks whose tokens they consume, or miss them. *)
(***************************************************************************)
LEMMA ThreadsWoken ==
  ASSUME Typed, Tables, NEW u \in Tasks, WokenOf(u), IoThread \/ Import \/ UNCHANGED vars
  PROVE  WokenOf(u)'
<1> SUFFICES ASSUME (Waits(u) \/ InGap(u))', CanProceed(u)', u \notin missed'
             PROVE  Told(Token(u))'
  BY DEF WokenOf
<1>1. UNCHANGED <<op, peer, inbox, out, drained, backlog, open>> /\ missed \subseteq missed'
  BY ThreadBuffers DEF IoThread, IoPoll, IoClosed, IoEvents, Wake, Import, NestedPoll, NestedClosed,
     Misses, program, vars
<1>2. CanProceed(u) /\ Token(u)' = Token(u)
  BY <1>1 DEF CanProceed, Token, Free
<1>3. /\ at'[u] = at[u]
      /\ \A v \in Tasks : at[v] = "closing" => at'[v] = "closing"
  BY DEF IoThread, IoPoll, IoClosed, IoEvents, Wake, Waits, InGap, Import, NestedPoll, NestedClosed,
     program, vars
<1>4. Told(Token(u)) /\ (Waits(u) \/ InGap(u))
  BY <1>1, <1>2, <1>3 DEF WokenOf, Waits, InGap
<1>5. ASSUME Token(u) \in edge \cup events \cup closed_tokens =>
               Token(u) \in edge' \cup events' \cup closed_tokens'
      PROVE  Told(Token(u))'
  <2>1. \A v \in Tasks : Token(v)' = Token(v)
    BY <1>1 DEF Token
  <2> QED BY <1>2, <1>3, <1>4, <1>5, <2>1 DEF Told
<1>6. CASE IoPoll
  <2>1. events = {} /\ events' = edge /\ closed_tokens' = closed_tokens
    BY <1>6 DEF IoPoll, Tables, net
  <2> QED BY <1>5, <2>1
<1>7. CASE IoClosed
  <2>1. Token(u) \notin closed_tokens
    BY <1>2, <1>4, <1>7 DEF IoClosed, Wake, Waits, InGap
  <2>2. UNCHANGED <<events, edge>>
    BY <1>7 DEF IoClosed, world
  <2> QED BY <1>5, <2>1, <2>2
<1>8. CASE IoEvents
  <2>1. Token(u) \notin events
    BY <1>2, <1>4, <1>8 DEF IoEvents, Wake, Waits, InGap
  <2>2. UNCHANGED <<closed_tokens, edge>>
    BY <1>8 DEF IoEvents, world, net
  <2> QED BY <1>5, <2>1, <2>2
<1>9. CASE NestedPoll
  <2>1. Token(u) \notin edge
    BY <1>2, <1>4, <1>9 DEF NestedPoll, Misses
  <2>2. UNCHANGED <<closed_tokens, events>>
    BY <1>9 DEF NestedPoll, net
  <2> QED BY <1>5, <2>1, <2>2
<1>10. CASE NestedClosed
  <2>1. Token(u) \notin closed_tokens
    BY <1>2, <1>4, <1>10 DEF NestedClosed, Misses
  <2>2. UNCHANGED <<edge, events>>
    BY <1>10 DEF NestedClosed, world
  <2> QED BY <1>5, <2>1, <2>2
<1>11. CASE UNCHANGED vars
  BY <1>5, <1>11 DEF vars, net, world, io
<1> QED BY <1>6, <1>7, <1>8, <1>9, <1>10, <1>11 DEF IoThread, Import

(***************************************************************************)
(* Every step leaves the tasks told that wait or are about to.             *)
(***************************************************************************)
LEMMA WokenNext == Typed /\ Tables /\ Buffers /\ Control /\ Woken /\ [Next]_vars => Woken'
<1> SUFFICES ASSUME Typed, Tables, Buffers, Control, Woken, [Next]_vars, NEW u \in Tasks
             PROVE  WokenOf(u)'
  BY DEF Woken
<1>0. WokenOf(u)
  BY DEF Woken
<1>1. CASE World
  <2>1. /\ op' = op /\ edge \subseteq edge' /\ (CanProceed(u)' => CanProceed(u) \/ Token(u) \in edge')
        /\ UNCHANGED <<at, missed, events, closed_tokens>>
    BY <1>1, WorldTells DEF World, Connect, PeerSends, PeerReads, PeerLeaves, net, io, program
  <2>2. \A v \in Tasks : Token(v)' = Token(v)
    BY <2>1 DEF Token
  <2>3. Told(Token(u)) \/ Token(u) \in edge' => Told(Token(u))'
    BY <2>1, <2>2 DEF Told
  <2> QED BY <1>0, <2>1, <2>3 DEF WokenOf, Waits, InGap
<1>2. CASE IoThread \/ Import \/ UNCHANGED vars
  BY <1>0, <1>2, ThreadsWoken
<1>3. ASSUME NEW t \in Tasks, Begin(t) \/ Native(t) PROVE WokenOf(u)'
  <2>1. CASE u = t
    BY <1>0, <1>3, <2>1, OwnWoken
  <2>2. CASE u # t
    BY <1>0, <1>3, <2>2, OthersWoken
  <2> QED BY <2>1, <2>2
<1> QED BY <1>1, <1>2, <1>3 DEF Next

-----------------------------------------------------------------------------
(***************************************************************************)
(* The theorems.                                                           *)
(***************************************************************************)

(***************************************************************************)
(* The inductive invariant: the lock of streams is held by the one task    *)
(* that loops, the bytes it has given to the kernel are a first part of    *)
(* its message, and a task that waits or is about to is told as soon as    *)
(* its native could proceed, unless it is one of those that were missed.   *)
(***************************************************************************)
THEOREM Invariant == Spec => []IInv
<1>1. Init => IInv
  BY TypedInit, StateInit DEF IInv
<1>2. IInv /\ [Next]_vars => IInv'
  BY TypedNext, TablesNext, BuffersNext, ControlNext, WokenNext DEF IInv
<1> QED BY <1>1, <1>2, PTL DEF Spec

(***************************************************************************)
(* The tables, the buffers and the lock of streams are what net.rs takes   *)
(* them to be: tokens of open sockets only are registered, none of them is *)
(* a closed one, and exactly the task in the loop of write_all holds the   *)
(* lock.                                                                   *)
(***************************************************************************)
THEOREM TypesHold == Spec => []TypeOK
<1>1. IInv => TypeOK
  <2> SUFFICES ASSUME IInv PROVE TypeOK
    OBVIOUS
  <2>1. Typed /\ Tables /\ Buffers /\ Control
    BY DEF IInv
  <2>2. ASSUME NEW s \in Streams PROVE Free(s) \in 0 .. Room /\ inbox[s] \in 0 .. sent[s]
    BY <2>1, FreeFacts DEF Buffers, BufferOf
  <2>3. ASSUME NEW t \in Tasks
        PROVE  /\ at[t] \in {"ready", "exec", "looping", "suspending", "waiting", "closing"}
               /\ (at[t] = "ready") = (op[t] = Idle)
               /\ (at[t] = "looping") = (lock = t)
               /\ at[t] = "looping" => Token(t) \in open /\ done[t] < Len(Message)
    <3>1. TaskOf(t) /\ at[t] \in Labels
      BY <2>1 DEF Control, Typed
    <3> QED BY <3>1 DEF TaskOf, Labels
  <2>4. missed \subseteq {t \in Tasks : Waits(t) \/ InGap(t) \/ at[t] = "exec"}
    BY <2>1 DEF Control, TaskOf, Typed, Waits, InGap
  <2> QED BY <2>1, <2>2, <2>3, <2>4 DEF TypeOK, Typed, Tables
<1> QED BY <1>1, Invariant, PTL

(***************************************************************************)
(* Wakeups: for every task on waiting_io_tasks whose native could proceed  *)
(* there is an event, a closed token or the end of a net.close under way,  *)
(* unless the task is one of those that were missed.                       *)
(***************************************************************************)
THEOREM WakeupsPending == Spec => []WakeupPending
<1>1. IInv => WakeupPending
  BY DEF IInv, Woken, WokenOf, Told, WakeupPending
<1> QED BY <1>1, Invariant, PTL

-----------------------------------------------------------------------------
(***************************************************************************)
(* A sequence read backwards.                                              *)
(***************************************************************************)
LEMMA ReverseFacts ==
  ASSUME NEW b \in Seq(Nat), NEW n \in Nat, n = Len(b)
  PROVE  /\ Reverse(b) \in Seq(Nat) /\ Len(Reverse(b)) = n
         /\ \A i \in 1 .. n : Reverse(b)[i] = b[n - i + 1]
<1> DEFINE r == [i \in 1 .. n |-> b[n - i + 1]]
<1>1. Reverse(b) = r
  BY DEF Reverse
<1>2. \A i \in 1 .. n : b[n - i + 1] \in Nat
  <2>1. \A i \in 1 .. n : n - i + 1 \in 1 .. Len(b)
    OBVIOUS
  <2> QED BY <2>1, ElementOfSeq
<1>3. r \in [1 .. n -> Nat] /\ DOMAIN r = 1 .. n
  BY <1>2
<1>4. \A i \in 1 .. n : r[i] = b[n - i + 1]
  OBVIOUS
<1> HIDE DEF r
<1>5. r \in Seq(Nat)
  BY <1>3, SeqDef
<1>6. Len(r) \in Nat /\ 1 .. Len(r) = 1 .. n
  BY <1>3, <1>5, LenProperties
<1>7. Len(r) = n
  BY <1>6
<1> QED BY <1>1, <1>4, <1>5, <1>7

(***************************************************************************)
(* Two sequences with the same first n elements have the same n-prefix.    *)
(***************************************************************************)
LEMMA SamePrefix ==
  ASSUME NEW a \in Seq(Nat), NEW b \in Seq(Nat), NEW n \in Nat, n <= Len(a), n <= Len(b),
         \A i \in 1 .. n : a[i] = b[i]
  PROVE  SubSeq(a, 1, n) = SubSeq(b, 1, n)
<1>1. Len(a) \in Nat /\ Len(b) \in Nat
  BY LenProperties
<1>2. \A i \in 1 .. n : a[i] \in Nat /\ b[i] \in Nat
  <2>1. \A i \in 1 .. n : i \in 1 .. Len(a) /\ i \in 1 .. Len(b)
    BY <1>1
  <2> QED BY <2>1, ElementOfSeq
<1>3. 1 \in Int /\ n \in Int
  OBVIOUS
<1>4. ASSUME NEW c \in {a, b}
      PROVE  /\ SubSeq(c, 1, n) \in Seq(Nat) /\ Len(SubSeq(c, 1, n)) = n
             /\ \A i \in 1 .. n : SubSeq(c, 1, n)[i] = c[i]
  <2>1. \A i \in 1 .. n : c[i] \in Nat
    BY <1>2
  <2>2. /\ SubSeq(c, 1, n) \in Seq(Nat)
        /\ Len(SubSeq(c, 1, n)) = IF 1 <= n THEN n - 1 + 1 ELSE 0
        /\ \A i \in 1 .. n - 1 + 1 : SubSeq(c, 1, n)[i] = c[1 + i - 1]
    BY <1>3, <2>1, SubSeqProperties
  <2> QED BY <2>2
<1> DEFINE p == SubSeq(a, 1, n)
           q == SubSeq(b, 1, n)
<1>5. p \in Seq(Nat) /\ q \in Seq(Nat) /\ Len(p) = n /\ Len(q) = n
      /\ \A i \in 1 .. n : p[i] = q[i]
  BY <1>4
<1> HIDE DEF p, q
<1>6. p = q
  BY <1>5, SeqEqual
<1> QED BY <1>6 DEF p, q

(***************************************************************************)
(* A buffer that ends with the whole message has it as a suffix.           *)
(***************************************************************************)
LEMMA EndsWithAll ==
  ASSUME NEW b \in Seq(Nat), EndsWith(b, Len(Message))
  PROVE  IsSuffix(Message, b)
<1>1. PICK l \in Nat, n \in Nat : l = Len(b) /\ n = Len(Message)
  BY MessageFacts, LenProperties
<1>2. n <= l /\ \A i \in 1 .. n : b[l - n + i] = Message[i]
  BY <1>1 DEF EndsWith
<1>3. /\ Reverse(Message) \in Seq(Nat) /\ Len(Reverse(Message)) = n
      /\ \A i \in 1 .. n : Reverse(Message)[i] = Message[n - i + 1]
  BY <1>1, MessageFacts, ReverseFacts
<1>4. /\ Reverse(b) \in Seq(Nat) /\ Len(Reverse(b)) = l
      /\ \A i \in 1 .. l : Reverse(b)[i] = b[l - i + 1]
  BY <1>1, ReverseFacts
<1>5. ASSUME NEW i \in 1 .. n PROVE Reverse(Message)[i] = Reverse(b)[i]
  <2>1. n - i + 1 \in 1 .. n /\ i \in 1 .. l /\ l - n + (n - i + 1) = l - i + 1
    BY <1>2
  <2>2. b[l - n + (n - i + 1)] = Message[n - i + 1]
    BY <1>2, <2>1
  <2>3. Reverse(Message)[i] = Message[n - i + 1] /\ Reverse(b)[i] = b[l - i + 1]
    BY <1>3, <1>4, <2>1
  <2> QED BY <2>1, <2>2, <2>3
<1>6. SubSeq(Reverse(Message), 1, n) = SubSeq(Reverse(b), 1, n)
  BY <1>2, <1>3, <1>4, <1>5, SamePrefix
<1> QED BY <1>2, <1>3, <1>4, <1>6, SMTT(60) DEF IsSuffix, IsPrefix

(***************************************************************************)
(* A write_all that answers ok has given the kernel its whole message, as  *)
(* its last bytes and in one piece, whatever other tasks wrote meanwhile   *)
(* and however often the native was suspended and began again.             *)
(***************************************************************************)
THEOREM WritesAreWhole == Spec => WriteAllWhole
<1> DEFINE Whole(t) ==
      op[t].kind = "write_all" /\ at[t] = "looping" /\ at'[t] = "ready" /\ Token(t) \in open'
        => IsSuffix(Message, out'[Token(t)])
<1>1. ASSUME IInv, [Next]_vars, NEW t \in Tasks PROVE Whole(t)
  <2> SUFFICES ASSUME at[t] = "looping", at'[t] = "ready", Token(t) \in open'
               PROVE  IsSuffix(Message, out'[Token(t)])
    OBVIOUS
  <2>0. Typed /\ Buffers /\ Control /\ TaskOf(t) /\ at \in [Tasks -> Labels]
    BY <1>1 DEF IInv, Control, Typed
  <2>1. Native(t)
    <3>1. ~UNCHANGED vars /\ ~World /\ ~Import
      BY DEF vars, World, Connect, PeerSends, PeerReads, PeerLeaves, Import, NestedPoll, NestedClosed,
         program
    <3>2. ~IoThread
      BY DEF IoThread, IoPoll, IoClosed, IoEvents, Wake, program
    <3>3. \A u \in Tasks : (Begin(u) \/ Native(u)) => u = t
      BY <2>0, NativeOthers
    <3>4. ~Begin(t)
      BY DEF Begin
    <3> QED BY <1>1, <3>1, <3>2, <3>3, <3>4 DEF Next
  <2>2. WriteMore(t)
    <3>1. ~Invalid(t) /\ ~Blocks(t) /\ ~Accept(t) /\ ~Read(t) /\ ~ReadEnds(t) /\ ~Write(t)
          /\ ~WriteAll(t) /\ ~Close(t) /\ ~Closed(t) /\ ~File(t)
      BY DEF Invalid, Blocks, Accept, Read, ReadEnds, Write, WriteAll, Close, Closed, File, Executes,
         InGap
    <3>2. ~WriteBlocks(t)
      BY <2>0 DEF WriteBlocks, Suspend, At
    <3>3. ~WriteFails(t)
      BY DEF WriteFails, Drop
    <3> QED BY <2>1, <3>1, <3>2, <3>3 DEF Native
  <2>3. PICK n \in Nat : Gives(t, done[t], n) /\ done[t] + n = Len(Message)
    <3>1. PICK n \in Nat :
             /\ Gives(t, done[t], n)
             /\ \/ done[t] + n = Len(Message)
                \/ UNCHANGED at
      BY <2>0, <2>2, WriteMoreGives
    <3> QED BY <3>1
  <2>4. /\ Token(t) \in Streams /\ done[t] \in Nat /\ done[t] + n <= Len(Message)
        /\ out' = [out EXCEPT ![Token(t)] = @ \o SubSeq(Message, done[t] + 1, done[t] + n)]
    BY <2>3 DEF Gives
  <2>5. /\ out[Token(t)] \in Seq(Nat) /\ EndsWith(out[Token(t)], done[t])
        /\ out'[Token(t)] = out[Token(t)] \o SubSeq(Message, done[t] + 1, done[t] + n)
    BY <2>0, <2>4 DEF Typed, Written, TaskOf
  <2>6. Len(Message) \in Nat
    BY MessageFacts
  <2>7. EndsWith(out'[Token(t)], Len(Message))
    BY <2>3, <2>4, <2>5, <2>6, WrittenMore
  <2>8. out'[Token(t)] \in Seq(Nat)
    <3>1. out' \in [Streams -> Seq(Nat)]
      BY <1>1, <2>0, TypedNext DEF Typed
    <3> QED BY <2>4, <3>1
  <2> QED BY <2>7, <2>8, EndsWithAll
<1>2. IInv /\ [Next]_vars => [\A t \in Tasks : Whole(t)]_vars
  BY <1>1
<1> QED BY <1>2, Invariant, PTL DEF WriteAllWhole, Spec
=============================================================================

------------------------------ MODULE Reactor -------------------------------
(***************************************************************************)
(* The sockets of Whalli (src/src/stdlib/net.rs) and the thread that polls *)
(* them (src/src/vm.rs).  A native that cannot go on answers SuspendIO; its *)
(* worker puts the task on waiting_io_tasks a moment later.  The I/O       *)
(* thread wakes the tasks on that list whose token has an event, or whose  *)
(* socket was closed; a task that is woken executes the native again.      *)
(*                                                                         *)
(* mio registers sockets edge-triggered: an event is reported once, when   *)
(* something arrives or room appears, never because something is there.    *)
(* Its kernel side and the peers are modelled from what net.rs relies on.  *)
(*                                                                         *)
(* An import of a file runs a second machine, with an I/O thread and a     *)
(* waiting list of its own, on the same sockets.                           *)
(***************************************************************************)
EXTENDS Integers, Sequences, FiniteSets, SequencesExt

CONSTANTS
  Tasks, Nobody,  \* the tasks, and the holder of a free lock
  Kinds,          \* Kinds[t]: the natives the program of t calls
  MaxStreams,     \* bound: connections
  MaxOps,         \* bound: MaxOps[t], the natives t calls
  MaxBytes,       \* bound: bytes a peer sends on a stream, and reads from it
  Room,           \* bytes the send buffer of a socket holds
  Message         \* what the tasks write

ASSUME TasksAssumption == IsFiniteSet(Tasks) /\ Nobody \notin Tasks
ASSUME KindsAssumption ==
  Kinds \in [Tasks -> SUBSET {"accept", "read", "write", "write_all", "close"}]
ASSUME MessageAssumption == Message \in Seq(Nat) \ {<<>>}
ASSUME BoundsAssumption ==
  {MaxStreams, MaxBytes} \subseteq Nat /\ Room \in Nat \ {0} /\ MaxOps \in [Tasks -> Nat]

Listener == 1
Streams == 2 .. MaxStreams + 1
Tokens == {Listener} \cup Streams

VARIABLES
  next_token,     \* the token of the next connection
  open,           \* the keys of listeners and streams
  lock,           \* the task that holds streams.write() in a loop
  closed_tokens,  \* closed by net.close, not yet seen by the I/O thread
  backlog,        \* connections not yet accepted
  peer,           \* peer[s]: open, shut (end of file) or reset
  inbox, sent,    \* bytes to read; history: bytes the peer sent
  out, drained,   \* bytes given to the kernel; how many the peer read
  edge,           \* tokens with an event mio has not reported
  events, ioPc,   \* events of the last poll; where the I/O thread is
  nestedPc,       \* where the I/O thread of a module being imported is
  at, op, done,   \* where a task is, its native, bytes written_all so far
  left,           \* natives left
  missed          \* history: tasks that were not told (see WakeupPending)

net == <<next_token, open, lock, closed_tokens>>
world == <<backlog, peer, inbox, sent, out, drained, edge>>
io == <<events, ioPc, nestedPc>>
program == <<at, op, done, left>>
vars == <<net, world, io, program, missed>>

Idle == [kind |-> "none", on |-> Listener]

Init ==
  /\ next_token = 2 /\ open = {Listener} /\ lock = Nobody /\ closed_tokens = {}
  /\ backlog = 0
  /\ peer = [s \in Streams |-> "open"]
  /\ inbox = [s \in Streams |-> 0] /\ sent = [s \in Streams |-> 0]
  /\ out = [s \in Streams |-> <<>>] /\ drained = [s \in Streams |-> 0]
  /\ edge = {} /\ events = {} /\ ioPc = "poll"
  /\ nestedPc = "poll"
  /\ at = [t \in Tasks |-> "ready"] /\ op = [t \in Tasks |-> Idle]
  /\ done = [t \in Tasks |-> 0] /\ left = MaxOps
  /\ missed = {}

Token(t) == op[t].on
Waits(t) == at[t] = "waiting"        \* on waiting_io_tasks
InGap(t) == at[t] = "suspending"     \* SuspendIO answered, not yet on the list

Free(s) == Room - (Len(out[s]) - drained[s])

\* How many of k bytes the kernel takes.
Takes(s, k) == IF Free(s) < k THEN Free(s) ELSE k

\* The native of t would not answer SuspendIO if it were executed now.
CanProceed(t) ==
  LET s == Token(t) IN
  \/ s \notin open
  \/ op[t].kind = "accept" /\ backlog > 0
  \/ op[t].kind = "read" /\ (inbox[s] > 0 \/ peer[s] # "open")
  \/ op[t].kind \in {"write", "write_all"} /\ (Free(s) > 0 \/ peer[s] = "reset")

-----------------------------------------------------------------------------
(***************************************************************************)
(* The peers and the kernel.                                               *)
(***************************************************************************)
\* Only a registered socket has events.
Raise(s) == edge' = IF s \in open THEN edge \cup {s} ELSE edge

Connect ==
  /\ backlog + next_token <= MaxStreams + 1
  /\ backlog' = backlog + 1
  /\ Raise(Listener)
  /\ UNCHANGED <<peer, inbox, sent, out, drained, net, io, program, missed>>

Alive(s) == s \in open /\ peer[s] = "open"

PeerSends(s) ==
  /\ Alive(s) /\ sent[s] < MaxBytes
  /\ inbox' = [inbox EXCEPT ![s] = @ + 1]
  /\ sent' = [sent EXCEPT ![s] = @ + 1]
  /\ Raise(s)
  /\ UNCHANGED <<backlog, peer, out, drained, net, io, program, missed>>

\* The peer reads a byte: when the buffer was full, there is room again.
PeerReads(s) ==
  /\ Alive(s) /\ drained[s] < Len(out[s]) /\ drained[s] < MaxBytes
  /\ drained' = [drained EXCEPT ![s] = @ + 1]
  /\ IF Free(s) = 0 THEN Raise(s) ELSE UNCHANGED edge
  /\ UNCHANGED <<backlog, peer, inbox, sent, out, net, io, program, missed>>

PeerLeaves(s) ==
  /\ Alive(s)
  /\ \E how \in {"shut", "reset"} : peer' = [peer EXCEPT ![s] = how]
  /\ Raise(s)
  /\ UNCHANGED <<backlog, inbox, sent, out, drained, net, io, program, missed>>

World == Connect \/ \E s \in Streams : PeerSends(s) \/ PeerReads(s) \/ PeerLeaves(s)

-----------------------------------------------------------------------------
(***************************************************************************)
(* The natives.  Each is one step under the lock of its table, except      *)
(* write_all, which loops, and close, which locks again.                   *)
(***************************************************************************)
At(t, label) == at' = [at EXCEPT ![t] = label]

\* The program calls its next native, on a token it once was given.
Begin(t) ==
  /\ at[t] = "ready" /\ left[t] > 0
  /\ \E k \in Kinds[t], s \in 1 .. next_token - 1 :
       /\ (k = "accept") => s = Listener
       /\ (k \in {"read", "write", "write_all"}) => s # Listener
       /\ op' = [op EXCEPT ![t] = [kind |-> k, on |-> s]]
  /\ left' = [left EXCEPT ![t] = @ - 1]
  /\ At(t, "exec")
  /\ UNCHANGED <<done, net, world, io, missed>>

Executes(t, kind) ==
  at[t] = "exec" /\ op[t].kind = kind /\ lock = Nobody /\ missed' = missed \ {t}

\* NativeResult::Return.
Finish(t) == At(t, "ready") /\ op' = [op EXCEPT ![t] = Idle] /\ UNCHANGED <<left>>

\* NativeResult::SuspendIO: the operands are pushed back and ip is moved back.
Suspend(t) == At(t, "suspending") /\ UNCHANGED <<op, left>>

\* The table has no such token.
Invalid(t) ==
  /\ \E k \in {"accept", "read", "write", "write_all"} : Executes(t, k)
  /\ Token(t) \notin open
  /\ Finish(t)
  /\ UNCHANGED <<done, net, world, io>>

\* The native would block.
Blocks(t) ==
  /\ \E k \in {"accept", "read", "write"} : Executes(t, k)
  /\ ~CanProceed(t)
  /\ Suspend(t)
  /\ UNCHANGED <<done, net, world, io>>

\* A connection is registered, which finds it writable, and stored.
Accept(t) ==
  /\ Executes(t, "accept") /\ Listener \in open /\ backlog > 0
  /\ backlog' = backlog - 1
  /\ next_token' = next_token + 1
  /\ open' = open \cup {next_token}
  /\ edge' = edge \cup {next_token}
  /\ Finish(t)
  /\ UNCHANGED <<lock, closed_tokens, peer, inbox, sent, out, drained, done, io>>

\* End of file, or an error: the stream is dropped, which deregisters it, and
\* nobody is told.
Drop(t) ==
  LET s == Token(t) IN
  /\ open' = open \ {s}
  /\ edge' = edge \ {s}
  /\ missed' = (missed \ {t}) \cup {u \in Tasks \ {t} : Token(u) = s /\ (Waits(u) \/ InGap(u))}
  /\ Finish(t)

\* read and read_until: some of the bytes, or the end of the stream.
Read(t) ==
  LET s == Token(t) IN
  /\ Executes(t, "read") /\ s \in open /\ inbox[s] > 0 /\ peer[s] # "reset"
  /\ \E n \in 1 .. inbox[s] : inbox' = [inbox EXCEPT ![s] = @ - n]
  /\ Finish(t)
  /\ UNCHANGED <<done, net, backlog, peer, sent, out, drained, edge, io>>

ReadEnds(t) ==
  LET s == Token(t) IN
  /\ at[t] = "exec" /\ op[t].kind = "read" /\ lock = Nobody /\ s \in open
  /\ peer[s] = "reset" \/ (peer[s] = "shut" /\ inbox[s] = 0)
  /\ Drop(t)
  /\ UNCHANGED <<next_token, lock, closed_tokens, done, backlog, peer, inbox, sent, out, drained, io>>

\* write: one call of the kernel, whatever part of the message it took.
Write(t) ==
  LET s == Token(t) IN
  /\ Executes(t, "write") /\ s \in open /\ peer[s] # "reset" /\ Free(s) > 0
  /\ out' = [out EXCEPT ![s] = @ \o SubSeq(Message, 1, Takes(s, Len(Message)))]
  /\ Finish(t)
  /\ UNCHANGED <<done, net, backlog, peer, inbox, sent, drained, edge, io>>

\* write_all takes the lock of streams for its loop.
WriteAll(t) ==
  /\ Executes(t, "write_all") /\ Token(t) \in open
  /\ lock' = t
  /\ done' = [done EXCEPT ![t] = 0]
  /\ At(t, "looping")
  /\ UNCHANGED <<op, left, next_token, open, closed_tokens, world, io>>

\* One turn: a call of the kernel, after the last of which the native returns.
WriteMore(t) ==
  LET s == Token(t)
      n == Takes(s, Len(Message) - done[t]) IN
  /\ at[t] = "looping" /\ peer[s] # "reset" /\ n > 0
  /\ out' = [out EXCEPT ![s] = @ \o SubSeq(Message, done[t] + 1, done[t] + n)]
  /\ IF done[t] + n = Len(Message)
     THEN Finish(t) /\ lock' = Nobody /\ done' = [done EXCEPT ![t] = 0]
     ELSE done' = [done EXCEPT ![t] = @ + n] /\ UNCHANGED <<at, op, left, lock>>
  /\ UNCHANGED <<next_token, open, closed_tokens, backlog, peer, inbox, sent, drained, edge, io, missed>>

\* Mutant: a full buffer ends the loop as if everything had been written.
WriteBlocksOk(t) ==
  /\ at[t] = "looping" /\ peer[Token(t)] # "reset" /\ Free(Token(t)) = 0
  /\ Finish(t)
  /\ lock' = Nobody
  /\ done' = [done EXCEPT ![t] = 0]
  /\ UNCHANGED <<next_token, open, closed_tokens, world, io, missed>>

\* The buffer is full: what has been written is forgotten, and executed again
\* the native begins with the first byte.
WriteBlocks(t) ==
  /\ at[t] = "looping" /\ peer[Token(t)] # "reset" /\ Free(Token(t)) = 0
  /\ Suspend(t)
  /\ lock' = Nobody
  /\ done' = [done EXCEPT ![t] = 0]
  /\ UNCHANGED <<next_token, open, closed_tokens, world, io, missed>>

WriteFails(t) ==
  LET s == Token(t) IN
  /\ \/ at[t] = "exec" /\ op[t].kind = "write" /\ lock = Nobody
     \/ at[t] = "looping"
  /\ s \in open /\ peer[s] = "reset"
  /\ Drop(t)
  /\ lock' = Nobody
  /\ done' = [done EXCEPT ![t] = 0]
  /\ UNCHANGED <<next_token, closed_tokens, backlog, peer, inbox, sent, out, drained, io>>

\* Mutant: close does not deregister the socket.
CloseKeepsEvents(t) ==
  /\ Executes(t, "close")
  /\ IF Token(t) \in open THEN /\ open' = open \ {Token(t)}
                               /\ At(t, "closing") /\ UNCHANGED <<op, left>>
     ELSE Finish(t) /\ UNCHANGED open
  /\ UNCHANGED <<next_token, lock, closed_tokens, done, world, io>>

\* close removes and deregisters the socket.
Close(t) ==
  LET s == Token(t) IN
  /\ Executes(t, "close")
  /\ IF s \in open THEN /\ open' = open \ {s}
                        /\ edge' = edge \ {s}
                        /\ At(t, "closing") /\ UNCHANGED <<op, left>>
     ELSE Finish(t) /\ UNCHANGED <<open, edge>>
  /\ UNCHANGED <<next_token, lock, closed_tokens, done, backlog, peer, inbox, sent, out, drained, io>>

\* Mutant: close tells nobody.
ClosedUntold(t) ==
  /\ at[t] = "closing"
  /\ Finish(t)
  /\ UNCHANGED <<closed_tokens, next_token, open, lock, done, world, io, missed>>

\* Later it tells the I/O thread.
Closed(t) ==
  /\ at[t] = "closing"
  /\ closed_tokens' = closed_tokens \cup {Token(t)}
  /\ Finish(t)
  /\ UNCHANGED <<next_token, open, lock, done, world, io, missed>>

\* The worker puts the task on waiting_io_tasks.
File(t) == /\ InGap(t)
           /\ At(t, "waiting")
           /\ UNCHANGED <<op, done, left, net, world, io, missed>>

Native(t) == \/ Invalid(t) \/ Blocks(t) \/ Accept(t) \/ Read(t) \/ ReadEnds(t)
             \/ Write(t) \/ WriteAll(t) \/ WriteMore(t) \/ WriteBlocks(t)
             \/ WriteFails(t) \/ Close(t) \/ Closed(t) \/ File(t)

-----------------------------------------------------------------------------
(***************************************************************************)
(* The I/O thread: poll, then the closed tokens, then the events.          *)
(***************************************************************************)
IoPoll == /\ ioPc = "poll"
          /\ events' = edge /\ edge' = {}
          /\ ioPc' = "closed"
          /\ UNCHANGED <<backlog, peer, inbox, sent, out, drained, net, program, nestedPc, missed>>

\* The waiting tasks of the tokens go to the injector; those still on their
\* way to the list do not.
Wake(tokens) ==
  /\ at' = [t \in Tasks |-> IF Waits(t) /\ Token(t) \in tokens THEN "exec" ELSE at[t]]
  /\ missed' = missed \cup {t \in Tasks : InGap(t) /\ Token(t) \in tokens /\ CanProceed(t)}
  /\ UNCHANGED <<op, done, left>>

IoClosed == /\ ioPc = "closed"
            /\ Wake(closed_tokens)
            /\ closed_tokens' = {}
            /\ ioPc' = "events"
            /\ UNCHANGED <<events, next_token, open, lock, world, nestedPc>>

\* Mutant: one waiting task per event.
IoEventsOne ==
  /\ ioPc = "events"
  /\ \/ \E t \in Tasks : Waits(t) /\ Token(t) \in events /\ At(t, "exec")
     \/ (\A t \in Tasks : ~(Waits(t) /\ Token(t) \in events)) /\ UNCHANGED at
  /\ missed' = missed \cup {t \in Tasks : InGap(t) /\ Token(t) \in events /\ CanProceed(t)}
  /\ events' = {}
  /\ ioPc' = "poll"
  /\ UNCHANGED <<op, done, left, net, world, nestedPc>>

IoEvents == /\ ioPc = "events"
            /\ Wake(events)
            /\ events' = {}
            /\ ioPc' = "poll"
            /\ UNCHANGED <<net, world, nestedPc>>

IoThread == IoPoll \/ IoClosed \/ IoEvents

-----------------------------------------------------------------------------
(***************************************************************************)
(* Modules that are imported, one after the other.  The I/O thread of such *)
(* a machine polls the sockets that it shares with the program; it is at   *)
(* "poll", too, while no import goes on: nothing makes it go on from there. *)
(***************************************************************************)
\* The module does not use the network: nobody on its own list waits.
Misses(tokens) ==
  missed' = missed \cup
    {t \in Tasks : (Waits(t) \/ InGap(t)) /\ Token(t) \in tokens /\ CanProceed(t)}

NestedPoll ==
  /\ nestedPc = "poll"
  /\ edge' = {}
  /\ Misses(edge)
  /\ nestedPc' = "closed"
  /\ UNCHANGED <<net, backlog, peer, inbox, sent, out, drained, events, ioPc, program>>

NestedClosed ==
  /\ nestedPc = "closed"
  /\ closed_tokens' = {}
  /\ Misses(closed_tokens)
  /\ nestedPc' = "poll"
  /\ UNCHANGED <<next_token, open, lock, world, events, ioPc, program>>

Import == NestedPoll \/ NestedClosed

Next == World \/ IoThread \/ Import \/ \E t \in Tasks : Begin(t) \/ Native(t)

Spec == Init /\ [][Next]_vars

\* The I/O thread loops and a task that can run does; the peers owe nothing.
FairSpec == Spec /\ WF_vars(IoThread) /\ \A t \in Tasks : WF_vars(Native(t))

-----------------------------------------------------------------------------
(***************************************************************************)
(* Properties.                                                             *)
(***************************************************************************)
\* The types, and who may hold the lock of streams.
TypeOK ==
  /\ next_token \in 2 .. MaxStreams + 2
  /\ open \subseteq 1 .. next_token - 1
  /\ closed_tokens \subseteq (1 .. next_token - 1) \ open
  /\ edge \subseteq open
  /\ \A s \in Streams : Free(s) \in 0 .. Room /\ inbox[s] \in 0 .. sent[s]
  /\ \A t \in Tasks :
       /\ at[t] \in {"ready", "exec", "looping", "suspending", "waiting", "closing"}
       /\ (at[t] = "ready") = (op[t] = Idle)
       /\ (at[t] = "looping") = (lock = t)
       /\ at[t] = "looping" => Token(t) \in open /\ done[t] < Len(Message)
  /\ nestedPc \in {"poll", "closed"}
  /\ missed \subseteq {t \in Tasks : Waits(t) \/ InGap(t) \/ at[t] = "exec"}

\* A task on waiting_io_tasks whose native could proceed is about to be told:
\* mio has an event of its token, or the I/O thread does, or the closing of
\* its socket is on the way; unless it was missed, which happens in three ways
\* only: the thread looked at the list just before the task was put on it,
\* another task dropped the socket at an end of file or an error, or the
\* thread of a module being imported took the event or the closed token.
WakeupPending ==
  \A t \in Tasks : Waits(t) /\ CanProceed(t) /\ t \notin missed =>
    \/ Token(t) \in edge \cup events \cup closed_tokens
    \/ \E u \in Tasks : at[u] = "closing" /\ Token(u) = Token(t)

\* A task that waits for a socket that is gone is about to be told, by its closed
\* token or by the task that is closing it (vm.rs, the I/O thread).
ClosedTokensWake ==
  \A t \in Tasks : Waits(t) /\ Token(t) \notin open =>
    \/ Token(t) \in closed_tokens \cup events
    \/ \E u \in Tasks : at[u] = "closing" /\ Token(u) = Token(t)

\* A write_all that answers ok has given the kernel its whole message, as its
\* last bytes and in one piece, whatever other tasks wrote and however often
\* it was suspended and began again.
WriteAllWhole ==
  [][\A t \in Tasks :
       op[t].kind = "write_all" /\ at[t] = "looping" /\ at'[t] = "ready" /\ Token(t) \in open'
         => IsSuffix(Message, out'[Token(t)])]_vars

\* A waiting task whose native can proceed is executed again, unless it was
\* missed or somebody else took what it waited for.
WaitersProceed ==
  \A t \in Tasks :
    Waits(t) /\ CanProceed(t) /\ t \notin missed ~> ~Waits(t) \/ ~CanProceed(t) \/ t \in missed
=============================================================================

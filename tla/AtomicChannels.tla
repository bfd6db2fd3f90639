--------------------------- MODULE AtomicChannels ---------------------------
(***************************************************************************)
(* What channels promise a Whalli program: a bounded first-in first-out    *)
(* queue whose operations take effect at one instant each, and a select    *)
(* that takes exactly one of its cases when that case is possible, or its  *)
(* default when, at some instant since it began, none was.  Module         *)
(* Channels implements it for programs that share no selected channel.     *)
(***************************************************************************)
EXTENDS Integers, Sequences, Functions

CONSTANTS Tasks, Chans, Capacity, Ops, Nil, Tick, Sent, Default, Nothing

VARIABLES
  queue, closed,  \* the channels
  timers,         \* the channels that a time.after has yet to ring
  status,         \* status[t]: running, completed or failed
  op,             \* op[t]: the operation t is engaged in
  answer,         \* answer[t]: what the last one returned, <<object, value>>
  quiet           \* quiet[t]: no case of t's select was possible, once

avars == <<queue, closed, timers, status, op, answer, quiet>>

Idle == [kind |-> "none", on |-> Nothing, val |-> Nothing, cases |-> <<>>,
         default |-> FALSE]

Case(dir, x, v) == [dir |-> dir, on |-> x, val |-> v]

\* The single actions an operation asks for, one of which it performs.
Wishes(o) == CASE o.kind = "send" -> {Case("send", o.on, o.val)}
               [] o.kind \in {"recv", "iter"} -> {Case("recv", o.on, Nothing)}
               [] o.kind = "select" -> Range(o.cases)
               [] OTHER -> {}

\* A wish that can be granted in a given state of channels and handles.
Possible(k, q, cl, st) ==
  IF k.on \in Tasks THEN k.dir = "recv" /\ st[k.on] # "running"
  ELSE IF k.dir = "send" THEN ~cl[k.on] /\ Len(q[k.on]) < Capacity[k.on]
  ELSE q[k.on] # <<>> \/ cl[k.on]

Still(o, q, cl, st) == /\ o.kind = "select"
                       /\ \A k \in Wishes(o) : ~Possible(k, q, cl, st)

Watch == quiet' = [t \in Tasks |->
                     /\ op'[t].kind = "select"
                     /\ quiet[t] \/ Still(op'[t], queue', closed', status')]

AInit == /\ queue = [c \in Chans |-> <<>>]
         /\ closed = [c \in Chans |-> FALSE]
         /\ timers \in SUBSET Chans
         /\ status = [t \in Tasks |-> "running"]
         /\ op = [t \in Tasks |-> Idle]
         /\ answer = [t \in Tasks |-> <<Nothing, Nothing>>]
         /\ quiet = [t \in Tasks |-> FALSE]

Answer(t, x, v) == /\ answer' = [answer EXCEPT ![t] = <<x, v>>]
                   /\ op' = [op EXCEPT ![t] = Idle]

Invoke(t) == /\ status[t] = "running" /\ op[t] = Idle
             /\ \E o \in Ops[t] : op' = [op EXCEPT ![t] = o]
             /\ UNCHANGED <<queue, closed, timers, status, answer>>

Give(t) == \E k \in Wishes(op[t]) :
             /\ k.dir = "send" /\ Possible(k, queue, closed, status)
             /\ queue' = [queue EXCEPT ![k.on] = Append(@, k.val)]
             /\ Answer(t, k.on, Sent)
             /\ UNCHANGED <<closed, timers, status>>

\* A loop over the channel (iter) goes on to the next message.
Take(t) == \E k \in Wishes(op[t]) :
             /\ k.dir = "recv" /\ k.on \in Chans /\ queue[k.on] # <<>>
             /\ queue' = [queue EXCEPT ![k.on] = Tail(@)]
             /\ answer' = [answer EXCEPT ![t] = <<k.on, Head(queue[k.on])>>]
             /\ IF op[t].kind = "iter" THEN UNCHANGED op
                ELSE op' = [op EXCEPT ![t] = Idle]
             /\ UNCHANGED <<closed, timers, status>>

FindDrained(t) == \E k \in Wishes(op[t]) :
                    /\ k.dir = "recv" /\ k.on \in Chans
                    /\ queue[k.on] = <<>> /\ closed[k.on]
                    /\ Answer(t, k.on, Nil)
                    /\ UNCHANGED <<queue, closed, timers, status>>

Learn(t) == \E k \in Wishes(op[t]) :
              /\ k.on \in Tasks /\ status[k.on] # "running"
              /\ Answer(t, k.on, IF status[k.on] = "failed" THEN Nil ELSE Sent)
              /\ UNCHANGED <<queue, closed, timers, status>>

Refuse(t) == /\ op[t].kind = "send" /\ closed[op[t].on]
             /\ status' = [status EXCEPT ![t] = "failed"]
             /\ op' = [op EXCEPT ![t] = Idle]
             /\ UNCHANGED <<queue, closed, timers, answer>>

Shut(t) == /\ op[t].kind = "close"
           /\ closed' = [closed EXCEPT ![op[t].on] = TRUE]
           /\ Answer(t, op[t].on, Nil)
           /\ UNCHANGED <<queue, timers, status>>

Skip(t) == /\ op[t].kind = "select" /\ op[t].default /\ quiet[t]
           /\ Answer(t, Nothing, Default)
           /\ UNCHANGED <<queue, closed, timers, status>>

End(t) == /\ op[t] = Idle /\ status[t] = "running"
          /\ status' = [status EXCEPT ![t] = "completed"]
          /\ UNCHANGED <<queue, closed, timers, op, answer>>

Ring(c) == /\ c \in timers
           /\ timers' = timers \ {c}
           /\ \/ closed[c] /\ UNCHANGED queue
              \/ /\ ~closed[c] /\ Len(queue[c]) < Capacity[c]
                 /\ queue' = [queue EXCEPT ![c] = Append(@, Tick)]
           /\ UNCHANGED <<closed, status, op, answer>>

ANext == /\ \/ \E t \in Tasks : \/ Invoke(t) \/ Give(t) \/ Take(t)
                                \/ FindDrained(t) \/ Learn(t) \/ Refuse(t)
                                \/ Shut(t) \/ Skip(t) \/ End(t)
            \/ \E c \in Chans : Ring(c)
         /\ Watch

ASpec == AInit /\ [][ANext]_avars
=============================================================================

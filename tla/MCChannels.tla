----------------------------- MODULE MCChannels -----------------------------
(* Small programs on channels: who may perform which operation. *)
EXTENDS Channels

CONSTANTS s, p, q,      \* tasks: the one that selects, and two others
          A, B, D, T,   \* channels; T is the channel of a time.after
          v, w          \* messages

Does(kind, x, m) == [kind |-> kind, on |-> x, val |-> m, cases |-> <<>>, default |-> FALSE]
Picks(ks, d) == [kind |-> "select", on |-> Nothing, val |-> Nothing, cases |-> ks, default |-> d]
From(x) == [dir |-> "recv", on |-> x, val |-> Nothing]
To(x, m) == [dir |-> "send", on |-> x, val |-> m]

CapacityOne == [c \in Chans |-> 1]
CapacityTwoForD == [c \in Chans |-> IF c = D THEN 2 ELSE 1]

\* s is the only receiver of A and T and the only sender and closer of B;
\* D is shared without select.
DisciplinedOps ==
  [t \in Tasks |->
     CASE t = s -> {Picks(<<From(A), To(B, v)>>, TRUE), Picks(<<From(A), From(T), From(q)>>, FALSE),
                    Does("close", B, Nothing), Does("send", D, v)}
       [] t = p -> {Does("send", A, w), Does("close", A, Nothing), Does("recv", B, Nothing),
                    Does("send", D, w)}
       [] t = q -> {Does("iter", D, Nothing), Does("close", D, Nothing),
                    Does("close", T, Nothing), Does("recv", p, Nothing)}]

\* The same roles without the operations that cannot block.
BlockingOps ==
  [t \in Tasks |->
     CASE t = s -> {Picks(<<From(A), To(B, v)>>, FALSE), Picks(<<From(T), From(q)>>, FALSE),
                    Does("send", D, v)}
       [] t = p -> {Does("close", A, Nothing), Does("recv", B, Nothing), Does("send", D, w)}
       [] t = q -> {Does("iter", D, Nothing), Does("close", D, Nothing)}]

\* Two tasks receive from A, one of them by a select.
SharedReceiverOps ==
  [t \in Tasks |->
     CASE t = s -> {Picks(<<From(A), From(B)>>, FALSE)}
       [] t = p -> {Does("send", A, v), Does("send", B, w)}
       [] t = q -> {Does("recv", A, Nothing), Picks(<<From(A)>>, TRUE)}]

\* Two selects send on A and on the channel of a timer, next to a plain sender.
OverrunOps ==
  [t \in Tasks |->
     CASE t = s -> {Picks(<<To(A, v), To(T, v)>>, FALSE), Does("recv", A, Nothing)}
       [] t = p -> {Picks(<<To(A, w)>>, TRUE), Picks(<<To(T, w)>>, FALSE),
                    Does("close", A, Nothing)}
       [] t = q -> {Does("send", A, v), Does("send", T, v), Does("recv", T, Nothing)}]

\* The disciplined program of the passing runs is one.
ASSUME Ops = DisciplinedOps => Disciplined /\ SendsNoNil
=============================================================================

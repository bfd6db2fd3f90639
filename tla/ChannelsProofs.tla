---------------------------- MODULE ChannelsProofs ----------------------------
(***************************************************************************)
(* The inductive invariants of module Channels, the theorems that follow   *)
(* from them and the proof that disciplined programs see the channels of   *)
(* AtomicChannels, for any finite sets of tasks and channels, whatever     *)
(* their capacities and the operations of the tasks.                       *)
(***************************************************************************)
EXTENDS Channels, SequenceTheorems, FiniteSetTheorems, TLAPS

USE NamesAssumption, CapacityAssumption, MaxOpsAssumption, OpsAssumption, AnswersAssumption

Labels == {"ready", "exec", "parked", "scan", "commit", "over"}
Statuses == {"running", "completed", "failed"}

Calls == UNION {Ops[t] : t \in Tasks}
\* What a channel may hold.
Messages == {Tick} \cup {o.val : o \in Calls}
              \cup UNION {{k.val : k \in Range(o.cases)} : o \in Calls}
Objects == Tasks \cup Chans \cup {Nothing}
Answers == Objects \X (Messages \cup {Nil, Sent, Default, Nothing})

Typed ==
  /\ queue \in [Chans -> Seq(Messages)] /\ closed \in [Chans -> BOOLEAN]
  /\ timers \in SUBSET Timers /\ status \in [Tasks -> Statuses]
  /\ op \in [Tasks -> Calls \cup {Idle}] /\ at \in [Tasks -> Labels]
  /\ pos \in [Tasks -> Nat] /\ left \in [Tasks -> 0 .. MaxOps]
  /\ answer \in [Tasks -> Answers] /\ quiet \in [Tasks -> BOOLEAN]

ControlOf(t) ==
  /\ op[t] \in Ops[t] \cup {Idle}
  /\ at[t] = "over" <=> status[t] # "running"
  /\ at[t] \in {"ready", "over"} <=> op[t] = Idle
  /\ at[t] = "exec" => op[t].kind # "select"
  /\ at[t] \in {"scan", "commit"} => op[t].kind = "select"
  /\ at[t] = "scan" => pos[t] \in 1 .. Len(op[t].cases) + 1
  /\ at[t] = "commit" => pos[t] \in 1 .. Len(op[t].cases)
Control == \A t \in Tasks : ControlOf(t)

\* No case of t's select from the i-th on can be taken now.
NoneFrom(t, i) == \A j \in i .. Len(op[t].cases) :
                    ~CaseReady(op[t].cases[j], queue, closed, status)

\* The instants at which a select could not go on are all remembered.
QuietOf(t) == /\ quiet[t] => op[t].kind = "select"
              /\ op[t].kind = "select" /\ NoneFrom(t, 1) => quiet[t]
Quiet == \A t \in Tasks : QuietOf(t)

BasicInv == Typed /\ Control /\ Quiet

\* For disciplined programs: what a select has looked at it could not have
\* taken before, what it chose it can still take, and a timer that has not
\* rung finds its channel empty.
ScanOf(t) == at[t] = "scan" /\ NoneFrom(t, pos[t]) => quiet[t]
CommitOf(t) == at[t] = "commit" => CaseReady(op[t].cases[pos[t]], queue, closed, status)
Selecting == \A t \in Tasks : ScanOf(t) /\ CommitOf(t)
TimersEmpty == \A c \in timers : queue[c] = <<>>

IInv == BasicInv /\ Selecting /\ TimersEmpty

-----------------------------------------------------------------------------
(***************************************************************************)
(* Operations and cases.                                                   *)
(***************************************************************************)

(***************************************************************************)
(* No operation of a program is the absence of one.                        *)
(***************************************************************************)
LEMMA OpFacts ==
  ASSUME NEW t \in Tasks, NEW o \in Ops[t]
  PROVE  /\ o # Idle /\ o \in Calls /\ IsOperation(o)
         /\ o.val \in Messages /\ \A k \in Range(o.cases) : k.val \in Messages
<1>1. IsOperation(o) /\ o \in Calls
  BY DEF Calls
<1>2. o # Idle
  <2>1. Idle.kind = "none"
    BY DEF Idle
  <2> QED BY <1>1, <2>1 DEF IsOperation
<1>3. o.val \in Messages /\ \A k \in Range(o.cases) : k.val \in Messages
  BY <1>1 DEF Messages
<1> QED BY <1>1, <1>2, <1>3

(***************************************************************************)
(* The cases of a select, by number.                                       *)
(***************************************************************************)
LEMMA CaseFacts ==
  ASSUME NEW t \in Tasks, NEW o \in Ops[t]
  PROVE  /\ Len(o.cases) \in Nat /\ DOMAIN o.cases = 1 .. Len(o.cases)
         /\ Range(o.cases) = {o.cases[j] : j \in 1 .. Len(o.cases)}
         /\ \A j \in 1 .. Len(o.cases) : o.cases[j] \in Range(o.cases)
<1>1. o.cases \in Seq(Range(o.cases))
  BY OpFacts DEF IsOperation
<1>2. Len(o.cases) \in Nat /\ DOMAIN o.cases = 1 .. Len(o.cases)
  BY <1>1, LenProperties
<1> QED BY <1>2 DEF Range

(***************************************************************************)
(* A queue of messages.                                                    *)
(***************************************************************************)
LEMMA QueueOps ==
  ASSUME NEW q \in Seq(Messages)
  PROVE  /\ Len(q) \in Nat
         /\ \A v \in Messages : Append(q, v) \in Seq(Messages) /\ Append(q, v) # <<>>
         /\ q # <<>> => /\ Head(q) \in Messages /\ Tail(q) \in Seq(Messages)
                        /\ Len(Tail(q)) = Len(q) - 1
<1>1. Len(q) \in Nat
  BY LenProperties
<1>2. \A v \in Messages : Append(q, v) \in Seq(Messages) /\ Append(q, v) # <<>>
  OBVIOUS
<1>3. q # <<>> => /\ Head(q) \in Messages /\ Tail(q) \in Seq(Messages)
                  /\ Len(Tail(q)) = Len(q) - 1
  OBVIOUS
<1> QED BY <1>1, <1>2, <1>3

-----------------------------------------------------------------------------
(***************************************************************************)
(* Types and control.                                                      *)
(***************************************************************************)

(***************************************************************************)
(* At first the channels are empty and no task has begun an operation.     *)
(***************************************************************************)
LEMMA BasicInit == Init => BasicInv /\ Selecting /\ TimersEmpty
<1> SUFFICES ASSUME Init PROVE BasicInv /\ Selecting /\ TimersEmpty
  OBVIOUS
<1>1. Typed
  <2>1. <<>> \in Seq(Messages)
    OBVIOUS
  <2>2. queue \in [Chans -> Seq(Messages)]
    BY <2>1 DEF Init
  <2>3. <<Nothing, Nothing>> \in Answers
    BY DEF Answers, Objects
  <2>4. answer \in [Tasks -> Answers]
    BY <2>3 DEF Init
  <2>5. MaxOps \in 0 .. MaxOps /\ left \in [Tasks -> 0 .. MaxOps]
    BY DEF Init
  <2>6. closed \in [Chans -> BOOLEAN] /\ timers \in SUBSET Timers /\ quiet \in [Tasks -> BOOLEAN]
    BY DEF Init
  <2>7. /\ status \in [Tasks -> Statuses] /\ at \in [Tasks -> Labels] /\ pos \in [Tasks -> Nat]
    BY DEF Init, Statuses, Labels
  <2>8. op \in [Tasks -> Calls \cup {Idle}]
    BY DEF Init
  <2> QED BY <2>2, <2>4, <2>5, <2>6, <2>7, <2>8 DEF Typed
<1>2. ASSUME NEW t \in Tasks PROVE ControlOf(t) /\ QuietOf(t) /\ ScanOf(t) /\ CommitOf(t)
  <2>1. at[t] = "ready" /\ op[t] = Idle /\ status[t] = "running" /\ ~quiet[t]
    BY DEF Init
  <2>2. Idle.kind = "none"
    BY DEF Idle
  <2> QED BY <2>1, <2>2 DEF ControlOf, QuietOf, ScanOf, CommitOf
<1>3. TimersEmpty
  BY DEF Init, TimersEmpty
<1> QED BY <1>1, <1>2, <1>3 DEF BasicInv, Control, Quiet, Selecting

Results == Messages \cup {Nil, Sent, Default, Nothing}

\* A step of task t, apart from the history.
Step(t) == Begin(t) \/ Finish(t) \/ Resume(t) \/ Instruction(t)

(***************************************************************************)
(* The ends of the instructions keep the types of what they change.        *)
(***************************************************************************)
LEMMA MoveTypes ==
  ASSUME Typed, NEW t \in Tasks, NEW l \in Labels, NEW i \in Nat, Move(t, l, i)
  PROVE  /\ at' \in [Tasks -> Labels] /\ pos' \in [Tasks -> Nat]
         /\ at'[t] = l /\ pos'[t] = i
         /\ \A u \in Tasks \ {t} : at'[u] = at[u] /\ pos'[u] = pos[u]
BY DEF Typed, Move

(***************************************************************************)
(* An instruction that returns leaves its task ready, with its result.     *)
(***************************************************************************)
LEMMA ReturnTypes ==
  ASSUME Typed, NEW t \in Tasks, NEW x \in Objects, NEW v \in Results, Return(t, x, v)
  PROVE  /\ at' \in [Tasks -> Labels] /\ pos' \in [Tasks -> Nat]
         /\ op' \in [Tasks -> Calls \cup {Idle}] /\ answer' \in [Tasks -> Answers]
         /\ at'[t] = "ready" /\ op'[t] = Idle /\ answer'[t] = <<x, v>>
         /\ \A u \in Tasks \ {t} : /\ at'[u] = at[u] /\ pos'[u] = pos[u]
                                   /\ op'[u] = op[u] /\ answer'[u] = answer[u]
<1>1. Move(t, "ready", 0) /\ "ready" \in Labels
  BY DEF Return, Labels
<1>2. op' = [op EXCEPT ![t] = Idle] /\ answer' = [answer EXCEPT ![t] = <<x, v>>]
  BY DEF Return
<1>3. <<x, v>> \in Answers
  BY DEF Answers, Results
<1>4. op \in [Tasks -> Calls \cup {Idle}] /\ answer \in [Tasks -> Answers]
  BY DEF Typed
<1>5. op' \in [Tasks -> Calls \cup {Idle}] /\ op'[t] = Idle
      /\ \A u \in Tasks \ {t} : op'[u] = op[u]
  BY <1>2, <1>4
<1>6. answer' \in [Tasks -> Answers] /\ answer'[t] = <<x, v>>
      /\ \A u \in Tasks \ {t} : answer'[u] = answer[u]
  <2>1. \A w \in Answers : w = <<x, v>> =>
          /\ [answer EXCEPT ![t] = w] \in [Tasks -> Answers] /\ [answer EXCEPT ![t] = w][t] = w
          /\ \A u \in Tasks \ {t} : [answer EXCEPT ![t] = w][u] = answer[u]
    BY <1>4
  <2> QED BY <1>2, <1>3, <2>1
<1> QED BY <1>1, <1>5, <1>6, MoveTypes

\* What an instruction does to its own task: it begins or executes again,
\* parks, goes on with a loop or a scan, returns, or ends the task.
Enters(t) == /\ \E o \in Ops[t] : op' = [op EXCEPT ![t] = o] /\ Enter(t, o)
             /\ at[t] \in {"ready", "parked"}
             /\ UNCHANGED <<queue, closed, timers, status, answer>>
Parks(t) == /\ op[t] # Idle /\ at[t] \in {"exec", "scan"}
            /\ Move(t, "parked", 0) /\ UNCHANGED <<queue, closed, op, answer>>
Loops(t) == /\ at[t] = "exec" /\ UNCHANGED <<op, at, pos>>
            /\ \E c \in Chans, v \in Messages : answer' = [answer EXCEPT ![t] = <<c, v>>]
Goes(t) == /\ Parks(t) \/ Loops(t) \/ (SelectScan(t) /\ UNCHANGED answer)
           /\ op' = op
Returns(t) == /\ at[t] \in {"exec", "scan", "commit"}
              /\ \E x \in Objects, v \in Results : Return(t, x, v)
Ends(t) == /\ Move(t, "over", 0) /\ op' = [op EXCEPT ![t] = Idle]
           /\ \E s \in Statuses \ {"running"} : status' = [status EXCEPT ![t] = s]
           /\ UNCHANGED <<queue, closed, timers, answer>>

(***************************************************************************)
(* A task that has begun an operation runs one of its program's.           *)
(***************************************************************************)
LEMMA ExecutedOp ==
  ASSUME Typed, Control, NEW t \in Tasks, at[t] \notin {"ready", "over"}
  PROVE  op[t] \in Ops[t] /\ IsOperation(op[t]) /\ op[t] # Idle /\ status[t] = "running"
<1>1. op[t] \in Ops[t] /\ status[t] = "running"
  BY DEF Control, ControlOf
<1> QED BY <1>1, OpFacts

(***************************************************************************)
(* What a select has chosen is one of its cases.                           *)
(***************************************************************************)
LEMMA ChosenCase ==
  ASSUME Typed, Control, NEW t \in Tasks, at[t] = "commit"
  PROVE  LET k == op[t].cases[pos[t]] IN
         /\ k \in Range(op[t].cases) /\ k.val \in Messages
         /\ k.dir \in {"send", "recv"} /\ k.on \in Chans \cup Tasks
<1>1. op[t] \in Ops[t] /\ IsOperation(op[t])
  BY ExecutedOp
<1>2. pos[t] \in 1 .. Len(op[t].cases)
  BY DEF Control, ControlOf
<1>3. op[t].cases[pos[t]] \in Range(op[t].cases)
  BY <1>1, <1>2, CaseFacts
<1> QED BY <1>1, <1>3, OpFacts DEF IsOperation

(***************************************************************************)
(* Every step of a task is one of these.                                   *)
(***************************************************************************)
LEMMA StepShape ==
  ASSUME Typed, Control, NEW t \in Tasks, Step(t)
  PROVE  (/\ Enters(t) \/ Goes(t) \/ Returns(t)
          /\ status' = status) \/ Ends(t)
<1>0. queue \in [Chans -> Seq(Messages)] /\ op \in [Tasks -> Calls \cup {Idle}]
  BY DEF Typed
<1>1. CASE Begin(t)
  <2>1. PICK o \in Ops[t] : op' = [op EXCEPT ![t] = o] /\ Enter(t, o)
    BY <1>1 DEF Begin
  <2> QED BY <1>0, <1>1, <2>1 DEF Begin, Enters
<1>2. CASE Finish(t)
  <2>1. op[t] = Idle
    BY <1>2 DEF Finish, Control, ControlOf
  <2>2. op' = [op EXCEPT ![t] = Idle]
    BY <1>0, <1>2, <2>1 DEF Finish
  <2> QED BY <1>2, <2>2 DEF Finish, Ends, Statuses
<1>3. CASE Resume(t)
  <2>1. op[t] \in Ops[t]
    BY <1>3, ExecutedOp DEF Resume
  <2>2. op' = [op EXCEPT ![t] = op[t]]
    BY <1>0, <1>3 DEF Resume
  <2> QED BY <1>3, <2>1, <2>2 DEF Resume, Enters
<1>p. ASSUME Park(t), at[t] \in {"exec", "scan"} PROVE Goes(t) /\ status' = status
  <2>1. op[t] # Idle
    BY <1>p, ExecutedOp
  <2> QED BY <1>p, <2>1 DEF Park, Parks, Goes
<1>4. CASE Send(t)
  <2>1. op[t].on \in Chans /\ op[t].on \in Objects /\ Sent \in Results /\ at[t] = "exec"
    BY <1>4, ExecutedOp DEF Send, Executes, IsOperation, Objects, Results
  <2>2. CASE Fail(t)
    BY <1>0, <2>2 DEF Fail, Ends, Statuses
  <2>3. CASE Park(t)
    BY <1>p, <2>1, <2>3
  <2>4. CASE Return(t, op[t].on, Sent) /\ status' = status
    BY <2>1, <2>4 DEF Returns
  <2> QED BY <1>4, <2>2, <2>3, <2>4 DEF Send
<1>5. CASE Recv(t)
  <2>1. op[t].on \in Chans /\ op[t].on \in Objects /\ Nil \in Results /\ at[t] = "exec"
    BY <1>5 DEF Recv, Executes, Objects, Results
  <2>2. queue[op[t].on] # <<>> => Head(queue[op[t].on]) \in Messages
    <3>1. queue[op[t].on] \in Seq(Messages)
      BY <1>0, <2>1
    <3> QED BY <3>1, QueueOps
  <2>3. CASE queue[op[t].on] # <<>> /\ Return(t, op[t].on, Head(queue[op[t].on])) /\ status' = status
    BY <2>1, <2>2, <2>3 DEF Returns, Results
  <2>4. CASE /\ queue[op[t].on] # <<>> /\ UNCHANGED <<op, at, pos>> /\ status' = status
             /\ answer' = [answer EXCEPT ![t] = <<op[t].on, Head(queue[op[t].on])>>]
    BY <2>1, <2>2, <2>4 DEF Goes, Loops
  <2>5. CASE Return(t, op[t].on, Nil) /\ status' = status
    BY <2>1, <2>5 DEF Returns
  <2>6. CASE Park(t)
    BY <1>p, <2>1, <2>6
  <2> QED BY <1>5, <2>3, <2>4, <2>5, <2>6 DEF Recv
<1>6. CASE Join(t)
  <2>1. op[t].on \in Objects /\ HandleResult(op[t].on) \in Results /\ at[t] = "exec"
    BY <1>6 DEF Join, Executes, Objects, HandleResult, Results
  <2>2. CASE Park(t)
    BY <1>p, <2>1, <2>2
  <2>3. CASE Return(t, op[t].on, HandleResult(op[t].on)) /\ status' = status
    BY <2>1, <2>3 DEF Returns
  <2> QED BY <1>6, <2>2, <2>3 DEF Join
<1>7. CASE Close(t)
  <2>1. op[t].on \in Objects /\ Nil \in Results
    BY <1>7, ExecutedOp DEF Close, Executes, IsOperation, Objects, Results
  <2> QED BY <1>7, <2>1 DEF Close, Executes, Returns
<1>8. CASE SelectScan(t)
  BY <1>8 DEF SelectScan, Goes
<1>9. CASE SelectNone(t)
  <2>1. Nothing \in Objects /\ Default \in Results /\ at[t] = "scan"
    BY <1>9 DEF SelectNone, Objects, Results
  <2>2. CASE Park(t)
    BY <1>p, <2>1, <2>2
  <2>3. CASE Return(t, Nothing, Default) /\ status' = status
    BY <2>1, <2>3 DEF Returns
  <2> QED BY <1>9, <2>2, <2>3 DEF SelectNone
<1>10. CASE SelectCommit(t)
  <2> DEFINE k == op[t].cases[pos[t]]
  <2>1. k.on \in Chans \cup Tasks /\ k.on \in Objects
    BY <1>10, ChosenCase DEF SelectCommit, Objects
  <2>2. HandleResult(k.on) \in Results /\ Sent \in Results /\ Nil \in Results
    BY DEF HandleResult, Results
  <2>3. k.on \notin Tasks /\ queue[k.on] # <<>> => Head(queue[k.on]) \in Results
    <3>1. k.on \notin Tasks => queue[k.on] \in Seq(Messages)
      BY <1>0, <2>1
    <3> QED BY <3>1, QueueOps DEF Results
  <2>4. \/ Return(t, k.on, HandleResult(k.on)) \/ Return(t, k.on, Sent) \/ Return(t, k.on, Nil)
        \/ k.on \notin Tasks /\ queue[k.on] # <<>> /\ Return(t, k.on, Head(queue[k.on]))
    BY <1>10 DEF SelectCommit
  <2>5. status' = status /\ at[t] = "commit"
    BY <1>10 DEF SelectCommit
  <2> QED BY <2>1, <2>2, <2>3, <2>4, <2>5 DEF Returns
<1> QED BY <1>1, <1>2, <1>3, <1>4, <1>5, <1>6, <1>7, <1>8, <1>9, <1>10 DEF Step, Instruction

-----------------------------------------------------------------------------
\* The ways in which a step of t changes a channel.
Pushes(t, c) == /\ Uses(t, "send", c)
                /\ \E v \in Messages : Push(c, v)
                /\ CommitOf(t) => ~closed[c] /\ Len(queue[c]) < Capacity[c]
Pops(t, c) == /\ Uses(t, "recv", c) /\ queue[c] # <<>>
              /\ queue' = [queue EXCEPT ![c] = Tail(@)]
Closes(t, c) == Uses(t, "close", c) /\ closed' = [closed EXCEPT ![c] = TRUE]

(***************************************************************************)
(* What a step does to the channels: it pushes on one, pops from one or    *)
(* closes one, as the operations of its task allow.                        *)
(***************************************************************************)
LEMMA StepChannels ==
  ASSUME Typed, Control, NEW t \in Tasks, Step(t)
  PROVE  /\ queue' = queue \/ \E c \in Chans : Pushes(t, c) \/ Pops(t, c)
         /\ closed' = closed \/ \E c \in Chans : Closes(t, c)
         /\ timers' = timers
<1>1. CASE Begin(t) \/ Finish(t) \/ Resume(t) \/ Join(t) \/ SelectScan(t) \/ SelectNone(t)
  BY <1>1 DEF Begin, Finish, Resume, Join, Park, SelectScan, SelectNone
<1>2. CASE Send(t)
  <2> DEFINE c == op[t].on
  <2>1. op[t] \in Ops[t] /\ c \in Chans /\ op[t].kind = "send" /\ op[t].val \in Messages
    BY <1>2, ExecutedOp, OpFacts DEF Send, Executes, IsOperation
  <2>2. Uses(t, "send", c)
    BY <2>1 DEF Uses
  <2>3. CASE Fail(t) \/ Park(t)
    BY <2>3 DEF Fail, Park
  <2>4. CASE ~closed[c] /\ Len(queue[c]) < Capacity[c] /\ Push(c, op[t].val)
             /\ UNCHANGED <<closed, timers>>
    BY <2>1, <2>2, <2>4 DEF Pushes
  <2> QED BY <1>2, <2>3, <2>4 DEF Send
<1>3. CASE Recv(t)
  <2> DEFINE c == op[t].on
  <2>1. op[t] \in Ops[t] /\ c \in Chans /\ op[t].kind \in {"recv", "iter"}
    BY <1>3, ExecutedOp DEF Recv, Executes
  <2>2. Uses(t, "recv", c)
    BY <2>1 DEF Uses
  <2>3. CASE UNCHANGED <<queue, closed, timers>>
    BY <2>3
  <2>4. CASE queue[c] # <<>> /\ queue' = [queue EXCEPT ![c] = Tail(@)] /\ UNCHANGED <<closed, timers>>
    BY <2>1, <2>2, <2>4 DEF Pops
  <2> QED BY <1>3, <2>3, <2>4 DEF Recv, Park
<1>4. CASE Close(t)
  <2> DEFINE c == op[t].on
  <2>1. op[t] \in Ops[t] /\ c \in Chans /\ op[t].kind = "close"
    BY <1>4, ExecutedOp DEF Close, Executes, IsOperation
  <2>2. Uses(t, "close", c)
    BY <2>1 DEF Uses
  <2> QED BY <1>4, <2>1, <2>2 DEF Close, Closes
<1>5. CASE SelectCommit(t)
  <2> DEFINE k == op[t].cases[pos[t]]
  <2>1. /\ at[t] = "commit" /\ op[t] \in Ops[t] /\ k \in Range(op[t].cases) /\ k.val \in Messages
        /\ k.dir \in {"send", "recv"} /\ k.on \in Chans \cup Tasks
    BY <1>5, ExecutedOp, ChosenCase DEF SelectCommit
  <2>2. UNCHANGED <<closed, timers>>
    BY <1>5 DEF SelectCommit
  <2>3. Uses(t, k.dir, k.on)
    BY <2>1 DEF Uses
  <2>4. CASE k.on \notin Tasks /\ k.dir = "send" /\ Push(k.on, k.val)
    <3>1. CommitOf(t) => ~closed[k.on] /\ Len(queue[k.on]) < Capacity[k.on]
      BY <2>1, <2>4, SMTT(60) DEF CommitOf, CaseReady
    <3> QED BY <2>1, <2>2, <2>3, <2>4, <3>1 DEF Pushes
  <2>5. CASE k.on \notin Tasks /\ k.dir # "send" /\ queue[k.on] # <<>>
             /\ queue' = [queue EXCEPT ![k.on] = Tail(@)]
    BY <2>1, <2>2, <2>3, <2>5 DEF Pops
  <2>6. CASE queue' = queue
    BY <2>2, <2>6
  <2> QED BY <1>5, <2>4, <2>5, <2>6 DEF SelectCommit
<1> QED BY <1>1, <1>2, <1>3, <1>4, <1>5 DEF Step, Instruction

(***************************************************************************)
(* The same, seen from one channel; a timer pushes, too.                   *)
(***************************************************************************)
LEMMA ChannelEffect ==
  ASSUME Typed, Control, NEW t \in Tasks, Step(t), NEW c \in Chans
  PROVE  /\ \/ queue'[c] = queue[c]
            \/ /\ Uses(t, "send", c) /\ \E v \in Messages : queue'[c] = Append(queue[c], v)
               /\ CommitOf(t) => ~closed[c] /\ Len(queue[c]) < Capacity[c]
            \/ Uses(t, "recv", c) /\ queue[c] # <<>> /\ queue'[c] = Tail(queue[c])
         /\ closed'[c] = closed[c] \/ (Uses(t, "close", c) /\ closed'[c] = TRUE)
<1>1. queue \in [Chans -> Seq(Messages)] /\ closed \in [Chans -> BOOLEAN]
  BY DEF Typed
<1>2. ASSUME NEW d \in Chans, Pushes(t, d)
      PROVE  \/ queue'[c] = queue[c]
             \/ /\ Uses(t, "send", c) /\ \E v \in Messages : queue'[c] = Append(queue[c], v)
                /\ CommitOf(t) => ~closed[c] /\ Len(queue[c]) < Capacity[c]
  <2>1. PICK v \in Messages : queue' = [queue EXCEPT ![d] = Append(@, v)]
    BY <1>2 DEF Pushes, Push
  <2>2. CASE c = d
    <3>1. queue'[c] = Append(queue[c], v)
      BY <1>1, <2>1, <2>2
    <3> QED BY <1>2, <2>2, <3>1 DEF Pushes
  <2>3. CASE c # d
    BY <1>1, <2>1, <2>3
  <2> QED BY <2>2, <2>3
<1>3. ASSUME NEW d \in Chans, Pops(t, d)
      PROVE  \/ queue'[c] = queue[c]
             \/ Uses(t, "recv", c) /\ queue[c] # <<>> /\ queue'[c] = Tail(queue[c])
  BY <1>1, <1>3 DEF Pops
<1>4. ASSUME NEW d \in Chans, Closes(t, d)
      PROVE  closed'[c] = closed[c] \/ (Uses(t, "close", c) /\ closed'[c] = TRUE)
  BY <1>1, <1>4 DEF Closes
<1> QED BY <1>2, <1>3, <1>4, StepChannels

(***************************************************************************)
(* A timer pushes on its own channel only, and not when that is closed.    *)
(***************************************************************************)
LEMMA TimerEffect ==
  ASSUME Typed, NEW d \in Chans, FireTimer(d)
  PROVE  /\ d \in timers /\ timers' = timers \ {d}
         /\ UNCHANGED <<closed, status, op, at, pos, left, answer>>
         /\ \A c \in Chans \ {d} : queue'[c] = queue[c]
         /\ queue'[d] = IF closed[d] THEN queue[d] ELSE Append(queue[d], Tick)
         /\ queue' \in [Chans -> Seq(Messages)]
<1>1. queue \in [Chans -> Seq(Messages)] /\ Tick \in Messages
  BY DEF Typed, Messages
<1>2. queue' = queue \/ queue' = [queue EXCEPT ![d] = Append(queue[d], Tick)]
  BY DEF FireTimer, Push
<1>3. Append(queue[d], Tick) \in Seq(Messages)
  BY <1>1, QueueOps
<1>4. queue' \in [Chans -> Seq(Messages)]
  BY <1>1, <1>2, <1>3
<1>5. /\ d \in timers /\ timers' = timers \ {d}
      /\ UNCHANGED <<closed, status, op, at, pos, left, answer>>
      /\ IF closed[d] THEN queue' = queue ELSE queue' = [queue EXCEPT ![d] = Append(queue[d], Tick)]
  BY DEF FireTimer, Push
<1> QED BY <1>1, <1>4, <1>5

-----------------------------------------------------------------------------
(***************************************************************************)
(* Every step keeps the types and the control state of the tasks.          *)
(***************************************************************************)
LEMMA WatchFacts ==
  ASSUME Watch
  PROVE  /\ quiet' \in [Tasks -> BOOLEAN]
         /\ \A t \in Tasks :
              quiet'[t] <=> /\ op'[t].kind = "select"
                            /\ \/ quiet[t]
                               \/ \A k \in Range(op'[t].cases) :
                                    ~CaseReady(k, queue', closed', status')
BY DEF Watch

(***************************************************************************)
(* Every step of a task keeps the types.                                   *)
(***************************************************************************)
LEMMA StepTyped ==
  ASSUME Typed, Control, Watch, NEW t \in Tasks, Step(t)
  PROVE  Typed'
<1>0. /\ queue \in [Chans -> Seq(Messages)] /\ closed \in [Chans -> BOOLEAN]
      /\ timers \in SUBSET Timers /\ status \in [Tasks -> Statuses]
      /\ op \in [Tasks -> Calls \cup {Idle}] /\ at \in [Tasks -> Labels]
      /\ pos \in [Tasks -> Nat] /\ left \in [Tasks -> 0 .. MaxOps]
      /\ answer \in [Tasks -> Answers]
  BY DEF Typed
<1>1. queue' \in [Chans -> Seq(Messages)]
  <2>1. ASSUME NEW c \in Chans, NEW v \in Messages
        PROVE  [queue EXCEPT ![c] = Append(@, v)] \in [Chans -> Seq(Messages)]
    <3>1. Append(queue[c], v) \in Seq(Messages)
      BY <1>0, QueueOps
    <3> QED BY <1>0, <3>1
  <2>2. ASSUME NEW c \in Chans, queue[c] # <<>>
        PROVE  [queue EXCEPT ![c] = Tail(@)] \in [Chans -> Seq(Messages)]
    <3>1. Tail(queue[c]) \in Seq(Messages)
      BY <1>0, <2>2, QueueOps
    <3> QED BY <1>0, <3>1
  <2>3. ASSUME NEW c \in Chans, Pushes(t, c) PROVE queue' \in [Chans -> Seq(Messages)]
    BY <2>1, <2>3 DEF Pushes, Push
  <2>4. ASSUME NEW c \in Chans, Pops(t, c) PROVE queue' \in [Chans -> Seq(Messages)]
    BY <2>2, <2>4 DEF Pops
  <2> QED BY <1>0, <2>3, <2>4, StepChannels
<1>2. closed' \in [Chans -> BOOLEAN] /\ timers' \in SUBSET Timers
  BY <1>0, StepChannels DEF Closes
<1>3. quiet' \in [Tasks -> BOOLEAN]
  BY WatchFacts
<1>4. left' \in [Tasks -> 0 .. MaxOps]
  <2>1. CASE Begin(t)
    <3>1. left' = [left EXCEPT ![t] = @ - 1] /\ left[t] > 0 /\ left[t] \in 0 .. MaxOps
      BY <1>0, <2>1 DEF Begin
    <3>2. left[t] - 1 \in 0 .. MaxOps
      BY <3>1
    <3> QED BY <1>0, <3>1, <3>2
  <2>2. CASE ~Begin(t)
    <3>1. left' = left
      BY <2>2 DEF Step, Instruction, Finish, Resume, Send, Fail, Park, Recv, Join, Close, SelectScan,
         SelectNone, SelectCommit
    <3> QED BY <1>0, <3>1
  <2> QED BY <2>1, <2>2
<1>5. /\ at' \in [Tasks -> Labels] /\ pos' \in [Tasks -> Nat]
      /\ op' \in [Tasks -> Calls \cup {Idle}] /\ status' \in [Tasks -> Statuses]
  <2>1. CASE Ends(t)
    <3>1. op' \in [Tasks -> Calls \cup {Idle}] /\ status' \in [Tasks -> Statuses]
      BY <1>0, <2>1 DEF Ends
    <3> QED BY <2>1, <3>1, MoveTypes DEF Ends, Labels
  <2>2. CASE Enters(t) /\ status' = status
    <3>1. PICK o \in Ops[t] : op' = [op EXCEPT ![t] = o] /\ Enter(t, o)
      BY <2>2 DEF Enters
    <3>2. o \in Calls
      BY OpFacts
    <3>3. op' \in [Tasks -> Calls \cup {Idle}]
      BY <1>0, <3>1, <3>2
    <3>4. at' \in [Tasks -> Labels] /\ pos' \in [Tasks -> Nat]
      BY <3>1, MoveTypes DEF Enter, Labels
    <3> QED BY <1>0, <2>2, <3>3, <3>4
  <2>3. CASE Goes(t) /\ status' = status
    <3>1. at' \in [Tasks -> Labels] /\ pos' \in [Tasks -> Nat]
      <4>1. CASE Parks(t)
        BY <4>1, MoveTypes DEF Parks, Labels
      <4>2. CASE Loops(t)
        BY <1>0, <4>2 DEF Loops
      <4>3. CASE SelectScan(t)
        <5>1. pos[t] \in Nat /\ pos[t] + 1 \in Nat
          BY <1>0
        <5> QED BY <4>3, <5>1, MoveTypes DEF SelectScan, Labels
      <4> QED BY <2>3, <4>1, <4>2, <4>3 DEF Goes
    <3> QED BY <1>0, <2>3, <3>1 DEF Goes
  <2>4. CASE Returns(t) /\ status' = status
    BY <1>0, <2>4, ReturnTypes DEF Returns
  <2> QED BY <2>1, <2>2, <2>3, <2>4, StepShape
<1>6. answer' \in [Tasks -> Answers]
  <2>1. CASE Loops(t)
    <3>1. PICK c \in Chans, v \in Messages : answer' = [answer EXCEPT ![t] = <<c, v>>]
      BY <2>1 DEF Loops
    <3>2. PICK w \in Answers : w = <<c, v>>
      BY DEF Answers, Objects
    <3> QED BY <1>0, <3>1, <3>2
  <2>2. CASE Returns(t)
    BY <2>2, ReturnTypes DEF Returns
  <2>3. CASE answer' = answer
    BY <1>0, <2>3
  <2> QED BY <2>1, <2>2, <2>3, StepShape DEF Enters, Goes, Parks, Ends
<1> QED BY <1>1, <1>2, <1>3, <1>4, <1>5, <1>6 DEF Typed

(***************************************************************************)
(* A task changes its own state only.                                      *)
(***************************************************************************)
LEMMA OthersSame ==
  ASSUME Typed, Control, NEW t \in Tasks, Step(t), NEW u \in Tasks \ {t}
  PROVE  /\ at'[u] = at[u] /\ pos'[u] = pos[u] /\ op'[u] = op[u] /\ status'[u] = status[u]
         /\ answer'[u] = answer[u]
<1>0. /\ op \in [Tasks -> Calls \cup {Idle}] /\ status \in [Tasks -> Statuses]
      /\ pos \in [Tasks -> Nat] /\ answer \in [Tasks -> Answers] /\ t # u
  BY DEF Typed
<1>1. CASE Enters(t)
  <2>1. PICK o \in Ops[t] : op' = [op EXCEPT ![t] = o] /\ Enter(t, o)
    BY <1>1 DEF Enters
  <2> QED BY <1>0, <1>1, <2>1, MoveTypes DEF Enters, Enter, Labels
<1>2. CASE Goes(t) /\ status' = status
  <2>1. CASE Parks(t)
    BY <1>2, <2>1, MoveTypes DEF Goes, Parks, Labels
  <2>2. CASE Loops(t)
    BY <1>0, <1>2, <2>2 DEF Goes, Loops
  <2>3. CASE SelectScan(t) /\ UNCHANGED answer
    <3>1. pos[t] \in Nat /\ pos[t] + 1 \in Nat
      BY <1>0
    <3> QED BY <1>2, <2>3, <3>1, MoveTypes DEF Goes, SelectScan, Labels
  <2> QED BY <1>2, <2>1, <2>2, <2>3 DEF Goes
<1>3. CASE Returns(t) /\ status' = status
  BY <1>0, <1>3, ReturnTypes DEF Returns
<1>4. CASE Ends(t)
  BY <1>0, <1>4, MoveTypes DEF Ends, Labels
<1> QED BY <1>1, <1>2, <1>3, <1>4, StepShape DEF Enters

(***************************************************************************)
(* Every step of a task leaves all tasks in a state that goes with their   *)
(* operations.                                                             *)
(***************************************************************************)
LEMMA StepControl ==
  ASSUME Typed, Control, NEW t \in Tasks, Step(t)
  PROVE  Control'
<1> SUFFICES ASSUME NEW u \in Tasks PROVE ControlOf(u)'
  BY DEF Control
<1>0. /\ op \in [Tasks -> Calls \cup {Idle}] /\ status \in [Tasks -> Statuses]
      /\ pos \in [Tasks -> Nat] /\ ControlOf(u)
  BY DEF Typed, Control
<1>1. CASE u # t
  BY <1>0, <1>1, OthersSame DEF ControlOf
<1>2. CASE u = t /\ Enters(t)
  <2>1. PICK o \in Ops[t] : op' = [op EXCEPT ![t] = o] /\ Enter(t, o)
    BY <1>2 DEF Enters
  <2>2. op'[t] = o /\ o # Idle /\ Len(o.cases) \in Nat
    BY <1>0, <2>1, OpFacts, CaseFacts
  <2>3. status'[t] = "running"
    BY <1>0, <1>2 DEF Enters, ControlOf
  <2>4. CASE o.kind = "select"
    <3>1. at'[t] = "scan" /\ pos'[t] = 1
      BY <2>1, <2>4, MoveTypes DEF Enter, Labels
    <3> QED BY <1>2, <2>2, <2>3, <2>4, <3>1 DEF ControlOf
  <2>5. CASE o.kind # "select"
    <3>1. at'[t] = "exec"
      BY <2>1, <2>5, MoveTypes DEF Enter, Labels
    <3> QED BY <1>2, <2>2, <2>3, <2>5, <3>1 DEF ControlOf
  <2> QED BY <2>4, <2>5
<1>3. CASE u = t /\ Goes(t) /\ status' = status
  <2>1. op'[t] = op[t] /\ status'[t] = status[t]
    BY <1>3 DEF Goes
  <2>2. CASE Parks(t)
    <3>1. at'[t] = "parked"
      BY <2>2, MoveTypes DEF Parks, Labels
    <3> QED BY <1>0, <1>3, <2>1, <2>2, <3>1 DEF Parks, ControlOf
  <2>3. CASE Loops(t)
    BY <1>0, <1>3, <2>1, <2>3 DEF Loops, ControlOf
  <2>4. CASE SelectScan(t)
    <3>1. at[t] = "scan" /\ pos[t] \in Nat /\ pos[t] + 1 \in Nat /\ pos[t] <= Len(op[t].cases)
      BY <1>0, <2>4 DEF SelectScan
    <3>2. op[t] \in Ops[t] /\ op[t] # Idle
      BY <3>1, ExecutedOp
    <3>3. Len(op[t].cases) \in Nat
      BY <3>2, CaseFacts
    <3>4. /\ at'[t] \in {"scan", "commit"} /\ (at'[t] = "scan" => pos'[t] = pos[t] + 1)
          /\ (at'[t] = "commit" => pos'[t] = pos[t])
      BY <2>4, <3>1, MoveTypes DEF SelectScan, Labels
    <3>5. pos[t] \in 1 .. Len(op[t].cases) /\ pos[t] + 1 \in 1 .. Len(op[t].cases) + 1
      BY <1>0, <1>3, <3>1, <3>3 DEF ControlOf
    <3> QED BY <1>0, <1>3, <2>1, <3>1, <3>2, <3>4, <3>5 DEF ControlOf
  <2> QED BY <1>3, <2>2, <2>3, <2>4 DEF Goes
<1>4. CASE u = t /\ Returns(t) /\ status' = status
  <2>1. at'[t] = "ready" /\ op'[t] = Idle
    BY <1>4, ReturnTypes DEF Returns
  <2> QED BY <1>0, <1>4, <2>1 DEF Returns, ControlOf
<1>5. CASE u = t /\ Ends(t)
  <2>1. at'[t] = "over" /\ op'[t] = Idle /\ status'[t] # "running"
    BY <1>0, <1>5, MoveTypes DEF Ends, Labels
  <2> QED BY <1>5, <2>1 DEF ControlOf
<1> QED BY <1>1, <1>2, <1>3, <1>4, <1>5, StepShape DEF Enters

(***************************************************************************)
(* The history remembers the instants at which no case was possible.       *)
(***************************************************************************)
LEMMA StepQuiet ==
  ASSUME Typed, Control, Watch, Typed', Control'
  PROVE  Quiet'
<1> SUFFICES ASSUME NEW t \in Tasks PROVE QuietOf(t)'
  BY DEF Quiet
<1>1. quiet'[t] <=> /\ op'[t].kind = "select"
                    /\ \/ quiet[t]
                       \/ \A k \in Range(op'[t].cases) : ~CaseReady(k, queue', closed', status')
  BY WatchFacts
<1>2. ASSUME op'[t].kind = "select", NoneFrom(t, 1)', NEW k \in Range(op'[t].cases)
      PROVE  ~CaseReady(k, queue', closed', status')
  <2>1. op'[t] \in Ops[t]
    <3>1. op'[t] \in Ops[t] \cup {Idle} /\ Idle.kind = "none"
      BY DEF Control, ControlOf, Idle
    <3> QED BY <1>2, <3>1
  <2>2. PICK j \in 1 .. Len(op'[t].cases) : k = op'[t].cases[j]
    <3>1. \A o \in Ops[t] : Range(o.cases) = {o.cases[j] : j \in 1 .. Len(o.cases)}
      BY CaseFacts
    <3>2. Range(op'[t].cases) = {op'[t].cases[j] : j \in 1 .. Len(op'[t].cases)}
      BY <2>1, <3>1
    <3> QED BY <1>2, <3>2
  <2> QED BY <1>2, <2>2 DEF NoneFrom
<1> QED BY <1>1, <1>2 DEF QuietOf

(***************************************************************************)
(* What holds of every program, step by step.                              *)
(***************************************************************************)
LEMMA BasicNext == BasicInv /\ [Next]_vars => BasicInv'
<1> SUFFICES ASSUME BasicInv, [Next]_vars PROVE BasicInv'
  OBVIOUS
<1>0. Typed /\ Control /\ Quiet
  BY DEF BasicInv
<1>1. CASE UNCHANGED vars
  BY <1>0, <1>1 DEF vars, BasicInv, Typed, Control, ControlOf, Quiet, QuietOf, NoneFrom
<1>2. ASSUME NEW t \in Tasks, Step(t), Watch PROVE BasicInv'
  BY <1>0, <1>2, StepTyped, StepControl, StepQuiet DEF BasicInv
<1>3. ASSUME NEW c \in Chans, FireTimer(c), Watch PROVE BasicInv'
  <2>1. /\ timers' = timers \ {c}
        /\ UNCHANGED <<closed, status, op, at, pos, left, answer>>
        /\ queue' \in [Chans -> Seq(Messages)]
    BY <1>0, <1>3, TimerEffect
  <2>2. quiet' \in [Tasks -> BOOLEAN]
    BY <1>3, WatchFacts
  <2>3. Typed'
    BY <1>0, <2>1, <2>2 DEF Typed
  <2>4. Control'
    BY <1>0, <2>1 DEF Control, ControlOf
  <2> QED BY <1>0, <1>3, <2>3, <2>4, StepQuiet DEF BasicInv
<1> QED BY <1>1, <1>2, <1>3 DEF Next, Step

-----------------------------------------------------------------------------
(***************************************************************************)
(* Disciplined programs.                                                   *)
(***************************************************************************)

(***************************************************************************)
(* In a disciplined program no step of another task takes away what a      *)
(* select has found: a case that can be executed stays so.                 *)
(***************************************************************************)
LEMMA CaseStays ==
  ASSUME Disciplined, Typed, Control, NEW t \in Tasks, NEW u \in Tasks \ {t}, Step(u),
         op[t] \in Ops[t], NEW k \in Range(op[t].cases), CaseReady(k, queue, closed, status)
  PROVE  CaseReady(k, queue', closed', status')
<1>0. k.on \in Chans \cup Tasks /\ k.dir \in {"send", "recv"}
  BY OpFacts DEF IsOperation
<1>1. CASE k.on \in Tasks
  <2>1. k.dir = "recv" /\ status[k.on] # "running"
    BY <1>1 DEF CaseReady
  <2>2. at[k.on] = "over"
    BY <1>1, <2>1, SMTT(60) DEF Control, ControlOf
  <2>3. k.on # u
    BY <2>2 DEF Step, Instruction, Begin, Finish, Resume, Send, Recv, Join, Close, SelectScan,
       SelectNone, SelectCommit, Executes
  <2>4. status'[k.on] = status[k.on]
    BY <1>1, <2>3, OthersSame
  <2> QED BY <1>1, <2>1, <2>4 DEF CaseReady
<1>2. CASE k.on \in Chans
  <2> DEFINE c == k.on
  <2>0. c \notin Tasks /\ queue[c] \in Seq(Messages) /\ Capacity[c] \in Nat
        /\ Selects(t, k.dir, c) /\ closed[c] \in BOOLEAN
    BY <1>2 DEF Typed, Selects
  <2>1. /\ \/ queue'[c] = queue[c]
           \/ Uses(u, "send", c) /\ \E v \in Messages : queue'[c] = Append(queue[c], v)
           \/ Uses(u, "recv", c) /\ queue[c] # <<>> /\ queue'[c] = Tail(queue[c])
        /\ closed'[c] = closed[c] \/ (Uses(u, "close", c) /\ closed'[c] = TRUE)
    BY <1>2, ChannelEffect
  <2>2. CASE k.dir = "send"
    <3>1. ~Uses(u, "send", c) /\ ~Uses(u, "close", c)
      BY <1>2, <2>0, <2>2 DEF Disciplined
    <3>2. ~closed[c] /\ Len(queue[c]) < Capacity[c]
      BY <2>0, <2>2 DEF CaseReady
    <3>3. Len(queue'[c]) <= Len(queue[c]) /\ Len(queue[c]) \in Nat /\ Len(queue'[c]) \in Nat
      <4>1. Len(queue[c]) \in Nat /\ (queue[c] # <<>> => Len(Tail(queue[c])) = Len(queue[c]) - 1)
        BY <2>0, QueueOps
      <4>2. queue[c] # <<>> => Len(queue[c]) # 0
        BY <2>0, EmptySeq
      <4>3. queue'[c] = queue[c] \/ (queue[c] # <<>> /\ queue'[c] = Tail(queue[c]))
        BY <2>1, <3>1
      <4>4. CASE queue'[c] = queue[c]
        BY <4>1, <4>4
      <4>5. CASE queue[c] # <<>> /\ queue'[c] = Tail(queue[c])
        <5>1. Len(queue'[c]) = Len(queue[c]) - 1 /\ Len(queue[c]) # 0
          BY <4>1, <4>2, <4>5
        <5> QED BY ONLY <4>1, <5>1
      <4> QED BY <4>3, <4>4, <4>5
    <3> QED BY <2>0, <2>1, <2>2, <3>1, <3>2, <3>3 DEF CaseReady
  <2>3. CASE k.dir = "recv"
    <3>1. ~Uses(u, "recv", c)
      BY <1>2, <2>0, <2>3 DEF Disciplined
    <3>2. queue[c] # <<>> \/ closed[c]
      BY <2>0, <2>3 DEF CaseReady
    <3>3. queue[c] # <<>> => queue'[c] # <<>>
      BY <2>0, <2>1, <3>1, QueueOps
    <3> QED BY <2>0, <2>1, <2>3, <3>2, <3>3 DEF CaseReady
  <2> QED BY <1>0, <2>2, <2>3
<1> QED BY <1>0, <1>1, <1>2

(***************************************************************************)
(* A timer does not make a case impossible.                                *)
(***************************************************************************)
LEMMA CaseStaysTimer ==
  ASSUME Disciplined, Typed, NEW t \in Tasks, NEW d \in Chans, FireTimer(d),
         op[t] \in Ops[t], NEW k \in Range(op[t].cases), CaseReady(k, queue, closed, status)
  PROVE  CaseReady(k, queue', closed', status')
<1>0. k.on \in Chans \cup Tasks /\ k.dir \in {"send", "recv"}
  BY OpFacts DEF IsOperation
<1>1. /\ d \in timers /\ closed' = closed /\ status' = status
      /\ \A c \in Chans \ {d} : queue'[c] = queue[c]
      /\ queue'[d] = IF closed[d] THEN queue[d] ELSE Append(queue[d], Tick)
      /\ d \in Timers /\ queue[d] \in Seq(Messages) /\ Tick \in Messages
  BY TimerEffect DEF Typed, Messages
<1>2. CASE k.on \in Tasks
  BY <1>1, <1>2 DEF CaseReady
<1>3. CASE k.on \in Chans
  <2>0. k.on \notin Tasks
    BY <1>3
  <2>1. CASE k.on # d
    BY <1>1, <1>3, <2>0, <2>1 DEF CaseReady
  <2>2. CASE k.on = d
    <3>1. k.dir = "recv"
      BY <1>0, <1>1, <2>2 DEF Disciplined, Uses
    <3>2. queue[d] # <<>> => queue'[d] # <<>>
      BY <1>1, QueueOps
    <3> QED BY <1>1, <2>0, <2>2, <3>1, <3>2 DEF CaseReady
  <2> QED BY <2>1, <2>2
<1> QED BY <1>0, <1>2, <1>3

(***************************************************************************)
(* So a select that is looking at its cases, or has chosen one, is not     *)
(* misled by what others do meanwhile.                                     *)
(***************************************************************************)
LEMMA ScanStays ==
  ASSUME Typed, Control, Watch, Selecting, NEW t \in Tasks,
         at'[t] = at[t], pos'[t] = pos[t], op'[t] = op[t],
         op[t] \in Ops[t] => \A k \in Range(op[t].cases) :
           CaseReady(k, queue, closed, status) => CaseReady(k, queue', closed', status')
  PROVE  ScanOf(t)' /\ CommitOf(t)'
<1>1. ASSUME at[t] \in {"scan", "commit"}
      PROVE  /\ op[t] \in Ops[t] /\ op[t].kind = "select" /\ Len(op[t].cases) \in Nat
             /\ at[t] = "scan" => pos[t] \in 1 .. Len(op[t].cases) + 1
             /\ at[t] = "commit" => pos[t] \in 1 .. Len(op[t].cases)
             /\ \A j \in 1 .. Len(op[t].cases) : op[t].cases[j] \in Range(op[t].cases)
  <2>1. op[t] \in Ops[t] /\ op[t].kind = "select"
    BY <1>1, ExecutedOp DEF Control, ControlOf
  <2> QED BY <2>1, CaseFacts DEF Control, ControlOf
<1>2. ScanOf(t)'
  <2> SUFFICES ASSUME at[t] = "scan", NoneFrom(t, pos[t])' PROVE quiet'[t]
    BY DEF ScanOf
  <2>1. ASSUME NEW j \in pos[t] .. Len(op[t].cases)
        PROVE  ~CaseReady(op[t].cases[j], queue, closed, status)
    <3>1. j \in 1 .. Len(op[t].cases)
      BY <1>1
    <3>2. ~CaseReady(op[t].cases[j], queue', closed', status')
      BY DEF NoneFrom
    <3> QED BY <1>1, <3>1, <3>2
  <2>2. quiet[t]
    BY <2>1 DEF NoneFrom, Selecting, ScanOf
  <2> QED BY <1>1, <2>2, WatchFacts
<1>3. CommitOf(t)'
  <2> SUFFICES ASSUME at[t] = "commit"
               PROVE  CaseReady(op'[t].cases[pos'[t]], queue', closed', status')
    BY DEF CommitOf
  <2>1. CaseReady(op[t].cases[pos[t]], queue, closed, status)
    BY DEF Selecting, CommitOf
  <2> QED BY <1>1, <2>1
<1> QED BY <1>2, <1>3

(***************************************************************************)
(* Nor by its own steps: a scan begins at its first case, and passes over  *)
(* the impossible ones only.                                               *)
(***************************************************************************)
LEMMA OwnSelecting ==
  ASSUME Typed, Control, Watch, Selecting, Typed', Control', NEW t \in Tasks, Step(t)
  PROVE  ScanOf(t)' /\ CommitOf(t)'
<1>0. op \in [Tasks -> Calls \cup {Idle}] /\ pos \in [Tasks -> Nat]
  BY DEF Typed
<1>1. CASE Enters(t)
  <2>1. PICK o \in Ops[t] : op' = [op EXCEPT ![t] = o] /\ Enter(t, o)
    BY <1>1 DEF Enters
  <2>2. /\ at'[t] = "scan" /\ pos'[t] = 1 /\ o.kind = "select"
        \/ at'[t] = "exec"
    BY <2>1, MoveTypes DEF Enter, Labels
  <2>3. QuietOf(t)'
    BY StepQuiet DEF Quiet
  <2>4. op'[t] = o
    BY <1>0, <2>1
  <2> QED BY <2>2, <2>3, <2>4 DEF QuietOf, ScanOf, CommitOf
<1>2. CASE Goes(t) /\ status' = status
  <2>0. op' = op
    BY <1>2 DEF Goes
  <2>1. CASE Parks(t)
    <3>1. at'[t] = "parked"
      BY <2>1, MoveTypes DEF Parks, Labels
    <3> QED BY <3>1 DEF ScanOf, CommitOf
  <2>2. CASE Loops(t)
    BY <2>2 DEF Loops, ScanOf, CommitOf
  <2>3. CASE SelectScan(t)
    <3>1. at[t] = "scan" /\ pos[t] <= Len(op[t].cases) /\ UNCHANGED <<queue, closed, status>>
          /\ pos[t] \in Nat /\ pos[t] + 1 \in Nat /\ pos[t] \in 1 .. Len(op[t].cases) + 1
          /\ op[t].kind = "select"
      BY <1>0, <2>3 DEF SelectScan, Control, ControlOf
    <3>2. CASE CaseReady(op[t].cases[pos[t]], queue, closed, status)
      <4>1. at'[t] = "commit" /\ pos'[t] = pos[t]
        BY <2>3, <3>1, <3>2, MoveTypes DEF SelectScan, Labels
      <4> QED BY <2>0, <3>1, <3>2, <4>1 DEF ScanOf, CommitOf
    <3>3. CASE ~CaseReady(op[t].cases[pos[t]], queue, closed, status)
      <4>1. at'[t] = "scan" /\ pos'[t] = pos[t] + 1
        BY <2>3, <3>1, <3>3, MoveTypes DEF SelectScan, Labels
      <4>2. ASSUME NoneFrom(t, pos[t])' PROVE quiet'[t]
        <5>1. \A j \in pos[t] + 1 .. Len(op[t].cases) : ~CaseReady(op[t].cases[j], queue, closed, status)
          BY <2>0, <3>1, <4>1, <4>2 DEF NoneFrom
        <5>2. ASSUME NEW j \in pos[t] .. Len(op[t].cases)
              PROVE  ~CaseReady(op[t].cases[j], queue, closed, status)
          <6>1. j = pos[t] \/ j \in pos[t] + 1 .. Len(op[t].cases)
            BY <3>1
          <6> QED BY <3>3, <5>1, <6>1
        <5>3. quiet[t]
          BY <3>1, <5>2 DEF NoneFrom, Selecting, ScanOf
        <5> QED BY <2>0, <3>1, <5>3, WatchFacts
      <4> QED BY <4>1, <4>2 DEF ScanOf, CommitOf
    <3> QED BY <3>2, <3>3
  <2> QED BY <1>2, <2>1, <2>2, <2>3 DEF Goes
<1>3. CASE Returns(t)
  <2>1. at'[t] = "ready"
    BY <1>3, ReturnTypes DEF Returns
  <2> QED BY <2>1 DEF ScanOf, CommitOf
<1>4. CASE Ends(t)
  <2>1. at'[t] = "over"
    BY <1>4, MoveTypes DEF Ends, Labels
  <2> QED BY <2>1 DEF ScanOf, CommitOf
<1> QED BY <1>1, <1>2, <1>3, <1>4, StepShape

(***************************************************************************)
(* Nobody sends on the channel of a timer, so it is empty until it rings.  *)
(***************************************************************************)
LEMMA TimersStayEmpty ==
  ASSUME Disciplined, Typed, Control, TimersEmpty, NEW t \in Tasks, Step(t)
  PROVE  TimersEmpty'
<1> SUFFICES ASSUME NEW c \in timers' PROVE queue'[c] = <<>>
  BY DEF TimersEmpty
<1>1. c \in timers /\ c \in Timers /\ c \in Chans /\ queue[c] = <<>>
  BY StepChannels DEF Typed, TimersEmpty
<1>2. ~Uses(t, "send", c)
  BY <1>1 DEF Disciplined
<1> QED BY <1>1, <1>2, ChannelEffect

(***************************************************************************)
(* The inductive invariant of disciplined programs, step by step.          *)
(***************************************************************************)
LEMMA DisciplinedNext == Disciplined /\ IInv /\ [Next]_vars => IInv'
<1> SUFFICES ASSUME Disciplined, IInv, [Next]_vars PROVE IInv'
  OBVIOUS
<1>0. BasicInv /\ Typed /\ Control /\ Selecting /\ TimersEmpty
  BY DEF IInv, BasicInv
<1>b. BasicInv' /\ Typed' /\ Control'
  <2>1. BasicInv'
    BY <1>0, BasicNext
  <2> QED BY <2>1 DEF BasicInv
<1>1. CASE UNCHANGED vars
  <2>1. Selecting'
    BY <1>0, <1>1 DEF vars, Selecting, ScanOf, CommitOf, NoneFrom
  <2>2. TimersEmpty'
    BY <1>0, <1>1 DEF vars, TimersEmpty
  <2> QED BY <1>b, <2>1, <2>2 DEF IInv
<1>2. ASSUME NEW u \in Tasks, Step(u), Watch PROVE IInv'
  <2>1. ASSUME NEW t \in Tasks PROVE ScanOf(t)' /\ CommitOf(t)'
    <3>1. CASE t = u
      BY <1>0, <1>b, <1>2, <3>1, OwnSelecting
    <3>2. CASE t # u
      <4>1. at'[t] = at[t] /\ pos'[t] = pos[t] /\ op'[t] = op[t]
        BY <1>0, <1>2, <3>2, OthersSame
      <4>2. op[t] \in Ops[t] => \A k \in Range(op[t].cases) :
               CaseReady(k, queue, closed, status) => CaseReady(k, queue', closed', status')
        BY <1>0, <1>2, <3>2, CaseStays
      <4> QED BY <1>0, <1>2, <4>1, <4>2, ScanStays
    <3> QED BY <3>1, <3>2
  <2>2. Selecting'
    BY <2>1 DEF Selecting
  <2>3. TimersEmpty'
    BY <1>0, <1>2, TimersStayEmpty
  <2> QED BY <1>b, <2>2, <2>3 DEF IInv
<1>3. ASSUME NEW d \in Chans, FireTimer(d), Watch PROVE IInv'
  <2>0. /\ timers' = timers \ {d} /\ UNCHANGED <<op, at, pos>>
        /\ \A c \in Chans \ {d} : queue'[c] = queue[c]
    BY <1>0, <1>3, TimerEffect
  <2>1. ASSUME NEW t \in Tasks PROVE ScanOf(t)' /\ CommitOf(t)'
    <3>1. op[t] \in Ops[t] => \A k \in Range(op[t].cases) :
             CaseReady(k, queue, closed, status) => CaseReady(k, queue', closed', status')
      BY <1>0, <1>3, CaseStaysTimer
    <3> QED BY <1>0, <1>3, <2>0, <3>1, ScanStays
  <2>2. Selecting'
    BY <2>1 DEF Selecting
  <2>3. TimersEmpty'
    BY <1>0, <2>0 DEF TimersEmpty, Typed
  <2> QED BY <1>b, <2>2, <2>3 DEF IInv
<1> QED BY <1>1, <1>2, <1>3 DEF Next, Step

-----------------------------------------------------------------------------
(***************************************************************************)
(* The theorems.                                                           *)
(***************************************************************************)

(***************************************************************************)
(* The types, the control state and the history of every program.          *)
(***************************************************************************)
THEOREM BasicInvariant == Spec => []BasicInv
<1>1. Init => BasicInv
  BY BasicInit
<1> QED BY <1>1, BasicNext, PTL DEF Spec

(***************************************************************************)
(* Every program: a task is over when its handle says so, and has an       *)
(* operation while it executes, waits, scans or commits; a select commits  *)
(* to one of its own cases.                                                *)
(***************************************************************************)
THEOREM TypesHold == Spec => []TypeOK
<1>1. BasicInv => TypeOK
  <2> SUFFICES ASSUME BasicInv PROVE TypeOK
    OBVIOUS
  <2>0. Typed /\ Control
    BY DEF BasicInv
  <2>1. /\ \A c \in Chans : closed[c] \in BOOLEAN
        /\ timers \subseteq Timers
        /\ status \in [Tasks -> {"running", "completed", "failed"}]
        /\ at \in [Tasks -> {"ready", "exec", "parked", "scan", "commit", "over"}]
    BY <2>0 DEF Typed, Statuses, Labels
  <2>2. ASSUME NEW t \in Tasks
        PROVE  /\ (at[t] = "over") = (status[t] # "running")
               /\ (at[t] \in {"ready", "over"}) = (op[t] = Idle)
               /\ at[t] \in {"scan", "commit"} => op[t].kind = "select"
               /\ left[t] \in 0 .. MaxOps
    BY <2>0 DEF Typed, Control, ControlOf
  <2>3. ASSUME NEW t \in Tasks, at[t] = "commit" PROVE pos[t] \in DOMAIN op[t].cases
    <3>1. op[t] \in Ops[t] /\ pos[t] \in 1 .. Len(op[t].cases)
      BY <2>0, <2>3, ExecutedOp DEF Control, ControlOf
    <3> QED BY <3>1, CaseFacts
  <2> QED BY <2>1, <2>2, <2>3 DEF TypeOK
<1> QED BY <1>1, BasicInvariant, PTL

(***************************************************************************)
(* Disciplined programs: what a select has chosen it can still take, what  *)
(* it passed over was impossible all the time, and a timer that has not    *)
(* rung finds its channel empty.                                           *)
(***************************************************************************)
THEOREM Invariant == Disciplined => (Spec => []IInv)
<1> SUFFICES ASSUME Disciplined PROVE Spec => []IInv
  OBVIOUS
<1>1. Init => IInv
  BY BasicInit DEF IInv
<1>2. IInv /\ [Next]_vars => IInv'
  BY DisciplinedNext
<1> QED BY <1>1, <1>2, PTL DEF Spec

(***************************************************************************)
(* What an instruction that ends with nil for a channel found: it was      *)
(* closed, if no message is nil.                                           *)
(***************************************************************************)
LEMMA NilStep ==
  ASSUME SendsNoNil, Typed, Control, Selecting, NEW t \in Tasks, Step(t),
         NEW c \in Chans, answer'[t] = <<c, Nil>>, answer[t] # <<c, Nil>>
  PROVE  closed'[c]
<1>0. /\ queue \in [Chans -> Seq(Messages)] /\ closed \in [Chans -> BOOLEAN]
      /\ answer \in [Tasks -> Answers] /\ c \notin Tasks /\ c # Nothing
  BY DEF Typed
<1>n. Nil \notin Messages /\ Nil # Sent
  BY DEF Messages, Calls, SendsNoNil
<1>h. ASSUME NEW d \in Chans, queue[d] # <<>> PROVE Head(queue[d]) # Nil
  <2>1. queue[d] \in Seq(Messages)
    BY <1>0
  <2> QED BY <1>h, <1>n, <2>1, QueueOps
<1>a. ASSUME NEW x, NEW v, answer' = [answer EXCEPT ![t] = <<x, v>>] PROVE x = c /\ v = Nil
  <2>1. answer'[t] = <<x, v>>
    BY <1>0, <1>a
  <2> QED BY <2>1
<1>r. ASSUME NEW x, NEW v, Return(t, x, v) PROVE x = c /\ v = Nil
  BY <1>a, <1>r DEF Return
<1>1. CASE Begin(t) \/ Finish(t) \/ Resume(t) \/ SelectScan(t)
  BY <1>1 DEF Begin, Finish, Resume, SelectScan
<1>2. CASE Send(t)
  <2>1. CASE Return(t, op[t].on, Sent)
    BY <1>n, <1>r, <2>1
  <2> QED BY <1>2, <2>1 DEF Send, Fail, Park
<1>3. CASE Recv(t)
  <2>1. op[t].on \in Chans
    BY <1>3 DEF Recv
  <2>2. CASE queue[op[t].on] # <<>> /\ answer' = [answer EXCEPT ![t] = <<op[t].on, Head(queue[op[t].on])>>]
    BY <1>a, <1>h, <2>1, <2>2
  <2>3. CASE closed[op[t].on] /\ Return(t, op[t].on, Nil) /\ closed' = closed
    BY <1>r, <2>3
  <2> QED BY <1>3, <2>2, <2>3 DEF Recv, Park, Return
<1>4. CASE Join(t)
  <2>1. op[t].on \in Tasks
    BY <1>4 DEF Join
  <2>2. ~Return(t, op[t].on, HandleResult(op[t].on))
    BY <1>0, <1>r, <2>1
  <2> QED BY <1>4, <2>2 DEF Join, Park
<1>5. CASE Close(t)
  <2>1. op[t].on = c
    BY <1>5, <1>r DEF Close
  <2> QED BY <1>0, <1>5, <2>1 DEF Close
<1>6. CASE SelectNone(t)
  <2>1. ~Return(t, Nothing, Default)
    BY <1>0, <1>r
  <2> QED BY <1>6, <2>1 DEF SelectNone, Park
<1>7. CASE SelectCommit(t)
  <2> DEFINE k == op[t].cases[pos[t]]
  <2>1. k.on \in Chans \cup Tasks /\ CaseReady(k, queue, closed, status) /\ closed' = closed
    BY <1>7, ChosenCase DEF SelectCommit, Selecting, CommitOf
  <2>2. k.on \in Tasks => Return(t, k.on, HandleResult(k.on))
    BY <1>7 DEF SelectCommit
  <2>3. k.on = c
    BY <1>7, <1>r DEF SelectCommit
  <2>4. ~Return(t, k.on, Sent) /\ (queue[c] # <<>> => ~Return(t, c, Head(queue[c])))
    BY <1>h, <1>n, <1>r
  <2>5. k.dir # "send" /\ queue[c] = <<>>
    BY <1>0, <1>7, <2>3, <2>4 DEF SelectCommit
  <2> QED BY <1>0, <2>1, <2>3, <2>5 DEF CaseReady
<1> QED BY <1>1, <1>2, <1>3, <1>4, <1>5, <1>6, <1>7 DEF Step, Instruction

(***************************************************************************)
(* Disciplined programs that send no nil: a receiver is told nil for a     *)
(* channel only when that channel is closed.                               *)
(***************************************************************************)
THEOREM NilIsTheEnd == Disciplined /\ SendsNoNil => (Spec => []NilMeansClosed)
<1> SUFFICES ASSUME Disciplined, SendsNoNil PROVE Spec => []NilMeansClosed
  OBVIOUS
<1>1. Init => NilMeansClosed
  BY DEF Init, NilMeansClosed
<1>2. IInv /\ NilMeansClosed /\ [Next]_vars => NilMeansClosed'
  <2> SUFFICES ASSUME IInv, NilMeansClosed, [Next]_vars, NEW t \in Tasks, NEW c \in Chans,
                      answer'[t] = <<c, Nil>>
               PROVE  closed'[c]
    BY DEF NilMeansClosed
  <2>0. Typed /\ Control /\ Selecting
    BY DEF IInv, BasicInv
  <2>1. answer[t] = <<c, Nil>> => closed[c]
    BY DEF NilMeansClosed
  <2>2. CASE UNCHANGED vars
    BY <2>1, <2>2 DEF vars
  <2>3. ASSUME NEW u \in Tasks, Step(u) PROVE closed'[c]
    <3>1. closed[c] => closed'[c]
      BY <2>0, <2>3, ChannelEffect
    <3>2. CASE answer[t] = <<c, Nil>>
      BY <2>1, <3>1, <3>2
    <3>3. CASE answer[t] # <<c, Nil>>
      <4>1. t = u
        BY <2>0, <2>3, <3>3, OthersSame
      <4> QED BY <2>0, <2>3, <3>3, <4>1, NilStep
    <3> QED BY <3>2, <3>3
  <2>4. ASSUME NEW d \in Chans, FireTimer(d) PROVE closed'[c]
    BY <2>1, <2>4 DEF FireTimer
  <2> QED BY <2>2, <2>3, <2>4 DEF Next, Step
<1> QED BY <1>1, <1>2, Invariant, PTL DEF Spec

(***************************************************************************)
(* Disciplined programs: once closed, a channel stays closed and only      *)
(* empties, whatever selects between their two locks and timers still do.  *)
(***************************************************************************)
THEOREM ClosedDrains == Disciplined => (Spec => ClosedOnlyDrains)
<1> SUFFICES ASSUME Disciplined PROVE Spec => ClosedOnlyDrains
  OBVIOUS
<1> DEFINE Drains(c) ==
      closed[c] => /\ closed'[c]
                   /\ queue'[c] # queue[c] => queue[c] # <<>> /\ queue'[c] = Tail(queue[c])
<1>1. ASSUME IInv, [Next]_vars, NEW c \in Chans PROVE Drains(c)
  <2>0. Typed /\ Control /\ Selecting
    BY <1>1 DEF IInv, BasicInv
  <2>1. CASE UNCHANGED vars
    BY <2>1 DEF vars
  <2>2. ASSUME NEW t \in Tasks, Step(t) PROVE Drains(c)
    <3>1. CommitOf(t)
      BY <2>0 DEF Selecting
    <3> QED BY <2>0, <2>2, <3>1, ChannelEffect
  <2>3. ASSUME NEW d \in Chans, FireTimer(d) PROVE Drains(c)
    BY <2>0, <2>3, TimerEffect
  <2> QED BY <1>1, <2>1, <2>2, <2>3 DEF Next, Step
<1>2. IInv /\ [Next]_vars => [\A c \in Chans : Drains(c)]_vars
  BY <1>1
<1> QED BY <1>2, Invariant, PTL DEF ClosedOnlyDrains, Spec

-----------------------------------------------------------------------------
(***************************************************************************)
(* The capacity.                                                           *)
(***************************************************************************)

\* The selects that have chosen to send on c and have yet to do so.
Committed(c) == {t \in Tasks : /\ at[t] = "commit"
                               /\ op[t].cases[pos[t]].dir = "send"
                               /\ op[t].cases[pos[t]].on = c}

\* One, if the timer of c has yet to ring.
Pending(c) == IF c \in timers THEN 1 ELSE 0

(***************************************************************************)
(* A select that has chosen no longer looks at the room there is, and a    *)
(* timer never does: what is on its way counts as if it had arrived.       *)
(***************************************************************************)
RoomFor(c) == Len(queue[c]) + Cardinality(Committed(c)) + Pending(c)
                <= Capacity[c] + Surplus(c)
Room == \A c \in Chans : RoomFor(c)

\* What is on its way to a channel is part of its surplus.
OnItsWay(c) == /\ Len(queue[c]) \in Nat /\ Cardinality(Committed(c)) \in Nat
               /\ Cardinality(Committed(c)) + Pending(c) <= Surplus(c)

(***************************************************************************)
(* The selects that have chosen to send are among those that may.          *)
(***************************************************************************)
LEMMA CommittedFacts ==
  ASSUME Typed, Control, NEW c \in Chans
  PROVE  /\ Committed(c) \subseteq MaySelectSend(c)
         /\ IsFiniteSet(Committed(c)) /\ IsFiniteSet(MaySelectSend(c))
         /\ Cardinality(Committed(c)) \in Nat /\ Cardinality(MaySelectSend(c)) \in Nat
         /\ Cardinality(Committed(c)) <= Cardinality(MaySelectSend(c))
         /\ OnItsWay(c) /\ Surplus(c) \in Nat /\ Capacity[c] \in Nat
<1>1. Committed(c) \subseteq MaySelectSend(c)
  <2> SUFFICES ASSUME NEW t \in Committed(c) PROVE Selects(t, "send", c)
    BY DEF MaySelectSend, Committed
  <2>1. t \in Tasks /\ at[t] = "commit"
    BY DEF Committed
  <2>2. op[t] \in Ops[t] /\ op[t].cases[pos[t]] \in Range(op[t].cases)
    BY <2>1, ExecutedOp, ChosenCase
  <2> QED BY <2>2 DEF Committed, Selects
<1>2. MaySelectSend(c) \subseteq Tasks
  BY DEF MaySelectSend
<1>3. IsFiniteSet(Committed(c)) /\ IsFiniteSet(MaySelectSend(c))
  BY <1>1, <1>2, FS_Subset
<1>4. /\ Cardinality(Committed(c)) \in Nat /\ Cardinality(MaySelectSend(c)) \in Nat
      /\ Cardinality(Committed(c)) <= Cardinality(MaySelectSend(c))
  BY <1>1, <1>3, FS_CardinalityType, FS_Subset
<1>5. c \in timers => c \in Timers
  BY DEF Typed
<1>6. Len(queue[c]) \in Nat
  BY QueueOps DEF Typed
<1> QED BY <1>1, <1>3, <1>4, <1>5, <1>6 DEF Pending, Surplus, OnItsWay

(***************************************************************************)
(* A select sends when it has chosen to, or is one more on its way when    *)
(* there is room; nobody else takes more than the room there is.           *)
(***************************************************************************)
LEMMA StepRoom ==
  ASSUME Typed, Control, NEW t \in Tasks, Step(t), NEW c \in Chans
  PROVE  \/ Len(queue'[c]) <= Capacity[c]
         \/ /\ Len(queue'[c]) <= Len(queue[c]) /\ Committed(c)' \subseteq Committed(c)
         \/ /\ Len(queue'[c]) = Len(queue[c]) + 1
            /\ t \in Committed(c) /\ Committed(c)' \subseteq Committed(c) \ {t}
<1>0. queue \in [Chans -> Seq(Messages)] /\ Len(queue[c]) \in Nat /\ Capacity[c] \in Nat
  BY QueueOps DEF Typed
<1>1. Committed(c)' \subseteq Committed(c) \cup {t}
  <2>1. \A u \in Tasks \ {t} : at'[u] = at[u] /\ pos'[u] = pos[u] /\ op'[u] = op[u]
    BY OthersSame
  <2> QED BY <2>1 DEF Committed
<1>2. CASE t \in Committed(c)'
  <2>1. at'[t] = "commit" /\ op'[t].cases[pos'[t]].dir = "send" /\ op'[t].cases[pos'[t]].on = c
    BY <1>2 DEF Committed
  <2>2. SelectScan(t)
    <3>1. CASE Enters(t)
      <4>1. PICK o \in Ops[t] : Enter(t, o)
        BY <3>1 DEF Enters
      <4> QED BY <2>1, <4>1, MoveTypes DEF Enter, Labels
    <3>2. CASE Goes(t)
      BY <2>1, <3>2, MoveTypes DEF Goes, Parks, Loops, Labels
    <3>3. CASE Returns(t)
      <4>1. PICK x \in Objects, v \in Results : Return(t, x, v)
        BY <3>3 DEF Returns
      <4> QED BY <2>1, <4>1, MoveTypes DEF Return, Labels
    <3>4. CASE Ends(t)
      BY <2>1, <3>4, MoveTypes DEF Ends, Labels
    <3> QED BY <3>1, <3>2, <3>3, <3>4, StepShape
  <2>3. /\ CaseReady(op[t].cases[pos[t]], queue, closed, status)
        /\ pos'[t] = pos[t] /\ op' = op /\ queue' = queue
    <3>1. at[t] = "scan" /\ op' = op /\ queue' = queue /\ pos[t] \in Nat /\ pos[t] + 1 \in Nat
      BY <2>2 DEF SelectScan, Typed
    <3>2. CASE CaseReady(op[t].cases[pos[t]], queue, closed, status)
      <4>1. Move(t, "commit", pos[t])
        BY <2>2, <3>2 DEF SelectScan
      <4> QED BY <3>1, <3>2, <4>1, MoveTypes DEF Labels
    <3>3. CASE ~CaseReady(op[t].cases[pos[t]], queue, closed, status)
      <4>1. Move(t, "scan", pos[t] + 1)
        BY <2>2, <3>3 DEF SelectScan
      <4> QED BY <2>1, <3>1, <4>1, MoveTypes DEF Labels
    <3> QED BY <3>2, <3>3
  <2>4. c \notin Tasks
    OBVIOUS
  <2>5. Len(queue[c]) < Capacity[c]
    BY <2>1, <2>3, <2>4 DEF CaseReady
  <2> QED BY <1>0, <2>3, <2>5
<1>3. CASE t \notin Committed(c)'
  <2>1. Committed(c)' \subseteq Committed(c) \ {t}
    BY <1>1, <1>3
  <2>2. CASE queue'[c] = queue[c]
    BY <1>0, <2>1, <2>2
  <2>3. CASE queue[c] # <<>> /\ queue'[c] = Tail(queue[c])
    BY <1>0, <2>1, <2>3, QueueOps
  <2>4. CASE /\ \E v \in Messages : queue'[c] = Append(queue[c], v)
             /\ CommitOf(t) => Len(queue[c]) < Capacity[c]
    <3>1. Len(queue'[c]) = Len(queue[c]) + 1
      BY <1>0, <2>4
    <3>2. CASE at[t] # "commit"
      BY <1>0, <2>4, <3>1, <3>2 DEF CommitOf
    <3>3. CASE at[t] = "commit"
      <4>1. SelectCommit(t)
        BY <3>3, ExecutedOp DEF Step, Begin, Finish, Resume, Instruction, Send, Recv, Join,
           Close, SelectScan, SelectNone, Executes
      <4>2. queue' # queue
        BY <1>0, <3>1
      <4> DEFINE k == op[t].cases[pos[t]]
      <4>3. k.on \in Chans \cup Tasks
        BY <3>3, ChosenCase
      <4>4. k.on \notin Tasks
        BY <4>1, <4>2 DEF SelectCommit
      <4>5. CASE k.dir = "send"
        <5>1. Push(k.on, k.val)
          BY <4>1, <4>4, <4>5, SMTT(60) DEF SelectCommit
        <5>2. k.on = c
          BY <1>0, <3>1, <5>1 DEF Push
        <5>3. t \in Committed(c)
          BY <3>3, <4>5, <5>2 DEF Committed
        <5> QED BY <2>1, <3>1, <5>3
      <4>6. CASE k.dir # "send"
        <5>1. queue' = [queue EXCEPT ![k.on] = Tail(@)] /\ queue[k.on] # <<>>
          BY <4>1, <4>2, <4>4, <4>6 DEF SelectCommit
        <5>2. queue'[c] = queue[c] \/ (queue[c] # <<>> /\ queue'[c] = Tail(queue[c]))
          BY <1>0, <5>1
        <5>3. FALSE
          BY <1>0, <3>1, <5>2, QueueOps
        <5> QED BY <5>3
      <4> QED BY <4>5, <4>6
    <3> QED BY <3>2, <3>3
  <2> QED BY <2>2, <2>3, <2>4, ChannelEffect
<1> QED BY <1>2, <1>3

(***************************************************************************)
(* Every step keeps the room: the message of a select or of a timer was on *)
(* its way already, and every other send finds room.                       *)
(***************************************************************************)
LEMMA RoomNext ==
  ASSUME BasicInv, Room, [Next]_vars, \A c \in Chans : OnItsWay(c)'
  PROVE  Room'
<1> SUFFICES ASSUME NEW c \in Chans PROVE RoomFor(c)'
  BY DEF Room
<1> DEFINE l == Len(queue[c])
           m == Cardinality(Committed(c))
           p == Pending(c)
           n == Surplus(c)
<1>0. Typed /\ Control
  BY DEF BasicInv
<1>1. /\ l \in Nat /\ m \in Nat /\ p \in {0, 1} /\ n \in Nat /\ Capacity[c] \in Nat
      /\ l + m + p <= Capacity[c] + n
  BY <1>0, CommittedFacts DEF Pending, Room, RoomFor, OnItsWay
<1>2. l' \in Nat /\ m' \in Nat /\ m' + p' <= n
  <2>1. OnItsWay(c)' /\ n' = n
    BY DEF Surplus, MaySelectSend
  <2> QED BY <2>1 DEF OnItsWay
<1>3. p' \in Nat
  BY DEF Pending
<1>4. SUFFICES l' + m' + p' <= Capacity[c] + n
  <2>1. n' = n
    BY DEF Surplus, MaySelectSend
  <2> QED BY <2>1 DEF RoomFor
<1>5. CASE UNCHANGED vars
  BY <1>1, <1>5 DEF vars, Committed, Pending
<1>6. ASSUME NEW t \in Tasks, Step(t) PROVE l' + m' + p' <= Capacity[c] + n
  <2>1. p' = p
    BY <1>0, <1>6, StepChannels DEF Pending
  <2>2. IsFiniteSet(Committed(c))
    BY <1>0, CommittedFacts
  <2>3. CASE l' <= Capacity[c]
    <3>1. \A a, b, x, j, k \in Nat : a <= j /\ b + x <= k => a + b + x <= j + k
      OBVIOUS
    <3> HIDE DEF l, m, p, n
    <3>2. l' \in Nat /\ m' \in Nat /\ p' \in Nat /\ Capacity[c] \in Nat /\ n \in Nat
      BY <1>1, <1>2, <1>3
    <3>3. l' <= Capacity[c] /\ m' + p' <= n
      BY <1>2, <2>3
    <3> QED BY <3>1, <3>2, <3>3
  <2>4. CASE l' <= l /\ Committed(c)' \subseteq Committed(c)
    <3>1. m' <= m
      BY <2>2, <2>4, FS_Subset
    <3> HIDE DEF l, m, p, n
    <3> QED BY <1>1, <1>2, <2>1, <2>4, <3>1
  <2>5. CASE l' = l + 1 /\ t \in Committed(c) /\ Committed(c)' \subseteq Committed(c) \ {t}
    <3>1. IsFiniteSet(Committed(c) \ {t}) /\ Cardinality(Committed(c) \ {t}) = m - 1
      BY <2>2, <2>5, FS_RemoveElement
    <3>2. m' <= m - 1
      BY <2>5, <3>1, FS_Subset
    <3> HIDE DEF l, m, p, n
    <3> QED BY <1>1, <1>2, <2>1, <2>5, <3>2
  <2> QED BY <1>0, <1>6, <2>3, <2>4, <2>5, StepRoom
<1>7. ASSUME NEW d \in Chans, FireTimer(d) PROVE l' + m' + p' <= Capacity[c] + n
  <2>1. m' = m
    BY <1>0, <1>7, TimerEffect DEF Committed
  <2>2. CASE d = c
    <3>1. p = 1 /\ p' = 0
      BY <1>7, <2>2 DEF FireTimer, Pending
    <3>2. queue[c] \in Seq(Messages) /\ Tick \in Messages
      BY <1>0 DEF Typed, Messages
    <3>3. queue'[c] = queue[c] \/ queue'[c] = Append(queue[c], Tick)
      BY <1>0, <1>7, <2>2, TimerEffect
    <3>4. l' = l \/ l' = l + 1
      BY <3>2, <3>3
    <3> HIDE DEF l, m, p, n
    <3> QED BY <1>1, <1>2, <2>1, <3>1, <3>4
  <2>3. CASE d # c
    <3>1. l' = l /\ p' = p
      BY <1>0, <1>7, <2>3, TimerEffect DEF Pending
    <3> HIDE DEF l, m, p, n
    <3> QED BY <1>1, <2>1, <3>1
  <2> QED BY <2>2, <2>3
<1> QED BY <1>5, <1>6, <1>7 DEF Next, Step

(***************************************************************************)
(* At first the channels are empty and no select has chosen.               *)
(***************************************************************************)
LEMMA RoomInit == Init => Room
<1> SUFFICES ASSUME Init, NEW c \in Chans PROVE RoomFor(c)
  BY DEF Room
<1>1. Typed /\ Control
  BY BasicInit DEF BasicInv
<1>2. Len(queue[c]) = 0
  BY DEF Init
<1>3. /\ OnItsWay(c) /\ Cardinality(Committed(c)) \in Nat
      /\ Surplus(c) \in Nat /\ Capacity[c] \in Nat
  BY <1>1, CommittedFacts
<1>4. Pending(c) \in {0, 1}
  BY DEF Pending
<1>5. Cardinality(Committed(c)) + Pending(c) <= Surplus(c)
  BY <1>3 DEF OnItsWay
<1> QED BY <1>2, <1>3, <1>4, <1>5, SMTT(60) DEF RoomFor

(***************************************************************************)
(* Every program: the selects that send, and a timer, may fill a channel   *)
(* past its capacity, but by one message each and no more.                 *)
(***************************************************************************)
THEOREM OverrunsAreBounded == Spec => []OverrunIsBounded
<1>1. Init => Room
  BY RoomInit
<1> DEFINE Arriving == \A c \in Chans : OnItsWay(c)
<1>2. BasicInv => Arriving
  BY CommittedFacts DEF BasicInv
<1>3. BasicInv /\ Arriving' /\ Room /\ [Next]_vars => Room'
  BY RoomNext
<1>4. BasicInv /\ Room => OverrunIsBounded
  <2> SUFFICES ASSUME BasicInv, Room, NEW c \in Chans
               PROVE  Len(queue[c]) <= Capacity[c] + Surplus(c)
    BY DEF OverrunIsBounded
  <2>1. Typed /\ Control
    BY DEF BasicInv
  <2>2. Pending(c) \in {0, 1}
    BY DEF Pending
  <2> QED BY <2>1, <2>2, CommittedFacts DEF Room, RoomFor, OnItsWay
<1> HIDE DEF Arriving
<1> QED BY <1>1, <1>2, <1>3, <1>4, BasicInvariant, PTL DEF Spec

(***************************************************************************)
(* Disciplined programs: no channel ever holds more than its capacity,     *)
(* although neither the second half of a select nor a timer looks at it.   *)
(***************************************************************************)
THEOREM CapacityIsKept == Disciplined => (Spec => []CapacityHolds)
<1> SUFFICES ASSUME Disciplined PROVE Spec => []CapacityHolds
  OBVIOUS
<1>1. Init => CapacityHolds
  BY DEF Init, CapacityHolds
<1>2. ASSUME IInv, CapacityHolds, [Next]_vars, NEW c \in Chans
      PROVE  Len(queue'[c]) <= Capacity[c]
  <2>0. Typed /\ Control /\ Selecting /\ TimersEmpty
    BY <1>2 DEF IInv, BasicInv
  <2>1. /\ queue[c] \in Seq(Messages) /\ Len(queue[c]) \in Nat /\ Capacity[c] \in Nat \ {0}
        /\ Len(queue[c]) <= Capacity[c]
    BY <1>2, <2>0, QueueOps DEF Typed, CapacityHolds
  <2>2. CASE UNCHANGED vars
    BY <2>1, <2>2 DEF vars
  <2>3. ASSUME NEW t \in Tasks, Step(t) PROVE Len(queue'[c]) <= Capacity[c]
    <3>1. CommitOf(t)
      BY <2>0 DEF Selecting
    <3>2. \/ queue'[c] = queue[c]
          \/ Len(queue[c]) < Capacity[c] /\ \E v \in Messages : queue'[c] = Append(queue[c], v)
          \/ queue[c] # <<>> /\ queue'[c] = Tail(queue[c])
      BY <2>0, <2>3, <3>1, ChannelEffect
    <3>3. CASE queue[c] # <<>> /\ queue'[c] = Tail(queue[c])
      BY <2>1, <3>3, QueueOps
    <3>4. ASSUME NEW v \in Messages, queue'[c] = Append(queue[c], v)
          PROVE  Len(queue'[c]) = Len(queue[c]) + 1
      BY <2>1, <3>4
    <3> QED BY <2>1, <3>2, <3>3, <3>4
  <2>4. ASSUME NEW d \in Chans, FireTimer(d) PROVE Len(queue'[c]) <= Capacity[c]
    <3>1. queue'[c] = queue[c] \/ (queue[c] = <<>> /\ queue'[c] = Append(queue[c], Tick))
      BY <2>0, <2>4, TimerEffect DEF TimersEmpty
    <3> QED BY <2>1, <3>1
  <2> QED BY <1>2, <2>2, <2>3, <2>4 DEF Next, Step
<1>3. IInv /\ CapacityHolds /\ [Next]_vars => CapacityHolds'
  BY <1>2 DEF CapacityHolds
<1> QED BY <1>1, <1>3, Invariant, PTL DEF Spec

-----------------------------------------------------------------------------
(***************************************************************************)
(* The refinement of AtomicChannels.                                       *)
(***************************************************************************)

(***************************************************************************)
(* The two modules agree on what a case can do and on the history.         *)
(***************************************************************************)
LEMMA SameCases ==
  \A k, q, cl, st : Abstract!Possible(k, q, cl, st) = CaseReady(k, q, cl, st)
BY DEF Abstract!Possible, CaseReady

(***************************************************************************)
(* What the operations wish for, as AtomicChannels puts it.                *)
(***************************************************************************)
LEMMA WishFacts ==
  /\ \A o : o.kind = "send" => Abstract!Wishes(o) = {[dir |-> "send", on |-> o.on, val |-> o.val]}
  /\ \A o : o.kind \in {"recv", "iter"} =>
              Abstract!Wishes(o) = {[dir |-> "recv", on |-> o.on, val |-> Nothing]}
  /\ \A o : o.kind = "select" => Abstract!Wishes(o) = Range(o.cases)
BY DEF Abstract!Wishes, Abstract!Case, Range, Abstract!Range

(***************************************************************************)
(* Both modules keep the same history.                                     *)
(***************************************************************************)
LEMMA SameWatch == Watch => Abstract!Watch
<1> SUFFICES ASSUME Watch PROVE Abstract!Watch
  OBVIOUS
<1> DEFINE W(t) == /\ op'[t].kind = "select"
                   /\ \/ quiet[t]
                      \/ \A k \in Range(op'[t].cases) : ~CaseReady(k, queue', closed', status')
           A(t) == /\ op'[t].kind = "select"
                   /\ quiet[t] \/ Abstract!Still(op'[t], queue', closed', status')
<1>1. ASSUME NEW t \in Tasks PROVE W(t) = A(t)
  <2>1. op'[t].kind = "select" => Abstract!Wishes(op'[t]) = Range(op'[t].cases)
    BY WishFacts
  <2> QED BY <2>1, SameCases DEF Abstract!Still
<1>2. [t \in Tasks |-> W(t)] = [t \in Tasks |-> A(t)]
  BY <1>1
<1>3. quiet' = [t \in Tasks |-> W(t)]
  BY DEF Watch
<1> QED BY <1>2, <1>3 DEF Abstract!Watch

(***************************************************************************)
(* A step that changes nothing the abstract channels show does not change  *)
(* the history either.                                                     *)
(***************************************************************************)
LEMMA Stutters ==
  ASSUME Typed, Control, Quiet, Watch, UNCHANGED <<queue, closed, timers, status, op, answer>>
  PROVE  UNCHANGED Abstract!avars
<1>1. ASSUME NEW t \in Tasks PROVE quiet'[t] = quiet[t]
  <2>1. quiet[t] \in BOOLEAN /\ quiet'[t] \in BOOLEAN
    BY WatchFacts DEF Typed
  <2>2. QuietOf(t)
    BY DEF Quiet
  <2>3. op[t].kind = "select" => op[t] \in Ops[t]
    BY DEF Control, ControlOf, Idle
  <2>4. op[t].kind = "select" =>
          (NoneFrom(t, 1) <=> \A k \in Range(op[t].cases) : ~CaseReady(k, queue, closed, status))
    <3> SUFFICES ASSUME op[t].kind = "select"
                 PROVE  NoneFrom(t, 1) <=> \A k \in Range(op[t].cases) : ~CaseReady(k, queue, closed, status)
      OBVIOUS
    <3>1. \A o \in Ops[t] : Range(o.cases) = {o.cases[j] : j \in 1 .. Len(o.cases)}
      BY CaseFacts
    <3>2. Range(op[t].cases) = {op[t].cases[j] : j \in 1 .. Len(op[t].cases)}
      BY <2>3, <3>1
    <3> QED BY <3>2 DEF NoneFrom
  <2>5. quiet'[t] <=> /\ op[t].kind = "select"
                      /\ \/ quiet[t]
                         \/ \A k \in Range(op[t].cases) : ~CaseReady(k, queue, closed, status)
    BY WatchFacts
  <2> QED BY <2>1, <2>2, <2>4, <2>5 DEF QuietOf
<1>2. quiet \in [Tasks -> BOOLEAN] /\ quiet' \in [Tasks -> BOOLEAN]
  BY WatchFacts DEF Typed
<1>3. quiet' = quiet
  BY <1>1, <1>2
<1> QED BY <1>3 DEF Abstract!avars

\* The actions of the abstract channels that task t may take, apart from the history.
AStep(t) == \/ Abstract!Invoke(t) \/ Abstract!Give(t) \/ Abstract!Take(t) \/ Abstract!FindDrained(t)
            \/ Abstract!Learn(t) \/ Abstract!Refuse(t) \/ Abstract!Shut(t) \/ Abstract!Skip(t)
            \/ Abstract!End(t)
Unseen == UNCHANGED <<queue, closed, timers, status, op, answer>>

(***************************************************************************)
(* Both modules have the same absence of an operation.                     *)
(***************************************************************************)
LEMMA SameIdle == Abstract!Idle = Idle
BY DEF Idle, Abstract!Idle

(***************************************************************************)
(* An instruction that returns answers the abstract operation.             *)
(***************************************************************************)
LEMMA SameAnswer ==
  ASSUME NEW t, NEW x, NEW v, Return(t, x, v)
  PROVE  Abstract!Answer(t, x, v)
BY SameIdle DEF Return, Abstract!Answer

(***************************************************************************)
(* Every step of a task is one of the abstract operations, or is not seen: *)
(* parking, executing again and looking at a case.                         *)
(***************************************************************************)
LEMMA StepRefines ==
  ASSUME Typed, Control, Selecting, Quiet, NEW t \in Tasks, Step(t)
  PROVE  AStep(t) \/ Unseen
<1>p. ASSUME Park(t) PROVE Unseen
  BY <1>p DEF Park, Unseen
<1>1. CASE Begin(t)
  <2>1. op[t] = Idle /\ status[t] = "running"
    BY <1>1 DEF Begin, Control, ControlOf
  <2>2. Abstract!Invoke(t)
    BY <1>1, <2>1, SameIdle DEF Begin, Abstract!Invoke
  <2> QED BY <2>2 DEF AStep
<1>2. CASE Finish(t)
  <2>1. op[t] = Idle /\ status[t] = "running"
    BY <1>2 DEF Finish, Control, ControlOf
  <2>2. Abstract!End(t)
    BY <1>2, <2>1, SameIdle DEF Finish, Abstract!End
  <2> QED BY <2>2 DEF AStep
<1>3. CASE Resume(t) \/ SelectScan(t)
  BY <1>3 DEF Resume, SelectScan, Unseen
<1>4. CASE Send(t)
  <2> DEFINE c == op[t].on
             k == [dir |-> "send", on |-> c, val |-> op[t].val]
  <2>1. op[t].kind = "send" /\ c \in Chans /\ c \notin Tasks
    BY <1>4, ExecutedOp DEF Send, Executes, IsOperation
  <2>2. CASE closed[c] /\ Fail(t)
    <3>1. Abstract!Refuse(t)
      BY <2>1, <2>2, SameIdle DEF Fail, Abstract!Refuse
    <3> QED BY <3>1 DEF AStep
  <2>3. CASE /\ ~closed[c] /\ Len(queue[c]) < Capacity[c]
             /\ Push(c, op[t].val) /\ Return(t, c, Sent) /\ UNCHANGED <<closed, timers, status>>
    <3>1. k \in Abstract!Wishes(op[t]) /\ k.dir = "send" /\ k.on = c /\ k.val = op[t].val
      BY <2>1, WishFacts
    <3>2. Abstract!Possible(k, queue, closed, status)
      BY <2>1, <2>3 DEF Abstract!Possible
    <3>3. Abstract!Answer(t, c, Sent)
      BY <2>3, SameAnswer
    <3>4. queue' = [queue EXCEPT ![k.on] = Append(@, k.val)]
      BY <2>3 DEF Push
    <3>5. Abstract!Give(t)
      <4> HIDE DEF k
      <4> QED BY <2>3, <3>1, <3>2, <3>3, <3>4 DEF Abstract!Give
    <3> QED BY <3>5 DEF AStep
  <2> QED BY <1>4, <1>p, <2>2, <2>3 DEF Send
<1>5. CASE Recv(t)
  <2> DEFINE c == op[t].on
             k == [dir |-> "recv", on |-> c, val |-> Nothing]
  <2>1. op[t].kind \in {"recv", "iter"} /\ c \in Chans /\ c \notin Tasks
    BY <1>5 DEF Recv, Executes
  <2>2. k \in Abstract!Wishes(op[t]) /\ k.dir = "recv" /\ k.on = c
    BY <2>1, WishFacts
  <2>3. CASE /\ queue[c] # <<>> /\ queue' = [queue EXCEPT ![c] = Tail(@)]
             /\ IF op[t].kind = "recv" THEN Return(t, c, Head(queue[c]))
                ELSE /\ answer' = [answer EXCEPT ![t] = <<c, Head(queue[c])>>]
                     /\ UNCHANGED <<op, at, pos>>
             /\ UNCHANGED <<closed, timers, status, left>>
    <3>1. /\ answer' = [answer EXCEPT ![t] = <<c, Head(queue[c])>>]
          /\ IF op[t].kind = "iter" THEN UNCHANGED op ELSE op' = [op EXCEPT ![t] = Abstract!Idle]
      BY <2>1, <2>3, SameIdle DEF Return
    <3>2. Abstract!Take(t)
      <4> HIDE DEF k
      <4> QED BY <2>1, <2>2, <2>3, <3>1 DEF Abstract!Take
    <3> QED BY <3>2 DEF AStep
  <2>4. CASE queue[c] = <<>> /\ closed[c] /\ Return(t, c, Nil) /\ UNCHANGED <<queue, closed, timers, status>>
    <3>1. Abstract!Answer(t, c, Nil)
      BY <2>4, SameAnswer
    <3>2. Abstract!FindDrained(t)
      <4> HIDE DEF k
      <4> QED BY <2>1, <2>2, <2>4, <3>1 DEF Abstract!FindDrained
    <3> QED BY <3>2 DEF AStep
  <2> QED BY <1>5, <1>p, <2>3, <2>4 DEF Recv
<1>6. CASE Join(t)
  <2> DEFINE x == op[t].on
             k == [dir |-> "recv", on |-> x, val |-> Nothing]
  <2>1. op[t].kind \in {"recv", "iter"} /\ x \in Tasks
    BY <1>6 DEF Join, Executes
  <2>2. k \in Abstract!Wishes(op[t]) /\ k.on = x
    BY <2>1, WishFacts
  <2>3. CASE status[x] # "running" /\ Return(t, x, HandleResult(x)) /\ UNCHANGED <<queue, closed, timers, status>>
    <3>1. Abstract!Answer(t, x, IF status[x] = "failed" THEN Nil ELSE Sent)
      BY <2>3, SameAnswer DEF HandleResult
    <3>2. Abstract!Learn(t)
      <4> HIDE DEF k
      <4> QED BY <2>1, <2>2, <2>3, <3>1 DEF Abstract!Learn
    <3> QED BY <3>2 DEF AStep
  <2> QED BY <1>6, <1>p, <2>3 DEF Join
<1>7. CASE Close(t)
  <2>1. Abstract!Answer(t, op[t].on, Nil)
    BY <1>7, SameAnswer DEF Close
  <2>2. Abstract!Shut(t)
    BY <1>7, <2>1 DEF Close, Executes, Abstract!Shut
  <2> QED BY <2>2 DEF AStep
<1>8. CASE SelectNone(t)
  <2>1. op[t].kind = "select" /\ at[t] = "scan" /\ pos[t] > Len(op[t].cases)
    BY <1>8 DEF SelectNone, Control, ControlOf
  <2>2. quiet[t]
    <3>1. NoneFrom(t, pos[t])
      <4>1. op[t] \in Ops[t]
        BY <2>1, ExecutedOp
      <4>2. Len(op[t].cases) \in Nat /\ pos[t] \in Nat
        BY <4>1, CaseFacts DEF Typed
      <4> QED BY <2>1, <4>2 DEF NoneFrom
    <3> QED BY <2>1, <3>1 DEF Selecting, ScanOf
  <2>3. CASE op[t].default /\ Return(t, Nothing, Default) /\ UNCHANGED <<queue, closed, timers, status>>
    <3>1. Abstract!Answer(t, Nothing, Default)
      BY <2>3, SameAnswer
    <3>2. Abstract!Skip(t)
      BY <2>1, <2>2, <2>3, <3>1 DEF Abstract!Skip
    <3> QED BY <3>2 DEF AStep
  <2> QED BY <1>8, <1>p, <2>3 DEF SelectNone
<1>9. CASE SelectCommit(t)
  <2> DEFINE k == op[t].cases[pos[t]]
  <2>1. /\ op[t].kind = "select" /\ k \in Range(op[t].cases)
        /\ k.dir \in {"send", "recv"} /\ k.on \in Chans \cup Tasks
        /\ CaseReady(k, queue, closed, status) /\ UNCHANGED <<closed, timers, status>>
    BY <1>9, ChosenCase DEF SelectCommit, Control, ControlOf, Selecting, CommitOf
  <2>2. k \in Abstract!Wishes(op[t]) /\ Abstract!Possible(k, queue, closed, status)
    BY <2>1, WishFacts, SameCases
  <2>3. CASE k.on \in Tasks
    <3>1. status[k.on] # "running" /\ Return(t, k.on, HandleResult(k.on)) /\ queue' = queue
      BY <1>9, <2>1, <2>3 DEF SelectCommit, CaseReady
    <3>2. Abstract!Answer(t, k.on, IF status[k.on] = "failed" THEN Nil ELSE Sent)
      BY <3>1, SameAnswer, SMTT(60) DEF HandleResult
    <3>3. Abstract!Learn(t)
      BY <2>1, <2>2, <2>3, <3>1, <3>2 DEF Abstract!Learn
    <3> QED BY <3>3 DEF AStep
  <2>4. CASE k.on \notin Tasks /\ k.dir = "send"
    <3>1. Push(k.on, k.val) /\ Return(t, k.on, Sent)
      BY <1>9, <2>4 DEF SelectCommit
    <3>2. Abstract!Answer(t, k.on, Sent)
      BY <3>1, SameAnswer, SMTT(60)
    <3>3. Abstract!Give(t)
      BY <2>1, <2>2, <2>4, <3>1, <3>2 DEF Push, Abstract!Give
    <3> QED BY <3>3 DEF AStep
  <2>5. CASE k.on \notin Tasks /\ k.dir = "recv" /\ queue[k.on] = <<>>
    <3>1. Return(t, k.on, Nil) /\ queue' = queue /\ closed[k.on]
      BY <1>9, <2>1, <2>5 DEF SelectCommit, CaseReady
    <3>2. Abstract!Answer(t, k.on, Nil)
      BY <3>1, SameAnswer
    <3>3. Abstract!FindDrained(t)
      BY <2>1, <2>2, <2>5, <3>1, <3>2, SMTT(60) DEF Abstract!FindDrained
    <3> QED BY <3>3 DEF AStep
  <2>6. CASE k.on \notin Tasks /\ k.dir = "recv" /\ queue[k.on] # <<>>
    <3>1. queue' = [queue EXCEPT ![k.on] = Tail(@)] /\ Return(t, k.on, Head(queue[k.on]))
      BY <1>9, <2>6 DEF SelectCommit
    <3>2. /\ answer' = [answer EXCEPT ![t] = <<k.on, Head(queue[k.on])>>]
          /\ op' = [op EXCEPT ![t] = Abstract!Idle]
      BY <3>1, SameIdle, SMTT(60) DEF Return
    <3>3. Abstract!Take(t)
      BY <2>1, <2>2, <2>6, <3>1, <3>2 DEF Abstract!Take
    <3> QED BY <3>3 DEF AStep
  <2> QED BY <2>1, <2>3, <2>4, <2>5, <2>6
<1> QED BY <1>1, <1>2, <1>3, <1>4, <1>5, <1>6, <1>7, <1>8, <1>9 DEF Step, Instruction

(***************************************************************************)
(* A timer rings the abstract channel, which is empty and has capacity 1.  *)
(***************************************************************************)
LEMMA TimerRefines ==
  ASSUME Typed, TimersEmpty, NEW c \in Chans, FireTimer(c)
  PROVE  Abstract!Ring(c)
<1>1. c \in timers /\ c \in Timers /\ queue[c] = <<>> /\ Capacity[c] = 1
  BY DEF FireTimer, Typed, TimersEmpty
<1>2. Len(queue[c]) < Capacity[c]
  <2>1. Len(queue[c]) = 0
    BY <1>1, EmptySeq
  <2> QED BY <1>1, <2>1
<1> QED BY <1>1, <1>2 DEF FireTimer, Push, Abstract!Ring

(***************************************************************************)
(* Disciplined programs cannot tell the channels of vm.rs from the atomic  *)
(* ones: parking, retrying and scanning case by case are stuttering steps, *)
(* and every other step is one of the abstract queue.                      *)
(***************************************************************************)
THEOREM ChannelsAreAtomic == Disciplined => (Spec => ImplementsAtomicChannels)
<1> SUFFICES ASSUME Disciplined PROVE Spec => ImplementsAtomicChannels
  OBVIOUS
<1>1. Init => Abstract!AInit
  <2>1. Timers \in SUBSET Chans
    OBVIOUS
  <2> QED BY <2>1, SameIdle DEF Init, Abstract!AInit
<1>2. IInv /\ [Next]_vars => [Abstract!ANext]_(Abstract!avars)
  <2> SUFFICES ASSUME IInv, [Next]_vars PROVE Abstract!ANext \/ UNCHANGED Abstract!avars
    OBVIOUS
  <2>0. Typed /\ Control /\ Quiet /\ Selecting /\ TimersEmpty
    BY DEF IInv, BasicInv
  <2>1. CASE UNCHANGED vars
    BY <2>1 DEF vars, Abstract!avars
  <2>2. ASSUME NEW t \in Tasks, Step(t), Watch PROVE Abstract!ANext \/ UNCHANGED Abstract!avars
    <3>1. CASE AStep(t)
      BY <2>2, <3>1, SameWatch DEF AStep, Abstract!ANext
    <3>2. CASE Unseen
      BY <2>0, <2>2, <3>2, Stutters DEF Unseen
    <3> QED BY <2>0, <2>2, <3>1, <3>2, StepRefines
  <2>3. ASSUME NEW c \in Chans, FireTimer(c), Watch PROVE Abstract!ANext
    BY <2>0, <2>3, TimerRefines, SameWatch DEF Abstract!ANext
  <2> QED BY <2>1, <2>2, <2>3 DEF Next, Step
<1> QED BY <1>1, <1>2, Invariant, PTL DEF Spec, ImplementsAtomicChannels, Abstract!ASpec
=============================================================================

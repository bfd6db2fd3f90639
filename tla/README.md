# Whalli: verification project

Whalli is a small language with a bytecode interpreter written in Rust
(`src/src/`). Programs are made of *woroutines* (`wo f(x)`), light tasks that a
fixed pool of worker threads executes and that talk through channels, `select`,
task handles, mutexes and wait groups, over a shared heap with a mark-and-sweep
collector. Its standard library has an HTTP server with a router and WebSockets.
This directory holds TLA+ models of the parts of the interpreter in which steps of
several actors interleave, of the path of a program from its tokens to the globals it
leaves, and of the server; the TLC configurations that check them on small instances;
and TLAPS proofs of results that hold for every number of workers, tasks, channels, slots,
connections, requests and steps of setting a router up.

Contents: [parts of the system](#the-parts-of-the-system),
[modules](#modules), [runs](#runs), [fairness](#fairness),
[proofs](#proofs), [known deviations](#known-deviations),
[what is not modelled](#what-is-not-modelled), [plan](#plan).

## The parts of the system

| part | source | state | operations | what is hard | what makes it correct |
|---|---|---|---|---|---|
| Scheduler | `vm.rs` `VM::run`, `run_worker_loop`, `find_task` | injector, one deque per worker, lists of sleeping and I/O-waiting tasks, channel timers, `active_tasks`, `shutdown`, `fatal_error` | pop, batch steal, peer steal, run a slice, requeue, suspend, wake, report deadlock, join | three kinds of threads, relaxed counters, lists read one after the other | no task is lost or run twice; the run returns Ok only when all is done; every task that can run does |
| Frames | `vm.rs` `Call`, `TailCall`, `DeferCall`, `Return`, `PropagateError`, `fail!` | the frames of a task, their deferred calls | call, return, `?`, fail | two ways to run deferred calls and one to drop them, re-execution of `Return` | each deferred call runs once, in LIFO order, on every exit (but the end of a script) |
| Channels, handles, select | `vm.rs` `ChanSend`, `ChanRecv`, `IterNext`, `Select`, `close`; `time.rs` | queue, capacity and closed flag of a channel; status of a handle; pending timers | send, receive, loop, close, select, fire a timer | instructions that are executed again after parking; a select that takes several locks | bounded FIFO; Nil means closed; select is atomic; nobody stays blocked |
| Mutex, WaitGroup | `vm.rs` method calls, `sync.rs` | locked flag, counter | lock, try_lock, unlock, add, done, wait | unlock by anyone, counter arithmetic | mutual exclusion; wait returns when all are done, failures included |
| Heap and collector | `heap.rs`, `vm.rs` `trigger_gc` | slots (occupied, marked, object), free list, threshold, the locks of the table and of the list | alloc, read, write, mark, sweep | marking while other workers run; which values are roots; locks taken inside each other | no slot is lost or handed out twice; what a collector has on its stack survives; operations do not wait for each other |
| Reactor and sockets | `net.rs`, `vm.rs` timer/I/O thread | listeners, streams, tokens, `closed_tokens`, waiting tasks | listen, accept, connect, read, write, close, poll | edge-triggered readiness, the gap between WouldBlock and the waiting list, partial writes | a waiting task is woken; bytes arrive once, in order |
| HTTP server, router | `http.rs`, `value.rs` | a tree of maps: routes, middlewares, groups; the buffer of a request | use, group, route, static, custom answers; read a request, look it up, run middlewares, answer, close | the order of set-up; requests in several segments or several in one; keep-alive | one answer per request, by the handler and after the middlewares declared for it |
| WebSocket | `ws.rs`, `ws_crypto.rs` | `stream_buffers` | upgrade, read a frame, send, close | bytes kept between calls, pings in between | each message is delivered once, in order, without waiting for later bytes |
| HTTP client, SQL | `requests.rs`, `sql.rs` | connections behind a mutex each | blocking calls | they hold a worker | |
| Imports | `vm.rs` `ImportFile`, `FromImport` | `loaded_modules`, globals | import a file in a nested VM | nested runs, cache races, cycles | a module runs once; importing frees nothing |
| Lexer, parser | `lexer.rs`, `parser.rs` | position | characters to tokens to tree | precedence, newlines, postfixes | the tree is the one that was written |
| Compiler | `compiler.rs`, `opcode.rs` | locals with depths, captured variables, loops, code | statements and expressions to byte code | slots are counted by the compiler and occupied by the machine; jumps are patched afterwards | the code does what the tree means |
| Machine, values | `vm.rs` instructions, `value.rs` | stack, frames, globals, objects | one instruction | what is left on the stack on each way through | |
| Pure library | `json.rs`, `crypto.rs`, `math.rs`, `os.rs`, `fs.rs` | none | functions of their arguments | | |
| Command line, language server | `main.rs`, `bin/whalli-lsp.rs` | | | | |

How they interact. A worker executes instructions of one task at a time
(`execute_task_slice`, 2000 instructions of fuel). The instruction set reaches
everything else: a channel operation locks one heap slot; a native (`net`,
`time`, `http`) answers `Return`, `SuspendSleep` or `SuspendIO`, and the worker
files the task accordingly; `Spawn` puts a task in the injector. The timer/I/O
thread moves due sleepers and the waiters of ready or closed sockets back to
the injector and pushes into timer channels. The collector is run by whichever
worker sees the threshold exceeded. A task that cannot proceed on a channel, a
mutex, a wait group or a handle is *parked*: `ip` is moved back and the task
goes to the end of the injector, to execute the instruction again. Nobody wakes
it; it polls.

The list of hazards, each at its line, is in `PROJECT.json`.

## Modules

| module | what it is |
|---|---|
| `TaskPool` | abstract: tasks that are queued, running on one of `Slots` threads, suspended or over; the run returns Ok when all are over |
| `Scheduler` | the worker loop, the timer/I/O thread and `VM::run`, one action per step between two accesses to shared state |
| `MCScheduler` | small programs for the scheduler |
| `AtomicChannels` | abstract: bounded FIFO channels whose operations, select included, take effect at one instant |
| `Channels` | channel instructions, one action per lock; parking and retrying; timers; handles |
| `MCChannels` | small programs on channels |
| `Frames` | the call stacks of tasks, deferred calls, `?` and failure, mutex and wait group |
| `MCFrames` | the main task and its workers |
| `Reactor` | sockets, edge-triggered readiness, the waiting list and the I/O thread |
| `MCReactor` | a small server |
| `Heap` | slots, free list, marks, locks, `trigger_gc`, and the instructions of several tasks that use them |
| `MCHeap` | three tasks |
| `Parser` | `parser.rs`: a function from tokens to a tree |
| `Compiler` | `compiler.rs`: a function from a tree to code |
| `Values` | operations on values and objects that need no task |
| `Machine` | the instructions, one action each |
| `Printer` | reference: the tokens of a tree |
| `Meaning` | reference: what a tree means, without stack, slots and jumps |
| `Language` | composition: print, parse, compile, execute, compare |
| `MCLanguage` | families of programs |
| `Router` | setting a router up and looking a request up |
| `Server` | composition: a router, and a connection that is served with it and upgraded |
| `MCServer` | a client with three requests and four frames |
| `QueueFacts` | lemmas about queues without repetition (proved) |
| `SchedulerProofs` | the inductive invariant of the scheduler and its preservation by every action (proved) |
| `SchedulerTheorems` | the theorems about the scheduler's specification, its refinement of `TaskPool` among them (proved) |
| `ChannelsProofs` | the inductive invariants of the channels and the refinement of `AtomicChannels` (proved) |
| `FramesProofs`, `ReactorProofs`, `HeapProofs` | the inductive invariant of each of these modules and its theorems (proved) |
| `ServerProofs` | the same for the router and the connection, with the lemmas on flattened sequences (proved) |

### Scheduler

A task is an identity; what it computes is reduced to which outcomes its slices
may have. The constants say which tasks may sleep (`Sleepers`), wait for a
socket (`IoTasks`), hit a runtime error (`Failing`), call a native that panics
(`Panicking`) or never returns (`Blocking`), are created suspended by
`wo native(..)` (`NativeTasks`), and wait for whose handle (`Awaits`).

Correspondence: `pc[w]` is the position of worker `w` in `run_worker_loop`:
`top` (line 752), `find` and `steal` (`find_task`), `run` (the slice), `spawn`
(between the increment of `active_tasks` and the push), `uncount` (between the
end of a task and the decrement), `scanSleepers`, `scanTimers`, `scanIo`,
`pending`, `quiet`, `detect`, `report` (the idle branch and the deadlock
detector), `exited` and `dead`. `ioPc` is the same for the timer/I/O thread and
`runPc` for `VM::run`. `hand[w]` is the task on the worker's stack, `child[w]` a
task already counted but not yet in a queue, `ready` the tasks the I/O thread
holds in a local vector.

Facts of the code the model keeps: worker `w` owns the deque number
`NumWorkers - 1 - w`, because `local_workers.pop()` hands them out backwards
while `stealers` keeps the order of creation (`OwnDeque`), and `find_task` scans
the stealers starting one after `w`; a batch steal takes between one task and
half of the queue (crossbeam's contract, `BatchSizes`); a completed task is
counted down after its slice; a panic of a native unwinds its worker, whose task
is then neither completed nor counted down (`lost`).

Abstracted: instructions that touch no shared scheduler state, the fuel (a slice
may end at any step), the heap, and which sockets become ready (any subset of
the waiting tasks).

### Channels

`op[t]` is the operation task `t` executes and `at[t]` where it is: `exec` (the
instruction is about to run), `parked`, or, for a select, `scan` with the case
`pos[t]` it looks at next and `commit` with the case it has chosen. Each action
is the closure the code runs under one lock of the channel's heap slot. A select
takes one read lock per case (`SelectScan`), and later one write lock for the
chosen case (`SelectCommit`), which pops or pushes *without looking again*.
A parked task executes its instruction again (`Resume`), a select from its first
case. `FireTimer` is the push of the timer thread, which ignores the capacity
but not the closed flag. A handle is a receivable object named by its task. The
results on the stack are kept in `answer[t]` so that `AtomicChannels` can speak
of them; a handle's result is reduced to success (`Sent`) or failure (`Nil`
paired with an error in the code). `quiet[t]` is a history variable: at some
instant since `t` began its select, no case was ready.

`Disciplined` is the condition under which select is indistinguishable from an
atomic one: a channel somebody selects on to receive has no other receiver; a
channel somebody selects on to send has no other sender and no other
closer; and nobody sends on the channel of a timer. The passing runs check
programs that satisfy it; `MCChannelsSelect.cfg` shows what happens otherwise.
That a channel never holds more than its capacity is a guard of
`AtomicChannels`, so it is part of `ImplementsAtomicChannels`; `CapacityHolds` says it
directly. Of every other program `OverrunIsBounded` says by how much a channel may
exceed its capacity: one message for each task that may send to it in a select, and one
for a timer.

### Frames

`frames[t]` is the stack of task `t`, of which only what leaving a frame depends
on is kept: its deferred calls, whether its `Return` has begun to execute
them (`returning`: `ip` stays on that instruction), and whether it is the script's
own (`script`). A function body is any
sequence of the instructions: `Call`, `TailCall`, `Defer`, `Propagate` (the
operator `?` on an error), `Fail` (`fail!`), and the methods of a mutex and a
wait group.

The code has two ways to execute deferred calls. `Return` takes one, executes
it, a Whalli function in a new frame on top, and is then executed again
(`ReturnDeferred`, `Return`). After an error, `execute_sync_deferred` executes
them one after the other while the frame is already gone (`pending`, `Unwind`,
`Unwound`), and drops Whalli functions. `return f(x)` compiles to `TailCall` with
no `Return` behind it; with deferred calls pending the callee gets a frame of its
own and the body goes on after it, which is why `TailCall` does not leave the
frame in that case.

There is a third way out, of one frame only. The compiler ends a module with `Return`
and a script with nothing (`compiler.rs:197-214`): when `ip` is behind the last
instruction, the frame is popped with whatever is deferred in it (`vm.rs:894-897`).
That is `End`; a script that has a `return` of its own takes `Return`. What `End`
drops is kept in `pending[Main]` as history (`Dropped`), and `LockLost` says that an
`unlock` is among it: the mutex then stays locked for good. The properties say that this
is lost and nothing more: `LockIsOwed` and `CleanupRuns` name the dropped calls,
`EveryTaskEnds` lets a task wait for ever for a mutex that was lost and for nothing
else, and `NeverAllBlocked` holds until one is lost. `ScriptCleansUp` is what the manual
promises of a script's frame, and `MCFramesScript.cfg` shows that it is false.

The programs use the primitives as the documents show: `lock()` is followed by
`defer unlock()` or by `unlock()`, a worker begins with `defer done()` after an
`add(1)` of the main task, and nobody blocks while holding the lock (a program
that does may deadlock by its own fault). `need[t]` is that obligation. `made` and
`ran` are history: the deferred calls by number, and those executed.

`NeverAllBlocked` says that these programs cannot make everyone wait for everyone: in
no state before the end is every task blocked on the mutex or the wait group, unless the
script has ended with the mutex locked. It is what `EveryTaskEnds` needs of safety.

### Reactor

A task calls natives of `net` (`op[t]`). `at[t]` is `exec` while the native is about
to run, `suspending` when it has answered `SuspendIO` and its worker still holds
the task, `waiting` when it is on `waiting_io_tasks`. Each native is one step under
the lock of its table; `write_all` (`read_until` only reads what is there) holds
`streams` over a loop in which the peer goes on reading, so that it is one step per
call of the kernel; `close` removes the socket in one step and pushes its token to
`closed_tokens` in a later one. The I/O thread is a loop of three steps: `IoPoll`
takes all pending edges, `IoClosed` drains `closed_tokens`, `IoEvents` wakes the
tasks of the events.

The kernel and the peers are external: `edge` is the set of tokens with an event
that has not been reported. An event is raised when a connection or bytes arrive,
when a full send buffer gets room, when the peer leaves, and when a stream is
registered. Only the number of bytes to read is kept; what is written is kept byte
by byte because `WriteAllWhole` is about it.

`missed` is a history variable: the tasks nobody will tell that their native
could go on. It grows in exactly three places: in `Wake`, when the thread goes
through the list for an event or a closing while the task is between `WouldBlock`
and the list; in `Drop`, when another task removes the stream at an end of
file or an error; and in `Misses`, when the I/O thread of a module that is being
imported takes the event (`NestedPoll`) or the closed token (`NestedClosed`): that
machine has the sockets of the program (`vm.rs:1854`) but a waiting list of its own.
`WakeupPending` says that these are the only ways a wake-up is lost, and `WaitersProceed`
is about the tasks that are not among them: the two properties describe the losses
and do not exclude them. All are
reachable in the run: the code relies on further traffic to repair them, which a
request that is already complete does not bring. `ClosedTokensWake` is the manual's
sentence about closed sockets without that exception; `MCReactorClosed.cfg` shows that it
is false.

### Heap

`chunks` is a read-write lock that prefers writers: a reader waits as soon as a
writer does, even a reader that reads already (`CanRead`, `asking`, `reading`).
`free_list` and `gc_start_mutex` are mutexes (`freeOwner`, `gcOwner`). The lock of
one slot and that of `allocated_count` are held within one step. `pc[t]` is the
position of task `t` in `trigger_gc` (`gcLock` to `swept`), in `Heap::alloc`
(`alloc` to `allocWait`), in a nested read (`print`) or at an instruction (`op`).
An object is reduced to the objects it refers to, those its data names directly
(`refs`) and those named inside a tuple in its data (`inner`); a task to those its stack
and the closures of its frames refer to (`stack`) and those its deferred calls do
(`deferred`: callee, receiver, arguments). The difference matters because marking follows
less than there is: `push_value_refs` takes no reference out of a tuple in a list, a map, an
instance, a queue or a handle (`heap.rs:82-87`; a tuple on a stack or in a global is looked into), and
`trigger_gc` marks the stack values and `frame.closure_id` of a task, not `frame.defers`
(`vm.rs:150-156`). `TracedFrom` is what marking follows, `ReachableFrom` what there is, and
`NothingHidden` the condition that a collection begins with nothing that can only be
reached and not traced.

`trigger_gc` is followed lock by lock: the count is read, the collector's mutex
taken, the count read again, the roots marked in three groups (its own task's, those
of tasks asleep or waiting for the network, globals and modules; the injector is not
among them), each root with a worklist under a read lock of the table, and the sweep
made under both locks, slot by slot. All the while the other tasks allocate, load,
store, pop, park and go on.
`CreateEntry` is an allocation inside `with_write` (`use`, `value.rs`), `PrintOuter`
and `PrintInner` a read inside a read (`stringify`).

`kept` and `quiet` are history: what could be traced when a collection began, and
whether anybody has done anything since. `QuietCollectionExact` says that marking and
sweep do what they are written to do: exactly the traced objects remain. That this is
enough is another question, `NothingDangles`, and the answer is no: a program of one task
that stores an object in a tuple in an object, or defers a call about one, can be left
with a reference to a freed slot (`MCHeapReach.cfg`).

`JamsNeedGrowth` says when the locks can jam: only while a task waits to extend the
table. Such jams exist: a nested read holds up the writer that holds up its inner
read. There is a second kind, of three tasks (a sweep that waits for the free list, an
allocation that holds it and waits for the table, and a third that waits to extend
it); it needs more allocations than the run has, and a run with 4 instructions per
task reaches it after about 70 steps.

### Parser, Compiler, Values, Machine, Meaning, Printer, Language

`Language` takes a program as a tree, prints it as tokens in one of two styles
(`Printer`), parses them (`Parser`), compiles the tree (`Compiler`) and executes the
code (`Machine`); `Meaning` evaluates the tree itself. Three comparisons: the parsed
tree is the tree that was printed; where a statement begins, the machine's stack is as
high as the compiler thinks; the globals at the end, and whether the program fails, are
what the tree means.

`Parser` is a function from a position to a result with a node and the next position
(0 is a syntax error), one operator per function of `parser.rs`. `Compiler` threads a
record with the fields of the struct `Compiler` (code, locals with their depths,
captured variables, loops) through one operator per statement and expression. Its
`SetLine` carries, besides the line the code emits, the number of locals the compiler
counts there, for `SlotsMatchLocals`. `Machine` has one action per instruction of
`execute_task_slice` that these programs use. `Meaning` has nested scopes, captured
cells and outcomes (normal, break, return, error).

Where the language has its own view, `Meaning` takes the code's: the branches of an
`if` share the scope around it, a function is a global wherever it is written, `and`
and `or` evaluate both sides, tuples are equal to nothing.

The programs of `MCLanguage!Clear` are families: every pair of binary operators in
both shapes with three sets of operands; loops with one or two statements as their body,
at the top level and in a function; matches of every pair of arms; recursion, tail
calls, typed parameters and results; lists and maps that share each other; closures;
structs, methods and interfaces. They avoid what is known to be compiled to something
else (see [known deviations](#known-deviations)), cyclic data, the iteration of maps
(its order is that of a hash map) and `+` on strings. `OnlyParsed` are texts with
`select`, `spawn`, `defer`, `?`, sends, receives and imports, which only the parser sees.

### Router, Server

`Router` has the maps that `use`, `group`, the methods and `static` fill, and the
lookup: the path itself, else a pattern with parameters, else one with a wildcard, in
any order (a hash map). A path is the sequence of its segments. `scopes` and
`declared` are history, from which the reference is defined: who was declared for
a path, and in scope of which middlewares.

`DispatchAsDeclared` says who answers a request and which middlewares have run
before: those of the root, and those in scope of the *last* declaration of the pattern,
of whatever method, that was in scope of any (`Deciding`, `ScopeOf`). It leaves two
questions to properties of their own, both of which the code violates.
`AllowedMethodsServed`: a method the `Allow` header lists is served; it is not for HEAD
of what has a GET alone, where `DispatchAsDeclared` therefore says nothing of the
answer. `NoMiddlewareSkipped`: a route of a group is not reached around the group's
middlewares; it is when the same path is declared again in another scope. Which
middlewares run is compared as a set: how often one runs is not a matter of the property
(see [known deviations](#known-deviations)).

`Server` sets a router up in some steps, in every order, and then serves one client.
What the client sends is a sequence of units that arrive in any pieces: a request is a
head, the empty line and units of its body, a frame two units. `ReadChunk` takes up to
`ChunkUnits` (4096 bytes in the code) until the request looks complete; `ReadStops` is
`WouldBlock` with something read, after which the code parses what it has. `Answer`
is any outcome of the router with any set of middlewares that answer themselves;
`Upgrade` leaves the connection to the handler, whose `ws.read` keeps what is behind a
frame in `frames` (`stream_buffers`). A write is taken whole, since `Reactor` models
how it is cut. That a handler closes at `(nil, nil)` is an assumption of the model: the loop the
documents show (`src/README.md:229-237`) reads on.

`patient` is history: every request arrived in one piece after the answer to the one
before. `WholeRequestsServed` is about such clients; `ExchangesInOrder` about all.

## Runs

| run | asks | instance | states |
|---|---|---|---|
| `scheduler_safety` | Is the counter exact, nobody gone early, Ok only at the end? Does `Scheduler` implement `TaskPool`? | 2 workers, 3 tasks: main, one that may sleep, do I/O, fail and panic, one native task; 1 timer | 341 000 |
| `scheduler_peers` | Does stealing from a peer keep every task in one place? | 3 workers, 3 tasks that only spawn and park, two of them alike | 468 000 |
| `scheduler_liveness` | Does every spawned task complete and the run return, although main polls the handle of a sleeping task? | 2 workers, 2 tasks | 30 000 |
| `scheduler_stealing` | Is a task queued behind a blocked one stolen? (no) | 2 workers, 3 tasks, one blocks | until the violation |
| `channels_safety` | Nil only from closed channels, closed channels only empty; does `Channels` implement `AtomicChannels`? | 3 tasks of 2 operations, 4 channels of capacity 1 and 2, a timer, two handles | 712 000 |
| `channels_liveness` | Does a close release everybody, does a possible select end? | the same roles, blocking operations only, capacity 1 | 63 000 |
| `frames_safety` | Are locks and counts released once, by their owners, in LIFO order, on every way out of a frame but the end of the script? Does everybody end who does not wait for a lock lost there? | main and a worker, 2 frames deep, 3 calls, defers or locks each; main may return or come to the end of the script | 737 000 |
| `reactor` | Is a waiting task told, unless missed in one of three ways? What does the ok of `write_all` mean? Does the told task proceed? | 3 tasks (4 natives in all), a listener, one stream, send buffer of 1 byte, messages of 2, imports at any time | 432 000 |
| `heap` | Is every slot accounted for, does the collector keep its own objects, does an undisturbed one free just what marking cannot trace, when can the locks jam? | 3 alike tasks of 2 instructions, 4 slots, threshold 2 | 2 809 000 |
| `heap_roots` | Does a task in the injector keep its objects? (no) | the same with 3 slots | until the violation |
| `language` | Is what was written what is parsed, and what is computed? Do programs end? | 3400 programs in two styles | 253 000 |
| `server` | Does a request get what was declared for it, one answer in order, its whole body if it came at once? Is every message returned once and without delay? | 3 set-up steps, 2 middlewares; 3 requests, one with a body, one upgraded; 4 frames; chunks of 3 units | 77 000 |

Bounds. Two workers are enough for every pairwise race; the steps that involve a
third party (the I/O thread, `VM::run`) are there as well. Stealing from a
peer needs three: with two, the only deque a worker scans is its own (see below),
hence `scheduler_peers`. More workers, tasks, channels, slots and
requests are left to the proofs, which are for any number of them. Three tasks
allow one to be queued behind another while a third runs, the situation batch
steals and the detector depend on. `MaxTimers` bounds channel timers because
only their being pending matters. `SpinLimit` stands for the 500 idle rounds
before the deadlock report (0 or 1: the report must only not be made in the first
round).  Channels: two operations per task let a channel be filled and then
blocked on, closed and then used; three tasks let two race for what a third one
selects on. Frames: two frames let an error cross a caller that has deferred calls
of its own; three steps let a frame hold a lock, a deferred function and a call.
Reactor: a buffer smaller than a message makes `write_all` block in its middle; one
stream is shared by a reader and two writers, one of which may close it. Imports
need no bound: their thread may stop after any poll.

Heap: threshold 2 is reached by the second live object, so that collections overlap
with every other step, and begin again after the threshold has grown; four slots are
enough for the free list to be used while the table still grows; two instructions
per task, of twelve kinds, and the deferred calls they leave, for three tasks that are alike (`SYMMETRY`, sound because no
property names a task). Language: the programs are built so that
each kind of statement stands inside, before and after each other. Server:
three set-up steps are enough for a group that is declared before or after the
middleware of its root and a route in it; four steps (1 200 000 states) have been
checked as well and take longer. A chunk of three units is less than the first
request and more than the second, so that requests are read in several chunks, and
chunks hold the end of one and the beginning of another.

The properties of `scheduler_safety` do not repeat that each task is in one place:
`scheduler_peers` checks it and `NoTaskLostOrDoubled` proves it.

`CHECK_DEADLOCK FALSE` in the configurations of channels, frames, the reactor, the
heap and the server: a program ends when all its tasks are over, a client leaves, and
the locks of the heap may jam; that nobody is left behind is there a property of its
own (`EveryTaskEnds`, `JamsNeedGrowth`, `MessagesReturned`, ...).

## Fairness

`Scheduler!Fairness`. Threads are scheduled by the operating system: weak
fairness of the I/O thread and of `VM::run`. The steps of a worker that take a
lock the I/O thread takes again and again get strong fairness: parking_lot's
mutexes are eventually fair. A slice ends, since it has fuel, unless it is in a
native that never returns. The remaining assumptions are about the program and
the world: a sleep ends, a socket answers, a task that is run again and again
ends. Nothing is assumed of tasks in `Blocking`.

`Channels!FairSpec`. A parked task is run again and a running one executes its
instruction: what `scheduler_liveness` shows of the scheduler. Nothing makes a
task begin another operation.

`Frames!FairSpec`. Each task executes its instructions until it ends or blocks,
again by `scheduler_liveness`.

`Reactor!FairSpec`. The I/O thread loops and tasks that can run do. Nothing is
assumed of the peers.

`Language!Spec`. The thread that executes the program executes its next instruction.

`Server!FairSpec`. Weak fairness of `ReadSocket` alone: `ws.read` never suspends its
task, it polls. Nothing is claimed of the requests themselves, because
`http.read_request` suspends, and `Reactor` shows that a suspended task may miss its
wake-up.

## Proofs

Every safety property of the runs is proved, but for those of the language pipeline:
the invariants, the action properties and the two refinements, for all values of the
constants, of which the runs check one small instance. Ten theorems go further: they
say what remains true of the known deviations, and under which condition
([below](#what-the-deviations-amount-to)). The bounds of the modules
(`MaxTimers`, `MaxSteps`, `MaxSlots`, `MaxOps`, `MaxSetup`, ...) are constants like any
other, so that the results hold whatever they are. The assumptions are stated in the
modules and say what the code gives; TLC evaluates them in every run:

| module | assumes |
|---|---|
| `Scheduler` | at least one worker; finitely many tasks, the main one among them; a native task sleeps or waits |
| `Channels` | finitely many tasks and channels, all different; a capacity of at least one, of exactly one for a timer's channel; operands of the right type (others fail the task before it touches a channel); the results and Nil differ from each other |
| `Frames` | finitely many tasks; a frame may be pushed |
| `Reactor` | finitely many tasks; the message to write is a sequence of at least one byte; a send buffer has room for one |
| `Heap` | at least one slot and a threshold of at least one |
| `Server` | the request that asks for an upgrade is the script's last and has no body (a client waits for the 101); a read takes at least one unit |

### Scheduler

    IInv == Shape /\ Placed /\ ScansWhenEmpty /\ ActiveCountsTasks /\ StopsOK /\
    PanicsCounted

The properties the runs check are not inductive by themselves. That each task is
in one place survives a batch steal only because a worker that steals has an
empty deque of its own (`ScansWhenEmpty`), and because hands are empty outside of
a slice (`Shape`). `Placed` says that the places partition the live tasks
and is the form in which `EachTaskInOnePlace` is preserved: every action moves one
task, or a segment of a queue, between two places (the lemmas of `QueueFacts` and
the predicates `Dealt`, `MovedTo`, `Added`, `Removed` of `SchedulerProofs`).
The counter needs the tasks of dead threads (`PanicsCounted`), and that nobody
leaves early needs both (`StopsOK`).

| theorem | says |
|---|---|
| `TypeCorrect` | types; `active_tasks`, a usize, never wraps below 0 |
| `NoTaskLostOrDoubled` | a live task is in exactly one queue, list or hand, once |
| `CounterExact` | `active_tasks` is the number of unfinished tasks plus the completions about to be subtracted |
| `WorkersExitLast` | a worker that leaves without a fatal error leaves nothing unfinished |
| `OkIsComplete` | `VM::run` answers Ok only when all is done, if fewer tasks than workers may panic |
| `SchedulerImplementsPool` | under the same hypothesis, every step of the scheduler is one of `TaskPool` or a stutter |

The hypothesis of the last two is needed: when every worker dies of a panic,
`VM::run` joins them all and returns Ok with the main task unfinished.

### Channels

    BasicInv == Typed /\ Control /\ Quiet          (every program)
    IInv     == BasicInv /\ Selecting /\ TimersEmpty     (disciplined programs)

What makes a select atomic is `Selecting`: the case chosen by the scan can still be
taken at the commit (nobody else receives from it, or sends to it or closes it), and a
scan that has found nothing has remembered an instant at which nothing was there.
`TimersEmpty` is what makes the push of a timer, which does not look at the capacity, one
of a bounded channel. `NilIsTheEnd` needs `SendsNoNil`: Nil is a value that may be sent.

| theorem | says |
|---|---|
| `TypesHold` | types, and how the control state of a task goes with its operation (every program) |
| `NilIsTheEnd` | a receiver is told Nil only by a closed channel or a handle that is over |
| `ClosedDrains` | a closed channel stays closed and only loses messages |
| `ChannelsAreAtomic` | every operation, select included, takes effect at one instant: `AtomicChannels` |

### Frames

    IInv == Typed /\ Control /\ Ledger /\ LockIsListed /\ NeedsOrOwes
            /\ CountIsListed /\ OneDone /\ DoneAtBottom

The ledger (`Ledger`) is the heart. A deferred call is *listed* while it is in a frame or
in the list that is being unwound, or was left in the script's frame when that
ended (`Listed`): it was registered and not executed. One that is not listed was executed,
unless it is a Whalli function dropped after an error; and the numbers grow from
the bottom of the stack to its top, which makes the order LIFO. `LockIsListed` and
`CountIsListed` are `LockIsOwed` and `CountIsOwed` in terms of listed calls, which every
step preserves, the end of the script too; a listed call is owed, or the main task
is over and it is one of `Dropped` (`ListedIsOwed`). The lock needs that an obligation of the
program text is not yet a deferred call (`NeedsOrOwes`). That a wait returns
only when the workers are leaving needs the place of `done()`, at the bottom of
the outermost frame (`DoneAtBottom`).

| theorem | says |
|---|---|
| `TypesHold` | types; a task has frames exactly while it is not over |
| `LocksAreOwed`, `CountsAreOwed` | who holds the mutex owes one unlock, or is the main task whose unlock the end of the script dropped; the count is the number of workers that owe a `done` |
| `CleanupsRun` | a task that returned, or a background task that failed, has executed every deferred native, unlock and done, none twice; a script that came to its end all but those of its own frame, and none of these |
| `WaitsAreKept` | when `wait()` returns, every worker has left its outermost frame or is leaving it |
| `DefersAreLifo` | deferred calls are executed in LIFO order over all frames |

### Reactor

    IInv == Typed /\ Tables /\ Buffers /\ Control /\ Woken

`WakeupPending` is about tasks on the waiting list; `Woken` says it of those in
the gap before it too, which is what is preserved when a task enters the list. A
told task depends on tokens never being used again (`Tables`): a closed token
that is still in `closed_tokens` would otherwise wake for another socket.
`Control` holds the invariant of the loop of `write_all`: the lock of the
streams is its own, and the bytes it has handed over are the end of what the
kernel has.

| theorem | says |
|---|---|
| `TypesHold` | the tables, the buffers and the lock of the streams fit each other |
| `WakeupsPending` | a waiting task whose native could go on is going to be told, or is one of `missed` |
| `WritesAreWhole` | a `write_all` that answers ok has given the kernel its whole message, in one piece, at the end |

### Heap

    IInv == Typed /\ Holders /\ SlotsApart /\ SlotsAccountedFor /\ OwnRoots /\
    NoStaleMarks /\ Exact

`Holders` ties every lock to the label of the task that holds it;
`JamsNeedGrowth` follows from it alone: a table of who waits for whom has no
cycle without a writer. `SlotsApart` makes the free list and the table disjoint.
`OwnRoots` follows the collector's own roots through `todo`, `work` and `marked`
while others write. `Exact` is the invariant of marking when nobody interferes
(what is marked can be traced, and what a marked object refers to directly is marked or
in the worklist), and of the sweep. Reachability is a recursive function over the
number of steps: that it is closed under references is a proof by induction
(`SetInduction`, `RecursiveFunction`, `ReachableFacts`).

| theorem | says |
|---|---|
| `TypesHold` | types, and the range of every position in a loop |
| `NoSlotIsLost` | each slot is occupied, on the free list once, or in the hands of one task |
| `CollectionKeepsOwnRoots` | a collection frees nothing that its own task has on its stack or runs as the closure of a frame, and had when it began; of what the task's deferred calls hold nothing is said |
| `QuietCollectionsAreExact` | an undisturbed collection leaves exactly what can be traced over direct references from the stack of its task, those of the sleepers and the globals; what only a tuple inside an object or a deferred call holds is freed |
| `OnlyGrowthJams` | the locks jam only while a task waits to extend the table |

### Router and Server

    IInv == RouterInv /\ ConnectionInv
    RouterInv     == RouterTyped /\ ScopesAre /\ RoutesAre /\ AttachedAre
    ConnectionInv == Typed /\ Ahead /\ KeyIsLast /\ Answered /\ ExchangesInOrder
                     /\ Patience /\ WholeRequestsServed /\ Framed

The router: the lists of middlewares and the scopes they were declared in are
the same sets; there is a route just where a declaration covers it, with the
handler of the last one that does; what is attached to a path is what was in scope of its
last declaration in scope of any (`AttachedAre`, `AttachedIsScope`). A request is then looked up once, in any state of the
set up (`DispatchIsDeclared`).

The connection: what has not been handled is a suffix of what the client sends,
and every head in it is of a later request than all that were handled (`Ahead`),
from which the order follows, although a request may be swallowed as the body of
another. A patient client has either nothing on its way or exactly one request
(`Patience`). On an upgraded connection, some number of whole frames has been
taken off the front of the stream, of which the messages are the ones returned
(`Framed`); the rest is in the buffer, in the kernel or to be sent.

The streams are flattened sequences of sequences, and `FlattenSeq` is recursive.
The lemmas about it (`FlattenAppend`, `FlattenConcat`) are proved by induction:
from the least element of a set of numbers (`LeastNatural`, `Climb`).

| theorem | says |
|---|---|
| `TypesHold` | the buffers are empty outside of the states that use them; what is handled and returned was sent |
| `RequestsFind` | whatever the set up, a request is answered by a handler declared for it, after the middlewares of the root and those that decide for the pattern, and no other; HEAD of what has a GET alone is left open |
| `ExchangesOrdered` | wherever TCP cuts the requests, each is handled at most once, in order, with one answer before the next |
| `WholeServed` | a patient client's requests are all served with their whole bodies |
| `EveryMessageOnce` | wherever TCP cuts the frames, the messages returned and those on their way are the messages sent |

### What the deviations amount to

The runs that end in a violation show that a sentence of the documentation is not
true. These theorems say how far it is from true. The condition of each is a formula
of the component's module; the configuration in the last column checks the statement
on a small instance, with the condition as a constraint, and is not among the runs.

| theorem | condition | says | instance |
|---|---|---|---|
| `StealingSkipsMirrors` (`Scheduler`) | none | workers `w` and `NumWorkers - 1 - w` never take a task from one another (`MirrorsNeverSteal`); every other pair may | |
| `TwoWorkersNeverSteal` | two workers | nobody steals from a deque | |
| `ReportsNeedRaces` | no task is suspended in a list between the moment a worker found it empty and the moment it counts it (`NoLateSuspension`) | "all woroutines are asleep" is never reported (`NoReport`) | `MCSchedulerReports.cfg` |
| `LoneWorkerNeverReports` | one worker | the same, for every program | |
| `OverrunsAreBounded` (`Channels`) | none | a channel holds at most its capacity, one message for each task that may send to it in a select, and one for a timer (`OverrunIsBounded`) | `MCChannelsOverrun.cfg`, where both bounds are reached |
| `CapacityIsKept` | `Disciplined` | a channel holds at most its capacity (`CapacityHolds`) | |
| `ErrorFreeTasksRunAllDefers` (`Frames`) | the task never unwinds (`ErrorFree`) | when it is over it has executed all its deferred calls, Whalli functions too, but for those of the script's own frame (`DefersRun`) | `MCFramesErrorFree.cfg` |
| `SomebodyGoesOn` | the script has not ended with the mutex locked (`LockLost`) | some task is not blocked until the program ends (`NeverAllBlocked`) | `MCFramesBlocked.cfg` |
| `SleepersAreRootsEnough` (`Heap`) | whenever a task collects, the others sleep or wait for the network (`CollectsAlone`), and nothing is held by a tuple inside an object or by a deferred call alone (`NothingHidden`) | no reference dangles (`NothingDangles`) | `MCHeapAlone.cfg` |
| `LoneTaskNeverDangles` | one task, and `NothingHidden` | the same | |

The deadlock detector is the surprise. A worker comes to it when it has found the lists
of sleeping tasks, timers and I/O empty (`vm.rs:771-780`), and it reports if the tasks
it then counts in two of them are not zero (`vm.rs:784-785`). Between the two nothing but
another worker's slice puts a task into a list (`OnlySlicesSuspend`). So the report is
made in a race or not at all: in a program in which all tasks sleep the worker finds a
list that is not empty, and in one in which they wait for one another it counts zero. `NothingToCount` is the invariant: a worker
past a list that nobody has entered since would count nobody in it.

The bound of a channel counts what is on its way: `Room` says that the messages it
holds, the selects that have chosen to send to it and a pending timer together stay
within the capacity and the surplus. A plain send and the scan of a select look at the
capacity alone, which leaves room for all that may be on their way.

`NeverAllBlocked` follows the waiting. Whoever waits for the mutex waits for a holder
that owes its unlock (`LockIsOwed`, as long as none was lost), is therefore not over, and
does not wait for anything (`HolderGoesOn`); whoever waits for the wait group waits for a worker that owes its
`done()` (`CountIsOwed`), which can at most wait for the mutex.

For the heap the induction is over two kinds of states. Outside of collections the
objects are whole (`Whole`: nothing refers to a free slot); in one the marks
are such that the sweep spares what the roots hold (`KeepsAll`), and the collector's
steps are the only ones, since the others sleep. What the collector lacks is thus threefold,
and nothing else: tuples inside objects, deferred calls, and the roots of tasks in queues
and on other workers. Each is needed: without `NothingHidden` one task is enough to break
`NothingDangles` (`MCHeapReach.cfg`), without `CollectsAlone` two are (`heap_roots`).

### What the proof attempts found

- Who sends on the channel of a timer may fill it before the timer pushes its
  tick, and the channel then holds more than its capacity. The instance of the
  run did not do that; `Disciplined` now says so. Nobody has a reason to
  (`time.after` makes the channel).
- Without `SendsNoNil`, `NilMeansClosed` is false with or without a select; again
  the instance had satisfied it silently.
- `Write` of `Reactor` took as many bytes as there was room, also beyond the end
  of a message shorter than the buffer. The run had a buffer smaller than its
  message (`Takes`).
- The detector (`vm.rs:780-796`) cannot report what it is for (`ReportsNeedRaces`). The
  attempt to prove that its reports are true, but for races, left nothing but races.
- A channel exceeds its capacity by one message per task that selects, not per select:
  a task is in one select at a time.
- `patient` of `Server` looked at the request behind the last one of the script.

### Only model-checked

- Liveness (`SpawnedTasksComplete`, `Termination`, `CloseReleases`,
  `ReadySelectFires`, `EveryTaskEnds`, `WaitersProceed`, `Terminates`,
  `MessagesReturned`): fairness is out of the prover's reach.
- `ParsesAsWritten`, `SlotsMatchLocals` and `RunsAsWritten`: `Parser`,
  `Compiler`, `Values`, `Machine`, `Meaning` and `Printer` are mutually
  recursive operators over trees, for which the prover has no backend. What they
  compute is compared over families of programs.

## Known deviations

Two runs end in a violation, each of a sentence of the repository.

- `scheduler_stealing`: a worker never scans the deque of the worker whose index
  mirrors its own, and scans its own instead (`vm.rs:567`, `726`). With two
  workers nobody steals from a peer. Both are proved for every number of workers
  (`StealingSkipsMirrors`, `TwoWorkersNeverSteal`).
- `heap_roots`: the manual lists the injector queue among the roots
  (`03-concurrency.md:91`), the code has a comment in its place (`vm.rs:158`). What only
  a queued task refers to is freed. The same is true of the stacks of tasks that other
  workers run, of the channels only a timer knows and of handles only their task knows.

Further configurations, each with one property the code does not have, show others.
They are not among the runs of the project; `tlc -config X.cfg M`, where `M` is the `MC` module
the configuration is named after (`MCFrames` for `MCFramesScript.cfg`), finds the violation within a minute.

| configuration | property | what the code does |
|---|---|---|
| `MCSchedulerDetector.cfg` | `ReportIsTruthful` | "all woroutines are asleep" is reported while a task is running on another worker (`vm.rs:785`); `ReportsNeedRaces`: there is no report without a race |
| `MCChannelsSelect.cfg` | `NilMeansClosed` | a select may return Nil from an open channel, because it does not look again under the lock that takes the message (`vm.rs:2839`); `03-concurrency.md:83` says "Evaluated atomically" |
| `MCFramesDefer.cfg` | `EveryDeferRuns` | after `?` or a failure, deferred Whalli functions are not executed (`vm.rs:635`), while "Guaranteed Cleanup" promises them "upon function return or panic" (`src/README.md:42`). Deferred natives, unlocks, dones and closes are (`CleanupRuns`). A failing main task executes nothing at all and ends the program |
| `MCFramesScript.cfg` | `ScriptCleansUp` | what is deferred at the top level of a script (`parser.rs:282` accepts it) is never executed: the frame is popped at the end of its instructions (`vm.rs:894-897`), and the compiler adds a `Return` to modules only (`compiler.rs:197-214`). A top-level `mu.lock()` with `defer mu.unlock()` leaves the mutex locked, and `VM::run` waits for a worker that asks for it. `src/README.md:42` guarantees "mutex unlocks and resource cleanup", `02-language-tour.md:151` the execution "on frame exit" |
| `MCReactorClosed.cfg` | `ClosedTokensWake` | a task waits for a socket that is gone and nobody will tell it: another task's read met the end of the file and removed the stream without a token (`net.rs:264`), or the tokens were drained before the task was filed (`vm.rs:495`); `03-concurrency.md:10` says "Closed tokens also wake `WaitingIO` tasks" |
| `MCHeapReach.cfg` | `NothingDangles` | a lone task's collection frees an object that only a tuple inside another object holds (`heap.rs:82-87`); the same with the kinds `defer` and `return` in place of `wrap`, for what only a deferred call holds (`vm.rs:150-156`). `03-concurrency.md:91` has "current task stack/frames" among the roots, and `vm.rs:159` says that "unreferenced items are cleaned up" |
| `MCServerHead.cfg` | `AllowedServed` | HEAD of a route with GET alone is answered by a 405 whose `Allow` lists HEAD (`http.rs:518`): `router()` makes a map for each of seven methods (`http.rs:989`), so that the fall back from HEAD to GET (`http.rs:931-937`) is never taken; `tests/http_test.rs:316-333` has HEAD among the methods allowed there |
| `MCServerGroups.cfg` | `GroupsKeepTheirMiddlewares` | a route of a group is reached without the group's middlewares when its path is declared again later in another scope, if only for another method: the list of a path is replaced, whatever the method (`value.rs:1195`); `04-io-net.md:103` says that `use` registers group middlewares, `04-io-net.md:109` that groups inherit them |
| `MCLanguageContinue.cfg` | `RunsAsWritten` | `continue` in a `for` leaves the loop's variable on the stack (`compiler.rs:473`, where the count of locals to keep includes it): the next round pushes another above it and goes on reading the old one; `06-toolchain.md:14` lists continue among what the compiler handles |
| `MCServerBodies.cfg` | `BodiesWhole` | a body that arrives after the head, when the socket has blocked, is not waited for (`http.rs:641`): the request has a part of it, and the rest is refused as a request; `04-io-net.md:51` promises the body |

Others met while reading and modelling, without a configuration:

- *Network.* `write_all` sends the beginning of its message again when it had to
  wait (`net.rs:72`, `82`), so that the peer may receive more than the message.
  A task in the gap between `WouldBlock` and the waiting list misses an event, and while a
  module is imported its I/O thread takes events of the program's sockets: see `missed`
  in `Reactor`.
- *Router.* The middlewares of the root run once for every request and again for a route that
  was declared when there were any, and a third time through the copy a group has.
  `request_id` and `rate_limiter` (`04-io-net.md:107-108`) pass
  everything on.
- *Server.* `stop` clears a flag that the accept loop reads after its next
  client; `stop_server_internal` is empty (`http.rs:16`). `http.upgrade` does
  not go on with a write of the 101 that had to wait.
- *WebSocket.* A ping read from the socket gets no pong, one found in the buffer
  does. A message behind a ping is lost if the client closes at once. At the end
  of the stream `ws.read` answers `(nil, nil)`, which the documented loop
  (`src/README.md:216-240`) does not recognise. `ws.send` polls a full socket
  with the lock of all streams held (`ws.rs:131-140`). Two tasks that read one
  WebSocket can lose bytes. Whether a frame is the last of its message is not
  looked at.
- *Parser.* The send case of a `select` is parsed as a receive when the channel is a
  variable (`parser.rs:1113`; `03-concurrency.md:77`). An expression in brackets takes no
  postfix (`parser.rs:679-701`). Comparisons and `+`, `-` have one level.
- *Compiler and machine.* A `let` in a branch of an `if` that is not at the top
  level has no scope (`compiler.rs:313-342`): its slot is counted on both
  branches. The subject of a `match` or `select` takes a slot without regard to
  values already waiting on the stack (`compiler.rs:910`). Tuple patterns with
  ranges or tuples inside have wrong slots (`compiler.rs:1034`). `return f(x)`
  is `TailCall` with no `Return` behind it: if `f` is a native or a struct the
  body goes on (`compiler.rs:298`, `vm.rs:1161`), and `return g(x)` drops the
  check of a declared result type. `i64::MIN / -1` panics, and so does an index
  into, or the iteration of, a string that is not ASCII. Tuples are never equal
  (`value.rs:45`). A compound assignment to an index evaluates its target twice.
  Of duplicate keys of a map literal the first wins.
- *Imports.* The run of an imported module ends with a sweep of the shared heap
  in which only its own globals and modules are marked (`vm.rs:579-589`): lists,
  closures and modules that the importer made before are freed. Two tasks that
  import a file at once both miss the cache. The nested machine starts with an
  empty cache: a file imported along two ways runs twice, and a cycle never
  ends, though `02-language-tour.md:147` says "File imports are deduplicated".
- *Heap.* A nested read, and an allocation
  inside a write (`use`), jam with a task that waits to extend the table:
  `JamsNeedGrowth` says that this is the only way.

## What is not modelled

- *Imports*, but for their I/O thread (`Reactor`). A module is run by a second
  machine with its own scheduler, globals and cache on the same heap. What holds
  of it is little (each machine is a `Scheduler`, and the cache is a map that is
  only added to). What does not is sequential: after the sweep at its end
  nothing is left on the heap but what the module's own globals refer to, so
  that no property of two imports, or of an import after an allocation, would
  hold.
- *HTTP client, SQL.* Calls of external libraries that block their worker (`Blocking` in
  `Scheduler`) behind a mutex.
- *The lexer* (characters to tokens, f-strings), *the pure library, the language server*:
  functions of their arguments and single calls of the system.
- *In the language pipeline*: `defer`, `?`, `spawn`, `select` and the operations
  on channels are only parsed; what they do is in `Frames`, `Channels` and
  `Scheduler`. Floats, bytes and the inside of strings; integers stay far from
  64 bits.
- *In the server*: header parsing, encodings, multipart, cookies and static
  files; more than one client, since connections share only the router, which is
  not changed while serving, and the table of streams, which `Reactor` has;
  `ws.send`.
- *Within the modelled parts*: the values messages carry, the wording of errors,
  relaxed memory orderings (every shared access of the scheduler is a lock or an
  atomic read-modify-write, and the plain loads of `active_tasks` and `shutdown`
  are of values that change once and for all), and the condition variable, whose
  waits time out after 5 ms, so that a lost notification costs time only.
- *Programs outside the documented use*: unlocking what one does not hold, a
  negative delta of a wait group.

## Plan

1. (done) `Scheduler`, `Channels`, `Frames`, `Reactor`.
2. (done) `Heap`; `Parser`, `Compiler`, `Machine`, `Meaning` and `Language`;
   `Router` and `Server`.
3. (done) Proofs of the safety properties of all but the language pipeline, of both
   refinements, and of what the known deviations amount to.
4. Two tasks that share a WebSocket, and the cache of imports.
5. Lemmas about single instructions of `Machine`, which would have to be
   separated from the recursive operators of `Values` first.

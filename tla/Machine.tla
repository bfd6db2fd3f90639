------------------------------- MODULE Machine -------------------------------
(* The stack machine (execute_task_slice in src/vm.rs) running the main task  *)
(* alone: one action per instruction, on the values and objects of module     *)
(* Values. The scheduler, deferred calls and the collector have modules of    *)
(* their own.                                                                 *)
EXTENDS Integers, Sequences, SequencesExt, Values

VARIABLES
    stack,      \* Task::stack
    frames,     \* Task::frames: closure, code, ip, stack_offset, base_offset
    globals,    \* SharedRuntime::globals
    heap,       \* the objects, by id
    status      \* "idle", "running", "done" or "failed"

machine == <<stack, frames, globals, heap, status>>

Least(m, n) == IF m < n THEN m ELSE n
Most(m, n) == IF m > n THEN m ELSE n

Frame == Last(frames)
Instruction == Frame.code[Frame.ip + 1]
\* The operands, where the instruction has some.
A == Instruction[2]

\* The task runs and the instruction at ip is the one named.
At(name) ==
    /\ status = "running"
    /\ frames # <<>>
    /\ Frame.ip < Len(Frame.code)
    /\ Instruction[1] = name

\* The k-th value from the top; stack.pop().unwrap_or(Nil) if there is none.
Top(k) == IF Len(stack) >= k THEN stack[Len(stack) + 1 - k] ELSE <<"nil">>
Drop(n) == SubSeq(stack, 1, Most(Len(stack) - n, 0))
TopValues(n) == SubSeq(stack, Len(stack) - n + 1, Len(stack))

JumpTo(ip) == [frames EXCEPT ![Len(frames)].ip = ip]
Advanced == JumpTo(Frame.ip + 1)

\* The instruction ends with that stack.
Go(values) ==
    /\ stack' = values
    /\ frames' = Advanced
    /\ UNCHANGED <<globals, heap, status>>

\* fail! in the main task: the run ends with an error.
Fail ==
    /\ status' = "failed"
    /\ UNCHANGED <<stack, frames, globals, heap>>

\* The value v, an Error, replaces n values of the stack.
Replace(n, v) == IF v = Error THEN Fail ELSE Go(Append(Drop(n), v))

(* ---- Instructions -------------------------------------------------------- *)

DoPush == At("Push") /\ Go(Append(stack, A))
DoPop == At("Pop") /\ Go(Drop(1))
DoSetLine == At("SetLine") /\ Go(stack)

DoBinary ==
    /\ At("Bin")
    /\ Replace(2, IF A = "is" THEN <<"bool", IsOfType(heap, Top(2), Top(1))>>
                  ELSE Binary(A, Top(2), Top(1)))

DoNot ==
    /\ At("Not")
    /\ Replace(1, IF Top(1)[1] = "bool" THEN <<"bool", ~Top(1)[2]>> ELSE Error)

DoBuildTuple ==
    At("BuildTuple") /\ Go(Append(Drop(A), <<"tuple", TopValues(A)>>))

DoIndexGet == At("IndexGet") /\ Replace(2, Index(heap, Top(2), Top(1)))

\* The heap changes, and the instruction ends with that stack.
GoWith(objects, values) ==
    /\ heap' = objects
    /\ stack' = values
    /\ frames' = Advanced
    /\ UNCHANGED <<globals, status>>

DoIndexSet ==
    /\ At("IndexSet")
    /\ IF CanSet(heap, Top(3), Top(2))
       THEN GoWith(WithIndex(heap, Top(3), Top(2), Top(1)), Drop(3))
       ELSE Fail

\* UnpackTuple, UnpackList and UnpackObject, with the names they are for.
DoUnpack ==
    /\ At("Unpack")
    /\ LET names == Instruction[3]
       IN  IF CanUnpack(heap, Top(1), A, names)
           THEN Go(Drop(1) \o Unpacked(heap, Top(1), A, names))
           ELSE Fail

DoAssert ==
    /\ At("Assert")
    /\ IF Top(1)[1] = "bool" /\ ~Top(1)[2] THEN Fail ELSE Go(Drop(1))

DoStoreGlobal ==
    /\ At("StoreGlobal")
    /\ globals' = [x \in DOMAIN globals \cup {A} |->
                     IF x = A THEN Top(1) ELSE globals[x]]
    /\ stack' = Drop(1)
    /\ frames' = Advanced
    /\ UNCHANGED <<heap, status>>

DoLoadGlobal ==
    /\ At("LoadGlobal")
    /\ IF A \in DOMAIN globals THEN Go(Append(stack, globals[A])) ELSE Fail

\* A slot beyond the top: Nil when read, and the stack grows when written.
DoLoadLocal ==
    /\ At("LoadLocal")
    /\ LET i == Frame.offset + A + 1
       IN  Go(Append(stack, IF i <= Len(stack) THEN stack[i] ELSE <<"nil">>))

DoSetLocal ==
    /\ At("SetLocal")
    /\ LET i == Frame.offset + A + 1
           rest == Drop(1)
       IN  Go([k \in 1..Most(i, Len(rest)) |->
                 IF k = i THEN Top(1)
                 ELSE IF k <= Len(rest) THEN rest[k] ELSE <<"nil">>])

DoJump ==
    /\ At("Jump")
    /\ frames' = JumpTo(A)
    /\ UNCHANGED <<stack, globals, heap, status>>

\* Only false is false.
DoJumpIfFalse ==
    /\ At("JumpIfFalse")
    /\ stack' = Drop(1)
    /\ frames' = IF Top(1) = <<"bool", FALSE>> THEN JumpTo(A) ELSE Advanced
    /\ UNCHANGED <<globals, heap, status>>

\* The iterable is in the slot before the counter's: the item and true, or
\* nil and false.
DoIterNext ==
    /\ At("IterNext")
    /\ LET at == Frame.offset + A + 1
           over == stack[at - 1]
           i == stack[at][2]
       IN  IF stack[at][1] # "int" \/ ~Iterable(heap, over) THEN Fail
           ELSE IF HasItem(heap, over, i)
           THEN Go([stack EXCEPT ![at] = <<"int", i + 1>>]
                   \o << ItemAt(heap, over, i), <<"bool", TRUE>> >>)
           ELSE Go(stack \o << <<"nil">>, <<"bool", FALSE>> >>)

\* A new object, whose reference goes on the stack.
Alloc(object, rest) ==
    GoWith(Append(heap, object), Append(rest, <<"ref", Len(heap) + 1>>))

DoBuildList ==
    At("BuildList") /\ Alloc([kind |-> "list", items |-> TopValues(A)], Drop(A))

\* Keys and values alternate. They are popped from the last pair to the first:
\* of two equal keys the first one stays.
DoBuildMap ==
    /\ At("BuildMap")
    /\ LET keys == {Top(2 * k) : k \in 1..A}
           Newest(x) == CHOOSE k \in 1..A :
                            /\ Top(2 * k) = <<"str", x>>
                            /\ \A j \in (k + 1)..A : Top(2 * j) # <<"str", x>>
       IN  IF \E key \in keys : key[1] # "str" THEN Fail
           ELSE Alloc([kind |-> "map",
                       fields |-> [x \in {key[2] : key \in keys} |->
                                     Top(2 * Newest(x) - 1)]], Drop(2 * A))

DoBuildStruct ==
    /\ At("BuildStruct")
    /\ Alloc([kind |-> "struct", fields |-> Instruction[3],
              methods |-> [x \in {} |-> 0]], stack)

DoBuildInterface ==
    /\ At("BuildInterface")
    /\ Alloc([kind |-> "interface", required |-> ToSet(A)], stack)

\* The method is on the stack above its struct; on anything else it is lost.
DoAddMethod ==
    /\ At("AddMethod")
    /\ GoWith(IF HasKind(heap, Top(2), "struct")
              THEN [heap EXCEPT ![Top(2)[2]].methods = Set(@, A, Top(1))]
              ELSE heap, Drop(1))

(* ---- Functions ----------------------------------------------------------- *)

\* The variables a closure captures: <<"local", slot>> is copied to a new cell,
\* <<"up", n>> is the cell the running closure has itself.
DoClosure ==
    /\ At("Closure")
    /\ LET locs == Instruction[6]
           news == SelectSeq(locs, LAMBDA l : l[1] = "local")
           cells == [n \in DOMAIN news |->
                       [kind |-> "upvalue", value |-> stack[Frame.offset + news[n][2] + 1]]]
           NewIndex(k) == Cardinality({j \in 1..k : locs[j][1] = "local"})
           up == [k \in DOMAIN locs |->
                    IF locs[k][1] = "local" THEN Len(heap) + NewIndex(k)
                    ELSE heap[Frame.closure].up[locs[k][2] + 1]]
           closure == [kind |-> "closure", arity |-> Instruction[3],
                       returns |-> Instruction[4], code |-> Instruction[5], up |-> up]
       IN  GoWith(heap \o Append(cells, closure),
                  Append(stack, <<"ref", Len(heap) + Len(cells) + 1>>))

Cell(n) == heap[Frame.closure].up[n + 1]
DoGetUpvalue == At("GetUpvalue") /\ Go(Append(stack, heap[Cell(A)].value))
DoSetUpvalue ==
    At("SetUpvalue") /\ GoWith([heap EXCEPT ![Cell(A)].value = Top(1)], Drop(1))

\* A frame for the closure: its slot 0 is at offset, and it leaves its result
\* at base.
NewFrame(closure, offset, base) ==
    [closure |-> closure[2], code |-> heap[closure[2]].code,
     returns |-> heap[closure[2]].returns, ip |-> 0, offset |-> offset, base |-> base]

Enter(frame, values) ==
    /\ stack' = values
    /\ frames' = Append(Advanced, frame)
    /\ UNCHANGED <<globals, heap, status>>

Instance(struct, args) ==
    LET names == heap[struct[2]].fields
    IN  [kind |-> "instance", struct |-> struct[2],
         fields |-> [x \in ToSet(names) |->
                       args[CHOOSE k \in DOMAIN names : names[k] = x]]]

\* What is called with n arguments: the arity has to fit.
Calls(callee, kind, n) ==
    /\ HasKind(heap, callee, kind)
    /\ n = IF kind = "closure" THEN Object(heap, callee).arity
           ELSE Len(Object(heap, callee).fields)

\* The callee is below its n arguments, on the given stack.
CallWith(callee, args, rest) ==
    CASE Calls(callee, "closure", Len(args)) ->
           Enter(NewFrame(callee, Len(rest) + 1, Len(rest)), rest \o <<callee>> \o args)
      [] Calls(callee, "struct", Len(args)) -> Alloc(Instance(callee, args), rest)
      [] callee[1] = "native" -> Go(Append(rest, Native(callee[2], args)))
      [] OTHER -> Fail

DoCall == At("Call") /\ CallWith(Top(A + 1), TopValues(A), Drop(A + 1))

\* A method of the instance's struct runs with the instance as slot 0; a
\* callable entry of a map without it; the rest are the methods of value.rs.
DoMethodCall ==
    /\ At("MethodCall")
    /\ LET n == Instruction[3]
           self == Top(n + 1)
           object == Object(heap, self)
           method == IF object.kind # "instance" THEN <<"nil">>
                     ELSE Get(heap[object.struct].methods, A)
           entry == IF object.kind # "map" THEN <<"nil">> ELSE Get(object.fields, A)
           callable == \/ entry[1] = "native"
                       \/ Object(heap, entry).kind \in {"closure", "struct"}
           builtin == Method(heap, self, A, TopValues(n))
       IN  CASE method # <<"nil">> ->
                  IF ~Calls(method, "closure", n + 1) THEN Fail
                  ELSE Enter(NewFrame(method, Len(stack) - n - 1, Len(stack) - n - 1), stack)
             [] method = <<"nil">> /\ callable ->
                  CallWith(entry, TopValues(n), Drop(n + 1))
             [] OTHER ->
                  IF builtin.v = Error THEN Fail
                  ELSE GoWith(IF self[1] = "ref"
                              THEN [heap EXCEPT ![self[2]] = builtin.object] ELSE heap,
                              Append(Drop(n + 1), builtin.v))

\* A function takes over the frame. A native only leaves its result on the
\* stack, and any other object an empty frame: the code behind goes on.
DoTailCall ==
    /\ At("TailCall")
    /\ LET callee == Top(A + 1)
           base == Frame.base
       IN  CASE Calls(callee, "closure", A) ->
                  /\ stack' = SubSeq(stack, 1, base) \o <<callee>> \o TopValues(A)
                  /\ frames' = [frames EXCEPT
                                  ![Len(frames)] = NewFrame(callee, base + 1, base)]
                  /\ UNCHANGED <<globals, heap, status>>
             [] callee[1] = "native" ->
                  Go(Append(Drop(A + 1), Native(callee[2], TopValues(A))))
             [] callee[1] = "ref" /\ ~HasKind(heap, callee, "closure") ->
                  Enter([Frame EXCEPT !.code = <<>>, !.returns = "", !.ip = 0,
                                      !.offset = Len(stack) - A, !.base = Len(stack) - A - 1],
                        stack)
             [] OTHER -> Fail

\* The declared type of the result: a global of that name, or the name itself.
ReturnType(name) ==
    IF name \in DOMAIN globals THEN globals[name] ELSE <<"str", name>>

DoReturn ==
    /\ At("Return")
    /\ IF Frame.returns # "" /\ ~IsOfType(heap, Top(1), ReturnType(Frame.returns)) THEN Fail
       ELSE /\ stack' = Append(SubSeq(stack, 1, Least(Frame.base, Len(stack) - 1)),
                               Top(1))
            /\ frames' = Front(frames)
            /\ UNCHANGED <<globals, heap, status>>

\* The end of the code pops the frame and leaves the stack as it is.
EndOfCode ==
    /\ status = "running"
    /\ frames # <<>>
    /\ Frame.ip >= Len(Frame.code)
    /\ frames' = Front(frames)
    /\ UNCHANGED <<stack, globals, heap, status>>

\* SliceResult::Completed.
Complete ==
    /\ status = "running"
    /\ frames = <<>>
    /\ status' = "done"
    /\ UNCHANGED <<stack, frames, globals, heap>>

\* VM::new_with_function: the main task, and the natives as globals.
MachineInit ==
    /\ stack = <<>>
    /\ frames = <<>>
    /\ globals = [x \in {"int", "bool", "range"} |-> <<"native", x>>]
    /\ heap = <<>>
    /\ status = "idle"

Start(code) ==
    /\ status = "idle"
    /\ status' = "running"
    /\ frames' = << [closure |-> 0, code |-> code, returns |-> "", ip |-> 0,
                     offset |-> 0, base |-> 0] >>
    /\ UNCHANGED <<stack, globals, heap>>

Step ==
    \/ DoPush \/ DoPop \/ DoSetLine \/ DoBinary \/ DoNot \/ DoAssert
    \/ DoStoreGlobal \/ DoLoadGlobal \/ DoLoadLocal \/ DoSetLocal
    \/ DoGetUpvalue \/ DoSetUpvalue
    \/ DoJump \/ DoJumpIfFalse \/ DoIterNext
    \/ DoBuildTuple \/ DoBuildList \/ DoBuildMap \/ DoBuildStruct
    \/ DoBuildInterface \/ DoAddMethod \/ DoIndexGet \/ DoIndexSet \/ DoUnpack
    \/ DoClosure \/ DoCall \/ DoMethodCall \/ DoTailCall \/ DoReturn
    \/ EndOfCode \/ Complete
=============================================================================

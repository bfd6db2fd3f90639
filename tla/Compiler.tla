------------------------------ MODULE Compiler ------------------------------
(* The compiler (src/compiler.rs): from the nodes of Parser to instructions.  *)
(* An instruction is a tuple <<name, operand, ...>>; Constant and Push are    *)
(* one, and the operators that pop two values and push one are <<"Bin", op>>. *)
(*                                                                            *)
(* Names become stack slots here: the compiler keeps the list of the locals   *)
(* it believes to be on the stack, and a slot is an index into that list.     *)
(* SetLine carries the length of the list where it stands, a value the code   *)
(* does not emit: Language compares it with the stack of the machine.         *)
(*                                                                            *)
(* Left out: select, channel operations, spawn, defer, ?, imports and exports.*)
EXTENDS Integers, Sequences, SequencesExt

\* CompilerState: the chunk, the locals <<name, depth>>, scope_depth, the loops
\* around the statement being compiled, innermost last, and the upvalues of the
\* function. outer holds the state of the enclosing function.
NewState(params, depth, outer) ==
    [code |-> <<>>, locals |-> [i \in DOMAIN params |-> <<params[i][1], depth>>],
     depth |-> depth, loops |-> <<>>, up |-> <<>>, outer |-> outer]

\* Go on in the state c.
In(c, Go(_)) == Go(c)

Emit(c, instruction) == [c EXCEPT !.code = Append(@, instruction)]
EmitAll(c, instructions) == [c EXCEPT !.code = @ \o instructions]
Pops(c, n) == EmitAll(c, [i \in 1..n |-> <<"Pop">>])

\* current_ip, counted from 0 as the machine does, and patch_jump.
Here(c) == Len(c.code)
Patch(c, at, target) == [c EXCEPT !.code[at + 1][2] = target]
PatchAll(c, jumps, target) ==
    FoldLeft(LAMBDA d, at : Patch(d, at, target), c, jumps)

Declare(c, name, depth) == [c EXCEPT !.locals = Append(@, <<name, depth>>)]
Truncate(c, n) == [c EXCEPT !.locals = SubSeq(@, 1, n)]

BeginScope(c) == [c EXCEPT !.depth = @ + 1]

\* end_scope: forget the locals of the scope, and pop their values. They are
\* the last ones: no scope around it has a greater depth.
EndScope(c) ==
    LET n == SelectLastInSeq(c.locals, LAMBDA l : l[2] < c.depth)
    IN  Pops([Truncate(c, n) EXCEPT !.depth = @ - 1], Len(c.locals) - n)

\* resolve_local: the slot of the latest local of that name, -1 if none.
Slot(c, name) == SelectLastInSeq(c.locals, LAMBDA l : l[1] = name) - 1

\* Mutant: every use of a captured variable captures it again.
AddUpvalueAgain(c, loc) == [c |-> [c EXCEPT !.up = Append(@, loc)], n |-> Len(c.up)]

\* add_upvalue: the index of a captured variable, each of them listed once.
AddUpvalue(c, loc) ==
    IF loc \in ToSet(c.up)
    THEN [c |-> c, n |-> SelectInSeq(c.up, LAMBDA l : l = loc) - 1]
    ELSE [c |-> [c EXCEPT !.up = Append(@, loc)], n |-> Len(c.up)]

\* resolve_upvalue: n = -1 if no enclosing function has a local of that name.
RECURSIVE Upvalue(_, _)
Upvalue(c, name) ==
    IF c.outer = <<>> THEN [c |-> c, n |-> -1]
    ELSE IF Slot(c.outer[1], name) >= 0
    THEN AddUpvalue(c, <<"local", Slot(c.outer[1], name)>>)
    ELSE In(Upvalue(c.outer[1], name), LAMBDA r :
             IF r.n = -1 THEN [c |-> c, n |-> -1]
             ELSE AddUpvalue([c EXCEPT !.outer = <<r.c>>], <<"up", r.n>>))

\* The access to a variable: a slot, an upvalue or a global.
Access(c, name, local, upvalue, global) ==
    IF Slot(c, name) >= 0 THEN Emit(c, <<local, Slot(c, name)>>)
    ELSE In(Upvalue(c, name), LAMBDA r :
             IF r.n >= 0 THEN Emit(r.c, <<upvalue, r.n>>) ELSE Emit(c, <<global, name>>))

\* Let and its kin: a local in a scope, a global at the top.
Bind(c, names) ==
    IF c.depth > 0
    THEN FoldLeft(LAMBDA d, x : Declare(d, x, c.depth), c, names)
    ELSE EmitAll(c, [i \in DOMAIN names |->
                       <<"StoreGlobal", names[Len(names) + 1 - i]>>])

(* ---- Patterns ------------------------------------------------------------ *)

\* start <= v and v <= end, for the value in the slot.
RangeCheck(p, slot) ==
    << <<"LoadLocal", slot>>, <<"Push", <<"int", p[2]>>>>, <<"Bin", ">=">>,
       <<"LoadLocal", slot>>, <<"Push", <<"int", p[3]>>>>,
       <<"Bin", IF p[4] THEN "<=" ELSE "<">>, <<"Bin", "and">> >>

\* The check of one element of a tuple pattern, whose value is on the stack.
\* A range looks for it in the slot behind the locals.
ElementCheck(c, p) ==
    CASE p[1] = "plit" -> << <<"Push", p[2]>>, <<"Bin", "==">> >>
      [] p[1] = "prange" -> RangeCheck(p, Len(c.locals))
      [] OTHER -> << <<"Pop">>, <<"Push", <<"bool", TRUE>>>> >>

Element(slot, i) == << <<"LoadLocal", slot>>, <<"Push", <<"int", i - 1>>>>,
                       <<"IndexGet">> >>

RECURSIVE PatternCheck(_, _, _)
\* compile_pattern_check: leaves one boolean on the stack.
PatternCheck(c, p, slot) ==
    CASE p[1] \in {"wild", "pvar"} -> Emit(c, <<"Push", <<"bool", TRUE>>>>)
      [] p[1] = "plit" ->
           EmitAll(c, << <<"LoadLocal", slot>>, <<"Push", p[2]>>, <<"Bin", "==">> >>)
      [] p[1] = "prange" -> EmitAll(c, RangeCheck(p, slot))
      [] p[1] = "ptype" ->
           EmitAll(c, << <<"LoadLocal", slot>>, <<"LoadGlobal", p[3]>>,
                         <<"Bin", "is">> >>)
      [] p[1] = "ptuple" ->
           IF p[2] = <<>> THEN Emit(c, <<"Push", <<"bool", TRUE>>>>)
           ELSE LET Add(d, i) ==
                      EmitAll(d, Element(slot, i) \o ElementCheck(d, p[2][i])
                                 \o IF i > 1 THEN << <<"Bin", "and">> >> ELSE <<>>)
                IN  FoldLeft(Add, c, [i \in DOMAIN p[2] |-> i])
      [] p[1] = "por" ->
           LET Add(d, q) == Emit(PatternCheck(d, q, slot), <<"Bin", "or">>)
           IN  FoldLeft(Add, PatternCheck(c, p[2][1], slot), Tail(p[2]))

RECURSIVE BindPattern(_, _, _)
\* bind_pattern_variables: a copy of the value for every variable, and one of
\* every element of a tuple.
BindPattern(c, p, slot) ==
    CASE p[1] \in {"pvar", "ptype"} ->
           Declare(Emit(c, <<"LoadLocal", slot>>), p[2], c.depth)
      [] p[1] = "ptuple" ->
           LET Add(d, i) ==
                 LET e == Declare(EmitAll(d, Element(slot, i)), "<element>", d.depth)
                 IN  BindPattern(e, p[2][i], Len(d.locals))
           IN  FoldLeft(Add, c, [i \in DOMAIN p[2] |-> i])
      [] p[1] = "por" -> BindPattern(c, p[2][1], slot)
      [] OTHER -> c

(* ---- Expressions --------------------------------------------------------- *)

RECURSIVE Expr(_, _), Arm(_, _, _)

Exprs(c, es) == FoldLeft(LAMBDA d, e : Expr(d, e), c, es)

\* One arm of compile_match, from the state behind its check on. ends holds the
\* jumps to the end of the match. A failed guard pops what the pattern bound.
ArmEnd(done, guard, miss, count) ==
    In(Pops(Emit(done, <<"Jump", 0>>), count), LAMBDA cleanup :
       PatchAll(Patch(cleanup, Here(guard) - 1, Here(done) + 1),
                <<Here(done), miss>>, Here(cleanup)))

ArmBody(guard, arm, slot, miss, n) ==
    LET count == Len(guard.locals) - n
    IN  In(Truncate(Pops(Emit(Expr(guard, arm[3]), <<"SetLocal", slot>>), count), n),
           LAMBDA body :
             In(Emit(body, <<"Jump", 0>>), LAMBDA done :
                [c |-> IF arm[2] = <<"none">> THEN Patch(done, miss, Here(done))
                       ELSE ArmEnd(done, guard, miss, count),
                 end |-> Here(body)]))

Arm(acc, arm, slot) ==
    In(PatternCheck(acc.c, arm[1], slot), LAMBDA check :
    In(BindPattern(Emit(check, <<"JumpIfFalse", 0>>), arm[1], slot), LAMBDA bound :
    In(IF arm[2] = <<"none">> THEN bound ELSE Emit(Expr(bound, arm[2]), <<"JumpIfFalse", 0>>),
       LAMBDA guard :
    In(ArmBody(guard, arm, slot, Here(check), Len(acc.c.locals)), LAMBDA r :
       [c |-> r.c, ends |-> Append(acc.ends, r.end)]))))

\* compile_match: the subject becomes a local, whose slot ends up holding the
\* result; nil if no arm matches.
CompileMatch(c, subject, arms) ==
    In(Expr(c, subject), LAMBDA value :
       LET slot == Len(value.locals)
           start == Declare(value, "<subject>", value.depth + 1)
       IN  In(FoldLeft(LAMBDA acc, arm : Arm(acc, arm, slot), [c |-> start, ends |-> <<>>],
                       arms), LAMBDA all :
           In(EmitAll(all.c, << <<"Push", <<"nil">>>>, <<"SetLocal", slot>> >>), LAMBDA none :
              Truncate(PatchAll(none, all.ends, Here(none)), slot))))

\* compile_expr
Expr(c, e) ==
    CASE e[1] = "lit" -> Emit(c, <<"Push", e[2]>>)
      [] e[1] = "var" -> Access(c, e[2], "LoadLocal", "GetUpvalue", "LoadGlobal")
      [] e[1] = "bin" ->
           EmitAll(Expr(Expr(c, e[3]), e[4]),
                   IF e[2] = "!=" THEN << <<"Bin", "==">>, <<"Not">> >>
                   ELSE << <<"Bin", e[2]>> >>)
      [] e[1] = "not" -> Emit(Expr(c, e[2]), <<"Not">>)
      [] e[1] = "tuple" -> Emit(Exprs(c, e[2]), <<"BuildTuple", Len(e[2])>>)
      [] e[1] = "index" -> Emit(Expr(Expr(c, e[2]), e[3]), <<"IndexGet">>)
      [] e[1] = "call" -> Emit(Exprs(Expr(c, e[2]), e[3]), <<"Call", Len(e[3])>>)
      [] e[1] = "list" -> Emit(Exprs(c, e[2]), <<"BuildList", Len(e[2])>>)
      [] e[1] = "map" ->
           Emit(FoldLeft(LAMBDA d, entry : Exprs(d, entry), c, e[2]),
                <<"BuildMap", Len(e[2])>>)
      [] e[1] = "method" ->
           Emit(Exprs(Expr(c, e[2]), e[4]), <<"MethodCall", e[3], Len(e[4])>>)
      [] e[1] = "match" -> CompileMatch(c, e[2], e[3])

(* ---- Statements ---------------------------------------------------------- *)

RECURSIVE Stmt(_, _)
\* let with several names: what is taken apart, the names looked for in it, and
\* the names bound.
Unpacking(s) ==
    CASE s[1] = "lettuple" -> <<"tuple", s[2], s[2]>>
      [] s[1] = "letlist" -> <<"list", s[2], s[2]>>
      [] s[1] = "letobject" -> <<"object", [i \in DOMAIN s[2] |-> s[2][i][1]],
                                 [i \in DOMAIN s[2] |-> s[2][i][2]]>>

Stmts(c, ss) == FoldLeft(LAMBDA d, s : Stmt(d, s), c, ss)

\* The checks of the typed parameters at the head of a function.
ParamChecks(params) ==
    LET Check(i) == IF params[i][2] = "" THEN <<>>
                    ELSE << <<"LoadLocal", i - 1>>, <<"LoadGlobal", params[i][2]>>,
                            <<"Bin", "is">>, <<"Assert">> >>
    IN  FoldLeft(LAMBDA code, i : code \o Check(i), <<>>,
                 [i \in DOMAIN params |-> i])

\* The Closure instruction of a function, in the state of its surroundings.
CompileFunction(c, s) ==
    In(EmitAll(Stmts(EmitAll(NewState(s[3], 1, <<c>>), ParamChecks(s[3])), s[5]),
               << <<"Push", <<"nil">>>>, <<"Return">> >>), LAMBDA body :
       Emit(body.outer[1], <<"Closure", s[2], Len(s[3]), s[4], body.code, body.up>>))

\* impl: the struct stays on the stack while its methods are added.
CompileImpl(c, s) ==
    LET Add(d, f) == Emit(CompileFunction(d, f), <<"AddMethod", f[2]>>)
    IN  Emit(FoldLeft(Add, Emit(c, <<"LoadGlobal", s[2]>>), s[3]), <<"Pop">>)

\* Branches are compiled in the scope that holds the if.
CompileIf(c, s) ==
    In(Expr(c, s[2]), LAMBDA test :
    In(Stmts(Emit(test, <<"JumpIfFalse", 999>>), s[3]), LAMBDA yes :
       IF s[4] = <<"none">> THEN Patch(yes, Here(test), Here(yes))
       ELSE In(Stmts(Patch(Emit(yes, <<"Jump", 999>>), Here(test), Here(yes) + 1), s[4][2]),
               LAMBDA no : Patch(no, Here(yes), Here(no)))))

EnterLoop(c) == [c EXCEPT !.loops = Append(@, [breaks |-> <<>>, continues |-> <<>>,
                                               count |-> Len(c.locals)])]
\* Leave the innermost loop: its jumps are known now.
LeaveLoop(c, end, next) ==
    LET loop == Last(c.loops)
        out == [c EXCEPT !.loops = Front(@)]
    IN  PatchAll(PatchAll(out, loop.breaks, end), loop.continues, next)

\* Mutant: a loop that is over jumps back to its condition.
CompileWhileForEver(c, s) ==
    In(Expr(c, s[2]), LAMBDA test :
    In(EndScope(Stmts(BeginScope(EnterLoop(Emit(test, <<"JumpIfFalse", 999>>))), s[3])),
       LAMBDA body :
    In(Emit(body, <<"Jump", Here(c)>>), LAMBDA back :
       LeaveLoop(Patch(back, Here(test), Here(c)), Here(back), Here(c)))))

CompileWhile(c, s) ==
    In(Expr(c, s[2]), LAMBDA test :
    In(EndScope(Stmts(BeginScope(EnterLoop(Emit(test, <<"JumpIfFalse", 999>>))), s[3])),
       LAMBDA body :
    In(Emit(body, <<"Jump", Here(c)>>), LAMBDA back :
       LeaveLoop(Patch(back, Here(test), Here(back)), Here(back), Here(c)))))

\* The iterable and its counter are two locals, the item a third one.
ForHead(scope, e) ==
    Declare(Emit(Declare(Expr(scope, e), "<iterable>", scope.depth), <<"Push", <<"int", 0>>>>),
            "<iter_state>", scope.depth)
ForTest(head) ==
    EmitAll(head, << <<"IterNext", Len(head.locals) - 1>>, <<"JumpIfFalse", 999>> >>)

CompileFor(c, s) ==
    In(ForHead(BeginScope(c), s[3]), LAMBDA head :
    In(Declare(BeginScope(ForTest(head)), s[2], head.depth + 1), LAMBDA item :
    In(Emit(EndScope(Stmts(EnterLoop(item), s[4])), <<"Jump", Here(head)>>), LAMBDA back :
    In(Emit(Patch(back, Here(item) - 1, Here(back)), <<"Pop">>), LAMBDA exit :
       EndScope(LeaveLoop(exit, Here(back), Here(head)))))))

\* Mutant: break and continue leave the locals of the body on the stack.
CompileJumpOnly(c, which) ==
    Emit(IF which = "break" THEN [c EXCEPT !.loops[Len(c.loops)].breaks = Append(@, Here(c))]
         ELSE [c EXCEPT !.loops[Len(c.loops)].continues = Append(@, Here(c))], <<"Jump", 999>>)

\* break and continue: pop the locals of the body, then jump.
CompileJump(c, which) ==
    In(Pops(c, Len(c.locals) - Last(c.loops).count), LAMBDA popped :
       Emit(IF which = "break"
            THEN [popped EXCEPT !.loops[Len(c.loops)].breaks = Append(@, Here(popped))]
            ELSE [popped EXCEPT !.loops[Len(c.loops)].continues = Append(@, Here(popped))],
            <<"Jump", 999>>))

\* compile_stmt
Stmt(c, s) ==
    CASE s[1] = "line" -> Emit(c, <<"SetLine", Len(c.locals)>>)
      [] s[1] = "let" -> Bind(Expr(c, s[3]), <<s[2]>>)
      [] s[1] \in {"lettuple", "letlist", "letobject"} ->
           LET u == Unpacking(s)
           IN  Bind(Emit(Expr(c, s[3]), <<"Unpack", u[1], u[2]>>), u[3])
      [] s[1] = "assign" ->
           Access(Expr(c, s[3]), s[2], "SetLocal", "SetUpvalue", "StoreGlobal")
      [] s[1] = "indexassign" -> Emit(Exprs(c, <<s[2], s[3], s[4]>>), <<"IndexSet">>)
      [] s[1] = "expr" -> Emit(Expr(c, s[2]), <<"Pop">>)
      [] s[1] = "return" ->
           IF s[2][1] = "call"
           THEN Emit(Exprs(Expr(c, s[2][2]), s[2][3]), <<"TailCall", Len(s[2][3])>>)
           ELSE Emit(Expr(c, s[2]), <<"Return">>)
      [] s[1] = "func" ->
           Emit(CompileFunction(c, s), <<"StoreGlobal", s[2]>>)
      [] s[1] = "struct" ->
           EmitAll(c, << <<"BuildStruct", s[2], s[3]>>, <<"StoreGlobal", s[2]>> >>)
      [] s[1] = "interface" ->
           EmitAll(c, << <<"BuildInterface", s[3]>>, <<"StoreGlobal", s[2]>> >>)
      [] s[1] = "impl" -> CompileImpl(c, s)
      [] s[1] = "pub" -> Stmt(c, s[2])
      [] s[1] = "if" -> CompileIf(c, s)
      [] s[1] = "while" -> CompileWhile(c, s)
      [] s[1] = "for" -> CompileFor(c, s)
      [] s[1] \in {"break", "continue"} -> CompileJump(c, s[1])
      [] s[1] = "block" -> EndScope(Stmts(BeginScope(c), s[2]))

\* compile_function for the main program.
Compile(program) == Stmts(NewState(<<>>, 0, <<>>), program).code
=============================================================================

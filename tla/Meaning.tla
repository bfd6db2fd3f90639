------------------------------- MODULE Meaning -------------------------------
(* What a program means, defined on its tree: names are looked up in nested   *)
(* scopes, and there is no stack, no slot and no jump. The reference that     *)
(* Language holds the compiler and the machine to.                            *)
(*                                                                            *)
(* A block, a loop body and a function have a scope of their own; the         *)
(* branches of an if share the scope around it. A function is a global        *)
(* wherever it is written; it gets a copy of each local it can see there, a   *)
(* copy it keeps from call to call and shares with the functions inside it.   *)
(* "and" and "or" evaluate both sides, and a range pattern on a value that is *)
(* no number is an error, as it is for the operators.                         *)
EXTENDS Integers, Sequences, SequencesExt, Values

NoNames == [x \in {} |-> 0]

\* g: the globals; s: the scopes of the running function, innermost last; up:
\* the cells of the locals it got from outside; h: the objects.
Declared(env, x, v) ==
    IF env.s = <<>> THEN [env EXCEPT !.g = Set(@, x, v)]
    ELSE [env EXCEPT !.s[Len(env.s)] = Set(@, x, v)]

DeclaredAll(env, xs, vs) ==
    FoldLeft(LAMBDA e, i : Declared(e, xs[i], vs[i]), env, [i \in DOMAIN xs |-> i])

\* The innermost scope that declares x, 0 if there is none.
ScopeOf(env, x) == SelectLastInSeq(env.s, LAMBDA scope : x \in DOMAIN scope)

Value(env, x) ==
    IF ScopeOf(env, x) # 0 THEN env.s[ScopeOf(env, x)][x]
    ELSE IF x \in DOMAIN env.up THEN env.h[env.up[x]].value
    ELSE IF x \in DOMAIN env.g THEN env.g[x] ELSE Error

Assigned(env, x, v) ==
    IF ScopeOf(env, x) # 0 THEN [env EXCEPT !.s[ScopeOf(env, x)][x] = v]
    ELSE IF x \in DOMAIN env.up THEN [env EXCEPT !.h[env.up[x]].value = v]
    ELSE [env EXCEPT !.g = Set(@, x, v)]

Inner(env) == [env EXCEPT !.s = Append(@, NoNames)]
Outer(env) == [env EXCEPT !.s = Front(@)]

TypeNamed(env, name) ==
    IF name \in DOMAIN env.g THEN env.g[name] ELSE <<"str", name>>

(* ---- Patterns ------------------------------------------------------------ *)

\* Whether a pattern takes the value.
RECURSIVE Takes(_, _, _)
Takes(env, p, v) ==
    CASE p[1] \in {"wild", "pvar"} -> TRUE
      [] p[1] = "plit" -> Equal(v, p[2])
      [] p[1] = "prange" -> /\ v[2] >= p[2]
                            /\ IF p[4] THEN v[2] <= p[3] ELSE v[2] < p[3]
      [] p[1] = "ptype" -> IsOfType(env.h, v, TypeNamed(env, p[3]))
      [] p[1] = "ptuple" -> /\ Len(p[2]) = Len(v[2])
                            /\ \A i \in DOMAIN p[2] : Takes(env, p[2][i], v[2][i])
      [] p[1] = "por" -> \E i \in DOMAIN p[2] : Takes(env, p[2][i], v)

\* A range needs a number and a tuple pattern with elements a tuple.
RECURSIVE Suits(_, _)
Suits(p, v) ==
    CASE p[1] = "prange" -> v[1] = "int"
      [] p[1] = "ptuple" ->
           p[2] # <<>> => /\ v[1] = "tuple"
                          /\ \A i \in DOMAIN p[2] :
                               i \in DOMAIN v[2] => Suits(p[2][i], v[2][i])
      [] p[1] = "por" -> \A i \in DOMAIN p[2] : Suits(p[2][i], v)
      [] OTHER -> TRUE

RECURSIVE Bound(_, _, _)
Bound(env, p, v) ==
    CASE p[1] \in {"pvar", "ptype"} -> Declared(env, p[2], v)
      [] p[1] = "ptuple" ->
           FoldLeft(LAMBDA e, i : Bound(e, p[2][i], v[2][i]), env,
                    [i \in DOMAIN p[2] |-> i])
      [] p[1] = "por" -> Bound(env, p[2][1], v)
      [] OTHER -> env

(* ---- Functions and objects ----------------------------------------------- *)

\* An expression leads to an environment and a value.
Gives(env, v) == [env |-> env, v |-> v]
\* Go on with the value of r unless it is an error.
With(r, Go(_, _)) == IF r.v = Error THEN r ELSE Go(r.env, r.v)

New(env, object) ==
    Gives([env EXCEPT !.h = Append(@, object)], <<"ref", Len(env.h) + 1>>)

\* The function s, written where env is: a cell for every local in sight.
Closure(env, s) ==
    LET locals == SetToSeq(UNION {DOMAIN env.s[i] : i \in DOMAIN env.s})
        cells == [i \in DOMAIN locals |-> [kind |-> "cell", value |-> Value(env, locals[i])]]
        up == [x \in DOMAIN env.up \cup ToSet(locals) |->
                 IF x \in ToSet(locals)
                 THEN Len(env.h) + SelectInSeq(locals, LAMBDA y : y = x)
                 ELSE env.up[x]]
    IN  New([env EXCEPT !.h = @ \o cells],
            [kind |-> "closure", params |-> s[3], returns |-> s[4], body |-> s[5], up |-> up])

\* How a statement ends: "next", "break", "continue", "return" or "error".
Ends(env, how, v) == [env |-> env, how |-> how, v |-> v]

RECURSIVE Eval(_, _), EvalAll(_, _, _), EvalMap(_, _, _), Arms(_, _, _, _),
          Run(_, _), RunAll(_, _), While(_, _), For(_, _, _, _)

\* The body runs on the globals, the cells and a scope of the arguments, whose
\* types are checked first; the type of the result is checked at the end.
Called(env, f, args) ==
    RunAll(DeclaredAll([env EXCEPT !.s = <<NoNames>>, !.up = f.up],
                       [i \in DOMAIN f.params |-> f.params[i][1]], args), f.body)

Accepts(env, f, args) ==
    /\ Len(args) = Len(f.params)
    /\ \A i \in DOMAIN args :
         f.params[i][2] # "" => /\ f.params[i][2] \in DOMAIN env.g
                                /\ IsOfType(env.h, args[i], env.g[f.params[i][2]])

Returned(env, f, r) ==
    LET v == IF r.how = "return" THEN r.v ELSE <<"nil">>
    IN  IF \/ r.how = "error"
           \/ f.returns # "" /\ ~IsOfType(r.env.h, v, TypeNamed(r.env, f.returns))
        THEN Gives(env, Error)
        ELSE Gives([r.env EXCEPT !.s = env.s, !.up = env.up], v)

Entered(env, f, args) ==
    IF Accepts(env, f, args) THEN Returned(env, f, Called(env, f, args)) ELSE Gives(env, Error)

Apply(env, f, args) ==
    LET object == Object(env.h, f)
    IN  CASE f[1] = "native" -> Gives(env, Native(f[2], args))
          [] object.kind = "closure" -> Entered(env, object, args)
          [] object.kind = "struct" /\ Len(object.fields) = Len(args) ->
               New(env, [kind |-> "instance", struct |-> f[2],
                         fields |-> [x \in ToSet(object.fields) |->
                                       args[SelectInSeq(object.fields, LAMBDA y : y = x)]]])
          [] OTHER -> Gives(env, Error)

\* obj.name(args): a method of its struct, a callable entry of a map, or one of
\* the methods every list, map and tuple has.
Send(env, self, name, args) ==
    LET object == Object(env.h, self)
        method == IF object.kind = "instance" THEN Get(env.h[object.struct].methods, name)
                  ELSE <<"nil">>
        entry == IF object.kind = "map" THEN Get(object.fields, name) ELSE <<"nil">>
        builtin == Method(env.h, self, name, args)
    IN  CASE method # <<"nil">> -> Entered(env, Object(env.h, method), <<self>> \o args)
          [] entry[1] = "native" \/ Object(env.h, entry).kind \in {"closure", "struct"} ->
               Apply(env, entry, args)
          [] OTHER -> Gives(IF self[1] # "ref" THEN env
                            ELSE [env EXCEPT !.h[self[2]] = builtin.object], builtin.v)

(* ---- Expressions --------------------------------------------------------- *)

EvalAll(env, es, vs) ==
    IF es = <<>> THEN Gives(env, <<"values", vs>>)
    ELSE With(Eval(env, Head(es)),
              LAMBDA e, v : EvalAll(e, Tail(es), Append(vs, v)))

\* The entries of a map. Of two entries for a key the first one counts.
EvalMap(env, entries, fields) ==
    IF entries = <<>>
    THEN New(env, [kind |-> "map", fields |-> fields])
    ELSE With(EvalAll(env, Head(entries), <<>>), LAMBDA e, vs :
             LET key == vs[2][1]
             IN  IF key[1] # "str" THEN Gives(e, Error)
                 ELSE EvalMap(e, Tail(entries),
                              IF key[2] \in DOMAIN fields THEN fields
                              ELSE Set(fields, key[2], vs[2][2])))

\* The first arm whose pattern takes the value and whose guard is not false.
Guard(env, arm) ==
    IF arm[2] = <<"none">> THEN Gives(env, <<"bool", TRUE>>) ELSE Eval(env, arm[2])

Arms(env, arms, n, v) ==
    IF n > Len(arms) THEN Gives(env, <<"nil">>)
    ELSE IF ~Suits(arms[n][1], v) THEN Gives(env, Error)
    ELSE IF ~Takes(env, arms[n][1], v) THEN Arms(env, arms, n + 1, v)
    ELSE With(Guard(Bound(Inner(env), arms[n][1], v), arms[n]), LAMBDA e, g :
             IF g = <<"bool", FALSE>> THEN Arms(Outer(e), arms, n + 1, v)
             ELSE With(Eval(e, arms[n][3]), LAMBDA f, w : Gives(Outer(f), w)))

Eval(env, e) ==
    CASE e[1] = "lit" -> Gives(env, e[2])
      [] e[1] = "var" -> Gives(env, Value(env, e[2]))
      [] e[1] = "not" ->
           With(Eval(env, e[2]), LAMBDA f, v :
               Gives(f, IF v[1] = "bool" THEN <<"bool", ~v[2]>> ELSE Error))
      [] e[1] = "bin" ->
           With(EvalAll(env, <<e[3], e[4]>>, <<>>), LAMBDA f, vs :
               LET v == vs[2][1]
                   w == vs[2][2]
               IN  Gives(f, CASE e[2] = "is" -> <<"bool", IsOfType(f.h, v, w)>>
                              [] e[2] = "!=" -> <<"bool", ~Equal(v, w)>>
                              [] OTHER -> Binary(e[2], v, w)))
      [] e[1] = "tuple" ->
           With(EvalAll(env, e[2], <<>>), LAMBDA f, vs : Gives(f, <<"tuple", vs[2]>>))
      [] e[1] = "list" ->
           With(EvalAll(env, e[2], <<>>), LAMBDA f, vs :
               New(f, [kind |-> "list", items |-> vs[2]]))
      [] e[1] = "map" -> EvalMap(env, e[2], NoNames)
      [] e[1] = "index" ->
           With(EvalAll(env, <<e[2], e[3]>>, <<>>), LAMBDA f, vs :
               Gives(f, Index(f.h, vs[2][1], vs[2][2])))
      [] e[1] = "call" ->
           With(EvalAll(env, <<e[2]>> \o e[3], <<>>), LAMBDA f, vs :
               Apply(f, Head(vs[2]), Tail(vs[2])))
      [] e[1] = "method" ->
           With(EvalAll(env, <<e[2]>> \o e[4], <<>>), LAMBDA f, vs :
               Send(f, Head(vs[2]), e[3], Tail(vs[2])))
      [] e[1] = "match" ->
           With(Eval(env, e[2]), LAMBDA f, v : Arms(f, e[3], 1, v))

(* ---- Statements ---------------------------------------------------------- *)

Next(env) == Ends(env, "next", <<"nil">>)
Fails(env) == Ends(env, "error", Error)

\* Evaluate e and go on with it.
OnValue(r, Go(_, _)) == IF r.v = Error THEN Fails(r.env) ELSE Go(r.env, r.v)
Using(env, e, Go(_, _)) == OnValue(Eval(env, e), Go)

\* One statement after the other, until one does not go on to the next.
OnNext(r, Go(_)) == IF r.how = "next" THEN Go(r.env) ELSE r
RunAll(env, ss) ==
    IF ss = <<>> THEN Next(env)
    ELSE OnNext(Run(env, Head(ss)), LAMBDA e : RunAll(e, Tail(ss)))

LeaveScope(r) == [r EXCEPT !.env = Outer(@)]
Scoped(env, ss) == LeaveScope(RunAll(Inner(env), ss))

\* After one round of a loop: another one, or how the loop ends.
AfterRound(r, Again(_)) ==
    CASE r.how \in {"next", "continue"} -> Again(r.env)
      [] r.how = "break" -> Next(r.env)
      [] OTHER -> r

While(env, s) ==
    Using(env, s[2], LAMBDA e, c :
        IF c = <<"bool", FALSE>> THEN Next(e)
        ELSE AfterRound(Scoped(e, s[3]), LAMBDA f : While(f, s)))

For(env, s, over, i) ==
    IF ~HasItem(env.h, over, i) THEN Next(env)
    ELSE AfterRound(LeaveScope(RunAll(Declared(Inner(env), s[2], ItemAt(env.h, over, i)), s[4])),
                    LAMBDA e : For(e, s, over, i + 1))

\* let with several names: the value has to have the shape.
Destructured(env, what, e, parts, names) ==
    Using(env, e, LAMBDA f, v :
        IF CanUnpack(f.h, v, what, parts)
        THEN Next(DeclaredAll(f, names, Unpacked(f.h, v, what, parts)))
        ELSE Fails(f))

\* impl: the functions become methods of the struct.
WithMethod(r, struct, name) ==
    IF ~HasKind(r.env.h, struct, "struct") THEN r.env
    ELSE [r.env EXCEPT !.h[struct[2]].methods = Set(@, name, r.v)]
Extended(env, struct, fs) ==
    Next(FoldLeft(LAMBDA e, f : WithMethod(Closure(e, f), struct, f[2]), env, fs))

\* A new object in a global.
Named(r, x) == Next([r.env EXCEPT !.g = Set(@, x, r.v)])

Run(env, s) ==
    CASE s[1] = "let" -> Using(env, s[3], LAMBDA e, v : Next(Declared(e, s[2], v)))
      [] s[1] = "lettuple" -> Destructured(env, "tuple", s[3], s[2], s[2])
      [] s[1] = "letlist" -> Destructured(env, "list", s[3], s[2], s[2])
      [] s[1] = "letobject" ->
           Destructured(env, "object", s[3], [i \in DOMAIN s[2] |-> s[2][i][1]],
                        [i \in DOMAIN s[2] |-> s[2][i][2]])
      [] s[1] = "assign" -> Using(env, s[3], LAMBDA e, v : Next(Assigned(e, s[2], v)))
      [] s[1] = "indexassign" ->
           Using(env, <<"tuple", <<s[2], s[3], s[4]>>>>, LAMBDA e, v :
               IF CanSet(e.h, v[2][1], v[2][2])
               THEN Next([e EXCEPT !.h = WithIndex(@, v[2][1], v[2][2], v[2][3])])
               ELSE Fails(e))
      [] s[1] = "expr" -> Using(env, s[2], LAMBDA e, v : Next(e))
      [] s[1] = "return" -> Using(env, s[2], LAMBDA e, v : Ends(e, "return", v))
      [] s[1] = "func" -> Named(Closure(env, s), s[2])
      [] s[1] = "struct" ->
           Named(New(env, [kind |-> "struct", fields |-> s[3], methods |-> NoNames]), s[2])
      [] s[1] = "interface" ->
           Named(New(env, [kind |-> "interface", required |-> ToSet(s[3])]), s[2])
      [] s[1] = "impl" ->
           IF s[2] \in DOMAIN env.g THEN Extended(env, env.g[s[2]], s[3]) ELSE Fails(env)
      [] s[1] = "pub" -> Run(env, s[2])
      [] s[1] = "if" ->
           Using(env, s[2], LAMBDA e, c :
               IF c # <<"bool", FALSE>> THEN RunAll(e, s[3])
               ELSE IF s[4] = <<"none">> THEN Next(e)
               ELSE RunAll(e, s[4][2]))
      [] s[1] = "while" -> While(env, s)
      [] s[1] = "for" ->
           Using(env, s[3], LAMBDA e, v :
               IF Iterable(e.h, v) THEN For(e, s, v, 0) ELSE Fails(e))
      [] s[1] \in {"break", "continue"} -> Ends(env, s[1], <<"nil">>)
      [] s[1] = "block" -> Scoped(env, s[2])

\* The end of a program that starts with the natives as its globals.
Outcome(program) ==
    RunAll([g |-> [x \in {"int", "bool", "range"} |-> <<"native", x>>], s |-> <<>>,
            up |-> NoNames, h |-> <<>>],
           program)
=============================================================================

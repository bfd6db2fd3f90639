----------------------------- MODULE MCLanguage -----------------------------
(* Families of small programs. Those of Clear keep away from what is known to *)
(* be compiled to something else than its meaning: continue in a for, a let   *)
(* in a branch of an if that is not at the top level, a match with values     *)
(* already waiting on the stack, nested and ranged tuple patterns, the result *)
(* of a function that returns the call of a native or a struct, a return type *)
(* on a function that returns a call.                                         *)
EXTENDS Language

Num(n) == <<"lit", <<"int", n>>>>
Bool(b) == <<"lit", <<"bool", b>>>>
NilLit == <<"lit", <<"nil">>>>
Var(x) == <<"var", x>>
Op(op, e, f) == <<"bin", op, e, f>>
Pair(e, f) == <<"tuple", <<e, f>>>>
Invoke(f, es) == <<"call", Var(f), es>>
Let(x, e) == <<"let", x, e>>
Assign(x, e) == <<"assign", x, e>>
Add(x, e) == Assign(x, Op("+", Var(x), e))
When(e, ss) == <<"if", e, ss, <<"none">>>>
Either(e, ss, tt) == <<"if", e, ss, <<"else", tt>>>>
Return(e) == <<"return", e>>
Func(f, xs, ss) == <<"func", f, [i \in DOMAIN xs |-> <<xs[i], "">>], "", ss>>
Until(es) == Invoke("range", es)
Do(e) == <<"expr", e>>

(* ---- Operators: every pair of them, in both shapes ----------------------- *)

Operators == {"or", "and", "+", "-", "==", "!=", "<", ">=", "is", "*", "/", "%"}
Operands == {<<Num(7), Var("a"), Num(2)>>, <<Bool(TRUE), Bool(FALSE), Var("b")>>,
             <<Var("a"), Num(-2), Num(0)>>}

Trees == {Op(o, x[1], Op(q, x[2], x[3])) :
            o \in Operators, q \in Operators, x \in Operands}
         \cup {Op(q, Op(o, x[1], x[2]), x[3]) :
                 o \in Operators, q \in Operators, x \in Operands}
Negated(e) == Op("-", Num(0), e)
Unary == {Op(o, Negated(Var("a")), <<"not", Var("b")>>) : o \in {"+", "and", "=="}}
         \cup {Negated(Op(o, Var("a"), Num(2))) : o \in {"+", "*"}}
         \cup {<<"not", Op(o, Var("a"), Num(3))>> : o \in {"==", "+", "is"}}
         \cup {<<"index", Var("t"), Op(o, Num(1), Num(1))>> : o \in {"-", "*", "+"}}
         \cup {Pair(Op("+", Var("a"), Invoke("int", <<Var("b")>>)),
                    <<"index", Var("t"), Num(1)>>),
               <<"tuple", <<NilLit>>>>, <<"tuple", <<>>>>,
               Op("is", Var("t"), Var("int")), Invoke("bool", <<Num(0)>>)}

Expressions ==
    {<< Let("a", Num(3)), Let("b", Bool(TRUE)), Let("t", Pair(Num(4), Var("a"))),
        Let("r", e) >> : e \in Trees \cup Unary}

(* ---- Loops: one or two statements as the body ---------------------------- *)

InBody ==
    {Add("s", Var("i")),
     When(Op("==", Var("i"), Num(1)), << <<"break">> >>),
     Let("k", Op("*", Var("i"), Num(2))),
     Add("s", Var("k")),
     <<"block", << Let("j", Num(5)), Assign("s", Op("-", Var("j"), Var("s"))) >> >>,
     <<"for", "j", Until(<<Num(2)>>),
       << When(Op("==", Var("i"), Var("j")), << <<"break">> >>), Add("s", Num(10)) >> >>,
     Either(Op("<", Var("i"), Num(1)), << Add("s", Num(1)) >>,
            << Either(Op("==", Var("i"), Num(1)), << Add("s", Num(20)) >>,
                      << Assign("s", Negated(Var("s"))) >>) >>),
     <<"lettuple", <<"i", "s">>, Pair(Var("s"), Var("i"))>>,
     <<"while", Op("<", Var("s"), Num(4)),
       << Let("d", Num(3)), Add("s", Var("d")),
          When(Op("==", Var("s"), Num(3)), << <<"continue">> >>) >> >>}
Leaving == {When(Op("==", Var("i"), Num(1)), << Return(Var("s")) >>)}

Bodies(S) == {<<x>> : x \in S} \cup {<<x, y>> : x \in S, y \in S}
Loops(over, bodies) == {<< <<"for", "i", Until(over), b>> >> : b \in bodies}
Up == <<Num(3)>>
Down == <<Num(2), Num(0), Num(-1)>>
Counting(bodies) ==
    {<< Let("n", Num(0)),
        <<"while", Op("<", Var("n"), Num(3)),
          << Let("i", Var("n")), Add("n", Num(1)) >> \o b>> >> : b \in bodies}

OverInt == <<"for", "i", Num(3), << Add("s", Var("i")) >> >>
AtTop(loop) == << Let("s", Num(0)) >> \o loop
InFunction(loop) ==
    << Func("f", <<"n">>, << Let("s", Num(0)), Let("m", Num(6)) >> \o loop
                          \o << Return(Op("+", Var("s"), Var("m"))) >>),
       Let("r", Invoke("f", <<Num(3)>>)) >>

LoopPrograms ==
    {AtTop(<<OverInt>>)}
    \cup {AtTop(l) : l \in Loops(Down, Bodies(InBody)) \cup Counting(Bodies(InBody))}
    \cup {InFunction(l) : l \in Loops(Up, Bodies(InBody \cup Leaving))}
    \cup {InFunction(l) : l \in Counting({<<x, y>> :
              x \in Leaving \cup {When(Op("==", Var("i"), Num(1)), << <<"continue">> >>)},
              y \in InBody})}

(* ---- match --------------------------------------------------------------- *)

Lit(n) == <<"plit", <<"int", n>>>>
X == <<"pvar", "x">>
NumberPatterns == {<<"wild">>, Lit(0), Lit(1), <<"prange", 0, 1, FALSE>>,
                   <<"prange", 0, 1, TRUE>>, X, <<"ptype", "x", "int">>,
                   <<"ptype", "x", "bool">>, <<"por", <<Lit(0), Lit(2)>>>>,
                   <<"por", <<Lit(2), <<"prange", 1, 2, FALSE>>>>>>}
PairPatterns == {<<"ptuple", <<Lit(0), X>>>>, <<"ptuple", <<X, Lit(1)>>>>,
                 <<"ptuple", << <<"wild">>, X>>>>, <<"ptuple", <<X, <<"pvar", "y">>>>>>,
                 <<"wild">>, X}
Binds(p) == \/ p[1] \in {"pvar", "ptype"}
            \/ p[1] = "ptuple" /\ X \in {p[2][1], p[2][2]}
Arms1(patterns) ==
    {<<p, <<"none">>, IF Binds(p) THEN Pair(Var("x"), Num(7)) ELSE Num(8)>> : p \in patterns}
    \cup {<<p, Op("==", Var("x"), Num(1)), Pair(Var("x"), Num(9))>> :
            p \in {q \in patterns : Binds(q)}}
MatchOf(e, patterns) ==
    {<<"match", e, <<a, b>>>> : a \in Arms1(patterns), b \in Arms1(patterns)}
Matches == UNION {MatchOf(e, NumberPatterns) : e \in {Num(0), Num(1), Bool(TRUE)}}
           \cup UNION {MatchOf(e, PairPatterns) : e \in {Pair(Num(0), Num(1)), Pair(Num(1), Num(1))}}
InnerMatches == MatchOf(Var("n"), {<<"wild">>, X, Lit(1)})

MatchPrograms ==
    {<< Let("r", m) >> : m \in Matches}
    \cup {<< Func("f", <<"n">>,
                  << Let("y", Num(5)), Let("r", m), <<"expr", m>>, Let("z", Num(6)),
                     Return(Pair(Var("r"), Op("-", Var("y"), Var("z")))) >>),
             Let("r", Invoke("f", <<v>>)) >> :
            m \in InnerMatches \cup {<<"match", Var("n"), << <<X, <<"none">>, i>> >> >> :
                                       i \in InnerMatches},
            v \in {Num(1), Num(2)}}

(* ---- Functions ----------------------------------------------------------- *)

Fact == Func("fact", <<"n">>,
             << When(Op("<=", Var("n"), Num(1)), << Return(Num(1)) >>),
                Return(Op("*", Var("n"), Invoke("fact", << Op("-", Var("n"), Num(1)) >>))) >>)
Sum == Func("sum", <<"n", "acc">>,
            << Let("one", Num(1)),
               When(Op("==", Var("n"), Num(0)), << Return(Var("acc")) >>),
               Return(Invoke("sum", << Op("-", Var("n"), Var("one")),
                                       Op("+", Var("acc"), Var("n")) >>)) >>)
Parity == << Func("even", <<"n">>,
                  << Either(Op("==", Var("n"), Num(0)), << Return(Bool(TRUE)) >>,
                            << Return(Invoke("odd", << Op("-", Var("n"), Num(1)) >>)) >>) >>),
             Func("odd", <<"n">>,
                  << Assign("calls", Op("+", Var("calls"), Num(1))),
                     When(Op("!=", Var("n"), Num(0)),
                          << Return(Invoke("even", << Op("-", Var("n"), Num(1)) >>)) >>),
                     Return(Bool(FALSE)) >>) >>
Point == <<"struct", "S", <<"a", "b">>>>
Args == {Num(1), Bool(TRUE), NilLit, Pair(Num(1), Num(2)), Invoke("S", <<Num(4), Num(5)>>)}
Typed(type, result, e) ==
    <<"func", "g", << <<"p", type>>, <<"q", "">> >>, result, << Return(e) >> >>
TypedCalls ==
    {<< Point, Typed(type, result, e),
        Let("r", Pair(Num(3), Invoke("g", << a, Num(2) >>))) >> :
       type \in {"", "int", "S", "T"}, result \in {"", "bool", "S", "tuple"}, a \in Args,
       e \in {Var("p"), <<"index", Var("p"), <<"lit", <<"str", "b">>>>>>}}

FunctionPrograms ==
    {<< Fact, Sum, Let("r", Op("-", Invoke("fact", <<Num(m)>>), Invoke("sum", <<Num(n), Num(0)>>))) >> :
       m \in 0..4, n \in {0, 3}}
    \cup {<< Let("calls", Num(0)) >> \o Parity \o << Let("r", Invoke("even", <<Num(n)>>)) >> :
            n \in 0..5}
    \cup TypedCalls
    \cup {<< Func("h", xs, << Assign("r", Var("x")) >>),
             Let("r", Num(0)), Let("x", Num(1)), Let("t", Invoke("h", es)) >> :
            xs \in {<<>>, <<"x">>}, es \in {<<>>, <<Num(2)>>}}
    \* what is returned here is not looked at
    \cup {<< Point, Let("x", Num(1)), Func("h", <<>>, << Return(Invoke(f, <<Num(1), Num(2)>>)) >>),
             Do(Invoke("h", <<>>)), Let("r", Num(1)) >> : f \in {"int", "S", "x"}}

(* ---- Lists, maps and what shares them ------------------------------------ *)

Str(s) == <<"lit", <<"str", s>>>>
Send(x, name, es) == <<"method", Var(x), name, es>>
At0(x) == <<"index", Var(x), Num(0)>>
Field(e, name) == <<"index", e, Str(name)>>
Put(e, i, v) == <<"indexassign", e, i, v>>

Sharing == << Let("s", Num(0)), Let("l", <<"list", <<Num(1), Num(2)>>>>), Let("k", Var("l")),
              Let("m", <<"map", << <<Str("a"), Var("l")>>, <<Str("b"), Num(3)>>,
                                   <<Str("a"), Num(4)>>, <<Str("f"), Var("int")>> >> >>) >>
OnData ==
    {Do(Send("l", "push", <<Var("s")>>)), Do(Send("l", "reverse", <<>>)),
     Do(Send("k", "clear", <<>>)), Put(Var("l"), Num(0), Num(9)),
     Put(Var("k"), Num(1), Op("+", <<"index", Var("k"), Num(1)>>, At0("l"))),
     Assign("s", Send("k", "pop", <<>>)), Assign("s", Field(Var("m"), "b")),
     Assign("s", Send("m", "len", <<>>)), Assign("s", Send("l", "contains", <<Num(2)>>)),
     Assign("s", <<"index", Field(Var("m"), "a"), Num(0)>>),
     Assign("s", Send("m", "f", <<Bool(TRUE)>>)),
     Put(Var("m"), Str("a"), <<"list", <<Var("s"), <<"tuple", <<Var("k")>>>>>>>>),
     Put(Var("m"), Num(-1), Bool(TRUE)), Put(<<"index", Var("m"), Bool(TRUE)>>, Str("b"), NilLit),
     Put(Var("m"), Str("true"), <<"tuple", << <<"index", Var("m"), Str("-1")>>,
                                             <<"index", Var("m"), NilLit>> >>>>),
     Put(Var("m"), Str("b"), Op("-", Field(Var("m"), "b"), Num(1))),
     Assign("k", Send("m", "remove", <<Str("a")>>)),
     <<"letlist", <<"s", "t">>, Var("k")>>,
     <<"letobject", << <<"a", "k">>, <<"b", "b">> >>, Var("m")>>,
     <<"for", "x", Var("l"), << Add("s", Var("x")),
                                When(Op("==", Send("k", "len", <<>>), Num(2)),
                                     << Do(Send("k", "push", <<Num(5)>>)) >>) >> >>}
Local(ss, tail) == << Func("f", <<>>, ss \o tail), Let("r", Invoke("f", <<>>)) >>
Everything == << Return(<<"tuple", <<Var("s"), Var("l"), Var("k"), Var("m")>>>>) >>
Entries == {"g", "c", "i", "none"}
DataPrograms ==
    {<< Point, Func("g", <<"x">>, << Return(Op("+", Var("x"), Num(1))) >>),
        Let("m", <<"map", << <<Str("g"), Var("g")>>, <<Str("c"), Var("S")>>,
                             <<Str("i"), Num(1)>> >> >>),
        Let("r", Pair(Send("m", x, es), Num(0))) >> :
       x \in Entries, es \in {<<>>, <<Num(1)>>, <<Num(1), Num(2)>>}}
    \cup {Sharing \o ss : ss \in Bodies(OnData)}
    \cup {Local(Sharing \o ss, Everything) : ss \in Bodies(OnData)}

(* ---- Closures: copies of locals, shared only with inner functions -------- *)

InMake ==
    {Add("n", Num(10)), Assign("n", Invoke("inc", <<Num(1)>>)),
     Func("inc", <<"d">>, << Add("n", Var("d")), Return(Var("n")) >>),
     Func("inc", <<"d">>, << Let("n", Op("*", Var("n"), Var("d"))), Return(Var("n")) >>),
     Func("inc", <<"n">>, << Return(Op("-", Var("n"), Var("a"))) >>),
     Func("inc", <<"d">>,
          << Func("low", <<"c">>, << Add("n", Var("c")), Add("d", Var("n")), Return(Var("d")) >>),
             Add("d", Invoke("low", <<Num(2)>>)),
             Return(Pair(Var("n"), Op("+", Var("d"), Invoke("low", <<Num(3)>>)))) >>),
     <<"for", "i", Until(<<Num(2)>>),
       << Let("q", Var("n")),
          Func("inc", <<"d">>, << Add("i", Num(1)), Add("n", Var("i")),
                                  Return(Pair(Var("q"), Var("i"))) >>) >> >>}
ClosurePrograms ==
    {<< Func("inc", <<"d">>, << Return(Num(0)) >>),
        Func("make", <<"a">>, << Let("n", Var("a")) >> \o ss \o << Return(Var("inc")) >>),
        Let("f", Invoke("make", <<Num(1)>>)), Let("g", Invoke("make", <<Num(2)>>)),
        Let("r", <<"tuple", <<Invoke("f", <<Num(1)>>), Invoke("g", <<Num(5)>>),
                              Invoke("f", <<Num(1)>>), Invoke("inc", <<Num(1)>>)>>>>) >> :
       ss \in Bodies(InMake)}

(* ---- Structs with methods, interfaces ------------------------------------ *)

Method2(f, xs, ss) == Func(f, <<"self">> \o xs, ss)
PointMethods ==
    <<"impl", "S",
      << Method2("move", <<"d">>, << Put(Var("self"), Str("a"),
                                         Op("+", Field(Var("self"), "a"), Var("d"))),
                                     Return(Var("self")) >>),
         Method2("sum", <<>>, << Return(Op("+", Field(Var("self"), "a"),
                                           Field(Var("self"), "b"))) >>) >> >>
Shape(xs) == <<"interface", "I", xs>>
OnPoint ==
    {Let("r", <<"method", Send("p", "move", <<Num(2)>>), "sum", <<>>>>),
     Do(Send("p", "move", <<Num(1)>>)), Let("r", Send("p", "sum", <<Num(0)>>)),
     Let("r", Send("p", "none", <<>>)), Let("q", Send("p", "move", <<Num(3)>>)),
     Let("r", Pair(Op("is", Var("p"), Var("I")), Op("is", Var("p"), Var("S")))),
     Let("r", <<"match", Var("p"), << << <<"ptype", "x", "I">>, <<"none">>, Send("x", "sum", <<>>)>>,
                                      << <<"wild">>, <<"none">>, Num(0)>> >> >>),
     Put(Var("p"), Str("b"), Var("p2")), <<"pub", Let("u", Field(Var("p"), "b"))>>,
     <<"letobject", << <<"b", "b">>, <<"c", "c">> >>, Var("p")>>,
     <<"impl", "S", << Func("none", <<"x">>, << Return(Pair(Num(6), Field(Var("x"), "a"))) >>) >> >>}
ObjectPrograms ==
    {<< Point, Shape(xs), PointMethods, Let("p2", Num(8)),
        Let("p", Invoke("S", <<Num(1), Num(2)>>)) >> \o ss :
       xs \in {<<"sum">>, <<"sum", "none">>}, ss \in Bodies(OnPoint)}
    \cup {<< Point, <<"impl", x, << Method2("len", <<>>, << Return(Num(0)) >>) >> >>,
             Let("t", Pair(Num(1), e)),
             Let("r", Pair(<<"method", Invoke("S", <<Num(1), Num(2)>>), "len", <<>>>>,
                           Send("t", "len", <<>>))) >> :
            x \in {"S", "int", "T"}, e \in {Str("a"), <<"map", << <<Num(1), Num(2)>> >> >>}}
    \cup {<< Let("r", <<"match", Str(x), << << <<"plit", <<"str", "a">>>>, <<"none">>, Num(1)>> >> >>) >> :
            x \in {"a", "b"}}

Clear == Expressions \cup LoopPrograms \cup MatchPrograms \cup FunctionPrograms
         \cup DataPrograms \cup ClosurePrograms \cup ObjectPrograms

(* ---- Only parsed: what the compiler model leaves out --------------------- *)

Ch == Var("ch")
Receive(e) == <<"recv", e>>
Cases == {<<"recv", "v", Ch, Var("v")>>, <<"recv", "_", <<"index", Ch, Num(0)>>, NilLit>>,
          <<"default", Num(0)>>,
          <<"send", <<"index", Ch, Num(1)>>, Op("+", Num(1), Num(2)), Bool(TRUE)>>}
SelectOf(cases) == {<<Do(<<"select", <<x, y>>>>)>> : x \in cases, y \in cases}
Arrows == {<<"send", Ch, e>> : e \in {Num(1), Receive(Ch), <<"send", Var("c"), Num(2)>>,
                                      Op("or", Var("a"), Var("b"))}}
          \cup {Receive(<<"try", Invoke("f", <<Ch>>)>>), <<"try", Var("x")>>,
                <<"try", <<"method", <<"try", Var("x")>>, "get", <<Receive(Ch)>>>>>>,
                Op("+", Receive(Ch), Receive(Ch)), Op("==", Num(1), <<"send", Ch, Num(2)>>),
                <<"send", Op("and", Ch, Num(1)), Num(2)>>,
                <<"spawn", Var("f"), <<Num(1), Ch>>>>,
                <<"spawn", <<"index", Ch, Num(0)>>, <<>>>>}
OnlyParsed ==
    SelectOf(Cases)
    \cup {<<Let("x", e), <<"spawn", Var("f"), <<e>>>>>> : e \in Arrows}
    \cup {<<Do(e)>> : e \in {f \in Arrows : f[1] # "spawn"}}
    \cup {<< <<"defer", Invoke("f", <<e>>)>>, Return(e) >> : e \in Arrows}
    \cup {<< <<"import", "m", x>>, <<"importfile", "a.wi", x>>,
             <<"from", "m", << <<"a", x>>, <<"b", "">> >>>>, <<"defer", Send("c", "close", <<>>)>> >> :
            x \in {"", "n"}}

(* ---- What is parsed or compiled to something else ------------------------ *)

\* A send to a channel in a variable.
SelectSend == SelectOf({<<"send", Ch, Num(42), Num(1)>>, <<"default", Num(0)>>})

Skipping ==
    {<< Let("s", Num(0)),
        <<"for", "i", Until(<<Num(3)>>),
          << When(Op("==", Var("i"), Num(n)), << <<"continue">> >>), Add("s", Var("i")) >> >> >> :
       n \in 0..3}

\* A function that returns what a native or a struct gives it.
Returning ==
    {<< Point, Func("h", <<"x">>, << Return(Invoke(f, <<Var("x"), Num(2)>>)) >>),
        Let("r", Invoke("h", <<Bool(TRUE)>>)) >> : f \in {"int", "S"}}
=============================================================================

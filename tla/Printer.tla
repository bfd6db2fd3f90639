------------------------------- MODULE Printer -------------------------------
(* The tokens of a program, written from its tree: the inverse the parser is  *)
(* held to. It knows the precedence of the operators, where brackets are      *)
(* needed and what may be abbreviated. In the "long" style every statement    *)
(* ends in a newline; the "short" style puts ";" between statements, writes   *)
(* x = x + e as x += e, 0 - e as -e, else { if .. } as else if, a return of   *)
(* nil without its value, and a map on one line.                              *)
EXTENDS Integers, Sequences, SequencesExt

\* How tightly an expression binds; 5 is what parse_primary reads.
LevelOf(e, style) ==
    IF e[1] = "send" THEN 0
    ELSE IF e[1] # "bin" THEN 5
    ELSE CASE e[2] = "or" -> 1
           [] e[2] = "and" -> 2
           [] e[2] \in {"*", "/", "%"} -> 4
           [] style = "short" /\ e[2] = "-" /\ e[3] = <<"lit", <<"int", 0>>>>
              /\ e[4][1] # "lit" -> 5
           [] OTHER -> 3

Negation(e, style) == e[1] = "bin" /\ e[2] = "-" /\ LevelOf(e, style) = 5

Word(w) == << <<w>> >>
Name(x) == << <<"id", x>> >>

\* Sequences of tokens with separators between them.
Joined(parts, separator) ==
    IF parts = <<>> THEN <<>>
    ELSE FoldLeft(LAMBDA ts, part : ts \o separator \o part, Head(parts), Tail(parts))

Literal(v) ==
    CASE v[1] = "int" -> IF v[2] < 0 THEN << <<"-">>, <<"int", -v[2]>> >> ELSE <<v>>
      [] v[1] = "bool" -> Word(IF v[2] THEN "true" ELSE "false")
      [] v[1] = "nil" -> Word("nil")
      [] v[1] = "str" -> <<v>>

RECURSIVE PatternTokens(_)
PatternTokens(p) ==
    CASE p[1] = "wild" -> Name("_")
      [] p[1] = "plit" -> Literal(p[2])
      [] p[1] = "prange" -> << <<"int", p[2]>>, <<IF p[4] THEN "..=" ELSE "..">>,
                               <<"int", p[3]>> >>
      [] p[1] = "pvar" -> Name(p[2])
      [] p[1] = "ptype" -> Name(p[2]) \o Word(":") \o Name(p[3])
      [] p[1] = "ptuple" ->
           Word("(") \o Joined([i \in DOMAIN p[2] |-> PatternTokens(p[2][i])], Word(","))
           \o Word(")")
      [] p[1] = "por" ->
           Joined([i \in DOMAIN p[2] |-> PatternTokens(p[2][i])], Word("|"))

RECURSIVE ExprTokens(_, _, _)
ExprTokens(e, level, style) ==
    LET Tokens(f) == ExprTokens(f, 0, style)
        Line == IF style = "long" THEN Word("nl") ELSE <<>>
        Items(es) == Joined([i \in DOMAIN es |-> Tokens(es[i])], Word(","))
        ArmTokens(arm) ==
            PatternTokens(arm[1])
            \o (IF arm[2] = <<"none">> THEN <<>> ELSE Word("if") \o Tokens(arm[2]))
            \o Word("=>") \o Tokens(arm[3])
        CaseTokens(case) ==
            CASE case[1] = "default" -> Word("default") \o Word("=>") \o Tokens(case[2])
              [] case[1] = "recv" ->
                   (IF case[2] = "_" THEN <<>> ELSE Name(case[2])) \o Word("<-")
                   \o Tokens(case[3]) \o Word("=>") \o Tokens(case[4])
              [] case[1] = "send" ->
                   ExprTokens(case[2], 1, style) \o Word("<-") \o Tokens(case[3])
                   \o Word("=>") \o Tokens(case[4])
        n == LevelOf(e, style)
    IN  IF n < level THEN Word("(") \o Tokens(e) \o Word(")")
        ELSE CASE e[1] = "lit" -> Literal(e[2])
          [] e[1] = "var" -> Name(e[2])
          [] Negation(e, style) -> Word("-") \o ExprTokens(e[4], 5, style)
          [] e[1] = "bin" /\ ~Negation(e, style) ->
               ExprTokens(e[3], n, style) \o Word(e[2]) \o ExprTokens(e[4], n + 1, style)
          [] e[1] = "not" -> Word("not") \o ExprTokens(e[2], 5, style)
          [] e[1] = "tuple" ->
               Word("(") \o Items(e[2]) \o (IF Len(e[2]) = 1 THEN Word(",") ELSE <<>>)
               \o Word(")")
          [] e[1] = "index" ->
               Tokens(e[2]) \o (IF e[3][1] = "lit" /\ e[3][2][1] = "str"
                                THEN Word(".") \o Name(e[3][2][2])
                                ELSE Word("[") \o Tokens(e[3]) \o Word("]"))
          [] e[1] = "call" -> Tokens(e[2]) \o Word("(") \o Items(e[3]) \o Word(")")
          [] e[1] = "method" ->
               Tokens(e[2]) \o Word(".") \o Name(e[3])
               \o Word("(") \o Items(e[4]) \o Word(")")
          [] e[1] = "list" -> Word("[") \o Items(e[2]) \o Word("]")
          [] e[1] = "map" ->
               Word("{") \o Line
               \o Joined([i \in DOMAIN e[2] |-> Tokens(e[2][i][1]) \o Word(":")
                                               \o Line \o Tokens(e[2][i][2])],
                         Word(",") \o Line)
               \o Line \o Word("}")
          [] e[1] = "try" -> Tokens(e[2]) \o Word("?")
          [] e[1] = "send" -> ExprTokens(e[2], 1, style) \o Word("<-") \o Tokens(e[3])
          [] e[1] = "recv" -> Word("<-") \o ExprTokens(e[2], 5, style)
          [] e[1] = "spawn" -> Word("wo") \o Tokens(<<"call", e[2], e[3]>>)
          [] e[1] = "select" ->
               Word("select") \o Word("{")
               \o Joined([i \in DOMAIN e[2] |-> CaseTokens(e[2][i])], Word(",") \o Line)
               \o Word("}")
          [] e[1] = "match" ->
               Word("match") \o Tokens(e[2]) \o Word("{")
               \o Joined([i \in DOMAIN e[3] |-> ArmTokens(e[3][i])],
                         Word(IF style = "long" THEN "nl" ELSE ","))
               \o Word("}")

Separator(style) == Word(IF style = "long" THEN "nl" ELSE ";")

RECURSIVE Tokens(_, _)
BlockTokens(ss, style) ==
    Word("{") \o Joined([i \in DOMAIN ss |-> Tokens(ss[i], style)], Separator(style))
    \o (IF style = "long" THEN Word("nl") ELSE <<>>) \o Word("}")

Listed(parts) == Joined(parts, Word(","))
Names(xs) == Listed([i \in DOMAIN xs |-> Name(xs[i])])
\* A name and what else it goes by.
Renamed(x, y, word) == Name(x) \o IF y = "" \/ y = x THEN <<>> ELSE Word(word) \o Name(y)
Typed(x, type) == Name(x) \o IF type = "" THEN <<>> ELSE Word(":") \o Name(type)

Tokens(s, style) ==
    LET E(e) == ExprTokens(e, 0, style)
        short == style = "short"
        \* target = e, or target op= f
        Assigning(target, e) ==
            IF short /\ e[1] = "bin" /\ e[3] = target /\ e[2] \in {"+", "-", "*", "/", "%"}
            THEN E(target) \o Word(e[2] \o "=") \o E(e[4])
            ELSE E(target) \o Word("=") \o E(e)
        Lines(parts) == Joined(parts, Separator("long"))
    IN  CASE s[1] = "let" -> Word("let") \o Name(s[2]) \o Word("=") \o E(s[3])
          [] s[1] = "lettuple" ->
               Word("let") \o Word("(") \o Names(s[2]) \o Word(")") \o Word("=") \o E(s[3])
          [] s[1] = "letlist" ->
               Word("let") \o Word("[") \o Names(s[2]) \o Word("]") \o Word("=") \o E(s[3])
          [] s[1] = "letobject" ->
               Word("let") \o Word("{")
               \o Listed([i \in DOMAIN s[2] |-> Renamed(s[2][i][1], s[2][i][2], ":")])
               \o Word("}") \o Word("=") \o E(s[3])
          [] s[1] = "assign" -> Assigning(<<"var", s[2]>>, s[3])
          [] s[1] = "indexassign" -> Assigning(<<"index", s[2], s[3]>>, s[4])
          [] s[1] = "expr" -> E(s[2])
          [] s[1] = "return" ->
               Word("return") \o IF short /\ s[2] = <<"lit", <<"nil">>>> THEN <<>>
                                 ELSE E(s[2])
          [] s[1] = "func" ->
               Word("func") \o Name(s[2]) \o Word("(")
               \o Joined([i \in DOMAIN s[3] |-> Typed(s[3][i][1], s[3][i][2])], Word(","))
               \o Word(")")
               \o (IF s[4] = "" THEN <<>> ELSE Word("->") \o Name(s[4]))
               \o BlockTokens(s[5], style)
          [] s[1] = "struct" ->
               Word("struct") \o Name(s[2]) \o Word("{")
               \o Joined([i \in DOMAIN s[3] |-> Typed(s[3][i], "int")], Word(","))
               \o Word("}")
          [] s[1] = "interface" ->
               Word("interface") \o Name(s[2]) \o Word("{")
               \o Lines([i \in DOMAIN s[3] |->
                           Word("func") \o Name(s[3][i])
                           \o IF short THEN <<>> ELSE Word("(") \o Word(")")])
               \o Word("}")
          [] s[1] = "impl" ->
               Word("impl") \o Name(s[2]) \o Word("{")
               \o Lines([i \in DOMAIN s[3] |-> Tokens(s[3][i], style)]) \o Word("}")
          [] s[1] = "pub" -> Word("pub") \o Tokens(s[2], style)
          [] s[1] = "spawn" -> E(s)
          [] s[1] = "defer" -> Word("defer") \o E(s[2])
          [] s[1] = "import" -> Word("import") \o Renamed(s[2], s[3], "as")
          [] s[1] = "importfile" ->
               Word("import") \o << <<"str", s[2]>> >>
               \o IF s[3] = "" THEN <<>> ELSE Word("as") \o Name(s[3])
          [] s[1] = "from" ->
               Word("from") \o Name(s[2]) \o Word("import")
               \o Listed([i \in DOMAIN s[3] |-> Renamed(s[3][i][1], s[3][i][2], "as")])
          [] s[1] = "if" ->
               Word("if") \o E(s[2]) \o BlockTokens(s[3], style)
               \o (IF s[4] = <<"none">> THEN <<>>
                   ELSE Word("else")
                        \o IF short /\ Len(s[4][2]) = 1 /\ s[4][2][1][1] = "if"
                           THEN Tokens(s[4][2][1], style)
                           ELSE BlockTokens(s[4][2], style))
          [] s[1] = "while" -> Word("while") \o E(s[2]) \o BlockTokens(s[3], style)
          [] s[1] = "for" ->
               Word("for") \o Name(s[2]) \o Word("in") \o E(s[3]) \o BlockTokens(s[4], style)
          [] s[1] \in {"break", "continue"} -> Word(s[1])
          [] s[1] = "block" -> BlockTokens(s[2], style)

Printed(program, style) ==
    Joined([i \in DOMAIN program |-> Tokens(program[i], style)], Separator(style))
    \o << <<"eof">> >>

\* The tree with the line markers the parser puts before statements. The "if"
\* of an "else if" gets none.
RECURSIVE WithLines(_, _), WithLine(_, _)
WithLine(s, style) ==
    LET In(ss) == WithLines(ss, style)
    IN  CASE s[1] = "func" -> [s EXCEPT ![5] = In(@)]
          [] s[1] = "if" ->
               <<"if", s[2], In(s[3]),
                 IF s[4] = <<"none">> THEN s[4]
                 ELSE IF style = "short" /\ Len(s[4][2]) = 1 /\ s[4][2][1][1] = "if"
                 THEN <<"else", Tail(In(s[4][2]))>>
                 ELSE <<"else", In(s[4][2])>> >>
          [] s[1] = "while" -> [s EXCEPT ![3] = In(@)]
          [] s[1] = "for" -> [s EXCEPT ![4] = In(@)]
          [] s[1] = "block" -> [s EXCEPT ![2] = In(@)]
          [] s[1] = "impl" -> [s EXCEPT ![3] = [i \in DOMAIN @ |-> WithLine(@[i], style)]]
          [] s[1] = "pub" -> [s EXCEPT ![2] = WithLine(@, style)]
          [] OTHER -> s
WithLines(ss, style) ==
    FoldLeft(LAMBDA all, s : all \o << <<"line">>, WithLine(s, style) >>, <<>>, ss)
=============================================================================

------------------------------- MODULE Parser -------------------------------
(* The recursive-descent parser (src/parser.rs) over a sequence of tokens.    *)
(* A token is a tuple whose first element is its kind: <<"id", x>>, <<"int",  *)
(* n>>, <<"nl">>, <<"let">>, <<"(">>, ...; the last one is <<"eof">>. What    *)
(* self.pos is in the code is an argument here, and every parse_* function    *)
(* returns the position after what it read and the node it built; position 0  *)
(* stands for Err.                                                            *)
(*                                                                            *)
(* A node is a tuple too, named after ast.rs: <<"let", x, e>>, <<"bin", op,   *)
(* l, r>>, ... Left out: f-strings, float and bytes literals, and types that  *)
(* are tuples.                                                                *)
EXTENDS Integers, Sequences

VARIABLE tokens      \* Parser::tokens

At(p, kind) == tokens[p][1] = kind
Peek(p, kinds) == tokens[p][1] \in kinds

Parsed(p, node) == [pos |-> p, node |-> node]
Failed == Parsed(0, <<"error">>)

\* The ? of every call: go on after r unless it failed.
Then(r, Go(_, _)) == IF r.pos = 0 THEN Failed ELSE Go(r.pos, r.node)
\* consume
Consume(p, kind, Go(_)) == IF At(p, kind) THEN Go(p + 1) ELSE Failed
\* while self.match_token(NewLine) || self.match_token(Semicolon) {}
RECURSIVE Skip(_, _)
Skip(p, kinds) == IF Peek(p, kinds) THEN Skip(p + 1, kinds) ELSE p

\* consume_stmt_end: a statement ends at a separator, a brace or the end.
StatementEnd(p, node) ==
    CASE Peek(p, {"eof", "}"}) -> Parsed(p, node)
      [] Peek(p, {"nl", ";"}) -> Parsed(Skip(p, {"nl", ";"}), node)
      [] OTHER -> Failed

(* ---- Expressions --------------------------------------------------------- *)

\* The binary operators of parse_or, parse_and, parse_equality and parse_term,
\* loosest first. Sums and comparisons share a level.
Levels == << {"or"}, {"and"},
             {"+", "-", "==", "!=", "<", ">", "<=", ">=", "is"},
             {"*", "/", "%"} >>

RECURSIVE Level(_, _), LevelRest(_, _, _), Primary(_), Postfix(_, _),
          Items(_, _, _), Entries(_, _), Match(_), Arms(_, _), Pattern(_),
          Alternatives(_, _), SinglePattern(_), PatternItems(_, _), Expression(_),
          Select(_), SelectArms(_, _)

\* parse_expression: a send takes what is left of the arrow.
Expression(p) ==
    Then(Level(1, p),
         LAMBDA q, e :
             IF At(q, "<-") THEN Then(Expression(q + 1), LAMBDA r, v :
                                          Parsed(r, <<"send", e, v>>))
             ELSE Parsed(q, e))

Level(n, p) ==
    IF n > Len(Levels) THEN Primary(p)
    ELSE Then(Level(n + 1, p), LAMBDA q, left : LevelRest(n, q, left))

\* Mutant: operators of one level are taken from the right.
LevelRestRight(n, p, left) ==
    IF ~Peek(p, Levels[n]) THEN Parsed(p, left)
    ELSE Then(Level(n, p + 1),
              LAMBDA q, right : Parsed(q, <<"bin", tokens[p][1], left, right>>))

\* while the next token is an operator of the level: left associative.
LevelRest(n, p, left) ==
    IF ~Peek(p, Levels[n]) THEN Parsed(p, left)
    ELSE Then(Level(n + 1, p + 1),
              LAMBDA q, right :
                  LevelRest(n, q, <<"bin", tokens[p][1], left, right>>))

\* Expressions separated by commas, up to the closing bracket.
Items(p, close, items) ==
    Then(Expression(p),
         LAMBDA q, e :
             IF At(q, ",") THEN Items(q + 1, close, Append(items, e))
             ELSE Consume(q, close, LAMBDA r : Parsed(r, Append(items, e))))

List(p, close) ==
    IF At(p, close) THEN Parsed(p + 1, <<>>) ELSE Items(p, close, <<>>)

\* "-" before a literal negates it; before anything else it subtracts from 0.
Negated(p) ==
    Then(Primary(p),
         LAMBDA q, e :
             Parsed(q, IF e[1] = "lit" /\ e[2][1] = "int"
                       THEN <<"lit", <<"int", -e[2][2]>>>>
                       ELSE <<"bin", "-", <<"lit", <<"int", 0>>>>, e>>))

\* A bracket holds one expression, or a tuple if a comma follows it. What is
\* in brackets takes no postfix: the function returns at once.
Bracketed(p) ==
    IF At(p, ")") THEN Parsed(p + 1, <<"tuple", <<>>>>)
    ELSE Then(Expression(p),
              LAMBDA q, e :
                  IF ~At(q, ",") THEN Consume(q, ")", LAMBDA r : Parsed(r, e))
                  ELSE IF At(q + 1, ")") THEN Parsed(q + 2, <<"tuple", <<e>>>>)
                  ELSE Then(Items(q + 1, ")", <<e>>),
                            LAMBDA r, es : Parsed(r, <<"tuple", es>>)))

SkipLines(p) == Skip(p, {"nl"})

\* The entries of a map, up to the brace; lines may be broken between them.
Entries(p, entries) ==
    IF At(SkipLines(p), "}") THEN Parsed(SkipLines(p) + 1, <<"map", entries>>)
    ELSE Then(Expression(SkipLines(p)), LAMBDA q, key :
             Consume(q, ":", LAMBDA r :
                 Then(Expression(SkipLines(r)), LAMBDA s, value :
                     LET t == SkipLines(s)
                         all == Append(entries, <<key, value>>)
                     IN  IF At(t, ",") THEN Entries(t + 1, all)
                         ELSE Consume(t, "}", LAMBDA u : Parsed(u, <<"map", all>>)))))

\* What follows "wo": a call; a method becomes a field that is called.
Spawned(r) ==
    Then(r, LAMBDA q, e :
        CASE e[1] = "call" -> Parsed(q, <<"spawn", e[2], e[3]>>)
          [] e[1] = "method" ->
               Parsed(q, <<"spawn", <<"index", e[2], <<"lit", <<"str", e[3]>>>>>>, e[4]>>)
          [] OTHER -> Failed)

Primary(p) ==
    CASE At(p, "match") -> Match(p + 1)
      [] At(p, "select") -> Select(p + 1)
      [] At(p, "<-") -> Then(Primary(p + 1),
                             LAMBDA q, e : Parsed(q, <<"recv", e>>))
      [] At(p, "wo") -> Spawned(Primary(p + 1))
      [] At(p, "[") -> Then(List(p + 1, "]"), LAMBDA q, es : Parsed(q, <<"list", es>>))
      [] At(p, "{") -> Entries(p + 1, <<>>)
      [] At(p, "-") -> Negated(p + 1)
      [] At(p, "not") -> Then(Primary(p + 1),
                              LAMBDA q, e : Parsed(q, <<"not", e>>))
      [] At(p, "(") -> Bracketed(p + 1)
      [] Peek(p, {"int", "str"}) -> Postfix(p + 1, <<"lit", tokens[p]>>)
      [] At(p, "true") -> Postfix(p + 1, <<"lit", <<"bool", TRUE>>>>)
      [] At(p, "false") -> Postfix(p + 1, <<"lit", <<"bool", FALSE>>>>)
      [] At(p, "nil") -> Postfix(p + 1, <<"lit", <<"nil">>>>)
      [] At(p, "id") -> Postfix(p + 1, <<"var", tokens[p][2]>>)
      [] OTHER -> Failed

\* The loop over calls, indices and fields that follow an atom.
Postfix(p, e) ==
    CASE At(p, "(") ->
           Then(List(p + 1, ")"), LAMBDA q, args : Postfix(q, <<"call", e, args>>))
      [] At(p, "[") ->
           Then(Expression(p + 1),
                LAMBDA q, i : Consume(q, "]",
                                      LAMBDA r : Postfix(r, <<"index", e, i>>)))
      [] At(p, ".") ->
           IF ~At(p + 1, "id") THEN Failed
           ELSE LET name == tokens[p + 1][2]
                IN  IF At(p + 2, "(")
                    THEN Then(List(p + 3, ")"), LAMBDA q, args :
                             Postfix(q, <<"method", e, name, args>>))
                    ELSE Postfix(p + 2, <<"index", e, <<"lit", <<"str", name>>>>>>)
      [] At(p, "?") -> Postfix(p + 1, <<"try", e>>)
      [] OTHER -> Parsed(p, e)

(* ---- match and its patterns ---------------------------------------------- *)

Match(p) ==
    Then(Expression(p),
         LAMBDA q, subject :
             Consume(SkipLines(q), "{",
                     LAMBDA r : Then(Arms(Skip(r, {"nl", ";"}), <<>>),
                                     LAMBDA s, arms :
                                         Parsed(s, <<"match", subject, arms>>))))

\* parse_match_arm: pattern, guard, body; a missing guard is <<"none">>.
Arm(p) ==
    Then(Pattern(p),
         LAMBDA q, pattern :
             Then(IF At(q, "if") THEN Expression(q + 1) ELSE Parsed(q, <<"none">>),
                  LAMBDA r, guard :
                      Consume(r, "=>",
                              LAMBDA s : Then(Expression(SkipLines(s)),
                                  LAMBDA t, body :
                                      Parsed(t, <<pattern, guard, body>>)))))

Arms(p, arms) ==
    IF At(p, "}") THEN Parsed(p + 1, arms)
    ELSE Then(Arm(p), LAMBDA q, arm : Arms(Skip(q, {",", "nl", ";"}), Append(arms, arm)))

\* parse_pattern: alternatives separated by "|".
Pattern(p) ==
    Then(SinglePattern(SkipLines(p)),
         LAMBDA q, first : IF At(q, "|") THEN Alternatives(q, <<first>>)
                           ELSE Parsed(q, first))

Alternatives(p, ps) ==
    IF ~At(p, "|") THEN Parsed(p, <<"por", ps>>)
    ELSE Then(SinglePattern(SkipLines(p + 1)),
              LAMBDA q, next : Alternatives(q, Append(ps, next)))

PatternItems(p, items) ==
    Then(Pattern(p),
         LAMBDA q, item :
             IF At(q, ",") THEN PatternItems(q + 1, Append(items, item))
             ELSE Consume(q, ")",
                          LAMBDA r : Parsed(r, <<"ptuple", Append(items, item)>>)))

RangePattern(p, inclusive) ==
    IF At(p + 2, "int")
    THEN Parsed(p + 3, <<"prange", tokens[p][2], tokens[p + 2][2], inclusive>>)
    ELSE Failed

SinglePattern(p) ==
    CASE At(p, "(") -> IF At(p + 1, ")") THEN Parsed(p + 2, <<"ptuple", <<>>>>)
                       ELSE PatternItems(p + 1, <<>>)
      [] At(p, "id") /\ tokens[p][2] = "_" -> Parsed(p + 1, <<"wild">>)
      [] At(p, "id") /\ tokens[p][2] # "_" ->
           IF ~At(p + 1, ":") THEN Parsed(p + 1, <<"pvar", tokens[p][2]>>)
           ELSE IF At(p + 2, "id")
                THEN Parsed(p + 3, <<"ptype", tokens[p][2], tokens[p + 2][2]>>)
                ELSE Failed
      [] At(p, "int") ->
           CASE At(p + 1, "..=") -> RangePattern(p, TRUE)
             [] At(p + 1, "..") -> RangePattern(p, FALSE)
             [] OTHER -> Parsed(p + 1, <<"plit", <<"int", tokens[p][2]>>>>)
      [] At(p, "str") -> Parsed(p + 1, <<"plit", tokens[p]>>)
      [] At(p, "true") -> Parsed(p + 1, <<"plit", <<"bool", TRUE>>>>)
      [] At(p, "false") -> Parsed(p + 1, <<"plit", <<"bool", FALSE>>>>)
      [] At(p, "nil") -> Parsed(p + 1, <<"plit", <<"nil">>>>)
      [] OTHER -> Failed

(* ---- select -------------------------------------------------------------- *)

Select(p) ==
    Consume(SkipLines(p), "{",
            LAMBDA q : Then(SelectArms(Skip(q, {"nl", ";"}), <<>>),
                            LAMBDA r, arms : Parsed(r, <<"select", arms>>)))

\* "=>" and the body of a case.
CaseBody(p, case) ==
    Consume(p, "=>", LAMBDA q :
        Then(Expression(SkipLines(q)), LAMBDA r, body : Parsed(r, Append(case, body))))

\* parse_select_arm: a name before an arrow receives, whatever the name is.
SelectArm(p) ==
    CASE At(p, "default") -> CaseBody(p + 1, <<"default">>)
      [] At(p, "<-") -> Then(Expression(p + 1), LAMBDA q, e :
                                 CaseBody(q, <<"recv", "_", e>>))
      [] ~Peek(p, {"default", "<-", "eof"}) /\ At(p + 1, "<-") ->
           IF ~At(p, "id") THEN Failed
           ELSE Then(Expression(p + 2), LAMBDA q, e :
                    CaseBody(q, <<"recv", tokens[p][2], e>>))
      [] OTHER ->
           Then(Expression(p), LAMBDA q, e :
               IF e[1] = "send" THEN CaseBody(q, e) ELSE Failed)

SelectArms(p, arms) ==
    IF At(p, "}") THEN Parsed(p + 1, arms)
    ELSE Then(SelectArm(p), LAMBDA q, arm :
             SelectArms(Skip(q, {",", "nl", ";"}), Append(arms, arm)))

(* ---- Statements ---------------------------------------------------------- *)

RECURSIVE Statement(_), Statements(_, _, _), If(_), Names(_, _), Params(_, _),
          Fields(_, _), Properties(_, _), Methods(_, _), Signatures(_, _), Symbols(_, _)

\* Statements up to the token that closes them, each behind its Stmt::Line.
Statements(p, close, ss) ==
    CASE At(p, close) -> Parsed(p, ss)
      [] Peek(p, {"nl", ";"}) -> Statements(p + 1, close, ss)
      [] OTHER -> Then(Statement(p),
                       LAMBDA q, s :
                           Statements(q, close, ss \o << <<"line">>, s >>))

\* parse_block
Block(p) ==
    Consume(p, "{",
            LAMBDA q : Then(Statements(q, "}", <<>>),
                            LAMBDA r, ss : Parsed(r + 1, ss)))

\* parse_if. A missing else is <<"none">>, else if a branch of one statement.
If(p) ==
    Then(Expression(p),
         LAMBDA q, c :
             Then(Block(q),
                  LAMBDA r, yes :
                      IF ~At(r, "else") THEN Parsed(r, <<"if", c, yes, <<"none">>>>)
                      ELSE IF At(r + 1, "if")
                      THEN Then(If(r + 2), LAMBDA t, inner :
                               Parsed(t, <<"if", c, yes, <<"else", <<inner>>>>>>))
                      ELSE Then(Block(r + 1), LAMBDA t, no :
                               Parsed(t, <<"if", c, yes, <<"else", no>>>>))))

\* Identifiers separated by commas.
Names(p, xs) ==
    IF ~At(p, "id") THEN Failed
    ELSE IF At(p + 1, ",") THEN Names(p + 2, Append(xs, tokens[p][2]))
    ELSE Parsed(p + 1, Append(xs, tokens[p][2]))
\* The same between brackets, where there may be none.
NameList(p, close) ==
    IF At(p, close) THEN Parsed(p + 1, <<>>)
    ELSE Then(Names(p, <<>>), LAMBDA q, xs : Consume(q, close, LAMBDA r : Parsed(r, xs)))

\* The properties of a destructured object: <<property, variable>>.
Properties(p, fs) ==
    LET renamed == At(p + 1, ":")
        q == IF renamed THEN p + 3 ELSE p + 1
        all == Append(fs, <<tokens[p][2], IF renamed THEN tokens[p + 2][2]
                                          ELSE tokens[p][2]>>)
    IN  IF ~At(p, "id") \/ (renamed /\ ~At(p + 2, "id")) THEN Failed
        ELSE IF At(q, ",") THEN Properties(q + 1, all) ELSE Parsed(q, all)

\* Parameters: <<name, type>>, with type "" where none is written.
Params(p, ps) ==
    IF ~At(p, "id") THEN Failed
    ELSE LET typed == At(p + 1, ":")
             q == IF typed THEN p + 3 ELSE p + 1
             param == <<tokens[p][2], IF typed THEN tokens[p + 2][2] ELSE "">>
         IN  IF typed /\ ~At(p + 2, "id") THEN Failed
             ELSE IF At(q, ",") THEN Params(q + 1, Append(ps, param))
             ELSE Consume(q, ")", LAMBDA r : Parsed(r, Append(ps, param)))

\* parse_function, after the keyword.
Function(p) ==
    IF ~At(p, "id") THEN Failed
    ELSE Consume(p + 1, "(", LAMBDA q :
           Then(IF At(q, ")") THEN Parsed(q + 1, <<>>) ELSE Params(q, <<>>),
                LAMBDA r, params :
                    LET typed == At(r, "->")
                    IN  IF typed /\ ~At(r + 1, "id") THEN Failed
                        ELSE Then(Block(IF typed THEN r + 2 ELSE r),
                                  LAMBDA s, body :
                                      Parsed(s, <<"func", tokens[p][2], params,
                                                  IF typed THEN tokens[r + 1][2]
                                                  ELSE "", body>>))))

\* The fields of parse_struct: name ":" type, separated by "," and lines.
Fields(p, fs) ==
    CASE At(p, "}") -> Parsed(p + 1, fs)
      [] At(p, "nl") -> Fields(p + 1, fs)
      [] OTHER -> IF At(p, "id") /\ At(p + 1, ":") /\ At(p + 2, "id")
                  THEN Fields(Skip(p + 3, {"nl", ","}), Append(fs, tokens[p][2]))
                  ELSE Failed

\* "=" and a value: the end of a let, behind which no terminator is required.
Bound(p, kind, names) ==
    Consume(p, "=", LAMBDA q :
        Then(Expression(q), LAMBDA r, e : Parsed(r, <<kind, names, e>>)))

\* parse_let, after the keyword.
LetStatement(p) ==
    CASE At(p, "(") -> Then(NameList(p + 1, ")"), LAMBDA q, xs : Bound(q, "lettuple", xs))
      [] At(p, "[") -> Then(NameList(p + 1, "]"), LAMBDA q, xs : Bound(q, "letlist", xs))
      [] At(p, "{") ->
           Then(IF At(p + 1, "}") THEN Parsed(p + 1, <<>>) ELSE Properties(p + 1, <<>>),
                LAMBDA q, fs : Consume(q, "}", LAMBDA r : Bound(r, "letobject", fs)))
      [] At(p, "id") -> Bound(p + 1, "let", tokens[p][2])
      [] OTHER -> Failed

\* The methods of an impl block.
Methods(p, ms) ==
    LET q == SkipLines(p)
    IN  CASE At(q, "}") -> Parsed(q + 1, ms)
          [] At(q, "func") -> Then(Function(q + 1), LAMBDA r, f : Methods(r, Append(ms, f)))
          [] OTHER -> Failed

\* The methods an interface asks for: names, with or without "()".
Signatures(p, ms) ==
    LET q == SkipLines(p)
        end == IF At(q + 2, "(") THEN q + 4 ELSE q + 2
    IN  CASE At(q, "}") -> Parsed(q + 1, ms)
          [] At(q, "func") /\ At(q + 1, "id") /\ (At(q + 2, "(") => At(q + 3, ")")) ->
               Signatures(Skip(end, {"nl", ","}), Append(ms, tokens[q + 1][2]))
          [] OTHER -> Failed

\* A name and a block in braces: struct, impl and interface.
Declaration(p, kind, Body(_)) ==
    IF ~At(p, "id") THEN Failed
    ELSE Consume(p + 1, "{", LAMBDA q :
             Then(Body(q), LAMBDA r, parts : Parsed(r, <<kind, tokens[p][2], parts>>)))

(* ---- Imports ------------------------------------------------------------- *)

\* An optional "as name".
Alias(p, Go(_, _)) ==
    IF ~At(p, "as") THEN Go(p, "")
    ELSE IF At(p + 1, "id") THEN Go(p + 2, tokens[p + 1][2]) ELSE Failed

Import(p) ==
    CASE At(p, "str") -> Alias(p + 1, LAMBDA q, x :
                             StatementEnd(q, <<"importfile", tokens[p][2], x>>))
      [] At(p, "id") -> Alias(p + 1, LAMBDA q, x :
                            StatementEnd(q, <<"import", tokens[p][2], x>>))
      [] OTHER -> Failed

Symbols(p, xs) ==
    IF ~At(p, "id") THEN Failed
    ELSE Alias(p + 1, LAMBDA q, x :
             LET all == Append(xs, <<tokens[p][2], x>>)
             IN  IF At(q, ",") THEN Symbols(q + 1, all) ELSE Parsed(q, all))

FromImport(p) ==
    IF ~Peek(p, {"str", "id"}) THEN Failed
    ELSE Consume(p + 1, "import", LAMBDA q :
             Then(Symbols(q, <<>>), LAMBDA r, xs :
                 StatementEnd(r, <<"from", tokens[p][2], xs>>)))

\* The operator of a compound assignment token.
Compound == [t \in {"+=", "-=", "*=", "/=", "%="} |->
               CASE t = "+=" -> "+" [] t = "-=" -> "-" [] t = "*=" -> "*"
                 [] t = "/=" -> "/" [] t = "%=" -> "%"]

\* An expression, or an assignment to a variable or to an index. A compound
\* assignment reads its target by the same expression.
ExpressionStatement(p) ==
    Then(Expression(p),
         LAMBDA q, e :
             IF Peek(q, {"="} \cup DOMAIN Compound)
             THEN Then(Expression(q + 1),
                       LAMBDA r, v :
                           LET w == IF At(q, "=") THEN v
                                    ELSE <<"bin", Compound[tokens[q][1]], e, v>>
                           IN  CASE e[1] = "var" -> StatementEnd(r, <<"assign", e[2], w>>)
                                 [] e[1] = "index" ->
                                      StatementEnd(r, <<"indexassign", e[2], e[3], w>>)
                                 [] OTHER -> Failed)
             ELSE StatementEnd(q, <<"expr", e>>))

ForStatement(p) ==
    IF ~At(p, "id") THEN Failed
    ELSE Consume(p + 1, "in", LAMBDA q :
             Then(Expression(q), LAMBDA r, e :
                 Then(Block(r), LAMBDA s, ss : Parsed(s, <<"for", tokens[p][2], e, ss>>))))

\* A statement that ends at a separator.
Ended(r) == Then(r, LAMBDA q, s : StatementEnd(q, s))

Statement(p) ==
    CASE At(p, "pub") ->
           IF Peek(p + 1, {"func", "struct", "interface", "let"})
           THEN Then(Statement(p + 1), LAMBDA q, s : Parsed(q, <<"pub", s>>))
           ELSE Failed
      [] At(p, "{") -> Then(Block(p), LAMBDA q, ss : Parsed(q, <<"block", ss>>))
      [] At(p, "func") -> Function(p + 1)
      [] At(p, "struct") -> Declaration(p + 1, "struct", LAMBDA q : Fields(q, <<>>))
      [] At(p, "impl") -> Declaration(p + 1, "impl", LAMBDA q : Methods(q, <<>>))
      [] At(p, "interface") ->
           Declaration(p + 1, "interface", LAMBDA q : Signatures(q, <<>>))
      [] At(p, "let") -> LetStatement(p + 1)
      [] At(p, "return") ->
           IF Peek(p + 1, {"nl", ";", "}", "eof"})
           THEN StatementEnd(p + 1, <<"return", <<"lit", <<"nil">>>>>>)
           ELSE Then(Expression(p + 1),
                     LAMBDA q, e : StatementEnd(q, <<"return", e>>))
      [] At(p, "if") -> If(p + 1)
      [] At(p, "while") ->
           Then(Expression(p + 1), LAMBDA q, c :
               Then(Block(q), LAMBDA r, ss : Parsed(r, <<"while", c, ss>>)))
      [] At(p, "for") -> ForStatement(p + 1)
      [] Peek(p, {"break", "continue"}) -> StatementEnd(p + 1, tokens[p])
      [] At(p, "import") -> Import(p + 1)
      [] At(p, "from") -> FromImport(p + 1)
      [] At(p, "wo") -> Ended(Spawned(Primary(p + 1)))
      [] At(p, "defer") ->
           Ended(Then(Expression(p + 1), LAMBDA q, e :
               IF e[1] \in {"call", "method"} THEN Parsed(q, <<"defer", e>>) ELSE Failed))
      [] OTHER -> ExpressionStatement(p)

\* Parser::parse: the statements of the file, or <<"error">>.
Parse == Statements(1, "eof", <<>>)
=============================================================================

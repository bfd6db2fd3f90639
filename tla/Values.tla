-------------------------------- MODULE Values --------------------------------
(* Operations on values and on the objects of the heap that need no task      *)
(* (src/vm.rs, src/value.rs, src/stdlib/mod.rs). A value is a tuple           *)
(* <<kind, ...>>: <<"int", n>>, <<"bool", b>>, <<"nil">>, <<"str", s>>,       *)
(* <<"tuple", vs>>, <<"range", start, end, step>>, <<"native", name>> and     *)
(* <<"ref", id>>, a reference to heap[id]. An object is a record with its     *)
(* kind: a list, a map, a struct, an instance of one, an interface, ...       *)
(*                                                                            *)
(* Integers are those of TLA+: the programs stay far from 64 bits, and from   *)
(* floats, bytes and the + of strings.                                        *)
EXTENDS Integers, Sequences, FiniteSets, SequencesExt

Error == <<"error">>

\* Division of i64 truncates toward zero, and the remainder goes with it.
Abs(n) == IF n < 0 THEN -n ELSE n
Quotient(m, n) ==
    LET q == Abs(m) \div Abs(n) IN IF (m < 0) # (n < 0) THEN -q ELSE q
Remainder(m, n) == m - n * Quotient(m, n)

Arithmetic(op, m, n) ==
    CASE op = "+" -> <<"int", m + n>>
      [] op = "-" -> <<"int", m - n>>
      [] op = "*" -> <<"int", m * n>>
      [] op = "/" -> IF n = 0 THEN Error ELSE <<"int", Quotient(m, n)>>
      [] op = "%" -> IF n = 0 THEN Error ELSE <<"int", Remainder(m, n)>>
      [] op = "<" -> <<"bool", m < n>>
      [] op = ">" -> <<"bool", m > n>>
      [] op = "<=" -> <<"bool", m <= n>>
      [] op = ">=" -> <<"bool", m >= n>>
      [] OTHER -> Error

\* PartialEq of Value: tuples are equal to nothing, not even to themselves.
Equal(v, w) == v[1] = w[1] /\ v[1] # "tuple" /\ v = w

\* Neither "and" nor "or" skips its right side: both are on the stack.
Binary(op, v, w) ==
    CASE op = "==" -> <<"bool", Equal(v, w)>>
      [] op \in {"and", "or"} /\ v[1] = "bool" /\ w[1] = "bool" ->
           <<"bool", IF op = "and" THEN v[2] /\ w[2] ELSE v[2] \/ w[2]>>
      [] v[1] = "int" /\ w[1] = "int" /\ op \notin {"and", "or"} ->
           Arithmetic(op, v[2], w[2])
      [] OTHER -> Error

\* The natives of stdlib/mod.rs the programs use.
Native(name, args) ==
    CASE name = "int" ->
           IF Len(args) > 0 /\ args[1][1] = "int" THEN args[1]
           ELSE IF Len(args) > 0 /\ args[1][1] = "bool"
           THEN <<"int", IF args[1][2] THEN 1 ELSE 0>>
           ELSE <<"int", 0>>
      [] name = "bool" ->
           CASE Len(args) = 0 -> <<"bool", FALSE>>
             [] Len(args) > 0 /\ args[1][1] \in {"bool", "int", "nil"} ->
                  <<"bool", args[1] \notin {<<"int", 0>>, <<"nil">>,
                                            <<"bool", FALSE>>}>>
             [] OTHER -> <<"bool", TRUE>>
      [] name = "range" ->
           IF /\ Len(args) \in 1..3
              /\ \A i \in DOMAIN args : args[i][1] = "int"
              /\ Len(args) = 3 => args[3][2] # 0
           THEN <<"range", IF Len(args) = 1 THEN 0 ELSE args[1][2],
                           IF Len(args) = 1 THEN args[1][2] ELSE args[2][2],
                           IF Len(args) = 3 THEN args[3][2] ELSE 1>>
           ELSE <<"nil">>

\* f with its value at x set to v, whether or not it had one.
Set(f, x, v) == [y \in DOMAIN f \cup {x} |-> IF y = x THEN v ELSE f[y]]
Without(f, x) == [y \in DOMAIN f \ {x} |-> f[y]]
\* The entry of a map or a field, nil if there is none.
Get(f, x) == IF x \in DOMAIN f THEN f[x] ELSE <<"nil">>

\* The object v refers to, or one of no kind.
Object(heap, v) == IF v[1] = "ref" THEN heap[v[2]] ELSE [kind |-> "none"]
HasKind(heap, v, kind) == Object(heap, v).kind = kind

\* is_type_match: a native conversion, a struct, an interface or the name of a
\* type.
IsOfType(heap, v, type) ==
    CASE type[1] = "native" -> v[1] = type[2] /\ type[2] \in {"int", "bool"}
      [] type[1] = "str" ->
           \/ v[1] = type[2] /\ type[2] \in {"int", "str", "bool", "tuple"}
           \/ type[2] \in {"list", "map"} /\ HasKind(heap, v, type[2])
           \/ type[2] = "func" /\ HasKind(heap, v, "closure")
      [] type[1] = "ref" ->
           /\ HasKind(heap, v, "instance")
           /\ LET struct == Object(heap, v).struct
              IN  \/ struct = type[2]
                  \/ /\ HasKind(heap, type, "interface")
                     /\ heap[type[2]].required \subseteq DOMAIN heap[struct].methods
      [] OTHER -> FALSE

\* The key of a map that an index stands for: a string itself, anything else as
\* it is displayed; so m[1] and m["1"] are one entry.
Key(v) ==
    CASE v[1] = "str" -> v[2]
      [] v[1] = "int" -> ToString(v[2])
      [] v[1] = "bool" -> IF v[2] THEN "true" ELSE "false"
      [] v[1] = "nil" -> "nil"

\* IndexGet.
Index(heap, v, i) ==
    LET object == Object(heap, v)
        Item(items) == IF i[2] \in 0..(Len(items) - 1) THEN items[i[2] + 1] ELSE Error
    IN  CASE v[1] = "tuple" /\ i[1] = "int" -> Item(v[2])
          [] object.kind = "list" /\ i[1] = "int" -> Item(object.items)
          [] object.kind = "map" -> Get(object.fields, Key(i))
          [] object.kind = "instance" /\ i[1] = "str" -> Get(object.fields, i[2])
          [] OTHER -> Error

\* IndexSet: whether it is possible, and the heap after it.
CanSet(heap, v, i) ==
    LET object == Object(heap, v)
    IN  \/ object.kind = "list" /\ i[1] = "int" /\ i[2] \in 0..(Len(object.items) - 1)
        \/ object.kind = "map"
        \/ object.kind = "instance" /\ i[1] = "str"
WithIndex(heap, v, i, w) ==
    IF HasKind(heap, v, "list") THEN [heap EXCEPT ![v[2]].items[i[2] + 1] = w]
    ELSE [heap EXCEPT ![v[2]].fields = Set(@, Key(i), w)]

\* UnpackTuple, UnpackList and UnpackObject. A list may be longer than the
\* names, a field may be missing.
CanUnpack(heap, v, what, names) ==
    CASE what = "tuple" -> v[1] = "tuple" /\ Len(v[2]) = Len(names)
      [] what = "list" -> /\ HasKind(heap, v, "list")
                          /\ Len(Object(heap, v).items) >= Len(names)
      [] what = "object" -> Object(heap, v).kind \in {"map", "instance"}
Unpacked(heap, v, what, names) ==
    CASE what = "tuple" -> v[2]
      [] what = "list" -> SubSeq(Object(heap, v).items, 1, Len(names))
      [] what = "object" -> [k \in DOMAIN names |-> Get(Object(heap, v).fields, names[k])]

\* IterNext: a range or a list, whose length is looked up in every round.
Iterable(heap, v) == v[1] = "range" \/ HasKind(heap, v, "list")
RangeItem(range, i) == range[2] + i * range[4]
HasItem(heap, v, i) ==
    IF v[1] # "range" THEN i < Len(Object(heap, v).items)
    ELSE IF v[4] > 0 THEN RangeItem(v, i) < v[3] ELSE RangeItem(v, i) > v[3]
ItemAt(heap, v, i) ==
    IF v[1] = "range" THEN <<"int", RangeItem(v, i)>> ELSE Object(heap, v).items[i + 1]

\* call_method of a tuple, a list or a map: the value it returns, Error if
\* there is no such method, and what becomes of the object.
Method(heap, v, name, args) ==
    LET object == Object(heap, v)
        items == object.items
        fields == object.fields
        Gives(w, o) == [v |-> w, object |-> o]
        n == Len(args)
    IN  CASE v[1] = "tuple" /\ name = "len" -> Gives(<<"int", Len(v[2])>>, object)
          [] object.kind = "list" /\ name = "len" -> Gives(<<"int", Len(items)>>, object)
          [] object.kind = "list" /\ name = "push" /\ n = 1 ->
               Gives(<<"nil">>, [object EXCEPT !.items = Append(@, args[1])])
          [] object.kind = "list" /\ name = "pop" ->
               IF items = <<>> THEN Gives(<<"nil">>, object)
               ELSE Gives(items[Len(items)], [object EXCEPT !.items = Front(@)])
          [] object.kind = "list" /\ name = "reverse" ->
               Gives(<<"nil">>, [object EXCEPT !.items = Reverse(@)])
          [] object.kind = "list" /\ name = "clear" ->
               Gives(<<"nil">>, [object EXCEPT !.items = <<>>])
          [] object.kind = "list" /\ name = "contains" /\ n = 1 ->
               Gives(<<"bool", \E i \in DOMAIN items : Equal(items[i], args[1])>>, object)
          [] object.kind = "map" /\ name = "len" ->
               Gives(<<"int", Cardinality(DOMAIN fields)>>, object)
          [] object.kind = "map" /\ name = "remove" /\ n = 1 /\ args[1][1] = "str" ->
               Gives(Get(fields, args[1][2]), [object EXCEPT !.fields = Without(@, args[1][2])])
          [] OTHER -> Gives(Error, object)
=============================================================================

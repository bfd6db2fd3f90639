------------------------------- MODULE Language -------------------------------
(* A program on its way through parser, compiler and machine: it is written   *)
(* down as tokens, parsed, compiled, and run instruction by instruction. What *)
(* it computes is compared with what module Meaning says of its tree.         *)
EXTENDS Machine

CONSTANTS
    Programs,   \* the programs, as sequences of statements without lines
    Texts,      \* programs that are only parsed
    Styles      \* the ways of writing them down: a subset of {"long", "short"}

VARIABLES
    program,    \* the program
    style,      \* how it is written down
    tokens      \* what the parser reads; dropped once it has

vars == <<program, style, tokens, machine>>

Par == INSTANCE Parser
Com == INSTANCE Compiler
Prn == INSTANCE Printer
Ref == INSTANCE Meaning

Init ==
    /\ program \in Programs \cup Texts
    /\ style \in Styles
    /\ tokens = Prn!Printed(program, style)
    /\ MachineInit

\* run_file: parse, compile, hand the code to a machine.
Load ==
    /\ status = "idle"
    /\ program \in Programs
    /\ Par!Parse.pos # 0
    /\ Start(Com!Compile(Par!Parse.node))
    /\ tokens' = <<>>
    /\ UNCHANGED <<program, style>>

Execute == Step /\ UNCHANGED <<program, style, tokens>>

Ended == status \in {"done", "failed"}
Rest == (Ended \/ program \in Texts) /\ UNCHANGED vars

Next == Load \/ Execute \/ Rest

\* The thread that runs the program keeps executing instructions.
Spec == Init /\ [][Next]_vars /\ WF_vars(Execute)

(* ---- Properties ---------------------------------------------------------- *)

\* The value v of the machine stands for the value w of module Meaning, whose
\* objects are h.
RECURSIVE Denotes(_, _, _)
AllDenote(vs, ws, h) ==
    DOMAIN vs = DOMAIN ws /\ \A x \in DOMAIN vs : Denotes(vs[x], ws[x], h)
ObjectDenotes(o, m, h) ==
    CASE o.kind = "list" -> AllDenote(o.items, m.items, h)
      [] o.kind \in {"map", "instance"} -> AllDenote(o.fields, m.fields, h)
      [] o.kind = "struct" -> o.fields = m.fields /\ DOMAIN o.methods = DOMAIN m.methods
      [] o.kind = "interface" -> o.required = m.required
      [] o.kind = "closure" -> o.arity = Len(m.params)
Denotes(v, w, h) ==
    CASE v[1] = "tuple" -> w[1] = "tuple" /\ AllDenote(v[2], w[2], h)
      [] v[1] = "ref" -> /\ HasKind(h, w, heap[v[2]].kind)
                         /\ ObjectDenotes(heap[v[2]], Object(h, w), h)
      [] OTHER -> v = w

\* Parsing undoes printing: precedence, associativity, brackets, postfixes,
\* negative literals, compound assignments, else if, separators and patterns
\* come back as the tree the program was written from (parser.rs).
ParsesAsWritten ==
    status = "idle" => Par!Parse.node = Prn!WithLines(program, style)

\* Where a statement starts, the stack of the frame holds exactly the locals
\* the compiler counts there, whatever branches, breaks, returns and calls led
\* to it: slots are the right ones, and no value is lost or left over
\* (compiler.rs, the scopes and loops).
SlotsMatchLocals ==
    At("SetLine") => Len(stack) = Frame.offset + A

\* The compiled program computes what its tree means: it fails exactly when
\* its meaning is an error, and otherwise leaves the globals its meaning does.
RunsAsWritten ==
    Ended =>
        LET outcome == Ref!Outcome(program)
        IN  /\ status = "failed" <=> outcome.how = "error"
            /\ status = "done" =>
                 /\ DOMAIN globals = DOMAIN outcome.env.g
                 /\ \A x \in DOMAIN globals : Denotes(globals[x], outcome.env.g[x], outcome.env.h)

\* A program that has been loaded comes to its end: no jump of the compiled
\* code goes back to where the loop of the source would have ended.
Terminates == status = "running" ~> Ended
=============================================================================

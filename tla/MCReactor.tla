----------------------------- MODULE MCReactor ------------------------------
(* A server: r accepts and reads, w writes all, c writes or closes. *)
EXTENDS Reactor

CONSTANTS r, w, c

MCKinds == [t \in Tasks |-> CASE t = r -> {"accept", "read"}
                              [] t = w -> {"write_all"}
                              [] t = c -> {"write", "close"}]

MCMessage == <<1, 2>>

MCMaxOps == [t \in Tasks |-> IF t = r THEN 2 ELSE 1]
=============================================================================

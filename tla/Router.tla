-------------------------------- MODULE Router --------------------------------
(* The router of the http module: a tree of maps that use, group, get, post,  *)
(* ..., handle, static, not_found and method_not_allowed fill (value.rs), and *)
(* that match_route and the Whalli routines around it consult for a request   *)
(* (stdlib/http.rs).                                                          *)
(*                                                                            *)
(* A path is the sequence of its segments: registration trims the slashes at  *)
(* both ends, and a lookup tries a path with and without the last one.        *)
EXTENDS Integers, Sequences, FiniteSets, SequencesExt

Root == 0                    \* the owner of a route that belongs to no group
Parameter == ":id"           \* a segment that matches any other
Wildcard == "*filepath"      \* a last segment that matches what remains
StandardMethods == {"GET", "POST", "PUT", "DELETE", "PATCH", "HEAD", "OPTIONS"}

VARIABLES
    global,     \* router["middlewares"]
    groups,     \* each with its full prefix and its own middlewares
    routes,     \* router["routes"]: method and path to handler
    attached,   \* router["route_middlewares"]: path to middlewares
    custom,     \* whether "not_found" and "method_not_allowed" are set
    scopes,     \* the middlewares declared for the root and for each group
    declared    \* every route declared so far and the middlewares it was in scope of

routerVars == <<global, groups, routes, attached, custom, scopes, declared>>

RouterInit ==
    /\ global = <<>>
    /\ groups = <<>>
    /\ routes = <<>>
    /\ attached = <<>>
    /\ custom = {}
    /\ scopes = <<{}>>
    /\ declared = <<>>

(* ---- Setting it up ------------------------------------------------------- *)

Owners == 0..Len(groups)
Prefix(o) == IF o = Root THEN <<>> ELSE groups[o].prefix
Own(o) == IF o = Root THEN global ELSE groups[o].middlewares

Use(o, m) ==
    /\ IF o = Root
       THEN /\ global' = Append(global, m)
            /\ UNCHANGED groups
       ELSE /\ groups' = [groups EXCEPT ![o].middlewares = Append(@, m)]
            /\ UNCHANGED global
    /\ scopes' = [scopes EXCEPT ![o + 1] = @ \cup {m}]
    /\ UNCHANGED <<routes, attached, custom, declared>>

\* A group starts with a copy of the middlewares of what it is a group of.
Group(o, prefix) ==
    /\ groups' = Append(groups, [prefix |-> Prefix(o) \o prefix, middlewares |-> Own(o)])
    /\ scopes' = Append(scopes, scopes[o + 1])
    /\ UNCHANGED <<global, routes, attached, custom, declared>>

\* A map with one value for some keys, whatever it had for them.
Put(map, keys, value) ==
    [k \in keys \cup DOMAIN map |-> IF k \in keys THEN value ELSE map[k]]

\* find_root_router_and_path: the middlewares of the root come first, though
\* it runs them for every request and a group has a copy of them.
InForce(o) == IF o = Root THEN global ELSE global \o Own(o)

Attached(paths, o) ==
    IF InForce(o) = <<>> THEN attached ELSE Put(attached, paths, InForce(o))

\* register_router_route, for several methods and paths at once.
Register(o, methods, paths, handler) ==
    LET full == {Prefix(o) \o p : p \in paths}
    IN  /\ routes' = Put(routes, methods \X full, handler)
        /\ attached' = Attached(full, o)
        /\ declared' = Append(declared, [methods |-> methods, paths |-> full,
                                         handler |-> handler, scope |-> scopes[1] \cup scopes[o + 1]])
        /\ UNCHANGED <<global, groups, custom, scopes>>

Route(o, method, path, handler) == Register(o, {method}, {path}, handler)

\* The directory itself and everything below it.
Static(o, path) == Register(o, {"GET", "HEAD"}, {path, path \o <<Wildcard>>} \ {<<>>}, "files")

SetCustom(which) ==
    /\ custom' = custom \cup {which}
    /\ UNCHANGED <<global, groups, routes, attached, scopes, declared>>

(* ---- Looking a request up ------------------------------------------------ *)

IsWild(p) == p # <<>> /\ Last(p) = Wildcard
SegmentsMatch(p, t, n) == \A i \in 1..n : p[i] \in {Parameter, t[i]}

\* Mutant: a wildcard needs at least one segment.
WildMatchesSome(p, t) ==
    IsWild(p) /\ Len(t) >= Len(p) /\ SegmentsMatch(p, t, Len(p) - 1)

WildMatches(p, t) ==
    IsWild(p) /\ Len(t) >= Len(p) - 1 /\ SegmentsMatch(p, t, Len(p) - 1)

ParameterMatches(p, t) == ~IsWild(p) /\ Len(t) = Len(p) /\ SegmentsMatch(p, t, Len(p))

\* match_path_in_routes: the path itself, or any pattern with parameters, or
\* any with a wildcard, in the order of a hash map.
Patterns(paths, t) ==
    IF t \in paths THEN {t}
    ELSE LET exact == {p \in paths : ParameterMatches(p, t)}
         IN  IF exact # {} THEN exact ELSE {p \in paths : WildMatches(p, t)}

PathsOf(method) == {p \in {r[2] : r \in DOMAIN routes} : <<method, p>> \in DOMAIN routes}

\* match_route: router() makes a map for each of the seven methods, so that
\* the one of GET is never taken for HEAD.
Matched(method, t) == Patterns(PathsOf(method), t)

\* check_allowed_methods.
Allowed(t) ==
    LET found == {m \in StandardMethods : Matched(m, t) # {}}
    IN  found \cup IF "GET" \in found THEN {"HEAD"} ELSE {}

\* _whalli_http_run_mws: the middlewares that run, up to the first that answers.
Run(mws, answering) ==
    LET stops == {i \in DOMAIN mws : mws[i] \in answering}
    IN  IF stops = {} THEN mws
        ELSE SubSeq(mws, 1, CHOOSE i \in stops : \A j \in stops : i <= j)
Stopped(mws, answering) == ToSet(mws) \cap answering # {}

\* _whalli_http_handle_missing.
Missing(t) ==
    CASE Allowed(t) # {} /\ "method_not_allowed" \in custom -> "method_not_allowed"
      [] Allowed(t) # {} /\ "method_not_allowed" \notin custom -> "405"
      [] Allowed(t) = {} /\ "not_found" \in custom -> "not_found"
      [] OTHER -> "404"

AttachedTo(p) == IF p \in DOMAIN attached THEN attached[p] ELSE <<>>

\* What _whalli_http_serve_client can do with a request: the middlewares that
\* run, and who answers in the end.
Dispatch(method, t, answering) ==
    IF Stopped(global, answering)
    THEN {[ran |-> Run(global, answering), by |-> "middleware"]}
    ELSE IF Matched(method, t) = {}
    THEN {[ran |-> global, by |-> Missing(t)]}
    ELSE {[ran |-> global \o Run(AttachedTo(p), answering),
           by |-> IF Stopped(AttachedTo(p), answering) THEN "middleware"
                  ELSE routes[method, p]] : p \in Matched(method, t)}

(* ---- Reference ----------------------------------------------------------- *)

\* The declarations that speak of a method and a path, and how well.
Rank(d, t) ==
    CASE t \in d.paths -> 1
      [] t \notin d.paths /\ (\E p \in d.paths : ParameterMatches(p, t)) -> 2
      [] OTHER -> 3
Fits(p, t) ==
    \/ p = t
    \/ ParameterMatches(p, t)
    \/ IsWild(p) /\ Len(t) >= Len(p) - 1 /\ SegmentsMatch(p, t, Len(p) - 1)
Speaks(d, t) == \E p \in d.paths : Fits(p, t)
For(method, t) == {i \in DOMAIN declared : method \in declared[i].methods /\ Speaks(declared[i], t)}
Superseded(i, method) ==
    \E j \in (i + 1)..Len(declared) :
        method \in declared[j].methods /\ declared[i].paths \subseteq declared[j].paths
Best(method, t) ==
    {i \in For(method, t) :
        /\ ~Superseded(i, method)
        /\ \A j \in For(method, t) : Rank(declared[i], t) <= Rank(declared[j], t)}

\* The middlewares of a path are those of its last declaration in scope of any,
\* of whichever method.
Deciding(decls, p) ==
    {i \in DOMAIN decls :
        /\ p \in decls[i].paths /\ decls[i].scope # {}
        /\ \A j \in (i + 1)..Len(decls) : p \in decls[j].paths => decls[j].scope = {}}
ScopeOf(p) == UNION {declared[i].scope : i \in Deciding(declared, p)}

\* In whatever order a router was set up, and whichever middlewares answer: a
\* request is answered by a handler declared for it, the more specific pattern
\* first, and only when every middleware of the root and of that pattern, and
\* no other, has run before it, once or more often, and let it pass; without a
\* declaration the answer is 405 just when another method has one; a middleware
\* that answers is the last that runs (value.rs, register_router_route; http.rs,
\* match_route and check_allowed_methods). Two things are left open here and
\* refuted below: HEAD of what has a GET alone, and whose middlewares these are
\* when several declarations of a pattern are in scope of different ones.
DispatchAsDeclared(methods, targets, answering) ==
    \A m \in methods, t \in targets : \A out \in Dispatch(m, t, answering) :
        IF out.by = "middleware"
        THEN Last(out.ran) \in answering /\ ToSet(Front(out.ran)) \cap answering = {}
        ELSE /\ ToSet(out.ran) \cap answering = {}
             /\ IF For(m, t) = {}
                THEN \/ m = "HEAD" /\ For("GET", t) # {}
                     \/ out.by \in IF \E other \in StandardMethods : For(other, t) # {}
                                   THEN {"405", "method_not_allowed"} ELSE {"404", "not_found"}
                ELSE \E i \in Best(m, t) : \E p \in declared[i].paths :
                       /\ Fits(p, t)
                       /\ out.by = declared[i].handler
                       /\ ToSet(out.ran) = ScopeOf(p) \cup ToSet(global)

\* A method that the Allow header of a 405 would list is not answered by a 405:
\* a resource that has GET has HEAD (http.rs, check_allowed_methods and the
\* fall back of match_route; tests/http_test.rs).
AllowedMethodsServed(targets) ==
    \A t \in targets : \A m \in Allowed(t) : \A out \in Dispatch(m, t, {}) :
        out.by \notin {"405", "method_not_allowed"}

\* No request gets past a middleware that the declaration it is answered by was
\* in scope of (value.rs, use and group of call_method).
NoMiddlewareSkipped(methods, targets) ==
    \A m \in methods, t \in targets : \A out \in Dispatch(m, t, {}) :
        For(m, t) # {} => \E i \in Best(m, t) : declared[i].scope \subseteq ToSet(out.ran)
=============================================================================

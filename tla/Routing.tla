------------------------------- MODULE Routing -------------------------------
(***************************************************************************)
(* URIsRouter (serverwamp/routing.py), from which a realm's RPCRouter and   *)
(* TopicsRouter are made: routes for single URIs, and an ordered table of   *)
(* patterns, to which prefix and regex routes are appended alike.  Routes   *)
(* may be added at any time, also while sessions are served.                *)
(***************************************************************************)
EXTENDS Naturals, Sequences

CONSTANTS
    Uris,                    \* the URIs that clients name
    Handlers,                \* the functions that routes lead to
    NoHandler,               \* no exact route; NoSuchRouteError as a result
    Patterns,                \* patterns, each the set of the URIs it matches
    MaxRoutes                \* bound: pattern routes added

ASSUME RoutingAssumption ==
    /\ NoHandler \notin Handlers
    /\ Patterns \subseteq SUBSET Uris
    /\ MaxRoutes \in Nat

VARIABLES
    exact,                   \* _exact_dispatch_table
    patterns                 \* _pattern_dispatch_table

vars == <<exact, patterns>>

Routes == [pattern : Patterns, handler : Handlers]

TypeOK ==
    /\ exact \in [Uris -> Handlers \cup {NoHandler}]
    /\ patterns \in Seq(Routes)
    /\ Len(patterns) <= MaxRoutes

Init ==
    /\ exact = [u \in Uris |-> NoHandler]
    /\ patterns = <<>>

AddRoute(uri, handler) ==
    /\ exact' = [exact EXCEPT ![uri] = handler]
    /\ UNCHANGED patterns

(* Mutant: the route is entered before its handler is known.                *)
MutantNoHandler(pattern, handler) ==
    /\ Len(patterns) < MaxRoutes
    /\ patterns' = Append(patterns, [pattern |-> pattern, handler |-> NoHandler])
    /\ UNCHANGED exact

(* add_prefix_route and add_regex_route.                                    *)
AddPatternRoute(pattern, handler) ==
    /\ Len(patterns) < MaxRoutes
    /\ patterns' = Append(patterns, [pattern |-> pattern, handler |-> handler])
    /\ UNCHANGED exact

(* Mutant: patterns are tried before exact routes.                          *)
MutantPatternsFirst(uri) ==
    IF patterns # <<>> THEN patterns[1].handler ELSE exact[uri]

(* The loop over the table returns in its first iteration, whether the      *)
(* pattern matches or not.                                                  *)
Resolve(uri) ==
    IF exact[uri] = NoHandler /\ patterns # <<>>
    THEN patterns[1].handler
    ELSE exact[uri]

Next ==
    \E h \in Handlers :
        \/ \E u \in Uris : AddRoute(u, h)
        \/ \E p \in Patterns : AddPatternRoute(p, h)

Spec == Init /\ [][Next]_vars

-----------------------------------------------------------------------------
(* A route that is added takes over no URI that was served already, other   *)
(* than the one an exact route is for: pattern routes are tried in the      *)
(* order they were added in, and an exact route outdoes them.               *)
RoutesAreStable ==
    [][\A u \in Uris :
        Resolve(u) # NoHandler /\ exact'[u] = exact[u] => Resolve(u)' = Resolve(u)]_vars

(* NoSuchRouteError: "No route was found for the given URI."  A URI that    *)
(* no route is for resolves to none, and one that only later patterns match *)
(* to the first of those.                                                   *)
Matching(uri) == {n \in DOMAIN patterns : uri \in patterns[n].pattern}

ResolvesToMatchingRoute ==
    \A u \in Uris :
        Resolve(u) = IF exact[u] # NoHandler THEN exact[u]
                     ELSE IF Matching(u) = {} THEN NoHandler
                     ELSE patterns[CHOOSE n \in Matching(u) :
                                    \A m \in Matching(u) : n <= m].handler
=============================================================================

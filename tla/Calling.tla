------------------------------- MODULE Calling -------------------------------
(***************************************************************************)
(* How a handler gets its arguments, once a router led to it: those of a     *)
(* call in RPCRouter.handle_rpc_call (serverwamp/rpc.py), those of           *)
(* subscription and session state handlers in                                *)
(* Realm.args_for_realm_level_handler (serverwamp/application.py), and the    *)
(* default arguments of the realm that both use, which may be set, like       *)
(* routes, while sessions are served.  An argument is where it comes from;   *)
(* of its value only whether it fits the parameter's type hint matters.      *)
(***************************************************************************)
EXTENDS Routing, SequencesExt

CONSTANTS
    Names,                   \* names of parameters
    Keys,                    \* names in the keyword arguments of calls
    Snake,                   \* Snake[k]: camel_to_snake(k)
    Injected,                \* the names that serverwamp fills in itself
    Signature,               \* Signature[h]: the parameters of h, in order
    MaxArgs                  \* bound: arguments of a call, of either kind

(* A parameter is positional or keyword-only, has a type hint other than    *)
(* str or not, and a default of its own or not, which may not fit the hint.  *)
Parameters == [name : Names, positional : BOOLEAN, typed : BOOLEAN,
               default : {"none", "fits", "unfit"}]

ASSUME CallingAssumption ==
    /\ Injected \subseteq Names
    /\ Snake \in [Keys -> Names]
    /\ Signature \in [Handlers -> Seq(Parameters)]
    /\ \A h \in Handlers : \A i, j \in DOMAIN Signature[h] :
        Signature[h][i].name = Signature[h][j].name => i = j
    /\ MaxArgs \in Nat

VARIABLES
    conversion,              \* the router's camel_snake_conversion
    defaults,                \* the names that default_arg_factories has
    last                     \* the last invocation and what came of it

callVars == <<exact, patterns, conversion, defaults, last>>

Idle == [handler |-> NoHandler, outcome |-> "none"]

(* A call: how many positional arguments it has, the keys of its keyword     *)
(* arguments in their order, and whether those of the caller and what the    *)
(* realm's factories make now fit the hints they meet.                       *)
Calls == [args : 0 .. MaxArgs,
          keys : {ks \in SeqOf(Keys, MaxArgs) : IsInjective(ks)},
          fit : SUBSET {"caller", "realm"}]

(* What a key of a call is looked up as.                                    *)
Meant(k) == IF conversion THEN Snake[k] ELSE k

(* The keyword arguments by the names they are for: of two keys for a name  *)
(* the later one wins.                                                       *)
ByName(call) ==
    LET for(n) == {i \in DOMAIN call.keys : n = Meant(call.keys[i])}
    IN  [n \in {m \in Names : for(m) # {}} |->
            call.keys[CHOOSE i \in for(n) : \A j \in for(n) : j <= i]]

Argument(source, which) == [source |-> source, which |-> which]

(* The loop of handle_rpc_call over the parameters of a handler: bound are   *)
(* the arguments so far, next the positional one it would take now.          *)
TakesNext(state, call, p) == p.positional /\ state.next <= call.args

Give(state, p, arg, fits) ==
    [state EXCEPT !.bound = Append(@, arg),
                  !.outcome = IF p.typed /\ ~fits THEN "raised" ELSE @]

(* Mutant: a parameter that serverwamp fills in uses up an argument too.     *)
MutantInjectedTakesNext(state, call, p) ==
    [state EXCEPT !.bound = Append(@, Argument("injected", p.name)), !.next = @ + 1]

Inject(state, call, p) ==
    [state EXCEPT !.bound = Append(@, Argument("injected", p.name))]

BindNext(state, call, p) ==
    CASE state.outcome # "called" -> state
      [] state.outcome = "called" /\ p.name \in Injected -> Inject(state, call, p)
      [] OTHER ->
            IF TakesNext(state, call, p)
            THEN Give([state EXCEPT !.next = @ + 1], p, Argument("args", state.next),
                      "caller" \in call.fit)
            ELSE IF p.name \in DOMAIN ByName(call)
            THEN Give(state, p, Argument("kwargs", ByName(call)[p.name]), "caller" \in call.fit)
            ELSE IF p.name \in defaults
            THEN Give(state, p, Argument("realm", p.name), "realm" \in call.fit)
            ELSE IF p.default # "none"
            THEN Give(state, p, Argument("default", p.name), p.default = "fits")
            ELSE [state EXCEPT !.outcome = "invalid_argument"]

(* Arguments are passed by position all of them, which raises for a          *)
(* keyword-only parameter.                                                   *)
Passed(h, state) ==
    IF state.outcome = "called" /\ \E i \in DOMAIN Signature[h] : ~Signature[h][i].positional
    THEN "raised" ELSE state.outcome

Bind(h, call) ==
    LET end == Len(Signature[h])
        state[n \in 0 .. end] ==
            IF n = 0 THEN [bound |-> <<>>, next |-> 1, outcome |-> "called"]
            ELSE BindNext(state[n - 1], call, Signature[h][n])
    IN  [handler |-> h, call |-> call,
         bound |-> state[end].bound, outcome |-> Passed(h, state[end])]

(* The loop of args_for_realm_level_handler, with what the caller injects:   *)
(* a name that nobody knows is left out, and what follows moves up.  Mutant: *)
(* the realm's defaults come before what is injected.                        *)
MutantDefaultsFirst(args, p) ==
    IF p.name \in defaults THEN Append(args, Argument("realm", p.name))
    ELSE IF p.name \in Injected THEN Append(args, Argument("injected", p.name))
    ELSE args

WithKnown(args, p) ==
    IF p.name \in Injected THEN Append(args, Argument("injected", p.name))
    ELSE IF p.name \in defaults THEN Append(args, Argument("realm", p.name))
    ELSE args

RealmLevelArgs(h) ==
    LET end == Len(Signature[h])
        args[n \in 0 .. end] ==
            IF n = 0 THEN <<>> ELSE WithKnown(args[n - 1], Signature[h][n])
    IN  args[end]

-----------------------------------------------------------------------------
CallingInit ==
    /\ Init
    /\ conversion \in BOOLEAN
    /\ defaults = {}
    /\ last = Idle

(* Realm.set_default_arg: for calls, subscriptions and state handlers alike.*)
SetDefaultArg ==
    /\ last = Idle
    /\ \E n \in Names : defaults' = defaults \cup {n}
    /\ UNCHANGED <<exact, patterns, conversion, last>>

AddRoutes ==
    /\ last = Idle
    /\ Next
    /\ UNCHANGED <<conversion, defaults, last>>

(* From the look-up of a handler to its invocation nothing is awaited.      *)
HandleRpcCall ==
    /\ last = Idle
    /\ \E u \in Uris, call \in Calls :
        last' = IF Resolve(u) = NoHandler THEN [Idle EXCEPT !.outcome = "no_such_procedure"]
                ELSE Bind(Resolve(u), call)
    /\ UNCHANGED <<exact, patterns, conversion, defaults>>

HandleAtRealmLevel ==
    /\ last = Idle
    /\ \E h \in Handlers :
        last' = [handler |-> h, outcome |-> "realm level", bound |-> RealmLevelArgs(h)]
    /\ UNCHANGED <<exact, patterns, conversion, defaults>>

Invoked ==
    /\ last # Idle /\ last' = Idle
    /\ UNCHANGED <<exact, patterns, conversion, defaults>>

CallingNext ==
    SetDefaultArg \/ AddRoutes \/ HandleRpcCall \/ HandleAtRealmLevel \/ Invoked

CallingSpec == CallingInit /\ [][CallingNext]_callVars

-----------------------------------------------------------------------------
(* The documentation's rules, without the loop (getting_started.rst: "The   *)
(* order is used when non-keyword arguments are supplied by the caller and   *)
(* the names are used when keyword arguments are supplied"): the n-th        *)
(* positional argument is for the n-th parameter that callers can fill by    *)
(* position; the names are for what is left then.                            *)
Fillable(h) == {i \in DOMAIN Signature[h] :
                  Signature[h][i].positional /\ Signature[h][i].name \notin Injected}
Position(h, i) == Cardinality({j \in Fillable(h) : j <= i})

Rightful(h, call, i) ==
    LET p == Signature[h][i] IN
    IF p.name \in Injected THEN {"injected"}
    ELSE IF i \in Fillable(h) /\ Position(h, i) <= call.args THEN {"args"}
    ELSE IF \E k \in Range(call.keys) : p.name = Meant(k) THEN {"kwargs"}
    ELSE IF p.name \in defaults THEN {"realm"}
    ELSE {"default" : d \in {p.default} \ {"none"}}

(* Whatever mix of positional and keyword arguments a call has, and whatever*)
(* defaults the realm has by now: a procedure that is called gets in every   *)
(* parameter the argument that is for it, none of the caller's twice; a      *)
(* caller cannot stand in for what serverwamp fills in; and invalid_argument *)
(* is said only, and always, of a parameter without any.  With               *)
(* camel_snake_conversion a key is for the parameter of its converted name   *)
(* alone: a parameter whose own name is in camel case is none's.             *)
ArgumentsFindTheirParameters ==
    last.outcome \in {"called", "invalid_argument"} =>
        LET h == last.handler
            call == last.call
        IN  /\ \A i \in DOMAIN last.bound :
                /\ last.bound[i].source \in Rightful(h, call, i)
                /\ last.bound[i].source = "args" => last.bound[i].which = Position(h, i)
                /\ last.bound[i].source = "kwargs" =>
                        /\ last.bound[i].which \in Range(call.keys)
                        /\ Signature[h][i].name = Meant(last.bound[i].which)
            /\ \A i, j \in DOMAIN last.bound :
                last.bound[i] = last.bound[j] => i = j
            /\ IF last.outcome = "called" THEN Len(last.bound) = Len(Signature[h])
               ELSE Rightful(h, call, Len(last.bound) + 1) = {}

(* Subscription and session state handlers get what serverwamp injects and  *)
(* the realm's defaults in the parameters of those names, up to the first    *)
(* name that neither knows.                                                  *)
RealmArgumentsInPlace ==
    last.outcome = "realm level" =>
        \A i \in DOMAIN last.bound :
            (\A j \in 1 .. i : Signature[last.handler][j].name \in Injected \cup defaults) =>
                /\ last.bound[i].which = Signature[last.handler][i].name
                /\ last.bound[i].source = "injected" <=> last.bound[i].which \in Injected
=============================================================================

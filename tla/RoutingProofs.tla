---------------------------- MODULE RoutingProofs ----------------------------
(***************************************************************************)
(* Theorems about modules Routing and Calling, for any URIs, handlers,     *)
(* signatures, patterns and calls, and tables of any length: the tables of  *)
(* a router, and the arguments that handlers are given.                     *)
(***************************************************************************)
EXTENDS Calling, SequenceTheorems, FiniteSetTheorems, WellFoundedInduction, TLAPS

(* Every addition of a route keeps the tables well formed.                  *)
LEMMA StepType ==
    ASSUME RoutingAssumption, TypeOK, [Next]_vars
    PROVE  TypeOK'
<1>1. ASSUME NEW u \in Uris, NEW h \in Handlers, AddRoute(u, h)
      PROVE  TypeOK'
  BY <1>1 DEF TypeOK, AddRoute
<1>2. ASSUME NEW p \in Patterns, NEW h \in Handlers, AddPatternRoute(p, h)
      PROVE  TypeOK'
  <2>1. [pattern |-> p, handler |-> h] \in Routes
    BY DEF Routes
  <2> QED
    BY <1>2, <2>1 DEF TypeOK, AddPatternRoute, RoutingAssumption
<1>3. CASE UNCHANGED vars
  BY <1>3 DEF TypeOK, vars
<1> QED
  BY <1>1, <1>2, <1>3 DEF Next

(* The tables of a router are well formed: every exact route leads to a     *)
(* handler, every entry of the pattern table is a pattern with a handler.   *)
THEOREM TypeCorrect == Spec => []TypeOK
<1> USE RoutingAssumption
<1>1. Init => TypeOK
  BY DEF Init, TypeOK, RoutingAssumption
<1>2. TypeOK /\ [Next]_vars => TypeOK'
  BY StepType
<1> QED
  BY <1>1, <1>2, PTL DEF Spec

(* A URI that some route serves is served by the same one after any         *)
(* addition but that of an exact route for it, whether the addition is      *)
(* another exact route or a pattern that matches it too.                    *)
LEMMA StepStable ==
    ASSUME TypeOK, [Next]_vars, NEW u \in Uris,
           Resolve(u) # NoHandler, exact'[u] = exact[u]
    PROVE  Resolve(u)' = Resolve(u)
<1>1. CASE UNCHANGED patterns
  BY <1>1 DEF Resolve
<1>2. ASSUME NEW p \in Patterns, NEW h \in Handlers, AddPatternRoute(p, h)
      PROVE  Resolve(u)' = Resolve(u)
  <2>1. patterns \in Seq(Routes)
    BY DEF TypeOK
  <2>2. CASE patterns = <<>>
    BY <2>2 DEF Resolve
  <2>3. CASE patterns # <<>>
    <3>1. patterns' # <<>> /\ patterns'[1] = patterns[1]
      BY <1>2, <2>1, <2>3 DEF AddPatternRoute
    <3> QED
      BY <2>3, <3>1 DEF Resolve
  <2> QED
    BY <2>2, <2>3
<1> QED
  BY <1>1, <1>2 DEF Next, AddRoute, vars

(* Routes added while sessions are served take over nothing that is served. *)
THEOREM AdditionsTakeOverNothing == Spec => RoutesAreStable
<1> DEFINE Stable == \A u \in Uris :
              Resolve(u) # NoHandler /\ exact'[u] = exact[u] => Resolve(u)' = Resolve(u)
<1>1. TypeOK /\ [Next]_vars => [Stable]_vars
  BY StepStable
<1> QED
  BY <1>1, TypeCorrect, PTL DEF Spec, RoutesAreStable

(* Whatever is called, and whatever defaults the realm gets, a router in    *)
(* use is a router: calls and default arguments leave its tables alone.     *)
THEOREM UseChangesNoRoute == CallingSpec => Spec
<1>1. CallingInit => Init
  BY DEF CallingInit
<1>2. [CallingNext]_callVars => [Next]_vars
  BY DEF CallingNext, callVars, vars, SetDefaultArg, AddRoutes, HandleRpcCall,
         HandleAtRealmLevel, Invoked
<1> QED
  BY <1>1, <1>2, PTL DEF CallingSpec, Spec

(* Routes added between the calls of a router in use take over nothing that *)
(* is served.                                                               *)
THEOREM StableWhileServing == CallingSpec => RoutesAreStable
  BY UseChangesNoRoute, AdditionsTakeOverNothing, PTL

-----------------------------------------------------------------------------
(* Induction over the natural numbers, as a property of sets.               *)
LEMMA Induction ==
    ASSUME NEW T, 0 \in T, \A n \in Nat : n \in T => n + 1 \in T
    PROVE  Nat \subseteq T
<1> SUFFICES ASSUME Nat \ T # {} PROVE FALSE
  OBVIOUS
<1> DEFINE R == OpToRel(<, Nat)
<1>0. R = {ss \in Nat \X Nat : ss[1] < ss[2]}
  BY Zenon DEF OpToRel
<1>1. PICK x \in Nat \ T : \A y \in Nat \ T : <<y, x>> \notin R
  BY NatLessThanWellFounded, WFMin
<1>2. x # 0 /\ x - 1 \in Nat
  OBVIOUS
<1> HIDE DEF R
<1>3. <<x - 1, x>> \in R
  BY <1>0, <1>2
<1> QED
  BY <1>1, <1>2, <1>3

USE RoutingAssumption, CallingAssumption

(* A set of numbers that has one has a greatest, if there is a bound.       *)
LEMMA Greatest ==
    ASSUME NEW S \in SUBSET Nat, NEW x \in S, NEW N \in Nat, \A y \in S : y <= N
    PROVE  \E i \in S : \A j \in S : j <= i
<1> SUFFICES ASSUME \A i \in S : \E j \in S : ~(j <= i) PROVE FALSE
  OBVIOUS
<1> DEFINE T == {n \in Nat : \E i \in S : n <= i}
<1>1. 0 \in T
  OBVIOUS
<1>2. ASSUME NEW n \in Nat, n \in T
      PROVE  n + 1 \in T
  <2>1. PICK i \in S : n <= i
    BY <1>2
  <2>2. PICK j \in S : ~(j <= i)
    OBVIOUS
  <2>3. n + 1 <= j
    BY <2>1, <2>2
  <2> QED
    BY <2>3
<1> HIDE DEF T
<1>3. N + 1 \in T
  <2>1. Nat \subseteq T
    BY <1>1, <1>2, Induction
  <2> QED
    BY <2>1
<1>4. PICK i \in S : N + 1 <= i
  BY <1>3 DEF T
<1> QED
  BY <1>4

-----------------------------------------------------------------------------
(* The place of a parameter among those that callers can fill by position.  *)
LEMMA SignatureTyped ==
    ASSUME NEW h \in Handlers
    PROVE  /\ Signature[h] \in Seq(Parameters) /\ Len(Signature[h]) \in Nat
           /\ DOMAIN Signature[h] = 1 .. Len(Signature[h])
           /\ \A i \in 1 .. Len(Signature[h]) : Signature[h][i] \in Parameters
           /\ \A i, j \in 1 .. Len(Signature[h]) :
                Signature[h][i].name = Signature[h][j].name => i = j
<1>1. Signature[h] \in Seq(Parameters)
  OBVIOUS
<1>2. /\ Len(Signature[h]) \in Nat /\ DOMAIN Signature[h] = 1 .. Len(Signature[h])
      /\ \A i \in 1 .. Len(Signature[h]) : Signature[h][i] \in Parameters
  BY <1>1
<1> QED
  BY <1>1, <1>2

(* It counts the parameters up to it.                                       *)
LEMMA Places ==
    ASSUME NEW h \in Handlers, NEW n \in Nat
    PROVE  /\ Position(h, n) \in Nat /\ Position(h, 0) = 0
           /\ Position(h, n + 1) =
                IF n + 1 \in Fillable(h) THEN Position(h, n) + 1 ELSE Position(h, n)
           /\ \A m \in Fillable(h) :
                n < m => Position(h, n) < Position(h, m)
<1> DEFINE upTo(k) == {j \in Fillable(h) : j <= k}
<1>0. Fillable(h) \in SUBSET Nat
  BY SignatureTyped DEF Fillable
<1>1. \A k \in Nat : IsFiniteSet(upTo(k)) /\ Cardinality(upTo(k)) \in Nat
  <2> TAKE k \in Nat
  <2>1. IsFiniteSet(0 .. k) /\ upTo(k) \in SUBSET (0 .. k)
    BY <1>0, FS_Interval
  <2>2. IsFiniteSet(upTo(k))
    BY <2>1, FS_Subset
  <2> QED
    BY <2>2, FS_CardinalityType
<1>2. Cardinality(upTo(0)) = 0
  <2>1. upTo(0) = {}
    BY <1>0, SignatureTyped DEF Fillable
  <2> QED
    BY <2>1, FS_EmptySet
<1>3. Cardinality(upTo(n + 1)) =
        IF n + 1 \in Fillable(h) THEN Cardinality(upTo(n)) + 1 ELSE Cardinality(upTo(n))
  <2>1. CASE n + 1 \in Fillable(h)
    <3>1. upTo(n + 1) = upTo(n) \cup {n + 1} /\ n + 1 \notin upTo(n)
      BY <1>0, <2>1
    <3> HIDE DEF upTo
    <3> QED
      BY <1>1, <2>1, <3>1, FS_AddElement
  <2>2. CASE n + 1 \notin Fillable(h)
    <3>1. upTo(n + 1) = upTo(n)
      BY <1>0, <2>2
    <3> QED
      BY <2>2, <3>1
  <2> QED
    BY <2>1, <2>2
<1>4. ASSUME NEW m \in Fillable(h), n < m
      PROVE  Cardinality(upTo(n)) < Cardinality(upTo(m))
  <2>1. m \in Nat /\ upTo(n) \in SUBSET upTo(m) /\ m \in upTo(m) /\ m \notin upTo(n)
    BY <1>0, <1>4
  <2> HIDE DEF upTo
  <2>2. Cardinality(upTo(n)) <= Cardinality(upTo(m))
    BY <1>1, <2>1, FS_Subset
  <2>3. Cardinality(upTo(n)) # Cardinality(upTo(m))
    BY <1>1, <2>1, FS_Subset
  <2> QED
    BY <1>1, <2>1, <2>2, <2>3
<1>5. \A k : Position(h, k) = Cardinality(upTo(k))
  BY DEF Position
<1> HIDE DEF upTo
<1> QED
  BY <1>1, <1>2, <1>3, <1>4, <1>5

(* The keyword argument for a name, if there is one.                        *)
LEMMA ByNameFinds ==
    ASSUME NEW call \in Calls, NEW n \in Names
    PROVE  /\ n \in DOMAIN ByName(call) <=>
                \E k \in Range(call.keys) : n = Meant(k)
           /\ n \in DOMAIN ByName(call) =>
                /\ ByName(call)[n] \in Keys \cap Range(call.keys)
                /\ n = Meant(ByName(call)[n])
<1> DEFINE keys == call.keys
           for(name) == {i \in DOMAIN keys : name = Meant(keys[i])}
           chosen == CHOOSE i \in for(n) : \A j \in for(n) : j <= i
<1>1. PICK len \in Nat : keys \in [1 .. len -> Keys]
  BY DEF Calls, SeqOf
<1>2. /\ DOMAIN ByName(call) = {name \in Names : for(name) # {}}
      /\ n \in DOMAIN ByName(call) => ByName(call)[n] = keys[chosen]
  BY DEF ByName
<1>3. n \in DOMAIN ByName(call) <=> for(n) # {}
  BY <1>2
<1>4. for(n) # {} <=> \E k \in Range(keys) : n = Meant(k)
  <2>1. Range(keys) = {keys[i] : i \in DOMAIN keys}
    BY DEF Range
  <2> QED
    BY <2>1
<1>5. ASSUME for(n) # {}
      PROVE  chosen \in for(n)
  <2>1. PICK i : i \in for(n)
    BY <1>5
  <2>2. for(n) \in SUBSET Nat /\ \A y \in for(n) : y <= len
    BY <1>1
  <2> HIDE DEF for
  <2>3. \E x \in for(n) : \A j \in for(n) : j <= x
    BY <2>1, <2>2, Greatest
  <2> QED
    BY <2>3
<1>6. ASSUME for(n) # {}
      PROVE  keys[chosen] \in Keys \cap Range(keys) /\ n = Meant(keys[chosen])
  <2> HIDE DEF chosen
  <2> QED
    BY <1>1, <1>5, <1>6 DEF Range
<1> HIDE DEF chosen, for
<1> QED
  BY <1>2, <1>3, <1>4, <1>6

-----------------------------------------------------------------------------
(* The loop over the parameters of a handler, round by round.               *)
Start == [bound |-> <<>>, next |-> 1, outcome |-> "called"]

Rounds(s, h, call, n) ==
    s = [i \in 0 .. n |-> IF i = 0 THEN Start ELSE BindNext(s[i - 1], call, Signature[h][i])]

(* The rounds of the loop are defined, however many parameters there are.   *)
LEMMA RoundsExist ==
    ASSUME NEW h, NEW call, NEW N \in Nat
    PROVE  \E s : Rounds(s, h, call, N)
<1> DEFINE T == {n \in Nat : \E s : Rounds(s, h, call, n)}
<1>1. 0 \in T
  <2>1. PICK s : s = [i \in 0 .. 0 |-> Start]
    OBVIOUS
  <2>2. \A i \in 0 .. 0 : s[i] = IF i = 0 THEN Start ELSE BindNext(s[i - 1], call, Signature[h][i])
    BY <2>1
  <2>3. s = [i \in 0 .. 0 |->
                IF i = 0 THEN Start ELSE BindNext(s[i - 1], call, Signature[h][i])]
    BY <2>1, <2>2
  <2> QED
    BY <2>3 DEF Rounds
<1>2. ASSUME NEW n \in Nat, n \in T
      PROVE  n + 1 \in T
  <2>1. PICK s : Rounds(s, h, call, n)
    BY <1>2
  <2>2. PICK t : t = [i \in 0 .. n + 1 |->
                        IF i <= n THEN s[i] ELSE BindNext(s[n], call, Signature[h][n + 1])]
    OBVIOUS
  <2>3. \A i \in 0 .. n : t[i] = s[i]
    BY <2>2
  <2>4. \A i \in 0 .. n :
            s[i] = IF i = 0 THEN Start ELSE BindNext(s[i - 1], call, Signature[h][i])
    BY <2>1 DEF Rounds
  <2>5. ASSUME NEW i \in 0 .. n + 1
        PROVE  t[i] = IF i = 0 THEN Start ELSE BindNext(t[i - 1], call, Signature[h][i])
    <3>1. CASE i = n + 1
      <4>1. t[i] = BindNext(s[n], call, Signature[h][i]) /\ t[i - 1] = s[n] /\ i # 0
        BY <2>2, <2>3, <3>1
      <4> QED
        BY <4>1
    <3>2. CASE i # n + 1
      <4>1. i \in 0 .. n /\ (i # 0 => i - 1 \in 0 .. n)
        BY <3>2
      <4> QED
        BY <2>3, <2>4, <4>1
    <3> QED
      BY <3>1, <3>2
  <2>6. t = [i \in 0 .. n + 1 |->
                IF i = 0 THEN Start ELSE BindNext(t[i - 1], call, Signature[h][i])]
    BY <2>2, <2>5
  <2> QED
    BY <2>6 DEF Rounds
<1> HIDE DEF T
<1>3. N \in T
  BY <1>1, <1>2, Induction
<1> QED
  BY <1>3 DEF T

(* Bind is what the last of them comes to.                                  *)
LEMMA BindRounds ==
    ASSUME NEW h \in Handlers, NEW call
    PROVE  \E s : /\ Rounds(s, h, call, Len(Signature[h]))
                  /\ Bind(h, call).handler = h /\ Bind(h, call).call = call
                  /\ Bind(h, call).bound = s[Len(Signature[h])].bound
                  /\ Bind(h, call).outcome = Passed(h, s[Len(Signature[h])])
<1> DEFINE end == Len(Signature[h])
           state == CHOOSE s : s = [i \in 0 .. end |->
                IF i = 0 THEN [bound |-> <<>>, next |-> 1, outcome |-> "called"]
                ELSE BindNext(s[i - 1], call, Signature[h][i])]
<1>1. Rounds(state, h, call, end)
  <2>1. \E s : Rounds(s, h, call, end)
    BY SignatureTyped, RoundsExist
  <2> QED
    BY <2>1 DEF Rounds, Start
<1>2. Bind(h, call) = [handler |-> h, call |-> call,
                       bound |-> state[end].bound, outcome |-> Passed(h, state[end])]
  BY DEF Bind
<1> HIDE DEF state
<1> QED
  BY <1>1, <1>2

(* An argument that is where it belongs.                                    *)
Arguments == [source : {"injected", "args", "kwargs", "realm", "default"},
              which : Nat \cup Names \cup Keys]

InPlace(h, call, i, arg) ==
    /\ arg.source \in Rightful(h, call, i)
    /\ arg.source = "args" => i \in Fillable(h) /\ arg.which = Position(h, i)
    /\ arg.source = "kwargs" =>
        /\ arg.which \in Range(call.keys)
        /\ Signature[h][i].name = Meant(arg.which)
    /\ arg.source \in {"injected", "realm", "default"} => arg.which = Signature[h][i].name

(* After n parameters.                                                      *)
After(h, call, s, n) ==
    /\ s.outcome \in {"called", "raised", "invalid_argument"}
    /\ s.outcome # "raised" =>
        /\ s.bound \in Seq(Arguments) /\ Len(s.bound) <= n
        /\ \A i \in 1 .. Len(s.bound) : InPlace(h, call, i, s.bound[i])
    /\ s.outcome = "called" =>
        /\ Len(s.bound) = n
        /\ s.next = 1 + IF Position(h, n) <= call.args THEN Position(h, n) ELSE call.args
    /\ s.outcome = "invalid_argument" => Rightful(h, call, Len(s.bound) + 1) = {}

(* An argument is given to the next parameter.                              *)
LEMMA GiveNext ==
    ASSUME NEW h \in Handlers, NEW call \in Calls, NEW n \in Nat, NEW s, NEW t, NEW arg,
           After(h, call, s, n), s.outcome = "called",
           arg \in Arguments, InPlace(h, call, n + 1, arg),
           t.bound = Append(s.bound, arg), t.outcome \in {"called", "raised"},
           t.next = 1 + IF Position(h, n + 1) <= call.args THEN Position(h, n + 1) ELSE call.args
    PROVE  After(h, call, t, n + 1)
<1>1. /\ s.bound \in Seq(Arguments) /\ Len(s.bound) = n
      /\ \A i \in 1 .. n : InPlace(h, call, i, s.bound[i])
  BY DEF After
<1>2. /\ t.bound \in Seq(Arguments) /\ Len(t.bound) = n + 1
      /\ \A i \in 1 .. n : t.bound[i] = s.bound[i]
      /\ t.bound[n + 1] = arg
  BY <1>1, AppendProperties
<1>3. \A i \in 1 .. n + 1 : InPlace(h, call, i, t.bound[i])
  <2> TAKE i \in 1 .. n + 1
  <2>1. i = n + 1 \/ i \in 1 .. n
    OBVIOUS
  <2> QED
    BY <1>1, <1>2, <2>1
<1> QED
  BY <1>2, <1>3 DEF After

(* Every round: the next parameter gets the argument that is for it, or     *)
(* none is.                                                                 *)
LEMMA BindsNext ==
    ASSUME NEW h \in Handlers, NEW call \in Calls, NEW n \in Nat, n < Len(Signature[h]),
           NEW s, s = [bound |-> s.bound, next |-> s.next, outcome |-> s.outcome],
           After(h, call, s, n)
    PROVE  LET t == BindNext(s, call, Signature[h][n + 1])
           IN  /\ After(h, call, t, n + 1)
               /\ t = [bound |-> t.bound, next |-> t.next, outcome |-> t.outcome]
<1>0. PICK p, t : p = Signature[h][n + 1] /\ t = BindNext(s, call, p)
  OBVIOUS
<1>1. /\ p \in Parameters /\ p.name \in Names /\ p.positional \in BOOLEAN
      /\ n + 1 \in DOMAIN Signature[h]
  BY SMTT(30), <1>0, SignatureTyped DEF Parameters
<1>2. /\ n + 1 \in Fillable(h) <=> p.positional /\ p.name \notin Injected
      /\ Position(h, n) \in Nat /\ call.args \in Nat
      /\ Position(h, n + 1) =
            IF n + 1 \in Fillable(h) THEN Position(h, n) + 1 ELSE Position(h, n)
  BY <1>0, <1>1, Places DEF Fillable, Calls
<1>3. /\ Argument("injected", p.name) \in Arguments /\ Argument("realm", p.name) \in Arguments
      /\ Argument("default", p.name) \in Arguments
  BY <1>1 DEF Argument, Arguments
<1>4. CASE s.outcome # "called"
  <2>1. t = s
    BY <1>0, <1>4 DEF BindNext
  <2> QED
    BY <1>0, <1>4, <2>1 DEF After
<1>5. CASE s.outcome = "called" /\ p.name \in Injected
  <2>1. t = [bound |-> Append(s.bound, Argument("injected", p.name)),
             next |-> s.next, outcome |-> s.outcome]
    BY <1>0, <1>5 DEF BindNext, Inject
  <2>2. InPlace(h, call, n + 1, Argument("injected", p.name))
    BY <1>0, <1>5 DEF InPlace, Rightful, Argument
  <2>3. t.next = 1 + IF Position(h, n + 1) <= call.args THEN Position(h, n + 1) ELSE call.args
    BY <1>2, <1>5, <2>1 DEF After
  <2>4. After(h, call, t, n + 1)
    BY <1>3, <1>5, <2>1, <2>2, <2>3, GiveNext
  <2> QED
    BY <1>0, <2>1, <2>4
<1>6. CASE s.outcome = "called" /\ p.name \notin Injected
  <2>0. s.next = 1 + IF Position(h, n) <= call.args THEN Position(h, n) ELSE call.args
    BY <1>6 DEF After
  <2>1. /\ TakesNext(s, call, p) <=>
                n + 1 \in Fillable(h) /\ Position(h, n + 1) <= call.args
        /\ TakesNext(s, call, p) => s.next = Position(h, n + 1)
    BY <1>2, <1>6, <2>0 DEF TakesNext
  <2>2. ~TakesNext(s, call, p) =>
            s.next = 1 + IF Position(h, n + 1) <= call.args THEN Position(h, n + 1) ELSE call.args
    BY <1>2, <2>0, <2>1
  <2>3. ASSUME NEW state, NEW arg, NEW fits,
               state = [bound |-> s.bound, next |-> state.next, outcome |-> "called"],
               state.next = 1 + IF Position(h, n + 1) <= call.args
                                THEN Position(h, n + 1) ELSE call.args,
               arg \in Arguments, InPlace(h, call, n + 1, arg), t = Give(state, p, arg, fits)
        PROVE  /\ After(h, call, t, n + 1)
               /\ t = [bound |-> t.bound, next |-> t.next, outcome |-> t.outcome]
    <3>1. t = [bound |-> Append(s.bound, arg), next |-> state.next,
               outcome |-> IF p.typed /\ ~fits THEN "raised" ELSE "called"]
      <4>1. PICK next, outcome : /\ next = state.next
                                 /\ outcome = IF p.typed /\ ~fits THEN "raised" ELSE "called"
        OBVIOUS
      <4>2. state = [bound |-> s.bound, next |-> next, outcome |-> "called"]
        BY <2>3, <4>1
      <4>3. t = [state EXCEPT !.bound = Append(s.bound, arg), !.outcome = outcome]
        BY <2>3, <4>1, <4>2 DEF Give
      <4> QED
        BY <4>1, <4>2, <4>3
    <3>2. /\ t.bound = Append(s.bound, arg) /\ t.next = state.next
          /\ t.outcome \in {"called", "raised"}
      BY <3>1
    <3> QED
      BY <1>6, <2>3, <3>1, <3>2, GiveNext
  <2>4. CASE TakesNext(s, call, p)
    <3>1. t = Give([s EXCEPT !.next = @ + 1], p, Argument("args", s.next),
                  "caller" \in call.fit)
      BY <1>0, <1>6, <2>4 DEF BindNext
    <3>2. InPlace(h, call, n + 1, Argument("args", s.next))
      BY <1>0, <1>6, <2>1, <2>4 DEF InPlace, Rightful, Argument
    <3>3. Argument("args", s.next) \in Arguments
      BY <1>2, <2>1, <2>4 DEF Argument, Arguments
    <3>4. PICK state : state = [s EXCEPT !.next = @ + 1]
      OBVIOUS
    <3>5. /\ state = [bound |-> s.bound, next |-> state.next, outcome |-> "called"]
          /\ state.next = s.next + 1
      BY <1>6, <3>4
    <3>6. state.next = 1 + IF Position(h, n + 1) <= call.args
                           THEN Position(h, n + 1) ELSE call.args
      BY <1>2, <2>1, <2>4, <3>5
    <3> QED
      BY <1>0, <2>3, <3>1, <3>2, <3>3, <3>4, <3>5, <3>6
  <2>5. CASE ~TakesNext(s, call, p)
    <3>1. ASSUME NEW arg, NEW fits, arg \in Arguments, InPlace(h, call, n + 1, arg),
                 t = Give(s, p, arg, fits)
          PROVE  /\ After(h, call, t, n + 1)
                 /\ t = [bound |-> t.bound, next |-> t.next, outcome |-> t.outcome]
      BY <1>6, <2>2, <2>3, <2>5, <3>1
    <3>2. CASE p.name \in DOMAIN ByName(call)
      <4>1. PICK key : key = ByName(call)[p.name]
        OBVIOUS
      <4>2. key \in Keys \cap Range(call.keys) /\ p.name = Meant(key)
        BY <1>1, <3>2, <4>1, ByNameFinds
      <4>3. InPlace(h, call, n + 1, Argument("kwargs", key))
        BY <1>0, <1>6, <2>1, <2>5, <4>2 DEF InPlace, Rightful, Argument
      <4>4. Argument("kwargs", key) \in Arguments
        BY <4>2 DEF Argument, Arguments
      <4>5. t = Give(s, p, Argument("kwargs", key), "caller" \in call.fit)
        BY <1>0, <1>6, <2>5, <3>2, <4>1 DEF BindNext
      <4> QED
        BY <1>0, <3>1, <4>3, <4>4, <4>5
    <3>3. CASE p.name \notin DOMAIN ByName(call)
      <4>0. ~\E k \in Range(call.keys) : p.name = Meant(k)
        BY <1>1, <3>3, ByNameFinds
      <4>1. CASE p.name \in defaults
        <5>1. t = Give(s, p, Argument("realm", p.name), "realm" \in call.fit)
          BY <1>0, <1>6, <2>5, <3>3, <4>1 DEF BindNext
        <5>2. InPlace(h, call, n + 1, Argument("realm", p.name))
          BY <1>0, <1>6, <2>1, <2>5, <4>0, <4>1 DEF InPlace, Rightful, Argument
        <5> QED
          BY <1>0, <1>3, <3>1, <5>1, <5>2
      <4>2. CASE p.name \notin defaults /\ p.default # "none"
        <5>1. t = Give(s, p, Argument("default", p.name), p.default = "fits")
          BY <1>0, <1>6, <2>5, <3>3, <4>2 DEF BindNext
        <5>2. InPlace(h, call, n + 1, Argument("default", p.name))
          <6>1. Rightful(h, call, n + 1) = {"default"}
            BY <1>0, <1>6, <2>1, <2>5, <4>0, <4>2 DEF Rightful
          <6> QED
            BY <1>0, <6>1 DEF InPlace, Argument
        <5> QED
          BY <1>0, <1>3, <3>1, <5>1, <5>2
      <4>3. CASE p.name \notin defaults /\ p.default = "none"
        <5>1. t = [bound |-> s.bound, next |-> s.next, outcome |-> "invalid_argument"]
          BY <1>0, <1>6, <2>5, <3>3, <4>3 DEF BindNext
        <5>2. Rightful(h, call, n + 1) = {}
          BY <1>0, <1>6, <2>1, <2>5, <4>0, <4>3 DEF Rightful
        <5>3. /\ s.bound \in Seq(Arguments) /\ Len(s.bound) = n
              /\ \A i \in 1 .. Len(s.bound) : InPlace(h, call, i, s.bound[i])
          BY <1>6 DEF After
        <5>4. t.bound = s.bound /\ t.outcome = "invalid_argument"
          BY <5>1
        <5>5. After(h, call, t, n + 1)
          BY <5>2, <5>3, <5>4 DEF After
        <5> QED
          BY <1>0, <5>1, <5>5
      <4> QED
        BY <4>1, <4>2, <4>3
    <3> QED
      BY <3>2, <3>3
  <2> QED
    BY <2>4, <2>5
<1> QED
  BY <1>4, <1>5, <1>6

(* By induction over the parameters, after the last one.                    *)
LEMMA AfterEveryRound ==
    ASSUME NEW h \in Handlers, NEW call \in Calls, NEW s, Rounds(s, h, call, Len(Signature[h]))
    PROVE  After(h, call, s[Len(Signature[h])], Len(Signature[h]))
<1> DEFINE N == Len(Signature[h])
           IsState(t) == t = [bound |-> t.bound, next |-> t.next, outcome |-> t.outcome]
           T == {n \in Nat : n <= N => After(h, call, s[n], n) /\ IsState(s[n])}
<1>0. N \in Nat
  BY SignatureTyped
<1>1. /\ s[0] = Start
      /\ \A n \in 1 .. N : s[n] = BindNext(s[n - 1], call, Signature[h][n])
  <2>1. \A n \in 0 .. N :
            s[n] = IF n = 0 THEN Start ELSE BindNext(s[n - 1], call, Signature[h][n])
    BY DEF Rounds
  <2>2. 0 \in 0 .. N /\ \A n \in 1 .. N : n \in 0 .. N /\ n # 0
    BY <1>0
  <2> HIDE DEF N
  <2> QED
    BY <2>1, <2>2
<1>2. 0 \in T
  <2>1. IsState(s[0]) /\ s[0].bound = <<>> /\ s[0].next = 1 /\ s[0].outcome = "called"
    BY <1>1 DEF Start
  <2>2. Position(h, 0) = 0 /\ call.args \in Nat
    BY Places DEF Calls
  <2>3. s[0].bound \in Seq(Arguments) /\ Len(s[0].bound) = 0
    BY <2>1
  <2>4. s[0].next = 1 + IF Position(h, 0) <= call.args THEN Position(h, 0) ELSE call.args
    BY <2>1, <2>2
  <2>5. After(h, call, s[0], 0)
    BY <2>1, <2>3, <2>4 DEF After
  <2> QED
    BY <2>1, <2>5
<1>3. ASSUME NEW n \in Nat, n \in T
      PROVE  n + 1 \in T
  <2>1. SUFFICES ASSUME n + 1 <= N
                 PROVE  After(h, call, s[n + 1], n + 1) /\ IsState(s[n + 1])
    OBVIOUS
  <2>2. n < N /\ After(h, call, s[n], n) /\ IsState(s[n])
    BY <1>0, <1>3, <2>1
  <2>3. s[n + 1] = BindNext(s[n], call, Signature[h][n + 1])
    <3>1. n + 1 \in 1 .. N /\ (n + 1) - 1 = n
      BY <1>0, <2>1
    <3> QED
      BY <1>1, <3>1
  <2>4. PICK t : t = s[n]
    OBVIOUS
  <2>5. LET u == BindNext(t, call, Signature[h][n + 1])
        IN  After(h, call, u, n + 1) /\ IsState(u)
    BY <2>2, <2>4, BindsNext
  <2> QED
    BY <2>3, <2>4, <2>5
<1> HIDE DEF T
<1>4. N \in T
  BY <1>0, <1>2, <1>3, Induction
<1> QED
  BY <1>0, <1>4 DEF T

(* What a call is bound to, in the terms of ArgumentsFindTheirParameters.   *)
LEMMA BoundInPlace ==
    ASSUME NEW h \in Handlers, NEW call \in Calls,
           Bind(h, call).outcome \in {"called", "invalid_argument"}
    PROVE  LET result == Bind(h, call) IN
           /\ result.handler = h /\ result.call = call
           /\ result.bound \in Seq(Arguments) /\ Len(result.bound) <= Len(Signature[h])
           /\ \A i \in 1 .. Len(result.bound) : InPlace(h, call, i, result.bound[i])
           /\ IF result.outcome = "called" THEN Len(result.bound) = Len(Signature[h])
              ELSE Rightful(h, call, Len(result.bound) + 1) = {}
<1>1. PICK s : /\ Rounds(s, h, call, Len(Signature[h]))
               /\ Bind(h, call).handler = h /\ Bind(h, call).call = call
               /\ Bind(h, call).bound = s[Len(Signature[h])].bound
               /\ Bind(h, call).outcome = Passed(h, s[Len(Signature[h])])
  BY BindRounds
<1>2. PICK t : t = s[Len(Signature[h])]
  OBVIOUS
<1>3. After(h, call, t, Len(Signature[h]))
  BY <1>1, <1>2, AfterEveryRound
<1>4. Bind(h, call).outcome = t.outcome
  BY <1>1, <1>2 DEF Passed
<1> QED
  BY <1>1, <1>2, <1>3, <1>4 DEF After

(* No argument of the caller's goes to two parameters.                      *)
LEMMA PlacesDiffer ==
    ASSUME NEW h \in Handlers, NEW call \in Calls,
           NEW i \in 1 .. Len(Signature[h]), NEW j \in 1 .. Len(Signature[h]),
           NEW arg \in Arguments, InPlace(h, call, i, arg), InPlace(h, call, j, arg)
    PROVE  i = j
<1>0. i \in Nat /\ j \in Nat
  BY SignatureTyped
<1>1. CASE arg.source = "args"
  <2>1. i \in Fillable(h) /\ j \in Fillable(h) /\ Position(h, i) = Position(h, j)
    BY <1>1 DEF InPlace
  <2>2. ~(i < j)
    BY <1>0, <2>1, Places
  <2>3. ~(j < i)
    BY <1>0, <2>1, Places
  <2> QED
    BY <1>0, <2>2, <2>3
<1>2. CASE arg.source # "args"
  <2>1. Signature[h][i].name = Signature[h][j].name
    BY <1>2 DEF InPlace, Arguments
  <2> QED
    BY <2>1, SignatureTyped
<1> QED
  BY <1>1, <1>2

-----------------------------------------------------------------------------
(* The loop of args_for_realm_level_handler.                                *)
LEMMA RealmRounds ==
    ASSUME NEW h \in Handlers
    PROVE  \E s : /\ s[0] = <<>> /\ RealmLevelArgs(h) = s[Len(Signature[h])]
                  /\ \A n \in 1 .. Len(Signature[h]) : s[n] = WithKnown(s[n - 1], Signature[h][n])
<1> DEFINE N == Len(Signature[h])
           Is(s, n) == s = [i \in 0 .. n |->
                                IF i = 0 THEN <<>> ELSE WithKnown(s[i - 1], Signature[h][i])]
           T == {n \in Nat : \E s : Is(s, n)}
           args == CHOOSE s : Is(s, N)
<1>0. N \in Nat
  BY SignatureTyped
<1>1. 0 \in T
  <2>1. PICK s : s = [i \in 0 .. 0 |-> <<>>]
    OBVIOUS
  <2>2. \A i \in 0 .. 0 : s[i] = IF i = 0 THEN <<>> ELSE WithKnown(s[i - 1], Signature[h][i])
    BY <2>1
  <2>3. Is(s, 0)
    BY <2>1, <2>2
  <2> QED
    BY <2>3
<1>2. ASSUME NEW n \in Nat, n \in T
      PROVE  n + 1 \in T
  <2>1. PICK s : Is(s, n)
    BY <1>2
  <2>2. PICK t : t = [i \in 0 .. n + 1 |->
                        IF i <= n THEN s[i] ELSE WithKnown(s[n], Signature[h][n + 1])]
    OBVIOUS
  <2>3. \A i \in 0 .. n : t[i] = s[i]
    BY <2>2
  <2>4. \A i \in 0 .. n : s[i] = IF i = 0 THEN <<>> ELSE WithKnown(s[i - 1], Signature[h][i])
    BY <2>1
  <2>5. ASSUME NEW i \in 0 .. n + 1
        PROVE  t[i] = IF i = 0 THEN <<>> ELSE WithKnown(t[i - 1], Signature[h][i])
    <3>1. CASE i = n + 1
      <4>1. t[i] = WithKnown(s[n], Signature[h][i]) /\ t[i - 1] = s[n] /\ i # 0
        BY <2>2, <2>3, <3>1
      <4> QED
        BY <4>1
    <3>2. CASE i # n + 1
      <4>1. i \in 0 .. n /\ (i # 0 => i - 1 \in 0 .. n)
        BY <3>2
      <4> QED
        BY <2>3, <2>4, <4>1
    <3> QED
      BY <3>1, <3>2
  <2>6. Is(t, n + 1)
    BY <2>2, <2>5
  <2>7. \E any : Is(any, n + 1)
    BY <2>6
  <2> HIDE DEF Is
  <2> QED
    BY <2>7
<1>3. Is(args, N)
  <2> HIDE DEF T
  <2>1. N \in T
    BY <1>0, <1>1, <1>2, Induction
  <2> QED
    BY <2>1 DEF T
<1>4. RealmLevelArgs(h) = args[N]
  BY DEF RealmLevelArgs
<1> HIDE DEF args
<1>5. \A n \in 0 .. N :
        args[n] = IF n = 0 THEN <<>> ELSE WithKnown(args[n - 1], Signature[h][n])
  BY <1>3
<1>6. 0 \in 0 .. N /\ \A n \in 1 .. N : n \in 0 .. N /\ n # 0
  BY <1>0
<1> HIDE DEF N
<1>7. args[0] = <<>> /\ \A n \in 1 .. N : args[n] = WithKnown(args[n - 1], Signature[h][n])
  BY <1>5, <1>6
<1> QED
  BY <1>4, <1>7 DEF N

Known(p) == p.name \in Injected \cup defaults
Filling(p) == Argument(IF p.name \in Injected THEN "injected" ELSE "realm", p.name)

(* Up to the first name that nobody knows, every argument is in its place.  *)
LEMMA RealmArgsInPlace ==
    ASSUME NEW h \in Handlers
    PROVE  LET args == RealmLevelArgs(h) IN
           /\ args \in Seq(Arguments) /\ Len(args) <= Len(Signature[h])
           /\ \A i \in 1 .. Len(args) :
                (\A j \in 1 .. i : Known(Signature[h][j])) => args[i] = Filling(Signature[h][i])
<1> DEFINE N == Len(Signature[h])
<1>0. PICK s : /\ s[0] = <<>> /\ RealmLevelArgs(h) = s[N]
               /\ \A n \in 1 .. N : s[n] = WithKnown(s[n - 1], Signature[h][n])
  BY RealmRounds
<1> DEFINE Right(n) == /\ s[n] \in Seq(Arguments) /\ Len(s[n]) <= n
                       /\ \A i \in 1 .. n :
                            (\A j \in 1 .. i : Known(Signature[h][j])) =>
                                i <= Len(s[n]) /\ s[n][i] = Filling(Signature[h][i])
           T == {n \in Nat : n <= N => Right(n)}
<1>1. N \in Nat
  BY SignatureTyped
<1>2. 0 \in T
  <2>1. PICK none : none = s[0]
    OBVIOUS
  <2>2. none = <<>> /\ none \in Seq(Arguments) /\ Len(none) = 0
    BY <1>0, <2>1
  <2>3. Right(0)
    BY <2>1, <2>2
  <2> HIDE DEF Right
  <2> QED
    BY <2>3
<1>3. ASSUME NEW n \in Nat, n \in T
      PROVE  n + 1 \in T
  <2>1. SUFFICES ASSUME n + 1 <= N
                 PROVE  Right(n + 1)
    OBVIOUS
  <2>2. PICK a, b, p : a = s[n] /\ b = s[n + 1] /\ p = Signature[h][n + 1]
    OBVIOUS
  <2>3. /\ a \in Seq(Arguments) /\ Len(a) \in Nat /\ Len(a) <= n
        /\ \A i \in 1 .. n :
            (\A j \in 1 .. i : Known(Signature[h][j])) =>
                i <= Len(a) /\ a[i] = Filling(Signature[h][i])
    BY <1>1, <1>3, <2>1, <2>2
  <2>4. b = WithKnown(a, p) /\ p \in Parameters
    <3>1. n + 1 \in 1 .. N /\ (n + 1) - 1 = n
      BY <1>1, <2>1
    <3> QED
      BY <1>0, <2>2, <3>1, SignatureTyped
  <2>5. CASE Known(p)
    <3>1. b = Append(a, Filling(p))
      BY <2>4, <2>5 DEF WithKnown, Known, Filling
    <3>2. Filling(p) \in Arguments
      BY <2>4 DEF Filling, Argument, Arguments, Parameters
    <3>3. /\ b \in Seq(Arguments) /\ Len(b) = Len(a) + 1
          /\ \A i \in 1 .. Len(a) : b[i] = a[i]
          /\ b[Len(a) + 1] = Filling(p)
      BY <2>3, <3>1, <3>2, AppendProperties
    <3>4. ASSUME NEW i \in 1 .. n + 1, \A j \in 1 .. i : Known(Signature[h][j])
          PROVE  i <= Len(b) /\ b[i] = Filling(Signature[h][i])
      <4>1. CASE i \in 1 .. n
        <5>1. i <= Len(a) /\ a[i] = Filling(Signature[h][i])
          BY <2>3, <3>4, <4>1
        <5> QED
          BY <2>3, <3>3, <4>1, <5>1
      <4>2. CASE i = n + 1
        <5>1. Len(a) = n
          <6>1. CASE n = 0
            BY <2>3, <6>1
          <6>2. CASE n # 0
            <7>1. n \in 1 .. n /\ \A j \in 1 .. n : Known(Signature[h][j])
              BY <3>4, <4>2, <6>2
            <7> QED
              BY <2>3, <7>1
          <6> QED
            BY <6>1, <6>2
        <5> QED
          BY <2>2, <3>3, <4>2, <5>1
      <4> QED
        BY <4>1, <4>2
    <3>5. Len(b) <= n + 1
      BY <2>3, <3>3
    <3> QED
      BY <2>2, <3>3, <3>4, <3>5
  <2>6. CASE ~Known(p)
    <3>1. b = a
      BY <2>4, <2>6 DEF WithKnown, Known
    <3>2. ASSUME NEW i \in 1 .. n + 1, \A j \in 1 .. i : Known(Signature[h][j])
          PROVE  i <= Len(b) /\ b[i] = Filling(Signature[h][i])
      <4>1. i \in 1 .. n
        BY <2>2, <2>6, <3>2
      <4> QED
        BY <2>3, <3>1, <3>2, <4>1
    <3> QED
      BY <2>2, <2>3, <3>1, <3>2
  <2> QED
    BY <2>5, <2>6
<1> HIDE DEF T
<1>4. N \in T
  BY <1>1, <1>2, <1>3, Induction
<1>5. Right(N)
  BY <1>1, <1>4 DEF T
<1>6. PICK args : args = s[N]
  OBVIOUS
<1>7. /\ args \in Seq(Arguments) /\ Len(args) \in Nat /\ Len(args) <= N
      /\ \A i \in 1 .. N :
            (\A j \in 1 .. i : Known(Signature[h][j])) =>
                i <= Len(args) /\ args[i] = Filling(Signature[h][i])
  BY <1>5, <1>6
<1>8. \A i \in 1 .. Len(args) : i \in 1 .. N
  BY <1>1, <1>7
<1> HIDE DEF N
<1>9. /\ args \in Seq(Arguments) /\ Len(args) <= N
      /\ \A i \in 1 .. Len(args) :
            (\A j \in 1 .. i : Known(Signature[h][j])) => args[i] = Filling(Signature[h][i])
  BY <1>7, <1>8
<1>10. RealmLevelArgs(h) = args
  BY <1>0, <1>6
<1> QED
  BY <1>9, <1>10 DEF N

(* Between an invocation and the next, nothing that its arguments depend on *)
(* changes.                                                                 *)
CallingInv == TypeOK /\ ArgumentsFindTheirParameters /\ RealmArgumentsInPlace

(* An invocation by a call.                                                 *)
LEMMA CallFindsParameters ==
    ASSUME NEW h \in Handlers, NEW call \in Calls, last' = Bind(h, call),
           UNCHANGED <<conversion, defaults>>
    PROVE  ArgumentsFindTheirParameters'
<1>1. SUFFICES ASSUME last'.outcome \in {"called", "invalid_argument"}
               PROVE  ArgumentsFindTheirParameters'
  BY DEF ArgumentsFindTheirParameters
<1>2. /\ \A i : Rightful(h, call, i)' = Rightful(h, call, i)
      /\ \A k : Meant(k)' = Meant(k)
  BY DEF Rightful, Meant
<1>3. PICK bound, outcome : bound = last'.bound /\ outcome = last'.outcome
  OBVIOUS
<1>4. /\ last'.handler = h /\ last'.call = call
      /\ bound \in Seq(Arguments) /\ Len(bound) <= Len(Signature[h])
      /\ \A i \in 1 .. Len(bound) : InPlace(h, call, i, bound[i])
      /\ IF last'.outcome = "called" THEN Len(bound) = Len(Signature[h])
         ELSE Rightful(h, call, Len(bound) + 1) = {}
  BY ZenonT(60), <1>1, <1>3, BoundInPlace
<1>5. /\ DOMAIN bound = 1 .. Len(bound) /\ Len(bound) \in Nat
      /\ \A i \in 1 .. Len(bound) : bound[i] \in Arguments
  BY <1>4
<1>6. ASSUME NEW i \in 1 .. Len(bound)
      PROVE  /\ bound[i].source \in Rightful(h, call, i)
             /\ bound[i].source = "args" => bound[i].which = Position(h, i)
             /\ bound[i].source = "kwargs" =>
                    /\ bound[i].which \in Range(call.keys)
                    /\ Signature[h][i].name = Meant(bound[i].which)
  BY <1>4 DEF InPlace
<1>7. ASSUME NEW i \in 1 .. Len(bound), NEW j \in 1 .. Len(bound), bound[i] = bound[j]
      PROVE  i = j
  <2>1. i \in 1 .. Len(Signature[h]) /\ j \in 1 .. Len(Signature[h])
    BY <1>4, <1>5, SignatureTyped
  <2>2. InPlace(h, call, i, bound[i]) /\ InPlace(h, call, j, bound[i]) /\ bound[i] \in Arguments
    BY <1>4, <1>5, <1>7
  <2> QED
    BY <2>1, <2>2, PlacesDiffer
<1> QED
  BY <1>2, <1>3, <1>4, <1>5, <1>6, <1>7 DEF ArgumentsFindTheirParameters

(* An invocation at the level of the realm.                                 *)
LEMMA RealmHandlerFindsParameters ==
    ASSUME NEW h \in Handlers, UNCHANGED defaults,
           last' = [handler |-> h, outcome |-> "realm level", bound |-> RealmLevelArgs(h)]
    PROVE  RealmArgumentsInPlace'
<1>1. PICK bound : bound = RealmLevelArgs(h)
  OBVIOUS
<1>2. last'.bound = bound /\ last'.handler = h
  BY <1>1
<1>3. /\ bound \in Seq(Arguments)
      /\ \A i \in 1 .. Len(bound) :
            (\A j \in 1 .. i : Known(Signature[h][j])) => bound[i] = Filling(Signature[h][i])
  BY <1>1, RealmArgsInPlace
<1>4. ASSUME NEW i \in DOMAIN bound,
             \A j \in 1 .. i : Signature[h][j].name \in Injected \cup defaults
      PROVE  /\ bound[i].which = Signature[h][i].name
             /\ bound[i].source = "injected" <=> bound[i].which \in Injected
  <2>1. i \in 1 .. Len(bound)
    <3>1. bound \in Seq(Arguments)
      BY <1>3
    <3> QED
      BY ONLY <3>1, i \in DOMAIN bound
  <2>2. bound[i] = Filling(Signature[h][i])
    BY <1>3, <1>4, <2>1 DEF Known
  <2>3. PICK p : p = Signature[h][i]
    OBVIOUS
  <2>4. /\ Filling(p).which = p.name
        /\ Filling(p).source = IF p.name \in Injected THEN "injected" ELSE "realm"
    BY DEF Filling, Argument
  <2> QED
    BY ONLY <2>2, <2>3, <2>4
<1> QED
  BY <1>2, <1>4 DEF RealmArgumentsInPlace

(* Every step keeps the arguments of the last invocation right.             *)
LEMMA StepCalling ==
    ASSUME CallingInv, [CallingNext]_callVars
    PROVE  CallingInv'
<1>0. TypeOK'
  <2>1. [Next]_vars
    BY DEF CallingNext, callVars, vars, SetDefaultArg, AddRoutes, HandleRpcCall,
           HandleAtRealmLevel, Invoked
  <2> QED
    BY <2>1, StepType DEF CallingInv
<1>1. ASSUME last'.outcome \notin {"called", "invalid_argument"}
      PROVE  ArgumentsFindTheirParameters'
  BY <1>1 DEF ArgumentsFindTheirParameters
<1>2. ASSUME last'.outcome # "realm level"
      PROVE  RealmArgumentsInPlace'
  BY <1>2 DEF RealmArgumentsInPlace
<1>3. CASE SetDefaultArg \/ AddRoutes \/ Invoked
  <2>1. last'.outcome = "none"
    BY <1>3 DEF SetDefaultArg, AddRoutes, Invoked, Idle
  <2> QED
    BY <1>0, <1>1, <1>2, <2>1 DEF CallingInv
<1>4. CASE HandleRpcCall
  <2>1. PICK u \in Uris, call \in Calls :
            last' = IF Resolve(u) = NoHandler THEN [Idle EXCEPT !.outcome = "no_such_procedure"]
                    ELSE Bind(Resolve(u), call)
    BY <1>4 DEF HandleRpcCall
  <2>2. UNCHANGED <<conversion, defaults>>
    BY <1>4 DEF HandleRpcCall
  <2>3. CASE Resolve(u) = NoHandler
    <3>1. last'.outcome = "no_such_procedure"
      BY <2>1, <2>3 DEF Idle
    <3> QED
      BY <1>0, <1>1, <1>2, <3>1 DEF CallingInv
  <2>4. CASE Resolve(u) # NoHandler
    <3>1. PICK h : h = Resolve(u)
      OBVIOUS
    <3>2. h \in Handlers
      <4>1. exact[u] \in Handlers \cup {NoHandler} /\ patterns \in Seq(Routes)
        BY DEF CallingInv, TypeOK
      <4>2. patterns # <<>> => patterns[1] \in Routes
        BY <4>1
      <4>3. patterns # <<>> => patterns[1].handler \in Handlers
        BY <4>2 DEF Routes
      <4> QED
        BY <2>4, <3>1, <4>1, <4>3 DEF Resolve
    <3>3. last' = Bind(h, call)
      BY <2>1, <2>4, <3>1
    <3>4. ArgumentsFindTheirParameters'
      BY <2>2, <3>2, <3>3, CallFindsParameters
    <3>5. last'.outcome # "realm level"
      <4>1. PICK s : /\ Rounds(s, h, call, Len(Signature[h]))
                     /\ Bind(h, call).outcome = Passed(h, s[Len(Signature[h])])
        BY <3>2, BindRounds
      <4>2. PICK t : t = s[Len(Signature[h])]
        OBVIOUS
      <4>3. t.outcome \in {"called", "raised", "invalid_argument"}
        BY <3>2, <4>1, <4>2, AfterEveryRound DEF After
      <4>4. Passed(h, t) # "realm level"
        BY <4>3 DEF Passed
      <4> QED
        BY <3>3, <4>1, <4>2, <4>4
    <3> QED
      BY <1>0, <1>2, <3>4, <3>5 DEF CallingInv
  <2> QED
    BY <2>3, <2>4
<1>5. CASE HandleAtRealmLevel
  <2>1. PICK h \in Handlers :
            last' = [handler |-> h, outcome |-> "realm level", bound |-> RealmLevelArgs(h)]
    BY <1>5 DEF HandleAtRealmLevel
  <2>2. RealmArgumentsInPlace'
    BY <1>5, <2>1, RealmHandlerFindsParameters DEF HandleAtRealmLevel
  <2>3. last'.outcome = "realm level"
    BY <2>1
  <2> QED
    BY <1>0, <1>1, <2>2, <2>3 DEF CallingInv
<1>6. CASE UNCHANGED callVars
  <2>1. UNCHANGED <<conversion, defaults, last>>
    BY <1>6 DEF callVars
  <2>2. /\ \A h, call, i : Rightful(h, call, i)' = Rightful(h, call, i)
        /\ \A k : Meant(k)' = Meant(k)
    BY <2>1 DEF Rightful, Meant
  <2>3. ArgumentsFindTheirParameters'
    BY <2>1, <2>2 DEF CallingInv, ArgumentsFindTheirParameters
  <2>4. RealmArgumentsInPlace'
    BY <2>1 DEF CallingInv, RealmArgumentsInPlace
  <2> QED
    BY <1>0, <2>3, <2>4 DEF CallingInv
<1> QED
  BY <1>3, <1>4, <1>5, <1>6 DEF CallingNext

LEMMA CallingIsInvariant == CallingSpec => []CallingInv
<1>1. CallingInit => CallingInv
  <2>1. CallingInit => TypeOK
    BY DEF CallingInit, Init, TypeOK
  <2>2. CallingInit => last.outcome = "none"
    BY DEF CallingInit, Idle
  <2> QED
    BY <2>1, <2>2 DEF CallingInv, ArgumentsFindTheirParameters, RealmArgumentsInPlace
<1> QED
  BY <1>1, StepCalling, PTL DEF CallingSpec

(* Whatever procedures and calls there are, whatever camel_to_snake makes   *)
(* of which key, whatever signatures with distinct names, and whatever mix of *)
(* positional and keyword arguments and defaults: a procedure that is       *)
(* called gets in every parameter the argument that is for it and no        *)
(* argument of the caller twice; invalid_argument is said of a parameter    *)
(* without any, and always.                                                 *)
THEOREM ArgumentsAreFound == CallingSpec => []ArgumentsFindTheirParameters
<1>1. CallingInv => ArgumentsFindTheirParameters
  BY DEF CallingInv
<1> QED
  BY <1>1, CallingIsInvariant, PTL

(* Whatever a subscription or session state handler asks for: up to the     *)
(* first name that nobody knows it gets what serverwamp injects and the     *)
(* defaults of the realm in the parameters of those names, the former       *)
(* before the latter.                                                       *)
THEOREM RealmArgumentsAreInPlace == CallingSpec => []RealmArgumentsInPlace
<1>1. CallingInv => RealmArgumentsInPlace
  BY DEF CallingInv
<1> QED
  BY <1>1, CallingIsInvariant, PTL
=============================================================================

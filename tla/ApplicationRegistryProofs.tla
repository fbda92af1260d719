---------------------- MODULE ApplicationRegistryProofs ----------------------
(***************************************************************************)
(* The session's subscription registry, proved for every value of the      *)
(* constants of module Application: it agrees with the exits that the      *)
(* application layer keeps, whichever topics share an id, and events go    *)
(* out only for subscriptions that have not ended.                         *)
(***************************************************************************)
EXTENDS ApplicationCleanupProofs

USE SessionAssumption, ApplicationAssumption

(* The tuples of variables that actions leave unchanged are shorthands.     *)
USE DEF connectionVars, openVars, registryVars, sessionVars, controlVars,
        authVars, taskVars, subVars, stateVars, cleanVars, closerVars,
        handlerFrame, mainFrame, cleanupFrame, closerFrame

-----------------------------------------------------------------------------
(* What changes the registry: the two inline handlers, and nothing else.    *)
RegistryMove(c) ==
    \/ UNCHANGED <<subscriptions[c], subscription_ids[c]>>
    \/ \E k \in RequestNumbers : SubscribeStart(c, k) \/ UnsubscribeExited(c, k)

LEMMA OwnRegistry ==
    ASSUME NEW c \in Conns, ConnStep(c)
    PROVE  RegistryMove(c)
<1> USE DEF RegistryMove
<1>1. CASE Client(c) \/ SessionStep(c) \/ Cancel(c)
  BY <1>1
     DEF Client, ReceiveHello, RejectFirst, LeaveBeforeSession, Receive,
         ReceiveUnparsable, LeaveLoop, Disconnects, SessionStep, Rejected,
         StateHandlersStarted, StateHandlersFailed, TransportAuthenticated,
         Challenge, Welcomed, Refused, SessionRaises, Aborted, CleanedUp,
         Gathered, FrameworkClose, Cancel, CancelStartingHandlers,
         CancelSession, CancelInline, CancelAbort, CancelShielded, CancelGather,
         GatheredResult
<1>2. CASE \/ CloserStep(c) \/ CleanupStep(c)
           \/ \E s \in StateHandlers : StateHandlerStep(c, s)
           \/ \E t \in Topics : Publish(c, t)
  BY <1>2
     DEF CloserStep, CloserStart, CloserSent, StateHandlerStep, Publish,
         CleanupStep, CleanupBegins, CleanupSubscription, CleanupTurnsToStates,
         CleanupState, CleanupEnds
<1>3. ASSUME NEW k \in RequestNumbers, HandlerStep(c, k)
      PROVE  RegistryMove(c)
  BY <1>3
     DEF HandlerStep, CallStart, CallProgress, CallAnswer, CallExhausted,
         Answer, HandlerCancelled, CallRaises, GoodbyeStart, GoodbyeSent,
         SubscribeEntered, SubscribeRaises, UnsubscribeStart,
         UnsubscribeUnknown, UnsubscribeRaises, HandlerSent, HandlerSendRaises
<1> QED
  BY <1>1, <1>2, <1>3 DEF ConnStep

-----------------------------------------------------------------------------
(* The inductive invariant of the registry, until the loop is left: what an *)
(* id names is a subscribed topic of that id; the registry and the exits    *)
(* agree on every id but the one whose handler is on its way from one to    *)
(* the other.                                                               *)
Agree(c, i) ==
    /\ sub_exits[c][i] = 0 <=> subscription_ids[c][i] = NoTopic
    /\ sub_exits[c][i] # 0 =>
        /\ Is(c, sub_exits[c][i], "SUBSCRIBE")
        /\ requests[c][sub_exits[c][i]].topic = subscription_ids[c][i]

Entering(c, i) == LastIs(c, "entering") /\ IdOf(c, LastRequest(c)) = i

Exiting(c, i) == LastIs(c, "exiting") /\ requests[c][LastRequest(c)].id = i

RegistryOK(c) ==
    pc[c] \notin Left =>
        /\ \A i \in SubIds : subscription_ids[c][i] # NoTopic =>
            /\ subscription_ids[c][i] \in subscriptions[c]
            /\ SubIdOf[subscription_ids[c][i]] = i
        /\ \A i \in SubIds : Agree(c, i) \/ Entering(c, i) \/ Exiting(c, i)
        /\ LastIs(c, "entering") =>
            subscription_ids[c][IdOf(c, LastRequest(c))] = requests[c][LastRequest(c)].topic
        /\ \A i \in SubIds : Exiting(c, i) =>
            subscription_ids[c][i] # NoTopic /\ sub_exits[c][i] = 0

RegistryInv == \A c \in Conns : RegistryOK(c)

(* The handlers that move the exits and the registry.                       *)
MovesExits(c) ==
    \E k \in RequestNumbers :
        \/ SubscribeStart(c, k) \/ SubscribeEntered(c, k)
        \/ UnsubscribeStart(c, k) \/ UnsubscribeExited(c, k)

(* Other steps that do not leave the loop move neither.                     *)
LEMMA OthersKeepExits ==
    ASSUME TypeOK, CallInv, NEW c \in Conns, ControlOK(c), ConnStep(c),
           ~MovesExits(c), pc[c] \notin Left
    PROVE  UNCHANGED <<subscriptions[c], subscription_ids[c], sub_exits[c]>>
<1>1. UNCHANGED <<subscriptions[c], subscription_ids[c]>>
  BY OwnRegistry DEF RegistryMove, MovesExits
<1>2. ~CleanupBegins(c)
  BY DEF ControlOK, LeaveOK, CleanupBegins
<1>3. UNCHANGED sub_exits[c]
  BY <1>2, OwnIterators
     DEF IterMove, MovesExits, SubscribeRaises, UnsubscribeRaises, CancelInline,
         CleanupSubscription
<1> QED
  BY <1>1, <1>3

(* An inline handler that raises takes the coroutine out of the loop.       *)
LEMMA InlineRaises ==
    ASSUME TypeOK, CallInv, NEW c \in Conns, NEW k \in DOMAIN requests[c],
           IsInline(requests[c][k]), HandlerRaises(c, k)
    PROVE  pc'[c] \in Left
  BY FunctionTypes DEF HandlerRaises, Unwind, Left

(* ... nor does any of them begin or end the wait for such a handler.       *)
LEMMA OthersKeepWaiting ==
    ASSUME TypeOK, CallInv, NEW c \in Conns, ControlOK(c), ControlOK(c)', ConnStep(c),
           ~MovesExits(c), pc'[c] \notin Left, NEW state \in {"entering", "exiting"}
    PROVE  /\ LastIs(c, state) => LastIs(c, state)' /\ UNCHANGED requests[c]
           /\ LastIs(c, state)' => LastIs(c, state)
<1> USE FunctionTypes
<1>1. CASE pc[c] = "handling"
  <2>1. CASE /\ UNCHANGED <<pc[c], requests[c]>>
             /\ task'[c][LastRequest(c)] = task[c][LastRequest(c)]
    <3>1. LastRequest(c)' = LastRequest(c)
      BY <2>1 DEF LastRequest
    <3> QED
      BY <2>1, <3>1 DEF LastIs
  <2>2. ~CancelInline(c)
    BY DEF CancelInline, Unwind, Left
  <2>3. ASSUME LastRequest(c) \in RequestNumbers, HandlerStep(c, LastRequest(c))
        PROVE  ~LastIs(c, state) /\ ~LastIs(c, state)'
    <3> DEFINE k == LastRequest(c)
    <3>1. k \in DOMAIN requests[c] /\ IsInline(requests[c][k]) /\ UNCHANGED requests
      BY <1>1, <2>3, HandlerMoves DEF ControlOK, InlineOK
    <3>2. ~HandlerRaises(c, k)
      BY <3>1, InlineRaises
    <3>3. LastRequest(c)' = k
      BY <3>1 DEF LastRequest
    <3>4. task[c][k] # state /\ task'[c][k] # state
      BY <2>3, <3>2
         DEF HandlerStep, CallStart, CallProgress, CallAnswer, CallExhausted,
             Answer, HandlerCancelled, CallRaises, GoodbyeStart, GoodbyeSent,
             SubscribeRaises, UnsubscribeUnknown, UnsubscribeRaises,
             HandlerSent, HandlerSendRaises, Handling, HandlerWaits,
             HandlerReturns, MovesExits
    <3> QED
      BY <3>3, <3>4 DEF LastIs
  <2> QED
    BY <1>1, <2>1, <2>2, <2>3, InlineWaits
<1>2. CASE pc[c] # "handling"
  <2>1. ~LastIs(c, state)
    BY <1>2 DEF LastIs
  <2>2. ASSUME LastIs(c, state)'
        PROVE  FALSE
    <3>1. PICK k \in DOMAIN requests'[c] :
            /\ pc'[c] = "handling" /\ IsInline(requests'[c][k]) /\ task'[c][k] = state
      BY <2>2 DEF LastIs, LastRequest, ControlOK, InlineOK
    <3>2. /\ k \in DOMAIN requests[c] /\ k \in RequestNumbers
          /\ requests'[c][k] = requests[c][k]
      BY <3>1, RequestsStay
    <3>3. task[c][k] \notin LiveTask
      BY <1>2, <3>1, <3>2 DEF ControlOK, InlineOK
    <3>4. TaskMove(c, k)
      BY <3>2, OwnTasks
    <3>5. HandlerStep(c, k) => task[c][k] \in LiveTask
      BY <3>2, HandlerMoves
    <3> QED
      BY <3>1, <3>2, <3>3, <3>4, <3>5 DEF TaskMove, LiveTask
  <2> QED
    BY <2>1, <2>2
<1> QED
  BY <1>1, <1>2

LEMMA OwnRegistryOK ==
    ASSUME TypeOK, CallInv, NEW c \in Conns, ControlOK(c), ControlOK(c)', SubsOK(c),
           ConnStep(c), RegistryOK(c)
    PROVE  RegistryOK(c)'
<1> SUFFICES ASSUME pc'[c] \notin Left
             PROVE  RegistryOK(c)'
  BY DEF RegistryOK
<1> USE FunctionTypes
<1>1. pc[c] \notin Left
  BY OwnAdvances DEF Advances, Left
<1>2. ASSUME NEW i \in SubIds, Agree(c, i),
             UNCHANGED <<sub_exits[c][i], subscription_ids[c][i]>>
      PROVE  Agree(c, i)'
  <2>1. CASE sub_exits[c][i] = 0
    BY <1>2, <2>1 DEF Agree
  <2>2. CASE sub_exits[c][i] # 0
    <3>1. PICK k \in DOMAIN requests[c] :
            /\ sub_exits[c][i] = k /\ Is(c, k, "SUBSCRIBE")
            /\ requests[c][k].topic = subscription_ids[c][i]
      BY <1>2, <2>2 DEF Agree, Is
    <3>2. k \in DOMAIN requests'[c] /\ requests'[c][k] = requests[c][k]
      BY <3>1, RequestsStay
    <3> QED
      BY <1>2, <2>2, <3>1, <3>2 DEF Agree, Is
  <2> QED
    BY <2>1, <2>2
<1>3. ASSUME NEW k \in RequestNumbers, NEW kind \in ALWAYS_SYNCHRONIZE, NEW state \in LiveTask,
             Handling(c, k, kind, {state})
      PROVE  /\ k \in DOMAIN requests[c] /\ requests[c][k].kind = kind
             /\ k = LastRequest(c) /\ pc[c] = "handling" /\ task[c][k] = state
  <2>1. {state} \in SUBSET LiveTask
    OBVIOUS
  <2>2. k \in DOMAIN requests[c] /\ requests[c][k].kind = kind
    BY <1>3 DEF Handling
  <2> QED
    BY <1>3, <2>1, <2>2, InlineHandling
<1>4. ASSUME NEW k \in RequestNumbers, NEW from, NEW to, k = LastRequest(c),
             pc[c] = "handling", task[c][k] = from, HandlerWaits(c, k, to), UNCHANGED requests
      PROVE  /\ LastRequest(c)' = k /\ requests'[c] = requests[c]
             /\ \A state : LastIs(c, state) <=> state = from
             /\ \A state : LastIs(c, state)' <=> state = to
  <2>1. LastRequest(c)' = k
    BY <1>4 DEF LastRequest
  <2>2. pc'[c] = "handling" /\ task'[c][k] = to
    BY <1>4 DEF HandlerWaits
  <2> QED
    BY <1>4, <2>1, <2>2 DEF LastIs
<1>5. CASE ~MovesExits(c)
  <2>1. UNCHANGED <<subscriptions[c], subscription_ids[c], sub_exits[c]>>
    BY <1>1, <1>5, OthersKeepExits
  <2>2. \A state \in {"entering", "exiting"} :
            /\ LastIs(c, state) => LastIs(c, state)' /\ UNCHANGED requests[c]
            /\ LastIs(c, state)' => LastIs(c, state)
    BY <1>5, OthersKeepWaiting
  <2>3. LastIs(c, "entering") => LastIs(c, "entering")' /\ UNCHANGED requests[c]
    BY <2>2
  <2>4. LastIs(c, "exiting") => LastIs(c, "exiting")' /\ UNCHANGED requests[c]
    BY <2>2
  <2>5. /\ LastIs(c, "entering")' => LastIs(c, "entering")
        /\ LastIs(c, "exiting")' => LastIs(c, "exiting")
    BY <2>2
  <2>6. ASSUME NEW i \in SubIds
        PROVE  Agree(c, i)' \/ Entering(c, i)' \/ Exiting(c, i)'
    <3>1. CASE Agree(c, i)
      BY <1>2, <2>1, <3>1
    <3>2. CASE Entering(c, i)
      BY <2>3, <3>2 DEF Entering, IdOf, LastRequest
    <3>3. CASE Exiting(c, i)
      BY <2>4, <3>3 DEF Exiting, LastRequest
    <3> QED
      BY <1>1, <3>1, <3>2, <3>3 DEF RegistryOK
  <2>7. LastIs(c, "entering")' =>
            subscription_ids'[c][(IdOf(c, LastRequest(c)))'] = requests'[c][LastRequest(c)'].topic
    BY <1>1, <2>1, <2>3, <2>5 DEF RegistryOK, IdOf, LastRequest
  <2>8. ASSUME NEW i \in SubIds, Exiting(c, i)'
        PROVE  subscription_ids'[c][i] # NoTopic /\ sub_exits'[c][i] = 0
    BY <1>1, <2>1, <2>4, <2>5, <2>8 DEF RegistryOK, Exiting, LastRequest
  <2> QED
    BY <1>1, <2>1, <2>6, <2>7, <2>8 DEF RegistryOK
<1>6. ASSUME NEW k \in RequestNumbers, SubscribeStart(c, k)
      PROVE  RegistryOK(c)'
  <2> DEFINE t == requests[c][k].topic
  <2>1. /\ k \in DOMAIN requests[c] /\ requests[c][k].kind = "SUBSCRIBE"
        /\ k = LastRequest(c) /\ pc[c] = "handling" /\ task[c][k] = "ready"
    BY <1>3, <1>6 DEF SubscribeStart, ALWAYS_SYNCHRONIZE, LiveTask
  <2>2. /\ HandlerWaits(c, k, "entering") /\ UNCHANGED <<requests, sub_exits>>
        /\ RegisterSubscription(c, t)
    BY <1>6 DEF SubscribeStart
  <2>3. /\ LastRequest(c)' = k /\ requests'[c] = requests[c]
        /\ ~LastIs(c, "entering") /\ ~LastIs(c, "exiting")
        /\ LastIs(c, "entering")' /\ ~LastIs(c, "exiting")'
    BY <1>4, <2>1, <2>2
  <2>4. t \in Topics /\ SubIdOf[t] \in SubIds
    BY <2>1, RequestType, SessionAssumption DEF TypeOK
  <2>5. /\ subscription_ids'[c][SubIdOf[t]] = t
        /\ \A i \in SubIds \ {SubIdOf[t]} : subscription_ids'[c][i] = subscription_ids[c][i]
        /\ subscriptions'[c] = subscriptions[c] \cup {t}
    BY <2>2, <2>4 DEF RegisterSubscription
  <2>6. ASSUME NEW i \in SubIds
        PROVE  Agree(c, i)' \/ Entering(c, i)'
    <3>1. CASE i = SubIdOf[t]
      BY <2>3, <3>1 DEF Entering, IdOf
    <3>2. CASE i # SubIdOf[t]
      <4>1. Agree(c, i)
        BY <1>1, <2>3 DEF RegistryOK, Entering, Exiting
      <4> QED
        BY <1>2, <2>2, <2>5, <3>2, <4>1
    <3> QED
      BY <3>1, <3>2
  <2>7. \A i \in SubIds : subscription_ids'[c][i] # NoTopic =>
            subscription_ids'[c][i] \in subscriptions'[c] /\ SubIdOf[subscription_ids'[c][i]] = i
    BY <1>1, <2>5 DEF RegistryOK
  <2> QED
    BY <2>3, <2>5, <2>6, <2>7 DEF RegistryOK, Exiting, IdOf
<1>7. ASSUME NEW k \in RequestNumbers, SubscribeEntered(c, k)
      PROVE  RegistryOK(c)'
  <2>1. /\ k \in DOMAIN requests[c] /\ requests[c][k].kind = "SUBSCRIBE"
        /\ k = LastRequest(c) /\ pc[c] = "handling" /\ task[c][k] = "entering"
    BY <1>3, <1>7 DEF SubscribeEntered, ALWAYS_SYNCHRONIZE, LiveTask
  <2>2. /\ HandlerWaits(c, k, "acking") /\ UNCHANGED <<requests, registryVars>>
        /\ sub_exits' = [sub_exits EXCEPT ![c][IdOf(c, k)] = k]
    BY <1>7 DEF SubscribeEntered, IdOf
  <2>3. /\ LastRequest(c)' = k /\ requests'[c] = requests[c]
        /\ LastIs(c, "entering") /\ ~LastIs(c, "exiting")
        /\ ~LastIs(c, "entering")' /\ ~LastIs(c, "exiting")'
    BY <1>4, <2>1, <2>2
  <2>4. requests[c][k].topic \in Topics /\ IdOf(c, k) \in SubIds
    BY <2>1, RequestType, SessionAssumption DEF TypeOK, IdOf
  <2>5. subscription_ids[c][IdOf(c, k)] = requests[c][k].topic
    BY <1>1, <2>1, <2>3 DEF RegistryOK
  <2>6. ASSUME NEW i \in SubIds
        PROVE  Agree(c, i)'
    <3>1. CASE i = IdOf(c, k)
      <4>1. sub_exits'[c][i] = k /\ k # 0
        BY <2>2, <2>4, <3>1 DEF RequestNumbers
      <4>2. Is(c, k, "SUBSCRIBE")'
        BY <2>1, <2>3 DEF Is
      <4> QED
        BY <2>2, <2>3, <2>4, <2>5, <3>1, <4>1, <4>2, SessionAssumption
           DEF Agree, Is
    <3>2. CASE i # IdOf(c, k)
      <4>1. Agree(c, i)
        BY <1>1, <2>1, <2>3, <3>2 DEF RegistryOK, Entering, Exiting
      <4>2. sub_exits'[c][i] = sub_exits[c][i]
        BY <2>2, <3>2
      <4> QED
        BY <1>2, <2>2, <4>1, <4>2
    <3> QED
      BY <3>1, <3>2
  <2> QED
    BY <1>1, <2>2, <2>3, <2>6 DEF RegistryOK, Exiting
<1>8. ASSUME NEW k \in RequestNumbers, UnsubscribeStart(c, k)
      PROVE  RegistryOK(c)'
  <2> DEFINE id == requests[c][k].id
  <2>1. /\ k \in DOMAIN requests[c] /\ requests[c][k].kind = "UNSUBSCRIBE"
        /\ k = LastRequest(c) /\ pc[c] = "handling" /\ task[c][k] = "ready"
    BY <1>3, <1>8 DEF UnsubscribeStart, ALWAYS_SYNCHRONIZE, LiveTask
  <2>2. /\ HandlerWaits(c, k, "exiting") /\ UNCHANGED <<requests, registryVars>>
        /\ sub_exits[c][id] # 0 /\ sub_exits' = [sub_exits EXCEPT ![c][id] = 0]
    BY <1>8 DEF UnsubscribeStart
  <2>3. /\ LastRequest(c)' = k /\ requests'[c] = requests[c]
        /\ ~LastIs(c, "entering") /\ ~LastIs(c, "exiting")
        /\ ~LastIs(c, "entering")' /\ LastIs(c, "exiting")'
    BY <1>4, <2>1, <2>2
  <2>4. id \in SubIds
    BY <2>1, RequestType DEF TypeOK
  <2>5. \A i \in SubIds : Agree(c, i)
    BY <1>1, <2>3 DEF RegistryOK, Entering, Exiting
  <2>6. sub_exits'[c][id] = 0 /\ subscription_ids'[c][id] # NoTopic
    BY <2>2, <2>4, <2>5 DEF Agree
  <2>7. ASSUME NEW i \in SubIds
        PROVE  Agree(c, i)' \/ Exiting(c, i)'
    <3>1. CASE i = id
      BY <2>3, <3>1 DEF Exiting
    <3>2. CASE i # id
      BY <1>2, <2>2, <2>5, <3>2
    <3> QED
      BY <3>1, <3>2
  <2> QED
    BY <1>1, <2>2, <2>3, <2>6, <2>7 DEF RegistryOK, Exiting
<1>9. ASSUME NEW k \in RequestNumbers, UnsubscribeExited(c, k)
      PROVE  RegistryOK(c)'
  <2> DEFINE id == requests[c][k].id
             topic == subscription_ids[c][id]
  <2>1. /\ k \in DOMAIN requests[c] /\ requests[c][k].kind = "UNSUBSCRIBE"
        /\ k = LastRequest(c) /\ pc[c] = "handling" /\ task[c][k] = "exiting"
    BY <1>3, <1>9 DEF UnsubscribeExited, ALWAYS_SYNCHRONIZE, LiveTask
  <2>2. /\ HandlerWaits(c, k, "acking") /\ UNCHANGED <<requests, sub_exits>>
        /\ UnregisterSubscription(c, id)
    BY <1>9 DEF UnsubscribeExited
  <2>3. /\ LastRequest(c)' = k /\ requests'[c] = requests[c]
        /\ ~LastIs(c, "entering") /\ LastIs(c, "exiting")
        /\ ~LastIs(c, "entering")' /\ ~LastIs(c, "exiting")'
    BY <1>4, <2>1, <2>2
  <2>4. id \in SubIds
    BY <2>1, RequestType DEF TypeOK
  <2>5. sub_exits[c][id] = 0 /\ topic # NoTopic /\ SubIdOf[topic] = id
    BY <1>1, <2>1, <2>3, <2>4 DEF RegistryOK, Exiting
  <2>6. /\ subscription_ids'[c][id] = NoTopic
        /\ \A i \in SubIds \ {id} : subscription_ids'[c][i] = subscription_ids[c][i]
        /\ subscriptions[c] \ {topic} \subseteq subscriptions'[c]
    BY <2>2, <2>4 DEF UnregisterSubscription
  <2>7. ASSUME NEW i \in SubIds
        PROVE  Agree(c, i)'
    <3>1. CASE i = id
      BY <2>2, <2>5, <2>6, <3>1 DEF Agree
    <3>2. CASE i # id
      <4>1. Agree(c, i)
        BY <1>1, <2>1, <2>3, <3>2 DEF RegistryOK, Entering, Exiting
      <4> QED
        BY <1>2, <2>2, <2>6, <3>2, <4>1
    <3> QED
      BY <3>1, <3>2
  <2>8. \A i \in SubIds : subscription_ids'[c][i] # NoTopic =>
            subscription_ids'[c][i] \in subscriptions'[c] /\ SubIdOf[subscription_ids'[c][i]] = i
    BY ZenonT(60), <1>1, <2>5, <2>6 DEF RegistryOK
  <2> QED
    BY <2>3, <2>7, <2>8 DEF RegistryOK, Exiting
<1> QED
  BY <1>5, <1>6, <1>7, <1>8, <1>9 DEF MovesExits

LEMMA StepRegistryInv ==
    ASSUME TypeOK, CallInv, ControlInv, ControlInv', SubsInv, RegistryInv, [Next]_vars
    PROVE  RegistryInv'
<1>1. ASSUME NEW c \in Conns, Same(c)
      PROVE  RegistryOK(c)'
  BY <1>1
     DEF Same, RegistryInv, RegistryOK, Agree, Entering, Exiting, LastIs,
         LastRequest, IdOf, Is
<1>2. ASSUME NEW c \in Conns, ConnStep(c)
      PROVE  RegistryOK(c)'
  BY <1>2, OwnRegistryOK DEF RegistryInv, SubsInv, ControlInv
<1> QED
  BY <1>1, <1>2, StepOfOne DEF RegistryInv

(* RegistryInv is an invariant of the application layer.                    *)
THEOREM RegistryInvariant == Spec => []RegistryInv
<1>1. Init => RegistryInv
  <2> SUFFICES ASSUME Init, NEW c \in Conns PROVE RegistryOK(c)
    BY DEF RegistryInv
  <2>1. /\ pc[c] = "hello"
        /\ \A i \in SubIds : sub_exits[c][i] = 0 /\ subscription_ids[c][i] = NoTopic
    BY DEF Init, SessionInit
  <2> QED
    BY <2>1 DEF RegistryOK, Agree, LastIs, Exiting
<1>2. TypeOK /\ CallInv /\ ControlInv /\ ControlInv' /\ SubsInv /\ RegistryInv /\ [Next]_vars
        => RegistryInv'
  BY StepRegistryInv
<1> QED
  BY <1>1, <1>2, TypeCorrect, CallInvariant, ControlInvariant, SubsInvariant,
     PTL
     DEF Spec

(* Between requests the registry and the exits agree, so that the handler   *)
(* of UNSUBSCRIBE, which pops from both, never raises halfway.              *)
THEOREM RegistryAgreesWithExits == Spec => []RegistryMatchesExits
<1>1. TypeOK /\ RegistryInv => RegistryMatchesExits
  <2> SUFFICES ASSUME TypeOK, RegistryInv, NEW c \in Conns, pc[c] = "loop", NEW i \in SubIds
               PROVE  /\ sub_exits[c][i] = 0 <=> subscription_ids[c][i] = NoTopic
                      /\ sub_exits[c][i] # 0 =>
                          /\ Is(c, sub_exits[c][i], "SUBSCRIBE")
                          /\ requests[c][sub_exits[c][i]].topic = subscription_ids[c][i]
                          /\ subscription_ids[c][i] \in subscriptions[c]
                          /\ SubIdOf[subscription_ids[c][i]] = i
    BY DEF RegistryMatchesExits
  <2>1. Agree(c, i)
    BY DEF RegistryInv, RegistryOK, Entering, Exiting, LastIs, Left
  <2>2. subscription_ids[c][i] # NoTopic =>
            subscription_ids[c][i] \in subscriptions[c] /\ SubIdOf[subscription_ids[c][i]] = i
    BY DEF RegistryInv, RegistryOK, Left
  <2> QED
    BY <2>1, <2>2 DEF Agree
<1> QED
  BY <1>1, TypeCorrect, RegistryInvariant, PTL

-----------------------------------------------------------------------------
(* The inductive invariant of the events: a topic that is subscribed and    *)
(* alone under its id has a request that no UNSUBSCRIBE after it has ended, *)
(* and so had every event when it was sent.                                 *)
Asked(c, id, k) == Is(c, k, "SUBSCRIBE") /\ SubIdOf[requests[c][k].topic] = id

(* The requests from k on that ask to end id.                               *)
Enders(c, id, k) ==
    {l \in k..MaxRequests : Is(c, l, "UNSUBSCRIBE") /\ requests[c][l].id = id}

SubscribedOK(c) ==
    \A t \in subscriptions[c] : Unique(SubIdOf[t]) =>
        \E k \in RequestNumbers :
            /\ Asked(c, SubIdOf[t], k)
            /\ \A l \in Enders(c, SubIdOf[t], k) : About(c, l, {"UNSUBSCRIBED"}) = {}

EventsOK(c) ==
    \A e \in Sent(c, {"EVENT"}) : Unique(out[c][e].ref) =>
        \E k \in RequestNumbers :
            /\ Asked(c, out[c][e].ref, k)
            /\ \A l \in Enders(c, out[c][e].ref, k) :
                    \A i \in About(c, l, {"UNSUBSCRIBED"}) : ~(i < e)

EventsInv == \A c \in Conns : SubscribedOK(c) /\ EventsOK(c)

(* What has been asked stays asked; a request that is new ends what was     *)
(* asked before it, but nothing has been said about it.                     *)
LEMMA AskedStaysAsked ==
    ASSUME TypeOK, CallInv, NEW c \in Conns, ControlOK(c), ConnStep(c), AnswerOK(c),
           NEW id, NEW k \in RequestNumbers, Asked(c, id, k)
    PROVE  /\ Asked(c, id, k)'
           /\ \A l \in Enders(c, id, k)' :
                  l \in Enders(c, id, k) \/ About(c, l, {"UNSUBSCRIBED"}) = {}
<1>1. Asked(c, id, k)'
  BY RequestsStay DEF Asked, Is
<1>2. ASSUME NEW l \in Enders(c, id, k)'
      PROVE  l \in Enders(c, id, k) \/ About(c, l, {"UNSUBSCRIBED"}) = {}
  <2>1. CASE l \in DOMAIN requests[c]
    <3>1. requests'[c][l] = requests[c][l]
      BY <2>1, RequestsStay
    <3> QED
      BY <1>2, <2>1, <3>1 DEF Enders, Is
  <2>2. CASE l \notin DOMAIN requests[c]
    BY <2>2 DEF AnswerOK, About, Refs, Sent, ToldOf, Responses, Acks
  <2> QED
    BY <2>1, <2>2
<1> QED
  BY <1>1, <1>2

(* What a message adds to the events, and to the ends that were told.       *)
LEMMA EventCases ==
    ASSUME TypeOK, NEW c \in Conns, NEW type, NEW ref,
           out'[c] = Append(out[c], Msg(type, ref))
    PROVE  \A e \in Sent(c, {"EVENT"})' :
              \/ e \in Sent(c, {"EVENT"}) /\ out'[c][e].ref = out[c][e].ref
              \/ e = Len(out[c]) + 1 /\ type = "EVENT" /\ out'[c][e].ref = ref
  BY OutAppend DEF Sent

LEMMA EndCases ==
    ASSUME TypeOK, NEW c \in Conns, NEW type, NEW ref,
           out'[c] = Append(out[c], Msg(type, ref))
    PROVE  \A e \in Sent(c, {"UNSUBSCRIBED"})' :
              \/ e \in Sent(c, {"UNSUBSCRIBED"}) /\ out'[c][e].ref = out[c][e].ref
              \/ /\ e = Len(out[c]) + 1 /\ type = "UNSUBSCRIBED"
                 /\ out'[c][e].ref = ref
  BY OutAppend DEF Sent

(* What is said of a request's end was said before, or is said now as its   *)
(* topic leaves the registry.                                               *)
LEMMA SaidOfEnd ==
    ASSUME TypeOK, CallInv, NEW c \in Conns, ControlOK(c), ConnStep(c),
           NEW l, NEW i \in About(c, l, {"UNSUBSCRIBED"})'
    PROVE  \/ i \in About(c, l, {"UNSUBSCRIBED"})
           \/ /\ i = Len(out[c]) + 1
              /\ l \in RequestNumbers /\ UnsubscribeExited(c, l)
              /\ subscription_ids[c][requests[c][l].id] \notin FalsyTopics
<1> USE FunctionTypes
<1>1. CASE UNCHANGED out[c]
  BY <1>1 DEF About, Sent
<1>2. CASE Says(c)
  <2>1. PICK type \in MsgTypes, ref \in Nat :
          out'[c] = Append(out[c], Msg(type, ref)) /\ Occasion(c, type, ref)
    BY <1>2 DEF Says
  <2>2. \/ i \in Sent(c, {"UNSUBSCRIBED"}) /\ out'[c][i].ref = out[c][i].ref
        \/ i = Len(out[c]) + 1 /\ type = "UNSUBSCRIBED" /\ ref = l
    <3>1. i \in Sent(c, {"UNSUBSCRIBED"})' /\ out'[c][i].ref = l
      BY DEF About
    <3>2. out'[c] = Append(out[c], Msg(type, ref))
      BY <2>1
    <3>3. \A j \in Sent(c, {"UNSUBSCRIBED"})' :
            \/ j \in Sent(c, {"UNSUBSCRIBED"}) /\ out'[c][j].ref = out[c][j].ref
            \/ /\ j = Len(out[c]) + 1 /\ type = "UNSUBSCRIBED"
               /\ out'[c][j].ref = ref
      BY <3>2, EndCases
    <3> QED
      BY <3>1, <3>3
  <2>3. CASE i \in Sent(c, {"UNSUBSCRIBED"}) /\ out'[c][i].ref = out[c][i].ref
    BY <2>3 DEF About
  <2>4. CASE i = Len(out[c]) + 1 /\ type = "UNSUBSCRIBED" /\ ref = l
    <3>1. /\ l \in RequestNumbers /\ requests[c][l].kind = "UNSUBSCRIBE"
          /\ task[c][l] = "exiting" /\ task'[c][l] = "acking"
      BY <2>1, <2>4 DEF Occasion, SaysAboutRequest, Final
    <3>2. TaskMove(c, l)
      BY <3>1, OwnTasks
    <3>3. HandlerStep(c, l)
      BY <3>1, <3>2 DEF TaskMove, ToldTask
    <3>4. UnsubscribeExited(c, l)
      BY <3>1, <3>3
         DEF HandlerStep, CallStart, CallProgress, CallAnswer, CallExhausted,
             Answer, HandlerCancelled, CallRaises, GoodbyeStart, GoodbyeSent,
             SubscribeStart, SubscribeEntered, SubscribeRaises,
             UnsubscribeStart, UnsubscribeUnknown, UnsubscribeRaises,
             HandlerSent, HandlerSendRaises, Handling, HandlerWaits,
             HandlerReturns, HandlerRaises
    <3>5. out'[c][Len(out[c]) + 1].type = "UNSUBSCRIBED"
      BY <2>1, <2>4, OutAppend
    <3>6. subscription_ids[c][requests[c][l].id] \in FalsyTopics =>
              out'[c] = out[c] \/ out'[c] = Append(out[c], Msg("ERROR", l))
      BY <3>4 DEF UnsubscribeExited, SendMsg
    <3>7. Len(out[c]) + 1 \in DOMAIN out'[c] /\ Len(out[c]) + 1 \notin DOMAIN out[c]
      BY <2>1, OutAppend
    <3>8. out'[c] # Append(out[c], Msg("ERROR", l))
      <4>1. out'[c] = Append(out[c], Msg("ERROR", l)) =>
                out'[c][Len(out[c]) + 1].type = "ERROR"
        BY OutAppend
      <4> QED
        BY <3>5, <4>1
    <3>9. subscription_ids[c][requests[c][l].id] \notin FalsyTopics
      BY <3>6, <3>7, <3>8
    <3> QED
      BY <2>4, <3>1, <3>4, <3>9
  <2> QED
    BY <2>2, <2>3, <2>4
<1> QED
  BY <1>1, <1>2, OwnSays

LEMMA OwnSubscribedOK ==
    ASSUME TypeOK, CallInv, NEW c \in Conns, ControlOK(c), AnswerOK(c),
           RegistryOK(c), SubscribedOK(c), ConnStep(c)
    PROVE  SubscribedOK(c)'
<1> SUFFICES ASSUME NEW t \in Topics, t \in subscriptions'[c], Unique(SubIdOf[t])
             PROVE  \E k \in RequestNumbers :
                        /\ Asked(c, SubIdOf[t], k)'
                        /\ \A l \in Enders(c, SubIdOf[t], k)' :
                                About(c, l, {"UNSUBSCRIBED"})' = {}
  <2>1. subscriptions'[c] \subseteq Topics
    <3>1. subscriptions[c] \subseteq Topics
      BY FunctionTypes
    <3>2. ASSUME NEW k \in RequestNumbers, SubscribeStart(c, k)
          PROVE  subscriptions'[c] \subseteq Topics
      <4>1. requests[c][k].topic \in Topics
        BY <3>2, RequestType DEF SubscribeStart, Handling, TypeOK
      <4> QED
        BY <3>1, <3>2, <4>1, FunctionTypes
           DEF SubscribeStart, RegisterSubscription
    <3>3. ASSUME NEW k \in RequestNumbers, UnsubscribeExited(c, k)
          PROVE  subscriptions'[c] \subseteq Topics
      BY <3>1, <3>3, FunctionTypes DEF UnsubscribeExited, UnregisterSubscription
    <3> QED
      BY <3>1, <3>2, <3>3, OwnRegistry DEF RegistryMove
  <2> QED
    BY <2>1 DEF SubscribedOK, Unique
<1> USE FunctionTypes
<1>1. CASE t \in subscriptions[c]
  <2>1. PICK k \in RequestNumbers :
            /\ Asked(c, SubIdOf[t], k)
            /\ \A l \in Enders(c, SubIdOf[t], k) : About(c, l, {"UNSUBSCRIBED"}) = {}
    BY <1>1 DEF SubscribedOK
  <2>2. /\ Asked(c, SubIdOf[t], k)'
        /\ \A l \in Enders(c, SubIdOf[t], k)' : About(c, l, {"UNSUBSCRIBED"}) = {}
    BY <2>1, AskedStaysAsked
  <2>3. ASSUME NEW l \in Enders(c, SubIdOf[t], k)', NEW i \in About(c, l, {"UNSUBSCRIBED"})'
        PROVE  FALSE
    <3> DEFINE id == requests[c][l].id
               topic == subscription_ids[c][id]
    <3>1. /\ l \in RequestNumbers /\ UnsubscribeExited(c, l)
          /\ topic \notin FalsyTopics
      BY <2>2, <2>3, SaidOfEnd
    <3>2. Handling(c, l, "UNSUBSCRIBE", {"exiting"}) /\ UnregisterSubscription(c, id)
      BY <3>1 DEF UnsubscribeExited
    <3>3. "UNSUBSCRIBE" \in ALWAYS_SYNCHRONIZE /\ {"exiting"} \in SUBSET LiveTask
      BY DEF ALWAYS_SYNCHRONIZE, LiveTask
    <3>4. /\ l \in DOMAIN requests[c] /\ l = LastRequest(c)
          /\ pc[c] = "handling" /\ task[c][l] \in {"exiting"}
      BY <3>2, <3>3, InlineHandling
    <3>5. id \in SubIds
      BY <3>2, <3>4, RequestType DEF Handling, TypeOK
    <3>6. id = SubIdOf[t]
      <4>1. requests'[c][l] = requests[c][l]
        BY <3>4, RequestsStay
      <4> QED
        BY <2>3, <4>1 DEF Enders
    <3>7. Exiting(c, id) /\ pc[c] \notin Left
      BY <3>4 DEF Exiting, LastIs, Left
    <3>8. topic # NoTopic /\ SubIdOf[topic] = id
      BY <3>5, <3>7 DEF RegistryOK
    <3>9. topic \in Topics
      <4>1. subscription_ids \in [Conns -> [SubIds -> Topics \cup {NoTopic}]]
        OBVIOUS
      <4>2. subscription_ids[c][id] \in Topics \cup {NoTopic}
        <5>1. c \in Conns /\ id \in SubIds
          BY <3>5
        <5> HIDE DEF id
        <5> QED
          BY ONLY <4>1, <5>1
      <4> QED
        BY <3>8, <4>2
    <3>10. topic = t
      BY <3>6, <3>8, <3>9 DEF Unique
    <3>11. t \notin subscriptions'[c]
      BY <3>1, <3>2, <3>10 DEF UnregisterSubscription
    <3> QED
      BY <3>11
  <2> QED
    BY <2>2, <2>3
<1>2. CASE t \notin subscriptions[c]
  <2>1. PICK k \in RequestNumbers : SubscribeStart(c, k) /\ requests[c][k].topic = t
    <3>0. \A k \in RequestNumbers : UnsubscribeExited(c, k) =>
            subscriptions'[c] \subseteq subscriptions[c]
      BY DEF UnsubscribeExited, UnregisterSubscription
    <3>1. PICK k \in RequestNumbers : SubscribeStart(c, k)
      BY <1>2, <3>0, OwnRegistry DEF RegistryMove
    <3> QED
      BY <1>2, <3>1 DEF SubscribeStart, RegisterSubscription
  <2>2. Handling(c, k, "SUBSCRIBE", {"ready"}) /\ UNCHANGED requests
    BY <2>1 DEF SubscribeStart
  <2>3. "SUBSCRIBE" \in ALWAYS_SYNCHRONIZE /\ {"ready"} \in SUBSET LiveTask
    BY DEF ALWAYS_SYNCHRONIZE, LiveTask
  <2>4. k \in DOMAIN requests[c] /\ k = LastRequest(c)
    BY <2>2, <2>3, InlineHandling
  <2>5. Asked(c, SubIdOf[t], k)'
    BY <2>1, <2>2, <2>4 DEF Asked, Is, Handling
  <2>6. Enders(c, SubIdOf[t], k)' = {}
    <3>1. \A l \in k..MaxRequests : l \in DOMAIN requests[c] => l = k
      <4>1. requests[c] \in Seq(ClientRequests)
        OBVIOUS
      <4> QED
        BY <2>4, <4>1 DEF LastRequest, RequestNumbers
    <3> QED
      BY <2>2, <3>1 DEF Enders, Is, Handling
  <2> QED
    BY <2>5, <2>6
<1> QED
  BY <1>1, <1>2

LEMMA OwnEventsOK ==
    ASSUME TypeOK, CallInv, NEW c \in Conns, ControlOK(c), AnswerOK(c),
           SubscribedOK(c), EventsOK(c), ConnStep(c)
    PROVE  EventsOK(c)'
<1>1. ASSUME NEW e \in Sent(c, {"EVENT"}), NEW id, out[c][e].ref = id, Unique(id)
      PROVE  \E k \in RequestNumbers :
                /\ Asked(c, id, k)'
                /\ \A l \in Enders(c, id, k)' :
                        \A i \in About(c, l, {"UNSUBSCRIBED"})' : ~(i < e)
  <2>1. PICK k \in RequestNumbers :
            /\ Asked(c, id, k)
            /\ \A l \in Enders(c, id, k) : \A i \in About(c, l, {"UNSUBSCRIBED"}) : ~(i < e)
    BY <1>1 DEF EventsOK
  <2>2. /\ Asked(c, id, k)'
        /\ \A l \in Enders(c, id, k)' :
              l \in Enders(c, id, k) \/ About(c, l, {"UNSUBSCRIBED"}) = {}
    BY <2>1, AskedStaysAsked
  <2>3. ASSUME NEW l \in Enders(c, id, k)', NEW i \in About(c, l, {"UNSUBSCRIBED"})'
        PROVE  ~(i < e)
    <3>1. CASE i \in About(c, l, {"UNSUBSCRIBED"})
      BY <2>1, <2>2, <3>1
    <3>2. CASE i = Len(out[c]) + 1
      BY <3>2, SentRange
    <3> QED
      BY <3>1, <3>2, SaidOfEnd
  <2> QED
    BY <2>2, <2>3
<1>2. CASE UNCHANGED out[c]
  BY <1>1, <1>2 DEF EventsOK, Sent
<1>3. CASE Says(c)
  <2>1. PICK type \in MsgTypes, ref \in Nat :
          /\ out'[c] = Append(out[c], Msg(type, ref)) /\ Occasion(c, type, ref)
          /\ UNCHANGED requests[c]
    BY <1>3 DEF Says
  <2>2. \A e \in Sent(c, {"EVENT"})' :
            \/ e \in Sent(c, {"EVENT"}) /\ out'[c][e].ref = out[c][e].ref
            \/ e = Len(out[c]) + 1 /\ type = "EVENT" /\ out'[c][e].ref = ref
    <3>1. out'[c] = Append(out[c], Msg(type, ref))
      BY <2>1
    <3> QED
      BY <3>1, EventCases
  <2> SUFFICES ASSUME NEW e \in Sent(c, {"EVENT"})', NEW id, out'[c][e].ref = id, Unique(id)
               PROVE  \E k \in RequestNumbers :
                        /\ Asked(c, id, k)'
                        /\ \A l \in Enders(c, id, k)' :
                                \A i \in About(c, l, {"UNSUBSCRIBED"})' : ~(i < e)
    BY DEF EventsOK
  <2>3. CASE e \in Sent(c, {"EVENT"}) /\ out'[c][e].ref = out[c][e].ref
    BY <1>1, <2>3
  <2>4. CASE e = Len(out[c]) + 1 /\ type = "EVENT" /\ ref = id
    <3>1. PICK t \in subscriptions[c] : id = SubIdOf[t]
      BY <2>1, <2>4 DEF Occasion, SaysAboutRequest, Final
    <3>2. PICK k \in RequestNumbers :
            /\ Asked(c, id, k)
            /\ \A l \in Enders(c, id, k) : About(c, l, {"UNSUBSCRIBED"}) = {}
      BY <3>1 DEF SubscribedOK
    <3>3. /\ Asked(c, id, k)'
          /\ \A l \in Enders(c, id, k)' : About(c, l, {"UNSUBSCRIBED"}) = {}
      BY <3>2, AskedStaysAsked
    <3>4. ASSUME NEW l \in Enders(c, id, k)' PROVE About(c, l, {"UNSUBSCRIBED"})' = {}
      <4>1. "EVENT" \notin {"UNSUBSCRIBED"}
        OBVIOUS
      <4>5. out'[c] = Append(out[c], Msg("EVENT", id))
        BY <2>1, <2>4
      <4>2. Sent(c, {"UNSUBSCRIBED"})' = Sent(c, {"UNSUBSCRIBED"})
        BY <4>1, <4>5, SentAppend
      <4>3. \A i \in Sent(c, {"UNSUBSCRIBED"}) : out'[c][i].ref = out[c][i].ref
        BY <2>1, OutAppend DEF Sent
      <4>4. ASSUME NEW i \in About(c, l, {"UNSUBSCRIBED"})' PROVE FALSE
        <5>1. i \in Sent(c, {"UNSUBSCRIBED"})' /\ out'[c][i].ref = l
          BY DEF About
        <5>2. i \in About(c, l, {"UNSUBSCRIBED"})
          BY <4>2, <4>3, <5>1 DEF About
        <5> QED
          BY <3>3, <5>2
      <4> QED
        BY <4>4
    <3> QED
      BY <3>3, <3>4
  <2> QED
    BY <2>2, <2>3, <2>4
<1> QED
  BY <1>2, <1>3, OwnSays

LEMMA StepEventsInv ==
    ASSUME TypeOK, CallInv, ControlInv, AnswerInv, RegistryInv, EventsInv, [Next]_vars
    PROVE  EventsInv'
<1>1. ASSUME NEW c \in Conns, Same(c)
      PROVE  SubscribedOK(c)' /\ EventsOK(c)'
  <2>1. SubscribedOK(c) /\ EventsOK(c)
    BY <1>1 DEF EventsInv
  <2>2. /\ UNCHANGED <<out[c], requests[c], subscriptions[c]>>
        /\ UNCHANGED Sent(c, {"EVENT"})
    BY <1>1 DEF Same, Sent
  <2>3. ASSUME NEW id, NEW k
        PROVE  UNCHANGED <<Asked(c, id, k), Enders(c, id, k)>>
    BY <2>2 DEF Asked, Enders, Is
  <2>4. ASSUME NEW l
        PROVE  UNCHANGED About(c, l, {"UNSUBSCRIBED"})
    BY <2>2 DEF About, Sent
  <2>5. SubscribedOK(c)'
    BY <2>1, <2>2, <2>3, <2>4 DEF SubscribedOK
  <2>6. EventsOK(c)'
    BY <2>1, <2>2, <2>3, <2>4 DEF EventsOK, Unique
  <2> QED
    BY <2>5, <2>6
<1>2. ASSUME NEW c \in Conns, ConnStep(c)
      PROVE  SubscribedOK(c)' /\ EventsOK(c)'
  BY <1>2, OwnSubscribedOK, OwnEventsOK
     DEF EventsInv, AnswerInv, RegistryInv, ControlInv
<1> QED
  BY <1>1, <1>2, StepOfOne DEF EventsInv

(* EventsInv is an invariant of the application layer.                      *)
THEOREM EventsInvariant == Spec => []EventsInv
<1>1. Init => EventsInv
  <2> SUFFICES ASSUME Init, NEW c \in Conns PROVE SubscribedOK(c) /\ EventsOK(c)
    BY DEF EventsInv
  <2>1. out[c] = <<>> /\ subscriptions[c] = {}
    BY DEF Init, ConnectionInit, SessionInit
  <2> QED
    BY <2>1 DEF SubscribedOK, EventsOK, Sent
<1>2. TypeOK /\ CallInv /\ ControlInv /\ AnswerInv /\ RegistryInv /\ EventsInv /\ [Next]_vars
        => EventsInv'
  BY StepEventsInv
<1> QED
  BY <1>1, <1>2, TypeCorrect, CallInvariant, ControlInvariant, AnswerInvariant,
     RegistryInvariant, PTL DEF Spec

(* An event goes out only for a subscription that was asked for after every *)
(* acknowledged end of it, however publishers race with the handlers of     *)
(* SUBSCRIBE and UNSUBSCRIBE (WAMPSession.send_event).                      *)
THEOREM EventsAreForSubscriptions == Spec => []EventsFollowSubscription
<1>1. EventsInv => EventsFollowSubscription
  BY DEF EventsInv, EventsOK, EventsFollowSubscription, Asked, Enders
<1> QED
  BY <1>1, EventsInvariant, PTL
=============================================================================

----------------------- MODULE ApplicationCleanupProofs -----------------------
(***************************************************************************)
(* What user code began is undone, proved for every value of the constants *)
(* of module Application: a clean-up that comes to its end has run the     *)
(* second part of every state handler and of every subscription that still  *)
(* had an exit, the subscriptions first.                                    *)
(***************************************************************************)
EXTENDS ApplicationOrderProofs

USE SessionAssumption, ApplicationAssumption

(* The tuples of variables that actions leave unchanged are shorthands.     *)
USE DEF connectionVars, openVars, registryVars, sessionVars, controlVars,
        authVars, taskVars, subVars, stateVars, cleanVars, closerVars,
        handlerFrame, mainFrame, cleanupFrame, closerFrame

-----------------------------------------------------------------------------
(* How far the clean-up of a connection is: started as its coroutine leaves *)
(* handle_session, then moved on by its own steps only.                     *)
CleanupMove(c) ==
    \/ UNCHANGED cleanup[c]
    \/ pc[c] \notin Left /\ cleanup'[c] = "ready"
    \/ CleanupBegins(c) \/ CleanupTurnsToStates(c) \/ CleanupEnds(c)
    \/ \E j \in RequestNumbers : CleanupSubscription(c, j)
    \/ \E s \in StateHandlers : CleanupState(c, s)

LEMMA OwnCleanup ==
    ASSUME TypeOK, CallInv, NEW c \in Conns, ControlOK(c), ConnStep(c)
    PROVE  CleanupMove(c)
<1> USE FunctionTypes DEF CleanupMove, Left, Goto, Unwind, Finish
<1>1. CASE Client(c)
  BY <1>1
     DEF Client, ReceiveHello, Authenticate, AuthenticateFrom,
         StartStateHandlers, RejectFirst, LeaveBeforeSession, Receive,
         ReceiveUnparsable, LeaveLoop, Disconnects
<1>2. CASE SessionStep(c)
  BY <1>2
     DEF SessionStep, Rejected, StateHandlersStarted, Authenticate,
         AuthenticateFrom, StateHandlersFailed, TransportAuthenticated,
         Challenge, Welcomed, StartStateHandlers, Refused, SessionRaises,
         Aborted, CleanedUp, Gathered, FrameworkClose
<1>3. CASE Cancel(c)
  BY <1>3
     DEF Cancel, CancelStartingHandlers, CancelSession, CancelInline,
         CancelAbort, CancelShielded, CancelGather, GatheredResult
<1>4. CASE \/ CloserStep(c)
           \/ \E s \in StateHandlers : StateHandlerStep(c, s)
           \/ \E t \in Topics : Publish(c, t)
  BY <1>4 DEF CloserStep, CloserStart, CloserSent, StateHandlerStep, Publish
<1>5. CASE CleanupStep(c)
  BY <1>5 DEF CleanupStep
<1>6. ASSUME NEW k \in RequestNumbers, HandlerStep(c, k)
      PROVE  CleanupMove(c)
  <2>1. task[c][k] \in LiveTask /\ k \in DOMAIN requests[c]
    BY <1>6, HandlerMoves, LiveKnown
  <2>2. IsInline(requests[c][k]) => pc[c] = "handling"
    BY <2>1 DEF ControlOK, InlineOK
  <2>3. UNCHANGED cleanup \/ (IsInline(requests[c][k]) /\ Unwind(c, "raise"))
    BY <1>6, HandlerMoves
       DEF HandlerWaits, HandlerReturns, HandlerRaises, HandlerCancelled
  <2> QED
    BY <2>2, <2>3
<1> QED
  BY <1>1, <1>2, <1>3, <1>4, <1>5, <1>6 DEF ConnStep

(* The phases come in this order.                                           *)
LEMMA CleanupOrder ==
    ASSUME TypeOK, CallInv, NEW c \in Conns, ControlOK(c), ConnStep(c)
    PROVE  /\ cleanup[c] \in {"none", "ready"} =>
                cleanup'[c] \in {"none", "ready"} \/ CleanupBegins(c)
           /\ cleanup[c] = "subs" =>
                cleanup'[c] \in {"subs", "failed"} \/ CleanupTurnsToStates(c)
           /\ cleanup[c] = "states" => cleanup'[c] \in {"states", "done", "failed"}
           /\ cleanup[c] \in {"done", "failed"} => UNCHANGED cleanup[c]
<1> USE FunctionTypes
<1>1. CASE UNCHANGED cleanup[c]
  BY <1>1
<1>2. CASE pc[c] \notin Left /\ cleanup'[c] = "ready"
  BY <1>2 DEF ControlOK, LeaveOK
<1>3. CASE CleanupBegins(c)
  BY <1>3 DEF CleanupBegins
<1>4. CASE CleanupTurnsToStates(c) \/ CleanupEnds(c)
  BY <1>4 DEF CleanupTurnsToStates, CleanupEnds
<1>5. ASSUME NEW j \in RequestNumbers, CleanupSubscription(c, j)
      PROVE  cleanup[c] = "subs" /\ cleanup'[c] \in {"subs", "failed"}
  BY <1>5 DEF CleanupSubscription
<1>6. ASSUME NEW s \in StateHandlers, CleanupState(c, s)
      PROVE  cleanup[c] = "states" /\ cleanup'[c] \in {"states", "failed"}
  BY <1>6 DEF CleanupState
<1> QED
  BY <1>1, <1>2, <1>3, <1>4, <1>5, <1>6, OwnCleanup DEF CleanupMove

-----------------------------------------------------------------------------
(* The inductive invariant of the state handlers: one starts only while the *)
(* coroutine waits for its group, and until the clean-up is through or      *)
(* failed every handler that has begun is among those it will exit.         *)
Begun == {"starting", "entering", "entered", "cancelling"}

StatesOK(c) ==
    /\ \A s \in StateHandlers : state_iter[c][s] \in {"starting", "entering"} =>
            pc[c] \in {"pre", "authed"} /\ s \in Group(c)
    /\ cleanup[c] # "failed" => \A s \in StateHandlers :
            state_iter[c][s] \in Begun => s \in state_exits[c] \cup clean_states[c]
    /\ cleanup[c] \in {"states", "done"} => state_exits[c] = {}
    /\ cleanup[c] \notin {"states", "failed"} => clean_states[c] = {}

StatesInv == \A c \in Conns : StatesOK(c)

(* What begins, ends or moves a state handler's iterator.                   *)
StateMove(c) ==
    \/ UNCHANGED <<state_iter[c], state_exits[c], clean_states[c]>>
    \/ \E s \in StateHandlers : StateHandlerStep(c, s)
    \/ /\ pc[c] = "hello" /\ StartStateHandlers(c, PreHandlers, "pre")
       /\ UNCHANGED cleanVars
    \/ /\ pc[c] = "welcome" /\ StartStateHandlers(c, AuthedHandlers, "authed")
       /\ UNCHANGED cleanVars
    \/ CancelStarts(c) /\ UNCHANGED <<state_exits, clean_states>>
    \/ CleanupTurnsToStates(c)
    \/ \E s \in StateHandlers : CleanupState(c, s)

(* The coroutine waits while its group starts, unless that is cancelled.    *)
GroupWaits(c) ==
    pc[c] \in {"pre", "authed"} =>
        \/ UNCHANGED pc[c]
        \/ \A s \in Group(c) : state_iter[c][s] = "entered"
        \/ CancelStarts(c)

LEMMA OwnStates ==
    ASSUME TypeOK, CallInv, NEW c \in Conns, ControlOK(c), ConnStep(c)
    PROVE  StateMove(c) /\ GroupWaits(c)
<1> USE FunctionTypes DEF StateMove, GroupWaits, Goto, Unwind, Finish
<1>1. CASE Client(c)
  BY <1>1
     DEF Client, ReceiveHello, RejectFirst, LeaveBeforeSession, Receive,
         ReceiveUnparsable, LeaveLoop, Disconnects
<1>2. CASE SessionStep(c)
  BY <1>2
     DEF SessionStep, Rejected, StateHandlersStarted, StateHandlersFailed,
         TransportAuthenticated, Challenge, Welcomed, Refused, SessionRaises,
         Aborted, CleanedUp, Gathered, FrameworkClose
<1>3. CASE Cancel(c)
  BY <1>3
     DEF Cancel, CancelStartingHandlers, CancelSession, CancelInline,
         CancelAbort, CancelShielded, CancelGather, GatheredResult
<1>4. CASE \/ CloserStep(c)
           \/ \E s \in StateHandlers : StateHandlerStep(c, s)
           \/ \E t \in Topics : Publish(c, t)
  BY <1>4 DEF CloserStep, CloserStart, CloserSent, StateHandlerStep, Publish
<1>5. CASE CleanupStep(c)
  BY <1>5
     DEF CleanupStep, CleanupBegins, CleanupSubscription, CleanupTurnsToStates,
         CleanupState, CleanupEnds
<1>6. ASSUME NEW k \in RequestNumbers, HandlerStep(c, k)
      PROVE  StateMove(c) /\ GroupWaits(c)
  <2>1. task[c][k] \in LiveTask /\ k \in DOMAIN requests[c]
    BY <1>6, HandlerMoves, LiveKnown
  <2>2. IsInline(requests[c][k]) => pc[c] = "handling"
    BY <2>1 DEF ControlOK, InlineOK
  <2>3. UNCHANGED pc \/ IsInline(requests[c][k])
    BY <1>6, HandlerMoves
       DEF HandlerWaits, HandlerReturns, HandlerRaises, HandlerCancelled
  <2>4. UNCHANGED stateVars /\ UNCHANGED clean_states
    BY <1>6
       DEF HandlerStep, CallStart, CallProgress, CallAnswer, CallExhausted,
           Answer, HandlerCancelled, CallRaises, GoodbyeStart, GoodbyeSent,
           SubscribeStart, SubscribeEntered, SubscribeRaises, UnsubscribeStart,
           UnsubscribeUnknown, UnsubscribeExited, UnsubscribeRaises,
           HandlerSent, HandlerSendRaises
  <2> QED
    BY <2>2, <2>3, <2>4
<1> QED
  BY <1>1, <1>2, <1>3, <1>4, <1>5, <1>6 DEF ConnStep

LEMMA OwnStatesOK ==
    ASSUME TypeOK, CallInv, NEW c \in Conns, ControlOK(c), ConnStep(c), StatesOK(c)
    PROVE  StatesOK(c)'
<1>1. CleanupMove(c) /\ StateMove(c) /\ GroupWaits(c)
  BY OwnCleanup, OwnStates
<1>2. /\ cleanup'[c] = "done" => cleanup[c] = "done" \/ CleanupEnds(c)
      /\ cleanup'[c] = "states" =>
            \/ cleanup[c] = "states" /\ UNCHANGED cleanup[c]
            \/ CleanupTurnsToStates(c)
      /\ cleanup'[c] # "failed" => cleanup[c] # "failed"
  BY <1>1, FunctionTypes
     DEF CleanupMove, CleanupBegins, CleanupTurnsToStates, CleanupEnds,
         CleanupSubscription, CleanupState, ControlOK, LeaveOK
<1>3. cleanup[c] \in {"states", "failed"} => cleanup'[c] \in {"states", "done", "failed"}
  BY <1>1, FunctionTypes
     DEF CleanupMove, CleanupBegins, CleanupTurnsToStates, CleanupEnds,
         CleanupSubscription, CleanupState, ControlOK, LeaveOK
<1>4. CASE UNCHANGED <<state_iter[c], state_exits[c], clean_states[c]>>
  <2>1. \A s \in StateHandlers : state_iter'[c][s] \in {"starting", "entering"} =>
            pc'[c] \in {"pre", "authed"} /\ s \in Group(c)'
    <3> SUFFICES ASSUME NEW s \in StateHandlers,
                        state_iter[c][s] \in {"starting", "entering"}
                 PROVE  pc'[c] \in {"pre", "authed"} /\ s \in Group(c)'
      BY <1>4
    <3>1. pc[c] \in {"pre", "authed"} /\ s \in Group(c)
      BY DEF StatesOK
    <3>2. ~CancelStarts(c)
      BY <1>4, FunctionTypes DEF CancelStarts
    <3>3. UNCHANGED pc[c]
      BY <1>1, <3>1, <3>2 DEF GroupWaits
    <3> QED
      BY <3>1, <3>3 DEF Group
  <2>2. cleanup'[c] # "failed" => \A s \in StateHandlers :
            state_iter'[c][s] \in Begun => s \in state_exits'[c] \cup clean_states'[c]
    BY <1>2, <1>4 DEF StatesOK
  <2>3. cleanup'[c] \in {"states", "done"} => state_exits'[c] = {}
    BY <1>2, <1>4, FunctionTypes
       DEF StatesOK, CleanupEnds, CleanupTurnsToStates
  <2>4. cleanup'[c] \notin {"states", "failed"} => clean_states'[c] = {}
    BY <1>2, <1>3, <1>4 DEF StatesOK, CleanupEnds
  <2> QED
    BY <2>1, <2>2, <2>3, <2>4 DEF StatesOK
<1>5. ASSUME NEW s \in StateHandlers, StateHandlerStep(c, s)
      PROVE  StatesOK(c)'
  <2>1. /\ UNCHANGED <<pc, state_exits, clean_states, cleanup>>
        /\ \A r \in StateHandlers \ {s} : state_iter'[c][r] = state_iter[c][r]
        /\ state_iter'[c][s] \in {"starting", "entering"} => state_iter[c][s] = "starting"
        /\ state_iter'[c][s] \in Begun => state_iter[c][s] \in Begun
    BY <1>5, FunctionTypes DEF StateHandlerStep, Begun
  <2> QED
    BY <2>1 DEF StatesOK, Group
<1>6. ASSUME NEW group \in SUBSET StateHandlers, NEW label \in {"pre", "authed"},
             StartStateHandlers(c, group, label), UNCHANGED cleanVars,
             pc[c] \notin {"pre", "authed"} \cup Left,
             group = IF label = "pre" THEN PreHandlers ELSE AuthedHandlers
      PROVE  StatesOK(c)'
  <2>1. /\ pc'[c] = label /\ UNCHANGED <<cleanup, clean_states>>
        /\ state_exits'[c] = state_exits[c] \cup group
        /\ \A s \in StateHandlers :
              state_iter'[c][s] = IF s \in group THEN "starting" ELSE state_iter[c][s]
    BY <1>6, FunctionTypes DEF StartStateHandlers, Goto, MainStates
  <2>2. cleanup[c] = "none" /\ Group(c)' = group
    BY <1>6, <2>1 DEF ControlOK, LeaveOK, Group
  <2> QED
    BY <1>6, <2>1, <2>2 DEF StatesOK
<1>7. CASE CancelStarts(c) /\ UNCHANGED <<state_exits, clean_states>>
  <2>1. /\ \A s \in StateHandlers : state_iter'[c][s] \notin {"starting", "entering"}
        /\ \A s \in StateHandlers : state_iter'[c][s] \in Begun => state_iter[c][s] \in Begun
    BY <1>7, FunctionTypes DEF CancelStarts, Begun
  <2>2. cleanup'[c] \in {"states", "done"} => state_exits[c] = {}
    BY <1>2, <1>7, FunctionTypes DEF StatesOK, CleanupEnds, CleanupTurnsToStates
  <2>3. cleanup'[c] \notin {"states", "failed"} => clean_states[c] = {}
    BY <1>2, <1>3 DEF StatesOK, CleanupEnds
  <2> QED
    BY <1>2, <1>7, <2>1, <2>2, <2>3 DEF StatesOK
<1>8. CASE CleanupTurnsToStates(c)
  <2>1. /\ UNCHANGED <<pc, state_iter>> /\ cleanup[c] = "subs" /\ cleanup'[c] = "states"
        /\ clean_states'[c] = state_exits[c] /\ state_exits'[c] = {}
    BY <1>8, FunctionTypes DEF CleanupTurnsToStates
  <2> QED
    BY <2>1 DEF StatesOK, Group
<1>9. ASSUME NEW s \in StateHandlers, CleanupState(c, s)
      PROVE  StatesOK(c)'
  <2>1. /\ UNCHANGED <<pc, state_exits>> /\ cleanup[c] = "states"
        /\ cleanup'[c] \in {"states", "failed"}
        /\ clean_states'[c] = clean_states[c] \ {s}
        /\ \A r \in StateHandlers \ {s} : state_iter'[c][r] = state_iter[c][r]
        /\ state_iter'[c][s] \in {"starting", "entering"} =>
                state_iter'[c][s] = state_iter[c][s]
        /\ cleanup'[c] = "states" => state_iter'[c][s] \notin Begun
    BY <1>9, FunctionTypes DEF CleanupState, Begun
  <2> QED
    BY <2>1 DEF StatesOK, Group
<1> QED
  BY <1>1, <1>4, <1>5, <1>6, <1>7, <1>8, <1>9 DEF StateMove, StateHandlers, Left

LEMMA StepStatesInv ==
    ASSUME TypeOK, CallInv, ControlInv, StatesInv, [Next]_vars
    PROVE  StatesInv'
<1>1. ASSUME NEW c \in Conns, Same(c)
      PROVE  StatesOK(c)'
  BY <1>1 DEF Same, StatesInv, StatesOK, Group
<1> QED
  BY <1>1, StepOfOne, OwnStatesOK DEF StatesInv, ControlInv

(* StatesInv is an invariant of the application layer.                      *)
THEOREM StatesInvariant == Spec => []StatesInv
<1>1. Init => StatesInv
  <2> SUFFICES ASSUME Init, NEW c \in Conns PROVE StatesOK(c)
    BY DEF StatesInv
  <2>1. /\ cleanup[c] = "none" /\ clean_states[c] = {}
        /\ \A s \in StateHandlers : state_iter[c][s] = "none"
    BY DEF Init
  <2> QED
    BY <2>1 DEF StatesOK, Begun
<1>2. TypeOK /\ CallInv /\ ControlInv /\ StatesInv /\ [Next]_vars => StatesInv'
  BY StepStatesInv
<1> QED
  BY <1>1, <1>2, TypeCorrect, CallInvariant, ControlInvariant, PTL DEF Spec

-----------------------------------------------------------------------------
(* How a request's task goes on, and what that leaves as it is.             *)
TaskMove(c, k) ==
    \/ UNCHANGED task[c][k]
    \/ task[c][k] \in LiveTask /\ task'[c][k] \in ToldTask \cup {"cancelled"}
    \/ k \notin DOMAIN requests[c] /\ task'[c][k] = "ready"
    \/ HandlerStep(c, k)

LEMMA OwnTasks ==
    ASSUME TypeOK, CallInv, NEW c \in Conns, ControlOK(c), ConnStep(c),
           NEW k \in RequestNumbers
    PROVE  TaskMove(c, k)
<1> USE FunctionTypes DEF TaskMove
<1>1. UNCHANGED task => TaskMove(c, k)
  OBVIOUS
<1>2. CancelTasks(c) => TaskMove(c, k)
  BY DEF CancelTasks, LiveTask, ToldTask
<1>3. CASE Receive(c)
  <2>1. task' = [task EXCEPT ![c][Len(requests[c]) + 1] = "ready"]
    BY <1>3 DEF Receive
  <2>2. k = Len(requests[c]) + 1 => k \notin DOMAIN requests[c]
    <3>1. requests[c] \in Seq(ClientRequests)
      OBVIOUS
    <3> QED
      BY <3>1
  <2> QED
    BY <2>1, <2>2
<1>4. CASE CancelInline(c)
  <2>1. task' = [task EXCEPT ![c][LastRequest(c)] = "cancelled"]
    BY <1>4 DEF CancelInline, LastRequest
  <2>2. task[c][LastRequest(c)] \in LiveTask
    BY <1>4 DEF CancelInline, ControlOK, InlineOK
  <2> QED
    BY <2>1, <2>2
<1>5. ASSUME NEW j \in RequestNumbers, HandlerStep(c, j)
      PROVE  TaskMove(c, k)
  <2>1. \E state : task' = [task EXCEPT ![c][j] = state]
    BY <1>5, HandlerMoves
       DEF HandlerWaits, HandlerReturns, HandlerRaises, HandlerCancelled
  <2>2. CASE j # k
    BY <2>1, <2>2
  <2>3. CASE j = k
    BY <1>5, <2>3
  <2> QED
    BY <2>2, <2>3
<1>6. \/ UNCHANGED task \/ CancelTasks(c) \/ Receive(c) \/ CancelInline(c)
      \/ \E j \in RequestNumbers : HandlerStep(c, j)
  BY DEF ConnStep, Client, ReceiveHello, RejectFirst, LeaveBeforeSession,
         ReceiveUnparsable, LeaveLoop, Disconnects, SessionStep, Rejected,
         StateHandlersStarted, StateHandlersFailed, TransportAuthenticated,
         Challenge, Welcomed, Refused, SessionRaises, Aborted, CleanedUp,
         Gathered, FrameworkClose, CleanupStep, CleanupBegins,
         CleanupSubscription, CleanupTurnsToStates, CleanupState, CleanupEnds,
         CloserStep, CloserStart, CloserSent, Cancel, CancelStartingHandlers,
         CancelSession, CancelAbort, CancelShielded, CancelGather,
         GatheredResult, StateHandlerStep, Publish, Finish
<1> QED
  BY <1>1, <1>2, <1>3, <1>4, <1>5, <1>6

(* The requests read so far stay what they are.                             *)
LEMMA RequestsStay ==
    ASSUME TypeOK, CallInv, NEW c \in Conns, ControlOK(c), ConnStep(c)
    PROVE  /\ DOMAIN requests[c] \subseteq DOMAIN requests'[c]
           /\ DOMAIN requests[c] \subseteq RequestNumbers
           /\ \A k \in DOMAIN requests[c] : requests'[c][k] = requests[c][k]
           /\ \A k \in DOMAIN requests'[c] \ DOMAIN requests[c] :
                    k = LastRequest(c) + 1 /\ task'[c][k] = "ready"
           /\ UNCHANGED requests[c] \/ pc[c] = "loop"
<1>1. requests[c] \in Seq(ClientRequests)
  BY FunctionTypes
<1>2. DOMAIN requests[c] \subseteq RequestNumbers
  BY DEF TypeOK, TaskTypeOK, RequestNumbers
<1>3. CASE UNCHANGED requests[c]
  BY <1>2, <1>3
<1>4. CASE Receive(c)
  <2>1. PICK r \in ClientRequests : requests'[c] = Append(requests[c], r)
    BY <1>4, FunctionTypes DEF Receive
  <2>2. /\ pc[c] = "loop" /\ LastRequest(c) + 1 \in RequestNumbers
        /\ task' = [task EXCEPT ![c][LastRequest(c) + 1] = "ready"]
    BY <1>1, <1>4 DEF Receive, LastRequest, RequestNumbers
  <2>3. task'[c][LastRequest(c) + 1] = "ready"
    BY <2>2, FunctionTypes
  <2>4. /\ DOMAIN requests[c] = 1..LastRequest(c)
        /\ DOMAIN requests'[c] = 1..(LastRequest(c) + 1)
        /\ \A k \in DOMAIN requests[c] : requests'[c][k] = requests[c][k]
        /\ LastRequest(c) \in Nat
    BY <1>1, <2>1 DEF LastRequest
  <2> QED
    BY <1>2, <2>2, <2>3, <2>4
<1>5. UNCHANGED requests \/ Receive(c)
  BY HandlerMoves
     DEF ConnStep, Client, ReceiveHello, RejectFirst, LeaveBeforeSession,
         ReceiveUnparsable, LeaveLoop, Disconnects, SessionStep, Rejected,
         StateHandlersStarted, StateHandlersFailed, TransportAuthenticated,
         Challenge, Welcomed, Refused, SessionRaises, Aborted, CleanedUp,
         Gathered, FrameworkClose, CleanupStep, CleanupBegins,
         CleanupSubscription, CleanupTurnsToStates, CleanupState, CleanupEnds,
         CloserStep, CloserStart, CloserSent, Cancel, CancelStartingHandlers,
         CancelSession, CancelInline, CancelAbort, CancelShielded, CancelGather,
         GatheredResult, StateHandlerStep, Publish
<1> QED
  BY <1>3, <1>4, <1>5

(* The loop waits for the handler of the last request, until that goes on   *)
(* or is cancelled.                                                         *)
LEMMA InlineWaits ==
    ASSUME TypeOK, CallInv, NEW c \in Conns, ControlOK(c), ConnStep(c),
           pc[c] = "handling"
    PROVE  \/ /\ UNCHANGED <<pc[c], requests[c]>>
              /\ task'[c][LastRequest(c)] = task[c][LastRequest(c)]
           \/ CancelInline(c)
           \/ LastRequest(c) \in RequestNumbers /\ HandlerStep(c, LastRequest(c))
<1> USE FunctionTypes
<1>1. CASE Client(c) \/ SessionStep(c) \/ Cancel(c)
  <2>1. \/ UNCHANGED <<pc, requests, task>> \/ CancelInline(c)
    BY <1>1
       DEF Client, ReceiveHello, RejectFirst, LeaveBeforeSession, Receive,
           ReceiveUnparsable, LeaveLoop, Disconnects, SessionStep, Rejected,
           StateHandlersStarted, StateHandlersFailed, TransportAuthenticated,
           Challenge, Welcomed, Refused, SessionRaises, Aborted, CleanedUp,
           Gathered, FrameworkClose, Cancel, CancelStartingHandlers,
           CancelSession, CancelAbort, CancelShielded, CancelGather,
           GatheredResult
  <2> QED
    BY <2>1
<1>2. CASE \/ CloserStep(c) \/ CleanupStep(c)
           \/ \E s \in StateHandlers : StateHandlerStep(c, s)
           \/ \E t \in Topics : Publish(c, t)
  BY <1>2
     DEF CloserStep, CloserStart, CloserSent, StateHandlerStep, Publish,
         CleanupStep, CleanupBegins, CleanupSubscription, CleanupTurnsToStates,
         CleanupState, CleanupEnds
<1>3. ASSUME NEW j \in RequestNumbers, HandlerStep(c, j), j # LastRequest(c)
      PROVE  /\ UNCHANGED <<pc[c], requests[c]>>
             /\ task'[c][LastRequest(c)] = task[c][LastRequest(c)]
  <2>1. task[c][j] \in LiveTask /\ j \in DOMAIN requests[c]
    BY <1>3, HandlerMoves, LiveKnown
  <2>2. ~IsInline(requests[c][j])
    BY <1>3, <2>1 DEF ControlOK, InlineOK
  <2>3. UNCHANGED requests
    BY <1>3, HandlerMoves
  <2>4. UNCHANGED pc /\ \E state : task' = [task EXCEPT ![c][j] = state]
    <3>1. ASSUME NEW state, HandlerWaits(c, j, state)
          PROVE  UNCHANGED pc /\ task' = [task EXCEPT ![c][j] = state]
      BY <3>1 DEF HandlerWaits
    <3>2. CASE HandlerReturns(c, j)
      BY <2>2, <3>2 DEF HandlerReturns
    <3>3. CASE HandlerRaises(c, j)
      BY <2>2, <3>3 DEF HandlerRaises
    <3>4. CASE HandlerCancelled(c, j)
      BY <3>4 DEF HandlerCancelled
    <3> QED
      BY <1>3, <3>1, <3>2, <3>3, <3>4, HandlerMoves
  <2> QED
    BY <1>3, <2>3, <2>4
<1> QED
  BY <1>1, <1>2, <1>3 DEF ConnStep

-----------------------------------------------------------------------------
(* The inductive invariant of the subscriptions' iterators and exits.       *)
IdOf(c, k) == SubIdOf[requests[c][k].topic]

LastIs(c, state) == pc[c] = "handling" /\ task[c][LastRequest(c)] = state

(* Iterators are those of SUBSCRIBE requests; one whose entry succeeded was *)
(* entered before SUBSCRIBED is through; the second part of at most one     *)
(* runs in the loop, while the UNSUBSCRIBE that asked for it is handled.    *)
IterOK(c) ==
    /\ \A k \in RequestNumbers : task[c][k] = "entering" => Is(c, k, "SUBSCRIBE")
    /\ \A k \in RequestNumbers : sub_iter[c][k] # "none" =>
            Is(c, k, "SUBSCRIBE") /\ task[c][k] \in Over
    /\ \A k \in RequestNumbers :
            Is(c, k, "SUBSCRIBE") /\ task[c][k] = "acking" => sub_iter[c][k] = "entered"
    /\ \A k \in RequestNumbers : sub_iter[c][k] = "exiting" =>
            /\ LastIs(c, "exiting") /\ task[c][k] = "done"
            /\ \A j \in RequestNumbers : sub_iter[c][j] = "exiting" => j = k

(* What is left of the subscriptions when the session's state is exited.    *)
Settled(c) ==
    \A k \in RequestNumbers :
        /\ sub_iter[c][k] # "exiting"
        /\ sub_iter[c][k] = "entered" => Displaced(c, k)

(* An entered iterator is the exit of its id, or the clean-up's to exit, or *)
(* was displaced; unless the clean-up failed, which forgets those left.     *)
ExitsOK(c) ==
    /\ \A i \in SubIds : sub_exits[c][i] # 0 =>
            sub_iter[c][sub_exits[c][i]] = "entered" /\ IdOf(c, sub_exits[c][i]) = i
    /\ \A k \in clean_subs[c] : sub_iter[c][k] = "entered"
    /\ cleanup[c] # "failed" => \A k \in RequestNumbers : sub_iter[c][k] = "entered" =>
            sub_exits[c][IdOf(c, k)] = k \/ k \in clean_subs[c] \/ Displaced(c, k)
    /\ cleanup[c] \notin {"none", "ready"} => \A i \in SubIds : sub_exits[c][i] = 0
    /\ cleanup[c] \notin {"subs", "failed"} => clean_subs[c] = {}

(* A state handler is exited last.                                          *)
StatesLastOK(c) ==
    (\E s \in StateHandlers : state_iter[c][s] = "exited") =>
        cleanup[c] \in {"states", "done", "failed"} /\ Settled(c)

SubsOK(c) == IterOK(c) /\ ExitsOK(c) /\ StatesLastOK(c)
SubsInv == \A c \in Conns : SubsOK(c)

(* What enters, ends or forgets a subscription's iterator.                  *)
IterMove(c) ==
    \/ UNCHANGED <<sub_iter[c], sub_exits[c], clean_subs[c]>>
    \/ \E k \in RequestNumbers :
        \/ SubscribeEntered(c, k) \/ SubscribeRaises(c, k)
        \/ UnsubscribeStart(c, k) \/ UnsubscribeExited(c, k) \/ UnsubscribeRaises(c, k)
    \/ CancelInline(c) \/ CleanupBegins(c)
    \/ \E j \in RequestNumbers : CleanupSubscription(c, j)

LEMMA OwnIterators ==
    ASSUME NEW c \in Conns, ConnStep(c)
    PROVE  IterMove(c)
<1> USE DEF IterMove
<1>1. CASE Client(c) \/ SessionStep(c) \/ Cancel(c)
  BY <1>1
     DEF Client, ReceiveHello, RejectFirst, LeaveBeforeSession, Receive,
         ReceiveUnparsable, LeaveLoop, Disconnects, SessionStep, Rejected,
         StateHandlersStarted, StateHandlersFailed, TransportAuthenticated,
         Challenge, Welcomed, Refused, SessionRaises, Aborted, CleanedUp,
         Gathered, FrameworkClose, Cancel, CancelStartingHandlers,
         CancelSession, CancelAbort, CancelShielded, CancelGather,
         GatheredResult
<1>2. CASE \/ CloserStep(c) \/ CleanupStep(c)
           \/ \E s \in StateHandlers : StateHandlerStep(c, s)
           \/ \E t \in Topics : Publish(c, t)
  BY <1>2
     DEF CloserStep, CloserStart, CloserSent, StateHandlerStep, Publish,
         CleanupStep, CleanupTurnsToStates, CleanupState, CleanupEnds
<1>3. ASSUME NEW k \in RequestNumbers, HandlerStep(c, k)
      PROVE  IterMove(c)
  BY <1>3
     DEF HandlerStep, CallStart, CallProgress, CallAnswer, CallExhausted,
         Answer, HandlerCancelled, CallRaises, GoodbyeStart, GoodbyeSent,
         SubscribeStart, UnsubscribeUnknown, HandlerSent, HandlerSendRaises
<1> QED
  BY <1>1, <1>2, <1>3 DEF ConnStep

(* Subscription requests are handled in the loop, one at a time.            *)
LEMMA InlineHandling ==
    ASSUME NEW c \in Conns, ControlOK(c), NEW k, NEW kind \in ALWAYS_SYNCHRONIZE,
           NEW states \in SUBSET LiveTask, Handling(c, k, kind, states)
    PROVE  /\ k \in DOMAIN requests[c] /\ IsInline(requests[c][k])
           /\ k = LastRequest(c) /\ pc[c] = "handling"
           /\ cleanup[c] = "none" /\ task[c][k] \in states
<1>1. /\ k \in DOMAIN requests[c] /\ IsInline(requests[c][k])
      /\ task[c][k] \in LiveTask /\ task[c][k] \in states
  BY DEF Handling, IsInline
<1>2. k = LastRequest(c) /\ pc[c] = "handling"
  BY <1>1 DEF ControlOK, InlineOK
<1> QED
  BY <1>1, <1>2 DEF ControlOK, LeaveOK, Left

(* How the iterator of one request may go on.                               *)
IterStep(c, k) ==
    \/ sub_iter'[c][k] = sub_iter[c][k]
    \/ sub_iter[c][k] = "none" /\ sub_iter'[c][k] \in {"entered", "failed"}
    \/ sub_iter[c][k] = "entered" /\ sub_iter'[c][k] = "exiting"
    \/ sub_iter[c][k] = "exiting" /\ sub_iter'[c][k] \in {"exited", "failed"}
    \/ /\ sub_iter[c][k] = "entered" /\ cleanup[c] = "subs"
       /\ \/ sub_iter'[c][k] = "exited"
          \/ sub_iter'[c][k] = "failed" /\ cleanup'[c] = "failed"

LEMMA IterSteps ==
    ASSUME TypeOK, CallInv, NEW c \in Conns, ControlOK(c), SubsOK(c), ConnStep(c),
           NEW k \in RequestNumbers
    PROVE  IterStep(c, k)
<1> USE FunctionTypes DEF IterStep
<1>1. CASE UNCHANGED <<sub_iter[c], sub_exits[c], clean_subs[c]>>
  BY <1>1
<1>2. ASSUME NEW j \in RequestNumbers, SubscribeEntered(c, j) \/ SubscribeRaises(c, j)
      PROVE  IterStep(c, k)
  <2>1. sub_iter[c][j] = "none"
    BY <1>2
       DEF SubsOK, IterOK, Over, SubscribeEntered, SubscribeRaises, Handling
  <2> QED
    BY <1>2, <2>1 DEF SubscribeEntered, SubscribeRaises
<1>3. ASSUME NEW j \in RequestNumbers, UnsubscribeStart(c, j)
      PROVE  IterStep(c, k)
  <2> DEFINE i == requests[c][j].id
  <2>1. i \in SubIds /\ sub_exits[c][i] # 0
    BY <1>3, RequestType DEF UnsubscribeStart, Handling, TypeOK
  <2>2. sub_iter[c][sub_exits[c][i]] = "entered"
    BY <2>1 DEF SubsOK, ExitsOK
  <2>3. sub_iter' = [sub_iter EXCEPT ![c][sub_exits[c][i]] = "exiting"]
    BY <1>3 DEF UnsubscribeStart
  <2> QED
    BY <2>2, <2>3
<1>4. ASSUME NEW j \in RequestNumbers, UnsubscribeExited(c, j) \/ UnsubscribeRaises(c, j)
      PROVE  IterStep(c, k)
  BY <1>4 DEF UnsubscribeExited, UnsubscribeRaises, SubIterEnds
<1>5. CASE CancelInline(c)
  <2>1. k = LastRequest(c) /\ task[c][k] = "entering" => sub_iter[c][k] = "none"
    BY DEF SubsOK, IterOK, Over
  <2> QED
    BY <1>5, <2>1 DEF CancelInline, LastRequest
<1>6. CASE CleanupBegins(c)
  BY <1>6 DEF CleanupBegins
<1>7. ASSUME NEW j \in RequestNumbers, CleanupSubscription(c, j)
      PROVE  IterStep(c, k)
  <2>1. sub_iter[c][j] = "entered" /\ cleanup[c] = "subs"
    BY <1>7 DEF SubsOK, ExitsOK, CleanupSubscription
  <2> QED
    BY <1>7, <2>1 DEF CleanupSubscription
<1> QED
  BY <1>1, <1>2, <1>3, <1>4, <1>5, <1>6, <1>7, OwnIterators DEF IterMove

(* A displaced subscription stays displaced, unless the clean-up fails as   *)
(* it exits subscriptions.                                                  *)
LEMMA DisplacedStays ==
    ASSUME TypeOK, CallInv, NEW c \in Conns, ControlOK(c), SubsOK(c), ConnStep(c),
           cleanup[c] = "subs" => cleanup'[c] # "failed",
           NEW k \in DOMAIN requests[c], Displaced(c, k)
    PROVE  Displaced(c, k)'
<1>1. PICK l \in RequestNumbers :
        /\ k < l
        /\ Is(c, l, "SUBSCRIBE")
        /\ IdOf(c, l) = IdOf(c, k)
        /\ \/ sub_iter[c][l] \in {"entered", "exiting", "exited"}
           \/ sub_iter[c][l] = "failed" /\ task[c][l] \in {"acking", "done"}
  BY DEF Displaced, IdOf
<1>2. Is(c, l, "SUBSCRIBE")' /\ IdOf(c, l)' = IdOf(c, k)'
  BY <1>1, RequestsStay DEF Is, IdOf
<1>3. task[c][l] = "done" => task'[c][l] = "done"
  <2>1. l \in DOMAIN requests[c]
    BY <1>1 DEF Is
  <2>2. TaskMove(c, l)
    BY OwnTasks
  <2>3. HandlerStep(c, l) => task[c][l] \in LiveTask
    BY HandlerMoves
  <2> QED
    BY <2>1, <2>2, <2>3 DEF TaskMove, LiveTask
<1>4. IterStep(c, l)
  BY IterSteps
<1>5. sub_iter[c][l] = "exiting" => task[c][l] = "done"
  BY DEF SubsOK, IterOK
<1>6. sub_iter[c][l] = "failed" => task[c][l] # "acking"
  BY <1>1 DEF SubsOK, IterOK
<1>7. \/ sub_iter'[c][l] \in {"entered", "exiting", "exited"}
      \/ sub_iter'[c][l] = "failed" /\ task'[c][l] = "done"
  BY <1>1, <1>3, <1>4, <1>5, <1>6 DEF IterStep
<1> QED
  BY <1>1, <1>2, <1>7 DEF Displaced, IdOf

(* While the loop waits for a handler that runs a second part, no other     *)
(* step of the connection interferes with it.                               *)
LEMMA ExitingWaits ==
    ASSUME TypeOK, CallInv, NEW c \in Conns, ControlOK(c), ConnStep(c),
           LastIs(c, "exiting")
    PROVE  \/ LastIs(c, "exiting")'
           \/ CancelInline(c)
           \/ UnsubscribeExited(c, LastRequest(c)) \/ UnsubscribeRaises(c, LastRequest(c))
<1>1. CASE /\ UNCHANGED <<pc[c], requests[c]>>
           /\ task'[c][LastRequest(c)] = task[c][LastRequest(c)]
  <2>1. LastRequest(c)' = LastRequest(c)
    BY <1>1 DEF LastRequest
  <2> QED
    BY <1>1, <2>1 DEF LastIs
<1>2. CASE HandlerStep(c, LastRequest(c))
  BY <1>2
     DEF LastIs, HandlerStep, CallStart, CallProgress, CallAnswer,
         CallExhausted, Answer, HandlerCancelled, CallRaises, GoodbyeStart,
         GoodbyeSent, SubscribeStart, SubscribeEntered, SubscribeRaises,
         UnsubscribeStart, UnsubscribeUnknown, HandlerSent, HandlerSendRaises,
         Handling
<1> QED
  BY <1>1, <1>2, InlineWaits DEF LastIs

(* Only the entry of its own handler begins a subscription's iterator, and  *)
(* only an UNSUBSCRIBE starts its second part from the loop.                *)
LEMMA IterCauses ==
    ASSUME TypeOK, NEW c \in Conns, SubsOK(c), ConnStep(c), NEW k \in RequestNumbers
    PROVE  /\ sub_iter[c][k] = "none" /\ sub_iter'[c][k] # "none" =>
                \/ SubscribeEntered(c, k) \/ SubscribeRaises(c, k)
                \/ CancelInline(c) /\ k = LastRequest(c) /\ task[c][k] = "entering"
           /\ sub_iter[c][k] # "exiting" /\ sub_iter'[c][k] = "exiting" =>
                \E j \in RequestNumbers : UnsubscribeStart(c, j)
<1> DEFINE Caused ==
        /\ sub_iter[c][k] = "none" /\ sub_iter'[c][k] # "none" =>
                \/ SubscribeEntered(c, k) \/ SubscribeRaises(c, k)
                \/ CancelInline(c) /\ k = LastRequest(c) /\ task[c][k] = "entering"
        /\ sub_iter[c][k] # "exiting" /\ sub_iter'[c][k] = "exiting" =>
                \E j \in RequestNumbers : UnsubscribeStart(c, j)
<1> USE FunctionTypes
<1>1. CASE UNCHANGED sub_iter[c]
  BY <1>1
<1>2. ASSUME NEW j \in RequestNumbers, SubscribeEntered(c, j) \/ SubscribeRaises(c, j)
      PROVE  Caused
  <2>1. \E state \in {"entered", "failed"} : sub_iter' = [sub_iter EXCEPT ![c][j] = state]
    BY <1>2 DEF SubscribeEntered, SubscribeRaises
  <2> QED
    BY <1>2, <2>1
<1>3. ASSUME NEW j \in RequestNumbers, UnsubscribeStart(c, j)
      PROVE  Caused
  <2> DEFINE i == requests[c][j].id
  <2>1. i \in SubIds /\ sub_exits[c][i] # 0
    BY <1>3, RequestType DEF UnsubscribeStart, Handling, TypeOK
  <2>2. sub_iter[c][sub_exits[c][i]] = "entered"
    BY <2>1 DEF SubsOK, ExitsOK
  <2>3. sub_iter' = [sub_iter EXCEPT ![c][sub_exits[c][i]] = "exiting"]
    BY <1>3 DEF UnsubscribeStart
  <2> QED
    BY <1>3, <2>2, <2>3
<1>4. ASSUME NEW j \in RequestNumbers, UnsubscribeExited(c, j) \/ UnsubscribeRaises(c, j)
      PROVE  Caused
  <2>1. \E state \in {"exited", "failed"} : SubIterEnds(c, state)
    BY <1>4 DEF UnsubscribeExited, UnsubscribeRaises
  <2> QED
    BY <2>1 DEF SubIterEnds
<1>5. CASE CancelInline(c)
  BY <1>5 DEF CancelInline, LastRequest
<1>6. CASE CleanupBegins(c)
  BY <1>6 DEF CleanupBegins
<1>7. ASSUME NEW j \in RequestNumbers, CleanupSubscription(c, j)
      PROVE  Caused
  <2>1. sub_iter[c][j] = "entered"
    BY <1>7 DEF SubsOK, ExitsOK, CleanupSubscription
  <2>2. \E state \in {"exited", "failed"} : sub_iter' = [sub_iter EXCEPT ![c][j] = state]
    BY <1>7 DEF CleanupSubscription
  <2> QED
    BY <2>1, <2>2
<1> QED
  BY <1>1, <1>2, <1>3, <1>4, <1>5, <1>6, <1>7, OwnIterators DEF IterMove

LEMMA OwnIterOK ==
    ASSUME TypeOK, CallInv, NEW c \in Conns, ControlOK(c), SubsOK(c), ConnStep(c)
    PROVE  IterOK(c)'
<1>1. ASSUME NEW k \in RequestNumbers
      PROVE  IterStep(c, k) /\ TaskMove(c, k)
  BY IterSteps, OwnTasks
<1>2. ASSUME NEW k \in RequestNumbers, Is(c, k, "SUBSCRIBE")
      PROVE  Is(c, k, "SUBSCRIBE")'
  BY <1>2, RequestsStay DEF Is
<1>3. ASSUME NEW k \in RequestNumbers, task'[c][k] = "entering"
      PROVE  Is(c, k, "SUBSCRIBE")'
  <2>1. CASE task[c][k] = "entering"
    BY <1>2, <2>1 DEF SubsOK, IterOK
  <2>2. CASE task[c][k] # "entering"
    <3>1. HandlerStep(c, k)
      BY <1>1, <1>3, <2>2 DEF TaskMove, ToldTask
    <3>2. SubscribeStart(c, k)
      BY <1>3, <2>2, <3>1, FunctionTypes
         DEF HandlerStep, CallStart, CallProgress, CallAnswer, CallExhausted,
             Answer, HandlerCancelled, CallRaises, GoodbyeStart, GoodbyeSent,
             SubscribeEntered, SubscribeRaises, UnsubscribeStart,
             UnsubscribeUnknown, UnsubscribeExited, UnsubscribeRaises,
             HandlerSent, HandlerSendRaises, HandlerWaits, HandlerReturns,
             HandlerRaises
    <3> QED
      BY <1>2, <3>2 DEF SubscribeStart, Handling, Is
  <2> QED
    BY <2>1, <2>2
<1>4. ASSUME NEW k \in RequestNumbers, sub_iter'[c][k] # "none"
      PROVE  Is(c, k, "SUBSCRIBE")' /\ task'[c][k] \in Over
  <2>1. CASE sub_iter[c][k] # "none"
    BY <1>2, <2>1, OverStays DEF SubsOK, IterOK, Is
  <2>2. CASE sub_iter[c][k] = "none"
    <3>1. \/ SubscribeEntered(c, k) \/ SubscribeRaises(c, k)
          \/ CancelInline(c) /\ k = LastRequest(c) /\ task[c][k] = "entering"
      BY <1>4, <2>2, IterCauses
    <3>2. CASE SubscribeEntered(c, k) \/ SubscribeRaises(c, k)
      <4>1. task'[c][k] \in {"acking", "failed"}
        BY <3>2, FunctionTypes
           DEF SubscribeEntered, SubscribeRaises, HandlerWaits, HandlerRaises
      <4>2. Is(c, k, "SUBSCRIBE")
        BY <3>2 DEF SubscribeEntered, SubscribeRaises, Handling, Is
      <4> QED
        BY <1>2, <4>1, <4>2 DEF Over
    <3>3. CASE CancelInline(c) /\ k = LastRequest(c) /\ task[c][k] = "entering"
      <4>1. task'[c][k] = "cancelled"
        BY <3>3, FunctionTypes DEF CancelInline, LastRequest
      <4>2. Is(c, k, "SUBSCRIBE")
        BY <3>3 DEF SubsOK, IterOK
      <4> QED
        BY <1>2, <4>1, <4>2 DEF Over
    <3> QED
      BY <3>1, <3>2, <3>3
  <2> QED
    BY <2>1, <2>2
<1>5. ASSUME NEW k \in RequestNumbers, Is(c, k, "SUBSCRIBE")', task'[c][k] = "acking"
      PROVE  sub_iter'[c][k] = "entered"
  <2>1. CASE task[c][k] = "acking"
    <3>1. k \in DOMAIN requests[c] /\ task[c][k] \in LiveTask
      BY <2>1, LiveKnown DEF LiveTask
    <3>2. Is(c, k, "SUBSCRIBE") /\ IsInline(requests[c][k])
      BY <1>5, <3>1, RequestsStay DEF Is, IsInline, ALWAYS_SYNCHRONIZE
    <3>3. pc[c] = "handling" /\ k = LastRequest(c) /\ cleanup[c] = "none"
      BY <3>1, <3>2 DEF ControlOK, InlineOK, LeaveOK, Left
    <3>4. sub_iter[c][k] = "entered"
      BY <2>1, <3>2 DEF SubsOK, IterOK
    <3>5. sub_iter'[c][k] # "exiting"
      <4>1. ASSUME NEW j \in RequestNumbers, UnsubscribeStart(c, j)
            PROVE  FALSE
        <5>1. Handling(c, j, "UNSUBSCRIBE", {"ready"})
          BY <4>1 DEF UnsubscribeStart
        <5>2. j = LastRequest(c) /\ task[c][j] = "ready"
          BY <5>1, InlineHandling DEF ALWAYS_SYNCHRONIZE, LiveTask
        <5> QED
          BY <2>1, <3>3, <5>2
      <4> QED
        BY <3>4, <4>1, IterCauses
    <3> QED
      BY <1>1, <3>3, <3>4, <3>5 DEF IterStep
  <2>2. CASE task[c][k] # "acking"
    <3>1. HandlerStep(c, k)
      BY <1>1, <1>5, <2>2 DEF TaskMove, ToldTask
    <3>2. SubscribeEntered(c, k) \/ UnsubscribeExited(c, k)
      BY <1>5, <2>2, <3>1, FunctionTypes
         DEF HandlerStep, CallStart, CallProgress, CallAnswer, CallExhausted,
             Answer, HandlerCancelled, CallRaises, GoodbyeStart, GoodbyeSent,
             SubscribeStart, SubscribeRaises, UnsubscribeStart,
             UnsubscribeUnknown, UnsubscribeRaises, HandlerSent,
             HandlerSendRaises, HandlerWaits, HandlerReturns, HandlerRaises
    <3>3. ~UnsubscribeExited(c, k)
      BY <1>5, RequestsStay DEF UnsubscribeExited, Handling, Is
    <3> QED
      BY <3>2, <3>3, FunctionTypes DEF SubscribeEntered
  <2> QED
    BY <2>1, <2>2
<1>6. ASSUME NEW j \in RequestNumbers, UnsubscribeStart(c, j)
      PROVE  /\ j = LastRequest(c) /\ pc[c] = "handling" /\ task[c][j] = "ready"
             /\ LastIs(c, "exiting")'
  <2>1. Handling(c, j, "UNSUBSCRIBE", {"ready"})
    BY <1>6 DEF UnsubscribeStart
  <2>2. "UNSUBSCRIBE" \in ALWAYS_SYNCHRONIZE /\ {"ready"} \in SUBSET LiveTask
    BY DEF ALWAYS_SYNCHRONIZE, LiveTask
  <2>4. j = LastRequest(c) /\ pc[c] = "handling" /\ task[c][j] \in {"ready"}
    BY <2>1, <2>2, InlineHandling
  <2>3. UNCHANGED <<pc, requests>> /\ task'[c][j] = "exiting"
    BY <1>6, FunctionTypes DEF UnsubscribeStart, HandlerWaits
  <2> QED
    BY <2>4, <2>3 DEF LastIs, LastRequest
<1>7. ASSUME NEW k \in RequestNumbers, sub_iter'[c][k] = "exiting"
      PROVE  /\ LastIs(c, "exiting")' /\ task'[c][k] = "done"
             /\ \A j \in RequestNumbers : sub_iter'[c][j] = "exiting" => j = k
  <2>1. CASE sub_iter[c][k] = "exiting"
    <3>1. /\ LastIs(c, "exiting") /\ task[c][k] = "done" /\ k \in DOMAIN requests[c]
          /\ \A j \in RequestNumbers : sub_iter[c][j] = "exiting" => j = k
      BY <2>1 DEF SubsOK, IterOK, Is
    <3>2. /\ ~CancelInline(c)
          /\ \A j \in RequestNumbers : ~UnsubscribeExited(c, j) /\ ~UnsubscribeRaises(c, j)
      BY <1>7, <2>1, <3>1, FunctionTypes
         DEF CancelInline, UnsubscribeExited, UnsubscribeRaises, SubIterEnds
    <3>3. LastRequest(c) \in RequestNumbers
      BY <3>1, RequestsStay DEF LastIs, ControlOK, InlineOK
    <3>4. LastIs(c, "exiting")'
      BY <3>1, <3>2, <3>3, ExitingWaits
    <3>5. task'[c][k] = "done"
      BY <1>1, <3>1, HandlerMoves DEF TaskMove, LiveTask
    <3>6. ASSUME NEW j \in RequestNumbers, sub_iter'[c][j] = "exiting"
          PROVE  j = k
      <4>1. \A l \in RequestNumbers : ~UnsubscribeStart(c, l)
        BY <1>6, <3>1 DEF LastIs
      <4>2. sub_iter[c][j] = "exiting"
        BY <3>6, <4>1, IterCauses
      <4> QED
        BY <3>1, <4>2
    <3> QED
      BY <3>4, <3>5, <3>6
  <2>2. CASE sub_iter[c][k] # "exiting"
    <3>1. PICK j \in RequestNumbers : UnsubscribeStart(c, j)
      BY <1>7, <2>2, IterCauses
    <3>2. /\ j = LastRequest(c) /\ pc[c] = "handling" /\ task[c][j] = "ready"
          /\ LastIs(c, "exiting")'
      BY <1>6, <3>1
    <3>3. ASSUME NEW l \in RequestNumbers PROVE sub_iter[c][l] # "exiting"
      BY <3>2 DEF SubsOK, IterOK, LastIs
    <3>4. \A l \in RequestNumbers : sub_iter'[c][l] = "exiting" =>
                l = sub_exits[c][requests[c][j].id]
      BY <3>1, <3>3, FunctionTypes DEF UnsubscribeStart
    <3>5. task'[c][k] = "done"
      <4>1. sub_iter[c][k] = "entered"
        BY <1>1, <1>7, <2>2 DEF IterStep
      <4>2. Is(c, k, "SUBSCRIBE") /\ task[c][k] \in Over
        BY <4>1 DEF SubsOK, IterOK
      <4>3. k \in DOMAIN requests[c] /\ IsInline(requests[c][k])
        BY <4>2 DEF Is, IsInline, ALWAYS_SYNCHRONIZE
      <4>4. k # j
        BY <3>2, <4>2 DEF Over
      <4>5. task[c][k] \notin LiveTask /\ task[c][k] \notin {"failed", "cancelled"}
        BY <3>2, <4>3, <4>4 DEF ControlOK, InlineOK, Left
      <4>6. task[c][k] = "done"
        BY <4>2, <4>5 DEF Over, LiveTask
      <4> QED
        BY <1>1, <4>3, <4>6, HandlerMoves DEF TaskMove, LiveTask
    <3> QED
      BY <1>7, <3>2, <3>4, <3>5
  <2> QED
    BY <2>1, <2>2
<1> QED
  BY <1>3, <1>4, <1>5, <1>7 DEF IterOK

(* The id of an iterator's subscription stays the same.                     *)
LEMMA IterId ==
    ASSUME TypeOK, CallInv, NEW c \in Conns, ControlOK(c), SubsOK(c), ConnStep(c),
           NEW k \in RequestNumbers, sub_iter[c][k] # "none"
    PROVE  k \in DOMAIN requests[c] /\ IdOf(c, k) \in SubIds /\ IdOf(c, k)' = IdOf(c, k)
<1>1. k \in DOMAIN requests[c] /\ requests[c][k].kind = "SUBSCRIBE"
  BY DEF SubsOK, IterOK, Is
<1>2. requests[c][k].topic \in Topics
  BY <1>1, RequestType DEF TypeOK
<1>3. requests'[c][k] = requests[c][k]
  BY <1>1, RequestsStay
<1> QED
  BY <1>1, <1>2, <1>3, SessionAssumption DEF IdOf

(* What the exits are while requests are handled in the loop.               *)
LEMMA InLoop ==
    ASSUME TypeOK, CallInv, NEW c \in Conns, ControlOK(c), ConnStep(c),
           \/ CancelInline(c)
           \/ \E k \in RequestNumbers :
                \/ SubscribeEntered(c, k) \/ SubscribeRaises(c, k)
                \/ UnsubscribeStart(c, k) \/ UnsubscribeExited(c, k)
                \/ UnsubscribeRaises(c, k)
    PROVE  cleanup[c] = "none" /\ cleanup'[c] \in {"none", "ready"}
<1>1. pc[c] = "handling" => cleanup[c] = "none"
  BY DEF ControlOK, LeaveOK, Left
<1>2. CASE CancelInline(c)
  BY <1>1, <1>2, FunctionTypes DEF CancelInline, Unwind
<1>3. ASSUME NEW k \in RequestNumbers,
             \/ SubscribeEntered(c, k) \/ SubscribeRaises(c, k)
             \/ UnsubscribeStart(c, k) \/ UnsubscribeExited(c, k)
             \/ UnsubscribeRaises(c, k)
      PROVE  pc[c] = "handling" /\ cleanup'[c] \in {cleanup[c], "ready"}
  <2>1. /\ k \in DOMAIN requests[c] /\ IsInline(requests[c][k])
        /\ task[c][k] \in LiveTask
    BY <1>3
       DEF SubscribeEntered, SubscribeRaises, UnsubscribeStart,
           UnsubscribeExited, UnsubscribeRaises, Handling, IsInline,
           ALWAYS_SYNCHRONIZE, LiveTask
  <2>2. pc[c] = "handling"
    BY <2>1 DEF ControlOK, InlineOK
  <2>3. (\E state : HandlerWaits(c, k, state)) \/ HandlerRaises(c, k)
    BY <1>3
       DEF SubscribeEntered, SubscribeRaises, UnsubscribeStart,
           UnsubscribeExited, UnsubscribeRaises
  <2> QED
    BY <2>2, <2>3, FunctionTypes DEF HandlerWaits, HandlerRaises, Unwind
<1> QED
  BY <1>1, <1>2, <1>3

LEMMA OwnExitsOK ==
    ASSUME TypeOK, CallInv, NEW c \in Conns, ControlOK(c), SubsOK(c), ConnStep(c)
    PROVE  ExitsOK(c)'
<1> USE FunctionTypes
<1>1. ASSUME NEW k \in RequestNumbers, sub_iter[c][k] # "none"
      PROVE  k \in DOMAIN requests[c] /\ IdOf(c, k) \in SubIds /\ IdOf(c, k)' = IdOf(c, k)
  BY <1>1, IterId
<1>2. ASSUME NEW k \in RequestNumbers, sub_iter[c][k] # "none", Displaced(c, k),
             cleanup'[c] # "failed"
      PROVE  Displaced(c, k)'
  BY <1>1, <1>2, DisplacedStays
<1>3. ASSUME NEW i \in SubIds, sub_exits[c][i] # 0
      PROVE  /\ sub_exits[c][i] \in RequestNumbers
             /\ sub_iter[c][sub_exits[c][i]] = "entered" /\ IdOf(c, sub_exits[c][i]) = i
  <2>1. sub_exits[c][i] \in 0..MaxRequests
    OBVIOUS
  <2> QED
    BY <1>3, <2>1 DEF SubsOK, ExitsOK, RequestNumbers
<1>4. clean_subs[c] \in SUBSET RequestNumbers
  OBVIOUS
<1>5. cleanup[c] = "failed" => cleanup'[c] = "failed"
  BY CleanupOrder
<1>6. ASSUME UNCHANGED <<sub_exits[c], clean_subs[c]>>,
             \A k \in RequestNumbers :
                sub_iter'[c][k] = "entered" <=> sub_iter[c][k] = "entered",
             /\ cleanup'[c] \notin {"none", "ready"} => \A i \in SubIds : sub_exits[c][i] = 0
             /\ cleanup'[c] \notin {"subs", "failed"} => clean_subs[c] = {}
      PROVE  ExitsOK(c)'
  <2>1. ASSUME NEW i \in SubIds, sub_exits[c][i] # 0
        PROVE  /\ sub_iter'[c][sub_exits[c][i]] = "entered"
               /\ IdOf(c, sub_exits[c][i])' = i
    BY <1>1, <1>3, <1>6, <2>1
  <2>2. \A k \in clean_subs[c] : sub_iter'[c][k] = "entered"
    BY <1>4, <1>6 DEF SubsOK, ExitsOK
  <2>3. ASSUME NEW k \in RequestNumbers, sub_iter[c][k] = "entered", cleanup'[c] # "failed"
        PROVE  \/ sub_exits[c][IdOf(c, k)'] = k \/ k \in clean_subs[c]
               \/ Displaced(c, k)'
    BY <1>1, <1>2, <1>5, <2>3 DEF SubsOK, ExitsOK
  <2> QED
    BY <1>6, <2>1, <2>2, <2>3 DEF ExitsOK
<1>7. CASE UNCHANGED <<sub_iter[c], sub_exits[c], clean_subs[c]>>
  <2>1. cleanup'[c] \notin {"none", "ready"} => \A i \in SubIds : sub_exits[c][i] = 0
    <3>1. \/ cleanup[c] \notin {"none", "ready"} \/ cleanup'[c] \in {"none", "ready"}
          \/ CleanupBegins(c)
      BY CleanupOrder
    <3>2. CleanupBegins(c) => \A i \in SubIds : sub_exits'[c][i] = 0
      BY DEF CleanupBegins
    <3> QED
      BY <1>7, <3>1, <3>2 DEF SubsOK, ExitsOK
  <2>2. cleanup'[c] \notin {"subs", "failed"} => clean_subs[c] = {}
    <3>1. \/ cleanup[c] \notin {"subs", "failed"} \/ cleanup'[c] \in {"subs", "failed"}
          \/ clean_subs[c] = {}
      BY CleanupOrder DEF CleanupTurnsToStates, CleanupPhases
    <3> QED
      BY <3>1 DEF SubsOK, ExitsOK
  <2> QED
    BY <1>6, <1>7, <2>1, <2>2
<1>8. ASSUME \/ CancelInline(c)
             \/ \E k \in RequestNumbers :
                    \/ SubscribeRaises(c, k) \/ UnsubscribeExited(c, k)
                    \/ UnsubscribeRaises(c, k)
      PROVE  ExitsOK(c)'
  <2>1. cleanup[c] = "none" /\ cleanup'[c] \in {"none", "ready"}
    BY <1>8, InLoop
  <2>2. UNCHANGED <<sub_exits[c], clean_subs[c]>>
    BY <1>8
       DEF CancelInline, SubscribeRaises, UnsubscribeExited, UnsubscribeRaises
  <2>3. \A k \in RequestNumbers : task[c][k] = "entering" => sub_iter[c][k] = "none"
    BY DEF SubsOK, IterOK, Over
  <2>4. ASSUME NEW k \in RequestNumbers
        PROVE  sub_iter'[c][k] = "entered" <=> sub_iter[c][k] = "entered"
    <3>1. CASE CancelInline(c)
      BY <2>3, <3>1 DEF CancelInline
    <3>2. ASSUME NEW j \in RequestNumbers, SubscribeRaises(c, j)
          PROVE  sub_iter'[c][k] = "entered" <=> sub_iter[c][k] = "entered"
      BY <2>3, <3>2 DEF SubscribeRaises, Handling
    <3>3. ASSUME NEW j \in RequestNumbers, UnsubscribeExited(c, j) \/ UnsubscribeRaises(c, j)
          PROVE  sub_iter'[c][k] = "entered" <=> sub_iter[c][k] = "entered"
      BY <3>3 DEF UnsubscribeExited, UnsubscribeRaises, SubIterEnds
    <3> QED
      BY <1>8, <3>1, <3>2, <3>3
  <2>5. clean_subs[c] = {}
    BY <2>1 DEF SubsOK, ExitsOK
  <2> QED
    BY <1>6, <2>1, <2>2, <2>4, <2>5
<1>9. ASSUME NEW j \in RequestNumbers, SubscribeEntered(c, j)
      PROVE  ExitsOK(c)'
  <2>1. cleanup[c] = "none" /\ cleanup'[c] \in {"none", "ready"} /\ clean_subs[c] = {}
    BY <1>9, InLoop DEF SubsOK, ExitsOK
  <2>2. /\ j \in DOMAIN requests[c] /\ requests[c][j].kind = "SUBSCRIBE"
        /\ task[c][j] = "entering" /\ UNCHANGED <<requests, clean_subs>>
        /\ sub_iter' = [sub_iter EXCEPT ![c][j] = "entered"]
        /\ sub_exits' = [sub_exits EXCEPT ![c][IdOf(c, j)] = j]
    BY <1>9 DEF SubscribeEntered, Handling, IdOf
  <2>3. IdOf(c, j) \in SubIds /\ IdOf(c, j)' = IdOf(c, j)
    BY <2>2, RequestType, SessionAssumption DEF IdOf, TypeOK
  <2>4. sub_iter'[c][j] = "entered" /\ sub_exits'[c][IdOf(c, j)] = j
    BY <2>2, <2>3
  <2>5. ASSUME NEW i \in SubIds, sub_exits'[c][i] # 0
        PROVE  \E m \in RequestNumbers :
                 sub_exits'[c][i] = m /\ sub_iter'[c][m] = "entered" /\ IdOf(c, m)' = i
    <3>1. CASE i = IdOf(c, j)
      BY <2>3, <2>4, <3>1
    <3>2. CASE i # IdOf(c, j)
      <4>1. sub_exits'[c][i] = sub_exits[c][i]
        BY <2>2, <3>2
      <4>2. PICK m \in RequestNumbers :
              sub_exits[c][i] = m /\ sub_iter[c][m] = "entered" /\ IdOf(c, m) = i
        BY <1>3, <2>5, <4>1
      <4>3. IdOf(c, m)' = i
        BY <1>1, <4>2
      <4>4. sub_iter'[c][m] = "entered"
        BY <2>2, <4>2
      <4> QED
        BY <4>1, <4>2, <4>3, <4>4
    <3> QED
      BY <3>1, <3>2
  <2>6. ASSUME NEW k \in RequestNumbers, sub_iter'[c][k] = "entered", k # j
        PROVE  sub_exits'[c][IdOf(c, k)'] = k \/ Displaced(c, k)'
    <3>1. sub_iter[c][k] = "entered"
      BY <2>2, <2>6
    <3>2. k \in DOMAIN requests[c] /\ IdOf(c, k) \in SubIds /\ IdOf(c, k)' = IdOf(c, k)
      BY <1>1, <3>1
    <3>3. sub_exits[c][IdOf(c, k)] = k \/ Displaced(c, k)
      BY <2>1, <3>1 DEF SubsOK, ExitsOK
    <3>4. CASE Displaced(c, k)
      BY <1>2, <2>1, <3>1, <3>4
    <3>5. CASE sub_exits[c][IdOf(c, k)] = k /\ IdOf(c, k) # IdOf(c, j)
      BY <2>2, <3>2, <3>5
    <3>6. CASE IdOf(c, k) = IdOf(c, j)
      <4>1. j = LastRequest(c)
        <5>1. IsInline(requests[c][j]) /\ task[c][j] \in LiveTask
          BY <2>2 DEF IsInline, ALWAYS_SYNCHRONIZE, LiveTask
        <5> QED
          BY <2>2, <5>1 DEF ControlOK, InlineOK
      <4>2. k < j
        <5>1. requests[c] \in Seq(ClientRequests)
          OBVIOUS
        <5> QED
          BY <2>6, <3>2, <4>1, <5>1 DEF LastRequest
      <4>3. Is(c, j, "SUBSCRIBE")'
        BY <2>2 DEF Is
      <4> QED
        BY <2>3, <2>4, <3>2, <3>6, <4>2, <4>3 DEF Displaced, IdOf
    <3> QED
      BY <3>3, <3>4, <3>5, <3>6
  <2>7. \A i \in SubIds : sub_exits'[c][i] # 0 =>
            sub_iter'[c][sub_exits'[c][i]] = "entered" /\ (IdOf(c, sub_exits[c][i]))' = i
    BY <2>5 DEF IdOf
  <2> QED
    BY <2>1, <2>2, <2>3, <2>4, <2>6, <2>7 DEF ExitsOK
<1>10. ASSUME NEW j \in RequestNumbers, UnsubscribeStart(c, j)
      PROVE  ExitsOK(c)'
  <2> DEFINE id == requests[c][j].id
  <2>1. cleanup[c] = "none" /\ cleanup'[c] \in {"none", "ready"} /\ clean_subs[c] = {}
    BY <1>10, InLoop DEF SubsOK, ExitsOK
  <2>2. /\ j \in DOMAIN requests[c] /\ requests[c][j].kind = "UNSUBSCRIBE"
        /\ sub_exits[c][id] # 0 /\ UNCHANGED clean_subs
        /\ sub_exits' = [sub_exits EXCEPT ![c][id] = 0]
        /\ sub_iter' = [sub_iter EXCEPT ![c][sub_exits[c][id]] = "exiting"]
    BY <1>10 DEF UnsubscribeStart, Handling
  <2>3. id \in SubIds
    BY <2>2, RequestType DEF TypeOK
  <2>4. PICK m \in RequestNumbers : m = sub_exits[c][id] /\ IdOf(c, m) = id
    BY <1>3, <2>2, <2>3
  <2>5. /\ sub_iter' = [sub_iter EXCEPT ![c][m] = "exiting"]
        /\ \A k \in RequestNumbers : sub_iter'[c][k] = "entered" =>
                sub_iter[c][k] = "entered" /\ k # m
    BY <2>2, <2>4
  <2>6. ASSUME NEW i \in SubIds, sub_exits'[c][i] # 0
        PROVE  \E l \in RequestNumbers :
                 sub_exits'[c][i] = l /\ sub_iter'[c][l] = "entered" /\ IdOf(c, l)' = i
    <3>1. i # id /\ sub_exits'[c][i] = sub_exits[c][i]
      BY <2>2, <2>3, <2>6
    <3>2. PICK l \in RequestNumbers :
            sub_exits[c][i] = l /\ sub_iter[c][l] = "entered" /\ IdOf(c, l) = i
      BY <1>3, <2>6, <3>1
    <3>3. IdOf(c, l)' = i
      BY <1>1, <3>2
    <3>4. sub_iter'[c][l] = "entered"
      BY <2>4, <2>5, <3>1, <3>2
    <3> QED
      BY <3>1, <3>2, <3>3, <3>4
  <2>7. ASSUME NEW k \in RequestNumbers, sub_iter'[c][k] = "entered"
        PROVE  sub_exits'[c][IdOf(c, k)'] = k \/ Displaced(c, k)'
    <3>1. sub_iter[c][k] = "entered" /\ k # m
      BY <2>5, <2>7
    <3>2. IdOf(c, k) \in SubIds /\ IdOf(c, k)' = IdOf(c, k)
      BY <1>1, <3>1
    <3>3. sub_exits[c][IdOf(c, k)] = k \/ Displaced(c, k)
      BY <2>1, <3>1 DEF SubsOK, ExitsOK
    <3>4. CASE Displaced(c, k)
      BY <1>2, <2>1, <3>1, <3>4
    <3>5. CASE sub_exits[c][IdOf(c, k)] = k
      BY <2>2, <2>3, <2>4, <3>1, <3>2, <3>5
    <3> QED
      BY <3>3, <3>4, <3>5
  <2>8. \A i \in SubIds : sub_exits'[c][i] # 0 =>
            sub_iter'[c][sub_exits'[c][i]] = "entered" /\ (IdOf(c, sub_exits[c][i]))' = i
    BY <2>6 DEF IdOf
  <2> QED
    BY <2>1, <2>2, <2>7, <2>8 DEF ExitsOK
<1>11. CASE CleanupBegins(c)
  <2>1. /\ cleanup[c] = "ready" /\ cleanup'[c] = "subs"
        /\ sub_iter' = sub_iter /\ clean_subs'[c] = ExitsOf(c)
        /\ \A i \in SubIds : sub_exits'[c][i] = 0
    BY <1>11 DEF CleanupBegins
  <2>2. ASSUME NEW k \in ExitsOf(c) PROVE sub_iter'[c][k] = "entered"
    <3>1. PICK i \in SubIds : k = sub_exits[c][i] /\ k # 0
      BY DEF ExitsOf
    <3> QED
      BY <1>3, <2>1, <3>1
  <2>3. ASSUME NEW k \in RequestNumbers, sub_iter'[c][k] = "entered"
        PROVE  k \in ExitsOf(c) \/ Displaced(c, k)'
    <3>1. sub_iter[c][k] = "entered" /\ clean_subs[c] = {}
      BY <2>1, <2>3 DEF SubsOK, ExitsOK
    <3>2. sub_exits[c][IdOf(c, k)] = k \/ Displaced(c, k)
      BY <2>1, <3>1 DEF SubsOK, ExitsOK
    <3>3. IdOf(c, k) \in SubIds /\ k # 0
      BY <1>1, <3>1 DEF RequestNumbers
    <3> QED
      BY <1>2, <2>1, <3>1, <3>2, <3>3 DEF ExitsOf
  <2> QED
    BY <2>1, <2>2, <2>3 DEF ExitsOK
<1>12. ASSUME NEW j \in RequestNumbers, CleanupSubscription(c, j)
      PROVE  ExitsOK(c)'
  <2>1. /\ cleanup[c] = "subs" /\ j \in clean_subs[c]
        /\ clean_subs'[c] = clean_subs[c] \ {j} /\ sub_exits' = sub_exits
        /\ cleanup'[c] \in {"subs", "failed"}
        /\ \E state \in {"exited", "failed"} : sub_iter' = [sub_iter EXCEPT ![c][j] = state]
    BY <1>12 DEF CleanupSubscription
  <2>2. \A k \in RequestNumbers :
            sub_iter'[c][k] = "entered" <=> sub_iter[c][k] = "entered" /\ k # j
    BY <2>1
  <2>3. \A i \in SubIds : sub_exits'[c][i] = 0
    BY <2>1 DEF SubsOK, ExitsOK
  <2>4. \A k \in clean_subs'[c] : sub_iter'[c][k] = "entered"
    BY <1>4, <2>1, <2>2 DEF SubsOK, ExitsOK
  <2>5. ASSUME NEW k \in RequestNumbers, sub_iter'[c][k] = "entered", cleanup'[c] # "failed"
        PROVE  k \in clean_subs'[c] \/ Displaced(c, k)'
    <3>1. sub_iter[c][k] = "entered" /\ k # j
      BY <2>2, <2>5
    <3>2. IdOf(c, k) \in SubIds /\ k # 0
      BY <1>1, <3>1 DEF RequestNumbers
    <3>3. k \in clean_subs[c] \/ Displaced(c, k)
      BY <2>1, <3>1, <3>2 DEF SubsOK, ExitsOK
    <3> QED
      BY <1>2, <2>1, <2>5, <3>1, <3>3
  <2> QED
    BY <2>1, <2>3, <2>4, <2>5 DEF ExitsOK
<1> QED
  BY <1>7, <1>8, <1>9, <1>10, <1>11, <1>12, OwnIterators DEF IterMove

(* No iterator moves once the state handlers are being exited.              *)
LEMMA OwnStatesLastOK ==
    ASSUME TypeOK, CallInv, NEW c \in Conns, ControlOK(c), SubsOK(c), ConnStep(c)
    PROVE  StatesLastOK(c)'
<1> SUFFICES ASSUME NEW h \in StateHandlers, state_iter'[c][h] = "exited"
             PROVE  cleanup'[c] \in {"states", "done", "failed"} /\ Settled(c)'
  BY DEF StatesLastOK
<1> USE FunctionTypes
<1>1. state_iter[c][h] = "exited" \/ cleanup[c] = "states"
  <2>1. CASE UNCHANGED <<state_iter[c], state_exits[c], clean_states[c]>>
    BY <2>1
  <2>2. ASSUME NEW s \in StateHandlers, StateHandlerStep(c, s)
        PROVE  state_iter[c][h] = "exited"
    BY <2>2 DEF StateHandlerStep
  <2>3. CASE \/ StartStateHandlers(c, PreHandlers, "pre")
             \/ StartStateHandlers(c, AuthedHandlers, "authed")
    BY <2>3 DEF StartStateHandlers
  <2>4. CASE CancelStarts(c)
    BY <2>4 DEF CancelStarts
  <2>5. CASE CleanupTurnsToStates(c)
    BY <2>5 DEF CleanupTurnsToStates
  <2>6. ASSUME NEW s \in StateHandlers, CleanupState(c, s)
        PROVE  cleanup[c] = "states"
    BY <2>6 DEF CleanupState
  <2> QED
    BY <2>1, <2>2, <2>3, <2>4, <2>5, <2>6, OwnStates DEF StateMove
<1>2. cleanup[c] \in {"states", "done", "failed"}
  BY <1>1 DEF SubsOK, StatesLastOK
<1>3. cleanup'[c] \in {"states", "done", "failed"}
  BY <1>2, CleanupOrder
<1>4. pc[c] \in Left
  BY <1>2 DEF ControlOK, LeaveOK
<1>5. Settled(c)
  <2>1. CASE cleanup[c] = "states"
    <3>1. ASSUME NEW k \in RequestNumbers PROVE sub_iter[c][k] # "exiting"
      BY <1>4 DEF SubsOK, IterOK, LastIs, Left
    <3>2. ASSUME NEW k \in RequestNumbers, sub_iter[c][k] = "entered"
          PROVE  Displaced(c, k)
      <4>1. IdOf(c, k) \in SubIds /\ k # 0
        BY <3>2, IterId DEF RequestNumbers
      <4> QED
        BY <2>1, <3>2, <4>1 DEF SubsOK, ExitsOK
    <3> QED
      BY <3>1, <3>2 DEF Settled
  <2> QED
    BY <1>1, <2>1 DEF SubsOK, StatesLastOK
<1>6. UNCHANGED sub_iter[c]
  <2>1. ~CleanupBegins(c) /\ \A j \in RequestNumbers : ~CleanupSubscription(c, j)
    BY <1>2 DEF CleanupBegins, CleanupSubscription
  <2> QED
    BY <1>2, <2>1, OwnIterators, InLoop DEF IterMove
<1>7. ASSUME NEW k \in RequestNumbers, sub_iter'[c][k] = "entered"
      PROVE  Displaced(c, k)'
  <2>1. k \in DOMAIN requests[c] /\ Displaced(c, k)
    BY <1>5, <1>6, <1>7, IterId DEF Settled
  <2> QED
    BY <1>2, <2>1, DisplacedStays
<1> QED
  BY <1>3, <1>5, <1>6, <1>7 DEF Settled

LEMMA StepSubsInv ==
    ASSUME TypeOK, CallInv, ControlInv, SubsInv, [Next]_vars
    PROVE  SubsInv'
<1>1. ASSUME NEW c \in Conns, Same(c)
      PROVE  SubsOK(c)'
  <2>1. IterOK(c)'
    BY <1>1 DEF Same, SubsInv, SubsOK, IterOK, LastIs, LastRequest, Is
  <2>2. ASSUME NEW k \in RequestNumbers
        PROVE  Displaced(c, k)' <=> Displaced(c, k)
    BY <1>1 DEF Same, Displaced, Is
  <2>3. ExitsOK(c)'
    BY <1>1, <2>2 DEF Same, SubsInv, SubsOK, ExitsOK, IdOf
  <2>4. StatesLastOK(c)'
    BY <1>1, <2>2 DEF Same, SubsInv, SubsOK, StatesLastOK, Settled
  <2> QED
    BY <2>1, <2>3, <2>4 DEF SubsOK
<1>2. ASSUME NEW c \in Conns, ConnStep(c)
      PROVE  SubsOK(c)'
  BY <1>2, OwnIterOK, OwnExitsOK, OwnStatesLastOK
     DEF SubsInv, SubsOK, ControlInv
<1> QED
  BY <1>1, <1>2, StepOfOne DEF SubsInv

(* SubsInv is an invariant of the application layer.                        *)
THEOREM SubsInvariant == Spec => []SubsInv
<1>1. Init => SubsInv
  <2> SUFFICES ASSUME Init, NEW c \in Conns PROVE SubsOK(c)
    BY DEF SubsInv
  <2>1. /\ cleanup[c] = "none" /\ clean_subs[c] = {}
        /\ \A k \in RequestNumbers : sub_iter[c][k] = "none" /\ task[c][k] = "none"
        /\ \A i \in SubIds : sub_exits[c][i] = 0
        /\ \A s \in StateHandlers : state_iter[c][s] = "none"
    BY DEF Init
  <2> QED
    BY <2>1 DEF SubsOK, IterOK, ExitsOK, StatesLastOK
<1>2. TypeOK /\ CallInv /\ ControlInv /\ SubsInv /\ [Next]_vars => SubsInv'
  BY StepSubsInv
<1> QED
  BY <1>1, <1>2, TypeCorrect, CallInvariant, ControlInvariant, PTL DEF Spec

-----------------------------------------------------------------------------
(* A clean-up that ends without an exception has undone everything whose    *)
(* first part ran, displaced subscriptions excepted, wherever the session   *)
(* was cut off (_clean_up_session).                                         *)
THEOREM CleanupIsComplete == Spec => []CleanupComplete
<1>1. TypeOK /\ ControlInv /\ StatesInv /\ SubsInv => CleanupComplete
  <2> SUFFICES ASSUME TypeOK, ControlInv, StatesInv, SubsInv,
                      NEW c \in Conns, cleanup[c] = "done"
               PROVE  /\ \A k \in RequestNumbers :
                            sub_iter[c][k] = "entered" => Displaced(c, k)
                      /\ \A k \in RequestNumbers : sub_iter[c][k] # "exiting"
                      /\ \A s \in StateHandlers : state_iter[c][s] \notin Begun
    BY DEF CleanupComplete, Begun
  <2>1. ControlOK(c) /\ StatesOK(c) /\ SubsOK(c)
    BY DEF ControlInv, StatesInv, SubsInv
  <2>2. \A s \in StateHandlers : state_iter[c][s] \notin Begun
    BY <2>1 DEF StatesOK
  <2>3. \A k \in RequestNumbers : sub_iter[c][k] # "exiting"
    BY <2>1 DEF SubsOK, IterOK, LastIs, ControlOK, LeaveOK, Left
  <2>4. ASSUME NEW k \in RequestNumbers, sub_iter[c][k] = "entered"
        PROVE  Displaced(c, k)
    <3>1. Is(c, k, "SUBSCRIBE")
      BY <2>1, <2>4 DEF SubsOK, IterOK
    <3>2. IdOf(c, k) \in SubIds /\ k # 0
      BY <3>1, RequestType, SessionAssumption
         DEF Is, IdOf, TypeOK, RequestNumbers
    <3> QED
      BY <2>1, <2>4, <3>2 DEF SubsOK, ExitsOK
  <2> QED
    BY <2>2, <2>3, <2>4
<1> QED
  BY <1>1, TypeCorrect, ControlInvariant, StatesInvariant, SubsInvariant, PTL

(* Session state outlives the subscriptions that may use it: no state       *)
(* handler's second part has run while a subscription's has yet to.         *)
THEOREM StateIsExitedLast == Spec => []StateOutlivesSubscriptions
<1>1. SubsInv => StateOutlivesSubscriptions
  BY DEF SubsInv, SubsOK, StatesLastOK, Settled, StateOutlivesSubscriptions
<1> QED
  BY <1>1, SubsInvariant, PTL
=============================================================================

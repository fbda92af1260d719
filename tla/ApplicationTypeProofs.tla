------------------------ MODULE ApplicationTypeProofs ------------------------
(***************************************************************************)
(* TypeOK of module Application is an invariant for every value of its     *)
(* constants: any number of connections, requests, progress reports and    *)
(* events, any topics and any assignment of subscription ids to them.      *)
(***************************************************************************)
EXTENDS ApplicationProperties, TLAPS

USE SessionAssumption, ApplicationAssumption

(* The tuples of variables that actions leave unchanged are shorthands.     *)
USE DEF connectionVars, openVars, registryVars, sessionVars, controlVars,
        authVars, taskVars, subVars, stateVars, cleanVars, closerVars,
        handlerFrame, mainFrame, cleanupFrame, closerFrame

-----------------------------------------------------------------------------
(* A message of one of the types, about a request or an id, may be sent.    *)
LEMMA SendMsgType ==
    ASSUME ConnectionTypeOK, NEW c \in Conns, NEW type \in MsgTypes, NEW ref \in Nat,
           SendMsg(c, Msg(type, ref)), UNCHANGED link
    PROVE  ConnectionTypeOK'
<1>1. Msg(type, ref) \in Messages
  BY DEF Msg, Messages
<1>2. Append(out[c], Msg(type, ref)) \in Seq(Messages)
  BY <1>1 DEF ConnectionTypeOK
<1> QED
  BY <1>2 DEF ConnectionTypeOK, SendMsg

(* Closing a transport.                                                     *)
LEMMA CloseLinkType ==
    ASSUME ConnectionTypeOK, NEW c \in Conns, CloseLink(c), UNCHANGED out
    PROVE  ConnectionTypeOK'
  BY DEF ConnectionTypeOK, CloseLink

(* The session's flags: mark_authenticated, close and abort.                *)
LEMMA OpenType ==
    ASSUME SessionTypeOK, NEW c \in Conns, MarkOpen(c) \/ MarkClosed(c) \/ MarkAborted(c),
           UNCHANGED registryVars
    PROVE  SessionTypeOK'
  BY DEF SessionTypeOK, MarkOpen, MarkClosed, MarkAborted

(* The session's registry, for a topic or an id of the model.               *)
LEMMA RegistryType ==
    ASSUME SessionTypeOK, NEW c \in Conns, UNCHANGED openVars,
           \/ \E t \in Topics : RegisterSubscription(c, t)
           \/ \E i \in SubIds : UnregisterSubscription(c, i)
    PROVE  SessionTypeOK'
<1>1. ASSUME NEW t \in Topics, RegisterSubscription(c, t) PROVE SessionTypeOK'
  BY <1>1 DEF SessionTypeOK, RegisterSubscription
<1>2. ASSUME NEW i \in SubIds, UnregisterSubscription(c, i) PROVE SessionTypeOK'
  BY <1>2 DEF SessionTypeOK, UnregisterSubscription
<1> QED
  BY <1>1, <1>2

(* The main coroutine goes on to a wait; leaves its body; ends.             *)
LEMMA GotoType ==
    ASSUME ControlTypeOK, NEW c \in Conns, NEW label \in MainStates, Goto(c, label)
    PROVE  ControlTypeOK'
  BY DEF ControlTypeOK, Goto

LEMMA UnwindType ==
    ASSUME ControlTypeOK, NEW c \in Conns, NEW how \in {"return", "raise"}, Unwind(c, how)
    PROVE  ControlTypeOK'
  BY DEF ControlTypeOK, Unwind, MainStates, CleanupPhases

LEMMA CancelTasksType ==
    ASSUME TaskTypeOK, NEW c \in Conns, CancelTasks(c), UNCHANGED <<requests, progressed>>
    PROVE  TaskTypeOK'
  BY DEF TaskTypeOK, CancelTasks, TaskStates, LiveTask

LEMMA FinishType ==
    ASSUME ControlTypeOK, TaskTypeOK, NEW c \in Conns,
           NEW how \in {"return", "raise"}, Finish(c, how),
           UNCHANGED <<requests, progressed>>
    PROVE  ControlTypeOK' /\ TaskTypeOK'
  BY CancelTasksType DEF ControlTypeOK, Finish, MainStates

(* The state handlers of a group start, or are cancelled as they start.     *)
LEMMA StateHandlersType ==
    ASSUME IteratorTypeOK, ControlTypeOK, NEW c \in Conns,
           NEW group \in SUBSET StateHandlers, NEW label \in MainStates,
           StartStateHandlers(c, group, label), UNCHANGED <<subVars, cleanVars>>
    PROVE  IteratorTypeOK' /\ ControlTypeOK'
  BY GotoType DEF IteratorTypeOK, StartStateHandlers, StateIterStates

LEMMA CancelStartsType ==
    ASSUME IteratorTypeOK, NEW c \in Conns, CancelStarts(c),
           UNCHANGED <<state_exits, subVars, cleanVars>>
    PROVE  IteratorTypeOK'
  BY DEF IteratorTypeOK, CancelStarts, StateIterStates

(* A handler goes on to a wait; ends.                                       *)
LEMMA HandlerWaitsType ==
    ASSUME ControlTypeOK, TaskTypeOK, NEW c \in Conns, NEW k \in RequestNumbers,
           NEW state \in TaskStates, HandlerWaits(c, k, state)
    PROVE  /\ ControlTypeOK'
           /\ task' \in [Conns -> [RequestNumbers -> TaskStates]]
  BY DEF ControlTypeOK, TaskTypeOK, HandlerWaits

LEMMA HandlerEndsType ==
    ASSUME ControlTypeOK, TaskTypeOK, NEW c \in Conns, NEW k \in RequestNumbers,
           HandlerReturns(c, k) \/ HandlerRaises(c, k), UNCHANGED <<requests, progressed>>
    PROVE  ControlTypeOK' /\ TaskTypeOK'
<1>1. ASSUME NEW state \in TaskStates, task' = [task EXCEPT ![c][k] = state]
      PROVE  TaskTypeOK'
  BY <1>1 DEF TaskTypeOK
<1>2. CASE HandlerReturns(c, k)
  BY <1>1, <1>2 DEF ControlTypeOK, HandlerReturns, MainStates, TaskStates
<1>3. CASE HandlerRaises(c, k)
  BY <1>1, <1>3, UnwindType DEF ControlTypeOK, HandlerRaises, TaskStates
<1> QED
  BY <1>2, <1>3



LEMMA UnchangedType ==
    ASSUME TypeOK
    PROVE  /\ UNCHANGED connectionVars => ConnectionTypeOK'
           /\ UNCHANGED sessionVars => SessionTypeOK'
           /\ UNCHANGED controlVars => ControlTypeOK'
           /\ UNCHANGED <<authVars, active>> => AuthTypeOK'
           /\ UNCHANGED taskVars => TaskTypeOK'
           /\ UNCHANGED <<subVars, stateVars, cleanVars>> => IteratorTypeOK'
           /\ UNCHANGED closerVars => CloserTypeOK'
  BY DEF TypeOK, ConnectionTypeOK, SessionTypeOK, ControlTypeOK, AuthTypeOK,
         TaskTypeOK, IteratorTypeOK, CloserTypeOK

(* The fields of a request, by its kind.                                    *)
LEMMA RequestType ==
    ASSUME TaskTypeOK, NEW c \in Conns, NEW k \in DOMAIN requests[c]
    PROVE  /\ requests[c][k].kind = "SUBSCRIBE" => requests[c][k].topic \in Topics
           /\ requests[c][k].kind = "UNSUBSCRIBE" => requests[c][k].id \in SubIds
<1>1. requests[c] \in Seq(ClientRequests)
  BY DEF TaskTypeOK
<1>2. requests[c][k] \in Requests
  BY <1>1
<1> QED
  BY <1>2 DEF Requests

(* The iterator's part of the type, for steps that touch one entry of it.   *)
LEMMA SubIterType ==
    ASSUME IteratorTypeOK, NEW c \in Conns, NEW j \in RequestNumbers,
           NEW state \in SubIterStates, sub_iter' = [sub_iter EXCEPT ![c][j] = state]
    PROVE  sub_iter' \in [Conns -> [RequestNumbers -> SubIterStates]]
  BY DEF IteratorTypeOK

LEMMA SubExitsType ==
    ASSUME IteratorTypeOK, NEW c \in Conns, NEW i \in SubIds, NEW k \in 0..MaxRequests,
           sub_exits' = [sub_exits EXCEPT ![c][i] = k]
    PROVE  sub_exits' \in [Conns -> [SubIds -> 0..MaxRequests]]
  BY DEF IteratorTypeOK

LEMMA StateIterType ==
    ASSUME IteratorTypeOK, NEW c \in Conns, NEW s \in StateHandlers,
           NEW state \in StateIterStates, state_iter' = [state_iter EXCEPT ![c][s] = state]
    PROVE  state_iter' \in [Conns -> [StateHandlers -> StateIterStates]]
  BY DEF IteratorTypeOK

(* Authentication, whoever asks for it and however far it has got.          *)
LEMMA AuthenticateFromType ==
    ASSUME TypeOK, NEW c \in Conns, NEW methods,
           NEW n \in Nat, n <= TransportAuthenticators + 1,
           AuthenticateFrom(c, n, methods), UNCHANGED <<link, registryVars>>
    PROVE  /\ ConnectionTypeOK' /\ SessionTypeOK' /\ ControlTypeOK'
           /\ tried' \in [Conns -> 0..TransportAuthenticators]
  BY UnchangedType, GotoType, UnwindType, SendMsgType
     DEF TypeOK, AuthTypeOK, AuthenticateFrom, SendAbort, MainStates, MsgTypes

LEMMA MarkAuthenticatedType ==
    ASSUME TypeOK, NEW c \in Conns, MarkAuthenticated(c), UNCHANGED <<link, registryVars>>
    PROVE  ConnectionTypeOK' /\ SessionTypeOK'
<1>1. ConnectionTypeOK'
  BY SendMsgType DEF TypeOK, MarkAuthenticated, MsgTypes
<1>2. SessionTypeOK'
  BY DEF TypeOK, SessionTypeOK, MarkAuthenticated
<1> QED
  BY <1>1, <1>2

LEMMA AuthenticateType ==
    ASSUME TypeOK, NEW c \in Conns, NEW methods,
           Authenticate(c, methods), UNCHANGED <<link, registryVars>>
    PROVE  /\ ConnectionTypeOK' /\ SessionTypeOK' /\ ControlTypeOK'
           /\ tried' \in [Conns -> 0..TransportAuthenticators]
  BY AuthenticateFromType, MarkAuthenticatedType, GotoType
     DEF TypeOK, AuthTypeOK, Authenticate, MainStates

-----------------------------------------------------------------------------
(* The steps of Next, one group of actions after the other.                 *)
LEMMA ClientType ==
    ASSUME TypeOK, NEW c \in Conns, Client(c)
    PROVE  TypeOK'
<1>1. CASE ReceiveHello(c)
  BY <1>1, UnchangedType, AuthenticateType, StateHandlersType
     DEF TypeOK, ReceiveHello, AuthTypeOK, StateHandlers, MainStates
<1>2. CASE RejectFirst(c)
  BY <1>2, UnchangedType, SendMsgType, GotoType
     DEF TypeOK, RejectFirst, SendAbort, MainStates, MsgTypes
<1>3. CASE LeaveBeforeSession(c)
  BY <1>3, UnchangedType, FinishType
     DEF TypeOK, LeaveBeforeSession
<1>4. CASE Receive(c)
  BY SMTT(30), <1>4, UnchangedType, GotoType
     DEF TypeOK, Receive, TaskTypeOK, RequestNumbers, TaskStates, LiveTask,
         MainStates
<1>5. CASE ReceiveUnparsable(c)
  BY <1>5, UnchangedType, SendMsgType, GotoType
     DEF TypeOK, ReceiveUnparsable, SendAbort, MainStates, MsgTypes
<1>6. CASE LeaveLoop(c)
  BY <1>6, UnchangedType, UnwindType
     DEF TypeOK, LeaveLoop
<1>7. CASE Disconnects(c)
  BY <1>7, UnchangedType, CloseLinkType
     DEF TypeOK, Disconnects, Disconnect
<1> QED
  BY <1>1, <1>2, <1>3, <1>4, <1>5, <1>6, <1>7 DEF Client

LEMMA SessionStepType ==
    ASSUME TypeOK, NEW c \in Conns, SessionStep(c)
    PROVE  TypeOK'
<1>1. CASE Rejected(c)
  BY <1>1, UnchangedType, CloseLinkType, FinishType
     DEF TypeOK, Rejected
<1>2. CASE StateHandlersStarted(c)
  BY <1>2, UnchangedType, AuthenticateType, GotoType
     DEF TypeOK, StateHandlersStarted, AuthTypeOK, MainStates
<1>3. CASE StateHandlersFailed(c)
  BY <1>3, UnchangedType, CancelStartsType, UnwindType
     DEF TypeOK, StateHandlersFailed
<1>4. CASE TransportAuthenticated(c)
  BY <1>4, UnchangedType, AuthenticateFromType, MarkAuthenticatedType, GotoType,
     UnwindType
     DEF TypeOK, TransportAuthenticated, AuthTypeOK, MainStates
<1>5. CASE Challenge(c)
  BY <1>5, UnchangedType, SendMsgType, GotoType
     DEF TypeOK, Challenge, SendChallenge, MainStates, MsgTypes
<1>6. CASE Welcomed(c)
  BY <1>6, UnchangedType, OpenType, StateHandlersType, GotoType
     DEF TypeOK, Welcomed, StateHandlers, MainStates
<1>7. CASE Refused(c)
  BY <1>7, UnchangedType, OpenType, UnwindType
     DEF TypeOK, Refused
<1>8. CASE SessionRaises(c)
  BY <1>8, UnchangedType, UnwindType
     DEF TypeOK, SessionRaises
<1>9. CASE Aborted(c)
  BY <1>9, UnchangedType, CloseLinkType, UnwindType
     DEF TypeOK, Aborted
<1>10. CASE CleanedUp(c)
  BY <1>10, UnchangedType, GotoType, FinishType
     DEF TypeOK, CleanedUp, MainStates
<1>11. CASE Gathered(c)
  BY <1>11, UnchangedType, FinishType
     DEF TypeOK, Gathered, GatheredResult
<1>12. CASE FrameworkClose(c)
  BY <1>12, UnchangedType, CloseLinkType
     DEF TypeOK, FrameworkClose
<1> QED
  BY <1>1, <1>2, <1>3, <1>4, <1>5, <1>6, <1>7, <1>8, <1>9, <1>10, <1>11, <1>12
     DEF SessionStep

LEMMA CleanupStepType ==
    ASSUME TypeOK, NEW c \in Conns, CleanupStep(c)
    PROVE  TypeOK'
<1>1. CASE CleanupBegins(c)
  BY <1>1, UnchangedType
     DEF TypeOK, CleanupBegins, AuthTypeOK, ControlTypeOK, CleanupPhases,
         IteratorTypeOK, ExitsOf, Deactivate, RequestNumbers
<1>2. CASE \E j \in RequestNumbers : CleanupSubscription(c, j)
  <2>1. PICK j \in RequestNumbers : CleanupSubscription(c, j)
    BY <1>2
  <2>2. ControlTypeOK'
    BY <2>1 DEF TypeOK, ControlTypeOK, CleanupSubscription, CleanupPhases
  <2>3. IteratorTypeOK'
    BY <2>1, SubIterType
       DEF TypeOK, IteratorTypeOK, CleanupSubscription, SubIterStates
  <2> QED
    BY <2>1, <2>2, <2>3, UnchangedType
       DEF TypeOK, AuthTypeOK, CleanupSubscription
<1>3. CASE CleanupTurnsToStates(c)
  BY <1>3, UnchangedType
     DEF TypeOK, CleanupTurnsToStates, ControlTypeOK, CleanupPhases,
         IteratorTypeOK
<1>4. CASE \E s \in StateHandlers : CleanupState(c, s)
  <2>1. PICK s \in StateHandlers : CleanupState(c, s)
    BY <1>4
  <2>2. ControlTypeOK'
    BY <2>1 DEF TypeOK, ControlTypeOK, CleanupState, CleanupPhases
  <2>3. IteratorTypeOK'
    BY <2>1, StateIterType
       DEF TypeOK, IteratorTypeOK, CleanupState, StateIterStates
  <2> QED
    BY <2>1, <2>2, <2>3, UnchangedType DEF TypeOK, AuthTypeOK, CleanupState
<1>5. CASE CleanupEnds(c)
  BY <1>5, UnchangedType
     DEF TypeOK, CleanupEnds, ControlTypeOK, CleanupPhases
<1> QED
  BY <1>1, <1>2, <1>3, <1>4, <1>5 DEF CleanupStep

LEMMA CloserStepType ==
    ASSUME TypeOK, NEW c \in Conns, CloserStep(c)
    PROVE  TypeOK'
<1>1. CASE CloserStart(c)
  BY <1>1, UnchangedType, SendMsgType, OpenType
     DEF TypeOK, CloserStart, SendGoodbye, MsgTypes, CloserTypeOK, CloserStates
<1>2. CASE CloserSent(c)
  BY <1>2, UnchangedType, OpenType
     DEF TypeOK, CloserSent, CloserTypeOK, CloserStates
<1> QED
  BY <1>1, <1>2 DEF CloserStep

LEMMA CancelType ==
    ASSUME TypeOK, NEW c \in Conns, Cancel(c)
    PROVE  TypeOK'
<1>1. CASE CancelStartingHandlers(c)
  BY <1>1, UnchangedType, CancelStartsType, UnwindType
     DEF TypeOK, CancelStartingHandlers
<1>2. CASE CancelSession(c)
  BY <1>2, UnchangedType, UnwindType
     DEF TypeOK, CancelSession
<1>3. CASE CancelInline(c)
  BY <1>3, UnchangedType, UnwindType
     DEF TypeOK, CancelInline, IteratorTypeOK, TaskTypeOK, TaskStates,
         SubIterStates
<1>4. CASE CancelAbort(c)
  BY <1>4, UnchangedType, CloseLinkType, UnwindType
     DEF TypeOK, CancelAbort
<1>5. CASE CancelShielded(c)
  BY <1>5, UnchangedType, FinishType
     DEF TypeOK, CancelShielded
<1>6. CASE CancelGather(c)
  BY <1>6, UnchangedType, FinishType, CancelTasksType
     DEF TypeOK, CancelGather, ControlTypeOK
<1> QED
  BY <1>1, <1>2, <1>3, <1>4, <1>5, <1>6 DEF Cancel

LEMMA HandlerStepType ==
    ASSUME TypeOK, NEW c \in Conns, NEW k \in RequestNumbers, HandlerStep(c, k)
    PROVE  TypeOK'
<1>1. CASE CallStart(c, k)
  BY <1>1, UnchangedType, HandlerWaitsType
     DEF TypeOK, CallStart, Handling, TaskTypeOK, LiveTask, TaskStates
<1>2. CASE CallProgress(c, k)
  <2>1. k \in Nat
    BY DEF RequestNumbers
  <2>2. ConnectionTypeOK'
    BY <1>2, <2>1, SendMsgType DEF TypeOK, CallProgress, MsgTypes
  <2>3. ControlTypeOK' /\ TaskTypeOK'
    BY <1>2, HandlerWaitsType
       DEF TypeOK, CallProgress, TaskTypeOK, TaskStates, LiveTask
  <2> QED
    BY <1>2, <2>2, <2>3, UnchangedType DEF TypeOK, CallProgress
<1>3. ASSUME NEW type \in {"RESULT", "ERROR"}, Answer(c, k, type)
      PROVE  TypeOK'
  <2>1. k \in Nat
    BY DEF RequestNumbers
  <2>2. ConnectionTypeOK'
    BY <1>3, <2>1, SendMsgType DEF TypeOK, Answer, MsgTypes
  <2>3. ControlTypeOK' /\ TaskTypeOK'
    BY <1>3, HandlerWaitsType
       DEF TypeOK, Answer, TaskTypeOK, TaskStates, LiveTask
  <2> QED
    BY <1>3, <2>2, <2>3, UnchangedType DEF TypeOK, Answer
<1>4. CASE CallRaises(c, k)
  BY <1>4, UnchangedType, HandlerEndsType
     DEF TypeOK, CallRaises
<1>5. CASE GoodbyeStart(c, k)
  BY <1>5, UnchangedType, SendMsgType, OpenType, HandlerWaitsType,
     HandlerEndsType
     DEF TypeOK, GoodbyeStart, Handling, TaskTypeOK, LiveTask, TaskStates,
         SendGoodbye, MsgTypes
<1>6. CASE GoodbyeSent(c, k)
  BY <1>6, UnchangedType, OpenType, HandlerEndsType
     DEF TypeOK, GoodbyeSent
<1>7. CASE SubscribeStart(c, k)
  <2>1. SessionTypeOK'
    BY <1>7, RequestType, RegistryType DEF TypeOK, SubscribeStart, Handling
  <2>2. ControlTypeOK' /\ TaskTypeOK'
    BY <1>7, HandlerWaitsType
       DEF TypeOK, SubscribeStart, TaskTypeOK, TaskStates, LiveTask
  <2> QED
    BY <1>7, <2>1, <2>2, UnchangedType DEF TypeOK, SubscribeStart
<1>8. CASE SubscribeEntered(c, k)
  <2>1. k \in Nat /\ k \in 0..MaxRequests
    BY DEF RequestNumbers
  <2>2. ConnectionTypeOK'
    BY <1>8, <2>1, SendMsgType DEF TypeOK, SubscribeEntered, MsgTypes
  <2>3. ControlTypeOK' /\ TaskTypeOK'
    BY <1>8, HandlerWaitsType
       DEF TypeOK, SubscribeEntered, TaskTypeOK, TaskStates, LiveTask
  <2>4. SubIdOf[requests[c][k].topic] \in SubIds
    BY <1>8, RequestType DEF TypeOK, SubscribeEntered, Handling
  <2>5. IteratorTypeOK'
    <3>1. sub_iter' \in [Conns -> [RequestNumbers -> SubIterStates]]
      BY <1>8, SubIterType DEF TypeOK, SubscribeEntered, SubIterStates
    <3>2. sub_exits' \in [Conns -> [SubIds -> 0..MaxRequests]]
      BY <1>8, <2>1, <2>4, SubExitsType DEF TypeOK, SubscribeEntered
    <3> QED
      BY <1>8, <3>1, <3>2 DEF TypeOK, IteratorTypeOK, SubscribeEntered
  <2> QED
    BY <1>8, <2>2, <2>3, <2>5, UnchangedType DEF TypeOK, SubscribeEntered
<1>9. CASE SubscribeRaises(c, k)
  BY <1>9, UnchangedType, HandlerEndsType
     DEF TypeOK, SubscribeRaises, IteratorTypeOK, SubIterStates
<1>10. CASE UnsubscribeStart(c, k)
  <2> DEFINE i == requests[c][k].id
             j == sub_exits[c][i]
  <2>1. i \in SubIds
    BY <1>10, RequestType DEF TypeOK, UnsubscribeStart, Handling
  <2>2. j \in 0..MaxRequests
    <3>1. sub_exits[c] \in [SubIds -> 0..MaxRequests]
      BY DEF TypeOK, IteratorTypeOK
    <3> QED
      BY <2>1, <3>1
  <2>3. j # 0 /\ sub_exits' = [sub_exits EXCEPT ![c][i] = 0]
               /\ sub_iter' = [sub_iter EXCEPT ![c][j] = "exiting"]
    BY <1>10 DEF UnsubscribeStart
  <2>4. j \in RequestNumbers /\ 0 \in 0..MaxRequests
    BY <2>2, <2>3 DEF RequestNumbers
  <2>5. ControlTypeOK' /\ TaskTypeOK'
    BY <1>10, HandlerWaitsType
       DEF TypeOK, UnsubscribeStart, TaskTypeOK, TaskStates, LiveTask
  <2> HIDE DEF i, j
  <2>6. IteratorTypeOK'
    <3>1. sub_iter' \in [Conns -> [RequestNumbers -> SubIterStates]]
      BY <2>3, <2>4, SubIterType DEF TypeOK, SubIterStates
    <3>2. sub_exits' \in [Conns -> [SubIds -> 0..MaxRequests]]
      BY <2>1, <2>3, <2>4, SubExitsType DEF TypeOK
    <3> QED
      BY <1>10, <3>1, <3>2 DEF TypeOK, IteratorTypeOK, UnsubscribeStart
  <2> QED
    BY <1>10, <2>5, <2>6, UnchangedType DEF TypeOK, UnsubscribeStart
<1>11. CASE UnsubscribeUnknown(c, k)
  BY <1>11, UnchangedType, HandlerEndsType
     DEF TypeOK, UnsubscribeUnknown
<1>12. CASE UnsubscribeExited(c, k)
  <2>1. k \in Nat
    BY DEF RequestNumbers
  <2>2. ConnectionTypeOK'
    BY <1>12, <2>1, SendMsgType DEF TypeOK, UnsubscribeExited, MsgTypes
  <2>3. ControlTypeOK' /\ TaskTypeOK'
    BY <1>12, HandlerWaitsType
       DEF TypeOK, UnsubscribeExited, TaskTypeOK, TaskStates, LiveTask
  <2>4. SessionTypeOK'
    BY <1>12, RequestType, RegistryType DEF TypeOK, UnsubscribeExited, Handling
  <2>5. IteratorTypeOK'
    BY <1>12, SubIterType
       DEF TypeOK, IteratorTypeOK, UnsubscribeExited, SubIterEnds, SubIterStates
  <2> QED
    BY <1>12, <2>2, <2>3, <2>4, <2>5, UnchangedType
       DEF TypeOK, UnsubscribeExited
<1>13. CASE UnsubscribeRaises(c, k)
  BY <1>13, UnchangedType, HandlerEndsType
     DEF TypeOK, UnsubscribeRaises, SubIterEnds, IteratorTypeOK, SubIterStates
<1>14. CASE HandlerSent(c, k)
  BY <1>14, UnchangedType, HandlerWaitsType, HandlerEndsType
     DEF TypeOK, HandlerSent, Handling, TaskTypeOK, LiveTask, TaskStates
<1>15. CASE HandlerSendRaises(c, k)
  BY <1>15, UnchangedType, HandlerEndsType
     DEF TypeOK, HandlerSendRaises
<1>16. CASE HandlerCancelled(c, k)
  BY <1>16, UnchangedType
     DEF TypeOK, HandlerCancelled, TaskTypeOK, TaskStates, ControlTypeOK
<1>17. CASE CallAnswer(c, k) \/ CallExhausted(c, k)
  BY <1>3, <1>17 DEF CallAnswer, CallExhausted
<1> QED
  BY <1>1, <1>2, <1>4, <1>5, <1>6, <1>7, <1>8, <1>9, <1>10, <1>11, <1>12,
     <1>13, <1>14, <1>15, <1>16, <1>17
     DEF HandlerStep


LEMMA StateHandlerStepType ==
    ASSUME TypeOK, NEW c \in Conns, NEW s \in StateHandlers, StateHandlerStep(c, s)
    PROVE  TypeOK'
<1>1. PICK step \in {<<"starting", "entering">>, <<"entering", "entered">>,
                    <<"entering", "failed">>, <<"cancelling", "cancelled">>} :
          state_iter' = [state_iter EXCEPT ![c][s] = step[2]]
  BY Zenon DEF StateHandlerStep
<1>2. step[2] \in StateIterStates
  BY DEF StateIterStates
<1>3. IteratorTypeOK'
  BY <1>1, <1>2, StateIterType DEF TypeOK, IteratorTypeOK, StateHandlerStep
<1> QED
  BY <1>3, UnchangedType DEF TypeOK, ControlTypeOK, StateHandlerStep

LEMMA PublishType ==
    ASSUME TypeOK, NEW c \in Conns, NEW t \in Topics, Publish(c, t)
    PROVE  TypeOK'
<1>1. SubIdOf[t] \in Nat
  OBVIOUS
<1>2. ConnectionTypeOK'
  BY <1>1, SendMsgType DEF TypeOK, Publish, SendEvent, MsgTypes
<1> QED
  BY <1>2, UnchangedType DEF TypeOK, Publish

LEMMA CloseSessionsType ==
    ASSUME TypeOK, CloseSessions \/ CloseSessionsEnds
    PROVE  TypeOK'
<1>1. CASE CloseSessions
  BY <1>1, UnchangedType DEF TypeOK, CloseSessions, CloserTypeOK, CloserStates
<1>2. CASE CloseSessionsEnds
  BY <1>2, UnchangedType
     DEF TypeOK, CloseSessionsEnds, CloserTypeOK, CloserStates
<1> QED
  BY <1>1, <1>2

(* Init, and a step of the specification.                                   *)
LEMMA InitType ==
    ASSUME Init
    PROVE  TypeOK
<1>1. ConnectionTypeOK /\ SessionTypeOK
  BY DEF Init, ConnectionInit, SessionInit, ConnectionTypeOK, SessionTypeOK
<1>2. ControlTypeOK /\ AuthTypeOK /\ TaskTypeOK
  BY
     DEF Init, ControlTypeOK, AuthTypeOK, TaskTypeOK, MainStates, CleanupPhases,
         TaskStates
<1>3. IteratorTypeOK /\ CloserTypeOK
  BY
     DEF Init, IteratorTypeOK, CloserTypeOK, SubIterStates, StateIterStates,
         CloserStates
<1> QED
  BY <1>1, <1>2, <1>3 DEF TypeOK

LEMMA StepType ==
    ASSUME TypeOK, [Next]_vars
    PROVE  TypeOK'
<1>1. CASE Next
  BY <1>1, ClientType, SessionStepType, CleanupStepType, CloserStepType,
     CancelType,
     HandlerStepType, StateHandlerStepType, PublishType, CloseSessionsType,
     UnchangedType DEF Next, Terminated, TypeOK, vars
<1>2. CASE UNCHANGED vars
  BY <1>2, UnchangedType DEF TypeOK, vars
<1> QED
  BY <1>1, <1>2

(* Every variable of the application layer keeps its type: a request's task,*)
(* an iterator or an exit is only ever what the code gives it, and none is  *)
(* recorded for a request, a topic or an id that does not exist.            *)
THEOREM TypeCorrect == Spec => []TypeOK
<1>1. Init => TypeOK
  BY InitType
<1>2. TypeOK /\ [Next]_vars => TypeOK'
  BY StepType
<1> QED
  BY <1>1, <1>2, PTL DEF Spec
=============================================================================

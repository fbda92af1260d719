----------------------- MODULE ApplicationSessionProofs -----------------------
(***************************************************************************)
(* How a session begins and ends, proved for every value of the constants  *)
(* of module Application: the handshake comes first in what a client is     *)
(* sent, a session that said GOODBYE and closed stays closed, and the       *)
(* coroutine that serves a connection leaves nothing of it running.         *)
(***************************************************************************)
EXTENDS ApplicationCallProofs

USE SessionAssumption, ApplicationAssumption

(* The tuples of variables that actions leave unchanged are shorthands.     *)
USE DEF connectionVars, openVars, registryVars, sessionVars, controlVars,
        authVars, taskVars, subVars, stateVars, cleanVars, closerVars,
        handlerFrame, mainFrame, cleanupFrame, closerFrame

-----------------------------------------------------------------------------
(* Connections do not touch each other: a step is one connection's, and all *)
(* that another one has stays as it is.                                     *)
ConnStep(c) ==
    \/ Client(c) \/ SessionStep(c) \/ CleanupStep(c) \/ CloserStep(c) \/ Cancel(c)
    \/ \E k \in RequestNumbers : HandlerStep(c, k)
    \/ \E s \in StateHandlers : StateHandlerStep(c, s)
    \/ \E t \in Topics : Publish(c, t)

Same(c) ==
    /\ UNCHANGED <<link[c], out[c]>>
    /\ UNCHANGED <<is_open[c], subscriptions[c], subscription_ids[c]>>
    /\ UNCHANGED <<pc[c], result[c], cleanup[c], c \in active>>
    /\ UNCHANGED <<requests[c], task[c]>>
    /\ UNCHANGED <<sub_iter[c], sub_exits[c], clean_subs[c]>>
    /\ UNCHANGED <<state_iter[c], state_exits[c], clean_states[c]>>

(* What the type invariant says of each variable, for the EXCEPTs.          *)
LEMMA FunctionTypes ==
    ASSUME TypeOK
    PROVE  /\ link \in [Conns -> {"up", "down"}] /\ out \in [Conns -> Seq(Messages)]
           /\ is_open \in [Conns -> BOOLEAN]
           /\ subscriptions \in [Conns -> SUBSET Topics]
           /\ subscription_ids \in [Conns -> [SubIds -> Topics \cup {NoTopic}]]
           /\ pc \in [Conns -> MainStates]
           /\ result \in [Conns -> {"pending", "return", "raise", "cancel"}]
           /\ cleanup \in [Conns -> CleanupPhases]
           /\ active \subseteq Conns
           /\ requests \in [Conns -> Seq(ClientRequests)]
           /\ task \in [Conns -> [RequestNumbers -> TaskStates]]
           /\ sub_iter \in [Conns -> [RequestNumbers -> SubIterStates]]
           /\ sub_exits \in [Conns -> [SubIds -> 0..MaxRequests]]
           /\ clean_subs \in [Conns -> SUBSET RequestNumbers]
           /\ state_iter \in [Conns -> [StateHandlers -> StateIterStates]]
           /\ state_exits \in [Conns -> SUBSET StateHandlers]
           /\ clean_states \in [Conns -> SUBSET StateHandlers]
  BY DEF TypeOK, ConnectionTypeOK, SessionTypeOK, ControlTypeOK, AuthTypeOK,
         TaskTypeOK, IteratorTypeOK

LEMMA OtherConns ==
    ASSUME TypeOK, NEW c \in Conns, ConnStep(c), NEW d \in Conns \ {c}
    PROVE  Same(d)
<1> USE FunctionTypes
   DEF Same, SendMsg, CloseLink, Goto, Unwind, Finish, CancelTasks
<1>1. CASE Client(c)
  BY <1>1
     DEF Client, ReceiveHello, Authenticate, AuthenticateFrom,
         MarkAuthenticated, SendAbort, StartStateHandlers, RejectFirst,
         LeaveBeforeSession, Receive, ReceiveUnparsable, LeaveLoop,
         Disconnects, Disconnect
<1>2. CASE SessionStep(c)
  BY <1>2
     DEF SessionStep, Rejected, StateHandlersStarted, Authenticate,
         AuthenticateFrom, MarkAuthenticated, SendAbort, StateHandlersFailed,
         CancelStarts, TransportAuthenticated, Challenge, SendChallenge,
         Welcomed, MarkOpen, StartStateHandlers, Refused, MarkAborted,
         SessionRaises, Aborted, CleanedUp, Gathered, FrameworkClose
<1>3. CASE CleanupStep(c)
  BY <1>3
     DEF CleanupStep, CleanupBegins, Deactivate, CleanupSubscription,
         CleanupTurnsToStates, CleanupState, CleanupEnds
<1>4. CASE CloserStep(c)
  BY <1>4 DEF CloserStep, CloserStart, CloserSent, SendGoodbye, MarkClosed
<1>5. CASE Cancel(c)
  BY <1>5
     DEF Cancel, CancelStartingHandlers, CancelStarts, CancelSession,
         CancelInline, CancelAbort, CancelShielded, CancelGather, GatheredResult
<1>6. ASSUME NEW k \in RequestNumbers, HandlerStep(c, k)
      PROVE  Same(d)
  BY <1>6
     DEF HandlerStep, HandlerWaits, HandlerReturns, HandlerRaises, CallStart,
         CallProgress, CallAnswer, CallExhausted, Answer, HandlerCancelled,
         CallRaises, GoodbyeStart, SendGoodbye, MarkClosed, GoodbyeSent,
         SubscribeStart, RegisterSubscription, SubscribeEntered,
         SubscribeRaises, UnsubscribeStart, UnsubscribeUnknown,
         UnsubscribeExited, SubIterEnds, UnregisterSubscription,
         UnsubscribeRaises, HandlerSent, HandlerSendRaises
<1>7. ASSUME NEW s \in StateHandlers, StateHandlerStep(c, s)
      PROVE  Same(d)
  BY <1>7 DEF StateHandlerStep
<1>8. ASSUME NEW t \in Topics, Publish(c, t)
      PROVE  Same(d)
  BY <1>8 DEF Publish, SendEvent
<1> QED
  BY <1>1, <1>2, <1>3, <1>4, <1>5, <1>6, <1>7, <1>8 DEF ConnStep

(* Calling close_sessions, its end and stuttering touch no connection.      *)
LEMMA StepOfOne ==
    ASSUME TypeOK, [Next]_vars
    PROVE  \/ \E c \in Conns : ConnStep(c) /\ \A d \in Conns \ {c} : Same(d)
           \/ \A c \in Conns : Same(c)
<1>1. ASSUME NEW c \in Conns, ConnStep(c)
      PROVE  \A d \in Conns \ {c} : Same(d)
  BY <1>1, OtherConns
<1>2. CASE CloseSessions \/ CloseSessionsEnds \/ UNCHANGED vars
  BY <1>2 DEF CloseSessions, CloseSessionsEnds, vars, Same
<1> QED
  BY <1>1, <1>2 DEF Next, ConnStep, Terminated

-----------------------------------------------------------------------------
(* Where the coroutine that serves a connection is, against its requests'   *)
(* tasks, its clean-up and its place among the active sessions.             *)
InHandshake == {"hello", "rejecting", "pre", "auth", "cra", "challenge", "welcome",
                "refused", "authed"}
Left == {"cleanup", "gather", "done"}

LastRequest(c) == Len(requests[c])

(* No request is read before the loop is reached.  An inline handler is live*)
(* only while the loop waits for it, and it is then the last request's; one *)
(* that failed or was cancelled took the coroutine out of the loop.         *)
InlineOK(c) ==
    /\ pc[c] \in InHandshake => requests[c] = <<>>
    /\ pc[c] = "handling" =>
        /\ LastRequest(c) \in DOMAIN requests[c]
        /\ IsInline(requests[c][LastRequest(c)])
        /\ task[c][LastRequest(c)] \in LiveTask
    /\ \A k \in DOMAIN requests[c] : IsInline(requests[c][k]) =>
        /\ task[c][k] \in LiveTask => pc[c] = "handling" /\ k = LastRequest(c)
        /\ task[c][k] \in {"failed", "cancelled"} => pc[c] \in Left

(* The way out: the clean-up starts when the body of handle_session is left *)
(* and not before, is through when the tasks are gathered, and has ended    *)
(* well if the coroutine returns; whatever was told to stop makes it raise, *)
(* and once it ended only such a task, or the answer of one, is under way.  *)
LeaveOK(c) ==
    /\ pc[c] \notin Left <=> result[c] = "pending"
    /\ pc[c] \notin Left => cleanup[c] = "none"
    /\ pc[c] = "cleanup" => cleanup[c] # "none"
    /\ pc[c] = "gather" => cleanup[c] = "done"
    /\ result[c] = "cancel" => pc[c] = "gather"
    /\ pc[c] = "done" => \A k \in RequestNumbers :
            task[c][k] \in LiveTask => task[c][k] \in ToldTask \cup {"answering"}
    /\ pc[c] = "done" /\ result[c] = "return" =>
            /\ cleanup[c] \in {"none", "done"}
            /\ \A k \in RequestNumbers : task[c][k] \notin LiveTask
    /\ result[c] \in {"pending", "return"} =>
            \A k \in RequestNumbers : task[c][k] \notin ToldTask \cup {"cancelled"}

(* A session is active from its HELLO until its clean-up begins.            *)
ActiveOK(c) ==
    \/ pc[c] \in {"hello", "rejecting"}
    \/ pc[c] = "done" /\ cleanup[c] = "none"
    \/ cleanup[c] \notin {"none", "ready"}
    => c \notin active

ControlOK(c) == InlineOK(c) /\ LeaveOK(c) /\ ActiveOK(c)
ControlInv == \A c \in Conns : ControlOK(c)

(* The ways a step moves the coroutine: on in the handshake, or into the    *)
(* loop; out of the body of handle_session; to its end.                     *)
LEMMA StillControl ==
    ASSUME NEW c \in Conns, ControlOK(c), UNCHANGED <<controlVars, active, requests, task>>
    PROVE  ControlOK(c)'
  BY DEF ControlOK, InlineOK, LeaveOK, ActiveOK, LastRequest

LEMMA GotoControl ==
    ASSUME TypeOK, NEW c \in Conns, ControlOK(c),
           pc[c] \in InHandshake, NEW label \in MainStates, Goto(c, label),
           \/ label \in (InHandshake \cup {"loop"}) \ {"hello", "rejecting"}
           \/ label = "rejecting" /\ pc[c] = "hello" /\ UNCHANGED active,
           UNCHANGED <<requests, task>>
    PROVE  ControlOK(c)'
  BY FunctionTypes
     DEF Goto, ControlOK, InlineOK, LeaveOK, ActiveOK, LastRequest,
         InHandshake, Left

LEMMA UnwindControl ==
    ASSUME TypeOK, NEW c \in Conns, ControlOK(c),
           pc[c] \notin Left \cup {"handling"},
           NEW how \in {"return", "raise"}, Unwind(c, how), UNCHANGED <<requests, task>>
    PROVE  ControlOK(c)'
  BY FunctionTypes
     DEF Unwind, ControlOK, InlineOK, LeaveOK, ActiveOK, LastRequest,
         InHandshake, Left

LEMMA FinishControl ==
    ASSUME TypeOK, CallInv, NEW c \in Conns, ControlOK(c),
           NEW how \in {"return", "raise"}, Finish(c, how), UNCHANGED <<active, requests>>,
           \/ pc[c] \in {"hello", "rejecting"}
           \/ how = "raise" /\ pc[c] \in {"cleanup", "gather"}
           \/ /\ how = result[c] /\ pc[c] = "gather"
              /\ \A k \in RequestNumbers : task[c][k] \notin LiveTask
    PROVE  ControlOK(c)'
<1> USE FunctionTypes DEF Finish, CancelTasks
<1>1. \A k \in RequestNumbers :
        \/ task[c][k] \in LiveTask /\ task'[c][k] \in {"stopping", "cancelling"}
        \/ task[c][k] \notin LiveTask /\ task'[c][k] = task[c][k]
  BY DEF LiveTask
<1>2. InlineOK(c)'
  BY <1>1
     DEF ControlOK, InlineOK, LastRequest, InHandshake, Left, TypeOK,
         TaskTypeOK, RequestNumbers
<1>3. pc[c] \in {"hello", "rejecting"} =>
        \A k \in RequestNumbers : task[c][k] = "none"
  BY DEF CallInv, CallOK, ControlOK, InlineOK, InHandshake
<1>4. LeaveOK(c)'
  BY <1>1, <1>3 DEF ControlOK, LeaveOK, Left, LiveTask, ToldTask
<1>5. ActiveOK(c)'
  BY DEF ControlOK, ActiveOK, LeaveOK, Left
<1> QED
  BY <1>2, <1>4, <1>5 DEF ControlOK

(* A task is told to stop by CancelTasks alone; a procedure that goes on    *)
(* after that reports progress or answers.                                  *)
Onward(old, new) ==
    /\ new \in ToldTask => old \in ToldTask
    /\ old \in ToldTask \cup {"answering"} => new \in ToldTask \cup {"answering"}

(* A handler's step: it goes on, or returns or raises, to an inline caller  *)
(* or to nobody, or ends as it was told to.                                 *)
LEMMA HandlerControl ==
    ASSUME TypeOK, CallInv, NEW c \in Conns, ControlOK(c),
           NEW k \in RequestNumbers, task[c][k] \in LiveTask, UNCHANGED <<active, requests>>,
           \/ \E state \in LiveTask : Onward(task[c][k], state) /\ HandlerWaits(c, k, state)
           \/ HandlerReturns(c, k)
           \/ HandlerRaises(c, k)
           \/ HandlerCancelled(c, k)
    PROVE  ControlOK(c)'
<1> USE FunctionTypes DEF ControlOK, InlineOK, LeaveOK, ActiveOK, LastRequest,
                          InHandshake, Left
<1>1. k \in DOMAIN requests[c]
  BY LiveKnown
<1>2. DOMAIN requests[c] \subseteq RequestNumbers
  BY SMTT(30) DEF TypeOK, TaskTypeOK, RequestNumbers
<1>3. ASSUME NEW state \in LiveTask, Onward(task[c][k], state), HandlerWaits(c, k, state)
      PROVE  ControlOK(c)'
  BY <1>1, <1>2, <1>3 DEF HandlerWaits, Onward, LiveTask, ToldTask
<1>4. CASE HandlerReturns(c, k)
  BY <1>1, <1>2, <1>4 DEF HandlerReturns, LiveTask, ToldTask, IsInline
<1>5. CASE HandlerRaises(c, k)
  BY <1>1, <1>2, <1>5 DEF HandlerRaises, Unwind, LiveTask, ToldTask, IsInline
<1>6. CASE HandlerCancelled(c, k)
  BY <1>1, <1>2, <1>6 DEF HandlerCancelled, LiveTask, ToldTask, IsInline
<1> QED
  BY <1>3, <1>4, <1>5, <1>6

LEMMA AuthenticateControl ==
    ASSUME TypeOK, NEW c \in Conns, ControlOK(c), pc[c] \in InHandshake,
           NEW methods, NEW n,
           Authenticate(c, methods) \/ AuthenticateFrom(c, n, methods),
           UNCHANGED <<requests, task>>
    PROVE  ControlOK(c)'
<1>1. ASSUME NEW m, AuthenticateFrom(c, m, methods)
      PROVE  ControlOK(c)'
  BY <1>1, GotoControl, UnwindControl
     DEF AuthenticateFrom, MainStates, InHandshake, Left
<1> QED
  BY <1>1, GotoControl DEF Authenticate, MainStates, InHandshake

LEMMA ClientControl ==
    ASSUME TypeOK, CallInv, NEW c \in Conns, ControlOK(c), Client(c)
    PROVE  ControlOK(c)'
<1>1. CASE ReceiveHello(c)
  BY <1>1, AuthenticateControl, GotoControl
     DEF ReceiveHello, StartStateHandlers, InHandshake, MainStates
<1>2. CASE RejectFirst(c)
  BY <1>2, GotoControl DEF RejectFirst, InHandshake, MainStates
<1>3. CASE LeaveBeforeSession(c)
  BY <1>3, FinishControl DEF LeaveBeforeSession
<1>4. CASE Receive(c)
  <2> DEFINE next == LastRequest(c) + 1
  <2>1. PICK r \in ClientRequests :
            /\ requests' = [requests EXCEPT ![c] = Append(@, r)]
            /\ Goto(c, IF IsInline(r) THEN "handling" ELSE "loop")
    BY <1>4 DEF Receive
  <2>2. /\ requests[c] \in Seq(ClientRequests)
        /\ LastRequest(c) \in Nat /\ next \in RequestNumbers
    BY <1>4, FunctionTypes DEF Receive, RequestNumbers, LastRequest
  <2>3. /\ LastRequest(c)' = next /\ DOMAIN requests'[c] = DOMAIN requests[c] \cup {next}
        /\ requests'[c][next] = r /\ next \notin DOMAIN requests[c]
        /\ \A k \in DOMAIN requests[c] : requests'[c][k] = requests[c][k]
    BY <2>1, <2>2, FunctionTypes DEF LastRequest
  <2>4. /\ task'[c][next] = "ready"
        /\ \A k \in RequestNumbers \ {next} : task'[c][k] = task[c][k]
    BY <1>4, <2>2, FunctionTypes DEF Receive, LastRequest
  <2>5. pc[c] = "loop" /\ pc'[c] = IF IsInline(r) THEN "handling" ELSE "loop"
    BY <1>4, <2>1, FunctionTypes DEF Receive, Goto
  <2>6. DOMAIN requests[c] \subseteq RequestNumbers
    BY <2>2 DEF TypeOK, TaskTypeOK, RequestNumbers
  <2>7. InlineOK(c)'
    BY <2>3, <2>4, <2>5, <2>6
       DEF ControlOK, InlineOK, IsInline, InHandshake, Left, LiveTask
  <2>8. LeaveOK(c)' /\ ActiveOK(c)'
    BY <1>4, <2>1, <2>4, <2>5
       DEF ControlOK, LeaveOK, ActiveOK, Left, Receive, Goto, ToldTask
  <2> QED
    BY <2>7, <2>8 DEF ControlOK
<1>5. CASE ReceiveUnparsable(c)
  BY <1>5, FunctionTypes
     DEF ReceiveUnparsable, Goto, ControlOK, InlineOK, LeaveOK, ActiveOK,
         LastRequest, InHandshake, Left
<1>6. CASE LeaveLoop(c)
  BY <1>6, UnwindControl DEF LeaveLoop, Left
<1>7. CASE Disconnects(c)
  BY <1>7, StillControl DEF Disconnects, Disconnect
<1> QED
  BY <1>1, <1>2, <1>3, <1>4, <1>5, <1>6, <1>7 DEF Client

LEMMA SessionStepControl ==
    ASSUME TypeOK, CallInv, NEW c \in Conns, ControlOK(c), SessionStep(c)
    PROVE  ControlOK(c)'
<1>1. CASE Rejected(c)
  BY <1>1, FinishControl DEF Rejected
<1>2. CASE StateHandlersStarted(c)
  BY <1>2, AuthenticateControl, GotoControl
     DEF StateHandlersStarted, InHandshake, MainStates
<1>3. CASE StateHandlersFailed(c)
  BY <1>3, UnwindControl DEF StateHandlersFailed, Left
<1>4. CASE TransportAuthenticated(c)
  BY <1>4, AuthenticateControl, GotoControl, UnwindControl
     DEF TransportAuthenticated, InHandshake, MainStates, Left
<1>5. CASE Challenge(c)
  BY <1>5, GotoControl DEF Challenge, InHandshake, MainStates
<1>6. CASE Welcomed(c)
  BY <1>6, GotoControl DEF Welcomed, StartStateHandlers, InHandshake, MainStates
<1>7. CASE Refused(c)
  BY <1>7, UnwindControl DEF Refused, Left
<1>8. CASE SessionRaises(c)
  BY <1>8, UnwindControl DEF SessionRaises, Left
<1>9. CASE Aborted(c)
  BY <1>9, UnwindControl DEF Aborted, Left
<1>10. CASE CleanedUp(c)
  <2>1. CASE Goto(c, "gather") /\ cleanup[c] = "done" /\ UNCHANGED task
    BY <1>10, <2>1, FunctionTypes
       DEF CleanedUp, Goto, ControlOK, InlineOK, LeaveOK, ActiveOK, LastRequest,
           InHandshake, Left
  <2>2. CASE Finish(c, "raise")
    BY <1>10, <2>2, FinishControl DEF CleanedUp
  <2> QED
    BY <1>10, <2>1, <2>2 DEF CleanedUp
<1>11. CASE Gathered(c)
  BY <1>11, FinishControl DEF Gathered, GatheredResult
<1>12. CASE FrameworkClose(c)
  BY <1>12, StillControl DEF FrameworkClose
<1> QED
  BY <1>1, <1>2, <1>3, <1>4, <1>5, <1>6, <1>7, <1>8, <1>9, <1>10, <1>11, <1>12
     DEF SessionStep

LEMMA CleanupStepControl ==
    ASSUME TypeOK, NEW c \in Conns, ControlOK(c), CleanupStep(c)
    PROVE  ControlOK(c)'
<1>1. UNCHANGED <<pc, result, requests, task>>
  BY DEF CleanupStep, CleanupBegins, CleanupSubscription, CleanupTurnsToStates,
         CleanupState, CleanupEnds
<1>2. CASE CleanupBegins(c)
  BY <1>1, <1>2, FunctionTypes
     DEF CleanupBegins, Deactivate, ControlOK, InlineOK, LeaveOK, ActiveOK,
         LastRequest, Left
<1>3. CASE ~CleanupBegins(c)
  <2>1. /\ cleanup[c] \in {"subs", "states"} /\ UNCHANGED active
        /\ cleanup'[c] \in {"subs", "states", "done", "failed"}
    BY <1>3, FunctionTypes
       DEF CleanupStep, CleanupSubscription, CleanupTurnsToStates, CleanupState,
           CleanupEnds
  <2> QED
    BY <1>1, <2>1
       DEF ControlOK, InlineOK, LeaveOK, ActiveOK, LastRequest, Left
<1> QED
  BY <1>2, <1>3

LEMMA CancelControl ==
    ASSUME TypeOK, CallInv, NEW c \in Conns, ControlOK(c), Cancel(c)
    PROVE  ControlOK(c)'
<1>1. CASE CancelStartingHandlers(c)
  BY <1>1, StillControl, UnwindControl DEF CancelStartingHandlers, Left
<1>2. CASE CancelSession(c)
  BY <1>2, UnwindControl DEF CancelSession, Left
<1>3. CASE CancelInline(c)
  <2> DEFINE k == LastRequest(c)
  <2>1. /\ k \in DOMAIN requests[c] /\ IsInline(requests[c][k])
        /\ DOMAIN requests[c] \subseteq RequestNumbers
    BY <1>3
       DEF CancelInline, ControlOK, InlineOK, TypeOK, TaskTypeOK,
           RequestNumbers
  <2>2. task'[c] = [task[c] EXCEPT ![k] = "cancelled"]
    BY <1>3, FunctionTypes DEF CancelInline, LastRequest
  <2>3. UNCHANGED <<requests, active>> /\ pc[c] = "handling" /\ Unwind(c, "raise")
    BY <1>3 DEF CancelInline
  <2>4. \A l \in RequestNumbers :
            task'[c][l] = IF l = k THEN "cancelled" ELSE task[c][l]
    BY <2>1, <2>2, FunctionTypes
  <2>5. pc'[c] = "cleanup" /\ result'[c] = "raise" /\ cleanup'[c] = "ready"
    BY <2>3, FunctionTypes DEF Unwind
  <2>6. LastRequest(c)' = LastRequest(c)
    BY <2>3 DEF LastRequest
  <2> HIDE DEF k
  <2>7. InlineOK(c)'
    BY <2>1, <2>3, <2>4, <2>5, <2>6
       DEF ControlOK, InlineOK, InHandshake, Left, LiveTask, k, IsInline
  <2> QED
    BY <2>3, <2>4, <2>5, <2>7 DEF ControlOK, LeaveOK, ActiveOK, Left, ToldTask
<1>4. CASE CancelAbort(c)
  BY <1>4, UnwindControl DEF CancelAbort, Left
<1>5. CASE CancelShielded(c)
  BY <1>5, FinishControl DEF CancelShielded
<1>6. CASE CancelGather(c)
  <2>1. CASE Finish(c, "raise")
    BY <1>6, <2>1, FinishControl DEF CancelGather
  <2>2. CASE ~Finish(c, "raise")
    <3>1. /\ pc[c] = "gather" /\ UNCHANGED <<pc, cleanup, active, requests>>
          /\ result'[c] = "cancel" /\ result[c] # "raise" /\ CancelTasks(c)
      BY <1>6, <2>2, FunctionTypes DEF CancelGather
    <3>2. \A k \in RequestNumbers :
            \/ task[c][k] \in LiveTask /\ task'[c][k] \in {"stopping", "cancelling"}
            \/ task[c][k] \notin LiveTask /\ task'[c][k] = task[c][k]
      BY <3>1, FunctionTypes DEF CancelTasks, LiveTask
    <3>3. InlineOK(c)'
      <4>1. DOMAIN requests[c] \subseteq RequestNumbers
        BY DEF TypeOK, TaskTypeOK, RequestNumbers
      <4> QED
        BY <3>1, <3>2, <4>1
           DEF ControlOK, InlineOK, LastRequest, InHandshake, Left, LiveTask
    <3>4. LeaveOK(c)' /\ ActiveOK(c)'
      BY <3>1, <3>2 DEF ControlOK, LeaveOK, ActiveOK, Left, ToldTask
    <3> QED
      BY <3>3, <3>4 DEF ControlOK
  <2> QED
    BY <2>1, <2>2
<1> QED
  BY <1>1, <1>2, <1>3, <1>4, <1>5, <1>6 DEF Cancel

(* What a handler's step does to its task and to the coroutine.             *)
LEMMA HandlerMoves ==
    ASSUME CallInv, NEW c \in Conns, NEW k \in RequestNumbers, HandlerStep(c, k)
    PROVE  /\ task[c][k] \in LiveTask /\ UNCHANGED <<active, requests, link>>
           /\ \/ \E state \in LiveTask :
                    Onward(task[c][k], state) /\ HandlerWaits(c, k, state)
              \/ HandlerReturns(c, k)
              \/ HandlerRaises(c, k)
              \/ HandlerCancelled(c, k)
<1>1. UNCHANGED handlerFrame
  BY DEF HandlerStep, CallStart, CallProgress, CallAnswer, CallExhausted,
         Answer, HandlerCancelled, CallRaises, GoodbyeStart, GoodbyeSent,
         SubscribeStart, SubscribeEntered, SubscribeRaises, UnsubscribeStart,
         UnsubscribeUnknown, UnsubscribeExited, UnsubscribeRaises, HandlerSent,
         HandlerSendRaises
<1>2. task[c][k] \in LiveTask
  BY DEF HandlerStep, CallStart, CallProgress, CallAnswer, CallExhausted,
         Answer, HandlerCancelled, CallRaises, GoodbyeStart, GoodbyeSent,
         SubscribeStart, SubscribeEntered, SubscribeRaises, UnsubscribeStart,
         UnsubscribeUnknown, UnsubscribeExited, UnsubscribeRaises, HandlerSent,
         HandlerSendRaises, Handling, LiveTask
<1>3. \/ \E state \in LiveTask : Onward(task[c][k], state) /\ HandlerWaits(c, k, state)
      \/ HandlerReturns(c, k)
      \/ HandlerRaises(c, k)
      \/ HandlerCancelled(c, k)
  <2>1. CASE \/ CallStart(c, k) \/ CallProgress(c, k) \/ CallAnswer(c, k)
             \/ CallExhausted(c, k) \/ HandlerSent(c, k)
    BY <2>1
       DEF CallStart, CallProgress, CallAnswer, CallExhausted, Answer,
           HandlerSent, Handling, LiveTask, ToldTask, Onward
  <2>2. CASE \/ SubscribeStart(c, k) \/ SubscribeEntered(c, k)
             \/ UnsubscribeStart(c, k) \/ UnsubscribeExited(c, k)
             \/ GoodbyeStart(c, k) \/ GoodbyeSent(c, k)
    BY <2>2
       DEF SubscribeStart, SubscribeEntered, UnsubscribeStart,
           UnsubscribeExited, GoodbyeStart, GoodbyeSent, Handling, LiveTask,
           ToldTask, Onward
  <2>3. CASE \/ CallRaises(c, k) \/ SubscribeRaises(c, k)
             \/ UnsubscribeUnknown(c, k) \/ UnsubscribeRaises(c, k)
             \/ HandlerSendRaises(c, k) \/ HandlerCancelled(c, k)
    BY <2>3
       DEF CallRaises, SubscribeRaises, UnsubscribeUnknown, UnsubscribeRaises,
           HandlerSendRaises
  <2> QED
    BY <2>1, <2>2, <2>3 DEF HandlerStep
<1> QED
  BY <1>1, <1>2, <1>3

LEMMA OwnControl ==
    ASSUME TypeOK, CallInv, NEW c \in Conns, ControlOK(c), ConnStep(c)
    PROVE  ControlOK(c)'
<1>1. ASSUME NEW k \in RequestNumbers, HandlerStep(c, k)
      PROVE  ControlOK(c)'
  BY <1>1, HandlerMoves, HandlerControl
<1>2. CASE \/ CloserStep(c)
           \/ \E s \in StateHandlers : StateHandlerStep(c, s)
           \/ \E t \in Topics : Publish(c, t)
  BY <1>2, StillControl
     DEF CloserStep, CloserStart, CloserSent, StateHandlerStep, Publish
<1> QED
  BY <1>1, <1>2, ClientControl, SessionStepControl, CleanupStepControl,
     CancelControl DEF ConnStep

LEMMA StepControlInv ==
    ASSUME TypeOK, CallInv, ControlInv, [Next]_vars
    PROVE  ControlInv'
<1>1. ASSUME NEW c \in Conns, Same(c)
      PROVE  ControlOK(c)'
  BY <1>1
     DEF Same, ControlInv, ControlOK, InlineOK, LeaveOK, ActiveOK, LastRequest
<1> QED
  BY <1>1, StepOfOne, OwnControl DEF ControlInv

(* ControlInv is an invariant of the application layer.                     *)
THEOREM ControlInvariant == Spec => []ControlInv
<1>1. Init => ControlInv
  <2> SUFFICES ASSUME Init, NEW c \in Conns PROVE ControlOK(c)
    BY DEF ControlInv
  <2>1. /\ pc[c] = "hello" /\ result[c] = "pending" /\ cleanup[c] = "none"
        /\ c \notin active /\ requests[c] = <<>>
        /\ \A k \in RequestNumbers : task[c][k] = "none"
    BY DEF Init
  <2> QED
    BY <2>1
       DEF ControlOK, InlineOK, LeaveOK, ActiveOK, InHandshake, Left, LiveTask,
           ToldTask
<1>2. TypeOK /\ CallInv /\ ControlInv /\ [Next]_vars => ControlInv'
  BY StepControlInv
<1> QED
  BY <1>1, <1>2, TypeCorrect, CallInvariant, PTL DEF Spec

(* A connection's coroutine that returns leaves no task of its requests     *)
(* behind: each ended and none was cut off, the session is no longer active *)
(* and its clean-up, if there was a session, came to its end.  One that     *)
(* raises leaves only tasks that it told to stop: a procedure in user code, *)
(* what such a procedure still sends, and awaits that will raise.           *)
THEOREM TasksAreJoined == Spec => []TasksJoined
<1>1. TypeOK /\ ControlInv => TasksJoined
  BY FunctionTypes
     DEF ControlInv, ControlOK, LeaveOK, ActiveOK, Left, TasksJoined,
         TaskStates, LiveTask
<1> QED
  BY <1>1, TypeCorrect, ControlInvariant, PTL

-----------------------------------------------------------------------------
(* What a connection's step may send it, and when: the messages of the      *)
(* handshake as the coroutine moves on in it, GOODBYE while the session is  *)
(* open, events for its subscriptions, and what requests are told.          *)
SaysAboutRequest(c, type, k) ==
    /\ k \in DOMAIN requests[c] /\ k \in RequestNumbers
    /\ \/ /\ type = "PROGRESS" /\ requests[c][k].kind = "CALL"
          /\ \/ task[c][k] = "running" /\ task'[c][k] = "progress"
             \/ task[c][k] = "stopping" /\ task'[c][k] = "reporting"
       \/ /\ type \in Final /\ requests[c][k].kind = "CALL"
          /\ task[c][k] \in {"running", "stopping"} /\ task'[c][k] = "answering"
       \/ /\ type = "SUBSCRIBED" /\ requests[c][k].kind = "SUBSCRIBE"
          /\ task[c][k] = "entering" /\ task'[c][k] = "acking"
       \/ /\ type \in {"UNSUBSCRIBED", "ERROR"} /\ requests[c][k].kind = "UNSUBSCRIBE"
          /\ task[c][k] = "exiting" /\ task'[c][k] = "acking"

Occasion(c, type, ref) ==
    \/ type = "CHALLENGE" /\ ref = 0 /\ pc[c] = "cra" /\ pc'[c] = "challenge"
    \/ type = "WELCOME" /\ ref = 0 /\ pc[c] \in {"hello", "pre", "auth"} /\ pc'[c] = "welcome"
    \/ /\ type = "ABORT" /\ ref = 0
       /\ \/ pc[c] \in {"hello", "pre", "auth"} /\ pc'[c] \in {"rejecting", "refused"}
          \/ pc[c] = "loop" /\ pc'[c] = "aborting"
    \/ type = "GOODBYE" /\ ref = 0 /\ is_open[c]
    \/ type = "EVENT" /\ \E t \in subscriptions[c] : ref = SubIdOf[t]
    \/ SaysAboutRequest(c, type, ref)

Says(c) ==
    \E type \in MsgTypes, ref \in Nat :
        /\ link[c] = "up"
        /\ out'[c] = Append(out[c], Msg(type, ref))
        /\ Occasion(c, type, ref)
        /\ UNCHANGED <<is_open[c], requests[c]>>

(* The steps of the coroutine in the handshake and in the loop.             *)
Advances(c) ==
    \/ pc'[c] = pc[c]
    \/ pc'[c] \in Left
    \/ /\ pc[c] \in {"hello", "pre", "auth"}
       /\ pc'[c] \in {"rejecting", "pre", "auth", "cra", "refused"}
    \/ /\ pc[c] \in {"hello", "pre", "auth"} /\ pc'[c] = "welcome"
       /\ link[c] = "up" => out'[c] = Append(out[c], Msg("WELCOME", 0))
    \/ pc[c] = "cra" /\ pc'[c] = "challenge"
    \/ pc[c] = "welcome" /\ pc'[c] \in {"authed", "loop"}
    \/ pc[c] = "authed" /\ pc'[c] = "loop"
    \/ pc[c] = "loop" /\ pc'[c] \in {"handling", "aborting"}
    \/ pc[c] = "handling" /\ pc'[c] = "loop"

(* What makes a session one that can be sent more: it opens as the          *)
(* handshake ends, reads a request in the loop, subscribes by a request.    *)
Engages(c) ==
    /\ is_open'[c] /\ ~is_open[c] => pc[c] = "welcome" /\ pc'[c] \in {"authed", "loop"}
    /\ \/ UNCHANGED requests[c]
       \/ /\ pc[c] = "loop" /\ UNCHANGED <<is_open[c], out[c]>>
          /\ \E r \in ClientRequests : requests'[c] = Append(requests[c], r)
    /\ subscriptions'[c] # {} => subscriptions[c] # {} \/ requests[c] # <<>>
    /\ link[c] = "down" => link'[c] = "down"

LEMMA OwnAdvances ==
    ASSUME TypeOK, CallInv, NEW c \in Conns, ControlOK(c), ConnStep(c)
    PROVE  Advances(c)
<1> USE FunctionTypes DEF Advances, Left, SendMsg, Goto, Unwind, Finish
<1>1. CASE Client(c)
  BY <1>1
     DEF Client, ReceiveHello, Authenticate, AuthenticateFrom,
         MarkAuthenticated, SendAbort, StartStateHandlers, RejectFirst,
         LeaveBeforeSession, Receive, ReceiveUnparsable, LeaveLoop, Disconnects
<1>2. CASE SessionStep(c)
  BY <1>2
     DEF SessionStep, Rejected, StateHandlersStarted, Authenticate,
         AuthenticateFrom, MarkAuthenticated, SendAbort, StateHandlersFailed,
         TransportAuthenticated, Challenge, SendChallenge, Welcomed,
         StartStateHandlers, Refused, SessionRaises,
         Aborted, CleanedUp, Gathered, FrameworkClose
<1>3. CASE Cancel(c)
  BY <1>3
     DEF Cancel, CancelStartingHandlers, CancelSession,
         CancelInline, CancelAbort, CancelShielded, CancelGather, GatheredResult
<1>4. CASE \/ CleanupStep(c)
           \/ CloserStep(c)
           \/ \E s \in StateHandlers : StateHandlerStep(c, s)
           \/ \E t \in Topics : Publish(c, t)
  BY <1>4
     DEF CleanupStep, CleanupBegins, CleanupSubscription, CleanupTurnsToStates,
         CleanupState, CleanupEnds, CloserStep, CloserStart, CloserSent,
         StateHandlerStep, Publish
<1>5. ASSUME NEW k \in RequestNumbers, HandlerStep(c, k)
      PROVE  Advances(c)
  <2>1. task[c][k] \in LiveTask /\ k \in DOMAIN requests[c]
    BY <1>5, HandlerMoves, LiveKnown
  <2>2. IsInline(requests[c][k]) => pc[c] = "handling"
    BY <2>1 DEF ControlOK, InlineOK
  <2>3. \/ UNCHANGED pc
        \/ IsInline(requests[c][k]) /\ pc' = [pc EXCEPT ![c] = "loop"]
        \/ pc' = [pc EXCEPT ![c] = "cleanup"]
    BY <1>5, HandlerMoves
       DEF HandlerWaits, HandlerReturns, HandlerRaises, HandlerCancelled
  <2> QED
    BY <2>2, <2>3
<1> QED
  BY <1>1, <1>2, <1>3, <1>4, <1>5 DEF ConnStep

LEMMA OwnEngages ==
    ASSUME TypeOK, CallInv, NEW c \in Conns, ControlOK(c), ConnStep(c)
    PROVE  Engages(c)
<1> USE FunctionTypes DEF Engages, CloseLink, Goto, Unwind, Left
<1>1. CASE Client(c)
  BY <1>1
     DEF Client, ReceiveHello, Authenticate, AuthenticateFrom,
         MarkAuthenticated, RejectFirst, LeaveBeforeSession, Receive,
         ReceiveUnparsable, LeaveLoop, Disconnects, Disconnect
<1>2. CASE SessionStep(c)
  BY <1>2
     DEF SessionStep, Rejected, StateHandlersStarted, Authenticate,
         AuthenticateFrom, MarkAuthenticated, StateHandlersFailed,
         TransportAuthenticated, Challenge, Welcomed,
         MarkOpen, StartStateHandlers, Refused, MarkAborted, SessionRaises,
         Aborted, CleanedUp, Gathered, FrameworkClose
<1>3. CASE Cancel(c)
  BY <1>3
     DEF Cancel, CancelStartingHandlers, CancelSession,
         CancelInline, CancelAbort, CancelShielded, CancelGather, GatheredResult
<1>4. CASE \/ CleanupStep(c)
           \/ CloserStep(c)
           \/ \E s \in StateHandlers : StateHandlerStep(c, s)
           \/ \E t \in Topics : Publish(c, t)
  BY <1>4
     DEF CleanupStep, CleanupBegins, CleanupSubscription, CleanupTurnsToStates,
         CleanupState, CleanupEnds, CloserStep, CloserStart, CloserSent,
         SendGoodbye, MarkClosed, StateHandlerStep, Publish
<1>5. ASSUME NEW k \in RequestNumbers, HandlerStep(c, k)
      PROVE  Engages(c)
  <2>1. CASE \/ CallStart(c, k) \/ CallProgress(c, k) \/ CallAnswer(c, k)
             \/ CallExhausted(c, k) \/ CallRaises(c, k) \/ HandlerSent(c, k)
             \/ HandlerSendRaises(c, k) \/ HandlerCancelled(c, k)
    BY <2>1
       DEF CallStart, CallProgress, CallAnswer, CallExhausted, Answer,
           HandlerCancelled, CallRaises, HandlerSent, HandlerSendRaises
  <2>2. CASE GoodbyeStart(c, k) \/ GoodbyeSent(c, k)
    BY <2>2 DEF GoodbyeStart, SendGoodbye, MarkClosed, GoodbyeSent
  <2>3. CASE \/ SubscribeStart(c, k) \/ SubscribeEntered(c, k)
             \/ SubscribeRaises(c, k)
    BY <2>3
       DEF SubscribeStart, RegisterSubscription, SubscribeEntered,
           SubscribeRaises, Handling
  <2>4. CASE \/ UnsubscribeStart(c, k) \/ UnsubscribeUnknown(c, k)
             \/ UnsubscribeExited(c, k) \/ UnsubscribeRaises(c, k)
    BY <2>4
       DEF UnsubscribeStart, UnsubscribeUnknown, UnsubscribeExited,
           UnregisterSubscription, UnsubscribeRaises
  <2> QED
    BY <1>5, <2>1, <2>2, <2>3, <2>4 DEF HandlerStep
<1> QED
  BY <1>1, <1>2, <1>3, <1>4, <1>5 DEF ConnStep

LEMMA OwnSays ==
    ASSUME TypeOK, CallInv, NEW c \in Conns, ControlOK(c), ConnStep(c)
    PROVE  Says(c) \/ UNCHANGED out[c]
<1> USE FunctionTypes
   DEF Says, Occasion, SaysAboutRequest, SendMsg, Goto, Unwind, MsgTypes, Final
<1>1. CASE Client(c)
  BY <1>1
     DEF Client, ReceiveHello, Authenticate, AuthenticateFrom,
         MarkAuthenticated, SendAbort, StartStateHandlers, RejectFirst,
         LeaveBeforeSession, Receive, ReceiveUnparsable, LeaveLoop,
         Disconnects, Disconnect
<1>2. CASE SessionStep(c)
  <2>1. CASE \/ Rejected(c) \/ StateHandlersFailed(c) \/ Welcomed(c)
             \/ Refused(c) \/ SessionRaises(c) \/ Aborted(c)
             \/ CleanedUp(c) \/ Gathered(c) \/ FrameworkClose(c)
    BY <2>1
       DEF Rejected, StateHandlersFailed, Welcomed, Refused, SessionRaises,
           Aborted, CleanedUp, Gathered, FrameworkClose
  <2>2. CASE StateHandlersStarted(c)
    BY <2>2
       DEF StateHandlersStarted, Authenticate, AuthenticateFrom,
           MarkAuthenticated, SendAbort
  <2>3. CASE TransportAuthenticated(c)
    BY <2>3
       DEF TransportAuthenticated, AuthenticateFrom, MarkAuthenticated,
           SendAbort
  <2>4. CASE Challenge(c)
    BY <2>4 DEF Challenge, SendChallenge
  <2> QED
    BY <1>2, <2>1, <2>2, <2>3, <2>4 DEF SessionStep
<1>3. CASE Cancel(c)
  BY <1>3
     DEF Cancel, CancelStartingHandlers, CancelSession,
         CancelInline, CancelAbort, CancelShielded, CancelGather, GatheredResult
<1>4. CASE \/ CleanupStep(c)
           \/ CloserStep(c)
           \/ \E s \in StateHandlers : StateHandlerStep(c, s)
           \/ \E t \in Topics : Publish(c, t)
  <2>1. CASE \/ CleanupStep(c) \/ CloserSent(c)
             \/ \E s \in StateHandlers : StateHandlerStep(c, s)
    BY <2>1
       DEF CleanupStep, CleanupBegins, CleanupSubscription,
           CleanupTurnsToStates, CleanupState, CleanupEnds, CloserSent,
           StateHandlerStep
  <2>2. CASE CloserStart(c)
    BY <2>2 DEF CloserStart, SendGoodbye, SaysGoodbye
  <2>3. ASSUME NEW t \in Topics, Publish(c, t)
        PROVE  Says(c) \/ UNCHANGED out[c]
    BY <2>3, SessionAssumption DEF Publish, SendEvent
  <2> QED
    BY <1>4, <2>1, <2>2, <2>3 DEF CloserStep
<1>5. ASSUME NEW k \in RequestNumbers, HandlerStep(c, k)
      PROVE  Says(c) \/ UNCHANGED out[c]
  <2>1. ASSUME NEW type \in MsgTypes, SendMsg(c, Msg(type, k)),
               SaysAboutRequest(c, type, k), UNCHANGED <<is_open, requests>>
        PROVE  Says(c) \/ UNCHANGED out[c]
    BY <2>1 DEF RequestNumbers
  <2>2. CASE \/ CallStart(c, k) \/ CallRaises(c, k) \/ SubscribeStart(c, k)
             \/ SubscribeRaises(c, k) \/ UnsubscribeStart(c, k)
             \/ UnsubscribeUnknown(c, k) \/ UnsubscribeRaises(c, k)
             \/ HandlerSent(c, k) \/ HandlerSendRaises(c, k)
             \/ HandlerCancelled(c, k)
    BY <2>2
       DEF CallStart, CallRaises, SubscribeStart, SubscribeRaises,
           UnsubscribeStart, UnsubscribeUnknown, UnsubscribeRaises,
           HandlerSent, HandlerSendRaises, HandlerCancelled
  <2>3. CASE CallProgress(c, k)
    <3>1. SaysAboutRequest(c, "PROGRESS", k)
      BY <2>3 DEF CallProgress, Handling, HandlerWaits
    <3> QED
      BY <2>1, <2>3, <3>1 DEF CallProgress
  <2>4. CASE CallAnswer(c, k) \/ CallExhausted(c, k)
    <3>1. PICK type \in {"RESULT", "ERROR"} : Answer(c, k, type)
      BY <2>4 DEF CallAnswer, CallExhausted
    <3>2. SaysAboutRequest(c, type, k)
      BY <3>1 DEF Answer, Handling, HandlerWaits
    <3> QED
      BY <2>1, <3>1, <3>2 DEF Answer
  <2>5. CASE GoodbyeStart(c, k) \/ GoodbyeSent(c, k)
    BY <2>5
       DEF GoodbyeStart, GoodbyeSent, SendGoodbye, SaysGoodbye, HandlerWaits,
           Handling
  <2>6. CASE SubscribeEntered(c, k)
    <3>1. SaysAboutRequest(c, "SUBSCRIBED", k)
      BY <2>6 DEF SubscribeEntered, Handling, HandlerWaits
    <3> QED
      BY <2>1, <2>6, <3>1 DEF SubscribeEntered
  <2>7. CASE UnsubscribeExited(c, k)
    <3>1. PICK type \in {"UNSUBSCRIBED", "ERROR"} : SendMsg(c, Msg(type, k))
      BY <2>7 DEF UnsubscribeExited
    <3>2. SaysAboutRequest(c, type, k)
      BY <2>7 DEF UnsubscribeExited, Handling, HandlerWaits
    <3> QED
      BY <2>1, <2>7, <3>1, <3>2 DEF UnsubscribeExited
  <2> QED
    BY <1>5, <2>2, <2>3, <2>4, <2>5, <2>6, <2>7 DEF HandlerStep
<1> QED
  BY <1>1, <1>2, <1>3, <1>4, <1>5 DEF ConnStep

-----------------------------------------------------------------------------
(* The handshake, in what the client was sent.  Before WELCOME that is at   *)
(* most one CHALLENGE or ABORT, and WELCOME is the first message: a session *)
(* is opened, reads a request or gets a subscription only once it is out,   *)
(* or the link is down.                                                     *)
Served(c) == is_open[c] \/ subscriptions[c] # {} \/ requests[c] # <<>>

ServingStates == {"welcome", "authed", "loop", "handling", "aborting"}

HandshakeOK(c) ==
    /\ \A i \in Sent(c, {"WELCOME"}) : i = 1
    /\ Sent(c, {"WELCOME"}) = {} =>
        /\ Len(out[c]) <= 1
        /\ \A i \in DOMAIN out[c] : out[c][i].type \in {"CHALLENGE", "ABORT"}
    /\ pc[c] \in {"hello", "pre", "auth", "cra"} => out[c] = <<>>
    /\ pc[c] \in {"challenge", "rejecting", "refused"} => Sent(c, {"WELCOME"}) = {}
    /\ pc[c] = "welcome" => Len(out[c]) <= 1
    /\ pc[c] \in InHandshake \ {"authed"} => ~Served(c)
    /\ pc[c] \in ServingStates \/ Served(c) =>
        link[c] = "down" \/ Sent(c, {"WELCOME"}) # {}
    /\ pc[c] \in ServingStates \ {"aborting"} => Sent(c, {"ABORT"}) = {}

HandshakeInv == \A c \in Conns : HandshakeOK(c)

(* One more message: those before it stay, and it is the last.              *)
LEMMA OutAppend ==
    ASSUME TypeOK, NEW c \in Conns, NEW type, NEW ref,
           out'[c] = Append(out[c], Msg(type, ref))
    PROVE  /\ Len(out[c]) \in Nat /\ DOMAIN out[c] = 1..Len(out[c])
           /\ Len(out'[c]) = Len(out[c]) + 1 /\ DOMAIN out'[c] = 1..(Len(out[c]) + 1)
           /\ \A i \in 1..Len(out[c]) : out'[c][i] = out[c][i]
           /\ out'[c][Len(out[c]) + 1].type = type
           /\ out'[c][Len(out[c]) + 1].ref = ref
<1>1. out[c] \in Seq(Messages)
  BY FunctionTypes
<1>2. Msg(type, ref).type = type /\ Msg(type, ref).ref = ref
  BY DEF Msg
<1> QED
  BY <1>1, <1>2

LEMMA SentAppend ==
    ASSUME TypeOK, NEW c \in Conns, NEW type, NEW ref, NEW types,
           out'[c] = Append(out[c], Msg(type, ref))
    PROVE  /\ type \in types => Sent(c, types)' = Sent(c, types) \cup {Len(out[c]) + 1}
           /\ type \notin types => Sent(c, types)' = Sent(c, types)
  BY OutAppend DEF Sent

LEMMA OwnHandshake ==
    ASSUME TypeOK, CallInv, NEW c \in Conns, ControlOK(c), HandshakeOK(c), ConnStep(c)
    PROVE  HandshakeOK(c)'
<1>1. Advances(c) /\ Engages(c)
  BY OwnAdvances, OwnEngages
<1>2. ASSUME Served(c)'
      PROVE  Served(c) \/ pc[c] \in {"welcome", "loop"}
  BY <1>1, <1>2 DEF Served, Engages
<1>3. ASSUME pc'[c] \in InHandshake \ {"authed"}
      PROVE  ~Served(c)' /\ pc[c] \in InHandshake \ {"authed"} /\ ~Served(c)
  <2>1. pc[c] \in InHandshake \ {"authed"}
    BY <1>1, <1>3 DEF Advances, InHandshake, Left
  <2>2. ~Served(c)
    BY <2>1 DEF HandshakeOK
  <2> QED
    BY <1>1, <1>3, <2>1, <2>2 DEF Served, Engages, InHandshake
<1>4. CASE UNCHANGED out[c]
  <2> USE <1>1 DEF HandshakeOK, Advances, Engages, ServingStates, Left
  <2>1. /\ Sent(c, {"WELCOME"})' = Sent(c, {"WELCOME"})
        /\ Sent(c, {"ABORT"})' = Sent(c, {"ABORT"})
        /\ out[c] = <<>> => Sent(c, {"WELCOME"}) = {} /\ Sent(c, {"ABORT"}) = {}
    BY <1>4 DEF Sent
  <2>2. pc'[c] = "welcome" => pc[c] = "welcome" \/ (link[c] = "down" /\ out[c] = <<>>)
    <3>1. out[c] \in Seq(Messages) /\ link[c] \in {"up", "down"}
      BY FunctionTypes
    <3>2. out'[c] # Append(out[c], Msg("WELCOME", 0))
      BY <1>4, <3>1
    <3> QED
      BY <3>1, <3>2
  <2>3. pc'[c] \in {"hello", "pre", "auth", "cra"} => out'[c] = <<>>
    BY <1>4
  <2>4. pc'[c] \in {"challenge", "rejecting", "refused"} => Sent(c, {"WELCOME"})' = {}
    BY <2>1
  <2>5. pc'[c] = "welcome" => Len(out'[c]) <= 1
    BY <1>4, <2>2
  <2>6. pc'[c] \in ServingStates \/ Served(c)' =>
            link'[c] = "down" \/ Sent(c, {"WELCOME"})' # {}
    BY <1>2, <2>1, <2>2, FunctionTypes
  <2>7. pc'[c] \in ServingStates \ {"aborting"} => Sent(c, {"ABORT"})' = {}
    <3>1. pc'[c] \in ServingStates \ {"aborting"} =>
            pc[c] \in ServingStates \ {"aborting"} \/ out[c] = <<>>
      BY <2>2
    <3> QED
      BY <2>1, <3>1
  <2> QED
    BY <1>3, <1>4, <2>1, <2>3, <2>4, <2>5, <2>6, <2>7
<1>5. CASE Says(c)
  <2>1. PICK type \in MsgTypes, ref \in Nat :
            /\ link[c] = "up" /\ out'[c] = Append(out[c], Msg(type, ref))
            /\ Occasion(c, type, ref)
    BY <1>5 DEF Says
  <2>2. CASE pc[c] \in InHandshake \ {"authed"}
    <3>1. /\ ~Served(c) /\ out[c] = <<>>
          /\ type \in {"CHALLENGE", "WELCOME", "ABORT"}
          /\ type = "WELCOME" => pc'[c] = "welcome"
          /\ type = "CHALLENGE" => pc'[c] = "challenge"
          /\ type = "ABORT" => pc'[c] \in {"rejecting", "refused"}
      BY <2>1, <2>2
         DEF HandshakeOK, Served, Occasion, SaysAboutRequest, InHandshake
    <3>2. Len(out'[c]) = 1 /\ DOMAIN out'[c] = {1} /\ out'[c][1].type = type
      <4>1. out'[c] = Append(out[c], Msg(type, ref)) /\ Len(out[c]) = 0
        BY <2>1, <3>1
      <4>2. Len(out'[c]) = 0 + 1 /\ DOMAIN out'[c] = 1..(0 + 1)
        BY <4>1, OutAppend
      <4>3. out'[c][0 + 1].type = type
        BY <4>1, OutAppend
      <4> QED
        BY <4>2, <4>3
    <3>3. /\ type = "WELCOME" => Sent(c, {"WELCOME"})' = {1}
          /\ type # "WELCOME" => Sent(c, {"WELCOME"})' = {}
          /\ type # "ABORT" => Sent(c, {"ABORT"})' = {}
      BY <3>2 DEF Sent
    <3> QED
      BY <1>2, <1>3, <2>2, <3>1, <3>2, <3>3
         DEF HandshakeOK, ServingStates, InHandshake
  <2>3. CASE pc[c] \notin InHandshake \ {"authed"}
    <3>1. pc'[c] \notin InHandshake \ {"authed"}
      BY <1>3, <2>3
    <3>2. type # "WELCOME" /\ (type = "ABORT" => pc'[c] = "aborting")
      BY <2>1, <2>3 DEF Occasion, SaysAboutRequest, Final, InHandshake
    <3>3. pc[c] \in ServingStates \/ Served(c)
      BY <2>1, <2>3
         DEF Occasion, SaysAboutRequest, Served, ServingStates, InHandshake
    <3>4. Sent(c, {"WELCOME"}) # {}
      BY <2>1, <3>3 DEF HandshakeOK
    <3>5. /\ Sent(c, {"WELCOME"})' = Sent(c, {"WELCOME"})
          /\ type # "ABORT" => Sent(c, {"ABORT"})' = Sent(c, {"ABORT"})
      <4>1. out'[c] = Append(out[c], Msg(type, ref)) /\ type \notin {"WELCOME"}
        BY <2>1, <3>2
      <4>2. Sent(c, {"WELCOME"})' = Sent(c, {"WELCOME"})
        BY <4>1, SentAppend
      <4>3. type \notin {"ABORT"} => Sent(c, {"ABORT"})' = Sent(c, {"ABORT"})
        BY <4>1, SentAppend
      <4> QED
        BY <4>2, <4>3
    <3>6. pc'[c] \in ServingStates \ {"aborting"} => Sent(c, {"ABORT"})' = {}
      <4>1. pc'[c] \in ServingStates \ {"aborting"} => pc[c] \in ServingStates \ {"aborting"}
        BY <1>1, <2>3 DEF Advances, ServingStates, InHandshake, Left
      <4> QED
        BY <3>2, <3>5, <4>1 DEF HandshakeOK, ServingStates
    <3> QED
      BY <3>1, <3>4, <3>5, <3>6 DEF HandshakeOK, InHandshake
  <2> QED
    BY <2>2, <2>3
<1> QED
  BY <1>4, <1>5, OwnSays

LEMMA StepHandshakeInv ==
    ASSUME TypeOK, CallInv, ControlInv, HandshakeInv, [Next]_vars
    PROVE  HandshakeInv'
<1>1. ASSUME NEW c \in Conns, Same(c)
      PROVE  HandshakeOK(c)'
  BY <1>1 DEF Same, HandshakeInv, HandshakeOK, Served, Sent
<1> QED
  BY <1>1, StepOfOne, OwnHandshake DEF HandshakeInv, ControlInv

(* HandshakeInv is an invariant of the application layer.                   *)
THEOREM HandshakeInvariant == Spec => []HandshakeInv
<1>1. Init => HandshakeInv
  <2> SUFFICES ASSUME Init, NEW c \in Conns PROVE HandshakeOK(c)
    BY DEF HandshakeInv
  <2>1. /\ pc[c] = "hello" /\ out[c] = <<>> /\ requests[c] = <<>>
        /\ ~is_open[c] /\ subscriptions[c] = {}
    BY DEF Init, ConnectionInit, SessionInit
  <2> QED
    BY <2>1 DEF HandshakeOK, Served, Sent, ServingStates
<1>2. TypeOK /\ CallInv /\ ControlInv /\ HandshakeInv /\ [Next]_vars => HandshakeInv'
  BY StepHandshakeInv
<1> QED
  BY <1>1, <1>2, TypeCorrect, CallInvariant, ControlInvariant, PTL DEF Spec

(* Whatever state handlers, authenticators, shut-down and publishers do     *)
(* meanwhile, the handshake comes first: nothing is sent before WELCOME but *)
(* one challenge or abort, with nothing after it, and WELCOME is sent once. *)
THEOREM HandshakeIsFirst == Spec => []HandshakeOrder
<1>1. TypeOK /\ HandshakeInv => HandshakeOrder
  <2> SUFFICES ASSUME TypeOK, HandshakeInv, NEW c \in Conns, NEW i \in DOMAIN out[c]
               PROVE  LET welcomes == Sent(c, {"WELCOME"}) IN
                      /\ \A w \in welcomes : w = i \/ out[c][i].type # "WELCOME"
                      /\ (\A w \in welcomes : i < w) =>
                            /\ out[c][i].type \in {"CHALLENGE", "ABORT"}
                            /\ i = Len(out[c])
    BY DEF HandshakeOrder
  <2>1. HandshakeOK(c) /\ out[c] \in Seq(Messages)
    BY FunctionTypes DEF HandshakeInv
  <2>2. i \in Nat /\ i >= 1 /\ i <= Len(out[c])
    BY <2>1
  <2>3. out[c][i].type = "WELCOME" => i \in Sent(c, {"WELCOME"})
    BY DEF Sent
  <2> QED
    BY <2>1, <2>2, <2>3 DEF HandshakeOK
<1> QED
  BY <1>1, TypeCorrect, HandshakeInvariant, PTL

(* A session opens only as its handshake ends, and no GOODBYE was sent by   *)
(* then: whoever closed it, client or shut-down, it does not open again.    *)
THEOREM ClosedForGood == Spec => ClosedStaysClosed
<1>1. ASSUME TypeOK, CallInv, ControlInv, HandshakeInv, [Next]_vars,
             NEW c \in Conns, Sent(c, {"GOODBYE"}) # {}, ~is_open[c]
      PROVE  ~is_open'[c]
  <2>1. pc[c] # "welcome"
    <3>1. PICK i \in DOMAIN out[c] : out[c][i].type = "GOODBYE"
      BY <1>1 DEF Sent
    <3>2. out[c] \in Seq(Messages)
      BY <1>1, FunctionTypes
    <3>3. PICK w \in DOMAIN out[c] : out[c][w].type = "WELCOME" /\ w = 1
      BY <1>1, <3>1 DEF HandshakeInv, HandshakeOK, Sent
    <3>4. i # 1 /\ i \in 1..Len(out[c])
      BY <3>1, <3>2, <3>3
    <3> QED
      BY <1>1, <3>2, <3>4 DEF HandshakeInv, HandshakeOK
  <2>2. CASE Same(c)
    BY <1>1, <2>2 DEF Same
  <2>3. CASE ConnStep(c)
    BY <1>1, <2>1, <2>3, OwnEngages DEF ControlInv, Engages
  <2> QED
    BY <1>1, <2>2, <2>3, StepOfOne
<1>2. TypeOK /\ CallInv /\ ControlInv /\ HandshakeInv /\ [Next]_vars =>
        [\A c \in Conns :
            Sent(c, {"GOODBYE"}) # {} /\ ~is_open[c] => ~is_open'[c]]_vars
  BY <1>1
<1> QED
  BY <1>2, TypeCorrect, CallInvariant, ControlInvariant, HandshakeInvariant, PTL
     DEF Spec, ClosedStaysClosed
=============================================================================

------------------------ MODULE ApplicationCallProofs ------------------------
(***************************************************************************)
(* What clients are told about their calls, proved for every value of the  *)
(* constants of module Application: one final response at the most, nothing*)
(* after it, and always one if the handler came to its end.                *)
(***************************************************************************)
EXTENDS ApplicationTypeProofs

USE SessionAssumption, ApplicationAssumption

(* The tuples of variables that actions leave unchanged are shorthands.     *)
USE DEF connectionVars, openVars, registryVars, sessionVars, controlVars,
        authVars, taskVars, subVars, stateVars, cleanVars, closerVars,
        handlerFrame, mainFrame, cleanupFrame, closerFrame

-----------------------------------------------------------------------------
(* What is sent about a request that is a call.                             *)
Replies == Final \cup {"PROGRESS"}

(* The states of a call's handler before its final response.                *)
Unanswered == {"ready", "running", "progress", "stopping", "reporting"}

(* The inductive invariant: no reply before the request, no final response  *)
(* before the procedure ended, one by the time its handler is done, and     *)
(* nothing after it.  The states a call's handler is never in are those in  *)
(* which another kind of request would end without a RESULT or an ERROR.    *)
CallOK(c, k) ==
    /\ k \notin DOMAIN requests[c] =>
            task[c][k] = "none" /\ About(c, k, Replies) = {}
    /\ Is(c, k, "CALL") =>
        /\ task[c][k] \in Unanswered => About(c, k, Final) = {}
        /\ task[c][k] \in {"answering", "done"} /\ link[c] = "up" =>
                About(c, k, Final) # {}
        /\ task[c][k] \notin {"closing", "entering", "exiting", "acking"}
        /\ \A i \in About(c, k, Final) : \A j \in About(c, k, Replies) : j <= i

CallInv == \A c \in Conns, k \in RequestNumbers : CallOK(c, k)

(* A step that sends no reply to anyone.                                    *)
Silent ==
    \/ UNCHANGED out
    \/ \E c \in Conns, type \in MsgTypes \ Replies, ref \in Nat :
            SendMsg(c, Msg(type, ref))

(* How a handler goes on in such a step: a call that is being answered ends,*)
(* one that is not does not start being answered.                           *)
Moves(c, k) ==
    \/ task'[c][k] = task[c][k]
    \/ k \in DOMAIN requests[c] /\ task'[c][k] \in {"failed", "cancelling", "cancelled"}
    \/ k \in DOMAIN requests'[c] \ DOMAIN requests[c] /\ task'[c][k] = "ready"
    \/ task[c][k] \in Unanswered /\ task'[c][k] \in Unanswered
    \/ task[c][k] \in {"answering", "acking"} /\ task'[c][k] = "done"
    \/ k \in DOMAIN requests[c] /\ requests[c][k].kind # "CALL"

(* No request is forgotten and no closed transport opens.                   *)
Keeps ==
    \A c \in Conns :
        /\ DOMAIN requests[c] \subseteq DOMAIN requests'[c]
        /\ \A k \in DOMAIN requests[c] : requests'[c][k] = requests[c][k]
        /\ link'[c] = "up" => link[c] = "up"

QuietStep == Silent /\ Keeps /\ \A c \in Conns, k \in RequestNumbers : Moves(c, k)

-----------------------------------------------------------------------------
(* Replies of any kind are as before after a step that sends none.          *)
LEMMA SilentAbout ==
    ASSUME TypeOK, Silent, NEW c \in Conns, NEW k \in RequestNumbers,
           NEW types \in SUBSET Replies
    PROVE  About(c, k, types)' = About(c, k, types)
<1>1. CASE UNCHANGED out
  BY <1>1 DEF About, Sent
<1>2. ASSUME NEW d \in Conns, NEW type \in MsgTypes \ Replies, NEW ref \in Nat,
             SendMsg(d, Msg(type, ref))
      PROVE  About(c, k, types)' = About(c, k, types)
  <2>1. out[c] \in Seq(Messages) /\ out \in [Conns -> Seq(Messages)]
    BY DEF TypeOK, ConnectionTypeOK
  <2>2. CASE out'[c] = out[c]
    BY <2>2 DEF About, Sent
  <2>3. CASE out'[c] = Append(out[c], Msg(type, ref))
    <3>1. type \notin types
      BY <1>2
    <3>2. /\ DOMAIN out[c] = 1..Len(out[c])
          /\ DOMAIN out'[c] = 1..(Len(out[c]) + 1)
          /\ \A i \in DOMAIN out[c] : out'[c][i] = out[c][i]
          /\ out'[c][Len(out[c]) + 1] = Msg(type, ref)
      BY <2>1, <2>3
    <3>3. Msg(type, ref).type = type
      BY DEF Msg
    <3>4. \A i \in DOMAIN out'[c] : i \in DOMAIN out[c] \/ out'[c][i].type = type
      BY <2>1, <3>2, <3>3
    <3> QED
      BY <3>1, <3>2, <3>4, <2>1 DEF About, Sent
  <2> QED
    BY <1>2, <2>1, <2>2, <2>3 DEF SendMsg
<1> QED
  BY <1>1, <1>2 DEF Silent

(* The invariant survives steps without replies ...                         *)
LEMMA QuietCallInv ==
    ASSUME TypeOK, CallInv, QuietStep
    PROVE  CallInv'
<1> SUFFICES ASSUME NEW c \in Conns, NEW k \in RequestNumbers
             PROVE  CallOK(c, k)'
  BY DEF CallInv
<1>1. /\ About(c, k, Replies)' = About(c, k, Replies)
      /\ About(c, k, Final)' = About(c, k, Final)
  <2>1. Silent
    BY DEF QuietStep
  <2>2. Final \in SUBSET Replies /\ Replies \in SUBSET Replies
    BY DEF Replies
  <2> QED
    BY <2>1, <2>2, SilentAbout
<1>2. About(c, k, Final) \subseteq About(c, k, Replies)
  BY DEF About, Sent, Replies
<1>3. Moves(c, k) /\ Keeps
  BY DEF QuietStep
<1>4. CASE k \notin DOMAIN requests[c]
  <2>1. task[c][k] = "none" /\ About(c, k, Replies) = {} /\ About(c, k, Final) = {}
    BY <1>2, <1>4 DEF CallInv, CallOK
  <2> QED
    BY <1>1, <2>1, <1>3, <1>4 DEF Moves, Keeps, Unanswered, CallOK, Is
<1>5. CASE k \in DOMAIN requests[c]
  BY <1>1, <1>3, <1>5 DEF Moves, Keeps, Unanswered, CallInv, CallOK, Is
<1> QED
  BY <1>4, <1>5

(* The parts of QuietStep, as actions establish them.                       *)
LEMMA SilentSend ==
    ASSUME NEW c \in Conns, NEW type \in MsgTypes \ Replies, NEW ref \in Nat,
           SendMsg(c, Msg(type, ref))
    PROVE  Silent
  BY DEF Silent

LEMMA LinkKeeps ==
    ASSUME TypeOK, UNCHANGED requests, NEW c \in Conns, UNCHANGED link \/ CloseLink(c)
    PROVE  Keeps
  BY DEF TypeOK, ConnectionTypeOK, Keeps, CloseLink

LEMMA OneMoves ==
    ASSUME TypeOK, NEW c \in Conns, NEW k \in RequestNumbers, Moves(c, k), NEW state,
           task' = [task EXCEPT ![c][k] = state]
    PROVE  \A d \in Conns, l \in RequestNumbers : Moves(d, l)
<1> TAKE d \in Conns, l \in RequestNumbers
<1>1. CASE d = c /\ l = k
  BY <1>1
<1>2. CASE ~(d = c /\ l = k)
  BY <1>2 DEF TypeOK, TaskTypeOK, Moves
<1> QED
  BY <1>1, <1>2

LEMMA FinishMoves ==
    ASSUME TypeOK, CallInv, NEW c \in Conns, CancelTasks(c)
    PROVE  \A d \in Conns, l \in RequestNumbers : Moves(d, l)
<1> TAKE d \in Conns, l \in RequestNumbers
<1>1. CASE d = c /\ task[c][l] \in LiveTask
  <2>1. l \in DOMAIN requests[c]
    BY <1>1 DEF CallInv, CallOK, LiveTask
  <2>2. task'[c][l] = IF task[c][l] \in {"running", "stopping"}
                      THEN "stopping" ELSE "cancelling"
    BY <1>1 DEF TypeOK, TaskTypeOK, CancelTasks
  <2> QED
    BY <1>1, <2>1, <2>2 DEF Moves, Unanswered
<1>2. CASE ~(d = c /\ task[c][l] \in LiveTask)
  BY <1>2 DEF TypeOK, TaskTypeOK, CancelTasks, Moves, LiveTask
<1> QED
  BY <1>1, <1>2

(* ... and the replies themselves, to a request that nothing final was sent *)
(* about yet.                                                               *)
LEMMA ReplyCallInv ==
    ASSUME TypeOK, CallInv, NEW c \in Conns, NEW k \in RequestNumbers,
           k \in DOMAIN requests[c],
           requests[c][k].kind = "CALL" => task[c][k] \in Unanswered,
           NEW type \in Replies, SendMsg(c, Msg(type, k)),
           NEW state, task' = [task EXCEPT ![c][k] = state],
           requests[c][k].kind = "CALL" =>
             \/ type = "PROGRESS" /\ state \in {"progress", "reporting"}
             \/ type \in Final /\ state = "answering",
           UNCHANGED <<link, requests>>
    PROVE  CallInv'
<1> SUFFICES ASSUME NEW d \in Conns, NEW l \in RequestNumbers
             PROVE  CallOK(d, l)'
  BY DEF CallInv
<1>0. /\ out \in [Conns -> Seq(Messages)] /\ out[c] \in Seq(Messages)
      /\ link \in [Conns -> {"up", "down"}]
      /\ task \in [Conns -> [RequestNumbers -> TaskStates]]
  BY DEF TypeOK, ConnectionTypeOK, TaskTypeOK
<1>1. CASE out'[d] = out[d] /\ ~(d = c /\ l = k)
  <2>1. /\ About(d, l, Replies)' = About(d, l, Replies)
        /\ About(d, l, Final)' = About(d, l, Final)
    BY <1>1 DEF About, Sent
  <2>2. task'[d][l] = task[d][l] /\ Is(d, l, "CALL")' = Is(d, l, "CALL")
    BY <1>0, <1>1 DEF Is
  <2> QED
    BY <2>1, <2>2 DEF CallInv, CallOK
<1>2. CASE out'[d] # out[d] \/ (d = c /\ l = k)
  <2>0. d = c
    BY <1>0, <1>2 DEF SendMsg
  <2>1. CASE link[c] # "up"
    <3>1. out' = out
      BY <1>0, <2>1 DEF SendMsg
    <3>2. /\ l = k
          /\ About(d, l, Replies)' = About(d, l, Replies)
          /\ About(d, l, Final)' = About(d, l, Final)
      BY <1>2, <3>1 DEF About, Sent
    <3>3. task'[d][l] = state
      BY <1>0, <2>0, <3>2
    <3> QED
      BY <2>0, <2>1, <3>2, <3>3 DEF CallInv, CallOK, Is, Unanswered
  <2>2. CASE link[c] = "up"
    <3>1. /\ DOMAIN out[c] = 1..Len(out[c])
          /\ DOMAIN out'[c] = 1..(Len(out[c]) + 1)
          /\ \A i \in DOMAIN out[c] : out'[c][i] = out[c][i]
          /\ out'[c][Len(out[c]) + 1] = Msg(type, k)
          /\ Len(out[c]) \in Nat
      BY <1>0, <2>2 DEF SendMsg
    <3> DEFINE last == Len(out[c]) + 1
    <3>2. ASSUME NEW types \in SUBSET Replies
          PROVE  About(c, l, types)' = IF l = k /\ type \in types
                                       THEN About(c, l, types) \cup {last}
                                       ELSE About(c, l, types)
      <4>1. Msg(type, k).type = type /\ Msg(type, k).ref = k
        BY DEF Msg
      <4> QED
        BY SMTT(30), <3>1, <4>1 DEF About, Sent
    <3>3. Final \in SUBSET Replies /\ Replies \in SUBSET Replies
      BY DEF Replies
    <3>4. CASE l # k
      <4>1. /\ About(d, l, Replies)' = About(d, l, Replies)
            /\ About(d, l, Final)' = About(d, l, Final)
        BY <2>0, <3>2, <3>3, <3>4
      <4>2. task'[d][l] = task[d][l] /\ Is(d, l, "CALL")' = Is(d, l, "CALL")
        BY <1>0, <3>4 DEF Is
      <4> QED
        BY <4>1, <4>2 DEF CallInv, CallOK
    <3>5. CASE l = k
      <4>1. task'[c][k] = state
        BY <1>0
      <4>2. About(c, k, Replies)' = About(c, k, Replies) \cup {last}
        BY <3>2, <3>3, <3>5
      <4>3. About(c, k, Final)' = IF type \in Final
                                 THEN About(c, k, Final) \cup {last}
                                 ELSE About(c, k, Final)
        BY <3>2, <3>3, <3>5
      <4>4. \A j \in About(c, k, Replies)' : j <= last
        BY <3>1, <4>2 DEF About, Sent
      <4>5. requests[c][k].kind = "CALL" => About(c, k, Final) = {}
        BY DEF CallInv, CallOK, Is
      <4> QED
        BY <2>0, <3>5, <4>1, <4>2, <4>3, <4>4, <4>5
           DEF CallOK, Is, Unanswered, Final
    <3> QED
      BY <3>4, <3>5
  <2> QED
    BY <2>1, <2>2
<1> QED
  BY <1>1, <1>2

LEMMA StillMoves ==
    ASSUME UNCHANGED task
    PROVE  \A c \in Conns, k \in RequestNumbers : Moves(c, k)
  BY DEF Moves

(* Only requests that were read are being handled.                          *)
LEMMA LiveKnown ==
    ASSUME CallInv, NEW c \in Conns, NEW k \in RequestNumbers, task[c][k] \in LiveTask
    PROVE  k \in DOMAIN requests[c]
  BY DEF CallInv, CallOK, LiveTask

LEMMA AuthenticateSilent ==
    ASSUME NEW c \in Conns, NEW methods,
           \/ Authenticate(c, methods)
           \/ \E n \in Nat : AuthenticateFrom(c, n, methods)
           \/ MarkAuthenticated(c)
    PROVE  Silent
<1>1. ASSUME NEW n, AuthenticateFrom(c, n, methods)
      PROVE  Silent
  BY <1>1, SilentSend
     DEF AuthenticateFrom, SendAbort, Silent, Replies, Final, MsgTypes
<1>2. CASE MarkAuthenticated(c)
  BY <1>2, SilentSend DEF MarkAuthenticated, Replies, Final, MsgTypes
<1> QED
  BY <1>1, <1>2 DEF Authenticate

(* A request that was just read is ready and nothing was said about it.     *)
LEMMA ReceiveQuiet ==
    ASSUME TypeOK, CallInv, NEW c \in Conns, Receive(c)
    PROVE  QuietStep
<1> DEFINE next == Len(requests[c]) + 1
<1>1. /\ requests \in [Conns -> Seq(ClientRequests)]
      /\ Len(requests[c]) \in Nat
      /\ next \in RequestNumbers
  BY DEF TypeOK, TaskTypeOK, Receive, RequestNumbers
<1>2. PICK r \in ClientRequests : requests' = [requests EXCEPT ![c] = Append(@, r)]
  BY DEF Receive
<1>3. next \in DOMAIN requests'[c] \ DOMAIN requests[c]
  BY <1>1, <1>2
<1>4. task' = [task EXCEPT ![c][next] = "ready"]
  BY DEF Receive
<1>5. Moves(c, next)
  BY <1>1, <1>3, <1>4 DEF Moves, TypeOK, TaskTypeOK
<1>6. \A d \in Conns, l \in RequestNumbers : Moves(d, l)
  BY <1>1, <1>4, <1>5, OneMoves
<1>7. Keeps
  BY <1>1, <1>2 DEF Keeps, Receive
<1> QED
  BY <1>6, <1>7 DEF QuietStep, Silent, Receive

(* The inline handler that is cancelled is that of the last request.        *)
LEMMA CancelInlineQuiet ==
    ASSUME TypeOK, CallInv, NEW c \in Conns, CancelInline(c)
    PROVE  QuietStep
<1> DEFINE k == Len(requests[c])
<1>1. requests[c] \in Seq(ClientRequests) /\ k \in Nat
  BY DEF TypeOK, TaskTypeOK
<1>2. CASE k = 0
  <2>1. task' = task
    BY <1>2 DEF CancelInline, TypeOK, TaskTypeOK, RequestNumbers
  <2> QED
    BY <2>1, StillMoves, LinkKeeps DEF QuietStep, Silent, CancelInline
<1>3. CASE k # 0
  <2>1. k \in DOMAIN requests[c] /\ k \in RequestNumbers
    BY <1>1, <1>3 DEF TypeOK, TaskTypeOK, RequestNumbers
  <2>2. task' = [task EXCEPT ![c][k] = "cancelled"]
    BY DEF CancelInline
  <2>3. Moves(c, k)
    BY <2>1, <2>2 DEF Moves, TypeOK, TaskTypeOK
  <2>4. \A d \in Conns, l \in RequestNumbers : Moves(d, l)
    BY <2>1, <2>2, <2>3, OneMoves
  <2> QED
    BY <2>4, LinkKeeps DEF QuietStep, Silent, CancelInline
<1> QED
  BY <1>2, <1>3

-----------------------------------------------------------------------------
(* The steps of Next, one group of actions after the other.                 *)
LEMMA ClientQuiet ==
    ASSUME TypeOK, CallInv, NEW c \in Conns, Client(c)
    PROVE  QuietStep
<1>1. CASE ReceiveHello(c)
  BY <1>1, AuthenticateSilent, LinkKeeps, StillMoves
     DEF QuietStep, ReceiveHello, StartStateHandlers, Silent
<1>2. CASE RejectFirst(c)
  BY <1>2, SilentSend, LinkKeeps, StillMoves
     DEF QuietStep, RejectFirst, SendAbort, Replies, Final, MsgTypes
<1>3. CASE LeaveBeforeSession(c)
  BY <1>3, LinkKeeps, FinishMoves
     DEF QuietStep, LeaveBeforeSession, Finish, Silent
<1>4. CASE Receive(c)
  BY <1>4, ReceiveQuiet
     DEF QuietStep
<1>5. CASE ReceiveUnparsable(c)
  BY <1>5, SilentSend, LinkKeeps, StillMoves
     DEF QuietStep, ReceiveUnparsable, SendAbort, Replies, Final, MsgTypes
<1>6. CASE LeaveLoop(c)
  BY <1>6, LinkKeeps, StillMoves
     DEF QuietStep, LeaveLoop, Silent
<1>7. CASE Disconnects(c)
  BY <1>7, LinkKeeps, StillMoves
     DEF QuietStep, Disconnects, Disconnect, Silent
<1> QED
  BY <1>1, <1>2, <1>3, <1>4, <1>5, <1>6, <1>7 DEF Client

LEMMA SessionStepQuiet ==
    ASSUME TypeOK, CallInv, NEW c \in Conns, SessionStep(c)
    PROVE  QuietStep
<1>1. CASE Rejected(c)
  BY <1>1, LinkKeeps, FinishMoves
     DEF QuietStep, Rejected, Finish, Silent
<1>2. CASE StateHandlersStarted(c)
  BY <1>2, AuthenticateSilent, LinkKeeps, StillMoves
     DEF QuietStep, StateHandlersStarted, Silent
<1>3. CASE StateHandlersFailed(c)
  BY <1>3, LinkKeeps, StillMoves
     DEF QuietStep, StateHandlersFailed, Silent
<1>4. CASE TransportAuthenticated(c)
  BY <1>4, AuthenticateSilent, LinkKeeps, StillMoves
     DEF QuietStep, TypeOK, AuthTypeOK, TransportAuthenticated, Silent
<1>5. CASE Challenge(c)
  BY <1>5, SilentSend, LinkKeeps, StillMoves
     DEF QuietStep, Challenge, SendChallenge, Replies, Final, MsgTypes
<1>6. CASE Welcomed(c)
  BY <1>6, LinkKeeps, StillMoves
     DEF QuietStep, Welcomed, Silent
<1>7. CASE Refused(c)
  BY <1>7, LinkKeeps, StillMoves
     DEF QuietStep, Refused, Silent
<1>8. CASE SessionRaises(c)
  BY <1>8, LinkKeeps, StillMoves
     DEF QuietStep, SessionRaises, Silent
<1>9. CASE Aborted(c)
  BY <1>9, LinkKeeps, StillMoves
     DEF QuietStep, Aborted, Silent
<1>10. CASE CleanedUp(c)
  BY <1>10, LinkKeeps, FinishMoves, StillMoves
     DEF QuietStep, CleanedUp, Finish, Silent
<1>11. CASE Gathered(c)
  BY <1>11, LinkKeeps, FinishMoves
     DEF QuietStep, Gathered, Finish, Silent
<1>12. CASE FrameworkClose(c)
  BY <1>12, LinkKeeps, StillMoves
     DEF QuietStep, FrameworkClose, Silent
<1> QED
  BY <1>1, <1>2, <1>3, <1>4, <1>5, <1>6, <1>7, <1>8, <1>9, <1>10, <1>11, <1>12
     DEF SessionStep

LEMMA CancelQuiet ==
    ASSUME TypeOK, CallInv, NEW c \in Conns, Cancel(c)
    PROVE  QuietStep
<1>1. CASE CancelStartingHandlers(c)
  BY <1>1, LinkKeeps, StillMoves
     DEF QuietStep, CancelStartingHandlers, Silent
<1>2. CASE CancelSession(c)
  BY <1>2, LinkKeeps, StillMoves
     DEF QuietStep, CancelSession, Silent
<1>3. CASE CancelInline(c)
  BY <1>3, CancelInlineQuiet
     DEF QuietStep
<1>4. CASE CancelAbort(c)
  BY <1>4, LinkKeeps, StillMoves
     DEF QuietStep, CancelAbort, Silent
<1>5. CASE CancelShielded(c) \/ CancelGather(c)
  BY <1>5, LinkKeeps, FinishMoves
     DEF QuietStep, CancelShielded, CancelGather, Finish, Silent
<1> QED
  BY <1>1, <1>2, <1>3, <1>4, <1>5 DEF Cancel

LEMMA HandlerStepCallInv ==
    ASSUME TypeOK, CallInv, NEW c \in Conns, NEW k \in RequestNumbers, HandlerStep(c, k)
    PROVE  CallInv'
<1>0. CASE HandlerCancelled(c, k)
  BY <1>0, QuietCallInv, LinkKeeps, OneMoves, LiveKnown
     DEF QuietStep, HandlerCancelled, Silent, Moves, LiveTask
<1>1. CASE CallStart(c, k)
  BY <1>1, QuietCallInv, LinkKeeps, OneMoves
     DEF QuietStep, CallStart, Silent, Moves, Handling, HandlerWaits,
         HandlerReturns, HandlerRaises, Unanswered
<1>2. CASE CallRaises(c, k)
  BY <1>2, QuietCallInv, LinkKeeps, OneMoves
     DEF QuietStep, CallRaises, Silent, Moves, Handling, HandlerWaits,
         HandlerReturns, HandlerRaises, Unanswered
<1>3. CASE GoodbyeStart(c, k)
  BY <1>3, QuietCallInv, SilentSend, LinkKeeps, OneMoves
     DEF QuietStep, GoodbyeStart, Silent, Moves, Handling, HandlerWaits,
         HandlerReturns, HandlerRaises, Unanswered, SendGoodbye, Replies, Final,
         MsgTypes
<1>4. CASE GoodbyeSent(c, k)
  BY <1>4, QuietCallInv, LinkKeeps, OneMoves
     DEF QuietStep, GoodbyeSent, Silent, Moves, Handling, HandlerWaits,
         HandlerReturns, HandlerRaises, Unanswered
<1>5. CASE SubscribeStart(c, k)
  BY <1>5, QuietCallInv, LinkKeeps, OneMoves
     DEF QuietStep, SubscribeStart, Silent, Moves, Handling, HandlerWaits,
         HandlerReturns, HandlerRaises, Unanswered
<1>6. CASE SubscribeEntered(c, k)
  BY <1>6, QuietCallInv, SilentSend, LinkKeeps, OneMoves
     DEF QuietStep, SubscribeEntered, Silent, Moves, Handling, HandlerWaits,
         HandlerReturns, HandlerRaises, Unanswered, RequestNumbers, Replies,
         Final, MsgTypes
<1>7. CASE SubscribeRaises(c, k)
  BY <1>7, QuietCallInv, LinkKeeps, OneMoves
     DEF QuietStep, SubscribeRaises, Silent, Moves, Handling, HandlerWaits,
         HandlerReturns, HandlerRaises, Unanswered
<1>8. CASE UnsubscribeStart(c, k)
  BY <1>8, QuietCallInv, LinkKeeps, OneMoves
     DEF QuietStep, UnsubscribeStart, Silent, Moves, Handling, HandlerWaits,
         HandlerReturns, HandlerRaises, Unanswered
<1>9. CASE UnsubscribeUnknown(c, k)
  BY <1>9, QuietCallInv, LinkKeeps, OneMoves
     DEF QuietStep, UnsubscribeUnknown, Silent, Moves, Handling, HandlerWaits,
         HandlerReturns, HandlerRaises, Unanswered
<1>10. CASE UnsubscribeRaises(c, k)
  BY <1>10, QuietCallInv, LinkKeeps, OneMoves
     DEF QuietStep, UnsubscribeRaises, Silent, Moves, Handling, HandlerWaits,
         HandlerReturns, HandlerRaises, Unanswered
<1>11. CASE HandlerSent(c, k)
  <2>1. Silent /\ Keeps
    BY <1>11, LinkKeeps DEF HandlerSent, HandlerWaits, HandlerReturns, Silent
  <2>2. CASE \/ task[c][k] = "progress" /\ task' = [task EXCEPT ![c][k] = "running"]
             \/ task[c][k] = "reporting" /\ task' = [task EXCEPT ![c][k] = "stopping"]
    <3>1. Moves(c, k)
      BY <2>2 DEF TypeOK, TaskTypeOK, Moves, Unanswered
    <3> QED
      BY <2>1, <2>2, <3>1, OneMoves, QuietCallInv DEF QuietStep
  <2>3. CASE task[c][k] \in {"answering", "acking"} /\ task' = [task EXCEPT ![c][k] = "done"]
    <3>1. Moves(c, k)
      BY <2>3 DEF TypeOK, TaskTypeOK, Moves
    <3> QED
      BY <2>1, <2>3, <3>1, OneMoves, QuietCallInv DEF QuietStep
  <2> QED
    BY <1>11, <2>2, <2>3 DEF HandlerSent, HandlerWaits, HandlerReturns
<1>12. CASE HandlerSendRaises(c, k)
  BY <1>12, QuietCallInv, LinkKeeps, OneMoves, LiveKnown
     DEF QuietStep, HandlerSendRaises, Silent, Moves, Handling, HandlerWaits,
         HandlerReturns, HandlerRaises, Unanswered, LiveTask
<1>13. CASE CallProgress(c, k)
  BY <1>13, ReplyCallInv
     DEF CallProgress, Handling, HandlerWaits, Replies, Unanswered
<1>14. CASE CallAnswer(c, k) \/ CallExhausted(c, k)
  BY <1>14, ReplyCallInv
     DEF CallAnswer, CallExhausted, Answer, Handling, HandlerWaits, Replies,
         Final, Unanswered
<1>15. CASE UnsubscribeExited(c, k)
  <2>1. \E type \in {"ERROR", "UNSUBSCRIBED"} : SendMsg(c, Msg(type, k))
    BY <1>15 DEF UnsubscribeExited
  <2>2. CASE SendMsg(c, Msg("ERROR", k))
    BY <1>15, <2>2, ReplyCallInv
       DEF UnsubscribeExited, Handling, HandlerWaits, Replies, Final
  <2>3. CASE SendMsg(c, Msg("UNSUBSCRIBED", k))
    BY <1>15, <2>3, QuietCallInv, SilentSend, LinkKeeps, OneMoves
       DEF QuietStep, UnsubscribeExited, Moves, Handling, HandlerWaits,
           RequestNumbers, Replies, Final, MsgTypes
  <2> QED
    BY <2>1, <2>2, <2>3
<1> QED
  BY <1>0, <1>1, <1>2, <1>3, <1>4, <1>5, <1>6, <1>7, <1>8, <1>9, <1>10, <1>11,
     <1>12, <1>13, <1>14, <1>15
     DEF HandlerStep

LEMMA ServerQuiet ==
    ASSUME TypeOK, NEW c \in Conns,
           \/ CleanupStep(c)
           \/ CloserStep(c)
           \/ \E s \in StateHandlers : StateHandlerStep(c, s)
           \/ \E t \in Topics : Publish(c, t)
    PROVE  QuietStep
<1>1. CASE CleanupStep(c) \/ \E s \in StateHandlers : StateHandlerStep(c, s)
  <2>1. UNCHANGED <<connectionVars, requests, task>>
    BY <1>1
       DEF CleanupStep, CleanupBegins, CleanupSubscription,
           CleanupTurnsToStates,
                CleanupState, CleanupEnds, StateHandlerStep
  <2> QED
    BY <2>1, LinkKeeps, StillMoves DEF QuietStep, Silent
<1>2. CASE CloserStep(c)
  BY <1>2, SilentSend, LinkKeeps, StillMoves
     DEF CloserStep, CloserStart, CloserSent, SendGoodbye, QuietStep, Silent,
         Replies, Final, MsgTypes
<1>3. ASSUME NEW t \in Topics, Publish(c, t)
      PROVE  QuietStep
  <2>1. SubIdOf[t] \in Nat
    OBVIOUS
  <2> QED
    BY <1>3, <2>1, SilentSend, LinkKeeps, StillMoves
       DEF Publish, SendEvent, QuietStep, Replies, Final, MsgTypes
<1> QED
  BY <1>1, <1>2, <1>3

(* Init, and a step of the specification.                                   *)
LEMMA InitCallInv ==
    ASSUME Init
    PROVE  CallInv
  BY DEF Init, ConnectionInit, CallInv, CallOK, Is, About, Sent, Unanswered

LEMMA StepCallInv ==
    ASSUME TypeOK, CallInv, [Next]_vars
    PROVE  CallInv'
<1>1. ASSUME NEW c \in Conns, Client(c) \/ SessionStep(c) \/ Cancel(c)
      PROVE  CallInv'
  BY <1>1, ClientQuiet, SessionStepQuiet, CancelQuiet, QuietCallInv
<1>2. ASSUME NEW c \in Conns,
             \/ CleanupStep(c)
             \/ CloserStep(c)
             \/ \E s \in StateHandlers : StateHandlerStep(c, s)
             \/ \E t \in Topics : Publish(c, t)
      PROVE  CallInv'
  BY <1>2, ServerQuiet, QuietCallInv
<1>3. ASSUME NEW c \in Conns, NEW k \in RequestNumbers, HandlerStep(c, k)
      PROVE  CallInv'
  BY <1>3, HandlerStepCallInv
<1>4. CASE CloseSessions \/ CloseSessionsEnds \/ UNCHANGED vars
  <2>1. UNCHANGED <<connectionVars, requests, task>>
    BY <1>4 DEF CloseSessions, CloseSessionsEnds, vars
  <2> QED
    BY <2>1 DEF CallInv, CallOK, Is, About, Sent
<1>5. CASE Terminated
  BY <1>4, <1>5 DEF Terminated
<1> QED
  BY <1>1, <1>2, <1>3, <1>4, <1>5 DEF Next

(* CallInv is an invariant of the application layer.                        *)
THEOREM CallInvariant == Spec => []CallInv
<1>1. Init => CallInv
  BY InitCallInv
<1>2. TypeOK /\ CallInv /\ [Next]_vars => CallInv'
  BY StepCallInv
<1> QED
  BY <1>1, <1>2, TypeCorrect, PTL DEF Spec

(* A client never gets a second final response to a call, nor a progress    *)
(* report after the first, whatever its procedure yields and wherever the   *)
(* session's tasks are interrupted.                                         *)
THEOREM CallsEndOnce == Spec => []NothingAfterFinalResponse
<1>1. CallInv => NothingAfterFinalResponse
  BY DEF CallInv, CallOK, NothingAfterFinalResponse, Replies
<1> QED
  BY <1>1, CallInvariant, PTL

(* A call whose handler came to its own end was answered with a RESULT or an*)
(* ERROR if the client is still connected: default_protocol_rpc_handler has *)
(* no path that returns without one.                                        *)
THEOREM CallsAnswered == Spec => []FinishedCallsAnswered
<1>1. CallInv => FinishedCallsAnswered
  BY DEF CallInv, CallOK, FinishedCallsAnswered
<1> QED
  BY <1>1, CallInvariant, PTL
=============================================================================

------------------------ MODULE ApplicationOrderProofs ------------------------
(***************************************************************************)
(* In which order clients are told about their requests, proved for every  *)
(* value of the constants of module Application; and that the application   *)
(* layer implements module Conversation, step by step.                      *)
(***************************************************************************)
EXTENDS ApplicationSessionProofs

USE SessionAssumption, ApplicationAssumption

(* The tuples of variables that actions leave unchanged are shorthands.     *)
USE DEF connectionVars, openVars, registryVars, sessionVars, controlVars,
        authVars, taskVars, subVars, stateVars, cleanVars, closerVars,
        handlerFrame, mainFrame, cleanupFrame, closerFrame

-----------------------------------------------------------------------------
Acks == {"SUBSCRIBED", "UNSUBSCRIBED"}
Responses == Final \cup Acks
ToldOf == Responses \cup {"PROGRESS"}

(* The states of a handler whose request was answered, or that ended or will*)
(* end without.                                                             *)
Over == {"answering", "acking", "cancelling", "done", "failed", "cancelled"}

(* The inductive invariant: what is sent about a request follows it; once   *)
(* it got its response its handler does not go back; acknowledgements are   *)
(* in order of the requests, and with synchronize_requests all responses    *)
(* are.  That handlers run inline enters through ControlInv: an inline one  *)
(* that is live is the last request's, so no later request is answered yet. *)
AnswerOK(c) ==
    /\ \A i \in Sent(c, ToldOf) : out[c][i].ref \in DOMAIN requests[c]
    /\ \A i \in Sent(c, Responses) : task[c][out[c][i].ref] \in Over
    /\ \A i, j \in Sent(c, Acks) : i < j => out[c][i].ref < out[c][j].ref
    /\ \E m \in {0} \cup Refs(c, Acks) : \A n \in Refs(c, Acks) : n <= m
    /\ SynchronizeRequests =>
        \A i, j \in Sent(c, ToldOf) : i < j => out[c][i].ref <= out[c][j].ref

AnswerInv == \A c \in Conns : AnswerOK(c)

(* A request that was answered, or ended without, stays so.                 *)
LEMMA OverStays ==
    ASSUME TypeOK, CallInv, NEW c \in Conns, ConnStep(c),
           NEW k \in DOMAIN requests[c], k \in RequestNumbers, task[c][k] \in Over
    PROVE  task'[c][k] \in Over
<1> USE FunctionTypes DEF Over
<1>1. UNCHANGED task => task'[c][k] \in Over
  OBVIOUS
<1>2. CancelTasks(c) => task'[c][k] \in Over
  BY DEF CancelTasks
<1>3. CASE Receive(c)
  <2>1. task' = [task EXCEPT ![c][Len(requests[c]) + 1] = "ready"]
    BY <1>3 DEF Receive
  <2>2. k # Len(requests[c]) + 1
    <3>1. requests[c] \in Seq(ClientRequests)
      OBVIOUS
    <3> QED
      BY <3>1
  <2> QED
    BY <2>1, <2>2
<1>4. CASE CancelInline(c)
  BY <1>4 DEF CancelInline
<1>5. ASSUME NEW j \in RequestNumbers, HandlerStep(c, j)
      PROVE  task'[c][k] \in Over
  <2>1. CASE j # k
    <3>1. \E state : task' = [task EXCEPT ![c][j] = state]
      BY <1>5, HandlerMoves
         DEF HandlerWaits, HandlerReturns, HandlerRaises, HandlerCancelled
    <3> QED
      BY <2>1, <3>1
  <2>2. CASE j = k
    <3>1. HandlerReturns(c, k) \/ HandlerRaises(c, k) \/ HandlerCancelled(c, k)
      BY <1>5, <2>2
         DEF HandlerStep, CallStart, CallProgress, CallAnswer, CallExhausted,
             Answer, CallRaises, GoodbyeStart, GoodbyeSent, SubscribeStart,
             SubscribeEntered, SubscribeRaises, UnsubscribeStart,
             UnsubscribeUnknown, UnsubscribeExited, UnsubscribeRaises,
             HandlerSent, HandlerSendRaises, Handling
    <3> QED
      BY <3>1 DEF HandlerReturns, HandlerRaises, HandlerCancelled
  <2> QED
    BY <2>1, <2>2
<1>6. \/ UNCHANGED task \/ CancelTasks(c) \/ Receive(c) \/ CancelInline(c)
      \/ \E j \in RequestNumbers : HandlerStep(c, j)
  BY DEF ConnStep, Client, ReceiveHello, RejectFirst, LeaveBeforeSession,
         ReceiveUnparsable, LeaveLoop, Disconnects, SessionStep, Rejected,
         StateHandlersStarted, StateHandlersFailed, TransportAuthenticated,
         Challenge, Welcomed, Refused, SessionRaises, Aborted, CleanedUp,
         Gathered, FrameworkClose, CleanupStep, CleanupBegins,
         CleanupSubscription, CleanupTurnsToStates, CleanupState, CleanupEnds,
         CloserStep, CloserStart, CloserSent, Cancel, CancelStartingHandlers,
         CancelSession, CancelAbort, CancelShielded, CancelGather,
         GatheredResult, StateHandlerStep, Publish, Finish
<1> QED
  BY <1>1, <1>2, <1>3, <1>4, <1>5, <1>6

(* A message of some types after one more was sent: an old one or the new.  *)
LEMMA SentCases ==
    ASSUME TypeOK, NEW c \in Conns, NEW type, NEW ref, NEW types,
           out'[c] = Append(out[c], Msg(type, ref))
    PROVE  \A i \in Sent(c, types)' :
              \/ i \in Sent(c, types) /\ out'[c][i].ref = out[c][i].ref
              \/ i = Len(out[c]) + 1 /\ type \in types /\ out'[c][i].ref = ref
  BY OutAppend DEF Sent

LEMMA SentRange ==
    ASSUME TypeOK, NEW c \in Conns, NEW types
    PROVE  \A i \in Sent(c, types) :
              /\ i \in 1..Len(out[c]) /\ Len(out[c]) \in Nat
              /\ out[c][i].ref \in Nat
<1>1. out[c] \in Seq(Messages)
  BY FunctionTypes
<1>2. \A i \in DOMAIN out[c] : out[c][i] \in Messages /\ i \in 1..Len(out[c])
  BY <1>1
<1> QED
  BY <1>1, <1>2 DEF Sent, Messages

LEMMA RefsAppend ==
    ASSUME TypeOK, NEW c \in Conns, NEW type, NEW ref, NEW types,
           out'[c] = Append(out[c], Msg(type, ref))
    PROVE  /\ type \in types => Refs(c, types)' = Refs(c, types) \cup {ref}
           /\ type \notin types => Refs(c, types)' = Refs(c, types)
<1>1. /\ \A i \in Sent(c, types) : out'[c][i].ref = out[c][i].ref
      /\ out'[c][Len(out[c]) + 1].ref = ref
  BY OutAppend DEF Sent
<1>2. /\ type \in types => Sent(c, types)' = Sent(c, types) \cup {Len(out[c]) + 1}
      /\ type \notin types => Sent(c, types)' = Sent(c, types)
  BY SentAppend
<1>3. CASE type \in types
  <2>1. Sent(c, types)' = Sent(c, types) \cup {Len(out[c]) + 1}
    BY <1>2, <1>3
  <2>2. {out'[c][i].ref : i \in Sent(c, types) \cup {Len(out[c]) + 1}} =
            {out[c][i].ref : i \in Sent(c, types)} \cup {ref}
    BY <1>1
  <2> QED
    BY <1>3, <2>1, <2>2 DEF Refs
<1>4. CASE type \notin types
  <2>1. Sent(c, types)' = Sent(c, types)
    BY <1>2, <1>4
  <2>2. {out'[c][i].ref : i \in Sent(c, types)} = {out[c][i].ref : i \in Sent(c, types)}
    BY <1>1
  <2> QED
    BY <1>4, <2>1, <2>2 DEF Refs
<1> QED
  BY <1>3, <1>4

(* A message about a request: its handler is live and did not respond yet,  *)
(* and an inline handler's request is the last one.                         *)
LEMMA ReplyTo ==
    ASSUME TypeOK, NEW c \in Conns, ControlOK(c), AnswerOK(c),
           NEW type, NEW k, SaysAboutRequest(c, type, k)
    PROVE  /\ k \in DOMAIN requests[c] /\ k \in RequestNumbers
           /\ k \notin Refs(c, Responses)
           /\ type \in ToldOf /\ (type \in Responses => task'[c][k] \in Over)
           /\ type \in Acks \/ SynchronizeRequests =>
                \A i \in Sent(c, ToldOf) : out[c][i].ref <= k
<1>1. /\ k \in DOMAIN requests[c] /\ k \in RequestNumbers
      /\ task[c][k] \in LiveTask /\ task[c][k] \notin Over
      /\ type \in ToldOf /\ (type \in Responses => task'[c][k] \in Over)
      /\ type \in Acks => IsInline(requests[c][k])
  BY DEF SaysAboutRequest, LiveTask, Over, ToldOf, Responses, Acks, Final,
         IsInline, ALWAYS_SYNCHRONIZE
<1>2. k \notin Refs(c, Responses)
  BY <1>1 DEF Refs, AnswerOK
<1>3. ASSUME type \in Acks \/ SynchronizeRequests, NEW i \in Sent(c, ToldOf)
      PROVE  out[c][i].ref <= k
  <2>1. IsInline(requests[c][k])
    BY <1>1, <1>3 DEF IsInline
  <2>2. k = Len(requests[c])
    BY <1>1, <2>1 DEF ControlOK, InlineOK, LastRequest
  <2>3. out[c][i].ref \in DOMAIN requests[c] /\ requests[c] \in Seq(ClientRequests)
    BY FunctionTypes DEF AnswerOK
  <2> QED
    BY <2>2, <2>3
<1> QED
  BY <1>1, <1>2, <1>3

(* A step that sends nothing about requests.                                *)
LEMMA QuietAnswers ==
    ASSUME TypeOK, CallInv, NEW c \in Conns, ControlOK(c), ConnStep(c), AnswerOK(c),
           \A types \in SUBSET ToldOf : Sent(c, types)' = Sent(c, types),
           \A i \in DOMAIN out[c] : out'[c][i] = out[c][i]
    PROVE  AnswerOK(c)'
<1>1. DOMAIN requests[c] \subseteq DOMAIN requests'[c]
  <2>1. requests[c] \in Seq(ClientRequests)
    BY FunctionTypes
  <2> QED
    BY <2>1, OwnEngages DEF Engages
<1>2. /\ Sent(c, ToldOf)' = Sent(c, ToldOf) /\ Sent(c, Acks)' = Sent(c, Acks)
      /\ Sent(c, Responses)' = Sent(c, Responses)
  BY DEF ToldOf, Responses
<1>3. \A i \in Sent(c, ToldOf) : out'[c][i] = out[c][i]
  BY DEF Sent
<1>4. Sent(c, Acks) \subseteq Sent(c, ToldOf) /\ Sent(c, Responses) \subseteq Sent(c, ToldOf)
  BY DEF Sent, ToldOf, Responses
<1>5. \A i \in Sent(c, Responses)' : task'[c][out'[c][i].ref] \in Over
  <2> SUFFICES ASSUME NEW i \in Sent(c, Responses)
               PROVE  task'[c][out[c][i].ref] \in Over
    BY <1>2, <1>3, <1>4
  <2>1. out[c][i].ref \in DOMAIN requests[c] /\ task[c][out[c][i].ref] \in Over
    BY <1>4 DEF AnswerOK
  <2>2. DOMAIN requests[c] \subseteq RequestNumbers
    BY DEF TypeOK, TaskTypeOK, RequestNumbers
  <2> QED
    BY <2>1, <2>2, OverStays
<1>6. Refs(c, Acks)' = Refs(c, Acks)
  <2>1. {out'[c][i].ref : i \in Sent(c, Acks)} = {out[c][i].ref : i \in Sent(c, Acks)}
    BY <1>3, <1>4
  <2> QED
    BY <1>2, <2>1 DEF Refs
<1>7. \A i \in Sent(c, ToldOf)' : out'[c][i].ref \in DOMAIN requests'[c]
  BY <1>1, <1>2, <1>3 DEF AnswerOK
<1>8. \A i, j \in Sent(c, Acks)' : i < j => out'[c][i].ref < out'[c][j].ref
  BY <1>2, <1>3, <1>4 DEF AnswerOK
<1>9. SynchronizeRequests =>
        \A i, j \in Sent(c, ToldOf)' : i < j => out'[c][i].ref <= out'[c][j].ref
  BY <1>2, <1>3 DEF AnswerOK
<1>10. \E m \in {0} \cup Refs(c, Acks)' : \A n \in Refs(c, Acks)' : n <= m
  BY <1>6 DEF AnswerOK
<1> QED
  BY <1>5, <1>7, <1>8, <1>9, <1>10 DEF AnswerOK

LEMMA OwnAnswers ==
    ASSUME TypeOK, CallInv, NEW c \in Conns, ControlOK(c), ConnStep(c), AnswerOK(c)
    PROVE  AnswerOK(c)'
<1>1. CASE UNCHANGED out[c]
  <2>1. \A types \in SUBSET ToldOf : Sent(c, types)' = Sent(c, types)
    BY <1>1 DEF Sent
  <2> QED
    BY <1>1, <2>1, QuietAnswers
<1>2. CASE Says(c)
  <2>1. PICK type \in MsgTypes, ref \in Nat :
            /\ out'[c] = Append(out[c], Msg(type, ref))
            /\ Occasion(c, type, ref)
            /\ UNCHANGED requests[c]
    BY <1>2 DEF Says
  <2>2. CASE type \notin ToldOf
    <3>1. \A types \in SUBSET ToldOf : Sent(c, types)' = Sent(c, types)
      <4> SUFFICES ASSUME NEW types \in SUBSET ToldOf
                   PROVE  Sent(c, types)' = Sent(c, types)
        OBVIOUS
      <4>1. type \notin types
        BY <2>2
      <4> QED
        BY <2>1, <4>1, SentAppend
    <3>2. \A i \in DOMAIN out[c] : out'[c][i] = out[c][i]
      BY <2>1, OutAppend
    <3> QED
      BY <3>1, <3>2, QuietAnswers
  <2>3. CASE type \in ToldOf
    <3> DEFINE last == Len(out[c]) + 1
    <3>1. SaysAboutRequest(c, type, ref)
      BY <2>1, <2>3 DEF Occasion, ToldOf, Responses, Final, Acks
    <3>2. /\ ref \in DOMAIN requests[c] /\ ref \in RequestNumbers
          /\ ref \notin Refs(c, Responses)
          /\ type \in Responses => task'[c][ref] \in Over
          /\ type \in Acks \/ SynchronizeRequests =>
               \A i \in Sent(c, ToldOf) : out[c][i].ref <= ref
      BY <3>1, ReplyTo
    <3>3. ASSUME NEW types, NEW i \in Sent(c, types)'
          PROVE  \/ i \in Sent(c, types) /\ out'[c][i].ref = out[c][i].ref
                 \/ i = last /\ type \in types /\ out'[c][i].ref = ref
      <4>1. out'[c] = Append(out[c], Msg(type, ref))
        BY <2>1
      <4>2. \A m \in Sent(c, types)' :
              \/ m \in Sent(c, types) /\ out'[c][m].ref = out[c][m].ref
              \/ m = Len(out[c]) + 1 /\ type \in types /\ out'[c][m].ref = ref
        BY <4>1, SentCases
      <4> QED
        BY <3>3, <4>2
    <3>4. Sent(c, Acks) \subseteq Sent(c, ToldOf) /\ Sent(c, Responses) \subseteq Sent(c, ToldOf)
      BY DEF Sent, ToldOf, Responses
    <3>5. ASSUME NEW i \in Sent(c, ToldOf)
          PROVE  i \in Nat /\ i < last /\ last \in Nat /\ out[c][i].ref \in Nat
      BY <3>5, SentRange
    <3>6. \A i \in Sent(c, ToldOf)' : out'[c][i].ref \in DOMAIN requests'[c]
      BY <2>1, <3>2, <3>3 DEF AnswerOK
    <3>7. \A i \in Sent(c, Responses)' : task'[c][out'[c][i].ref] \in Over
      <4>1. ASSUME NEW i \in Sent(c, Responses)
            PROVE  task'[c][out[c][i].ref] \in Over
        <5>1. out[c][i].ref \in DOMAIN requests[c] /\ task[c][out[c][i].ref] \in Over
          BY <3>4, <4>1 DEF AnswerOK
        <5>2. DOMAIN requests[c] \subseteq RequestNumbers
          BY DEF TypeOK, TaskTypeOK, RequestNumbers
        <5> QED
          BY <5>1, <5>2, OverStays
      <4> QED
        BY <3>2, <3>3, <4>1
    <3>8. \A i, j \in Sent(c, Acks)' : i < j => out'[c][i].ref < out'[c][j].ref
      <4> SUFFICES ASSUME NEW i \in Sent(c, Acks)', NEW j \in Sent(c, Acks)', i < j
                   PROVE  out'[c][i].ref < out'[c][j].ref
        OBVIOUS
      <4>1. CASE i \in Sent(c, Acks) /\ out'[c][i].ref = out[c][i].ref
        <5>1. CASE j \in Sent(c, Acks) /\ out'[c][j].ref = out[c][j].ref
          BY <4>1, <5>1 DEF AnswerOK
        <5>2. CASE j = last /\ type \in Acks /\ out'[c][j].ref = ref
          <6>1. out[c][i].ref <= ref /\ out[c][i].ref \in Nat /\ ref \in Nat
            BY <3>2, <3>4, <3>5, <4>1, <5>2
          <6>2. out[c][i].ref # ref
            BY <3>2, <4>1 DEF Refs, Sent, Responses
          <6> QED
            BY <4>1, <5>2, <6>1, <6>2
        <5> QED
          BY <3>3, <5>1, <5>2
      <4>2. CASE i = last
        <5>1. j \in Sent(c, Acks) \/ j = last
          BY <3>3
        <5> QED
          BY <3>4, <3>5, <4>2, <5>1, SentRange
      <4> QED
        BY <3>3, <4>1, <4>2
    <3>9. \E m \in {0} \cup Refs(c, Acks)' : \A n \in Refs(c, Acks)' : n <= m
      <4>1. CASE type \in Acks
        <5>1. Refs(c, Acks)' = Refs(c, Acks) \cup {ref}
          BY <2>1, <4>1, RefsAppend
        <5>2. \A n \in Refs(c, Acks) : n <= ref
          BY <3>2, <3>4, <4>1 DEF Refs
        <5> QED
          BY <5>1, <5>2
      <4>2. CASE type \notin Acks
        <5>1. Refs(c, Acks)' = Refs(c, Acks)
          BY <2>1, <4>2, RefsAppend
        <5> QED
          BY <5>1 DEF AnswerOK
      <4> QED
        BY <4>1, <4>2
    <3>10. ASSUME SynchronizeRequests,
                  NEW i \in Sent(c, ToldOf)', NEW j \in Sent(c, ToldOf)', i < j
           PROVE  out'[c][i].ref <= out'[c][j].ref
      <4>1. CASE i \in Sent(c, ToldOf) /\ out'[c][i].ref = out[c][i].ref
        <5>1. CASE j \in Sent(c, ToldOf) /\ out'[c][j].ref = out[c][j].ref
          BY <3>10, <4>1, <5>1 DEF AnswerOK
        <5>2. CASE j = last /\ out'[c][j].ref = ref
          BY <3>2, <3>10, <4>1, <5>2
        <5> QED
          BY <3>3, <5>1, <5>2
      <4>2. CASE i = last
        <5>1. j \in Sent(c, ToldOf) \/ j = last
          BY <3>3
        <5> QED
          BY <3>5, <3>10, <4>2, <5>1, SentRange
      <4> QED
        BY <3>3, <4>1, <4>2
    <3> QED
      BY <3>6, <3>7, <3>8, <3>9, <3>10 DEF AnswerOK
  <2> QED
    BY <2>2, <2>3
<1> QED
  BY <1>1, <1>2, OwnSays

LEMMA StepAnswerInv ==
    ASSUME TypeOK, CallInv, ControlInv, AnswerInv, [Next]_vars
    PROVE  AnswerInv'
<1>1. ASSUME NEW c \in Conns, Same(c)
      PROVE  AnswerOK(c)'
  BY ZenonT(60), <1>1 DEF Same, AnswerInv, AnswerOK, Refs, Sent
<1> QED
  BY <1>1, StepOfOne, OwnAnswers DEF AnswerInv, ControlInv

(* AnswerInv is an invariant of the application layer.                      *)
THEOREM AnswerInvariant == Spec => []AnswerInv
<1>1. Init => AnswerInv
  <2> SUFFICES ASSUME Init, NEW c \in Conns PROVE AnswerOK(c)
    BY DEF AnswerInv
  <2>1. out[c] = <<>>
    BY DEF Init, ConnectionInit
  <2>2. \A types : Sent(c, types) = {}
    BY <2>1 DEF Sent
  <2> QED
    BY <2>2 DEF AnswerOK, Refs
<1>2. TypeOK /\ CallInv /\ ControlInv /\ AnswerInv /\ [Next]_vars => AnswerInv'
  BY StepAnswerInv
<1> QED
  BY <1>1, <1>2, TypeCorrect, CallInvariant, ControlInvariant, PTL DEF Spec

(* Subscriptions are acknowledged in the order they were asked for: their   *)
(* handlers run in the loop itself, whatever calls do beside them.          *)
THEOREM AcksInOrder == Spec => []SubscriptionAcksInOrder
<1>1. AnswerInv => SubscriptionAcksInOrder
  BY DEF AnswerInv, AnswerOK, SubscriptionAcksInOrder, Acks
<1> QED
  BY <1>1, AnswerInvariant, PTL

(* With synchronize_requests one handler at most is live, and the client is *)
(* told about its requests in the order it made them.                       *)
THEOREM OneRequestAtATime ==
    ASSUME SynchronizeRequests
    PROVE  Spec => []RequestsSynchronized
<1>1. CallInv /\ ControlInv /\ AnswerInv => RequestsSynchronized
  <2> SUFFICES ASSUME CallInv, ControlInv, AnswerInv, NEW c \in Conns
               PROVE  /\ \A k, l \in RequestNumbers :
                            {task[c][k], task[c][l]} \subseteq LiveTask => k = l
                      /\ \A i, j \in Sent(c, ToldOf) :
                            i < j => out[c][i].ref <= out[c][j].ref
    BY DEF RequestsSynchronized, ToldOf, Responses, Acks
  <2>1. ASSUME NEW k \in RequestNumbers, task[c][k] \in LiveTask
        PROVE  k = LastRequest(c)
    BY <2>1, LiveKnown DEF ControlInv, ControlOK, InlineOK, IsInline
  <2> QED
    BY <2>1 DEF AnswerInv, AnswerOK
<1> QED
  BY <1>1, CallInvariant, ControlInvariant, AnswerInvariant, PTL

-----------------------------------------------------------------------------
(* The refinement.  A step of one connection is one step of module          *)
(* Conversation, by the message it sends (Says), or none.                   *)
AnsweredBy(c) == Refs(c, Final \cup {"SUBSCRIBED", "UNSUBSCRIBED"})
AckedLast(c) == Max({0} \cup Refs(c, {"SUBSCRIBED", "UNSUBSCRIBED"}))

Others(c) == \A d \in Conns \ {c} : Same(d)

(* What a client can tell does not change for other clients.                *)
LEMMA ViewOfOthers ==
    ASSUME NEW c \in Conns, Same(c)
    PROVE  /\ Stage(c)' = Stage(c) /\ Len(requests'[c]) = Len(requests[c])
           /\ AnsweredBy(c)' = AnsweredBy(c) /\ AckedLast(c)' = AckedLast(c)
  BY DEF Same, Stage, AnsweredBy, AckedLast, Refs, Sent

(* What of a client's view a step leaves alone, or how it changes it.       *)
LEMMA StageTurns ==
    ASSUME NEW c \in Conns, Others(c), NEW from, NEW to, Stage(c) \in from, Stage(c)' = to
    PROVE  ClientView!Turn(c, from, to)
<1>1. [d \in Conns |-> Stage(d)]' = [[d \in Conns |-> Stage(d)] EXCEPT ![c] = to]
  BY ViewOfOthers DEF Others
<1> QED
  BY <1>1 DEF ClientView!Turn

LEMMA StageStays ==
    ASSUME NEW c \in Conns, Others(c), Stage(c)' = Stage(c)
    PROVE  UNCHANGED [d \in Conns |-> Stage(d)]
  BY ViewOfOthers DEF Others

LEMMA AskedStays ==
    ASSUME NEW c \in Conns, Others(c), UNCHANGED requests[c]
    PROVE  UNCHANGED [d \in Conns |-> Len(requests[d])]
  BY ViewOfOthers DEF Others

LEMMA AnsweredStays ==
    ASSUME NEW c \in Conns, Others(c), AnsweredBy(c)' = AnsweredBy(c)
    PROVE  UNCHANGED [d \in Conns |-> Refs(d, Final \cup {"SUBSCRIBED", "UNSUBSCRIBED"})]
  BY ViewOfOthers DEF Others, AnsweredBy

LEMMA AckedStays ==
    ASSUME NEW c \in Conns, Others(c), AckedLast(c)' = AckedLast(c)
    PROVE  UNCHANGED [d \in Conns |-> Max({0} \cup Refs(d, {"SUBSCRIBED", "UNSUBSCRIBED"}))]
  BY ViewOfOthers DEF Others, AckedLast

LEMMA OutSaid ==
    ASSUME TypeOK, TypeOK', NEW c \in Conns, Others(c), NEW type, NEW ref,
           out'[c] = Append(out[c], Msg(type, ref))
    PROVE  ClientView!Say(c, type, ref)
<1>1. out \in [Conns -> Seq(Messages)] /\ out' \in [Conns -> Seq(Messages)]
  BY DEF TypeOK, ConnectionTypeOK
<1>2. \A d \in Conns \ {c} : out'[d] = out[d]
  BY DEF Others, Same
<1>3. out' = [out EXCEPT ![c] = Append(@, Msg(type, ref))]
  BY <1>1, <1>2
<1> QED
  BY <1>3 DEF ClientView!Say, Msg

LEMMA OutStays ==
    ASSUME TypeOK, TypeOK', NEW c \in Conns, Others(c), UNCHANGED out[c]
    PROVE  UNCHANGED out
<1>1. out \in [Conns -> Seq(Messages)] /\ out' \in [Conns -> Seq(Messages)]
  BY DEF TypeOK, ConnectionTypeOK
<1> QED
  BY <1>1 DEF Others, Same

(* The last acknowledgement: the greatest, since they are in order.         *)
LEMMA MaxIs ==
    ASSUME NEW S \in SUBSET Nat, NEW m \in S, \A n \in S : n <= m
    PROVE  Max(S) = m
<1>1. Max(S) \in S /\ \A n \in S : Max(S) >= n
  <2>1. \E x \in S : \A y \in S : x >= y
    OBVIOUS
  <2> QED
    BY <2>1 DEF Max
<1>2. Max(S) \in Nat /\ m \in Nat
  BY <1>1
<1>3. Max(S) >= m /\ Max(S) <= m
  BY <1>1
<1> QED
  BY <1>2, <1>3

(* A message that is not WELCOME, to a client that was welcomed.            *)
LEMMA StageKept ==
    ASSUME TypeOK, NEW c \in Conns, NEW type, NEW ref,
           out'[c] = Append(out[c], Msg(type, ref)), UNCHANGED is_open[c],
           Sent(c, {"WELCOME"}) # {}, type # "WELCOME",
           type = "GOODBYE" => is_open[c]
    PROVE  Stage(c)' = Stage(c) /\ Stage(c) \in {"open", "closed"}
<1>1. type \notin {"WELCOME"} /\ (type # "GOODBYE" => type \notin {"GOODBYE"})
  OBVIOUS
<1>2. Sent(c, {"WELCOME"})' = Sent(c, {"WELCOME"})
  BY <1>1, SentAppend
<1>3. type # "GOODBYE" => Sent(c, {"GOODBYE"})' = Sent(c, {"GOODBYE"})
  BY <1>1, SentAppend
<1> QED
  BY <1>2, <1>3 DEF Stage

(* A message that is neither a final response nor an acknowledgement.       *)
LEMMA ResponsesKept ==
    ASSUME TypeOK, NEW c \in Conns, NEW type, NEW ref, type \notin Responses,
           out'[c] = Append(out[c], Msg(type, ref))
    PROVE  AnsweredBy(c)' = AnsweredBy(c) /\ AckedLast(c)' = AckedLast(c)
<1>1. type \notin Final \cup {"SUBSCRIBED", "UNSUBSCRIBED"} /\ type \notin Acks
  BY DEF Responses, Acks
<1>2. Refs(c, Final \cup {"SUBSCRIBED", "UNSUBSCRIBED"})' =
        Refs(c, Final \cup {"SUBSCRIBED", "UNSUBSCRIBED"})
  BY SMTT(30), <1>1, RefsAppend
<1>3. Refs(c, Acks)' = Refs(c, Acks)
  BY <1>1, RefsAppend
<1> QED
  BY <1>2, <1>3 DEF AnsweredBy, AckedLast, Acks

(* The first message of a conversation.                                     *)
LEMMA HandshakeStep ==
    ASSUME TypeOK, TypeOK', NEW c \in Conns, Others(c), NEW type, out[c] = <<>>,
           out'[c] = Append(out[c], Msg(type, 0)), UNCHANGED <<is_open[c], requests[c]>>,
           type \in {"CHALLENGE", "WELCOME", "ABORT"}
    PROVE  ClientView!Handshake(c)
<1>1. Stage(c) = "greeting"
  BY DEF Stage, Sent
<1>2. \A t : Sent(c, {t})' = IF type = t THEN {1} ELSE {}
  <2>1. DOMAIN out'[c] = {1} /\ out'[c][1].type = type
    BY DEF Msg
  <2> QED
    BY <2>1 DEF Sent
<1>3. Stage(c)' = CASE type = "WELCOME" -> "open"
                    [] type = "ABORT" -> "refused"
                    [] type = "CHALLENGE" -> "challenged"
  BY <1>2 DEF Stage
<1>4. type \notin Responses
  BY DEF Responses, Final, Acks
<1>5. ClientView!Challenge(c) \/ ClientView!Refuse(c) \/ ClientView!Welcome(c)
  <2>1. ClientView!Say(c, type, 0)
    BY OutSaid
  <2>2. CASE type = "CHALLENGE"
    <3>1. ClientView!Turn(c, {"greeting"}, "challenged")
      BY <1>1, <1>3, <2>2, StageTurns
    <3> QED
      BY <2>1, <2>2, <3>1 DEF ClientView!Challenge
  <2>3. CASE type = "ABORT"
    <3>1. ClientView!Turn(c, {"greeting", "challenged"}, "refused")
      BY <1>1, <1>3, <2>3, StageTurns
    <3> QED
      BY <2>1, <2>3, <3>1 DEF ClientView!Refuse
  <2>4. CASE type = "WELCOME"
    <3>1. ClientView!Turn(c, {"greeting", "challenged"}, "open")
      BY <1>1, <1>3, <2>4, StageTurns
    <3> QED
      BY <2>1, <2>4, <3>1 DEF ClientView!Welcome
  <2> QED
    BY <2>2, <2>3, <2>4
<1>6. AnsweredBy(c)' = AnsweredBy(c) /\ AckedLast(c)' = AckedLast(c)
  BY <1>4, ResponsesKept
<1> QED
  BY <1>5, <1>6, AskedStays, AnsweredStays, AckedStays DEF ClientView!Handshake

(* GOODBYE or ABORT to a client that was welcomed.                          *)
LEMMA LeaveStep ==
    ASSUME TypeOK, TypeOK', NEW c \in Conns, Others(c), NEW type,
           out'[c] = Append(out[c], Msg(type, 0)), UNCHANGED <<is_open[c], requests[c]>>,
           Sent(c, {"WELCOME"}) # {},
           \/ type = "GOODBYE" /\ is_open[c]
           \/ type = "ABORT" /\ Sent(c, {"ABORT"}) = {}
    PROVE  ClientView!TakeLeave(c)
<1>1. Stage(c)' = Stage(c) /\ Stage(c) \in {"open", "closed"}
  BY StageKept
<1>2. is_open[c] => Stage(c) = "open"
  BY DEF Stage
<1>3. type \notin Responses
  BY DEF Responses, Final, Acks
<1>4. ClientView!Say(c, type, 0) /\ UNCHANGED [d \in Conns |-> Stage(d)]
  BY <1>1, OutSaid, StageStays
<1>5. type = "GOODBYE" => ClientView!Goodbye(c)
  BY <1>2, <1>4 DEF ClientView!Goodbye
<1>6. type = "ABORT" => ClientView!Abort(c)
  BY <1>1, <1>4 DEF ClientView!Abort, Sent
<1>7. AnsweredBy(c)' = AnsweredBy(c) /\ AckedLast(c)' = AckedLast(c)
  BY <1>3, ResponsesKept
<1> QED
  BY <1>5, <1>6, <1>7, AskedStays, AnsweredStays, AckedStays
     DEF ClientView!TakeLeave

(* An event.                                                                *)
LEMMA NotifyStep ==
    ASSUME TypeOK, TypeOK', NEW c \in Conns, Others(c), NEW id \in SubIds,
           out'[c] = Append(out[c], Msg("EVENT", id)),
           UNCHANGED <<is_open[c], requests[c]>>, Sent(c, {"WELCOME"}) # {}
    PROVE  ClientView!Converse(c)
<1>1. Stage(c)' = Stage(c) /\ Stage(c) \in {"open", "closed"}
  BY StageKept
<1>2. "EVENT" \notin Responses
  BY DEF Responses, Final, Acks
<1>3. AnsweredBy(c)' = AnsweredBy(c) /\ AckedLast(c)' = AckedLast(c)
  BY <1>2, ResponsesKept
<1>4. ClientView!Notify(c)
  BY <1>3, OutSaid, AskedStays, AnsweredStays, AckedStays DEF ClientView!Notify
<1> QED
  BY <1>1, <1>4, StageStays DEF ClientView!Converse

(* A message about a request.                                               *)
LEMMA ReplyStep ==
    ASSUME TypeOK, TypeOK', NEW c \in Conns, Others(c), ControlOK(c), AnswerOK(c),
           NEW type, NEW k, SaysAboutRequest(c, type, k),
           out'[c] = Append(out[c], Msg(type, k)),
           UNCHANGED <<is_open[c], requests[c]>>, Sent(c, {"WELCOME"}) # {}
    PROVE  ClientView!Converse(c)
<1>1. type # "WELCOME" /\ type # "GOODBYE" /\ type \in ToldOf
  BY DEF SaysAboutRequest, Final, ToldOf, Responses, Acks
<1>2. Stage(c)' = Stage(c) /\ Stage(c) \in {"open", "closed"}
  BY <1>1, StageKept
<1>3. /\ k \in DOMAIN requests[c] /\ k \notin Refs(c, Responses)
      /\ type \in Acks => \A i \in Sent(c, ToldOf) : out[c][i].ref <= k
  BY ReplyTo
<1>4. k \in 1..Len(requests[c]) /\ k \in Nat
  <2>1. requests[c] \in Seq(ClientRequests)
    BY FunctionTypes
  <2> QED
    BY <1>3, <2>1
<1>5. Responses = Final \cup {"SUBSCRIBED", "UNSUBSCRIBED"} /\ AnsweredBy(c) = Refs(c, Responses)
  BY DEF AnsweredBy, Responses, Acks
<1>6. k \in ClientView!Unanswered(c)
  BY <1>3, <1>4, <1>5 DEF ClientView!Unanswered, AnsweredBy
<1>7. ClientView!Say(c, type, k)
  BY OutSaid
<1>8. CASE type = "PROGRESS"
  <2>1. type \notin Responses
    BY <1>8 DEF Responses, Final, Acks
  <2>2. AnsweredBy(c)' = AnsweredBy(c) /\ AckedLast(c)' = AckedLast(c)
    BY <2>1, ResponsesKept
  <2>3. ClientView!Progress(c, k)
    BY <1>6, <1>7, <1>8, <2>2, AskedStays, AnsweredStays, AckedStays
       DEF ClientView!Progress
  <2> QED
    BY <1>2, <1>4, <2>3, StageStays DEF ClientView!Converse
<1>9. ASSUME type \in Responses
      PROVE  [d \in Conns |-> AnsweredBy(d)]' =
                [[d \in Conns |-> AnsweredBy(d)] EXCEPT ![c] = @ \cup {k}]
  <2>1. Refs(c, Responses)' = Refs(c, Responses) \cup {k}
    BY <1>9, RefsAppend
  <2>2. AnsweredBy(c)' = AnsweredBy(c) \cup {k}
    BY <1>5, <2>1 DEF AnsweredBy
  <2> QED
    BY <2>2, ViewOfOthers DEF Others
<1>10. CASE type \in Final
  <2>1. type \in Responses /\ type \notin Acks /\ type \in ClientView!Answers
    BY <1>10 DEF Responses, Final, Acks, ClientView!Answers
  <2>2. Refs(c, Acks)' = Refs(c, Acks)
    BY <2>1, RefsAppend
  <2>3. AckedLast(c)' = AckedLast(c)
    BY <2>2 DEF AckedLast, Acks
  <2>4. ClientView!Answer(c, k)
    BY <1>6, <1>7, <1>9, <2>1, <2>3, AskedStays, AckedStays
       DEF ClientView!Answer, AnsweredBy
  <2> QED
    BY <1>2, <1>4, <2>4, StageStays DEF ClientView!Converse
<1>11. CASE type \in Acks
  <2>1. type \in Responses /\ type \in ClientView!Acks
    BY <1>11 DEF Responses, Acks, ClientView!Acks
  <2>2. \A n \in Refs(c, Acks) : n \in Nat /\ n <= k /\ n # k
    <3>1. \A n \in Refs(c, Acks) : n \in Refs(c, Responses)
      BY DEF Refs, Sent, Responses
    <3>2. \A i \in Sent(c, Acks) : i \in Sent(c, ToldOf) /\ out[c][i].ref \in Nat
      BY SentRange DEF Sent, ToldOf, Responses
    <3> QED
      BY <1>3, <1>11, <3>1, <3>2 DEF Refs
  <2>3. AckedLast(c) < k
    <3>1. PICK m \in {0} \cup Refs(c, Acks) : \A n \in Refs(c, Acks) : n <= m
      BY DEF AnswerOK
    <3>2. {0} \cup Refs(c, Acks) \in SUBSET Nat
      BY <2>2
    <3>3. \A n \in {0} \cup Refs(c, Acks) : n <= m
      BY <3>1, <3>2
    <3>4. Max({0} \cup Refs(c, Acks)) = m
      BY <3>1, <3>2, <3>3, MaxIs
    <3> QED
      BY <1>4, <2>2, <3>1, <3>4 DEF AckedLast, Acks
  <2>4. AckedLast(c)' = k
    <3>1. Refs(c, Acks)' = Refs(c, Acks) \cup {k}
      BY <1>11, RefsAppend
    <3>2. {0} \cup Refs(c, Acks) \cup {k} \in SUBSET Nat
      BY <1>4, <2>2
    <3>3. \A n \in {0} \cup Refs(c, Acks) \cup {k} : n <= k
      BY <1>4, <2>2
    <3>4. Max({0} \cup Refs(c, Acks) \cup {k}) = k
      BY <3>2, <3>3, MaxIs
    <3>5. {0} \cup Refs(c, Acks)' = {0} \cup Refs(c, Acks) \cup {k}
      BY <3>1
    <3> QED
      BY <3>4, <3>5 DEF AckedLast, Acks
  <2>5. [d \in Conns |-> AckedLast(d)]' = [[d \in Conns |-> AckedLast(d)] EXCEPT ![c] = k]
    BY <2>4, ViewOfOthers DEF Others
  <2>6. ClientView!Acknowledge(c, k)
    BY <1>4, <1>6, <1>7, <1>9, <2>1, <2>3, <2>5, AskedStays
       DEF ClientView!Acknowledge, AnsweredBy, AckedLast
  <2> QED
    BY <1>2, <1>4, <2>6, StageStays DEF ClientView!Converse
<1> QED
  BY <1>1, <1>8, <1>10, <1>11 DEF ToldOf, Responses

(* Steps that send nothing: a request is read; a session opens or closes.   *)
LEMMA SilentStep ==
    ASSUME TypeOK, TypeOK', NEW c \in Conns, Others(c), HandshakeOK(c), Engages(c),
           UNCHANGED out[c]
    PROVE  ClientView!Next \/ UNCHANGED ClientView!vars
<1>1. /\ UNCHANGED out /\ AnsweredBy(c)' = AnsweredBy(c) /\ AckedLast(c)' = AckedLast(c)
      /\ \A types : Sent(c, types)' = Sent(c, types)
  BY OutStays DEF AnsweredBy, AckedLast, Refs, Sent
<1>2. /\ UNCHANGED [d \in Conns |-> Refs(d, Final \cup {"SUBSCRIBED", "UNSUBSCRIBED"})]
      /\ UNCHANGED [d \in Conns |-> Max({0} \cup Refs(d, {"SUBSCRIBED", "UNSUBSCRIBED"}))]
  BY <1>1, AnsweredStays, AckedStays
<1>3. CASE UNCHANGED is_open[c]
  <2>1. UNCHANGED [d \in Conns |-> Stage(d)]
    <3>1. Stage(c)' = Stage(c)
      BY <1>1, <1>3 DEF Stage
    <3> QED
      BY <3>1, StageStays
  <2>2. CASE UNCHANGED requests[c]
    BY <1>1, <1>2, <2>1, <2>2, AskedStays DEF ClientView!vars
  <2>3. CASE \E r \in ClientRequests : requests'[c] = Append(requests[c], r)
    <3>1. Len(requests'[c]) = Len(requests[c]) + 1
      <4>1. requests[c] \in Seq(ClientRequests)
        BY FunctionTypes
      <4> QED
        BY <2>3, <4>1
    <3>2. [d \in Conns |-> Len(requests[d])]' =
            [[d \in Conns |-> Len(requests[d])] EXCEPT ![c] = @ + 1]
      BY <3>1, ViewOfOthers DEF Others
    <3>3. ClientView!Ask(c)
      BY <1>1, <1>2, <2>1, <3>2 DEF ClientView!Ask
    <3> QED
      BY <3>3 DEF ClientView!Next
  <2> QED
    BY <2>2, <2>3 DEF Engages
<1>4. CASE ~UNCHANGED is_open[c]
  <2>1. UNCHANGED [d \in Conns |-> Len(requests[d])]
    BY <1>4, AskedStays DEF Engages
  <2>2. CASE Stage(c)' = Stage(c)
    BY <1>1, <1>2, <2>1, <2>2, StageStays DEF ClientView!vars
  <2>3. CASE Stage(c)' # Stage(c)
    <3>1. Sent(c, {"WELCOME"}) # {} /\ Sent(c, {"GOODBYE"}) # {}
      BY <1>1, <2>3 DEF Stage
    <3>2. is_open[c]
      <4>1. ASSUME ~is_open[c] PROVE FALSE
        <5>0. is_open[c] \in BOOLEAN /\ is_open'[c] \in BOOLEAN
          BY DEF TypeOK, SessionTypeOK
        <5>1. pc[c] = "welcome"
          BY <1>4, <4>1, <5>0 DEF Engages
        <5>2. Len(out[c]) <= 1
          BY <5>1 DEF HandshakeOK
        <5>3. out[c] \in Seq(Messages)
          BY FunctionTypes
        <5>4. PICK w \in DOMAIN out[c], g \in DOMAIN out[c] :
                out[c][w].type = "WELCOME" /\ out[c][g].type = "GOODBYE"
          BY <3>1 DEF Sent
        <5>5. w = 1 /\ g = 1
          BY <5>2, <5>3, <5>4
        <5> QED
          BY <5>4, <5>5
      <4> QED
        BY <4>1
    <3>3. Stage(c) = "open" /\ Stage(c)' = "closed"
      BY <1>1, <1>4, <3>1, <3>2, FunctionTypes DEF Stage
    <3>4. ClientView!Turn(c, {"open"}, "closed")
      BY <3>3, StageTurns
    <3>5. ClientView!Close(c)
      BY <1>1, <3>4 DEF ClientView!Close
    <3> QED
      BY <1>2, <2>1, <3>5 DEF ClientView!TakeLeave, ClientView!Next
  <2> QED
    BY <2>2, <2>3
<1> QED
  BY <1>3, <1>4

LEMMA OwnConverses ==
    ASSUME TypeOK, TypeOK', CallInv, NEW c \in Conns, Others(c),
           ControlOK(c), HandshakeOK(c), AnswerOK(c), ConnStep(c)
    PROVE  ClientView!Next \/ UNCHANGED ClientView!vars
<1>1. CASE UNCHANGED out[c]
  BY <1>1, OwnEngages, SilentStep
<1>2. CASE Says(c)
  <2>1. PICK type \in MsgTypes, ref \in Nat :
            /\ link[c] = "up" /\ out'[c] = Append(out[c], Msg(type, ref))
            /\ Occasion(c, type, ref)
            /\ UNCHANGED <<is_open[c], requests[c]>>
    BY <1>2 DEF Says
  <2>2. CASE /\ type \in {"CHALLENGE", "WELCOME", "ABORT"} /\ ref = 0
             /\ pc[c] \in {"hello", "pre", "auth", "cra"}
    <3>1. out[c] = <<>>
      BY <2>2 DEF HandshakeOK
    <3>2. ClientView!Handshake(c)
      BY <2>1, <2>2, <3>1, HandshakeStep
    <3> QED
      BY <3>2 DEF ClientView!Next
  <2>3. CASE /\ ref = 0
             /\ \/ type = "GOODBYE" /\ is_open[c]
                \/ type = "ABORT" /\ pc[c] = "loop"
    <3>1. Sent(c, {"WELCOME"}) # {} /\ (type = "ABORT" => Sent(c, {"ABORT"}) = {})
      BY <2>1, <2>3 DEF HandshakeOK, Served, ServingStates
    <3>2. ClientView!TakeLeave(c)
      BY <2>1, <2>3, <3>1, LeaveStep
    <3> QED
      BY <3>2 DEF ClientView!Next
  <2>4. CASE type = "EVENT" /\ \E t \in subscriptions[c] : ref = SubIdOf[t]
    <3>1. subscriptions[c] # {} /\ ref \in SubIds
      BY <2>4, FunctionTypes
    <3>2. Sent(c, {"WELCOME"}) # {}
      BY <2>1, <3>1 DEF HandshakeOK, Served
    <3>3. ClientView!Converse(c)
      BY <2>1, <2>4, <3>1, <3>2, NotifyStep
    <3> QED
      BY <3>3 DEF ClientView!Next
  <2>5. CASE SaysAboutRequest(c, type, ref)
    <3>1. requests[c] # <<>>
      BY <2>5 DEF SaysAboutRequest
    <3>2. Sent(c, {"WELCOME"}) # {}
      BY <2>1, <3>1 DEF HandshakeOK, Served
    <3>3. ClientView!Converse(c)
      BY <2>1, <2>5, <3>2, ReplyStep
    <3> QED
      BY <3>3 DEF ClientView!Next
  <2> QED
    BY <2>1, <2>2, <2>3, <2>4, <2>5 DEF Occasion
<1> QED
  BY <1>1, <1>2, OwnSays

LEMMA StepConverses ==
    ASSUME TypeOK, CallInv, ControlInv, HandshakeInv, AnswerInv, [Next]_vars
    PROVE  [ClientView!Next]_(ClientView!vars)
<1>1. ASSUME NEW c \in Conns, ConnStep(c), \A d \in Conns \ {c} : Same(d)
      PROVE  ClientView!Next \/ UNCHANGED ClientView!vars
  BY <1>1, StepType, OwnConverses
     DEF ControlInv, HandshakeInv, AnswerInv, Others
<1>2. CASE \A c \in Conns : Same(c)
  <2>1. out \in [Conns -> Seq(Messages)] /\ out' \in [Conns -> Seq(Messages)]
    BY StepType DEF TypeOK, ConnectionTypeOK
  <2>2. UNCHANGED out
    BY <1>2, <2>1 DEF Same
  <2>3. \A c \in Conns :
          /\ Stage(c)' = Stage(c) /\ Len(requests'[c]) = Len(requests[c])
          /\ AnsweredBy(c)' = AnsweredBy(c) /\ AckedLast(c)' = AckedLast(c)
    BY <1>2, ViewOfOthers
  <2> QED
    BY <2>2, <2>3 DEF ClientView!vars, AnsweredBy, AckedLast
<1> QED
  BY <1>1, <1>2, StepOfOne

(* The application layer keeps what module Conversation promises a client:  *)
(* whatever its tasks do in whatever order, a conversation is opened or     *)
(* refused once, every request gets one final response at most, and the     *)
(* server takes its leave only of a session that is open.                   *)
THEOREM ConversationIsKept == Spec => ImplementsConversation
<1>1. Init => ClientView!Init
  <2> SUFFICES ASSUME Init PROVE ClientView!Init
    OBVIOUS
  <2>1. /\ out = [c \in Conns |-> <<>>]
        /\ \A c \in Conns : out[c] = <<>> /\ Len(requests[c]) = 0
    BY DEF Init, ConnectionInit
  <2>2. \A c \in Conns : \A types : Sent(c, types) = {} /\ Refs(c, types) = {}
    BY <2>1 DEF Sent, Refs
  <2>3. \A c \in Conns : Stage(c) = "greeting"
    BY <2>2 DEF Stage
  <2>4. Max({0}) = 0
    BY MaxIs
  <2>5. \A c \in Conns :
          /\ Refs(c, Final \cup {"SUBSCRIBED", "UNSUBSCRIBED"}) = {}
          /\ Max({0} \cup Refs(c, {"SUBSCRIBED", "UNSUBSCRIBED"})) = 0
    BY <2>2, <2>4
  <2> QED
    BY <2>1, <2>3, <2>5 DEF ClientView!Init
<1>2. TypeOK /\ CallInv /\ ControlInv /\ HandshakeInv /\ AnswerInv /\ [Next]_vars
        => [ClientView!Next]_(ClientView!vars)
  BY StepConverses
<1> QED
  BY <1>1, <1>2, TypeCorrect, CallInvariant, ControlInvariant,
     HandshakeInvariant, AnswerInvariant, PTL
     DEF Spec, ImplementsConversation, ClientView!Spec
=============================================================================

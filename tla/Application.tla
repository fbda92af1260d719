----------------------------- MODULE Application -----------------------------
(***************************************************************************)
(* The application layer of serverwamp/application.py on the asyncio       *)
(* adapter: the coroutine that serves one connection (`pc'), the tasks it  *)
(* spawns for the client's requests, the session state and subscription    *)
(* iterators that user code provides, the shielded clean-up task and the   *)
(* tasks of Application.close_sessions.  An action is what one coroutine   *)
(* does between two suspensions; user code is a suspension that ends in    *)
(* any way Python lets it end.                                             *)
(***************************************************************************)
EXTENDS Session, FiniteSets

CONSTANTS
    MaxRequests,             \* bound: requests a client makes on a connection
    MaxProgress,             \* bound: progress reports of a call
    MaxEvents,               \* bound: events sent to a session
    ClientRequests,          \* the requests that clients make
    PreHandlers,             \* Realm.session_state_handlers
    AuthedHandlers,          \* Realm.authed_session_state_handlers
    TransportAuthenticators, \* how many transport authenticators the realm has
    CraConfigured,           \* Realm.set_cra_handlers was called
    TicketConfigured,        \* Realm.set_ticket_authenticator was called
    SynchronizeRequests,     \* Application(synchronize_requests=...)
    ServerShutsDown,         \* whether the server calls close_sessions, once
    Faults                   \* what goes wrong besides disconnects: user code
                             \* raises, the client sends what the server cannot
                             \* take, the framework cancels the coroutine

Requests ==
    [kind : {"CALL"}, receive_progress : BOOLEAN]
    \cup [kind : {"GOODBYE"}]
    \cup [kind : {"SUBSCRIBE"}, topic : Topics]
    \cup [kind : {"UNSUBSCRIBE"}, id : SubIds]

ASSUME ApplicationAssumption ==
    /\ MaxRequests \in Nat
    /\ MaxProgress \in Nat
    /\ MaxEvents \in Nat
    /\ ClientRequests \subseteq Requests
    /\ PreHandlers \cap AuthedHandlers = {}
    /\ TransportAuthenticators \in Nat
    /\ CraConfigured \in BOOLEAN
    /\ TicketConfigured \in BOOLEAN
    /\ SynchronizeRequests \in BOOLEAN
    /\ ServerShutsDown \in BOOLEAN
    /\ Faults \subseteq {"user", "malformed", "cancel"}

VARIABLES
    pc,                      \* where the connection's main coroutine waits
    result,                  \* how it leaves: pending, return, raise, or cancel
                             \* once its gather() was cancelled
    auth_methods,            \* what the client offered in HELLO
    tried,                   \* transport authenticators that did not identify it
    active,                  \* _active_sessions
    requests,                \* the requests read, oldest first
    task,                    \* the state of each request's handler
    progressed,              \* progress reports sent for each request
    sub_iter,                \* the iterator of each SUBSCRIBE request
    sub_exits,               \* _subscription_exits: id -> SUBSCRIBE request, 0: none
    state_iter,              \* the iterator of each session state handler
    state_exits,             \* _session_state_exits
    cleanup,                 \* where the clean-up task is
    clean_subs,              \* subscription iterators it has still to exit
    clean_states,            \* state iterators it has still to exit
    closing,                 \* the state of close_sessions
    closer                   \* its task for each session

controlVars == <<pc, result, cleanup>>
authVars == <<auth_methods, tried>>
taskVars == <<requests, task, progressed>>
subVars == <<sub_iter, sub_exits>>
stateVars == <<state_iter, state_exits>>
cleanVars == <<clean_subs, clean_states>>
closerVars == <<closing, closer>>
vars == <<connectionVars, sessionVars, controlVars, authVars, active, taskVars,
          subVars, stateVars, cleanVars, closerVars>>

(* Frames: what no step of a request handler (and many of the main         *)
(* coroutine), of starting and leaving a session, of the clean-up and of    *)
(* close_sessions changes.                                                  *)
handlerFrame == <<link, authVars, active, requests, stateVars, cleanVars, closerVars>>
mainFrame == <<registryVars, progressed, sub_exits, cleanVars, closerVars>>
cleanupFrame == <<connectionVars, sessionVars, pc, result, authVars, taskVars,
                  closerVars>>
closerFrame == <<registryVars, controlVars, authVars, active, taskVars, subVars,
                 stateVars, cleanVars>>

RequestNumbers == 1..MaxRequests
StateHandlers == PreHandlers \cup AuthedHandlers

(* Mutant: unsubscriptions are spawned like calls.                          *)
MutantSpawnUnsubscribe == {"SUBSCRIBE"}

ALWAYS_SYNCHRONIZE == {"SUBSCRIBE", "UNSUBSCRIBE"}

(* The methods a client offers matter as far as the realm can use them.     *)
AuthMethods == {m \in {"wampcra", "ticket"} :
                    \/ m = "wampcra" /\ CraConfigured
                    \/ m = "ticket" /\ TicketConfigured}

MainStates == {"hello", "rejecting", "pre", "auth", "cra", "challenge", "welcome",
               "refused", "authed", "loop", "handling", "aborting", "cleanup",
               "gather", "done"}

LiveTask == {"ready", "running", "progress", "answering", "closing", "entering",
             "exiting", "acking", "stopping", "reporting", "cancelling"}

(* A task that was told to stop: in user code, in the send of a progress    *)
(* report that user code made all the same, or at an await of the library.  *)
ToldTask == {"stopping", "reporting", "cancelling"}
TaskStates == LiveTask \cup {"none", "done", "failed", "cancelled"}
SubIterStates == {"none", "entered", "exiting", "exited", "failed"}
StateIterStates == {"none", "starting", "entering", "entered", "failed",
                    "cancelling", "cancelled", "exited"}
CleanupPhases == {"none", "ready", "subs", "states", "done", "failed"}
CloserStates == {"none", "ready", "closing", "done", "failed", "cancelled"}

ControlTypeOK ==
    /\ pc \in [Conns -> MainStates]
    /\ result \in [Conns -> {"pending", "return", "raise", "cancel"}]
    /\ cleanup \in [Conns -> CleanupPhases]

AuthTypeOK ==
    /\ auth_methods \in [Conns -> SUBSET AuthMethods]
    /\ tried \in [Conns -> 0..TransportAuthenticators]
    /\ active \subseteq Conns

TaskTypeOK ==
    /\ requests \in [Conns -> Seq(ClientRequests)]
    /\ \A c \in Conns : Len(requests[c]) <= MaxRequests
    /\ task \in [Conns -> [RequestNumbers -> TaskStates]]
    /\ progressed \in [Conns -> [RequestNumbers -> 0..MaxProgress]]

IteratorTypeOK ==
    /\ sub_iter \in [Conns -> [RequestNumbers -> SubIterStates]]
    /\ sub_exits \in [Conns -> [SubIds -> 0..MaxRequests]]
    /\ state_iter \in [Conns -> [StateHandlers -> StateIterStates]]
    /\ state_exits \in [Conns -> SUBSET StateHandlers]
    /\ clean_subs \in [Conns -> SUBSET RequestNumbers]
    /\ clean_states \in [Conns -> SUBSET StateHandlers]

CloserTypeOK ==
    /\ closing \in {"idle", "waiting", "done", "raised"}
    /\ closer \in [Conns -> CloserStates]

TypeOK ==
    /\ ConnectionTypeOK
    /\ SessionTypeOK
    /\ ControlTypeOK
    /\ AuthTypeOK
    /\ TaskTypeOK
    /\ IteratorTypeOK
    /\ CloserTypeOK

Init ==
    /\ ConnectionInit
    /\ SessionInit
    /\ pc = [c \in Conns |-> "hello"]
    /\ result = [c \in Conns |-> "pending"]
    /\ auth_methods = [c \in Conns |-> {}]
    /\ tried = [c \in Conns |-> 0]
    /\ active = {}
    /\ requests = [c \in Conns |-> <<>>]
    /\ task = [c \in Conns |-> [k \in RequestNumbers |-> "none"]]
    /\ progressed = [c \in Conns |-> [k \in RequestNumbers |-> 0]]
    /\ sub_iter = [c \in Conns |-> [k \in RequestNumbers |-> "none"]]
    /\ sub_exits = [c \in Conns |-> [i \in SubIds |-> 0]]
    /\ state_iter = [c \in Conns |-> [s \in StateHandlers |-> "none"]]
    /\ state_exits = [c \in Conns |-> {}]
    /\ cleanup = [c \in Conns |-> "none"]
    /\ clean_subs = [c \in Conns |-> {}]
    /\ clean_states = [c \in Conns |-> {}]
    /\ closing = "idle"
    /\ closer = [c \in Conns |-> "none"]

-----------------------------------------------------------------------------
(* How the main coroutine moves: on to a wait, or out of handle_session     *)
(* into the `finally' that starts the clean-up as a task of its own.        *)

Goto(c, label) ==
    /\ pc' = [pc EXCEPT ![c] = label]
    /\ UNCHANGED <<result, cleanup>>

Unwind(c, how) ==
    /\ pc' = [pc EXCEPT ![c] = "cleanup"]
    /\ result' = [result EXCEPT ![c] = how]
    /\ cleanup' = [cleanup EXCEPT ![c] = "ready"]

(* Mutant: the tasks are dropped, not told.                                 *)
MutantForgetTasks(c) == UNCHANGED task

(* Task.cancel() on every task that is not done: it is told to stop, not    *)
(* waited for.  A procedure may go on in user code until that lets it end   *)
(* (see HandlerCancelled); an await of the library raises when next run.    *)
CancelTasks(c) ==
    task' = [task EXCEPT ![c] =
                [k \in RequestNumbers |->
                    IF @[k] \in {"running", "stopping"} THEN "stopping"
                    ELSE IF @[k] \in LiveTask THEN "cancelling" ELSE @[k]]]

(* The end of the task group's block, its `finally' included.               *)

Finish(c, how) ==
    /\ pc' = [pc EXCEPT ![c] = "done"]
    /\ result' = [result EXCEPT ![c] = how]
    /\ CancelTasks(c)
    /\ UNCHANGED cleanup

(* Mutant: the second group's exits replace the first's.                    *)
MutantReplaceExits(c, group, label) ==
    /\ Goto(c, label)
    /\ state_iter' = [state_iter EXCEPT ![c] =
                        [s \in StateHandlers |->
                            IF s \in group THEN "starting" ELSE @[s]]]
    /\ state_exits' = [state_exits EXCEPT ![c] = group]

(* _start_session_state_handlers: one task per handler, each iterator kept  *)
(* for its exit as it is spawned.                                          *)
StartStateHandlers(c, group, label) ==
    /\ Goto(c, label)
    /\ state_iter' = [state_iter EXCEPT ![c] =
                        [s \in StateHandlers |->
                            IF s \in group THEN "starting" ELSE @[s]]]
    /\ state_exits' = [state_exits EXCEPT ![c] = @ \cup group]

(* Realm.default_auth_handler, from the n-th transport authenticator on.    *)
(* request_cra_auth returns None, so verify_cra_response raises; sessions   *)
(* have no request_ticket_auth, so asking for a ticket raises.              *)
AuthenticateFrom(c, n, methods) ==
    \/ /\ n < TransportAuthenticators
       /\ Goto(c, "auth")
       /\ tried' = [tried EXCEPT ![c] = n]
       /\ UNCHANGED <<out, openVars>>
    \/ /\ n = TransportAuthenticators
       /\ "wampcra" \in methods
       /\ Goto(c, "cra")
       /\ UNCHANGED <<out, openVars, tried>>
    \/ /\ n = TransportAuthenticators
       /\ "wampcra" \notin methods /\ "ticket" \in methods
       /\ Unwind(c, "raise")
       /\ UNCHANGED <<out, openVars, tried>>
    \/ /\ n = TransportAuthenticators
       /\ methods = {}
       /\ SendAbort(c)
       /\ Goto(c, "refused")
       /\ UNCHANGED <<openVars, tried>>

AuthConfigured == TransportAuthenticators > 0 \/ CraConfigured \/ TicketConfigured

Authenticate(c, methods) ==
    \/ /\ ~AuthConfigured
       /\ MarkAuthenticated(c)
       /\ Goto(c, "welcome")
       /\ UNCHANGED tried
    \/ /\ AuthConfigured
       /\ AuthenticateFrom(c, 0, methods)

-----------------------------------------------------------------------------
(* handle_connection: the first message.                                    *)

(* HELLO for a realm the server has.                                        *)
ReceiveHello(c) ==
    /\ pc[c] = "hello"
    /\ active' = active \cup {c}
    /\ \E methods \in SUBSET AuthMethods :
        /\ auth_methods' = [auth_methods EXCEPT ![c] = methods]
        /\ \/ /\ PreHandlers = {}
              /\ Authenticate(c, methods)
              /\ UNCHANGED stateVars
           \/ /\ PreHandlers # {}
              /\ StartStateHandlers(c, PreHandlers, "pre")
              /\ UNCHANGED <<out, openVars, tried>>
    /\ UNCHANGED <<mainFrame, link, requests, task, sub_iter>>

(* Unparsable, not a HELLO, or a HELLO for a realm the server lacks.        *)
RejectFirst(c) ==
    /\ "malformed" \in Faults
    /\ pc[c] = "hello"
    /\ SendAbort(c)
    /\ Goto(c, "rejecting")
    /\ UNCHANGED <<handlerFrame, sessionVars, subVars, task, progressed>>

(* Connection.abort's `finally' closes the transport however the send ends. *)
Rejected(c) ==
    /\ pc[c] = "rejecting"
    /\ CloseLink(c)
    /\ \/ Finish(c, "return")
       \/ (SendRaises(c) \/ "cancel" \in Faults) /\ Finish(c, "raise")
    /\ UNCHANGED <<mainFrame, openVars, authVars, stateVars, out, active,
                   requests, sub_iter>>

(* The connection closed instead of saying hello, the message was too short *)
(* to take apart, or the wait was cancelled.                                *)
LeaveBeforeSession(c) ==
    /\ pc[c] = "hello"
    /\ \/ /\ link[c] = "down"
          /\ Finish(c, "return")
       \/ /\ Faults \cap {"malformed", "cancel"} # {}
          /\ Finish(c, "raise")
    /\ UNCHANGED <<handlerFrame, sessionVars, subVars, out, progressed>>

-----------------------------------------------------------------------------
(* handle_session: state handlers and authentication.                       *)

Group(c) == IF pc[c] = "pre" THEN PreHandlers ELSE AuthedHandlers

(* The first part of a state handler: it is scheduled, then reaches its     *)
(* yield or raises; cancelled while it runs, it ends when user code lets it. *)
StateHandlerStep(c, s) ==
    /\ \E step \in {<<"starting", "entering">>, <<"entering", "entered">>,
                    <<"entering", "failed">>, <<"cancelling", "cancelled">>} :
        /\ state_iter[c][s] = step[1]
        /\ step[2] = "failed" => "user" \in Faults
        /\ state_iter' = [state_iter EXCEPT ![c][s] = step[2]]
    /\ UNCHANGED <<cleanupFrame, subVars, cleanVars, cleanup, active,
                   state_exits>>

StateHandlersStarted(c) ==
    /\ pc[c] \in {"pre", "authed"}
    /\ \A s \in Group(c) : state_iter[c][s] = "entered"
    /\ \/ /\ pc[c] = "pre"
          /\ Authenticate(c, auth_methods[c])
       \/ /\ pc[c] = "authed"
          /\ Goto(c, "loop")
          /\ UNCHANGED <<out, openVars, tried>>
    /\ UNCHANGED <<mainFrame, stateVars, link, auth_methods, active, requests,
                   task, sub_iter>>

(* A cancelled task that never ran never starts its iterator.               *)
CancelStarts(c) ==
    state_iter' = [state_iter EXCEPT ![c] =
                    [s \in StateHandlers |->
                        IF @[s] = "starting" THEN "cancelled"
                        ELSE IF @[s] = "entering" THEN "cancelling" ELSE @[s]]]

(* gather() raises at the first handler that failed or was cancelled; the   *)
(* group then cancels the others and does not wait for them.                *)
StateHandlersFailed(c) ==
    /\ pc[c] \in {"pre", "authed"}
    /\ \E s \in Group(c) : state_iter[c][s] \in {"failed", "cancelled"}
    /\ CancelStarts(c)
    /\ Unwind(c, "raise")
    /\ UNCHANGED <<mainFrame, connectionVars, openVars, authVars, active,
                   requests, task, sub_iter, state_exits>>

(* The user's authenticator identifies the client, or does not, or raises.  *)
TransportAuthenticated(c) ==
    /\ pc[c] = "auth"
    /\ \/ /\ MarkAuthenticated(c)
          /\ Goto(c, "welcome")
          /\ UNCHANGED tried
       \/ AuthenticateFrom(c, tried[c] + 1, auth_methods[c])
       \/ /\ "user" \in Faults
          /\ Unwind(c, "raise")
          /\ UNCHANGED <<out, openVars, tried>>
    /\ UNCHANGED <<mainFrame, stateVars, link, auth_methods, active, requests,
                   task, sub_iter>>

(* The user's CRA requirement is there: the challenge goes out.             *)
Challenge(c) ==
    /\ pc[c] = "cra"
    /\ SendChallenge(c)
    /\ Goto(c, "challenge")
    /\ UNCHANGED <<handlerFrame, sessionVars, subVars, task, progressed>>

(* WELCOME went out: the session is open, whoever closed it meanwhile.      *)
Welcomed(c) ==
    /\ pc[c] = "welcome"
    /\ MarkOpen(c)
    /\ \/ /\ AuthedHandlers = {}
          /\ Goto(c, "loop")
          /\ UNCHANGED stateVars
       \/ /\ AuthedHandlers # {}
          /\ StartStateHandlers(c, AuthedHandlers, "authed")
    /\ UNCHANGED <<mainFrame, connectionVars, authVars, active, requests, task,
                   sub_iter>>

(* Mutant: handle_session goes on with a session that was refused.          *)
MutantServeRefused(c) ==
    /\ pc[c] = "refused"
    /\ MarkAborted(c)
    /\ Goto(c, "loop")
    /\ UNCHANGED <<handlerFrame, registryVars, subVars, out, task, progressed>>

(* session.abort() returns, and handle_session with it: not open.           *)
Refused(c) ==
    /\ pc[c] = "refused"
    /\ MarkAborted(c)
    /\ Unwind(c, "return")
    /\ UNCHANGED <<handlerFrame, registryVars, subVars, out, task, progressed>>

(* The ways an await of handle_session raises: the answer to a challenge is *)
(* None; the user's CRA provider fails; a send fails.                       *)
SessionRaises(c) ==
    /\ \/ pc[c] = "challenge"
       \/ (pc[c] = "cra" /\ "user" \in Faults)
       \/ (pc[c] \in {"welcome", "refused"} /\ SendRaises(c))
    /\ Unwind(c, "raise")
    /\ UNCHANGED <<handlerFrame, sessionVars, subVars, out, task, progressed>>

-----------------------------------------------------------------------------
(* _process_protocol_msgs.                                                  *)

(* Mutant: synchronize_requests is ignored.                                 *)
MutantNeverSynchronize(r) == r.kind \in ALWAYS_SYNCHRONIZE

IsInline(r) == SynchronizeRequests \/ r.kind \in ALWAYS_SYNCHRONIZE

(* The next request is read and its handler started: in the main coroutine, *)
(* which then waits for it, or as a task of the session.                    *)
Receive(c) ==
    /\ pc[c] = "loop"
    /\ Len(requests[c]) < MaxRequests
    /\ \E r \in ClientRequests :
        /\ requests' = [requests EXCEPT ![c] = Append(@, r)]
        /\ Goto(c, IF IsInline(r) THEN "handling" ELSE "loop")
    /\ task' = [task EXCEPT ![c][Len(requests[c]) + 1] = "ready"]
    /\ UNCHANGED <<mainFrame, connectionVars, openVars, authVars, stateVars,
                   active, sub_iter>>

(* A message that does not parse: Connection.abort, then the loop returns.  *)
ReceiveUnparsable(c) ==
    /\ "malformed" \in Faults
    /\ pc[c] = "loop"
    /\ SendAbort(c)
    /\ Goto(c, "aborting")
    /\ UNCHANGED <<handlerFrame, sessionVars, subVars, task, progressed>>

(* The abort's `finally' closes the transport; the send may have failed.    *)
Aborted(c) ==
    /\ pc[c] = "aborting"
    /\ CloseLink(c)
    /\ \/ Unwind(c, "return")
       \/ SendRaises(c) /\ Unwind(c, "raise")
    /\ UNCHANGED <<mainFrame, openVars, authVars, stateVars, out, active,
                   requests, task, sub_iter>>

(* The loop ends: the client is gone, or the message has no handler (a      *)
(* second HELLO) or is too short to take apart, which raises.               *)
LeaveLoop(c) ==
    /\ pc[c] = "loop"
    /\ \/ link[c] = "down" /\ Unwind(c, "return")
       \/ "malformed" \in Faults /\ Unwind(c, "raise")
    /\ UNCHANGED <<handlerFrame, sessionVars, subVars, out, task, progressed>>

-----------------------------------------------------------------------------
(* The handlers of single requests.  A handler that returns gives an inline *)
(* caller back to the loop; one that raises ends the connection if inline,  *)
(* and otherwise is noticed only by the gather() at the connection's end.   *)

Handling(c, k, kind, states) ==
    /\ k \in DOMAIN requests[c]
    /\ requests[c][k].kind = kind
    /\ task[c][k] \in states

HandlerWaits(c, k, state) ==
    /\ task' = [task EXCEPT ![c][k] = state]
    /\ UNCHANGED controlVars

HandlerReturns(c, k) ==
    /\ task' = [task EXCEPT ![c][k] = "done"]
    /\ pc' = [pc EXCEPT ![c] = IF IsInline(requests[c][k]) THEN "loop" ELSE @]
    /\ UNCHANGED <<result, cleanup>>

HandlerRaises(c, k) ==
    /\ task' = [task EXCEPT ![c][k] = "failed"]
    /\ \/ /\ IsInline(requests[c][k])
          /\ Unwind(c, "raise")
       \/ /\ ~IsInline(requests[c][k])
          /\ result' = [result EXCEPT ![c] = IF pc[c] = "gather" THEN "raise" ELSE @]
          /\ UNCHANGED <<pc, cleanup>>

(* default_protocol_rpc_handler: the procedure is called.                   *)
CallStart(c, k) ==
    /\ Handling(c, k, "CALL", {"ready"})
    /\ HandlerWaits(c, k, "running")
    /\ UNCHANGED <<handlerFrame, sessionVars, subVars, out, progressed>>

(* A progress report goes out, asked for or not.  A procedure that was told *)
(* to stop may make one too, if it catches the cancellation.                *)
CallProgress(c, k) ==
    /\ Handling(c, k, "CALL", {"running", "stopping"})
    /\ progressed[c][k] < MaxProgress
    /\ progressed' = [progressed EXCEPT ![c][k] = @ + 1]
    /\ SendMsg(c, Msg("PROGRESS", k))
    /\ HandlerWaits(c, k, IF task[c][k] = "running" THEN "progress" ELSE "reporting")
    /\ UNCHANGED <<handlerFrame, sessionVars, subVars>>

Answer(c, k, type) ==
    /\ Handling(c, k, "CALL", {"running", "stopping"})
    /\ SendMsg(c, Msg(type, k))
    /\ HandlerWaits(c, k, "answering")
    /\ UNCHANGED <<handlerFrame, sessionVars, subVars, progressed>>

(* The procedure returned or yielded anything but a progress report, its    *)
(* final result or error, or it raised: an error too, and before Python 3.8 *)
(* `except Exception' takes a cancellation for one.                         *)
CallAnswer(c, k) == \E type \in {"RESULT", "ERROR"} : Answer(c, k, type)

(* Mutant: a generator that ends after progress reports is not answered.    *)
MutantSilentProcedure(c, k) ==
    \/ progressed[c][k] = 0 /\ Answer(c, k, "ERROR")
    \/ /\ progressed[c][k] > 0
       /\ Handling(c, k, "CALL", {"running", "stopping"})
       /\ HandlerReturns(c, k)
       /\ UNCHANGED <<handlerFrame, sessionVars, subVars, out, progressed>>

(* A generator ends without anything final.  If it never yielded, that is   *)
(* an error; after progress reports (yielded_anything) the handler goes on  *)
(* to await the generator itself, a TypeError, which it answers as one.     *)
CallExhausted(c, k) ==
    \/ progressed[c][k] = 0 /\ Answer(c, k, "ERROR")
    \/ progressed[c][k] > 0 /\ Answer(c, k, "ERROR")

(* A call in partition mode without an rkey, or a result that does not      *)
(* serialise: the handler itself raises and the call is never answered.     *)
CallRaises(c, k) ==
    /\ Faults \cap {"user", "malformed"} # {}
    /\ Handling(c, k, "CALL", {"ready", "running", "stopping"})
    /\ HandlerRaises(c, k)
    /\ UNCHANGED <<handlerFrame, sessionVars, subVars, out, progressed>>

(* default_protocol_goodbye_handler: session.close().                       *)
GoodbyeStart(c, k) ==
    /\ Handling(c, k, "GOODBYE", {"ready"})
    /\ \/ /\ SendGoodbye(c)
          /\ HandlerWaits(c, k, "closing")
       \/ /\ ~SaysGoodbye(c)
          /\ MarkClosed(c)
          /\ HandlerReturns(c, k)
          /\ UNCHANGED out
    /\ UNCHANGED <<handlerFrame, registryVars, subVars, progressed>>

GoodbyeSent(c, k) ==
    /\ Handling(c, k, "GOODBYE", {"closing"})
    /\ MarkClosed(c)
    /\ HandlerReturns(c, k)
    /\ UNCHANGED <<handlerFrame, registryVars, subVars, out, progressed>>

(* default_protocol_subscribe_handler: registered before the user's handler *)
(* runs, so events may go out before SUBSCRIBED.                            *)
SubscribeStart(c, k) ==
    /\ Handling(c, k, "SUBSCRIBE", {"ready"})
    /\ RegisterSubscription(c, requests[c][k].topic)
    /\ HandlerWaits(c, k, "entering")
    /\ UNCHANGED <<handlerFrame, openVars, subVars, out, progressed>>

SubscribeEntered(c, k) ==
    /\ Handling(c, k, "SUBSCRIBE", {"entering"})
    /\ sub_iter' = [sub_iter EXCEPT ![c][k] = "entered"]
    /\ sub_exits' = [sub_exits EXCEPT ![c][SubIdOf[requests[c][k].topic]] = k]
    /\ SendMsg(c, Msg("SUBSCRIBED", k))
    /\ HandlerWaits(c, k, "acking")
    /\ UNCHANGED <<handlerFrame, sessionVars, progressed>>

(* No route for the topic, not an async generator, or user code raised.     *)
SubscribeRaises(c, k) ==
    /\ "user" \in Faults
    /\ Handling(c, k, "SUBSCRIBE", {"entering"})
    /\ sub_iter' = [sub_iter EXCEPT ![c][k] = "failed"]
    /\ HandlerRaises(c, k)
    /\ UNCHANGED <<handlerFrame, sessionVars, out, progressed, sub_exits>>

(* default_protocol_unsubscribe_handler: the exit is popped, then run.      *)
UnsubscribeStart(c, k) ==
    /\ Handling(c, k, "UNSUBSCRIBE", {"ready"})
    /\ LET i == requests[c][k].id
           j == sub_exits[c][i] IN
        /\ j # 0
        /\ sub_exits' = [sub_exits EXCEPT ![c][i] = 0]
        /\ sub_iter' = [sub_iter EXCEPT ![c][j] = "exiting"]
    /\ HandlerWaits(c, k, "exiting")
    /\ UNCHANGED <<handlerFrame, sessionVars, out, progressed>>

(* No exit under that id: KeyError, which ends the connection.              *)
UnsubscribeUnknown(c, k) ==
    /\ Handling(c, k, "UNSUBSCRIBE", {"ready"})
    /\ sub_exits[c][requests[c][k].id] = 0
    /\ HandlerRaises(c, k)
    /\ UNCHANGED <<handlerFrame, sessionVars, subVars, out, progressed>>

SubIterEnds(c, state) ==
    \E j \in RequestNumbers :
        /\ sub_iter[c][j] = "exiting"
        /\ sub_iter' = [sub_iter EXCEPT ![c][j] = state]

UnsubscribeExited(c, k) ==
    /\ Handling(c, k, "UNSUBSCRIBE", {"exiting"})
    /\ SubIterEnds(c, "exited")
    /\ LET i == requests[c][k].id IN
        /\ UnregisterSubscription(c, i)
        /\ SendMsg(c, Msg(IF subscription_ids[c][i] \in FalsyTopics
                          THEN "ERROR" ELSE "UNSUBSCRIBED", k))
    /\ HandlerWaits(c, k, "acking")
    /\ UNCHANGED <<handlerFrame, openVars, progressed, sub_exits>>

UnsubscribeRaises(c, k) ==
    /\ "user" \in Faults
    /\ Handling(c, k, "UNSUBSCRIBE", {"exiting"})
    /\ SubIterEnds(c, "failed")
    /\ HandlerRaises(c, k)
    /\ UNCHANGED <<handlerFrame, sessionVars, out, progressed, sub_exits>>

(* Mutants: the procedure is resumed after its final result; or never after *)
(* a progress report.                                                       *)
MutantAnswerAgain(c, k) ==
    /\ \/ task[c][k] \in {"progress", "answering"} /\ HandlerWaits(c, k, "running")
       \/ task[c][k] = "reporting" /\ HandlerWaits(c, k, "stopping")
       \/ task[c][k] \in {"answering", "acking"} /\ HandlerReturns(c, k)
    /\ UNCHANGED <<handlerFrame, sessionVars, subVars, out, progressed>>

MutantStuckProgress(c, k) ==
    /\ task[c][k] \in {"answering", "acking"} /\ HandlerReturns(c, k)
    /\ UNCHANGED <<handlerFrame, sessionVars, subVars, out, progressed>>

(* A send that a handler awaited is through: a progress report goes back to *)
(* the procedure, an answer or an acknowledgement is the handler's end.     *)
HandlerSent(c, k) ==
    /\ \/ task[c][k] = "progress" /\ HandlerWaits(c, k, "running")
       \/ task[c][k] = "reporting" /\ HandlerWaits(c, k, "stopping")
       \/ task[c][k] \in {"answering", "acking"} /\ HandlerReturns(c, k)
    /\ UNCHANGED <<handlerFrame, sessionVars, subVars, out, progressed>>

HandlerSendRaises(c, k) ==
    /\ SendRaises(c)
    /\ task[c][k] \in {"progress", "reporting", "answering", "closing", "acking"}
    /\ HandlerRaises(c, k)
    /\ UNCHANGED <<handlerFrame, sessionVars, subVars, out, progressed>>

(* The CancelledError comes out of a task that was told to stop.  A task    *)
(* gather() still waits for ends the wait with it.                          *)
HandlerCancelled(c, k) ==
    /\ task[c][k] \in {"stopping", "cancelling"}
    /\ task' = [task EXCEPT ![c][k] = "cancelled"]
    /\ result' = [result EXCEPT ![c] = IF pc[c] = "gather" THEN "raise" ELSE @]
    /\ UNCHANGED <<handlerFrame, sessionVars, subVars, out, progressed, pc, cleanup>>

-----------------------------------------------------------------------------
(* _clean_up_session, a task of its own behind asyncio.shield.              *)

(* Mutant: the values include the ids without an exit.                      *)
MutantExitsOfAll(c) == {sub_exits[c][i] : i \in SubIds}

ExitsOf(c) == {sub_exits[c][i] : i \in SubIds} \ {0}

(* Mutant: the session stays among the active ones.                         *)
MutantStayActive(c) == UNCHANGED active

Deactivate(c) == active' = active \ {c}

CleanupBegins(c) ==
    /\ cleanup[c] = "ready"
    /\ cleanup' = [cleanup EXCEPT ![c] = "subs"]
    /\ Deactivate(c)
    /\ clean_subs' = [clean_subs EXCEPT ![c] = ExitsOf(c)]
    /\ sub_exits' = [sub_exits EXCEPT ![c] = [i \in SubIds |-> 0]]
    /\ UNCHANGED <<cleanupFrame, stateVars, sub_iter, clean_states>>

(* One subscription's second part, to its end or to an exception that       *)
(* leaves everything after it undone.                                       *)
CleanupSubscription(c, j) ==
    /\ cleanup[c] = "subs"
    /\ j \in clean_subs[c]
    /\ clean_subs' = [clean_subs EXCEPT ![c] = @ \ {j}]
    /\ \/ /\ sub_iter' = [sub_iter EXCEPT ![c][j] = "exited"]
          /\ UNCHANGED cleanup
       \/ /\ "user" \in Faults
          /\ sub_iter' = [sub_iter EXCEPT ![c][j] = "failed"]
          /\ cleanup' = [cleanup EXCEPT ![c] = "failed"]
    /\ UNCHANGED <<cleanupFrame, stateVars, active, sub_exits, clean_states>>

(* Mutant: the state handlers do not wait for the subscriptions' exits.     *)
MutantStatesFirst(c) ==
    /\ cleanup[c] = "subs"
    /\ cleanup' = [cleanup EXCEPT ![c] = "states"]
    /\ clean_states' = [clean_states EXCEPT ![c] = state_exits[c]]
    /\ state_exits' = [state_exits EXCEPT ![c] = {}]
    /\ UNCHANGED <<cleanupFrame, subVars, active, state_iter, clean_subs>>

CleanupTurnsToStates(c) ==
    /\ cleanup[c] = "subs"
    /\ clean_subs[c] = {}
    /\ cleanup' = [cleanup EXCEPT ![c] = "states"]
    /\ clean_states' = [clean_states EXCEPT ![c] = state_exits[c]]
    /\ state_exits' = [state_exits EXCEPT ![c] = {}]
    /\ UNCHANGED <<cleanupFrame, subVars, active, state_iter, clean_subs>>

(* One state handler's second part.  An iterator that already ended has     *)
(* none; one that a cancelled start still runs raises "already running".    *)
CleanupState(c, s) ==
    /\ cleanup[c] = "states"
    /\ s \in clean_states[c]
    /\ clean_states' = [clean_states EXCEPT ![c] = @ \ {s}]
    /\ \/ /\ state_iter[c][s] = "entered"
          /\ state_iter' = [state_iter EXCEPT ![c][s] = "exited"]
          /\ UNCHANGED cleanup
       \/ /\ state_iter[c][s] = "entered" /\ "user" \in Faults
          /\ state_iter' = [state_iter EXCEPT ![c][s] = "failed"]
          /\ cleanup' = [cleanup EXCEPT ![c] = "failed"]
       \/ /\ state_iter[c][s] \in {"failed", "cancelled"}
          /\ UNCHANGED <<state_iter, cleanup>>
       \/ /\ state_iter[c][s] = "cancelling"
          /\ cleanup' = [cleanup EXCEPT ![c] = "failed"]
          /\ UNCHANGED state_iter
    /\ UNCHANGED <<cleanupFrame, subVars, active, state_exits, clean_subs>>

CleanupEnds(c) ==
    /\ cleanup[c] = "states"
    /\ clean_states[c] = {}
    /\ cleanup' = [cleanup EXCEPT ![c] = "done"]
    /\ UNCHANGED <<cleanupFrame, subVars, stateVars, cleanVars, active>>

(* Mutant: an exception of the clean-up is lost behind the shield.          *)
MutantLoseCleanupFailure(c) ==
    /\ pc[c] = "cleanup"
    /\ cleanup[c] \in {"done", "failed"}
    /\ \/ /\ result[c] = "return"
          /\ Goto(c, "gather")
          /\ UNCHANGED task
       \/ /\ result[c] = "raise"
          /\ Finish(c, "raise")
    /\ UNCHANGED <<handlerFrame, sessionVars, subVars, out, progressed>>

(* The shield returns or raises what the clean-up did; the session's task   *)
(* group then waits for the tasks left, or cancels them on an exception.    *)
CleanedUp(c) ==
    /\ pc[c] = "cleanup"
    /\ \/ /\ cleanup[c] = "done" /\ result[c] = "return"
          /\ Goto(c, "gather")
          /\ UNCHANGED task
       \/ /\ \/ cleanup[c] = "failed"
             \/ cleanup[c] = "done" /\ result[c] = "raise"
          /\ Finish(c, "raise")
    /\ UNCHANGED <<handlerFrame, sessionVars, subVars, out, progressed>>

GatheredResult(c) == IF result[c] = "return" THEN "return" ELSE "raise"

(* Mutant: the group cancels its tasks without waiting for them.            *)
MutantNoGather(c) ==
    /\ pc[c] = "gather"
    /\ Finish(c, GatheredResult(c))
    /\ UNCHANGED <<handlerFrame, sessionVars, subVars, out, progressed>>

(* gather() raises at the first task that failed or was cancelled, else it  *)
(* ends with the last; then it raises if it was cancelled itself.           *)
Gathered(c) ==
    /\ pc[c] = "gather"
    /\ \/ result[c] = "raise"
       \/ \A k \in RequestNumbers : task[c][k] \notin LiveTask
    /\ Finish(c, GatheredResult(c))
    /\ UNCHANGED <<handlerFrame, sessionVars, subVars, out, progressed>>

-----------------------------------------------------------------------------
(* The web framework cancels the coroutine that serves the connection: the  *)
(* CancelledError is raised at whatever it awaits.  User code it awaits     *)
(* directly may hold the error back: that is a cancellation which comes     *)
(* later, and code that swallows it, none.                                  *)

(* While state handlers start, gather() passes the cancellation on to them. *)
CancelStartingHandlers(c) ==
    /\ pc[c] \in {"pre", "authed"}
    /\ \/ /\ \E s \in Group(c) : state_iter[c][s] \in {"starting", "entering"}
          /\ CancelStarts(c)
          /\ UNCHANGED controlVars
       \/ /\ \A s \in Group(c) : state_iter[c][s] = "entered"
          /\ Unwind(c, "raise")
          /\ UNCHANGED state_iter
    /\ UNCHANGED <<mainFrame, connectionVars, openVars, authVars, active,
                   requests, task, sub_iter, state_exits>>

CancelSession(c) ==
    /\ pc[c] \in {"auth", "cra", "challenge", "welcome", "refused", "loop"}
    /\ Unwind(c, "raise")
    /\ UNCHANGED <<handlerFrame, sessionVars, subVars, out, task, progressed>>

(* In an inline handler; a subscription iterator it was in is then over.    *)
CancelInline(c) ==
    LET k == Len(requests[c]) IN
    /\ pc[c] = "handling"
    /\ task[c][k] # "ready"
    /\ task' = [task EXCEPT ![c][k] = "cancelled"]
    /\ sub_iter' = [sub_iter EXCEPT ![c] =
                        [j \in RequestNumbers |->
                            IF @[j] = "exiting" \/ (j = k /\ task[c][k] = "entering")
                            THEN "failed" ELSE @[j]]]
    /\ Unwind(c, "raise")
    /\ UNCHANGED <<handlerFrame, sessionVars, out, progressed, sub_exits>>

(* In Connection.abort: its `finally' still closes the transport.           *)
CancelAbort(c) ==
    /\ pc[c] = "aborting"
    /\ CloseLink(c)
    /\ Unwind(c, "raise")
    /\ UNCHANGED <<mainFrame, openVars, authVars, stateVars, out, active,
                   requests, task, sub_iter>>

(* Behind the shield the clean-up goes on without the coroutine.            *)
CancelShielded(c) ==
    /\ pc[c] = "cleanup"
    /\ Finish(c, "raise")
    /\ UNCHANGED <<handlerFrame, sessionVars, subVars, out, progressed>>

(* In the gather(): it passes the cancellation on to the tasks it waits for *)
(* and goes on waiting for the first that ends with it.                     *)
CancelGather(c) ==
    /\ pc[c] = "gather"
    /\ \/ /\ \E k \in RequestNumbers : task[c][k] \in LiveTask
          /\ result[c] # "raise"
          /\ CancelTasks(c)
          /\ result' = [result EXCEPT ![c] = "cancel"]
          /\ UNCHANGED <<pc, cleanup>>
       \/ /\ \A k \in RequestNumbers : task[c][k] \notin LiveTask
          /\ Finish(c, "raise")
    /\ UNCHANGED <<handlerFrame, sessionVars, subVars, out, progressed>>

(* Once its handler is done, the framework closes the transport.            *)
FrameworkClose(c) ==
    /\ pc[c] = "done"
    /\ link[c] = "up"
    /\ CloseLink(c)
    /\ UNCHANGED <<closerFrame, openVars, closerVars, out>>

Disconnects(c) ==
    /\ Disconnect(c)
    /\ UNCHANGED <<closerFrame, openVars, closerVars>>

(* User code anywhere in the program sends the session an event.            *)
Publish(c, t) ==
    /\ Cardinality(Sent(c, {"EVENT"})) < MaxEvents
    /\ link[c] = "up"
    /\ SendEvent(c, t)
    /\ UNCHANGED <<closerFrame, openVars, closerVars, link>>

-----------------------------------------------------------------------------
(* close_sessions, called once: a task per active session, then gather().   *)

CloseSessions ==
    /\ ServerShutsDown /\ closing = "idle"
    /\ closing' = "waiting"
    /\ closer' = [c \in Conns |-> IF c \in active THEN "ready" ELSE "none"]
    /\ UNCHANGED <<closerFrame, connectionVars, openVars>>

CloserStart(c) ==
    /\ closer[c] = "ready"
    /\ \/ /\ SendGoodbye(c)
          /\ closer' = [closer EXCEPT ![c] = "closing"]
       \/ /\ ~SaysGoodbye(c)
          /\ MarkClosed(c)
          /\ closer' = [closer EXCEPT ![c] = "done"]
          /\ UNCHANGED out
    /\ UNCHANGED <<closerFrame, link, closing>>

CloserSent(c) ==
    /\ closer[c] = "closing"
    /\ \/ /\ MarkClosed(c)
          /\ closer' = [closer EXCEPT ![c] = "done"]
       \/ /\ SendRaises(c)
          /\ closer' = [closer EXCEPT ![c] = "failed"]
          /\ UNCHANGED openVars
    /\ UNCHANGED <<closerFrame, connectionVars, closing>>

(* gather() returns when all are through and raises at the first failure;   *)
(* the group then cancels the others, their GOODBYE unsent or unrecorded:   *)
(* close() awaits no user code, so a task told to stop does nothing more.   *)
CloseSessionsEnds ==
    /\ closing = "waiting"
    /\ \/ /\ \A c \in Conns : closer[c] \in {"none", "done"}
          /\ closing' = "done"
          /\ UNCHANGED closer
       \/ /\ \E c \in Conns : closer[c] = "failed"
          /\ closing' = "raised"
          /\ closer' = [c \in Conns |-> IF closer[c] \in {"ready", "closing"}
                                        THEN "cancelled" ELSE closer[c]]
    /\ UNCHANGED <<closerFrame, connectionVars, openVars>>

-----------------------------------------------------------------------------
(* What the server does by itself, user code included.                      *)

HandlerStep(c, k) ==
    \/ CallStart(c, k)      \/ CallProgress(c, k)      \/ CallAnswer(c, k)
    \/ CallExhausted(c, k)  \/ CallRaises(c, k)
    \/ GoodbyeStart(c, k)   \/ GoodbyeSent(c, k)
    \/ SubscribeStart(c, k) \/ SubscribeEntered(c, k)  \/ SubscribeRaises(c, k)
    \/ UnsubscribeStart(c, k)  \/ UnsubscribeUnknown(c, k)
    \/ UnsubscribeExited(c, k) \/ UnsubscribeRaises(c, k)
    \/ HandlerSent(c, k)    \/ HandlerSendRaises(c, k)   \/ HandlerCancelled(c, k)

SessionStep(c) ==
    \/ Rejected(c)             \/ StateHandlersStarted(c) \/ StateHandlersFailed(c)
    \/ TransportAuthenticated(c) \/ Challenge(c)          \/ Welcomed(c)
    \/ Refused(c)              \/ SessionRaises(c)        \/ Aborted(c)
    \/ CleanedUp(c)            \/ Gathered(c)             \/ FrameworkClose(c)

CleanupStep(c) ==
    \/ CleanupBegins(c)
    \/ \E j \in RequestNumbers : CleanupSubscription(c, j)
    \/ CleanupTurnsToStates(c)
    \/ \E s \in StateHandlers : CleanupState(c, s)
    \/ CleanupEnds(c)

CloserStep(c) == CloserStart(c) \/ CloserSent(c)

(* What clients send, and how their connections end.                        *)
Client(c) ==
    \/ ReceiveHello(c) \/ RejectFirst(c)       \/ LeaveBeforeSession(c)
    \/ Receive(c)      \/ ReceiveUnparsable(c) \/ LeaveLoop(c)
    \/ Disconnects(c)

Cancel(c) ==
    /\ "cancel" \in Faults
    /\ \/ CancelStartingHandlers(c) \/ CancelSession(c) \/ CancelInline(c)
       \/ CancelAbort(c)            \/ CancelShielded(c) \/ CancelGather(c)

(* Everything has ended; a stop anywhere else is a deadlock.                *)
Terminated ==
    /\ \A c \in Conns : pc[c] = "done" /\ link[c] = "down"
                        /\ cleanup[c] \in {"none", "done", "failed"}
                        /\ \A k \in RequestNumbers : task[c][k] \notin LiveTask
    /\ closing # "waiting"
    /\ UNCHANGED vars

Next ==
    \/ \E c \in Conns :
        \/ Client(c) \/ SessionStep(c) \/ CleanupStep(c) \/ CloserStep(c) \/ Cancel(c)
        \/ \E k \in RequestNumbers : HandlerStep(c, k)
        \/ \E s \in StateHandlers : StateHandlerStep(c, s)
        \/ \E t \in Topics : Publish(c, t)
    \/ CloseSessions
    \/ CloseSessionsEnds
    \/ Terminated

Spec == Init /\ [][Next]_vars

(* The event loop runs what can run, sends and user code come to an end,    *)
(* and the transport reports its end to the coroutine that reads it.        *)
(* Nothing is owed by clients, publishers or whoever cancels or shuts down. *)
Fairness ==
    /\ \A c \in Conns :
        /\ WF_vars(SessionStep(c))
        /\ WF_vars(CleanupStep(c))
        /\ WF_vars(CloserStep(c))
        /\ WF_vars(link[c] = "down" /\ (LeaveBeforeSession(c) \/ LeaveLoop(c)))
        /\ \A k \in RequestNumbers : WF_vars(HandlerStep(c, k))
        /\ \A s \in StateHandlers : WF_vars(StateHandlerStep(c, s))
    /\ WF_vars(CloseSessionsEnds)

FairSpec == Spec /\ Fairness
=============================================================================

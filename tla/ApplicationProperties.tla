------------------------ MODULE ApplicationProperties ------------------------
(***************************************************************************)
(* What the application layer promises, and what the repository says it     *)
(* promises but does not keep (the last section).                           *)
(***************************************************************************)
EXTENDS Application, FiniteSetsExt

Is(c, k, kind) == k \in DOMAIN requests[c] /\ requests[c][k].kind = kind

(* The messages about request k of c, of the given types.                   *)
About(c, k, types) == {i \in Sent(c, types) : out[c][i].ref = k}

Final == {"RESULT", "ERROR"}

-----------------------------------------------------------------------------
(* The conversation as the client sees it.                                  *)

(* A client is welcomed at most once, and before WELCOME it is sent nothing *)
(* but a challenge or an abort, after which it is sent nothing more: state  *)
(* handlers, authentication, shut-down and publishers that already hold the *)
(* session cannot put a message before the handshake's end.                 *)
HandshakeOrder ==
    \A c \in Conns : \A i \in DOMAIN out[c] :
        LET welcomes == Sent(c, {"WELCOME"}) IN
        /\ \A w \in welcomes : w = i \/ out[c][i].type # "WELCOME"
        /\ (\A w \in welcomes : i < w) =>
                /\ out[c][i].type \in {"CHALLENGE", "ABORT"}
                /\ i = Len(out[c])

(* Nothing about a call is sent after its final response, whatever the      *)
(* procedure yields, however calls interleave and wherever they are cut     *)
(* off: the client gets at most one RESULT or ERROR and no later progress.  *)
NothingAfterFinalResponse ==
    \A c \in Conns, k \in RequestNumbers :
        Is(c, k, "CALL") =>
            \A i \in About(c, k, Final) :
                \A j \in About(c, k, Final \cup {"PROGRESS"}) : j <= i

(* A call whose handler came to its end was answered, if the client is      *)
(* still there: only a handler that raised or was cancelled leaves a        *)
(* client waiting.                                                          *)
FinishedCallsAnswered ==
    \A c \in Conns, k \in RequestNumbers :
        Is(c, k, "CALL") /\ task[c][k] = "done" /\ link[c] = "up" =>
            About(c, k, Final) # {}

(* Subscriptions are acknowledged in the order they were asked for, though  *)
(* calls overtake them and each other.                                      *)
SubscriptionAcksInOrder ==
    \A c \in Conns :
        LET acks == Sent(c, {"SUBSCRIBED", "UNSUBSCRIBED"}) IN
        \A i, j \in acks : i < j => out[c][i].ref < out[c][j].ref

(* With synchronize_requests no request is begun before the previous one's  *)
(* handler ended, so responses come in request order.                       *)
RequestsSynchronized ==
    \A c \in Conns :
        /\ \A k, l \in RequestNumbers : {task[c][k], task[c][l]} \subseteq LiveTask => k = l
        /\ \A i, j \in Sent(c, Final \cup {"PROGRESS", "SUBSCRIBED", "UNSUBSCRIBED"}) :
                i < j => out[c][i].ref <= out[c][j].ref

(* No two topics hash to this id.                                           *)
Unique(id) ==
    \A t, u \in Topics : SubIdOf[t] = id /\ SubIdOf[u] = id => t = u

(* An event on a subscription id goes out only after a request for it that  *)
(* is younger than every UNSUBSCRIBE of it acknowledged so far: events      *)
(* racing with subscription changes never reach an ended subscription.  An  *)
(* id that two topics hash to does not have this.                           *)
EventsFollowSubscription ==
    \A c \in Conns : \A e \in Sent(c, {"EVENT"}) :
        LET id == out[c][e].ref
            Ended(k) == \E i \in About(c, k, {"UNSUBSCRIBED"}) : i < e
        IN  Unique(id) =>
            \E k \in RequestNumbers :
                /\ Is(c, k, "SUBSCRIBE") /\ SubIdOf[requests[c][k].topic] = id
                /\ \A l \in k..MaxRequests :
                        Is(c, l, "UNSUBSCRIBE") /\ requests[c][l].id = id => ~Ended(l)

(* The conversation as a whole: the application layer implements module     *)
(* Conversation, whatever requests, clean-up, shut-down and publishers do   *)
(* at once.  The stage of a conversation is what the client can tell of it, *)
(* and whether a session that said GOODBYE has closed: a second GOODBYE may *)
(* follow the first while two tasks close a session, but none once one of   *)
(* them has closed it.                                                      *)
Stage(c) ==
    IF Sent(c, {"WELCOME"}) # {}
    THEN IF Sent(c, {"GOODBYE"}) # {} /\ ~is_open[c] THEN "closed" ELSE "open"
    ELSE IF Sent(c, {"ABORT"}) # {} THEN "refused"
    ELSE IF Sent(c, {"CHALLENGE"}) # {} THEN "challenged" ELSE "greeting"

Refs(c, types) == {out[c][i].ref : i \in Sent(c, types)}

ClientView == INSTANCE Conversation WITH
    Clients <- Conns,
    Subscriptions <- SubIds,
    said <- out,
    stage <- [c \in Conns |-> Stage(c)],
    asked <- [c \in Conns |-> Len(requests[c])],
    answered <- [c \in Conns |-> Refs(c, Final \cup {"SUBSCRIBED", "UNSUBSCRIBED"})],
    acked <- [c \in Conns |->
                Max({0} \cup Refs(c, {"SUBSCRIBED", "UNSUBSCRIBED"}))]

ImplementsConversation == ClientView!Spec

-----------------------------------------------------------------------------
(* Subscriptions and what user code has to be undone.                       *)

(* Between requests the session's registry and the application's exits      *)
(* agree: every id that names a topic has the exit of a request for that    *)
(* topic, and the topic counts as subscribed.  UNSUBSCRIBE pops from both,  *)
(* and raises halfway if they do not agree.                                 *)
RegistryMatchesExits ==
    \A c \in Conns : pc[c] = "loop" => \A i \in SubIds :
        /\ sub_exits[c][i] = 0 <=> subscription_ids[c][i] = NoTopic
        /\ sub_exits[c][i] # 0 =>
            /\ Is(c, sub_exits[c][i], "SUBSCRIBE")
            /\ requests[c][sub_exits[c][i]].topic = subscription_ids[c][i]
            /\ subscription_ids[c][i] \in subscriptions[c]
            /\ SubIdOf[subscription_ids[c][i]] = i

(* A later subscription to the same id took the place of this one's exit.   *)
Displaced(c, k) ==
    \E l \in RequestNumbers :
        /\ k < l
        /\ Is(c, l, "SUBSCRIBE")
        /\ SubIdOf[requests[c][l].topic] = SubIdOf[requests[c][k].topic]
        /\ \/ sub_iter[c][l] \in {"entered", "exiting", "exited"}
           \/ sub_iter[c][l] = "failed" /\ task[c][l] \in {"acking", "done"}

(* A clean-up that ends without an exception has run the second part of     *)
(* everything whose first part ran, displaced subscriptions excepted,       *)
(* wherever the session was cut off: in a half-started group of state       *)
(* handlers, in the handshake, in an inline handler or in the loop.         *)
CleanupComplete ==
    \A c \in Conns : cleanup[c] = "done" =>
        /\ \A k \in RequestNumbers : sub_iter[c][k] = "entered" => Displaced(c, k)
        /\ \A k \in RequestNumbers : sub_iter[c][k] # "exiting"
        /\ \A s \in StateHandlers :
                state_iter[c][s] \notin {"starting", "entering", "entered", "cancelling"}

(* Session state outlives the subscriptions that may use it.                *)
StateOutlivesSubscriptions ==
    \A c \in Conns : (\E s \in StateHandlers : state_iter[c][s] = "exited") =>
        \A k \in RequestNumbers :
            /\ sub_iter[c][k] # "exiting"
            /\ sub_iter[c][k] = "entered" => Displaced(c, k)

-----------------------------------------------------------------------------
(* The end of a connection.                                                 *)

(* A connection's coroutine that returns has waited for every task of its   *)
(* requests, each of which came to its own end, and the clean-up, if there  *)
(* was a session, is complete.  One that raises has waited for none, but    *)
(* told all of them to stop: what is left is a procedure in user code (or   *)
(* what one sends that goes on all the same), and awaits that will raise.   *)
TasksJoined ==
    \A c \in Conns : pc[c] = "done" =>
        /\ result[c] = "return" =>
            /\ cleanup[c] \in {"none", "done"}
            /\ c \notin active
            /\ \A k \in RequestNumbers : task[c][k] \in {"none", "done", "failed"}
        /\ result[c] = "raise" =>
            \A k \in RequestNumbers :
                task[c][k] \in LiveTask => task[c][k] \in ToldTask \cup {"answering"}

(* A session that said GOODBYE and closed never opens again, whichever of   *)
(* the client's GOODBYE and the server's shut-down closed it and whatever   *)
(* was still on its way.                                                    *)
ClosedStaysClosed ==
    [][\A c \in Conns :
        Sent(c, {"GOODBYE"}) # {} /\ ~is_open[c] => ~is_open'[c]]_vars

(* When the client is gone, the coroutine that served it ends, its clean-up *)
(* runs to an end and the session is no longer active.                      *)
DisconnectEndsSession ==
    \A c \in Conns :
        link[c] = "down" ~> /\ pc[c] = "done"
                            /\ cleanup[c] \in {"none", "done", "failed"}
                            /\ c \notin active

(* A request that was read is handled to an end.                            *)
RequestsEnd ==
    \A c \in Conns, k \in RequestNumbers :
        task[c][k] = "ready" ~> task[c][k] \in {"done", "failed", "cancelled"}

-----------------------------------------------------------------------------
(* What the documentation says, and the code does not keep.                 *)

(* CHANGELOG.md: "Server now responds with error when unsubscribing from    *)
(* non-subscribed topic."                                                   *)
UnknownUnsubscribeAnswered ==
    [][\A c \in Conns, k \in RequestNumbers :
        Is(c, k, "UNSUBSCRIBE") /\ task[c][k] = "ready" /\ link[c] = "up" =>
            (sub_exits[c][requests[c][k].id] = 0 /\ task'[c][k] # "ready" =>
                \E i \in DOMAIN out'[c] : out'[c][i] = Msg("ERROR", k))]_vars

(* docs/getting_started.rst: the second part of a subscription handler is   *)
(* "behavior for when the subscription is torn down or the session is       *)
(* closed".                                                                 *)
EverySubscriptionTornDown ==
    \A c \in Conns : cleanup[c] = "done" =>
        \A k \in RequestNumbers : sub_iter[c][k] # "entered"

(* Application.close_sessions: "Cleanly close active WAMP sessions with      *)
(* goodbye message."                                                        *)
ShutdownClosesSessions ==
    closing = "done" => \A c \in Conns : closer[c] = "done" => ~is_open[c]
=============================================================================

---------------------------- MODULE Conversation ----------------------------
(***************************************************************************)
(* What the server promises each client about the messages it is sent,      *)
(* said without coroutines, tasks or flags: a WAMP conversation is opened   *)
(* or refused once, every request gets at most one final response,          *)
(* subscription requests are acknowledged in order, and the server takes    *)
(* its leave only while the session is open.  ApplicationProperties maps    *)
(* the application layer to it (ImplementsConversation).                    *)
(***************************************************************************)
EXTENDS Naturals, Sequences

CONSTANTS
    Clients,
    Subscriptions            \* the ids that events are about

VARIABLES
    said,                    \* said[c]: the messages c was sent, oldest first
    stage,                   \* stage[c]: how far the conversation is
    asked,                   \* asked[c]: the number of requests c made
    answered,                \* answered[c]: those with their final response
    acked                    \* acked[c]: the last one acknowledged, 0: none

vars == <<said, stage, asked, answered, acked>>

Stages == {"greeting", "challenged", "refused", "open", "closed"}
Answers == {"RESULT", "ERROR"}
Acks == {"SUBSCRIBED", "UNSUBSCRIBED"}

Init ==
    /\ said = [c \in Clients |-> <<>>]
    /\ stage = [c \in Clients |-> "greeting"]
    /\ asked = [c \in Clients |-> 0]
    /\ answered = [c \in Clients |-> {}]
    /\ acked = [c \in Clients |-> 0]

Say(c, type, ref) ==
    said' = [said EXCEPT ![c] = Append(@, [type |-> type, ref |-> ref])]

Turn(c, from, to) ==
    /\ stage[c] \in from
    /\ stage' = [stage EXCEPT ![c] = to]

(* The handshake.                                                           *)
Challenge(c) == Turn(c, {"greeting"}, "challenged") /\ Say(c, "CHALLENGE", 0)
Refuse(c) == Turn(c, {"greeting", "challenged"}, "refused") /\ Say(c, "ABORT", 0)
Welcome(c) == Turn(c, {"greeting", "challenged"}, "open") /\ Say(c, "WELCOME", 0)

Handshake(c) ==
    /\ Challenge(c) \/ Refuse(c) \/ Welcome(c)
    /\ UNCHANGED <<asked, answered, acked>>

(* Leave-taking: any number of goodbyes while the session is open, and an   *)
(* abort, once, whatever else is on its way.                                *)
Goodbye(c) == stage[c] = "open" /\ Say(c, "GOODBYE", 0) /\ UNCHANGED stage
Close(c) == Turn(c, {"open"}, "closed") /\ UNCHANGED said

Abort(c) ==
    /\ stage[c] \in {"open", "closed"}
    /\ \A i \in DOMAIN said[c] : said[c][i].type # "ABORT"
    /\ Say(c, "ABORT", 0)
    /\ UNCHANGED stage

TakeLeave(c) ==
    /\ Goodbye(c) \/ Close(c) \/ Abort(c)
    /\ UNCHANGED <<asked, answered, acked>>

(* Requests and what they are answered.  The server may come to a request   *)
(* at any time, also when the link and the WELCOME are lost.                *)
Ask(c) ==
    /\ asked' = [asked EXCEPT ![c] = @ + 1]
    /\ UNCHANGED <<said, stage, answered, acked>>

Unanswered(c) == (1 .. asked[c]) \ answered[c]

Progress(c, k) ==
    /\ k \in Unanswered(c)
    /\ Say(c, "PROGRESS", k)
    /\ UNCHANGED <<asked, answered, acked>>

Answer(c, k) ==
    /\ k \in Unanswered(c)
    /\ \E type \in Answers : Say(c, type, k)
    /\ answered' = [answered EXCEPT ![c] = @ \cup {k}]
    /\ UNCHANGED <<asked, acked>>

Acknowledge(c, k) ==
    /\ k \in Unanswered(c) /\ k > acked[c]
    /\ \E type \in Acks : Say(c, type, k)
    /\ answered' = [answered EXCEPT ![c] = @ \cup {k}]
    /\ acked' = [acked EXCEPT ![c] = k]
    /\ UNCHANGED asked

Notify(c) ==
    /\ \E id \in Subscriptions : Say(c, "EVENT", id)
    /\ UNCHANGED <<asked, answered, acked>>

Converse(c) ==
    /\ stage[c] \in {"open", "closed"}
    /\ \/ Notify(c)
       \/ \E k \in 1 .. asked[c] : Progress(c, k) \/ Answer(c, k) \/ Acknowledge(c, k)
    /\ UNCHANGED stage

Next == \E c \in Clients : Handshake(c) \/ TakeLeave(c) \/ Ask(c) \/ Converse(c)

Spec == Init /\ [][Next]_vars
=============================================================================

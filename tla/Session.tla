------------------------------- MODULE Session -------------------------------
(***************************************************************************)
(* WAMPSession (serverwamp/session.py): the state of one WAMP session, one *)
(* per connection.  Its coroutines suspend only in `await send_msg'; each   *)
(* is given here as its segments between suspensions, which the tasks of   *)
(* module Application interleave.                                           *)
(***************************************************************************)
EXTENDS Connection

CONSTANTS
    Topics,                  \* the topic URIs that clients name
    FalsyTopics,             \* those of Topics that Python takes for false: ''
    SubIds,                  \* subscription ids
    SubIdOf,                 \* hash(topic) & 0xFFFFFFFF, which may collide
    NoTopic                  \* no entry in _subscriptions_ids

ASSUME SessionAssumption ==
    /\ FalsyTopics \subseteq Topics
    /\ SubIds \subseteq Nat
    /\ SubIdOf \in [Topics -> SubIds]
    /\ NoTopic \notin Topics

VARIABLES
    is_open,                 \* is_open[c]: set by WELCOME, cleared by close()
    said_goodbye,            \* said_goodbye[c]: _said_goodbye, set by abort()
    authenticated,           \* authenticated[c]: _authenticated
    subscriptions,           \* subscriptions[c]: the keys of _subscriptions
    subscription_ids         \* subscription_ids[c][i]: _subscriptions_ids

openVars == <<is_open, said_goodbye, authenticated>>
registryVars == <<subscriptions, subscription_ids>>
sessionVars == <<openVars, registryVars>>

SessionTypeOK ==
    /\ is_open \in [Conns -> BOOLEAN]
    /\ said_goodbye \in [Conns -> BOOLEAN]
    /\ authenticated \in [Conns -> BOOLEAN]
    /\ subscriptions \in [Conns -> SUBSET Topics]
    /\ subscription_ids \in [Conns -> [SubIds -> Topics \cup {NoTopic}]]

SessionInit ==
    /\ is_open = [c \in Conns |-> FALSE]
    /\ said_goodbye = [c \in Conns |-> FALSE]
    /\ authenticated = [c \in Conns |-> FALSE]
    /\ subscriptions = [c \in Conns |-> {}]
    /\ subscription_ids = [c \in Conns |-> [i \in SubIds |-> NoTopic]]

-----------------------------------------------------------------------------
(* mark_authenticated: the flag and WELCOME; open only after the send.      *)

(* Mutant: open as soon as WELCOME is on its way.                           *)
MutantOpenEarly(c) ==
    /\ authenticated' = [authenticated EXCEPT ![c] = TRUE]
    /\ is_open' = [is_open EXCEPT ![c] = TRUE]
    /\ SendMsg(c, Msg("WELCOME", 0))
    /\ UNCHANGED said_goodbye

MarkAuthenticated(c) ==
    /\ authenticated' = [authenticated EXCEPT ![c] = TRUE]
    /\ SendMsg(c, Msg("WELCOME", 0))
    /\ UNCHANGED <<is_open, said_goodbye>>

MarkOpen(c) ==
    /\ is_open' = [is_open EXCEPT ![c] = TRUE]
    /\ UNCHANGED <<said_goodbye, authenticated>>

(* close: a GOODBYE if the session is open and was not aborted, then, after *)
(* the send if there is one, not open.                                      *)

(* Mutant: says goodbye to sessions that are not open.                      *)
MutantGoodbyeUnopened(c) == ~said_goodbye[c]

SaysGoodbye(c) == is_open[c] /\ ~said_goodbye[c]

SendGoodbye(c) ==
    /\ SaysGoodbye(c)
    /\ SendMsg(c, Msg("GOODBYE", 0))
    /\ UNCHANGED openVars

MarkClosed(c) ==
    /\ is_open' = [is_open EXCEPT ![c] = FALSE]
    /\ UNCHANGED <<said_goodbye, authenticated>>

(* abort: ABORT; after the send the goodbye is taken as said, so that the   *)
(* close() which follows sends nothing.                                     *)

SendAbort(c) == SendMsg(c, Msg("ABORT", 0))

MarkAborted(c) ==
    /\ said_goodbye' = [said_goodbye EXCEPT ![c] = TRUE]
    /\ is_open' = [is_open EXCEPT ![c] = FALSE]
    /\ UNCHANGED authenticated

(* request_cra_auth sends the challenge and returns nothing.                *)
SendChallenge(c) == SendMsg(c, Msg("CHALLENGE", 0))

-----------------------------------------------------------------------------
(* The subscription registry: two dictionaries, one per direction.          *)

RegisterSubscription(c, t) ==
    /\ subscriptions' = [subscriptions EXCEPT ![c] = @ \cup {t}]
    /\ subscription_ids' = [subscription_ids EXCEPT ![c][SubIdOf[t]] = t]

(* Mutants: one of the two directions of the registry is forgotten.         *)
MutantTopicStays(c, i) ==
    /\ subscription_ids' = [subscription_ids EXCEPT ![c][i] = NoTopic]
    /\ UNCHANGED subscriptions

MutantIdStays(c, i) ==
    /\ subscriptions' = [subscriptions EXCEPT ![c] = @ \ {subscription_ids[c][i]}]
    /\ UNCHANGED subscription_ids

(* The id is popped first; a falsy topic then counts as "no such            *)
(* subscription" and stays among the keys of _subscriptions.  The KeyErrors *)
(* of pop and del are out of reach while RegistryMatchesExits holds.        *)
UnregisterSubscription(c, i) ==
    LET topic == subscription_ids[c][i] IN
    /\ subscription_ids' = [subscription_ids EXCEPT ![c][i] = NoTopic]
    /\ subscriptions' = [subscriptions EXCEPT
                            ![c] = IF topic \in FalsyTopics THEN @ ELSE @ \ {topic}]

(* send_event: only to a session subscribed to the topic.                   *)
SendEvent(c, t) ==
    /\ t \in subscriptions[c]
    /\ SendMsg(c, Msg("EVENT", SubIdOf[t]))
=============================================================================

# TLA+ models and proofs of serverwamp

serverwamp lets a Python web server (aiohttp, or any ASGI server) act as the
router *and* the only peer of WAMP clients: clients call procedures and
subscribe to topics of the server. Its application layer is a few hundred lines
of coroutines whose correctness is a matter of interleaving: every `await` in it
is a point where a client may vanish, another task may run, or the web framework
may cancel the coroutine. These modules say what that layer does step by step,
what it promises its clients and its users, and check or prove the promises.

## 1. The system

### Components

| Component (source) | State | Operations | Hard behaviour | Correct if |
|---|---|---|---|---|
| Connection (`connection.py`, adapters' subclasses) | up or down; what was sent | `send_msg`, `iterate_msgs`, `close`, `abort` | the peer goes away between any two steps; a send suspends, and fails late | what is sent arrives in order; an aborted connection is closed |
| `WAMPSession` (`session.py`) | `is_open`, `_said_goodbye`, `_authenticated`, subscription registry in two dictionaries | `mark_authenticated`, `close`, `abort`, `register_subscription`, `unregister_subscription`, `send_event`, `request_cra_auth` | each sends, suspends, then changes its flags; several tasks use one session | one handshake, nothing before WELCOME; a session that closed stays closed; no events on an ended subscription |
| Connection and session life (`application.py` 201-326, 362-380, 440-460) | coroutine position, `_active_sessions`, iterators of session state handlers, their exits | `handle_connection`, `handle_session`, `_clean_up_session`, `close_sessions` | cancellation and failure at any await; a shielded clean-up that outlives its coroutine; half-started groups of user handlers | what user code began is undone, in the right order; no task is left; connections of vanished clients end |
| Protocol handlers (`application.py` 25, 328-360, 383-438, 462-620) | one task or inline coroutine per request; `_subscription_exits` | CALL, GOODBYE, SUBSCRIBE, UNSUBSCRIBE | calls overtake each other and the subscription requests, which run inline; handlers yield anything, and raise | every call answered once, nothing after the answer; acknowledgements in order; registry and exits agree |
| Realm authentication (`application.py` 150-197) | transport authenticators tried, methods the client offered | `default_auth_handler` | suspends in user code before the session is open | refused sessions are never served |
| `URIsRouter` (`routing.py`), `RPCRouter`, `TopicsRouter` | exact and pattern tables | `add_route`, `add_prefix_route`, `add_regex_route`, `resolve` | routes are added while sessions are served | the first matching route wins; additions take over nothing |
| Argument binding (`rpc.py` 57-115, `application.py` 120-151) | default arguments of the realm and its routers | `set_default_arg`, `handle_rpc_call`, `args_for_realm_level_handler` | positional and keyword arguments, renamed keys, injected parameters, two layers of defaults, in any mix | every parameter gets the argument that is for it, or the call is an error |
| Message parsing (`protocol.py`) | none | `from_msg_data`, `wamp_request_from_msg`, `*_msg` constructors | short or odd messages raise different things | no request is made of half a message |
| Batch framing (`helpers.py`, `json.py`) | position in a payload | batches with lengths or splitters | signed and unsigned 32-bit lengths, truncated input | what was said is read, once and in order |
| asyncio, Trio and anyio adapters (`adapters/*.py`) | tasks of a group | `launch_task_group`, `spawn`, `wait`, `cancel`, `shield` | cancellation, failures inside a group; the three disagree | no task outlives its group; a shielded clean-up runs |
| aiohttp and ASGI adapters | subprotocol, the payload `iterate_msgs` is in | `connection_for_*`, `iterate_msgs`, `send_msg`, `close` | negotiation, frames of the wrong type, sends that fail | no message lost, repeated or made up between client and session |
| Route definition tables (`rpc.py`, `events.py` sets) | lists of routes | decorators | none: filled when a program is configured | |
| `asynccontextmanager` backport | | | vendored from the standard library | |

### How they interact

The web framework calls an adapter, which makes a `Connection` and awaits
`Application.handle_connection`. It opens a *task group*, reads HELLO, makes a
`WAMPSession` and runs `handle_session`: session state handlers of the realm
(user-written async generators, started concurrently), authentication,
WELCOME, the authenticated state handlers, and the message loop. SUBSCRIBE and
UNSUBSCRIBE run inline in that loop; CALL and GOODBYE are spawned into the group
unless `synchronize_requests` is set. However `handle_session` ends, a `finally`
runs `_clean_up_session` shielded from cancellation: second parts of
subscription handlers first, then those of state handlers. Then the group waits
for its tasks (`gather`), or cancels them if anything raised. Meanwhile
`close_sessions` (server shut-down) and user code that kept a session
(publishers) act on it from tasks of their own. All of them share the session's
flags and registry, the application's dictionaries of exits, and the connection.

## 2. The modules

| Module | What it is |
|---|---|
| `Connection` | the transport: `link[c]`, and `out[c]`, all that client `c` was ever sent |
| `Session` | `WAMPSession`: its flags and registry, each method as its segments between suspensions |
| `Application` | composes both with the coroutines and tasks of `application.py` on the asyncio adapter; `Next`, `Spec`, `FairSpec` |
| `ApplicationProperties` | everything stated about it |
| `Conversation` | abstract: what the server promises each client about the messages it is sent; `Application` implements it |
| `ApplicationTypeProofs` | theorem: the variables of `Application` keep their types |
| `ApplicationCallProofs` | theorems: calls and their answers |
| `ApplicationSessionProofs` | theorems: handshake, opening and closing, tasks at the end |
| `ApplicationOrderProofs` | theorems: order of what is sent; `Application` implements `Conversation` |
| `ApplicationCleanupProofs` | theorems: the second parts of user code |
| `ApplicationRegistryProofs` | theorems: registry, exits and events |
| `MCApplication` | values for the constants, symmetry |
| `Framing` | what one WebSocket payload holds in each subprotocol, written and read |
| `Parsing` | what the server takes a message for |
| `TaskGroup` | the task group of one session and the shield of its clean-up, on asyncio, Trio and anyio |
| `Serving` | composes the three: one client's connection from the web server (ASGI or aiohttp) to the task group of its session |
| `Channel` | abstract: what a transport promises the server about a client's messages; `Serving` implements it |
| `ServingProofs`, `MCServing` | theorems: a task group leaves nothing behind, `Serving` implements `Channel`, replies are read back; its model |
| `Routing` | the tables of a router |
| `Calling` | a router in use: calls and handlers of the realm get their arguments |
| `RoutingProofs`, `MCRouting` | theorems: routes stay, arguments find their parameters; their model |

`Application` and `Serving` look at the same coroutines from two sides.
`Application` has every suspension of the application layer and takes the
transport for a queue of messages and asyncio for granted. `Serving` has the
transport, the frames, the parsers and the three task groups, and takes the
application layer for a session that welcomes everyone and whose requests are
calls with one reply. What each assumes of the other is what the other states:
`Channel` is the queue, `NoOrphans` and `SessionsCleanedUp` the task group.

An action is what *one coroutine does between two suspensions*, so the
interleavings of the actions are those of the event loop.

**Main coroutine.** `pc[c]` names the await at which the coroutine that serves
`c` is: `hello` (first message), `rejecting`/`aborting` (`Connection.abort`),
`pre`/`authed` (gathering the state handlers of the two groups), `auth`, `cra`
(user code of the authenticators), `challenge`, `welcome`, `refused` (sends),
`loop` (next message), `handling` (an inline request), `cleanup` (behind the
shield), `gather` (leaving the group), `done`. `result[c]` says how the body
left. Leaving `handle_session` in any way is `Unwind`, which starts the clean-up;
leaving the group is `Finish`, which tells what still runs to stop
(`CancelTasks`) and waits for none of it: the coroutine may be `done` while a
procedure, told to stop, is still in its user code.

**Requests.** `requests[c]` is the sequence of requests that were read, and
`task[c][k]` where the handler of the k-th is: `ready`, in user code (`running`,
`entering`, `exiting`), in a send (`progress`, `answering`, `closing`,
`acking`), told to stop (`stopping`, `reporting`, `cancelling`), or at its end
(`done`, `failed`, `cancelled`). A procedure's ends are `CallAnswer` (a result or
an error, from whatever it yields, returns or raises), `CallExhausted` (its
generator ends after nothing, or after progress reports only, an error either
way) and `CallRaises` (the handler itself fails). `HandlerReturns` and
`HandlerRaises` differ for inline and spawned handlers: an exception of an inline
handler unwinds the session, that of a spawned one is seen only by `gather`.

**User code.** An async generator of a user is a small automaton: `sub_iter` for
subscriptions, `state_iter` for state handlers. It reaches its yield, raises, or
is cancelled; after a cancellation it may take a while to end (`cancelling`),
and running its second part meanwhile raises, as Python does.

**Clean-up.** `cleanup[c]` is a task of its own; `clean_subs` and `clean_states`
are the iterators it has still to exit. An exception ends it half-way.

**Faults.** `Faults` chooses what goes wrong beyond disconnects, which always
may: `"user"` (user code raises), `"malformed"` (messages the server cannot
take), `"cancel"` (the web framework cancels the coroutine, at any await).

**Serving.** `inbox` holds the frames on their way, `reading` the payload that
`iterate_msgs` is in and how far it came; the iterator is one and the same
before and after HELLO, as `handle_connection` makes it once. A payload is a
sequence of units: `SizeOf[m]` units of a message, a splitter, or a length.
`said` is a history of what the client sent that must be heard of, with
`Damage` where the server cannot read on; `got` is what the iterator yielded.
`pc` is the coroutine (`connecting`, `hello`, `loop`, `ending`, `session over`,
`done`); from `session over` on `group` says where it is in leaving its task
group: behind the `shield`, `leaving` (waiting for tasks), or out of it.
A length is packed below `LengthLimit` and unpacked modulo `Width`, twice as
much: what a signed and an unsigned integer of the code's 32 bits hold.
The client cuts frames short, sends frames of the other type and lengths that
are wrong. Whatever the server says, WELCOME and ABORT included, goes through
`Sendable`: a message may be too long for a length, and a reply may hold byte
strings that aiohttp's own JSON encoder refuses.

**Calling.** `last` is the last invocation: which handler, which call, and where
each argument came from (`args`, `kwargs`, `injected`, `realm`, `default`).
Nothing is awaited between the look-up of a handler and its invocation, so one
action is the whole of `handle_rpc_call` up to it, the loop over the parameters
being a recursive function of the number of rounds (`Bind`, and `RealmLevelArgs`
for handlers of the realm).

### Choices a reader should know

* **Sends.** `send_msg` appends at the call and the caller goes on in a later
  action, which may raise if the link is then down. A message sent while the
  link is down is lost. That a transport writes at once is one schedule.
* **Closing the transport** happens in the action in which the server's call to
  `close` returns; `FrameworkClose` is the framework's after the handler is done.
* **Cancellation** is a request, raised at what the task awaits when it next
  runs. A procedure may go on for a while after it, report progress or even give
  its answer, and ends when it likes (`stopping`, `HandlerCancelled`); from
  Python 3.8 on `except Exception` does not stop a `CancelledError`, before that
  the call's handler takes one for an error of the procedure, which is the
  answer it may give here too. The awaits of the library itself raise
  (`cancelling`). What user code swallows in the *main* coroutine is no
  cancellation.
* **Sets and dictionaries.** The order in which exits are run comes from a
  dictionary and no property depends on it; it is nondeterministic here, which
  includes the code's.
* **Subscription ids** are `hash(topic) & 0xFFFFFFFF`: any function `SubIdOf`,
  collisions included. A topic that Python takes for false (the empty string)
  is in `FalsyTopics`.
* **Authentication methods** a client offers are restricted to those the realm
  could use, as the others are never looked at. `request_cra_auth` returns
  nothing and sessions have no `request_ticket_auth`, so both ways end in an
  exception, which is what the model does.
* **`gather`** waits for the tasks that are in the group when it is called and
  raises at the first failure among them. A spawned handler that failed earlier
  has left the group and is noticed by nobody, which `HandlerRaises` says. A
  cancellation of the coroutine while it is in `gather` reaches the tasks
  (`CancelGather`), and `gather` raises when they have ended (`GatheredResult`);
  one that falls in the shielded clean-up leaves that running by itself
  (`CancelShielded`). The
  single turn of the event loop between a task's failure and its leaving the
  group is not told apart from the time after it.
* **Reading a message** is one action and starting its handler another, though
  the code does not suspend between them for an inline handler. The start of a
  handler touches only its own request, or the session's registry on its
  behalf, and cancellation cannot fall between the two (`CancelInline` wants a
  handler that has begun), so the extra interleavings end in states the code
  reaches as well.
* Handlers a program failed to configure, logging, and the wording of errors are
  left out.

## 3. What is stated, and the runs

Properties of the application layer are in `ApplicationProperties`, the others
at the end of `Serving`, `Calling` and `Routing`, each with the code behaviour
it is about. In short:

* the conversation: `ImplementsConversation` (the refinement: one handshake, at
  most one final response per request, acknowledgements in order, leave taken
  only while open), and what it does not say: `HandshakeOrder`,
  `NothingAfterFinalResponse`, `FinishedCallsAnswered`,
  `SubscriptionAcksInOrder`, `RequestsSynchronized`, `EventsFollowSubscription`;
* user code is undone: `RegistryMatchesExits`, `CleanupComplete`,
  `StateOutlivesSubscriptions`;
* the end: `TasksJoined`, `ClosedStaysClosed` (an action property), and under
  fairness `DisconnectEndsSession` and `RequestsEnd`;
* transport: `ImplementsChannel` (the refinement: every message once, in order,
  and an end or a failure only where there is one), `RepliesReadBack`;
* task groups: `NoOrphans`, and under fairness `GoneClientsForgotten`;
* routers: `RoutesAreStable` (an action property),
  `ArgumentsFindTheirParameters`, `RealmArgumentsInPlace`.

| Run | Bounds | Question |
|---|---|---|
| `startup` | 1 connection, 2 + 2 state handlers, 1 transport authenticator, CRA and ticket, 2 requests with `synchronize_requests`, shut-down, all faults | is the handshake well ordered, is everything undone, wherever starting up is cut off, and is there one handler at a time? Two handlers per group are the least for one to fail while another starts |
| `shutdown` | 2 connections (symmetric), 1 transport authenticator, 1 GOODBYE each, shut-down | do the two ways to close a session, and WELCOMEs on their way, agree? Two sessions are the least for one's failure to cut off another's GOODBYE |
| `subscriptions` | 1 connection, 3 requests, 3 topics: two with one id, one falsy; 2 events, 1 state handler, all faults | every history of three subscription changes: subscribe, give up, subscribe again; twice the same; a collision |
| `calls` | 1 connection, 3 requests of any kind, 1 progress report each | do concurrent calls get their answers, and acknowledgements their order? |
| `liveness` | 1 connection, 2 requests of any kind, 1 state handler, all faults, `FairSpec` | does everything that begins end, and do concurrent requests keep the conversation in order? |
| `routing` | 2 URIs, all 4 patterns over them, 2 pattern routes, 2 handlers with 2 and 4 parameters, one named in camel case and one with a default that does not fit its hint, 4 keys, up to 2 positional and 2 keyword arguments | do later routes leave earlier ones alone, and do arguments find their parameters? Two of each are the least for arguments to compete and for two keys to mean one name |
| `serving` | 2 web servers, 3 async supports, 4 subprotocols; 3 messages sent, 2 frames under way, 2 tasks, lengths below 8 (4 to be sent), `FairSpec` | is every message heard once, in any framing, and does a session leave nothing behind on any support? Three messages are the least for one batch to hold HELLO and a call and be followed by another frame; there is a request that fits an unsigned and not a signed length, and a reply that fits neither |

Deadlock is checked in every run of `Application`: `Terminated` is the one way
to stop, when all connections are done and cleaned up and `close_sessions` has
returned; that of `Serving` says the same of its connection, task group and
clean-up. `routing` alone has no other end than its bound and switches it off.
Connections share nothing but `close_sessions`, so one suffices where it is not
the subject. Every property has a mutant in `PROJECT.json`, a plausible bug in
one definition under which its run fails; their definitions stand beside what
they mutate (`Mutant...`).

### Bounds

`MaxRequests`, `MaxProgress` and `MaxEvents` stop a client's requests, a
procedure's progress reports and a publisher's events; `MaxRoutes` the pattern
table. They are guards of `Receive`, `CallProgress`, `Publish` and
`AddPatternRoute`, and nothing else depends on them. In `Serving`, `MaxSent` and
`MaxFrames` bound the client (`Put`), `MaxTasks` the calls the session takes
(`Spawn`; a third call is not read on, and with `MaxSent = 3` there is none after
HELLO), and `LengthLimit` is 2^31 in the code; in `Calling`, `MaxArgs` bounds the
arguments of a call.

### Fairness

`FairSpec` adds weak fairness of the server's own steps: per connection those of
the main coroutine, of the clean-up and of the closer, of every request's
handler and of every state handler. The event loop runs every ready task, so
what it adds is that sends end and user code ends: a procedure that never
returns is a hang of the application's own. A disconnect is noticed
(`link = "down"` with `LeaveBeforeSession` or `LeaveLoop`), because the adapters'
`iterate_msgs` end then. Nothing is assumed of clients, publishers, whoever
cancels and whoever shuts down. One handler's steps are one fairness condition,
so a handler may not be starved by its own choices; progress reports are bounded.

`Serving`'s `FairSpec` is the same in its terms: the coroutine of the connection,
the clean-up, and each task. Nothing is assumed of the client, of cancellation
or of when the web framework closes what is left open.

## 4. What does not hold

Each of these runs has one property, which quotes the repository, and ends in a
counterexample.

* `unknown_unsubscribe`: an UNSUBSCRIBE for an id without a subscription raises
  `KeyError` at `application.py:480` and the connection ends, where
  `CHANGELOG.md` says the server "now responds with error".
* `displaced_subscription`: a second SUBSCRIBE to a topic (or to one whose id
  collides) overwrites the first's iterator at `application.py:472`; its second
  part never runs.
* `shutdown_in_handshake`: `mark_authenticated` sets `is_open` after its send
  (`session.py:145`). A session that `close_sessions` closes meanwhile gets no
  GOODBYE and opens afterwards.
* `routing_first_pattern`: the loop of `URIsRouter.resolve` returns in its first
  iteration (`routing.py:65`), so the first pattern gets every URI.
* `trio_shield`: Trio's `shield` opens a shielded cancel scope and never calls
  the clean-up (`trio.py:24`), so sessions stay active and the second parts of
  handlers never run. anyio's is an async context manager by its decorator, and
  awaiting one raises; `ShieldRaises` says so, and a session on anyio then ends
  without a clean-up too.

Without a run: `receive_progress` is parsed and never looked at, so progress
goes to every caller (`application.py:611`), whereas `docs/getting_started.rst`
says that clients without progressive results "will only see the end result or
error". The field is in the requests of `Application` for this reason.

## 5. What is proved

For every value of the constants that satisfies the assumptions stated beside
them: any number of connections, requests, state handlers, topics and events, any
subscription ids and any set of faults (`SessionAssumption`,
`ApplicationAssumption`); any patterns, signatures and calls (`RoutingAssumption`,
`CallingAssumption`); any messages, sizes, lengths and number of tasks
(`ServingAssumption`, `RequestSizeAssumption`, `FramingAssumption`,
`TaskGroupAssumption`). Some say more than what kind of thing a constant is. The
parameters of a signature have different names, as Python's grammar demands
(`CallingAssumption`); camelCase names are among them, and under
`camel_snake_conversion` no key reaches such a parameter, which the statement of
`ArgumentsFindTheirParameters` has (`Meant`). A message takes at least one unit
(`FramingAssumption`). And a request is no longer than an unsigned length can
say (`RequestSizeAssumption`): a client could not announce a longer one. Replies
have no such bound.

Every safety property that a passing run checks is a theorem, and so are both
refinements. All theorems are about `Spec` (`CallingSpec` for a router in use),
without fairness. Few of the properties are inductive, and each invariant was
checked by TLC on an instance of a run before it was proved.

### The application layer

The invariants build on each other in this order.

| Invariant | Says | Theorems that follow |
|---|---|---|
| `TypeOK` | inductive as it stands | `TypeCorrect` |
| `CallInv` | no reply before the request, no final response while the handler is `ready`, `running` or in a `progress` send (told to stop or not), one when it is `answering` or `done` | `CallsEndOnce` (`NothingAfterFinalResponse`), `CallsAnswered` (`FinishedCallsAnswered`) |
| `ControlInv` | where the coroutine is, against what its inline handler, result, clean-up, tasks and `active` may be | `TasksAreJoined` (`TasksJoined`) |
| `HandshakeInv` | what can have been sent, and whether the session was served, at each await of the handshake | `HandshakeIsFirst` (`HandshakeOrder`), `ClosedForGood` (`ClosedStaysClosed`) |
| `AnswerInv` | what was sent about requests is about those that were read; what has its response is over; acknowledgements are in order | `AcksInOrder` (`SubscriptionAcksInOrder`), `OneRequestAtATime` (`RequestsSynchronized`), `ConversationIsKept` (`ImplementsConversation`) |
| `StatesInv` | every state handler that began has an exit waiting, in the application's dictionary or in the clean-up's hands | `CleanupIsComplete` (`CleanupComplete`), with the next |
| `SubsInv` | the same of subscriptions, displaced ones excepted; where the handler of an iterator is; no state handler is exited before the last of them | `StateIsExitedLast` (`StateOutlivesSubscriptions`) |
| `RegistryInv` | registry and exits agree on every id but the one whose inline handler is on its way from one to the other | `RegistryAgreesWithExits` (`RegistryMatchesExits`) |
| `EventsInv` | a subscribed topic was asked for after every acknowledged end of its id, and so was each event sent | `EventsAreForSubscriptions` (`EventsFollowSubscription`) |

Why they have to be stronger than what they prove, and how the proofs go:

* **Steps of one connection.** An action is a step of one connection, or of
  nobody's. `StepOfOne` says that the others' part of every variable stays
  (`Same`), so each invariant, a statement of every connection, needs only the
  step of its own (`OwnControl`, `OwnHandshake`, ...). Before that, one lemma per
  subject says what a step can do to it at all: `OwnAdvances` to the coroutine,
  `OwnEngages` to a session's flags, `Says` and `Occasion` which message may be
  sent when, `OwnIterators` and `OwnRegistry` which actions touch iterators and
  registry. The actions are taken apart there once, and the invariants are proved
  from these lemmas.
* **Types.** One lemma per helper (`SendMsgType`, `GotoType`, `UnwindType`,
  `FinishType`, ...) says what the helper keeps typed, `UnchangedType` does so
  for what an action leaves alone, and each action follows from those it uses.
* **Calls.** From a state in which a procedure still runs after its RESULT went
  out, the next step breaks `NothingAfterFinalResponse`; `CallInv` rules it out.
  Nearly all actions are *quiet*: they send no reply, forget no request and
  move handlers only along `Moves`. `QuietCallInv` settles those at once, and
  `ReplyCallInv` the three that reply.
* **Control.** `TasksJoined` speaks of the end only: a coroutine that returns has
  waited for all tasks, one that raises has told all that are left to stop. That
  one which returns has cut off nothing needs the result it is to have while it still
  waits, that an inline handler can be cut off only together with its session,
  and that `gather` is reached only through a complete clean-up.
* **Handshake.** `HandshakeOrder` fails one step after a state in which a session
  opened without WELCOME, so the invariant says who may have been served, and
  that a WELCOME is missing only if the link was down. `ClosedStaysClosed` follows:
  a session opens only in a step from `welcome`, where at most one message was
  sent, and a GOODBYE is never the first.
* **Order.** Acknowledgements are in order because a new one is about the last
  request, whose handler is the coroutine itself (`ControlInv`), and all that was
  acknowledged before is over (`AnswerInv`).
* **Refinement.** `ConversationIsKept` maps the initial states of `Application` to
  those of `Conversation`, and every step to one of its actions or to a stutter:
  by the message that is sent (`Occasion` gives the guard), by a request that is
  read, or by the flag that closes a session; every other step leaves the
  client's view alone.
* **Clean-up.** The inductive form follows an iterator from its handler (`entering`)
  through the exits to the clean-up's own sets, since at each of the awaits
  between them the session may be cut off. `cleanup = "failed"` is the one escape:
  an exception in a second part ends the clean-up half-way, as the code does.
* **Registry.** SUBSCRIBE enters the registry first and the exits after the
  handler's first part, UNSUBSCRIBE leaves them in the opposite order; both are
  inline handlers, and if either is cut off or raises the loop is left. So the two
  disagree on one id at most, the one of the request that is being handled.
  Collisions are covered: a second SUBSCRIBE of an id replaces both entries.
* **Events.** `EventsFollowSubscription` is about messages only, so that the
  invariant ties the subscribed topics to the requests that asked for them. An id
  that two topics hash to does not have it (`Unique`), and it is stated without.

### Transports and task groups (`ServingProofs`)

`ServingInv` is `ControlInv /\ StreamInv /\ GroupInv /\ SentInv`.

| Part | Says | Theorems that follow |
|---|---|---|
| `ControlInv` | a connection that is served has a protocol, and what state it is in fits where the coroutine is | with all others, `ServingTyped` (`TypeOK`) |
| `GroupInv` | the task group is typed and leaves no task running | `NothingLeftBehind` (`NoOrphans`) |
| `StreamInv` | what the client said is cut into what was got, what is left of the payload in hand, and what each frame on its way carries | `FramesAreAChannel` (`ImplementsChannel`) |
| `SentInv` | each frame the server sent is what `send_msg` made of one message, and only the body has tasks running | `RepliesAreReadBack` (`RepliesReadBack`) |

* **Task groups.** `ServingStep` shows that whatever a connection does is a step of
  its group or leaves it alone, and `GroupStep` that the group's steps keep the
  invariant. All that leave it go through `Leave`, which `LeaveInv` settles once.
* **Payloads.** `ReadyAfter` says where a reader is when it has read a payload up
  to a point, in a batch with lengths or with splitters, or one message to a
  frame. From there `MessageAfter` finds the message that follows, whole and with
  nothing of it left over; `DamageAfter` finds that what a client broke off is no
  message; `OverlongYields` that a length which says too much does no harm to what
  comes last. They hold for every length up to the greatest unsigned one, also
  for requests whose length the server itself could not pack.
* **The stream.** `ImplementsChannel` speaks of `said` and `got` only, and nothing
  relates them but the payloads in between. `StreamInv` does: there is a `cut` that
  says for each frame in `inbox` where in `said` it begins, the frame carries just
  what was said from there to the next cut (`Carried`), and reading on in the
  payload in hand yields (`Yields`) what was said from the last of `got` to the
  first cut. HELLO and the first requests in one batch are the case that needs
  `reading.at` in it: the session takes over in the middle of a payload. Every way
  a client has to send (`SendKeepsStream`) adds one cut; opening a frame drops one;
  a yield moves along in `reading`.
* **The refinement.** `StepStream` shows that a step keeps the stream and sees it as
  one of the channel's: something is said, the next thing said is got, the end is
  told when all was got, a failure only when the next thing is damage. `ChannelStep`
  makes that `[Promised!Next]_(Promised!vars)`.
* **Replies.** `EncodedReads` says what one round of a reader (`ReadOn`) makes of
  what `Encode` wrote. `ReadInOneRound` carries it over to all rounds, of which a
  reader has as many as the payload has units.

### Routers (`RoutingProofs`)

* `TypeCorrect` and `AdditionsTakeOverNothing`: `Spec => []TypeOK` and
  `Spec => RoutesAreStable`. `UseChangesNoRoute` is the step to a router in use,
  `CallingSpec => Spec`, and `StableWhileServing` follows.
* `ArgumentsAreFound`: `CallingSpec => []ArgumentsFindTheirParameters`. `last` holds
  an invocation only until the next, so what has to be shown is what `Bind`
  computes. `After` is the invariant of its loop, as one would state it for the
  code: after `n` rounds the first `n` parameters have their arguments
  (`InPlace`) and `next` is the number of the next positional one. `Places` counts
  the parameters that serverwamp does not fill in, which is why `next` and
  `Position` agree; `ByNameFinds` says which keyword a name gets when two keys
  become it; `BindsNext` is a round, and `PlacesDiffer` that no argument is
  used twice, for which the parameters must have different names.
* `RealmArgumentsAreInPlace`: `CallingSpec => []RealmArgumentsInPlace`, with a loop
  invariant (`Right`, in `RealmArgsInPlace`) that stops at the first parameter nobody
  knows, as the property does. Both properties compare the last invocation with
  the defaults of the realm now, which agree because nothing is awaited in an
  invocation: `SetDefaultArg` wants `last = Idle`.

The loops are recursive functions of the number of rounds, and their invariants
are shown by induction over it. The library states induction with an operator as
parameter, which the installed provers cannot instantiate; `Induction` in both
modules states it of a *set* that holds 0 and is closed under successor, and
follows from the order of the naturals being well-founded.

### Only model-checked

`DisconnectEndsSession`, `RequestsEnd` and `GoneClientsForgotten`: liveness under
fairness is out of the prover's reach, as `ENABLED` is.

## 6. Not modelled

* JSON and msgpack themselves, and how the three JSON libraries differ in byte
  strings (`json.py` 30-84): data conversion without state. A message is as
  many units as its size.
* Cookies and the rest of `transport_info`: they are copied for user code and
  never looked at. (`scope_cookies` compares the byte strings of ASGI headers
  with a string, so that it never finds any.)
* `send_msgs` of the adapters: nothing in the application layer calls it;
  `EncodeAll` has it write the client's batches.
* The custom state dictionary and identity of a session; authentication handlers
  that replace the default one; `*args` and `**kwargs` of procedures.
* The tables of route definitions, filled when a program is configured, and the
  `asynccontextmanager` backport, which is the standard library's.
* A time limit for HELLO: there is none in the code.

`PROJECT.json` lists every part and, under `hazards`, what of it is hard to test,
with the properties that cover it or why none does.

## 7. Plan

Done: the application layer with its runs and first theorems; `Conversation` and
its refinement; the three async supports; framing, parsing and the two
transports, with `Channel` and its refinement; routers in use.

Done as well: all safety properties that passing runs check as theorems, and
both refinements, `Spec => ImplementsConversation` and `Spec => ImplementsChannel`
(section 5).

Left:

1. Statements of the documentation without a run: `closed_with_connection` and
   "implicitly closed" sessions (`docs/advanced_usage.rst:49-51`), whose
   `is_open` nobody clears; progress reports as in section 4.
2. `Channel` from below, as `Application` uses it: its queue of messages as an
   instance of `Channel` itself, where now the two are stated side by side.

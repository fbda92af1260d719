------------------------------- MODULE Serving -------------------------------
(***************************************************************************)
(* One client's connection from the web server to the task group of its     *)
(* session: adapters/asgi.py and adapters/aiohttp.py over Framing, and the   *)
(* handlers of application.py that feed their messages to handle_session, in *)
(* a TaskGroup.  What Application models in detail is coarse here: the realm *)
(* authenticates everyone and has no session state, and every request is a   *)
(* call with one reply.                                                      *)
(***************************************************************************)
EXTENDS Framing, Parsing, TaskGroup

CONSTANTS
    Shape,                   \* Shape[m]: the type and kinds of fields of m
    Requests,                \* what clients send
    Replies,                 \* what procedures may answer
    Welcome, Abort,          \* the server's own messages
    NoProtocol, Damage,
    MaxSent,                 \* bound: messages a client sends
    MaxFrames                \* bound: frames on their way to the server

ASSUME ServingAssumption ==
    /\ Requests \cup Replies \cup {Welcome, Abort} \subseteq Messages
    /\ \A m \in Requests : RequestFrom(Shape[m]) \in {"HELLO", "CALL", "rejected", "raises"}
    /\ NoProtocol \notin Protocols
    /\ Damage \notin Messages
    /\ MaxSent \in Nat /\ MaxFrames \in Nat

(* A client has four bytes for a length, too.                               *)
ASSUME RequestSizeAssumption == \A m \in Requests : SizeOf[m] < Width

VARIABLES
    server,                  \* the web server: "asgi" or "aiohttp"
    pc,                      \* where the connection's coroutine is
    protocol,                \* the negotiated WebSocket subprotocol
    link,                    \* "up" or "down"
    inbox,                   \* frames on their way, oldest first
    reading,                 \* the payload the iterator is in, and how far
    reader,                  \* iterate_msgs
    said,                    \* what the client sent that must be heard of
    got,                     \* what iterate_msgs yielded
    heard,                   \* the frames the client was sent
    replied                  \* the messages in them

served == <<server, protocol>>
stream == <<reading, reader, got>>
client == <<inbox, said>>
sent == <<heard, replied>>
transportVars == <<served, stream, client, sent, link>>
vars == <<pc, transportVars, groupVars>>

NoPayload == [data |-> <<>>, at |-> 1]
Kind(m) == RequestFrom(Shape[m])

TypeOK ==
    /\ GroupTypeOK
    /\ server \in {"asgi", "aiohttp"} /\ (server = "aiohttp" => support = "asyncio")
    /\ pc \in {"connecting", "hello", "loop", "ending", "session over", "done"}
    /\ protocol \in Protocols \cup {NoProtocol}
    /\ pc \notin {"connecting", "done"} => protocol \in Protocols
    /\ link \in {"up", "down"}
    /\ \A i \in DOMAIN inbox : inbox[i].type \in {"text", "bytes"} /\ inbox[i].data # <<>>
    /\ Len(inbox) <= MaxFrames
    /\ reader \in {"open", "ended", "failed", "aborted"}
    /\ got \in Seq(Messages) /\ Len(got) <= MaxSent
    /\ said \in Seq(Messages \cup {Damage})
    /\ replied \in Seq(Messages) /\ Len(heard) = Len(replied)

Init ==
    /\ GroupInit
    /\ server \in {"asgi", "aiohttp"} /\ (server = "aiohttp" => support = "asyncio")
    /\ pc = "connecting"
    /\ protocol = NoProtocol
    /\ link = "up"
    /\ inbox = <<>> /\ reading = NoPayload /\ reader = "open"
    /\ said = <<>> /\ got = <<>> /\ heard = <<>> /\ replied = <<>>

-----------------------------------------------------------------------------
(* Negotiation.                                                             *)

Protocol(codec, batched) == [codec |-> codec, batched |-> batched]

(* SUPPORTED_WS_PROTOCOLS of the ASGI adapter, in order of preference.      *)
Preference == <<Protocol("msgpack", TRUE), Protocol("msgpack", FALSE),
                Protocol("json", TRUE), Protocol("json", FALSE)>>

(* Mutant: a client that offers nothing it knows is accepted without any.   *)
MutantNegotiateNone(offered) ==
    IF offered = {} THEN {NoProtocol}
    ELSE IF server = "aiohttp" THEN offered
    ELSE {Preference[SelectInSeq(Preference, LAMBDA p : p \in offered)]}

(* The ASGI adapter accepts with its favourite of the client's protocols,   *)
(* or with its first if the client knows none of them; aiohttp takes the     *)
(* first one on the client's list that it knows.                             *)
Negotiated(offered) ==
    IF server = "aiohttp" THEN offered
    ELSE IF offered = {} THEN {Preference[1]}
    ELSE {Preference[SelectInSeq(Preference, LAMBDA p : p \in offered)]}

Connect ==
    /\ pc = "connecting"
    /\ \E offered \in SUBSET Protocols : protocol' \in Negotiated(offered)
    /\ pc' = "hello"
    /\ UNCHANGED <<server, link, stream, client, sent, groupVars>>

(* No WebSocket, a path that is not served (ASGI), or no common protocol    *)
(* (aiohttp): an HTTP answer or an exception, and no session.                *)
NotServed ==
    /\ pc = "connecting"
    /\ pc' = "done" /\ link' = "down"
    /\ UNCHANGED <<served, stream, client, sent, groupVars>>

-----------------------------------------------------------------------------
(* The client.                                                              *)

(* What is sent to a coroutine that reads no more makes no difference.      *)
Awaiting == pc \in {"hello", "loop"} /\ reader = "open"
Connected == Awaiting /\ link = "up"
Intact == \A i \in DOMAIN said : said[i] # Damage

Put(type, data, spoken) ==
    /\ Len(inbox) < MaxFrames
    /\ Len(said) + Len(spoken) <= MaxSent
    /\ inbox' = Append(inbox, [type |-> type, data |-> data])
    /\ said' = said \o spoken
    /\ UNCHANGED <<served, pc, link, stream, sent, groupVars>>

Batches ==
    {<<m>> : m \in Requests}
        \cup (IF protocol.batched THEN {<<m, n>> : m, n \in Requests} ELSE {})

SendFrame ==
    /\ Connected /\ Intact
    /\ \E ms \in Batches : Put(DataType(protocol), EncodeAll(protocol, ms), ms)

(* A frame that was cut short or lies about a length, after at most one     *)
(* message that is as it should be.                                          *)
Tails ==
    LET cut(m) == SubSeq(Serialised(m), 1, SizeOf[m] - 1) IN
    UNION {IF ~protocol.batched \/ protocol.codec = "json" THEN {cut(m)}
           ELSE {<<Length(SizeOf[m])>> \o cut(m), <<Length(SizeOf[m] - 1)>> \o Serialised(m)}
              : m \in {n \in Requests : SizeOf[n] > 1}}

SendDamaged ==
    /\ Connected /\ Intact
    /\ \E tail \in Tails, ms \in {<<>>} \cup Batches :
        /\ Len(ms) <= IF protocol.batched THEN 1 ELSE 0
        /\ Put(DataType(protocol), EncodeAll(protocol, ms) \o tail, ms \o <<Damage>>)

(* A batch whose only length says more than there is, which the slice of    *)
(* the reader hides.                                                         *)
SendOverlong ==
    /\ Connected /\ Intact /\ protocol = Preference[1]
    /\ \E m \in Requests :
        /\ SizeOf[m] + 1 < Width
        /\ Put(DataType(protocol), <<Length(SizeOf[m] + 1)>> \o Serialised(m), <<m>>)

(* A frame of the other data type, which aiohttp's connections skip.        *)
SendWrongType ==
    /\ Connected /\ Intact
    /\ \E type \in {"text", "bytes"} \ {DataType(protocol)}, m \in Requests :
        Put(type, Serialised(m), IF server = "asgi" THEN <<Damage>> ELSE <<>>)

ClientLeaves ==
    /\ link = "up" /\ link' = "down"
    /\ UNCHANGED <<served, pc, stream, client, sent, groupVars>>

-----------------------------------------------------------------------------
(* send_msg, of anyone: a message that cannot be encoded, or is sent on a   *)
(* link that is down, is lost, and raises.                                   *)
Sendable(m) == link = "up" /\ CanEncode(server, protocol, m)

Say(m) ==
    IF Sendable(m)
    THEN /\ heard' = Append(heard, [type |-> DataType(protocol), data |-> Encode(protocol, m)])
         /\ replied' = Append(replied, m)
    ELSE UNCHANGED sent

(* Connection.abort: says so and closes, the latter in any case.            *)
AbortConnection == Say(Abort) /\ link' = "down"

(* iterate_msgs comes to its next frame.  A frame of the wrong type aborts  *)
(* an ASGI connection from inside of the iterator, unless the web server     *)
(* has the key of the right type too, with None for a value, which no        *)
(* decoder takes.                                                            *)
Through == Exhausted(protocol, reading.data, reading.at)

ReadFrame ==
    /\ Awaiting /\ Through /\ inbox # <<>>
    /\ inbox' = Tail(inbox)
    /\ \/ /\ Head(inbox).type = DataType(protocol)
          /\ reading' = [data |-> Head(inbox).data, at |-> 0]
          /\ UNCHANGED <<link, reader, sent>>
       \/ /\ Head(inbox).type # DataType(protocol) /\ server = "aiohttp"
          /\ UNCHANGED <<link, reading, reader, sent>>
       \/ /\ Head(inbox).type # DataType(protocol) /\ server = "asgi"
          /\ AbortConnection
          /\ reader' = IF Sendable(Abort) THEN "aborted" ELSE "failed"
          /\ UNCHANGED reading
       \/ /\ Head(inbox).type # DataType(protocol) /\ server = "asgi"
          /\ reader' = "failed"
          /\ UNCHANGED <<link, reading, sent>>
    /\ UNCHANGED <<served, pc, said, got, groupVars>>

(* Mutant: a disconnect does not end the iteration.                         *)
MutantIgnoreDisconnect ==
    /\ Awaiting /\ Through /\ inbox = <<>> /\ link = "down"
    /\ UNCHANGED vars

ReadEnd ==
    /\ Awaiting /\ Through /\ inbox = <<>> /\ link = "down"
    /\ reader' = "ended"
    /\ UNCHANGED <<served, pc, link, client, reading, got, sent, groupVars>>

Upcoming == NextObject(protocol, reading.data, reading.at)

ReadDamage ==
    /\ Awaiting /\ ~Through /\ Decoded(Upcoming.units) = {}
    /\ reader' = "failed"
    /\ UNCHANGED <<served, pc, link, client, reading, got, sent, groupVars>>

(* The iterator yields one message, to whoever is in its loop.              *)
Yield(m) ==
    /\ Awaiting /\ ~Through /\ m \in Decoded(Upcoming.units)
    /\ reading' = [reading EXCEPT !.at = Upcoming.at]
    /\ got' = Append(got, m)
    /\ UNCHANGED <<served, client, reader>>

-----------------------------------------------------------------------------
(* handle_connection.                                                       *)

(* Mutant: the session iterates over messages of its own.                   *)
MutantIterateAfresh(m) ==
    /\ Awaiting /\ ~Through /\ m \in Decoded(Upcoming.units)
    /\ reading' = NoPayload
    /\ got' = Append(got, m)
    /\ UNCHANGED <<served, client, reader>>

TakeHello(m) == Yield(m)

(* The first message.  The session starts with HELLO, and its WELCOME may   *)
(* be lost.                                                                  *)
Hello ==
    \E m \in Messages :
        /\ pc = "hello" /\ Kind(m) = "HELLO" /\ TakeHello(m)
        /\ Open
        /\ Say(Welcome)
        /\ pc' = IF Sendable(Welcome) THEN "loop" ELSE "ending"
        /\ UNCHANGED link

NoHello ==
    \E m \in Messages :
        /\ pc = "hello" /\ Kind(m) # "HELLO" /\ Yield(m)
        /\ pc' = "done"
        /\ IF Kind(m) = "raises" THEN link' = "down" /\ UNCHANGED sent
           ELSE AbortConnection
        /\ UNCHANGED groupVars

(* The iterator ended or raised before any message.                         *)
LeaveBeforeHello ==
    /\ pc = "hello" /\ reader # "open"
    /\ pc' = "done" /\ link' = "down"
    /\ UNCHANGED <<served, stream, client, sent, groupVars>>

(* The message loop: a call is spawned; a message that is rejected aborts   *)
(* the connection; one without a handler, or too short, raises.              *)
Call ==
    \E m \in Messages, k \in Tasks :
        /\ pc = "loop" /\ Kind(m) = "CALL" /\ Yield(m)
        /\ \A j \in Tasks : j < k <=> task[j] # "none"
        /\ Spawn(k)
        /\ UNCHANGED <<pc, link, sent>>

End(how) == BodyEnds(how) /\ pc' = "session over"

Reject ==
    \E m \in Messages :
        /\ pc = "loop" /\ Kind(m) = "rejected" /\ Yield(m)
        /\ AbortConnection
        /\ End(IF Sendable(Abort) THEN "return" ELSE "raise")

Unhandled ==
    \E m \in Messages :
        /\ pc = "loop" /\ Kind(m) \in {"HELLO", "raises"} /\ Yield(m)
        /\ End("raise")
        /\ UNCHANGED <<link, sent>>

LeaveLoop ==
    /\ \/ pc = "loop" /\ reader # "open" /\ End(IF reader = "failed" THEN "raise" ELSE "return")
       \/ pc = "ending" /\ End("raise")
       \/ pc = "loop" /\ Scoped /\ End("raise")
    /\ UNCHANGED transportVars

(* The web framework cancels the coroutine, and closes what is left open    *)
(* when it is done.                                                          *)
FrameworkCancels ==
    /\ \/ pc \in {"connecting", "hello"} /\ pc' = "done" /\ UNCHANGED groupVars
       \/ pc = "loop" /\ End("raise")
       \/ pc = "session over" /\ CancelLeaving /\ UNCHANGED pc
    /\ UNCHANGED transportVars

Done == pc = "done" \/ group \in Left

FrameworkCloses ==
    /\ Done /\ link = "up" /\ link' = "down"
    /\ UNCHANGED <<served, pc, stream, client, sent, groupVars>>

-----------------------------------------------------------------------------
(* Tasks and the clean-up.                                                  *)

Reply(k) ==
    /\ task[k] = "running"
    /\ \E m \in Replies :
        \/ Sendable(m) /\ Say(m) /\ TaskEnds(k)
        \/ ~Sendable(m) /\ TaskRaises(k) /\ UNCHANGED sent
    /\ UNCHANGED <<served, pc, link, client, stream>>

(* User code raises, or a cancelled task ends.                              *)
TaskStops(k) ==
    /\ TaskRaises(k) \/ (task[k] = "cancelling" /\ TaskEnds(k))
    /\ UNCHANGED <<pc, transportVars>>

CleanUp ==
    /\ \E how \in {"ended", "failed"} : CleanupEnds(how)
    /\ UNCHANGED <<pc, transportVars>>

Terminated ==
    /\ Done /\ link = "down" /\ Alive(task) = {} /\ cleanup # "running"
    /\ UNCHANGED vars

Client == SendFrame \/ SendDamaged \/ SendOverlong \/ SendWrongType \/ ClientLeaves

Coroutine ==
    \/ Connect \/ NotServed \/ ReadFrame \/ ReadEnd \/ ReadDamage
    \/ Hello \/ NoHello \/ LeaveBeforeHello
    \/ Call \/ Reject \/ Unhandled \/ LeaveLoop

Task(k) == Reply(k) \/ TaskStops(k)

Next ==
    \/ Client \/ Coroutine \/ FrameworkCancels \/ FrameworkCloses \/ CleanUp
    \/ \E k \in Tasks : Task(k)
    \/ Terminated

Spec == Init /\ [][Next]_vars

(* The event loop runs what is ready, sends and user code end, and a task   *)
(* that was cancelled is given its chance to end.                            *)
Fairness ==
    /\ WF_vars(Coroutine)
    /\ WF_vars(CleanUp)
    /\ \A k \in Tasks : WF_vars(Task(k))

FairSpec == Spec /\ Fairness

-----------------------------------------------------------------------------
(* What the server is given of a client's messages is what module Channel   *)
(* promises, whatever the protocol, however messages are spread over frames  *)
(* and wherever the session takes over from the wait for HELLO.              *)
Promised == INSTANCE Channel WITH
    state <- CASE reader = "open" -> "open"
               [] reader = "ended" -> "ended"
               [] reader \in {"failed", "aborted"} -> "failed"

ImplementsChannel == Promised!Spec

(* A client that knows the protocol finds in every frame the message that   *)
(* was sent and, in a batch with lengths, that the length says where it ends *)
(* (a reader of this project's own would not notice): a length never comes   *)
(* out as another number than went in, and what cannot be said that way is   *)
(* not sent.                                                                 *)
RepliesReadBack ==
    \A i \in DOMAIN heard :
        LET frame == heard[i]
            outcome == ReadAll(protocol, frame.data)
        IN  /\ frame.type = DataType(protocol)
            /\ outcome.ok /\ outcome.read = <<replied[i]>>
            /\ protocol = Preference[1] => outcome.at = Len(frame.data)

(* A group that was left has no task that nobody has told to stop, and a    *)
(* structured one, or one that was left in peace, has none at all.           *)
NoOrphans ==
    group \in Left =>
        /\ \A k \in Tasks : task[k] # "running"
        /\ Structured \/ group = "returned" => Alive(task) = {}

(* The session of a client that is gone comes to its end, and so does all   *)
(* that it had begun.                                                        *)
GoneClientsForgotten ==
    link = "down" ~> Done /\ Alive(task) = {} /\ cleanup # "running"

(* CHANGELOG.md: "Session cleanup operations specifically shielded from     *)
(* cancellation."  Whatever async_support the application has, a session     *)
(* that is over has begun its clean-up.                                      *)
SessionsCleanedUp == group \in Left => cleanup # "none"
=============================================================================

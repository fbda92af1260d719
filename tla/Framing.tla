------------------------------- MODULE Framing -------------------------------
(***************************************************************************)
(* What one WebSocket payload holds: helpers.py, json.py and the           *)
(* iterate_msgs and send_msg of the connection classes in adapters/asgi.py  *)
(* and adapters/aiohttp.py.  A payload is a sequence of units; a serialised *)
(* message is as many units as its size, a JSON batch splits messages with  *)
(* a character, a msgpack batch puts a 32-bit length before each.           *)
(***************************************************************************)
EXTENDS Integers, SequencesExt

CONSTANTS
    Messages,                \* the messages either side may send
    SizeOf,                  \* SizeOf[m]: the units of m once serialised
    Binary,                  \* the messages that hold byte strings
    LengthLimit              \* what a signed length cannot say, 2^31 in the code

ASSUME FramingAssumption ==
    /\ Binary \subseteq Messages
    /\ LengthLimit \in Nat \ {0}
    /\ SizeOf \in [Messages -> Nat \ {0}]

Protocols == [codec : {"json", "msgpack"}, batched : BOOLEAN]

(* The data type of the WebSocket messages of a protocol.                   *)
DataType(p) == IF p.codec = "json" THEN "text" ELSE "bytes"

Splitter == <<"splitter">>
Serialised(m) == [i \in 1 .. SizeOf[m] |-> <<m, i>>]

(* Lengths are packed as signed (pack_uint32_be, which raises if one does   *)
(* not fit) and unpacked as unsigned integers.  Clients may pack one that is *)
(* not: four bytes hold no more than this of it.                             *)
Width == 2 * LengthLimit

(* Mutant: lengths are packed without a look at whether they fit.           *)
MutantPackAnything(n) == TRUE

Packable(n) == n < LengthLimit
Length(n) == <<"length", n % Width>>

UnpackLength(unit) == unit[2]

(* send_msg: one message to a payload, which may not be possible.  aiohttp's *)
(* own send_json, which its unbatched JSON connection uses, takes no bytes.  *)
CanEncode(server, p, m) ==
    CASE p.batched /\ p.codec = "msgpack" -> Packable(SizeOf[m])
      [] ~p.batched /\ p.codec = "json" /\ server = "aiohttp" -> m \notin Binary
      [] OTHER -> TRUE

Encode(p, m) ==
    IF ~p.batched THEN Serialised(m)
    ELSE IF p.codec = "json" THEN Serialised(m) \o <<Splitter>>
    ELSE <<Length(SizeOf[m])>> \o Serialised(m)

EncodeAll(p, ms) == FlattenSeq([i \in DOMAIN ms |-> Encode(p, ms[i])])

-----------------------------------------------------------------------------
(* Reading a payload from position `at' on, as the generators do.           *)

(* The units of a JSON batch that are left and belong to messages.          *)
TextLeft(data, at) == {i \in at + 1 .. Len(data) : data[i] # Splitter}

Exhausted(p, data, at) ==
    CASE ~p.batched -> at > 0
      [] p.batched /\ p.codec = "json" -> TextLeft(data, at) = {}
      [] p.batched /\ p.codec = "msgpack" -> at >= Len(data)

(* The next object: its units and the position after it.  Slices past the   *)
(* end of a payload are cut short without an error.                         *)
NextObject(p, data, at) ==
    CASE ~p.batched -> [units |-> data, at |-> Len(data) + 1]
      [] p.batched /\ p.codec = "json" ->
            LET first == Min(TextLeft(data, at))
                last == Max({j \in first .. Len(data) :
                                \A i \in first .. j : data[i] # Splitter})
            IN  [units |-> SubSeq(data, first, last), at |-> last]
      [] p.batched /\ p.codec = "msgpack" ->
            LET end == at + 1 + UnpackLength(data[at + 1])
            IN  [units |-> SubSeq(data, at + 2, Min({end, Len(data)})), at |-> end]

(* deserialize and msgpack.unpackb raise unless the units are one message's.*)
Decoded(units) == {m \in Messages : Serialised(m) = units}

(* One round of a reader that has got as far as acc says; it raises for     *)
(* units that are no message.                                               *)
ReadOn(p, data, acc) ==
    IF ~acc.ok \/ Exhausted(p, data, acc.at) THEN acc
    ELSE LET next == NextObject(p, data, acc.at)
             m == Decoded(next.units)
         IN  [ok |-> m # {}, at |-> next.at, read |-> acc.read \o SetToSeq(m)]

(* All a reader makes of a payload, in no more rounds than it has units.    *)
ReadAll(p, data) ==
    LET rounds[n \in 0 .. Len(data)] ==
            IF n = 0 THEN [ok |-> TRUE, at |-> 0, read |-> <<>>]
            ELSE ReadOn(p, data, rounds[n - 1])
    IN  rounds[Len(data)]
=============================================================================

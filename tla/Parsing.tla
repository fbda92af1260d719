------------------------------- MODULE Parsing -------------------------------
(***************************************************************************)
(* What the server takes a message for: wamp_request_from_msg and the       *)
(* from_msg_data of the requests in serverwamp/protocol.py.  A message is    *)
(* the sequence of its type and the kinds of its fields, "int", "str" or     *)
(* anything else.                                                            *)
(***************************************************************************)
EXTENDS Naturals, Sequences

(* The fields that the constructors of the requests read; others are         *)
(* optional.                                                                 *)
HelloReads == 2
CallReads == 3
SubscribeReads == 3
UnsubscribeReads == 2
GoodbyeReads == 2

FieldsRead ==
    [HELLO |-> HelloReads, CALL |-> CallReads, SUBSCRIBE |-> SubscribeReads,
     UNSUBSCRIBE |-> UnsubscribeReads, GOODBYE |-> GoodbyeReads]

(* The only fields that are looked at: a call's id and URI.                  *)
WellTyped(shape) ==
    shape[1] = "CALL" => shape[2] = "int" /\ shape[4] = "str"

(* The request, "rejected" for a WAMPMsgParseError, or "raises" for another *)
(* exception: the KeyErrors that the constructors expect of a missing field *)
(* are IndexErrors, which nobody catches.                                    *)
RequestFrom(shape) ==
    IF shape = <<>> THEN "raises"
    ELSE IF shape[1] \notin DOMAIN FieldsRead THEN "rejected"
    ELSE IF Len(shape) <= FieldsRead[shape[1]] THEN "raises"
    ELSE IF WellTyped(shape) THEN shape[1] ELSE "rejected"
=============================================================================

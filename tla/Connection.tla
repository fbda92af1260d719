----------------------------- MODULE Connection -----------------------------
(***************************************************************************)
(* The transport as the application layer sees it: serverwamp/connection.py *)
(* and the adapters' subclasses of it.  A connection hands messages to the  *)
(* client in the order send_msg is called and is up until either side       *)
(* closes it.  `out' keeps everything the client was sent: the properties   *)
(* are about it.                                                            *)
(*                                                                         *)
(* `await send_msg' is two steps of a coroutine: the call, which appends,  *)
(* and the resumption, a later action of the caller, which may raise once  *)
(* the link is down (SendRaises).  A transport that does not suspend is     *)
(* the schedule in which the resumption comes next.                         *)
(***************************************************************************)
EXTENDS Naturals, Sequences

CONSTANT Conns               \* the connections the server is given

VARIABLES
    link,                    \* link[c]: is the transport of c up or down
    out                      \* out[c]: the messages c was sent, oldest first

connectionVars == <<link, out>>

MsgTypes == {"CHALLENGE", "WELCOME", "ABORT", "GOODBYE", "RESULT", "PROGRESS",
             "ERROR", "SUBSCRIBED", "UNSUBSCRIBED", "EVENT"}

(* A message and what it refers to: the number of the request it answers,   *)
(* the subscription id of an EVENT, 0 for the messages about the session.   *)
Msg(type, ref) == [type |-> type, ref |-> ref]
Messages == [type : MsgTypes, ref : Nat]

ConnectionTypeOK ==
    /\ link \in [Conns -> {"up", "down"}]
    /\ out \in [Conns -> Seq(Messages)]

ConnectionInit ==
    /\ link = [c \in Conns |-> "up"]
    /\ out = [c \in Conns |-> <<>>]

SendMsg(c, m) ==
    out' = [out EXCEPT ![c] = IF link[c] = "up" THEN Append(@, m) ELSE @]

SendRaises(c) == link[c] = "down"

(* Connection.close(): by the server, or by the web framework after the     *)
(* connection's handler is done.                                            *)
CloseLink(c) == link' = [link EXCEPT ![c] = "down"]

(* The messages of the given types that c was sent, and their number.       *)
Sent(c, types) == {i \in DOMAIN out[c] : out[c][i].type \in types}

(* The client, or the network, ends the connection.                         *)
Disconnect(c) ==
    /\ link[c] = "up"
    /\ CloseLink(c)
    /\ UNCHANGED out
=============================================================================

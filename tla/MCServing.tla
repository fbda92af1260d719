----------------------------- MODULE MCServing -----------------------------
(* One client, whose messages are a HELLO of two units, a call that is too  *)
(* long for a signed length but not for an unsigned one, here of three bits, *)
(* a call whose id has the wrong type and one too short; and two results, of *)
(* which one is too long for either.                                         *)
EXTENDS Serving, TLC

MCShape ==
    [hello |-> <<"HELLO", "str", "dict">>, call |-> <<"CALL", "int", "dict", "str">>,
     odd |-> <<"CALL", "str", "dict", "str">>, short |-> <<"CALL", "int">>,
     welcome |-> <<"WELCOME", "int", "dict">>, abort |-> <<"ABORT", "dict", "str">>,
     result |-> <<"RESULT", "int", "dict">>, big_result |-> <<"RESULT", "int", "dict", "list">>]
MCRequests == {"hello", "call", "odd", "short"}
MCMessages == DOMAIN MCShape
MCSizeOf ==
    [m \in MCMessages |-> CASE m = "big_result" -> 9 [] m = "call" -> 4
                            [] m = "hello" -> 2 [] OTHER -> 1]
MCReplies == {"result", "big_result"}
MCBinary == {"big_result"}
=============================================================================

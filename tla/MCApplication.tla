--------------------------- MODULE MCApplication ---------------------------
(* Small instances of the application layer: what the .cfg files assign to  *)
(* the constants of Application that are not model values or numbers.       *)
EXTENDS ApplicationProperties, TLC

CONSTANTS t1, t2, t3         \* topics; t3 stands for a topic hash collision

(* Two ids: t2 has its own, t1 and t3 hash to the same.                     *)
MCSubIds == {1, 2}
MCSubIdOf == [t \in Topics |-> IF t = t2 THEN 2 ELSE 1]

MCCallOnly == {[kind |-> "CALL", receive_progress |-> TRUE]}
MCGoodbye == {[kind |-> "GOODBYE"]}
MCSubscriptions ==
    {[kind |-> "SUBSCRIBE", topic |-> t] : t \in Topics}
    \cup {[kind |-> "UNSUBSCRIBE", id |-> MCSubIdOf[t]] : t \in Topics}
MCCallAndSubscribe ==
    MCCallOnly \cup {[kind |-> "SUBSCRIBE", topic |-> t] : t \in Topics}

(* The connections are interchangeable.                                     *)
MCSymmetry == Permutations(Conns)

MCMixed == MCCallOnly \cup MCGoodbye \cup MCSubscriptions
=============================================================================

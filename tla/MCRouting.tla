------------------------------ MODULE MCRouting ------------------------------
(* Two URIs and every pattern that matches one or both; two handlers, with a  *)
(* parameter that serverwamp fills in between others, one that is            *)
(* keyword-only, one named in camel case, and a default that does not fit its *)
(* type hint.                                                                *)
EXTENDS Calling

CONSTANTS h1, h2

MCPatterns == SUBSET Uris \ {{}}

MCKeys == {"x", "xCamel", "y", "session"}
MCSnake == [k \in MCKeys |-> IF k = "xCamel" THEN "x" ELSE k]
MCNames == {"session", "x", "xCamel", "y"}

MCSignature ==
    [h \in Handlers |->
        IF h = h1
        THEN <<[name |-> "x", positional |-> TRUE, typed |-> FALSE, default |-> "none"],
               [name |-> "session", positional |-> TRUE, typed |-> FALSE, default |-> "none"],
               [name |-> "y", positional |-> TRUE, typed |-> TRUE, default |-> "unfit"],
               [name |-> "xCamel", positional |-> TRUE, typed |-> FALSE, default |-> "fits"]>>
        ELSE <<[name |-> "x", positional |-> TRUE, typed |-> TRUE, default |-> "fits"],
               [name |-> "y", positional |-> FALSE, typed |-> FALSE, default |-> "none"]>>]
=============================================================================

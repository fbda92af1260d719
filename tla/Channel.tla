------------------------------- MODULE Channel -------------------------------
(***************************************************************************)
(* What a transport promises the server about a client's messages, said     *)
(* without frames, batches and serialisations: each arrives once and in     *)
(* order, the end of the conversation is reported after the last of them,   *)
(* and damage only where there is some.  Serving implements it.             *)
(***************************************************************************)
EXTENDS Naturals, Sequences

CONSTANTS
    Messages,
    Damage                   \* what the server cannot read, no message

VARIABLES
    said,                    \* what the client sent
    got,                     \* what the server was given of it
    state                    \* "open", "ended" or "failed"

vars == <<said, got, state>>

Init == said = <<>> /\ got = <<>> /\ state = "open"

Say ==
    /\ said' \in Seq(Messages \cup {Damage})
    /\ Len(said') > Len(said) /\ SubSeq(said', 1, Len(said)) = said
    /\ UNCHANGED <<got, state>>

(* What comes next for the server.                                          *)
Pending == Len(got) < Len(said)
Upcoming == said[Len(got) + 1]

Get ==
    /\ state = "open" /\ Pending /\ Upcoming # Damage
    /\ got' = Append(got, Upcoming)
    /\ UNCHANGED <<said, state>>

End ==
    /\ state = "open" /\ ~Pending
    /\ state' = "ended"
    /\ UNCHANGED <<said, got>>

Fail ==
    /\ state = "open" /\ Pending /\ Upcoming = Damage
    /\ state' = "failed"
    /\ UNCHANGED <<said, got>>

Next == Say \/ Get \/ End \/ Fail

Spec == Init /\ [][Next]_vars
=============================================================================

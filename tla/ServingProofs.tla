---------------------------- MODULE ServingProofs ----------------------------
(***************************************************************************)
(* Theorems about module Serving, for any messages, sizes and bounds: the   *)
(* task group of a session, on each async support, leaves no task behind;    *)
(* what the server is given of a client's frames is what module Channel      *)
(* promises; and what the server sends reads back as what it sent.           *)
(***************************************************************************)
EXTENDS Serving, SequenceTheorems, FiniteSetTheorems, WellFoundedInduction, TLAPS

(* Induction over the natural numbers, as a property of sets.               *)
LEMMA Induction ==
    ASSUME NEW T, 0 \in T, \A n \in Nat : n \in T => n + 1 \in T
    PROVE  Nat \subseteq T
<1> SUFFICES ASSUME Nat \ T # {} PROVE FALSE
  OBVIOUS
<1> DEFINE R == OpToRel(<, Nat)
<1>0. R = {ss \in Nat \X Nat : ss[1] < ss[2]}
  BY Zenon DEF OpToRel
<1>1. PICK x \in Nat \ T : \A y \in Nat \ T : <<y, x>> \notin R
  BY NatLessThanWellFounded, WFMin
<1>2. x # 0 /\ x - 1 \in Nat
  OBVIOUS
<1> HIDE DEF R
<1>3. <<x - 1, x>> \in R
  BY <1>0, <1>2
<1> QED
  BY <1>1, <1>2, <1>3

USE ServingAssumption, TaskGroupAssumption, FramingAssumption

USE DEF groupVars, served, stream, client, sent, transportVars, vars

-----------------------------------------------------------------------------
(* The task group.                                                          *)

(* Its variables are typed, and no task outlives it.                        *)
GroupInv == GroupTypeOK /\ NoOrphans

-----------------------------------------------------------------------------
(* Cancelling tells every running task to stop and touches no other.        *)
LEMMA CancelledTasks ==
    ASSUME NEW tasks \in [Tasks -> {"none", "running", "cancelling", "ended"}]
    PROVE  /\ Cancelled(tasks) \in [Tasks -> {"none", "running", "cancelling", "ended"}]
           /\ \A k \in Tasks : Cancelled(tasks)[k] # "running"
           /\ Alive(Cancelled(tasks)) = Alive(tasks)
  BY DEF Cancelled, Alive

(* Leaving with any tasks: whoever has left, or waits, keeps the invariant. *)
LEMMA LeaveInv ==
    ASSUME GroupInv,
           NEW tasks \in [Tasks -> {"none", "running", "cancelling", "ended"}],
           NEW raising \in BOOLEAN, Leave(tasks, raising),
           cleanup' \in {"none", "running", "ended", "failed"},
           cause' \in Ends \cup {"none"}
    PROVE  GroupInv'
<1>1. task' = IF raising THEN Cancelled(tasks) ELSE tasks
  BY DEF Leave, WaitForTasks
<1>2. GroupTypeOK'
  BY <1>1, CancelledTasks DEF GroupInv, GroupTypeOK, Leave, WaitForTasks, Left
<1>3. Alive(task') = Alive(tasks)
  BY <1>1, CancelledTasks
<1>4. CASE raising
  <2>1. \A k \in Tasks : task'[k] # "running"
    BY <1>1, <1>4, CancelledTasks
  <2>2. group' \in Left /\ Structured => Alive(tasks) = {}
    BY <1>4 DEF Leave, WaitForTasks, Left
  <2>3. group' # "returned"
    BY <1>4 DEF Leave, WaitForTasks
  <2> QED
    BY <1>2, <1>3, <2>1, <2>2, <2>3 DEF GroupInv, NoOrphans, Leave, Structured, Alive
<1>5. CASE ~raising
  <2>1. group' \in Left => Alive(tasks) = {}
    BY <1>5 DEF Leave, WaitForTasks, Left
  <2> QED
    BY <1>1, <1>2, <1>5, <2>1 DEF GroupInv, NoOrphans, Alive
<1> QED
  BY <1>4, <1>5

(* A task that stops while nobody waits: what is told to stop or has        *)
(* stopped only becomes more.                                               *)
LEMMA StopInv ==
    ASSUME GroupInv, NEW k \in Tasks, UNCHANGED <<support, group, cause, cleanup>>,
           failed' \in BOOLEAN, k \in Alive(task),
           \/ task' = [task EXCEPT ![k] = "ended"]
           \/ Structured /\ task' = Cancelled([task EXCEPT ![k] = "ended"])
    PROVE  GroupInv'
<1> DEFINE tasks == [task EXCEPT ![k] = "ended"]
<1>1. tasks \in [Tasks -> {"none", "running", "cancelling", "ended"}]
  BY DEF GroupInv, GroupTypeOK
<1>2. GroupTypeOK'
  BY <1>1, CancelledTasks DEF GroupInv, GroupTypeOK
<1>3. CASE task' = tasks
  BY <1>1, <1>2, <1>3 DEF GroupInv, GroupTypeOK, NoOrphans, Alive, Structured
<1>4. CASE Structured /\ task' = Cancelled(tasks)
  <2>1. group \notin Left
    BY <1>4 DEF GroupInv, NoOrphans
  <2> QED
    BY <1>2, <2>1 DEF GroupInv, NoOrphans
<1> QED
  BY <1>3, <1>4

-----------------------------------------------------------------------------
(* Every step of the group keeps the invariant.                             *)
LEMMA GroupStep ==
    ASSUME GroupInv, GroupNext \/ UNCHANGED groupVars
    PROVE  GroupInv'
<1>0. task \in [Tasks -> {"none", "running", "cancelling", "ended"}]
  BY DEF GroupInv, GroupTypeOK
<1>1. CASE Open
  BY <1>1 DEF Open, GroupInv, GroupTypeOK, NoOrphans, Left
<1>2. ASSUME NEW k \in Tasks, Spawn(k)
      PROVE  GroupInv'
  BY <1>2 DEF Spawn, GroupInv, GroupTypeOK, NoOrphans, Left
<1>3. ASSUME NEW end \in Ends, BodyEnds(end)
      PROVE  GroupInv'
  <2>1. CASE ShieldWaits(end)
    BY <1>3, <2>1 DEF ShieldWaits, GroupInv, GroupTypeOK, NoOrphans, Left
  <2>2. CASE ShieldForgets(end)
    <3>1. (failed \/ end = "raise") \in BOOLEAN
      BY DEF GroupInv, GroupTypeOK
    <3> QED
      BY <1>0, <2>2, <3>1, LeaveInv DEF ShieldForgets, Leave, GroupInv, GroupTypeOK
  <2>3. CASE ShieldRaises
    BY <1>0, <2>3, LeaveInv DEF ShieldRaises, Leave, GroupInv, GroupTypeOK
  <2> QED
    BY <1>3, <2>1, <2>2, <2>3 DEF BodyEnds
<1>4. ASSUME NEW how \in {"ended", "failed"}, CleanupEnds(how)
      PROVE  GroupInv'
  <2>1. CASE group = "shield"
    BY <1>0, <1>4, <2>1, LeaveInv DEF CleanupEnds, Leave, GroupInv, GroupTypeOK
  <2>2. CASE group # "shield"
    BY <1>4, <2>2 DEF CleanupEnds, GroupInv, GroupTypeOK, NoOrphans, Structured, Alive
  <2> QED
    BY <2>1, <2>2
<1>5. ASSUME NEW k \in Tasks, TaskEnds(k)
      PROVE  GroupInv'
  <2>1. [task EXCEPT ![k] = "ended"] \in [Tasks -> {"none", "running", "cancelling", "ended"}]
    BY <1>0
  <2>2. CASE group = "leaving"
    BY <1>5, <2>1, <2>2, LeaveInv DEF TaskEnds, Leave, GroupInv, GroupTypeOK
  <2>3. CASE group # "leaving"
    BY <1>5, <2>3, StopInv DEF TaskEnds, GroupInv, GroupTypeOK
  <2> QED
    BY <2>2, <2>3
<1>6. ASSUME NEW k \in Tasks, TaskRaises(k)
      PROVE  GroupInv'
  <2>1. [task EXCEPT ![k] = "ended"] \in [Tasks -> {"none", "running", "cancelling", "ended"}]
    BY <1>0
  <2>2. CASE group = "leaving"
    BY <1>6, <2>1, <2>2, LeaveInv DEF TaskRaises, Leave, GroupInv, GroupTypeOK
  <2>3. CASE group # "leaving" /\ Structured
    BY <1>6, <2>3, StopInv DEF TaskRaises, GroupInv, GroupTypeOK
  <2>4. CASE group # "leaving" /\ ~Structured
    BY <1>6, <2>4, StopInv DEF TaskRaises, GroupInv, GroupTypeOK
  <2> QED
    BY <2>2, <2>3, <2>4
<1>7. CASE CancelLeaving
  BY <1>0, <1>7, LeaveInv DEF CancelLeaving, Leave, GroupInv, GroupTypeOK
<1>8. CASE UNCHANGED groupVars
  BY <1>8 DEF GroupInv, GroupTypeOK, NoOrphans, Structured, Alive
<1> QED
  BY <1>1, <1>2, <1>3, <1>4, <1>5, <1>6, <1>7, <1>8 DEF GroupNext

-----------------------------------------------------------------------------
(* What a connection does to its task group is a step of the group.         *)
LEMMA EndIsGroupStep ==
    ASSUME NEW how \in Ends, End(how)
    PROVE  GroupNext
  BY DEF End, GroupNext

LEMMA ServingStep ==
    ASSUME Next
    PROVE  GroupNext \/ UNCHANGED groupVars
<1>1. CASE Client
  BY <1>1 DEF Client, SendFrame, SendDamaged, SendOverlong, SendWrongType, ClientLeaves, Put
<1>2. CASE Connect \/ NotServed \/ ReadFrame \/ ReadEnd \/ ReadDamage
  BY <1>2 DEF Connect, NotServed, ReadFrame, ReadEnd, ReadDamage
<1>3. CASE Hello \/ NoHello \/ LeaveBeforeHello
  BY <1>3 DEF Hello, NoHello, LeaveBeforeHello, GroupNext
<1>4. CASE Call
  BY <1>4 DEF Call, GroupNext
<1>5. CASE Reject \/ Unhandled
  BY <1>5, EndIsGroupStep DEF Reject, Unhandled, Ends
<1>6. CASE LeaveLoop
  BY <1>6, EndIsGroupStep DEF LeaveLoop, Ends
<1>7. CASE FrameworkCancels \/ FrameworkCloses
  BY <1>7, EndIsGroupStep DEF FrameworkCancels, FrameworkCloses, Ends, GroupNext
<1>8. CASE CleanUp
  BY <1>8 DEF CleanUp, GroupNext
<1>9. ASSUME NEW k \in Tasks, Task(k)
      PROVE  GroupNext
  BY <1>9 DEF Task, Reply, TaskStops, GroupNext
<1>10. CASE Terminated
  BY <1>10 DEF Terminated
<1> QED
  BY <1>1, <1>2, <1>3, <1>4, <1>5, <1>6, <1>7, <1>8, <1>9, <1>10 DEF Next, Coroutine

(* No session leaves a task behind: on asyncio, Trio and anyio alike, and   *)
(* however many calls a client makes, a group that was left has no task      *)
(* that was not told to stop, and on the latter two none at all.             *)
THEOREM NothingLeftBehind == Spec => []NoOrphans
<1>1. Init => GroupInv
  BY DEF Init, GroupInit, GroupInv, GroupTypeOK, NoOrphans, Left
<1>2. GroupInv /\ [Next]_vars => GroupInv'
  BY ServingStep, GroupStep
<1>3. GroupInv => NoOrphans
  BY DEF GroupInv
<1> QED
  BY <1>1, <1>2, <1>3, PTL DEF Spec

-----------------------------------------------------------------------------
(* Payloads.                                                                *)
(* What payloads are made of.                                               *)
Units == {<<m, i>> : m \in Messages, i \in Nat} \cup {Splitter} \cup {Length(n) : n \in Nat}

(* The least and the greatest of a set of positions.                        *)
LEMMA MinIs ==
    ASSUME NEW S \in SUBSET Nat, NEW x \in S, \A y \in S : x <= y
    PROVE  Min(S) = x
<1>1. Min(S) \in S /\ \A y \in S : Min(S) <= y
  <2>1. \E z \in S : \A y \in S : z <= y
    OBVIOUS
  <2> QED
    BY <2>1 DEF Min
<1>2. Min(S) \in Nat /\ x \in Nat
  BY <1>1
<1> QED
  BY <1>1, <1>2

LEMMA MaxIs ==
    ASSUME NEW S \in SUBSET Nat, NEW x \in S, \A y \in S : y <= x
    PROVE  Max(S) = x
<1>1. Max(S) \in S /\ \A y \in S : Max(S) >= y
  <2>1. \E z \in S : \A y \in S : z >= y
    OBVIOUS
  <2> QED
    BY <2>1 DEF Max
<1>2. Max(S) \in Nat /\ x \in Nat
  BY <1>1
<1> QED
  BY <1>1, <1>2

(* A serialised message: its units name it, and none is a splitter.         *)
LEMMA SerialisedUnits ==
    ASSUME NEW m \in Messages
    PROVE  /\ SizeOf[m] \in Nat \ {0}
           /\ Serialised(m) \in Seq(Units) /\ Len(Serialised(m)) = SizeOf[m]
           /\ \A i \in 1 .. SizeOf[m] :
                Serialised(m)[i] = <<m, i>> /\ <<m, i>> # Splitter
<1>1. SizeOf[m] \in Nat \ {0}
  OBVIOUS
<1>2. \A i \in 1 .. SizeOf[m] : <<m, i>> \in Units
  BY <1>1 DEF Units
<1>3. \A i \in 1 .. SizeOf[m] : <<m, i>> # Splitter
  BY DEF Splitter
<1> QED
  BY <1>1, <1>2, <1>3 DEF Serialised

(* Whole messages decode as what they are, and what is cut short as none.   *)
LEMMA DecodedWhole ==
    ASSUME NEW m \in Messages
    PROVE  Decoded(Serialised(m)) = {m}
<1>1. ASSUME NEW n \in Messages, Serialised(n) = Serialised(m)
      PROVE  n = m
  <2>1. Serialised(n)[1] = <<n, 1>> /\ Serialised(m)[1] = <<m, 1>>
    BY SerialisedUnits
  <2> QED
    BY <1>1, <2>1
<1> QED
  BY <1>1 DEF Decoded

LEMMA DecodedCut ==
    ASSUME NEW m \in Messages, NEW units, Len(units) # SizeOf[m], units[1] = <<m, 1>>
    PROVE  Decoded(units) = {}
<1> SUFFICES ASSUME NEW n \in Messages, Serialised(n) = units
             PROVE  FALSE
  BY DEF Decoded
<1>1. units[1] = <<n, 1>> /\ Len(units) = SizeOf[n]
  BY SerialisedUnits
<1> QED
  BY <1>1

-----------------------------------------------------------------------------
(* Where a reader is when it has read the payload pre up to its end: at the *)
(* end or, in a JSON batch, with nothing but splitters left; a reader of     *)
(* unbatched payloads has no such place.                                     *)
ReadyAfter(p, pre, at) ==
    /\ p.batched /\ pre \in Seq(Units) /\ at \in 0 .. Len(pre)
    /\ IF p.codec = "json" THEN \A i \in at + 1 .. Len(pre) : pre[i] = Splitter
       ELSE at = Len(pre)

(* Such a reader finds that the payload is exhausted.                       *)
LEMMA ReadyIsThrough ==
    ASSUME NEW p \in Protocols, NEW pre, NEW at, ReadyAfter(p, pre, at)
    PROVE  Exhausted(p, pre, at)
<1>1. CASE p.codec = "json"
  <2>1. TextLeft(pre, at) = {}
    BY <1>1 DEF ReadyAfter, TextLeft
  <2> QED
    BY <1>1, <2>1 DEF ReadyAfter, Exhausted
<1>2. CASE p.codec = "msgpack"
  BY <1>2 DEF ReadyAfter, Exhausted
<1> QED
  BY <1>1, <1>2 DEF Protocols

(* Three payloads one after another.                                        *)
LEMMA ThreeParts ==
    ASSUME NEW a \in Seq(Units), NEW b \in Seq(Units), NEW c \in Seq(Units)
    PROVE  /\ (a \o b) \o c \in Seq(Units)
           /\ Len((a \o b) \o c) = Len(a) + Len(b) + Len(c)
           /\ \A i \in 1 .. Len(a) : ((a \o b) \o c)[i] = a[i]
           /\ \A i \in 1 .. Len(b) : ((a \o b) \o c)[Len(a) + i] = b[i]
           /\ \A i \in 1 .. Len(c) : ((a \o b) \o c)[Len(a) + Len(b) + i] = c[i]
<1> DEFINE ab == a \o b
<1>0. Len(a) \in Nat /\ Len(b) \in Nat /\ Len(c) \in Nat
  OBVIOUS
<1>1. /\ ab \in Seq(Units) /\ Len(ab) = Len(a) + Len(b)
      /\ \A i \in 1 .. Len(a) + Len(b) :
            ab[i] = IF i <= Len(a) THEN a[i] ELSE b[i - Len(a)]
  BY ConcatProperties
<1>2. (a \o b) \o c = ab \o c
  OBVIOUS
<1> HIDE DEF ab
<1>3. /\ ab \o c \in Seq(Units) /\ Len(ab \o c) = Len(ab) + Len(c)
      /\ \A i \in 1 .. Len(ab) + Len(c) :
            (ab \o c)[i] = IF i <= Len(ab) THEN ab[i] ELSE c[i - Len(ab)]
  <2>1. ab \in Seq(Units)
    BY <1>1
  <2> QED
    BY <2>1, ConcatProperties
<1>4. ASSUME NEW i \in 1 .. Len(a)
      PROVE  (ab \o c)[i] = a[i]
  BY <1>0, <1>1, <1>3
<1>5. ASSUME NEW i \in 1 .. Len(b)
      PROVE  (ab \o c)[Len(a) + i] = b[i]
  <2>1. Len(a) + i \in 1 .. Len(ab) + Len(c) /\ Len(a) + i <= Len(ab) /\ ~(Len(a) + i <= Len(a))
    BY <1>0, <1>1
  <2>2. (ab \o c)[Len(a) + i] = ab[Len(a) + i]
    BY <1>3, <2>1
  <2>3. ab[Len(a) + i] = b[(Len(a) + i) - Len(a)] /\ (Len(a) + i) - Len(a) = i
    BY <1>0, <1>1, <2>1
  <2> QED
    BY <2>2, <2>3
<1>6. ASSUME NEW i \in 1 .. Len(c)
      PROVE  (ab \o c)[Len(a) + Len(b) + i] = c[i]
  <2> DEFINE j == Len(a) + Len(b) + i
  <2>1. j \in 1 .. Len(ab) + Len(c) /\ ~(j <= Len(ab)) /\ j - Len(ab) = i
    BY <1>0, <1>1
  <2> HIDE DEF j
  <2>2. (ab \o c)[j] = c[j - Len(ab)]
    BY <1>3, <2>1
  <2> QED
    BY <2>1, <2>2 DEF j
<1>7. Len(ab \o c) = Len(a) + Len(b) + Len(c)
  BY <1>1, <1>3
<1> QED
  BY <1>2, <1>3, <1>4, <1>5, <1>6, <1>7

(* What a reader finds in a payload after pre: units that belong together.  *)
LEMMA NextText ==
    ASSUME NEW p \in Protocols, p.batched, p.codec = "json",
           NEW pre, NEW at, ReadyAfter(p, pre, at),
           NEW text \in Seq(Units), text # <<>>, \A i \in 1 .. Len(text) : text[i] # Splitter,
           NEW post \in Seq(Units), post # <<>> => post[1] = Splitter
    PROVE  /\ ~Exhausted(p, (pre \o text) \o post, at)
           /\ NextObject(p, (pre \o text) \o post, at) =
                [units |-> text, at |-> Len(pre) + Len(text)]
<1> DEFINE data == (pre \o text) \o post
           first == Len(pre) + 1
           last == Len(pre) + Len(text)
<1>0. /\ pre \in Seq(Units) /\ Len(pre) \in Nat /\ Len(text) \in Nat \ {0} /\ Len(post) \in Nat
      /\ at \in 0 .. Len(pre) /\ \A i \in at + 1 .. Len(pre) : pre[i] = Splitter
  BY DEF ReadyAfter
<1>1. /\ data \in Seq(Units) /\ Len(data) = last + Len(post)
      /\ \A i \in 1 .. Len(pre) : data[i] = pre[i]
      /\ \A i \in 1 .. Len(text) : data[Len(pre) + i] = text[i]
      /\ \A i \in 1 .. Len(post) : data[last + i] = post[i]
  <2>1. pre \in Seq(Units) /\ text \in Seq(Units) /\ post \in Seq(Units)
    BY <1>0
  <2> QED
    BY ONLY <2>1, ThreeParts
<1>2. /\ first \in TextLeft(data, at) /\ \A i \in TextLeft(data, at) : first <= i
      /\ TextLeft(data, at) \in SUBSET Nat
  BY <1>0, <1>1 DEF TextLeft
<1>3. Min(TextLeft(data, at)) = first
  BY <1>2, MinIs
<1> DEFINE J == {j \in first .. Len(data) : \A i \in first .. j : data[i] # Splitter}
<1>4. /\ last \in J /\ J \in SUBSET Nat
      /\ \A j \in J : j <= last
  <2>1. \A i \in first .. last : data[i] = text[i - Len(pre)]
    BY <1>0, <1>1
  <2>2. \A i \in first .. last : data[i] # Splitter
    BY <1>0, <2>1
  <2>3. last \in J /\ J \in SUBSET Nat
    BY <1>0, <1>1, <2>2
  <2>4. ASSUME NEW j \in J, j > last PROVE FALSE
    <3>0. 1 \in 1 .. Len(post)
      BY <1>0, <1>1, <2>4
    <3>1. post # <<>> /\ data[last + 1] = post[1]
      BY <1>1, <3>0
    <3>2. last + 1 \in first .. j /\ \A i \in first .. j : data[i] # Splitter
      BY <1>0, <2>4
    <3>3. data[last + 1] # Splitter
      BY <3>2
    <3> QED
      BY <3>1, <3>3
  <2>5. last \in Nat
    BY <1>0
  <2> HIDE DEF J, last
  <2> QED
    BY <2>3, <2>4, <2>5
<1>5. Max(J) = last
  BY <1>4, MaxIs
<1>6. SubSeq(data, first, last) = text
  <2>1. \A i \in first .. last : data[i] \in Units
    BY <1>0, <1>1
  <2>2. /\ SubSeq(data, first, last) \in Seq(Units)
        /\ Len(SubSeq(data, first, last)) = Len(text)
        /\ \A i \in 1 .. Len(text) : SubSeq(data, first, last)[i] = text[i]
    BY <1>0, <1>1, <2>1, SubSeqProperties
  <2> QED
    BY <2>2, SeqEqual
<1>7. TextLeft(data, at) # {}
  BY <1>2
<1> QED
  BY <1>3, <1>5, <1>6, <1>7 DEF Exhausted, NextObject

(* A length that four bytes hold comes out as it went in, though it is      *)
(* packed with a sign and unpacked without.                                  *)
LEMMA LengthKept ==
    ASSUME NEW n \in Nat, n < Width
    PROVE  UnpackLength(Length(n)) = n
<1>1. Width \in Nat \ {0}
  BY DEF Width
<1>2. n % Width = n
  BY <1>1
<1> QED
  BY <1>2 DEF UnpackLength, Length

(* The same in a batch with lengths: the slice ends where the length says,  *)
(* or with the payload.                                                     *)
LEMMA NextLength ==
    ASSUME NEW p \in Protocols, p.batched, p.codec = "msgpack",
           NEW pre, NEW at, ReadyAfter(p, pre, at), NEW n \in Nat, n < Width,
           NEW binary \in Seq(Units), Len(binary) <= n, binary # <<>>,
           NEW post \in Seq(Units), post # <<>> => Len(binary) = n
    PROVE  LET data == (pre \o (<<Length(n)>> \o binary)) \o post
           IN  /\ ~Exhausted(p, data, at)
               /\ NextObject(p, data, at) = [units |-> binary, at |-> Len(pre) + 1 + n]
<1> DEFINE data == (pre \o (<<Length(n)>> \o binary)) \o post
<1>0. /\ pre \in Seq(Units) /\ Len(pre) \in Nat /\ Len(binary) \in Nat \ {0}
      /\ Len(post) \in Nat /\ at = Len(pre)
  BY DEF ReadyAfter
<1>1. /\ data \in Seq(Units) /\ Len(data) = Len(pre) + 1 + Len(binary) + Len(post)
      /\ data[Len(pre) + 1] = Length(n)
      /\ \A i \in 1 .. Len(binary) : data[Len(pre) + 1 + i] = binary[i]
  <2> DEFINE b == <<Length(n)>> \o binary
  <2>1. <<Length(n)>> \in Seq(Units)
    <3>1. Length(n) \in Units
      BY DEF Units
    <3> QED
      BY <3>1
  <2>2. /\ b \in Seq(Units) /\ Len(b) = 1 + Len(binary) /\ b[1] = Length(n)
        /\ \A i \in 1 .. Len(binary) : b[1 + i] = binary[i]
    BY <1>0, <2>1, ConcatProperties
  <2>3. data = (pre \o b) \o post
    OBVIOUS
  <2> HIDE DEF b
  <2>4. /\ data \in Seq(Units) /\ Len(data) = Len(pre) + Len(b) + Len(post)
        /\ \A i \in 1 .. Len(b) : data[Len(pre) + i] = b[i]
    <3>1. b \in Seq(Units)
      BY <2>2
    <3>2. /\ (pre \o b) \o post \in Seq(Units)
          /\ Len((pre \o b) \o post) = Len(pre) + Len(b) + Len(post)
          /\ \A i \in 1 .. Len(b) : ((pre \o b) \o post)[Len(pre) + i] = b[i]
      BY <1>0, <3>1, ThreeParts
    <3> QED
      BY <2>3, <3>2
  <2>5. data[Len(pre) + 1] = b[1]
    BY <1>0, <2>2, <2>4
  <2>6. ASSUME NEW i \in 1 .. Len(binary)
        PROVE  data[Len(pre) + 1 + i] = binary[i]
    <3>1. 1 + i \in 1 .. Len(b) /\ Len(pre) + (1 + i) = Len(pre) + 1 + i
      BY <1>0, <2>2
    <3>2. data[Len(pre) + (1 + i)] = b[1 + i]
      BY <2>4, <3>1
    <3> QED
      BY <2>2, <3>1, <3>2
  <2> QED
    BY SMTT(30), <1>0, <2>2, <2>4, <2>5, <2>6
<1> DEFINE end == at + 1 + n
<1>2. UnpackLength(data[at + 1]) = n
  BY <1>0, <1>1, LengthKept
<1>3. Min({end, Len(data)}) = Len(pre) + 1 + Len(binary)
  <2> DEFINE reach == Len(pre) + 1 + Len(binary)
  <2>1. end \in Nat /\ Len(data) \in Nat /\ reach <= end /\ reach <= Len(data)
    BY <1>0, <1>1
  <2>2. reach \in {end, Len(data)}
    <3>1. CASE post = <<>>
      BY <1>0, <1>1, <3>1
    <3>2. CASE post # <<>>
      BY <1>0, <1>1, <3>2
    <3> QED
      BY <3>1, <3>2
  <2>3. {end, Len(data)} \in SUBSET Nat /\ \A y \in {end, Len(data)} : reach <= y
    BY <2>1
  <2> HIDE DEF end, reach
  <2>4. Min({end, Len(data)}) = reach
    BY <2>2, <2>3, MinIs
  <2> QED
    BY <2>4 DEF reach
<1>4. SubSeq(data, at + 2, Len(pre) + 1 + Len(binary)) = binary
  <2>1. \A i \in at + 2 .. Len(pre) + 1 + Len(binary) : data[i] \in Units
    BY <1>0, <1>1
  <2>2. /\ SubSeq(data, at + 2, Len(pre) + 1 + Len(binary)) \in Seq(Units)
        /\ Len(SubSeq(data, at + 2, Len(pre) + 1 + Len(binary))) = Len(binary)
        /\ \A i \in 1 .. Len(binary) :
              SubSeq(data, at + 2, Len(pre) + 1 + Len(binary))[i] = binary[i]
    BY <1>0, <1>1, <2>1, SubSeqProperties
  <2> QED
    BY <2>2, SeqEqual
<1>5. ~Exhausted(p, data, at)
  BY <1>0, <1>1 DEF Exhausted
<1>6. NextObject(p, data, at) =
        [units |-> SubSeq(data, at + 2, Min({end, Len(data)})), at |-> end]
  BY <1>2 DEF NextObject
<1> QED
  BY <1>0, <1>3, <1>4, <1>5, <1>6

(* A message whose length, where the protocol states it, fits four bytes.   *)
Fits(p, m) == p.batched /\ p.codec = "msgpack" => SizeOf[m] < Width

(* What can be encoded fits, and so does what clients send.                 *)
LEMMA EncodableFits ==
    ASSUME NEW p, NEW m \in Messages, CanEncode(server, p, m)
    PROVE  Fits(p, m)
<1>1. SizeOf[m] \in Nat /\ LengthLimit \in Nat
  BY SerialisedUnits
<1> QED
  BY <1>1 DEF CanEncode, Packable, Fits, Width

LEMMA RequestsFit ==
    ASSUME NEW p, NEW m \in Requests
    PROVE  m \in Messages /\ Fits(p, m)
  BY RequestSizeAssumption DEF Fits

(* A message in a batch is found, wherever it is, and nothing of it is left.*)
LEMMA MessageAfter ==
    ASSUME NEW p \in Protocols, NEW pre, NEW at, ReadyAfter(p, pre, at),
           NEW m \in Messages, Fits(p, m), NEW post \in Seq(Units)
    PROVE  LET data == (pre \o Encode(p, m)) \o post
               next == NextObject(p, data, at)
           IN  /\ ~Exhausted(p, data, at) /\ Decoded(next.units) = {m}
               /\ ReadyAfter(p, pre \o Encode(p, m), next.at)
<1> DEFINE data == (pre \o Encode(p, m)) \o post
<1>0. /\ pre \in Seq(Units) /\ Len(pre) \in Nat /\ p.batched
      /\ Serialised(m) \in Seq(Units) /\ Len(Serialised(m)) = SizeOf[m]
      /\ SizeOf[m] \in Nat \ {0} /\ Serialised(m) # <<>>
  BY SerialisedUnits DEF ReadyAfter
<1>1. CASE p.codec = "json"
  <2> DEFINE rest == <<Splitter>> \o post
  <2>1. <<Splitter>> \in Seq(Units)
    <3>1. Splitter \in Units
      BY DEF Units
    <3> QED
      BY <3>1
  <2>2. rest \in Seq(Units) /\ rest[1] = Splitter
    BY <2>1, ConcatProperties
  <2>3. Encode(p, m) = Serialised(m) \o <<Splitter>>
    BY <1>0, <1>1 DEF Encode
  <2>4. data = (pre \o Serialised(m)) \o rest
    BY SMTT(30), <1>0, <2>1, <2>3, ConcatAssociative, ConcatProperties
  <2>5. \A i \in 1 .. Len(Serialised(m)) : Serialised(m)[i] # Splitter
    BY <1>0, SerialisedUnits
  <2> HIDE DEF data, rest
  <2>6. /\ ~Exhausted(p, data, at)
        /\ NextObject(p, data, at) =
              [units |-> Serialised(m), at |-> Len(pre) + Len(Serialised(m))]
    <3>1. rest # <<>> => rest[1] = Splitter
      BY <2>2
    <3>2. /\ ~Exhausted(p, (pre \o Serialised(m)) \o rest, at)
          /\ NextObject(p, (pre \o Serialised(m)) \o rest, at) =
                [units |-> Serialised(m), at |-> Len(pre) + Len(Serialised(m))]
      BY <1>0, <1>1, <2>2, <2>5, <3>1, NextText
    <3> QED
      BY <2>4, <3>2
  <2>7. /\ pre \o Encode(p, m) \in Seq(Units)
        /\ Len(pre \o Encode(p, m)) = Len(pre) + SizeOf[m] + 1
        /\ (pre \o Encode(p, m))[Len(pre) + SizeOf[m] + 1] = Splitter
    <3>1. pre \o Encode(p, m) = (pre \o Serialised(m)) \o <<Splitter>>
      BY <1>0, <2>1, <2>3, ConcatAssociative
    <3>2. 1 \in 1 .. Len(<<Splitter>>) /\ <<Splitter>>[1] = Splitter
      OBVIOUS
    <3> QED
      BY <1>0, <2>1, <3>1, <3>2, ThreeParts
  <2>8. ReadyAfter(p, pre \o Encode(p, m), Len(pre) + SizeOf[m])
    BY <1>0, <1>1, <2>7 DEF ReadyAfter
  <2> QED
    BY <1>0, <2>6, <2>8, DecodedWhole DEF data
<1>2. CASE p.codec = "msgpack"
  <2>1. Encode(p, m) = <<Length(SizeOf[m])>> \o Serialised(m)
    BY <1>0, <1>2 DEF Encode
  <2> HIDE DEF data
  <2>2. /\ ~Exhausted(p, data, at)
        /\ NextObject(p, data, at) = [units |-> Serialised(m), at |-> Len(pre) + 1 + SizeOf[m]]
    <3> DEFINE n == SizeOf[m]
               binary == Serialised(m)
    <3>1. /\ n \in Nat /\ binary \in Seq(Units) /\ Len(binary) <= n /\ binary # <<>>
          /\ post # <<>> => Len(binary) = n
          /\ n < Width
      BY <1>0, <1>2 DEF Fits
    <3> HIDE DEF n, binary
    <3>2. /\ ~Exhausted(p, (pre \o (<<Length(n)>> \o binary)) \o post, at)
          /\ NextObject(p, (pre \o (<<Length(n)>> \o binary)) \o post, at) =
                [units |-> binary, at |-> Len(pre) + 1 + n]
      BY <1>0, <1>2, <3>1, NextLength
    <3> QED
      BY <2>1, <3>2 DEF data, n, binary
  <2>3. ReadyAfter(p, pre \o Encode(p, m), Len(pre) + 1 + SizeOf[m])
    <3>1. <<Length(SizeOf[m])>> \in Seq(Units)
      <4>1. Length(SizeOf[m]) \in Units
        BY <1>0 DEF Units
      <4> QED
        BY <4>1
    <3>2. Encode(p, m) \in Seq(Units) /\ Len(Encode(p, m)) = 1 + SizeOf[m]
      BY <1>0, <2>1, <3>1, ConcatProperties
    <3>3. /\ pre \o Encode(p, m) \in Seq(Units)
          /\ Len(pre \o Encode(p, m)) = Len(pre) + 1 + SizeOf[m]
      <4>1. /\ pre \o Encode(p, m) \in Seq(Units)
            /\ Len(pre \o Encode(p, m)) = Len(pre) + Len(Encode(p, m))
        <5>1. pre \in Seq(Units) /\ Encode(p, m) \in Seq(Units)
          BY <1>0, <3>2
        <5> QED
          BY <5>1, ConcatProperties
      <4> QED
        BY <1>0, <3>2, <4>1
    <3> QED
      BY <1>0, <1>2, <3>3 DEF ReadyAfter
  <2> QED
    BY <1>0, <2>2, <2>3, DecodedWhole DEF data
<1> QED
  BY <1>1, <1>2 DEF Protocols

-----------------------------------------------------------------------------
(* From position `at' on, a payload yields what s says at the positions     *)
(* after lo up to hi, one after another and each alone, and then nothing or, *)
(* where s has damage, what nobody can decode.                               *)
Yields(p, data, at, s, lo, hi) ==
    \E pos \in [lo .. hi -> Nat] :
        /\ pos[lo] = at
        /\ \A k \in lo + 1 .. hi :
            /\ ~Exhausted(p, data, pos[k - 1])
            /\ Decoded(NextObject(p, data, pos[k - 1]).units) = {s[k]} \ {Damage}
            /\ s[k] # Damage => NextObject(p, data, pos[k - 1]).at = pos[k]
        /\ hi = lo \/ s[hi] # Damage => Exhausted(p, data, pos[hi])

(* A reader at the end yields nothing; one before damage, that; one before  *)
(* a message, the message and what follows it.                              *)
LEMMA YieldsNothing ==
    ASSUME NEW p, NEW data, NEW at \in Nat, NEW s, NEW lo \in Nat, Exhausted(p, data, at)
    PROVE  Yields(p, data, at, s, lo, lo)
<1> DEFINE pos == [k \in lo .. lo |-> at]
<1>1. pos \in [lo .. lo -> Nat] /\ pos[lo] = at /\ lo + 1 .. lo = {}
  OBVIOUS
<1> HIDE DEF pos
<1> QED
  BY <1>1 DEF Yields

LEMMA YieldsDamage ==
    ASSUME NEW p, NEW data, NEW at \in Nat, NEW s, NEW lo \in Nat,
           ~Exhausted(p, data, at), Decoded(NextObject(p, data, at).units) = {},
           s[lo + 1] = Damage
    PROVE  Yields(p, data, at, s, lo, lo + 1)
<1> DEFINE pos == [k \in lo .. lo + 1 |-> at]
<1>1. /\ pos \in [lo .. lo + 1 -> Nat] /\ pos[lo] = at
      /\ \A k \in lo + 1 .. lo + 1 : k = lo + 1 /\ pos[k - 1] = at
  OBVIOUS
<1> HIDE DEF pos
<1> QED
  BY <1>1 DEF Yields

LEMMA YieldsFirst ==
    ASSUME NEW p, NEW data, NEW at \in Nat, NEW s, NEW lo \in Nat, NEW hi \in Nat, lo < hi,
           ~Exhausted(p, data, at), s[lo + 1] # Damage,
           Decoded(NextObject(p, data, at).units) = {s[lo + 1]},
           Yields(p, data, NextObject(p, data, at).at, s, lo + 1, hi)
    PROVE  Yields(p, data, at, s, lo, hi)
<1>1. PICK rest \in [lo + 1 .. hi -> Nat] :
        /\ rest[lo + 1] = NextObject(p, data, at).at
        /\ \A k \in (lo + 1) + 1 .. hi :
            /\ ~Exhausted(p, data, rest[k - 1])
            /\ Decoded(NextObject(p, data, rest[k - 1]).units) = {s[k]} \ {Damage}
            /\ s[k] # Damage => NextObject(p, data, rest[k - 1]).at = rest[k]
        /\ hi = lo + 1 \/ s[hi] # Damage => Exhausted(p, data, rest[hi])
  BY DEF Yields
<1> DEFINE pos == [k \in lo .. hi |-> IF k = lo THEN at ELSE rest[k]]
<1>2. /\ pos \in [lo .. hi -> Nat] /\ pos[lo] = at /\ \A k \in lo + 1 .. hi : pos[k] = rest[k]
  OBVIOUS
<1> HIDE DEF pos
<1>3. ASSUME NEW k \in lo + 1 .. hi
      PROVE  /\ ~Exhausted(p, data, pos[k - 1])
             /\ Decoded(NextObject(p, data, pos[k - 1]).units) = {s[k]} \ {Damage}
             /\ s[k] # Damage => NextObject(p, data, pos[k - 1]).at = pos[k]
  <2>1. CASE k = lo + 1
    <3>1. pos[k - 1] = at /\ pos[k] = NextObject(p, data, at).at
      BY <1>1, <1>2, <2>1
    <3> QED
      BY <2>1, <3>1
  <2>2. CASE k # lo + 1
    <3>1. k \in (lo + 1) + 1 .. hi /\ k - 1 \in lo + 1 .. hi
      BY <2>2
    <3>2. pos[k - 1] = rest[k - 1] /\ pos[k] = rest[k]
      BY <1>2, <3>1
    <3> QED
      BY <1>1, <3>1, <3>2
  <2> QED
    BY <2>1, <2>2
<1>4. hi = lo \/ s[hi] # Damage => Exhausted(p, data, pos[hi])
  BY <1>1, <1>2
<1> QED
  BY <1>2, <1>3, <1>4 DEF Yields

(* What a reader finds of what a payload yields.                            *)
LEMMA YieldsNext ==
    ASSUME NEW p, NEW data, NEW at, NEW s, NEW lo \in Nat, NEW hi \in Nat, lo <= hi,
           Yields(p, data, at, s, lo, hi)
    PROVE  /\ Exhausted(p, data, at) <=> lo = hi
           /\ ~Exhausted(p, data, at) =>
                /\ Decoded(NextObject(p, data, at).units) = {s[lo + 1]} \ {Damage}
                /\ s[lo + 1] # Damage =>
                        Yields(p, data, NextObject(p, data, at).at, s, lo + 1, hi)
<1>1. PICK pos \in [lo .. hi -> Nat] :
        /\ pos[lo] = at
        /\ \A k \in lo + 1 .. hi :
            /\ ~Exhausted(p, data, pos[k - 1])
            /\ Decoded(NextObject(p, data, pos[k - 1]).units) = {s[k]} \ {Damage}
            /\ s[k] # Damage => NextObject(p, data, pos[k - 1]).at = pos[k]
        /\ hi = lo \/ s[hi] # Damage => Exhausted(p, data, pos[hi])
  BY DEF Yields
<1>2. CASE lo = hi
  BY <1>1, <1>2
<1>3. CASE lo # hi
  <2>1. lo + 1 \in lo + 1 .. hi /\ (lo + 1) - 1 = lo
    BY <1>3
  <2>2. /\ ~Exhausted(p, data, at)
        /\ Decoded(NextObject(p, data, at).units) = {s[lo + 1]} \ {Damage}
        /\ s[lo + 1] # Damage => NextObject(p, data, at).at = pos[lo + 1]
    BY <1>1, <2>1
  <2>3. ASSUME s[lo + 1] # Damage
        PROVE  Yields(p, data, NextObject(p, data, at).at, s, lo + 1, hi)
    <3> DEFINE rest == [k \in lo + 1 .. hi |-> pos[k]]
    <3>1. /\ rest \in [lo + 1 .. hi -> Nat] /\ rest[lo + 1] = NextObject(p, data, at).at
          /\ \A k \in lo + 1 .. hi : rest[k] = pos[k]
      BY <2>1, <2>2, <2>3
    <3> HIDE DEF rest
    <3>2. ASSUME NEW k \in (lo + 1) + 1 .. hi
          PROVE  /\ ~Exhausted(p, data, rest[k - 1])
                 /\ Decoded(NextObject(p, data, rest[k - 1]).units) = {s[k]} \ {Damage}
                 /\ s[k] # Damage => NextObject(p, data, rest[k - 1]).at = rest[k]
      <4>1. k \in lo + 1 .. hi /\ k - 1 \in lo + 1 .. hi
        OBVIOUS
      <4>2. rest[k - 1] = pos[k - 1] /\ rest[k] = pos[k]
        BY <3>1, <4>1
      <4> QED
        BY <1>1, <4>1, <4>2
    <3>3. hi = lo + 1 \/ s[hi] # Damage => Exhausted(p, data, rest[hi])
      BY <1>1, <2>1, <2>3, <3>1
    <3> QED
      BY <3>1, <3>2, <3>3 DEF Yields
  <2> QED
    BY <1>3, <2>2, <2>3
<1> QED
  BY <1>2, <1>3

(* Only what s says in between matters.                                     *)
LEMMA YieldsOfSame ==
    ASSUME NEW p, NEW data, NEW at, NEW s, NEW t, NEW lo \in Nat, NEW hi \in Nat, lo <= hi,
           \A k \in lo + 1 .. hi : t[k] = s[k], Yields(p, data, at, s, lo, hi)
    PROVE  Yields(p, data, at, t, lo, hi)
<1>1. hi = lo \/ t[hi] = s[hi]
  OBVIOUS
<1> QED
  BY <1>1 DEF Yields

-----------------------------------------------------------------------------
(* The payloads a client sends, and what is to be read of them.             *)
LEMMA EncodedUnits ==
    ASSUME NEW p \in Protocols, NEW m \in Messages
    PROVE  Encode(p, m) \in Seq(Units) \ {<<>>}
<1>0. Serialised(m) \in Seq(Units) /\ Len(Serialised(m)) \in Nat \ {0} /\ SizeOf[m] \in Nat
  BY SerialisedUnits
<1>1. Splitter \in Units /\ Length(SizeOf[m]) \in Units
  BY <1>0 DEF Units
<1>2. <<Splitter>> \in Seq(Units) /\ <<Length(SizeOf[m])>> \in Seq(Units)
  BY <1>1
<1>3. /\ Serialised(m) \o <<Splitter>> \in Seq(Units)
      /\ Len(Serialised(m) \o <<Splitter>>) = Len(Serialised(m)) + 1
  BY <1>0, <1>2, ConcatProperties
<1>4. /\ <<Length(SizeOf[m])>> \o Serialised(m) \in Seq(Units)
      /\ Len(<<Length(SizeOf[m])>> \o Serialised(m)) = 1 + Len(Serialised(m))
  BY <1>0, <1>2, ConcatProperties
<1> QED
  BY <1>0, <1>3, <1>4 DEF Encode

(* A batch of none, one or two messages.                                    *)
LEMMA EncodeAllIs ==
    ASSUME NEW p, NEW m, NEW n
    PROVE  /\ EncodeAll(p, <<>>) = <<>>
           /\ EncodeAll(p, <<m>>) = Encode(p, m)
           /\ EncodeAll(p, <<m, n>>) = Encode(p, m) \o Encode(p, n)
<1>1. EncodeAll(p, <<>>) = <<>>
  BY DEF EncodeAll, FlattenSeq
<1>2. EncodeAll(p, <<m>>) = Encode(p, m)
  <2> DEFINE seqs == [i \in DOMAIN <<m>> |-> Encode(p, <<m>>[i])]
             flat == [i \in 1 .. 1 |-> Encode(p, m)]
  <2>1. Len(seqs) = 1 /\ seqs[1] = Encode(p, m)
    OBVIOUS
  <2>2. flat = [i \in 1 .. Len(seqs) |-> IF i = 1 THEN seqs[i] ELSE flat[i - 1] \o seqs[i]]
    BY <2>1
  <2> HIDE DEF seqs
  <2>3. ASSUME NEW f, f = [i \in 1 .. Len(seqs) |-> IF i = 1 THEN seqs[i] ELSE f[i - 1] \o seqs[i]]
        PROVE  f[Len(seqs)] = Encode(p, m)
    BY <2>1, <2>3
  <2> HIDE DEF flat
  <2> DEFINE chosen == CHOOSE f :
                f = [i \in 1 .. Len(seqs) |-> IF i = 1 THEN seqs[i] ELSE f[i - 1] \o seqs[i]]
  <2>4. chosen = [i \in 1 .. Len(seqs) |-> IF i = 1 THEN seqs[i] ELSE chosen[i - 1] \o seqs[i]]
    BY <2>2
  <2>5. FlattenSeq(seqs) = chosen[Len(seqs)]
    BY <2>1 DEF FlattenSeq
  <2> HIDE DEF chosen
  <2>6. FlattenSeq(seqs) = Encode(p, m)
    BY <2>3, <2>4, <2>5
  <2> QED
    BY <2>6 DEF EncodeAll, seqs
<1>3. EncodeAll(p, <<m, n>>) = Encode(p, m) \o Encode(p, n)
  <2> DEFINE seqs == [i \in DOMAIN <<m, n>> |-> Encode(p, <<m, n>>[i])]
             flat == [i \in 1 .. 2 |-> IF i = 1 THEN Encode(p, m)
                                      ELSE Encode(p, m) \o Encode(p, n)]
  <2>1. Len(seqs) = 2 /\ seqs[1] = Encode(p, m) /\ seqs[2] = Encode(p, n)
    OBVIOUS
  <2>2. flat = [i \in 1 .. Len(seqs) |-> IF i = 1 THEN seqs[i] ELSE flat[i - 1] \o seqs[i]]
    BY <2>1
  <2> HIDE DEF seqs
  <2>3. ASSUME NEW f, f = [i \in 1 .. Len(seqs) |-> IF i = 1 THEN seqs[i] ELSE f[i - 1] \o seqs[i]]
        PROVE  f[Len(seqs)] = Encode(p, m) \o Encode(p, n)
    <3>1. f[1] = seqs[1] /\ f[2] = f[1] \o seqs[2]
      BY SMTT(30), <2>1, <2>3
    <3> QED
      BY <2>1, <3>1
  <2> HIDE DEF flat
  <2> DEFINE chosen == CHOOSE f :
                f = [i \in 1 .. Len(seqs) |-> IF i = 1 THEN seqs[i] ELSE f[i - 1] \o seqs[i]]
  <2>4. chosen = [i \in 1 .. Len(seqs) |-> IF i = 1 THEN seqs[i] ELSE chosen[i - 1] \o seqs[i]]
    BY <2>2
  <2>5. FlattenSeq(seqs) = chosen[Len(seqs)]
    BY <2>1 DEF FlattenSeq
  <2> HIDE DEF chosen
  <2>6. FlattenSeq(seqs) = Encode(p, m) \o Encode(p, n)
    BY <2>3, <2>4, <2>5
  <2> QED
    BY <2>6 DEF EncodeAll, seqs
<1> QED
  BY <1>1, <1>2, <1>3

(* A reader begins at the start, at a position that is a number.            *)
LEMMA AtTheStart ==
    ASSUME NEW p \in Protocols, p.batched
    PROVE  ReadyAfter(p, <<>>, 0)
  BY DEF ReadyAfter

LEMMA ReadyAt ==
    ASSUME NEW p \in Protocols, NEW pre, NEW at, ReadyAfter(p, pre, at)
    PROVE  at \in Nat
  BY DEF ReadyAfter

(* The first message of a payload, and where it leaves the reader.          *)
LEMMA MessageFirst ==
    ASSUME NEW p \in Protocols, p.batched, NEW m \in Messages, Fits(p, m),
           NEW post \in Seq(Units)
    PROVE  LET data == Encode(p, m) \o post
               next == NextObject(p, data, 0)
           IN  /\ ~Exhausted(p, data, 0) /\ Decoded(next.units) = {m}
               /\ ReadyAfter(p, Encode(p, m), next.at)
<1>1. PICK pre : pre = <<>>
  OBVIOUS
<1>2. ReadyAfter(p, pre, 0)
  BY <1>1, AtTheStart
<1>3. LET data == (pre \o Encode(p, m)) \o post
          next == NextObject(p, data, 0)
      IN  /\ ~Exhausted(p, data, 0) /\ Decoded(next.units) = {m}
          /\ ReadyAfter(p, pre \o Encode(p, m), next.at)
  BY <1>2, MessageAfter
<1>4. pre \o Encode(p, m) = Encode(p, m)
  BY <1>1, EncodedUnits, ConcatEmptySeq
<1> QED
  BY <1>3, <1>4

(* Reading what send_msg made of one message: that message, and the end; in *)
(* a batch with lengths, the end is where the length says.                   *)
LEMMA EncodedReads ==
    ASSUME NEW p \in Protocols, NEW m \in Messages, Fits(p, m)
    PROVE  LET data == Encode(p, m)
               next == NextObject(p, data, 0)
           IN  /\ ~Exhausted(p, data, 0) /\ Decoded(next.units) = {m}
               /\ next.at \in Nat /\ Exhausted(p, data, next.at)
               /\ p.batched /\ p.codec = "msgpack" => next.at = Len(data)
<1> DEFINE data == Encode(p, m)
           next == NextObject(p, data, 0)
<1>0. data \in Seq(Units)
  BY EncodedUnits
<1>1. CASE p.batched
  <2>1. data = data \o <<>> /\ <<>> \in Seq(Units)
    BY <1>0, ConcatEmptySeq
  <2>2. /\ ~Exhausted(p, data, 0) /\ Decoded(next.units) = {m}
        /\ ReadyAfter(p, data, next.at)
    <3>1. LET whole == data \o <<>>
              object == NextObject(p, whole, 0)
          IN  /\ ~Exhausted(p, whole, 0) /\ Decoded(object.units) = {m}
              /\ ReadyAfter(p, data, object.at)
      BY <1>1, <2>1, MessageFirst
    <3> QED
      BY <2>1, <3>1
  <2>3. next.at \in Nat /\ Exhausted(p, data, next.at)
    BY <2>2, ReadyIsThrough, ReadyAt
  <2>4. p.codec = "msgpack" => next.at = Len(data)
    BY <2>2 DEF ReadyAfter
  <2> QED
    BY <2>2, <2>3, <2>4
<1>2. CASE ~p.batched
  <2>1. data = Serialised(m) /\ next = [units |-> data, at |-> Len(data) + 1]
    BY <1>2 DEF Encode, NextObject
  <2>2. ~Exhausted(p, data, 0) /\ next.at \in Nat /\ Exhausted(p, data, next.at)
    <3>1. \A at : Exhausted(p, data, at) <=> at > 0
      BY <1>2 DEF Exhausted
    <3>2. next.at \in Nat /\ next.at > 0
      BY <1>0, <2>1
    <3> QED
      BY <3>1, <3>2
  <2>3. Decoded(next.units) = {m}
    BY <2>1, DecodedWhole
  <2> QED
    BY <1>2, <2>2, <2>3
<1> QED
  BY <1>1, <1>2

(* A payload of one message yields it, one of two yields both.              *)
LEMMA OneYields ==
    ASSUME NEW p \in Protocols, NEW m \in Messages, Fits(p, m),
           NEW s, NEW lo \in Nat, s[lo + 1] = m
    PROVE  Yields(p, Encode(p, m), 0, s, lo, lo + 1)
<1>1. PICK data, next : data = Encode(p, m) /\ next = NextObject(p, data, 0)
  OBVIOUS
<1>2. /\ ~Exhausted(p, data, 0) /\ Decoded(next.units) = {m}
      /\ next.at \in Nat /\ Exhausted(p, data, next.at)
  BY <1>1, EncodedReads
<1>3. Yields(p, data, next.at, s, lo + 1, lo + 1)
  <2>1. lo + 1 \in Nat
    OBVIOUS
  <2> QED
    BY <1>2, <2>1, YieldsNothing
<1>4. lo + 1 \in Nat /\ lo < lo + 1 /\ s[lo + 1] = m /\ m # Damage
  OBVIOUS
<1> QED
  BY <1>1, <1>2, <1>3, <1>4, YieldsFirst

LEMMA TwoYield ==
    ASSUME NEW p \in Protocols, p.batched, NEW m \in Messages, NEW n \in Messages,
           Fits(p, m), Fits(p, n), NEW s, NEW lo \in Nat, s[lo + 1] = m, s[lo + 2] = n
    PROVE  Yields(p, Encode(p, m) \o Encode(p, n), 0, s, lo, lo + 2)
<1> DEFINE data == Encode(p, m) \o Encode(p, n)
           first == NextObject(p, data, 0)
           next == NextObject(p, data, first.at)
<1>0. /\ Encode(p, m) \in Seq(Units) /\ Encode(p, n) \in Seq(Units) /\ <<>> \in Seq(Units)
      /\ data \in Seq(Units)
  BY EncodedUnits, ConcatProperties
<1>1. <<>> \o Encode(p, m) = Encode(p, m) /\ data = data \o <<>>
  BY <1>0, ConcatEmptySeq
<1>2. /\ ~Exhausted(p, data, 0) /\ Decoded(first.units) = {m}
      /\ ReadyAfter(p, Encode(p, m), first.at)
  BY <1>0, MessageFirst
<1>3. /\ ~Exhausted(p, data, first.at) /\ Decoded(next.units) = {n}
      /\ ReadyAfter(p, data, next.at)
  <2>1. PICK pre, at, post : pre = Encode(p, m) /\ at = first.at /\ post = <<>>
    OBVIOUS
  <2>2. LET whole == (pre \o Encode(p, n)) \o post
            object == NextObject(p, whole, at)
        IN  /\ ~Exhausted(p, whole, at) /\ Decoded(object.units) = {n}
            /\ ReadyAfter(p, pre \o Encode(p, n), object.at)
    <3>1. ReadyAfter(p, pre, at) /\ post \in Seq(Units)
      BY <1>0, <1>2, <2>1
    <3> QED
      BY ONLY <3>1, MessageAfter, n \in Messages, p \in Protocols, Fits(p, n)
  <2> QED
    BY <1>1, <2>1, <2>2
<1>4. first.at \in Nat /\ next.at \in Nat /\ Exhausted(p, data, next.at)
  BY <1>2, <1>3, ReadyIsThrough, ReadyAt
<1> HIDE DEF data
<1>5. Yields(p, data, next.at, s, lo + 2, lo + 2)
  BY <1>4, YieldsNothing
<1>6. Yields(p, data, first.at, s, lo + 1, lo + 2)
  <2>1. (lo + 1) + 1 = lo + 2 /\ lo + 1 \in Nat /\ lo + 2 \in Nat /\ lo + 1 < lo + 2
    OBVIOUS
  <2> QED
    BY <1>3, <1>4, <1>5, <2>1, YieldsFirst
<1>7. Yields(p, data, 0, s, lo, lo + 2)
  <2>1. lo + 2 \in Nat /\ lo < lo + 2
    OBVIOUS
  <2> QED
    BY <1>2, <1>6, <2>1, YieldsFirst
<1> QED
  BY <1>7 DEF data

(* A message that was cut short.                                            *)
LEMMA CutUnits ==
    ASSUME NEW m \in Messages, SizeOf[m] > 1,
           NEW cut, cut = SubSeq(Serialised(m), 1, SizeOf[m] - 1)
    PROVE  /\ cut \in Seq(Units) \ {<<>>} /\ Len(cut) = SizeOf[m] - 1
           /\ \A i \in 1 .. Len(cut) : cut[i] # Splitter
           /\ Decoded(cut) = {}
           /\ Serialised(m) = cut \o <<Serialised(m)[SizeOf[m]]>>
<1>0. /\ SizeOf[m] \in Nat \ {0}
      /\ Serialised(m) \in Seq(Units) /\ Len(Serialised(m)) = SizeOf[m]
      /\ \A i \in 1 .. SizeOf[m] :
            /\ Serialised(m)[i] \in Units /\ Serialised(m)[i] = <<m, i>>
            /\ Serialised(m)[i] # Splitter
  <2>1. /\ SizeOf[m] \in Nat \ {0}
        /\ Serialised(m) \in Seq(Units) /\ Len(Serialised(m)) = SizeOf[m]
        /\ \A i \in 1 .. SizeOf[m] : Serialised(m)[i] = <<m, i>> /\ <<m, i>> # Splitter
    BY SerialisedUnits
  <2>2. \A i \in 1 .. SizeOf[m] : Serialised(m)[i] \in Units
    BY <2>1, ElementOfSeq
  <2> QED
    BY <2>1, <2>2
<1>1. /\ cut \in Seq(Units) /\ Len(cut) = SizeOf[m] - 1
      /\ \A i \in 1 .. SizeOf[m] - 1 : cut[i] = Serialised(m)[i]
  <2>1. \A i \in 1 .. SizeOf[m] - 1 : Serialised(m)[i] \in Units
    BY <1>0
  <2> QED
    BY <1>0, <2>1, SubSeqProperties
<1>2. cut[1] = <<m, 1>> /\ Len(cut) # SizeOf[m]
  BY <1>0, <1>1
<1>3. Serialised(m) = cut \o <<Serialised(m)[SizeOf[m]]>>
  <2>1. Serialised(m) = SubSeq(Serialised(m), 1, SizeOf[m])
    BY <1>0, SubSeqFull
  <2>2. 1 \in 1 .. Len(Serialised(m)) /\ SizeOf[m] \in 1 .. Len(Serialised(m))
    BY <1>0
  <2> QED
    BY <1>0, <2>1, <2>2, SubSeqRecursiveSecond
<1>4. Decoded(cut) = {}
  BY <1>2, DecodedCut
<1>5. cut # <<>> /\ \A i \in 1 .. Len(cut) : cut[i] # Splitter
  BY <1>0, <1>1
<1> QED
  BY <1>1, <1>3, <1>4, <1>5

(* What a client breaks off is no message, wherever it comes in a payload.  *)
LEMMA DamageAfter ==
    ASSUME protocol \in Protocols, protocol.batched, NEW tail \in Tails,
           NEW pre, NEW at, ReadyAfter(protocol, pre, at)
    PROVE  /\ ~Exhausted(protocol, pre \o tail, at)
           /\ Decoded(NextObject(protocol, pre \o tail, at).units) = {}
<1> DEFINE cut(m) == SubSeq(Serialised(m), 1, SizeOf[m] - 1)
<1>1. pre \in Seq(Units) /\ <<>> \in Seq(Units)
  BY DEF ReadyAfter
<1>2. CASE protocol.codec = "json"
  <2>1. PICK m \in Requests : SizeOf[m] > 1 /\ tail = cut(m)
    BY <1>2 DEF Tails
  <2>2. /\ tail \in Seq(Units) /\ tail # <<>> /\ \A i \in 1 .. Len(tail) : tail[i] # Splitter
        /\ Decoded(tail) = {}
    BY <2>1, CutUnits
  <2>3. pre \o tail = (pre \o tail) \o <<>>
    BY <1>1, <2>2, ConcatEmptySeq, ConcatProperties
  <2>4. /\ ~Exhausted(protocol, (pre \o tail) \o <<>>, at)
        /\ NextObject(protocol, (pre \o tail) \o <<>>, at) =
              [units |-> tail, at |-> Len(pre) + Len(tail)]
    <3>1. PICK post : post = <<>>
      OBVIOUS
    <3>2. post \in Seq(Units) /\ (post # <<>> => post[1] = Splitter)
      BY <1>1, <3>1
    <3>3. /\ ~Exhausted(protocol, (pre \o tail) \o post, at)
          /\ NextObject(protocol, (pre \o tail) \o post, at) =
                [units |-> tail, at |-> Len(pre) + Len(tail)]
      BY <1>2, <2>2, <3>2, NextText
    <3> QED
      BY <3>1, <3>3
  <2> QED
    BY <2>2, <2>3, <2>4
<1>3. CASE protocol.codec = "msgpack"
  <2>1. PICK m \in Requests :
          /\ SizeOf[m] > 1
          /\ \/ tail = <<Length(SizeOf[m])>> \o cut(m)
             \/ tail = <<Length(SizeOf[m] - 1)>> \o Serialised(m)
    BY <1>3 DEF Tails
  <2>2. m \in Messages /\ SizeOf[m] \in Nat /\ SizeOf[m] < Width /\ Width \in Nat
    BY SerialisedUnits, RequestSizeAssumption DEF Width
  <2>3. PICK binary : binary = cut(m)
    OBVIOUS
  <2>4. /\ binary \in Seq(Units) /\ binary # <<>> /\ Len(binary) = SizeOf[m] - 1
        /\ Decoded(binary) = {}
        /\ Serialised(m) = binary \o <<Serialised(m)[SizeOf[m]]>>
    BY <2>1, <2>2, <2>3, CutUnits
  <2>5. ASSUME NEW n \in Nat, n < Width, Len(binary) <= n,
               NEW post \in Seq(Units), post # <<>> => Len(binary) = n,
               pre \o tail = (pre \o (<<Length(n)>> \o binary)) \o post
        PROVE  /\ ~Exhausted(protocol, pre \o tail, at)
               /\ Decoded(NextObject(protocol, pre \o tail, at).units) = {}
    <3>1. /\ ~Exhausted(protocol, (pre \o (<<Length(n)>> \o binary)) \o post, at)
          /\ NextObject(protocol, (pre \o (<<Length(n)>> \o binary)) \o post, at) =
                [units |-> binary, at |-> Len(pre) + 1 + n]
      BY <1>3, <2>4, <2>5, NextLength
    <3>2. NextObject(protocol, pre \o tail, at).units = binary
      BY <2>5, <3>1
    <3> QED
      BY <2>4, <2>5, <3>1, <3>2
  <2>6. \A n \in Nat : <<Length(n)>> \in Seq(Units)
    <3>1. \A n \in Nat : Length(n) \in Units
      BY DEF Units
    <3> QED
      BY <3>1
  <2>7. CASE tail = <<Length(SizeOf[m])>> \o cut(m)
    <3> DEFINE t == <<Length(SizeOf[m])>> \o binary
    <3>1. t \in Seq(Units) /\ tail = t
      BY <2>2, <2>3, <2>4, <2>6, <2>7, ConcatProperties
    <3>2. pre \o t \in Seq(Units)
      BY <1>1, <3>1, ConcatProperties
    <3>3. pre \o t = (pre \o t) \o <<>>
      BY <3>2, ConcatEmptySeq
    <3>4. PICK n, post : n = SizeOf[m] /\ post = <<>>
      OBVIOUS
    <3>5. /\ n \in Nat /\ n < Width /\ Len(binary) <= n /\ post \in Seq(Units)
          /\ post # <<>> => Len(binary) = n
          /\ pre \o tail = (pre \o (<<Length(n)>> \o binary)) \o post
      BY <1>1, <2>2, <2>4, <3>1, <3>3, <3>4
    <3> QED
      BY <2>5, <3>5
  <2>8. CASE tail = <<Length(SizeOf[m] - 1)>> \o Serialised(m)
    <3> DEFINE n == SizeOf[m] - 1
               post == <<Serialised(m)[SizeOf[m]]>>
    <3>1. n \in Nat /\ n < Width /\ Len(binary) = n
      BY <2>1, <2>2, <2>4
    <3>2. post \in Seq(Units)
      <4>1. /\ Serialised(m) \in Seq(Units) /\ Len(Serialised(m)) = SizeOf[m]
            /\ SizeOf[m] \in 1 .. Len(Serialised(m))
        BY <2>1, <2>2, SerialisedUnits
      <4>2. Serialised(m)[SizeOf[m]] \in Units
        BY <4>1, ElementOfSeq
      <4> QED
        BY <4>2
    <3>3. <<Length(n)>> \in Seq(Units)
      BY <2>6, <3>1
    <3>4. tail = <<Length(n)>> \o (binary \o post)
      BY <2>4, <2>8
    <3> HIDE DEF n, post
    <3>5. tail = (<<Length(n)>> \o binary) \o post
      BY <2>4, <3>2, <3>3, <3>4, ConcatAssociative
    <3>6. <<Length(n)>> \o binary \in Seq(Units)
      BY <2>4, <3>3, ConcatProperties
    <3>7. pre \o tail = (pre \o (<<Length(n)>> \o binary)) \o post
      BY SMTT(30), <1>1, <3>2, <3>5, <3>6, ConcatAssociative
    <3>8. Len(binary) <= n
      BY <3>1
    <3> QED
      BY <2>5, <3>1, <3>2, <3>7, <3>8
  <2> QED
    BY <2>1, <2>7, <2>8
<1> QED
  BY <1>2, <1>3 DEF Protocols

LEMMA TailUnits ==
    ASSUME protocol \in Protocols, NEW tail \in Tails
    PROVE  tail \in Seq(Units) \ {<<>>}
<1> DEFINE cut(m) == SubSeq(Serialised(m), 1, SizeOf[m] - 1)
<1>1. PICK m \in Requests :
        /\ SizeOf[m] > 1
        /\ \/ tail = cut(m)
           \/ tail = <<Length(SizeOf[m])>> \o cut(m)
           \/ tail = <<Length(SizeOf[m] - 1)>> \o Serialised(m)
  BY DEF Tails
<1>2. /\ m \in Messages /\ SizeOf[m] \in Nat /\ SizeOf[m] - 1 \in Nat
      /\ Serialised(m) \in Seq(Units) /\ cut(m) \in Seq(Units) \ {<<>>}
  <2>1. /\ m \in Messages /\ SizeOf[m] \in Nat /\ SizeOf[m] > 1
        /\ Serialised(m) \in Seq(Units)
    BY <1>1, SerialisedUnits
  <2>2. PICK part : part = cut(m)
    OBVIOUS
  <2>3. part \in Seq(Units) \ {<<>>}
    BY <2>1, <2>2, CutUnits
  <2> QED
    BY <2>1, <2>2, <2>3
<1>3. ASSUME NEW n \in Nat, NEW binary \in Seq(Units)
      PROVE  <<Length(n)>> \o binary \in Seq(Units) \ {<<>>}
  <2>1. Length(n) \in Units
    BY DEF Units
  <2>2. <<Length(n)>> \in Seq(Units) /\ Len(<<Length(n)>>) = 1
    BY <2>1
  <2> QED
    BY <2>2, ConcatProperties
<1> HIDE DEF cut
<1> QED
  BY <1>1, <1>2, <1>3

(* Damage alone, and after a message.                                       *)
LEMMA TailYields ==
    ASSUME protocol \in Protocols, NEW tail \in Tails,
           NEW s, NEW lo \in Nat, s[lo + 1] = Damage
    PROVE  Yields(protocol, tail, 0, s, lo, lo + 1)
<1>1. CASE protocol.batched
  <2>1. PICK pre : pre = <<>>
    OBVIOUS
  <2>2. ReadyAfter(protocol, pre, 0)
    BY <1>1, <2>1, AtTheStart
  <2>3. /\ ~Exhausted(protocol, pre \o tail, 0)
        /\ Decoded(NextObject(protocol, pre \o tail, 0).units) = {}
    BY <1>1, <2>2, DamageAfter
  <2>4. pre \o tail = tail
    BY <2>1, TailUnits, ConcatEmptySeq
  <2> QED
    BY <2>3, <2>4, YieldsDamage
<1>2. CASE ~protocol.batched
  <2>1. PICK m \in Requests :
          SizeOf[m] > 1 /\ tail = SubSeq(Serialised(m), 1, SizeOf[m] - 1)
    BY <1>2 DEF Tails
  <2>2. Decoded(tail) = {}
    BY <2>1, CutUnits
  <2>3. ~Exhausted(protocol, tail, 0) /\ NextObject(protocol, tail, 0).units = tail
    <3>1. \A at : Exhausted(protocol, tail, at) <=> at > 0
      BY <1>2 DEF Exhausted
    <3>2. NextObject(protocol, tail, 0) = [units |-> tail, at |-> Len(tail) + 1]
      BY <1>2 DEF NextObject
    <3>3. ~(0 > 0)
      OBVIOUS
    <3> QED
      BY <3>1, <3>2, <3>3
  <2> QED
    BY <2>2, <2>3, YieldsDamage
<1> QED
  BY <1>1, <1>2

LEMMA MessageTailYield ==
    ASSUME protocol \in Protocols, protocol.batched, NEW m \in Messages, NEW tail \in Tails,
           Fits(protocol, m), NEW s, NEW lo \in Nat, s[lo + 1] = m, s[lo + 2] = Damage
    PROVE  Yields(protocol, Encode(protocol, m) \o tail, 0, s, lo, lo + 2)
<1>1. PICK data, first :
        /\ data = Encode(protocol, m) \o tail
        /\ first = NextObject(protocol, data, 0)
  OBVIOUS
<1>2. /\ ~Exhausted(protocol, data, 0) /\ Decoded(first.units) = {m}
      /\ ReadyAfter(protocol, Encode(protocol, m), first.at)
  BY <1>1, TailUnits, MessageFirst
<1>3. /\ ~Exhausted(protocol, data, first.at)
      /\ Decoded(NextObject(protocol, data, first.at).units) = {}
  BY <1>1, <1>2, DamageAfter
<1>4. first.at \in Nat
  BY <1>2, ReadyAt
<1>5. Yields(protocol, data, first.at, s, lo + 1, lo + 2)
  <2>1. (lo + 1) + 1 = lo + 2 /\ lo + 1 \in Nat
    OBVIOUS
  <2> QED
    BY <1>3, <1>4, <2>1, YieldsDamage
<1>6. lo + 2 \in Nat /\ lo < lo + 2 /\ s[lo + 1] # Damage
  OBVIOUS
<1> QED
  BY <1>1, <1>2, <1>5, <1>6, YieldsFirst

(* A length that says more than there is, of what comes last.               *)
LEMMA OverlongYields ==
    ASSUME protocol = Preference[1], NEW m \in Messages, SizeOf[m] + 1 < Width,
           NEW s, NEW lo \in Nat, s[lo + 1] = m
    PROVE  Yields(protocol, <<Length(SizeOf[m] + 1)>> \o Serialised(m), 0, s, lo, lo + 1)
<1> DEFINE n == SizeOf[m] + 1
           data == <<Length(n)>> \o Serialised(m)
<1>0. protocol \in Protocols /\ protocol.batched /\ protocol.codec = "msgpack"
  BY DEF Preference, Protocol, Protocols
<1>1. /\ SizeOf[m] \in Nat \ {0} /\ n \in Nat
      /\ Serialised(m) \in Seq(Units) /\ Len(Serialised(m)) = SizeOf[m]
      /\ Serialised(m) # <<>>
  BY SerialisedUnits
<1>2. <<Length(n)>> \in Seq(Units) /\ Len(<<Length(n)>>) = 1
  <2>1. Length(n) \in Units
    BY <1>1 DEF Units
  <2> QED
    BY <2>1
<1>3. data \in Seq(Units) /\ Len(data) = 1 + SizeOf[m]
  BY <1>1, <1>2, ConcatProperties
<1>4. PICK pre, post : pre = <<>> /\ post = <<>>
  OBVIOUS
<1>5. (pre \o data) \o post = data
  BY <1>3, <1>4, ConcatEmptySeq
<1>6. /\ ~Exhausted(protocol, (pre \o data) \o post, 0)
      /\ NextObject(protocol, (pre \o data) \o post, 0) =
            [units |-> Serialised(m), at |-> Len(pre) + 1 + n]
  <2>1. /\ ReadyAfter(protocol, pre, 0) /\ post \in Seq(Units)
        /\ post # <<>> => Len(Serialised(m)) = n
    BY <1>0, <1>4, AtTheStart
  <2>2. Len(Serialised(m)) <= n /\ n < Width
    BY <1>1
  <2> HIDE DEF n
  <2> QED
    BY <1>0, <1>1, <2>1, <2>2, NextLength
<1>7. NextObject(protocol, data, 0) = [units |-> Serialised(m), at |-> 1 + n]
  BY <1>1, <1>4, <1>5, <1>6
<1>8. 1 + n \in Nat /\ Exhausted(protocol, data, 1 + n)
  BY <1>0, <1>1, <1>3 DEF Exhausted
<1> HIDE DEF data, n
<1>9. Yields(protocol, data, 1 + n, s, lo + 1, lo + 1)
  BY <1>8, YieldsNothing
<1>10. ~Exhausted(protocol, data, 0) /\ Decoded(NextObject(protocol, data, 0).units) = {m}
  BY <1>5, <1>6, <1>7, DecodedWhole
<1>11. lo + 1 \in Nat /\ lo < lo + 1 /\ s[lo + 1] # Damage
  OBVIOUS
<1> QED
  BY <1>7, <1>9, <1>10, <1>11, YieldsFirst DEF data, n

-----------------------------------------------------------------------------
(* Frames on their way, and what they carry: a frame of the right type what  *)
(* its payload yields; one of the other type nothing or, where it ends the   *)
(* iteration, damage.                                                       *)
Frames == [type : {"text", "bytes"}, data : Seq(Units) \ {<<>>}]

Carried(frame, s, lo, hi) ==
    IF frame.type = DataType(protocol) THEN Yields(protocol, frame.data, 0, s, lo, hi)
    ELSE IF server = "aiohttp" THEN hi = lo
    ELSE hi = lo + 1 /\ s[hi] = Damage

(* While the server reads: what the client said is cut into what was got,   *)
(* what is left of the payload in hand, and what each frame carries.         *)
CutBy(cut) ==
    /\ cut \in [0 .. Len(inbox) -> 0 .. Len(said)]
    /\ Len(got) <= cut[0] /\ cut[Len(inbox)] = Len(said)
    /\ \A i \in 1 .. Len(inbox) :
        cut[i - 1] <= cut[i] /\ Carried(inbox[i], said, cut[i - 1], cut[i])
    /\ Yields(protocol, reading.data, reading.at, said, Len(got), cut[0])

StreamInv ==
    /\ inbox \in Seq(Frames) /\ Len(inbox) <= MaxFrames
    /\ said \in Seq(Messages \cup {Damage}) /\ Len(said) <= MaxSent
    /\ got \in Seq(Messages) /\ Len(got) <= Len(said)
    /\ \A k \in 1 .. Len(got) : got[k] = said[k]
    /\ Awaiting => \E cut : CutBy(cut)

ControlInv ==
    /\ server \in {"asgi", "aiohttp"} /\ (server = "aiohttp" => support = "asyncio")
    /\ pc \in {"connecting", "hello", "loop", "ending", "session over", "done"}
    /\ protocol \in Protocols \cup {NoProtocol}
    /\ pc \notin {"connecting", "done"} => protocol \in Protocols
    /\ link \in {"up", "down"} /\ reader \in {"open", "ended", "failed", "aborted"}
    /\ pc = "connecting" =>
        /\ protocol = NoProtocol /\ reader = "open" /\ reading = NoPayload
        /\ said = <<>> /\ inbox = <<>> /\ got = <<>>

-----------------------------------------------------------------------------
(* What is negotiated is a protocol.                                        *)
LEMMA NegotiatedIsProtocol ==
    ASSUME server \in {"asgi", "aiohttp"}, NEW offered \in SUBSET Protocols
    PROVE  Negotiated(offered) \subseteq Protocols
<1>0. Len(Preference) = 4 /\ \A i \in 1 .. 4 : Preference[i] \in Protocols
  BY DEF Preference, Protocol, Protocols
<1>1. CASE server = "aiohttp" \/ offered = {}
  <2>1. Negotiated(offered) = offered \/ Negotiated(offered) = {Preference[1]}
    BY <1>1 DEF Negotiated
  <2> QED
    BY <1>0, <2>1
<1>2. CASE server # "aiohttp" /\ offered # {}
  <2> DEFINE I == {i \in 1 .. Len(Preference) : Preference[i] \in offered}
  <2>1. I \in SUBSET Nat /\ I # {}
    <3>1. PICK p \in Protocols : p \in offered
      BY <1>2
    <3>2. \E i \in 1 .. 4 : Preference[i] = p
      BY DEF Preference, Protocol, Protocols
    <3> QED
      BY <1>0, <3>1, <3>2
  <2>2. \E x \in I : \A y \in I : x <= y
    BY <1>0, <2>1
  <2>3. Min(I) \in I
    BY <2>2 DEF Min
  <2>4. SelectInSeq(Preference, LAMBDA p : p \in offered) = Min(I)
    BY <2>1 DEF SelectInSeq
  <2>5. Negotiated(offered) = {Preference[Min(I)]}
    BY <1>2, <2>4 DEF Negotiated
  <2> QED
    BY <1>0, <2>3, <2>5
<1> QED
  BY <1>1, <1>2

(* Where the coroutine is goes with what is negotiated, whatever happens.   *)
LEMMA StepControl ==
    ASSUME ControlInv, [Next]_vars
    PROVE  ControlInv'
<1>1. CASE Client
  <2>1. pc # "connecting" \/ ClientLeaves
    BY <1>1 DEF Client, SendFrame, SendDamaged, SendOverlong, SendWrongType, Connected, Awaiting
  <2>2. CASE ClientLeaves
    BY <2>2 DEF ClientLeaves, ControlInv
  <2>3. CASE ~ClientLeaves
    <3>0. ASSUME NEW type, NEW data, NEW spoken, Put(type, data, spoken)
          PROVE  UNCHANGED <<served, pc, link, stream, sent, groupVars>>
      BY <3>0 DEF Put
    <3>1. UNCHANGED <<served, pc, link, stream, sent, groupVars>>
      BY <1>1, <2>3, <3>0 DEF Client, SendFrame, SendDamaged, SendOverlong, SendWrongType
    <3> QED
      BY <2>1, <2>3, <3>1 DEF ControlInv
  <2> QED
    BY <2>2, <2>3
<1>2. CASE Connect
  BY <1>2, NegotiatedIsProtocol DEF Connect, ControlInv
<1>3. CASE NotServed \/ LeaveBeforeHello
  BY <1>3 DEF NotServed, LeaveBeforeHello, ControlInv
<1>4. CASE ReadFrame
  BY <1>4 DEF ReadFrame, Awaiting, AbortConnection, ControlInv
<1>5. CASE ReadEnd \/ ReadDamage
  BY <1>5 DEF ReadEnd, ReadDamage, Awaiting, ControlInv
<1>6. CASE Hello
  BY <1>6 DEF Hello, TakeHello, Yield, Open, ControlInv
<1>7. CASE NoHello
  BY <1>7 DEF NoHello, Yield, AbortConnection, ControlInv
<1>8. CASE Call
  BY <1>8 DEF Call, Yield, Spawn, ControlInv
<1>9. ASSUME NEW how, BodyEnds(how)
      PROVE  support' = support
  BY <1>9 DEF BodyEnds, ShieldWaits, ShieldForgets, ShieldRaises, Leave
<1>10. CASE Reject
  BY <1>9, <1>10 DEF Reject, Yield, AbortConnection, End, ControlInv
<1>11. CASE Unhandled \/ LeaveLoop
  BY <1>9, <1>11 DEF Unhandled, LeaveLoop, Yield, End, ControlInv
<1>12. CASE FrameworkCancels \/ FrameworkCloses
  BY <1>9, <1>12 DEF FrameworkCancels, FrameworkCloses, CancelLeaving, Leave, End, ControlInv
<1>13. CASE CleanUp
  BY <1>13 DEF CleanUp, CleanupEnds, Leave, ControlInv
<1>14. ASSUME NEW k \in Tasks, Task(k)
       PROVE  ControlInv'
  BY <1>14 DEF Task, Reply, TaskStops, TaskRaises, TaskEnds, Leave, ControlInv
<1>15. CASE Terminated \/ UNCHANGED vars
  BY <1>15 DEF Terminated, ControlInv
<1> QED
  BY <1>1, <1>2, <1>3, <1>4, <1>5, <1>6, <1>7, <1>8, <1>10, <1>11, <1>12, <1>13, <1>14, <1>15
     DEF Next, Coroutine

-----------------------------------------------------------------------------
(* Frames that arrive, are opened and read.                                 *)
LEMMA CarriedOfSame ==
    ASSUME NEW frame, NEW s, NEW t, NEW lo \in Nat, NEW hi \in Nat, lo <= hi,
           \A k \in lo + 1 .. hi : t[k] = s[k], Carried(frame, s, lo, hi)
    PROVE  Carried(frame, t, lo, hi)
<1>1. hi = lo + 1 => t[hi] = s[hi]
  OBVIOUS
<1> QED
  BY <1>1, YieldsOfSame DEF Carried

(* A frame is sent whose payload carries what was said in it.               *)
LEMMA PutKeepsStream ==
    ASSUME StreamInv, Connected, NEW type \in {"text", "bytes"},
           NEW data \in Seq(Units) \ {<<>>}, NEW spoken \in Seq(Messages \cup {Damage}),
           Put(type, data, spoken),
           Carried([type |-> type, data |-> data], said', Len(said), Len(said'))
    PROVE  StreamInv' /\ UNCHANGED <<got, reader>>
<1> DEFINE frame == [type |-> type, data |-> data]
<1>1. /\ inbox' = Append(inbox, frame) /\ said' = said \o spoken
      /\ Len(inbox) < MaxFrames /\ Len(said) + Len(spoken) <= MaxSent
      /\ UNCHANGED <<server, protocol, pc, reader, reading, got>>
  BY DEF Put
<1>2. /\ said \in Seq(Messages \cup {Damage}) /\ got \in Seq(Messages) /\ inbox \in Seq(Frames)
      /\ Len(said) \in Nat /\ Len(got) \in Nat /\ Len(inbox) \in Nat /\ Len(spoken) \in Nat
      /\ Len(got) <= Len(said) /\ \A k \in 1 .. Len(got) : got[k] = said[k]
  BY DEF StreamInv
<1>3. /\ said' \in Seq(Messages \cup {Damage}) /\ Len(said') = Len(said) + Len(spoken)
      /\ \A k \in 1 .. Len(said) : said'[k] = said[k]
  BY <1>1, <1>2, ConcatProperties
<1>4. frame \in Frames
  BY DEF Frames
<1>5. /\ inbox' \in Seq(Frames) /\ Len(inbox') = Len(inbox) + 1
      /\ \A i \in 1 .. Len(inbox) : inbox'[i] = inbox[i]
      /\ inbox'[Len(inbox) + 1] = frame
  <2> HIDE DEF frame
  <2> QED
    BY <1>1, <1>2, <1>4, AppendProperties
<1>6. PICK cut : CutBy(cut)
  BY DEF StreamInv, Connected
<1>7. \E new : CutBy(new)'
  <2>0. PICK new :
          new = [i \in 0 .. Len(inbox) + 1 |-> IF i <= Len(inbox) THEN cut[i] ELSE Len(said')]
    OBVIOUS
  <2>1. /\ cut \in [0 .. Len(inbox) -> 0 .. Len(said)]
        /\ Len(got) <= cut[0] /\ cut[Len(inbox)] = Len(said)
        /\ \A i \in 1 .. Len(inbox) :
            cut[i - 1] <= cut[i] /\ Carried(inbox[i], said, cut[i - 1], cut[i])
        /\ Yields(protocol, reading.data, reading.at, said, Len(got), cut[0])
    BY <1>6 DEF CutBy
  <2>2. /\ new \in [0 .. Len(inbox') -> 0 .. Len(said')]
        /\ \A i \in 0 .. Len(inbox) : new[i] = cut[i]
        /\ new[Len(inbox')] = Len(said')
    BY <1>2, <1>3, <1>5, <2>0, <2>1
  <2>3. ASSUME NEW i \in 1 .. Len(inbox')
        PROVE  new[i - 1] <= new[i] /\ Carried(inbox'[i], said', new[i - 1], new[i])
    <3>1. CASE i <= Len(inbox)
      <4>1. /\ i \in 1 .. Len(inbox) /\ i - 1 \in 0 .. Len(inbox) /\ i \in 0 .. Len(inbox)
        BY <1>2, <1>5, <3>1
      <4>2. /\ new[i - 1] = cut[i - 1] /\ new[i] = cut[i] /\ inbox'[i] = inbox[i]
            /\ cut[i - 1] \in 0 .. Len(said) /\ cut[i] \in 0 .. Len(said)
        BY <1>5, <2>1, <2>2, <4>1
      <4>3. cut[i - 1] <= cut[i] /\ Carried(inbox[i], said, cut[i - 1], cut[i])
        BY <2>1, <4>1
      <4>4. PICK lo, hi : lo = cut[i - 1] /\ hi = cut[i]
        OBVIOUS
      <4>5. /\ lo \in Nat /\ hi \in Nat /\ lo <= hi /\ hi <= Len(said)
            /\ Carried(inbox[i], said, lo, hi)
        BY <1>2, <4>2, <4>3, <4>4
      <4>6. \A k \in lo + 1 .. hi : said'[k] = said[k]
        <5>1. \A k \in lo + 1 .. hi : k \in 1 .. Len(said)
          BY <1>2, <4>5
        <5> QED
          BY <1>3, <5>1
      <4>7. Carried(inbox[i], said', lo, hi)
        BY <4>5, <4>6, CarriedOfSame
      <4> QED
        BY <4>2, <4>3, <4>4, <4>7
    <3>2. CASE ~(i <= Len(inbox))
      <4>1. i = Len(inbox) + 1 /\ i - 1 = Len(inbox) /\ Len(inbox) \in 0 .. Len(inbox)
        BY <1>2, <1>5, <3>2
      <4>2. new[i - 1] = Len(said) /\ new[i] = Len(said') /\ inbox'[i] = frame
        BY <1>5, <2>1, <2>2, <4>1
      <4> QED
        BY <1>2, <1>3, <4>2
    <3> QED
      BY <3>1, <3>2
  <2>4. Len(got) <= new[0] /\ Yields(protocol, reading.data, reading.at, said', Len(got), new[0])
    <3>1. new[0] = cut[0] /\ cut[0] \in 0 .. Len(said)
      BY <1>2, <2>1, <2>2
    <3>2. PICK lo, hi : lo = Len(got) /\ hi = cut[0]
      OBVIOUS
    <3>3. /\ lo \in Nat /\ hi \in Nat /\ lo <= hi /\ hi <= Len(said)
          /\ Yields(protocol, reading.data, reading.at, said, lo, hi)
      BY <1>2, <2>1, <3>1, <3>2
    <3>4. \A k \in lo + 1 .. hi : said'[k] = said[k]
      BY <1>2, <1>3, <3>3
    <3>5. Yields(protocol, reading.data, reading.at, said', lo, hi)
      BY <3>3, <3>4, YieldsOfSame
    <3> QED
      BY <2>1, <3>1, <3>2, <3>5
  <2>5. CutBy(new)'
    BY <1>1, <2>2, <2>3, <2>4 DEF CutBy, Carried
  <2> QED
    BY <2>5
<1> QED
  BY <1>1, <1>2, <1>3, <1>5, <1>7 DEF StreamInv

(* The iterator yields the next of the messages that were said.             *)
LEMMA YieldKeepsStream ==
    ASSUME StreamInv, NEW m \in Messages, Yield(m)
    PROVE  /\ StreamInv' /\ UNCHANGED <<said, reader>>
           /\ Len(got) < Len(said) /\ said[Len(got) + 1] = m
           /\ got' = Append(got, m)
<1>1. /\ reading' = [reading EXCEPT !.at = Upcoming.at] /\ got' = Append(got, m)
      /\ UNCHANGED <<server, protocol, inbox, said, reader>>
      /\ Awaiting /\ ~Through /\ m \in Decoded(Upcoming.units)
  BY DEF Yield
<1>2. /\ said \in Seq(Messages \cup {Damage}) /\ got \in Seq(Messages) /\ inbox \in Seq(Frames)
      /\ Len(said) \in Nat /\ Len(got) \in Nat /\ Len(inbox) \in Nat
      /\ Len(got) <= Len(said) /\ \A k \in 1 .. Len(got) : got[k] = said[k]
  BY DEF StreamInv
<1>3. /\ got' \in Seq(Messages) /\ Len(got') = Len(got) + 1
      /\ \A k \in 1 .. Len(got) : got'[k] = got[k]
      /\ got'[Len(got) + 1] = m
  BY <1>1, <1>2, AppendProperties
<1>4. PICK cut : CutBy(cut)
  BY <1>1 DEF StreamInv
<1>5. /\ cut \in [0 .. Len(inbox) -> 0 .. Len(said)]
      /\ Len(got) <= cut[0] /\ cut[Len(inbox)] = Len(said)
      /\ \A i \in 1 .. Len(inbox) :
            cut[i - 1] <= cut[i] /\ Carried(inbox[i], said, cut[i - 1], cut[i])
      /\ Yields(protocol, reading.data, reading.at, said, Len(got), cut[0])
  BY <1>4 DEF CutBy
<1>6. cut[0] \in Nat /\ cut[0] <= Len(said)
  BY <1>2, <1>5
<1>7. /\ Len(got) # cut[0]
      /\ Decoded(Upcoming.units) = {said[Len(got) + 1]} \ {Damage}
      /\ said[Len(got) + 1] # Damage =>
            Yields(protocol, reading.data, Upcoming.at, said, Len(got) + 1, cut[0])
  <2>1. PICK lo, hi : lo = Len(got) /\ hi = cut[0]
    OBVIOUS
  <2>2. /\ lo \in Nat /\ hi \in Nat /\ lo <= hi
        /\ Yields(protocol, reading.data, reading.at, said, lo, hi)
    BY <1>2, <1>5, <1>6, <2>1
  <2>3. /\ Exhausted(protocol, reading.data, reading.at) <=> lo = hi
        /\ ~Exhausted(protocol, reading.data, reading.at) =>
             /\ Decoded(NextObject(protocol, reading.data, reading.at).units)
                    = {said[lo + 1]} \ {Damage}
             /\ said[lo + 1] # Damage =>
                    Yields(protocol, reading.data, NextObject(protocol, reading.data, reading.at).at,
                           said, lo + 1, hi)
    BY <2>2, YieldsNext
  <2> QED
    BY <1>1, <2>1, <2>3 DEF Through, Upcoming
<1>8. said[Len(got) + 1] = m /\ m # Damage
  BY <1>1, <1>7
<1>9. Len(got) < cut[0] /\ Len(got) < Len(said)
  BY <1>2, <1>5, <1>6, <1>7
<1>10. Awaiting' => CutBy(cut)'
  <2>1. SUFFICES ASSUME Awaiting' PROVE CutBy(cut)'
    OBVIOUS
  <2>2. Yields(protocol, reading'.data, reading'.at, said, Len(got'), cut[0])
    BY <1>1, <1>3, <1>7, <1>8
  <2> QED
    BY <1>1, <1>2, <1>3, <1>5, <1>6, <1>9, <2>2 DEF CutBy, Carried
<1>11. \A k \in 1 .. Len(got') : got'[k] = said'[k]
  BY <1>1, <1>2, <1>3, <1>8
<1> QED
  BY <1>1, <1>2, <1>3, <1>8, <1>9, <1>10, <1>11 DEF StreamInv

(* What the reader finds at the end of a payload: the end of what was said, *)
(* or a frame, and damage where it is of a type that ends the iteration.     *)
LEMMA ReaderFinds ==
    ASSUME StreamInv, Awaiting
    PROVE  /\ Through /\ inbox = <<>> => Len(got) = Len(said)
           /\ ~Through /\ Decoded(Upcoming.units) = {} =>
                Len(got) < Len(said) /\ said[Len(got) + 1] = Damage
           /\ Through /\ inbox # <<>> /\ Head(inbox).type # DataType(protocol)
                  /\ server # "aiohttp" =>
                Len(got) < Len(said) /\ said[Len(got) + 1] = Damage
<1>1. /\ said \in Seq(Messages \cup {Damage}) /\ inbox \in Seq(Frames)
      /\ Len(said) \in Nat /\ Len(got) \in Nat /\ Len(inbox) \in Nat
      /\ Len(got) <= Len(said)
  BY DEF StreamInv
<1>2. PICK cut : CutBy(cut)
  BY DEF StreamInv
<1>3. /\ cut \in [0 .. Len(inbox) -> 0 .. Len(said)]
      /\ Len(got) <= cut[0] /\ cut[Len(inbox)] = Len(said)
      /\ \A i \in 1 .. Len(inbox) :
            cut[i - 1] <= cut[i] /\ Carried(inbox[i], said, cut[i - 1], cut[i])
      /\ Yields(protocol, reading.data, reading.at, said, Len(got), cut[0])
  BY <1>2 DEF CutBy
<1>4. cut[0] \in Nat /\ cut[0] <= Len(said)
  BY <1>1, <1>3
<1>5. /\ Through <=> Len(got) = cut[0]
      /\ ~Through => Decoded(Upcoming.units) = {said[Len(got) + 1]} \ {Damage}
  <2>1. PICK lo, hi : lo = Len(got) /\ hi = cut[0]
    OBVIOUS
  <2>2. /\ lo \in Nat /\ hi \in Nat /\ lo <= hi
        /\ Yields(protocol, reading.data, reading.at, said, lo, hi)
    BY <1>1, <1>3, <1>4, <2>1
  <2>3. /\ Exhausted(protocol, reading.data, reading.at) <=> lo = hi
        /\ ~Exhausted(protocol, reading.data, reading.at) =>
             /\ Decoded(NextObject(protocol, reading.data, reading.at).units)
                    = {said[lo + 1]} \ {Damage}
             /\ said[lo + 1] # Damage =>
                    Yields(protocol, reading.data, NextObject(protocol, reading.data, reading.at).at,
                           said, lo + 1, hi)
    BY <2>2, YieldsNext
  <2> QED
    BY <2>1, <2>3 DEF Through, Upcoming
<1>6. Through /\ inbox = <<>> => Len(got) = Len(said)
  BY <1>3, <1>5
<1>7. ASSUME ~Through, Decoded(Upcoming.units) = {}
      PROVE  Len(got) < Len(said) /\ said[Len(got) + 1] = Damage
  BY <1>1, <1>3, <1>4, <1>5, <1>7
<1>8. ASSUME Through, inbox # <<>>, Head(inbox).type # DataType(protocol), server # "aiohttp"
      PROVE  Len(got) < Len(said) /\ said[Len(got) + 1] = Damage
  <2>1. 1 \in 1 .. Len(inbox) /\ Head(inbox) = inbox[1] /\ 1 - 1 = 0
    BY <1>1, <1>8
  <2>2. Carried(inbox[1], said, cut[0], cut[1]) /\ cut[1] \in 0 .. Len(said)
    BY <1>3, <2>1
  <2>3. cut[1] = Len(got) + 1 /\ said[cut[1]] = Damage
    BY <1>5, <1>8, <2>1, <2>2 DEF Carried
  <2> QED
    BY <1>1, <2>2, <2>3
<1> QED
  BY <1>6, <1>7, <1>8

LEMMA DataTypes ==
    ASSUME NEW p
    PROVE  DataType(p) \in {"text", "bytes"}
  BY DEF DataType

(* What a client says in a frame is more of the same, or nothing.           *)
SaysMore ==
    /\ said' \in Seq(Messages \cup {Damage})
    /\ Len(said') > Len(said) /\ SubSeq(said', 1, Len(said)) = said

LEMMA PutSays ==
    ASSUME StreamInv, NEW type, NEW data, NEW spoken \in Seq(Messages \cup {Damage}),
           Put(type, data, spoken)
    PROVE  /\ said' = said \/ SaysMore
           /\ said' \in Seq(Messages \cup {Damage}) /\ Len(said') = Len(said) + Len(spoken)
           /\ \A i \in 1 .. Len(spoken) : said'[Len(said) + i] = spoken[i]
<1>1. said' = said \o spoken
  BY DEF Put
<1>2. said \in Seq(Messages \cup {Damage}) /\ Len(said) \in Nat /\ Len(spoken) \in Nat
  BY DEF StreamInv
<1>3. /\ said' \in Seq(Messages \cup {Damage}) /\ Len(said') = Len(said) + Len(spoken)
      /\ \A k \in 1 .. Len(said) + Len(spoken) :
            said'[k] = IF k <= Len(said) THEN said[k] ELSE spoken[k - Len(said)]
  BY <1>1, <1>2, ConcatProperties
<1>4. ASSUME NEW i \in 1 .. Len(spoken)
      PROVE  said'[Len(said) + i] = spoken[i]
  <2>1. /\ Len(said) + i \in 1 .. Len(said) + Len(spoken) /\ ~(Len(said) + i <= Len(said))
        /\ (Len(said) + i) - Len(said) = i
    BY <1>2
  <2> QED
    BY <1>3, <2>1
<1>5. SubSeq(said', 1, Len(said)) = said
  BY <1>2, <1>3
<1>6. CASE spoken = <<>>
  BY <1>1, <1>2, <1>3, <1>4, <1>6
<1>7. CASE spoken # <<>>
  <2>1. Len(spoken) > 0
    BY <1>2, <1>7
  <2> QED
    BY <1>2, <1>3, <1>4, <1>5, <2>1 DEF SaysMore
<1> QED
  BY <1>6, <1>7

(* What a client may send, as something to say and a frame that carries it. *)
Carries(data, spoken) ==
    \A s, lo :
        lo \in Nat /\ (\A i \in 1 .. Len(spoken) : s[lo + i] = spoken[i]) =>
            Yields(protocol, data, 0, s, lo, lo + Len(spoken))

(* A frame of the right type is sent.                                       *)
LEMMA SentKeepsStream ==
    ASSUME StreamInv, Connected, protocol \in Protocols,
           NEW data \in Seq(Units) \ {<<>>}, NEW spoken \in Seq(Messages \cup {Damage}),
           Put(DataType(protocol), data, spoken), Carries(data, spoken)
    PROVE  StreamInv' /\ UNCHANGED <<got, reader>> /\ (said' = said \/ SaysMore)
<1> DEFINE frame == [type |-> DataType(protocol), data |-> data]
<1>1. /\ said' = said \/ SaysMore
      /\ Len(said') = Len(said) + Len(spoken)
      /\ \A i \in 1 .. Len(spoken) : said'[Len(said) + i] = spoken[i]
  BY PutSays
<1>2. Len(said) \in Nat
  BY DEF StreamInv
<1>3. Yields(protocol, data, 0, said', Len(said), Len(said'))
  <2>1. PICK s, lo : s = said' /\ lo = Len(said)
    OBVIOUS
  <2>2. lo \in Nat /\ \A i \in 1 .. Len(spoken) : s[lo + i] = spoken[i]
    BY <1>1, <1>2, <2>1
  <2>3. Yields(protocol, data, 0, s, lo, lo + Len(spoken))
    BY <2>2 DEF Carries
  <2> QED
    BY <1>1, <2>1, <2>3
<1>4. Carried(frame, said', Len(said), Len(said'))
  BY <1>3 DEF Carried
<1> HIDE DEF frame
<1>5. DataType(protocol) \in {"text", "bytes"}
  BY DataTypes
<1> QED
  BY <1>1, <1>4, <1>5, PutKeepsStream DEF frame

(* One message, or a batch of two, is carried as it was said.               *)
LEMMA BatchesCarry ==
    ASSUME protocol \in Protocols, NEW ms \in Batches
    PROVE  /\ ms \in Seq(Messages \cup {Damage})
           /\ EncodeAll(protocol, ms) \in Seq(Units) \ {<<>>}
           /\ Carries(EncodeAll(protocol, ms), ms)
<1>1. \/ \E m \in Requests : ms = <<m>>
      \/ protocol.batched /\ \E m, n \in Requests : ms = <<m, n>>
  BY DEF Batches
<1>2. ASSUME NEW m \in Requests, ms = <<m>>
      PROVE  /\ ms \in Seq(Messages \cup {Damage})
             /\ EncodeAll(protocol, ms) \in Seq(Units) \ {<<>>}
             /\ Carries(EncodeAll(protocol, ms), ms)
  <2>1. m \in Messages /\ ms \in Seq(Messages \cup {Damage}) /\ Len(ms) = 1
    BY <1>2
  <2>2. EncodeAll(protocol, ms) = Encode(protocol, m)
    BY <1>2, EncodeAllIs
  <2>3. Encode(protocol, m) \in Seq(Units) \ {<<>>}
    BY <2>1, EncodedUnits
  <2>4. ASSUME NEW s, NEW lo, lo \in Nat, \A i \in 1 .. Len(ms) : s[lo + i] = ms[i]
        PROVE  Yields(protocol, Encode(protocol, m), 0, s, lo, lo + 1)
    <3>1. s[lo + 1] = m
      BY <1>2, <2>1, <2>4
    <3> QED
      BY <2>1, <2>4, <3>1, RequestsFit, OneYields
  <2>5. Carries(Encode(protocol, m), ms)
    BY <2>1, <2>4 DEF Carries
  <2> QED
    BY <2>1, <2>2, <2>3, <2>5
<1>3. ASSUME protocol.batched, NEW m \in Requests, NEW n \in Requests, ms = <<m, n>>
      PROVE  /\ ms \in Seq(Messages \cup {Damage})
             /\ EncodeAll(protocol, ms) \in Seq(Units) \ {<<>>}
             /\ Carries(EncodeAll(protocol, ms), ms)
  <2>1. m \in Messages /\ n \in Messages /\ ms \in Seq(Messages \cup {Damage}) /\ Len(ms) = 2
    BY <1>3
  <2>2. EncodeAll(protocol, ms) = Encode(protocol, m) \o Encode(protocol, n)
    BY <1>3, EncodeAllIs
  <2>3. Encode(protocol, m) \in Seq(Units) \ {<<>>} /\ Encode(protocol, n) \in Seq(Units) \ {<<>>}
    BY <2>1, EncodedUnits
  <2>4. Encode(protocol, m) \o Encode(protocol, n) \in Seq(Units) \ {<<>>}
    BY <2>3
  <2>5. ASSUME NEW s, NEW lo, lo \in Nat, \A i \in 1 .. Len(ms) : s[lo + i] = ms[i]
        PROVE  Yields(protocol, Encode(protocol, m) \o Encode(protocol, n), 0, s, lo, lo + 2)
    <3>1. s[lo + 1] = m /\ s[lo + 2] = n
      BY <1>3, <2>1, <2>5
    <3> QED
      BY <1>3, <2>1, <2>5, <3>1, RequestsFit, TwoYield
  <2>6. Carries(Encode(protocol, m) \o Encode(protocol, n), ms)
    BY <2>1, <2>5 DEF Carries
  <2> QED
    BY <2>1, <2>2, <2>4, <2>6
<1> QED
  BY <1>1, <1>2, <1>3

(* Damage, alone or after one message, is carried as that.                  *)
LEMMA DamageCarries ==
    ASSUME protocol \in Protocols, NEW tail \in Tails, NEW ms \in {<<>>} \cup Batches,
           Len(ms) <= IF protocol.batched THEN 1 ELSE 0
    PROVE  /\ ms \o <<Damage>> \in Seq(Messages \cup {Damage})
           /\ EncodeAll(protocol, ms) \o tail \in Seq(Units) \ {<<>>}
           /\ Carries(EncodeAll(protocol, ms) \o tail, ms \o <<Damage>>)
<1>0. tail \in Seq(Units) \ {<<>>}
  BY TailUnits
<1>1. ms = <<>> \/ (protocol.batched /\ \E m \in Requests : ms = <<m>>)
  <2>1. ASSUME NEW m, ms = <<m>> PROVE protocol.batched
    BY <2>1
  <2>2. ASSUME NEW m, NEW n, ms = <<m, n>> PROVE FALSE
    BY <2>2
  <2> QED
    BY <2>1, <2>2 DEF Batches
<1>2. CASE ms = <<>>
  <2>1. ms \o <<Damage>> = <<Damage>>
    BY <1>2
  <2>2. EncodeAll(protocol, ms) \o tail = tail
    <3>1. EncodeAll(protocol, ms) = <<>>
      BY <1>2, EncodeAllIs
    <3> QED
      BY <1>0, <3>1, ConcatEmptySeq
  <2>3. ASSUME NEW s, NEW lo, lo \in Nat, \A i \in 1 .. Len(<<Damage>>) : s[lo + i] = <<Damage>>[i]
        PROVE  Yields(protocol, tail, 0, s, lo, lo + 1)
    <3>1. s[lo + 1] = Damage
      BY <2>3
    <3> QED
      BY <2>3, <3>1, TailYields
  <2>4. Carries(tail, <<Damage>>)
    BY <2>3 DEF Carries
  <2>5. <<Damage>> \in Seq(Messages \cup {Damage})
    OBVIOUS
  <2>6. /\ ms \o <<Damage>> \in Seq(Messages \cup {Damage})
        /\ Carries(EncodeAll(protocol, ms) \o tail, ms \o <<Damage>>)
    BY ONLY <2>1, <2>2, <2>4, <2>5
  <2> QED
    BY <1>0, <2>2, <2>6
<1>3. ASSUME protocol.batched, NEW m \in Requests, ms = <<m>>
      PROVE  /\ ms \o <<Damage>> \in Seq(Messages \cup {Damage})
             /\ EncodeAll(protocol, ms) \o tail \in Seq(Units) \ {<<>>}
             /\ Carries(EncodeAll(protocol, ms) \o tail, ms \o <<Damage>>)
  <2>1. ms \o <<Damage>> = <<m, Damage>>
    <3>1. PICK one, other, pair : one = <<m>> /\ other = <<Damage>> /\ pair = <<m, Damage>>
      OBVIOUS
    <3>2. /\ one \in Seq({m, Damage}) /\ other \in Seq({m, Damage}) /\ pair \in Seq({m, Damage})
          /\ Len(one) = 1 /\ Len(other) = 1 /\ Len(pair) = 2
          /\ one[1] = m /\ other[1] = Damage /\ pair[1] = m /\ pair[2] = Damage
      BY <3>1
    <3>3. /\ one \o other \in Seq({m, Damage}) /\ Len(one \o other) = 2
          /\ (one \o other)[1] = m /\ (one \o other)[2] = Damage
      BY ONLY <3>2, ConcatProperties
    <3>4. one \o other = pair
      BY ONLY <3>2, <3>3, SeqEqual
    <3> QED
      BY <1>3, <3>1, <3>4
  <2>2. EncodeAll(protocol, ms) = Encode(protocol, m)
    BY <1>3, EncodeAllIs
  <2>3. m \in Messages /\ Encode(protocol, m) \in Seq(Units) \ {<<>>}
    BY EncodedUnits
  <2>4. Encode(protocol, m) \o tail \in Seq(Units) \ {<<>>}
    BY <1>0, <2>3
  <2>5. ASSUME NEW s, NEW lo, lo \in Nat,
               \A i \in 1 .. Len(<<m, Damage>>) : s[lo + i] = <<m, Damage>>[i]
        PROVE  Yields(protocol, Encode(protocol, m) \o tail, 0, s, lo, lo + 2)
    <3>1. s[lo + 1] = m /\ s[lo + 2] = Damage
      BY <2>5
    <3> QED
      BY <1>3, <2>3, <2>5, <3>1, RequestsFit, MessageTailYield
  <2>6. Carries(Encode(protocol, m) \o tail, <<m, Damage>>)
    BY <2>5 DEF Carries
  <2>7. <<m, Damage>> \in Seq(Messages \cup {Damage})
    BY <2>3
  <2> QED
    BY ONLY <2>1, <2>2, <2>4, <2>6, <2>7
<1> QED
  BY <1>1, <1>2, <1>3

(* A length that says more than there is does no harm to what comes last.   *)
LEMMA OverlongCarries ==
    ASSUME protocol = Preference[1], NEW m \in Requests, SizeOf[m] + 1 < Width
    PROVE  /\ <<m>> \in Seq(Messages \cup {Damage})
           /\ <<Length(SizeOf[m] + 1)>> \o Serialised(m) \in Seq(Units) \ {<<>>}
           /\ Carries(<<Length(SizeOf[m] + 1)>> \o Serialised(m), <<m>>)
<1>1. m \in Messages /\ SizeOf[m] \in Nat /\ Serialised(m) \in Seq(Units)
  BY SerialisedUnits
<1>2. <<Length(SizeOf[m] + 1)>> \in Seq(Units) /\ <<Length(SizeOf[m] + 1)>> # <<>>
  <2>1. Length(SizeOf[m] + 1) \in Units
    BY <1>1 DEF Units
  <2> QED
    BY <2>1
<1>3. <<Length(SizeOf[m] + 1)>> \o Serialised(m) \in Seq(Units) \ {<<>>}
  <2>1. PICK head : head = <<Length(SizeOf[m] + 1)>>
    OBVIOUS
  <2>2. head \in Seq(Units) /\ head # <<>>
    BY <1>2, <2>1
  <2>3. head \o Serialised(m) \in Seq(Units) \ {<<>>}
    BY <1>1, <2>2
  <2> QED
    BY <2>1, <2>3
<1>4. ASSUME NEW s, NEW lo, lo \in Nat, \A i \in 1 .. Len(<<m>>) : s[lo + i] = <<m>>[i]
      PROVE  Yields(protocol, <<Length(SizeOf[m] + 1)>> \o Serialised(m), 0, s, lo, lo + 1)
  <2>1. s[lo + 1] = m
    BY <1>4
  <2> QED
    BY <1>1, <1>4, <2>1, OverlongYields
<1>5. Carries(<<Length(SizeOf[m] + 1)>> \o Serialised(m), <<m>>)
  BY <1>4 DEF Carries
<1> QED
  BY <1>1, <1>3, <1>5

(* Whatever a client sends.                                                 *)
LEMMA SendKeepsStream ==
    ASSUME ControlInv, StreamInv, SendFrame \/ SendDamaged \/ SendOverlong \/ SendWrongType
    PROVE  StreamInv' /\ UNCHANGED <<got, reader>> /\ (said' = said \/ SaysMore)
<1>1. Connected /\ protocol \in Protocols /\ server \in {"asgi", "aiohttp"}
  BY DEF SendFrame, SendDamaged, SendOverlong, SendWrongType, Connected, Awaiting, ControlInv
<1>2. CASE SendFrame
  <2>1. PICK ms \in Batches : Put(DataType(protocol), EncodeAll(protocol, ms), ms)
    BY <1>2 DEF SendFrame
  <2> QED
    BY <1>1, <2>1, BatchesCarry, SentKeepsStream
<1>3. CASE SendDamaged
  <2>1. PICK tail \in Tails, ms \in {<<>>} \cup Batches :
            /\ Len(ms) <= IF protocol.batched THEN 1 ELSE 0
            /\ Put(DataType(protocol), EncodeAll(protocol, ms) \o tail, ms \o <<Damage>>)
    BY <1>3 DEF SendDamaged
  <2> QED
    BY <1>1, <2>1, DamageCarries, SentKeepsStream
<1>4. CASE SendOverlong
  <2>1. PICK m \in Requests :
            /\ SizeOf[m] + 1 < Width
            /\ Put(DataType(protocol), <<Length(SizeOf[m] + 1)>> \o Serialised(m), <<m>>)
    BY <1>4 DEF SendOverlong
  <2>2. protocol = Preference[1]
    BY <1>4 DEF SendOverlong
  <2> QED
    BY <1>1, <2>1, <2>2, OverlongCarries, SentKeepsStream
<1>5. CASE SendWrongType
  <2>1. PICK type \in {"text", "bytes"} \ {DataType(protocol)}, m \in Requests :
            Put(type, Serialised(m), IF server = "asgi" THEN <<Damage>> ELSE <<>>)
    BY <1>5 DEF SendWrongType
  <2>2. PICK spoken : spoken = IF server = "asgi" THEN <<Damage>> ELSE <<>>
    OBVIOUS
  <2>3. spoken \in Seq(Messages \cup {Damage}) /\ Put(type, Serialised(m), spoken)
    <3>1. <<Damage>> \in Seq(Messages \cup {Damage}) /\ <<>> \in Seq(Messages \cup {Damage})
      OBVIOUS
    <3>2. spoken = <<Damage>> \/ spoken = <<>>
      BY <2>2
    <3>3. Put(type, Serialised(m), spoken)
      BY ONLY <2>1, <2>2
    <3> QED
      BY <3>1, <3>2, <3>3
  <2>4. Serialised(m) \in Seq(Units) \ {<<>>}
    BY SerialisedUnits
  <2>5. /\ said' = said \/ SaysMore
        /\ Len(said') = Len(said) + Len(spoken)
        /\ \A i \in 1 .. Len(spoken) : said'[Len(said) + i] = spoken[i]
    BY <2>3, PutSays
  <2>6. Len(said) \in Nat
    BY DEF StreamInv
  <2>7. IF server = "aiohttp" THEN Len(said') = Len(said)
        ELSE Len(said') = Len(said) + 1 /\ said'[Len(said')] = Damage
    BY <1>1, <2>2, <2>5, <2>6
  <2>8. Carried([type |-> type, data |-> Serialised(m)], said', Len(said), Len(said'))
    BY <2>1, <2>7 DEF Carried
  <2> QED
    BY <1>1, <2>1, <2>3, <2>4, <2>5, <2>8, PutKeepsStream
<1> QED
  BY <1>2, <1>3, <1>4, <1>5

(* Steps that leave the stream alone and do not go back to reading.         *)
LEMMA StillStream ==
    ASSUME StreamInv, UNCHANGED <<server, protocol, stream, client>>, Awaiting' => Awaiting
    PROVE  StreamInv'
<1>1. ASSUME Awaiting'
      PROVE  (\E cut : CutBy(cut))'
  <2>1. PICK cut : CutBy(cut)
    BY <1>1 DEF StreamInv
  <2>2. CutBy(cut)'
    BY <2>1 DEF CutBy, Carried
  <2> QED
    BY <2>2
<1> QED
  BY <1>1 DEF StreamInv

(* A connection begins with nothing read.                                   *)
LEMMA ConnectKeepsStream ==
    ASSUME ControlInv, StreamInv, Connect
    PROVE  StreamInv'
<1>1. /\ reading = NoPayload /\ said = <<>> /\ inbox = <<>> /\ got = <<>>
      /\ UNCHANGED <<server, stream, client>>
  BY DEF Connect, ControlInv
<1>2. protocol' \in Protocols
  BY NegotiatedIsProtocol DEF Connect, ControlInv
<1>3. (\E cut : CutBy(cut))'
  <2>1. PICK cut, p : cut = [i \in 0 .. 0 |-> 0] /\ p = protocol'
    OBVIOUS
  <2>2. PICK none : none = <<>>
    OBVIOUS
  <2>3. Exhausted(p, none, 1)
    <3>1. CASE ~p.batched
      <4>1. \A at : Exhausted(p, none, at) <=> at > 0
        BY <3>1 DEF Exhausted
      <4>2. 1 > 0
        OBVIOUS
      <4> QED
        BY <4>1, <4>2
    <3>2. CASE p.batched /\ p.codec = "json"
      <4>1. TextLeft(none, 1) = {}
        BY <2>2 DEF TextLeft
      <4> QED
        BY <3>2, <4>1 DEF Exhausted
    <3>3. CASE p.batched /\ p.codec = "msgpack"
      <4>1. \A at : Exhausted(p, none, at) <=> at >= Len(none)
        BY <3>3 DEF Exhausted
      <4>2. 1 >= Len(none)
        BY <2>2
      <4> QED
        BY <4>1, <4>2
    <3> QED
      BY <1>2, <2>1, <3>1, <3>2, <3>3 DEF Protocols
  <2>4. Yields(p, none, 1, none, 0, 0)
    BY <2>3, YieldsNothing
  <2>5. Len(said') = 0 /\ Len(got') = 0 /\ Len(inbox') = 0
    BY <1>1
  <2>6. Yields(protocol', reading'.data, reading'.at, said', Len(got'), cut[0])
    BY <1>1, <2>1, <2>2, <2>4 DEF NoPayload
  <2>7. CutBy(cut)'
    BY <1>1, <2>1, <2>5, <2>6 DEF CutBy
  <2> QED
    BY <2>7
<1> QED
  BY <1>1, <1>3 DEF StreamInv

(* The next frame is opened, skipped, or ends the iteration.                *)
LEMMA ReadFrameKeepsStream ==
    ASSUME ControlInv, StreamInv, ReadFrame
    PROVE  /\ StreamInv' /\ UNCHANGED <<said, got>>
           /\ \/ reader' = reader
              \/ /\ reader = "open" /\ reader' \in {"failed", "aborted"}
                 /\ Len(got) < Len(said) /\ said[Len(got) + 1] = Damage
<1>1. /\ Awaiting /\ Through /\ inbox # <<>> /\ inbox' = Tail(inbox)
      /\ UNCHANGED <<server, protocol, pc, said, got>>
  BY DEF ReadFrame
<1>2. /\ said \in Seq(Messages \cup {Damage}) /\ got \in Seq(Messages) /\ inbox \in Seq(Frames)
      /\ Len(said) \in Nat /\ Len(got) \in Nat /\ Len(inbox) \in Nat /\ Len(inbox) <= MaxFrames
  BY DEF StreamInv
<1>3. /\ inbox' \in Seq(Frames) /\ Len(inbox') = Len(inbox) - 1 /\ Len(inbox) >= 1
      /\ \A i \in 1 .. Len(inbox) - 1 : inbox'[i] = inbox[i + 1]
      /\ Head(inbox) = inbox[1]
  BY <1>1, <1>2, HeadTailProperties
<1>4. CASE reader' # reader
  <2>1. /\ Head(inbox).type # DataType(protocol) /\ server # "aiohttp"
        /\ reader' \in {"failed", "aborted"}
    BY <1>4 DEF ReadFrame
  <2>2. Len(got) < Len(said) /\ said[Len(got) + 1] = Damage
    BY <1>1, <2>1, ReaderFinds
  <2>3. reader = "open" /\ ~Awaiting'
    BY <1>1, <2>1 DEF Awaiting
  <2>4. StreamInv'
    BY <1>1, <1>2, <1>3, <2>3 DEF StreamInv
  <2> QED
    BY <1>1, <2>1, <2>2, <2>3, <2>4
<1>5. CASE reader' = reader
  <2>1. PICK cut : CutBy(cut)
    BY <1>1 DEF StreamInv
  <2>2. /\ cut \in [0 .. Len(inbox) -> 0 .. Len(said)]
        /\ Len(got) <= cut[0] /\ cut[Len(inbox)] = Len(said)
        /\ \A i \in 1 .. Len(inbox) :
              cut[i - 1] <= cut[i] /\ Carried(inbox[i], said, cut[i - 1], cut[i])
        /\ Yields(protocol, reading.data, reading.at, said, Len(got), cut[0])
    BY <2>1 DEF CutBy
  <2>3. cut[0] \in Nat /\ cut[1] \in Nat
    <3>1. 0 \in 0 .. Len(inbox) /\ 1 \in 0 .. Len(inbox)
      BY <1>2, <1>3
    <3>2. cut[0] \in 0 .. Len(said) /\ cut[1] \in 0 .. Len(said)
      BY <2>2, <3>1
    <3> QED
      BY <3>2
  <2>4. Len(got) = cut[0]
    <3>1. PICK lo, hi : lo = Len(got) /\ hi = cut[0]
      OBVIOUS
    <3>2. /\ lo \in Nat /\ hi \in Nat /\ lo <= hi
          /\ Yields(protocol, reading.data, reading.at, said, lo, hi)
      BY <1>2, <2>2, <2>3, <3>1
    <3>3. Exhausted(protocol, reading.data, reading.at) <=> lo = hi
      BY <3>2, YieldsNext
    <3> QED
      BY <1>1, <3>1, <3>3 DEF Through
  <2>5. cut[0] <= cut[1] /\ Carried(Head(inbox), said, cut[0], cut[1])
    <3>1. 1 \in 1 .. Len(inbox) /\ 1 - 1 = 0
      BY <1>2, <1>3
    <3> QED
      BY <1>3, <2>2, <3>1
  <2>6. Yields(protocol, reading'.data, reading'.at, said, cut[0], cut[1])
    <3>1. CASE Head(inbox).type = DataType(protocol)
      <4>1. reading' = [data |-> Head(inbox).data, at |-> 0]
        BY <3>1 DEF ReadFrame
      <4>2. Yields(protocol, Head(inbox).data, 0, said, cut[0], cut[1])
        BY <2>5, <3>1 DEF Carried
      <4> QED
        BY <4>1, <4>2
    <3>2. CASE Head(inbox).type # DataType(protocol)
      <4>1. server = "aiohttp" /\ reading' = reading
        BY <1>1, <1>5, <3>2 DEF ReadFrame, Awaiting
      <4>2. cut[1] = cut[0]
        BY <2>5, <3>2, <4>1 DEF Carried
      <4> QED
        BY <2>2, <2>4, <4>1, <4>2
    <3> QED
      BY <3>1, <3>2
  <2>7. PICK new : new = [i \in 0 .. Len(inbox) - 1 |-> cut[i + 1]]
    OBVIOUS
  <2>8. /\ new \in [0 .. Len(inbox') -> 0 .. Len(said)]
        /\ \A i \in 0 .. Len(inbox) - 1 : new[i] = cut[i + 1]
    <3>1. \A i \in 0 .. Len(inbox) - 1 : i + 1 \in 0 .. Len(inbox)
      BY <1>2
    <3>2. \A i \in 0 .. Len(inbox) - 1 : cut[i + 1] \in 0 .. Len(said)
      BY <2>2, <3>1
    <3>3. Len(inbox') = Len(inbox) - 1
      BY <1>3
    <3>4. new \in [0 .. Len(inbox) - 1 -> 0 .. Len(said)]
      BY <2>7, <3>2
    <3> QED
      BY <2>7, <3>3, <3>4
  <2>9. new[0] = cut[1] /\ new[Len(inbox')] = Len(said)
    BY <1>2, <1>3, <2>2, <2>8
  <2>10. ASSUME NEW i \in 1 .. Len(inbox')
         PROVE  new[i - 1] <= new[i] /\ Carried(inbox'[i], said, new[i - 1], new[i])
    <3>1. /\ i + 1 \in 1 .. Len(inbox) /\ (i + 1) - 1 = i /\ i \in 1 .. Len(inbox) - 1
          /\ i - 1 \in 0 .. Len(inbox) - 1 /\ i \in 0 .. Len(inbox) - 1 /\ (i - 1) + 1 = i
      BY <1>2, <1>3
    <3>2. new[i - 1] = cut[i] /\ new[i] = cut[i + 1] /\ inbox'[i] = inbox[i + 1]
      BY <1>3, <2>8, <3>1
    <3>3. cut[i] <= cut[i + 1] /\ Carried(inbox[i + 1], said, cut[i], cut[i + 1])
      BY <2>2, <3>1
    <3> QED
      BY <3>2, <3>3
  <2>11. Len(got) <= new[0]
    BY <2>2, <2>4, <2>5, <2>9
  <2>12. CutBy(new)'
    BY <1>1, <2>4, <2>6, <2>8, <2>9, <2>10, <2>11 DEF CutBy, Carried
  <2>13. (\E any : CutBy(any))'
    BY <2>12
  <2> QED
    BY <1>1, <1>2, <1>3, <1>5, <2>13 DEF StreamInv
<1> QED
  BY <1>4, <1>5

-----------------------------------------------------------------------------
(* Every step, seen as one of the channel's.                                *)
Get(m) ==
    /\ reader = "open" /\ Len(got) < Len(said) /\ said[Len(got) + 1] = m /\ m \in Messages
    /\ got' = Append(got, m)
    /\ UNCHANGED <<said, reader>>

ReadsOn ==
    \/ UNCHANGED <<said, got, reader>>
    \/ SaysMore /\ UNCHANGED <<got, reader>>
    \/ \E m \in Messages : Get(m)
    \/ /\ reader = "open" /\ reader' = "ended" /\ Len(got) = Len(said)
       /\ UNCHANGED <<said, got>>
    \/ /\ reader = "open" /\ reader' \in {"failed", "aborted"}
       /\ Len(got) < Len(said) /\ said[Len(got) + 1] = Damage
       /\ UNCHANGED <<said, got>>

(* A message that is yielded, and a step that is no business of the stream. *)
LEMMA YieldReadsOn ==
    ASSUME StreamInv, NEW m \in Messages, Yield(m)
    PROVE  StreamInv' /\ ReadsOn
<1>1. reader = "open"
  BY DEF Yield, Awaiting
<1> QED
  BY <1>1, YieldKeepsStream DEF ReadsOn, Get

LEMMA StillReadsOn ==
    ASSUME StreamInv, UNCHANGED <<server, protocol, stream, client>>, Awaiting' => Awaiting
    PROVE  StreamInv' /\ ReadsOn
  BY StillStream DEF ReadsOn

(* Every step keeps the stream, and is one of the channel or none.          *)
LEMMA StepStream ==
    ASSUME ControlInv, StreamInv, [Next]_vars
    PROVE  StreamInv' /\ ReadsOn
<1>1. CASE Client
  <2>1. CASE ClientLeaves
    BY <2>1, StillReadsOn DEF ClientLeaves, Awaiting
  <2>2. CASE ~ClientLeaves
    BY <1>1, <2>2, SendKeepsStream DEF Client, ReadsOn
  <2> QED
    BY <2>1, <2>2
<1>2. CASE Connect
  BY <1>2, ConnectKeepsStream DEF Connect, ReadsOn
<1>3. CASE ReadFrame
  BY <1>3, ReadFrameKeepsStream DEF ReadsOn
<1>4. CASE ReadEnd \/ ReadDamage
  <2>1. /\ Awaiting /\ UNCHANGED <<server, protocol, inbox, reading, said, got>> /\ ~Awaiting'
    BY <1>4 DEF ReadEnd, ReadDamage, Awaiting
  <2>2. StreamInv'
    BY <2>1 DEF StreamInv
  <2>3. CASE ReadEnd
    BY <2>1, <2>2, <2>3, ReaderFinds DEF ReadEnd, ReadsOn, Awaiting
  <2>4. CASE ReadDamage
    BY <2>1, <2>2, <2>4, ReaderFinds DEF ReadDamage, ReadsOn, Awaiting
  <2> QED
    BY <1>4, <2>3, <2>4
<1>5. CASE Hello \/ NoHello \/ Call \/ Reject \/ Unhandled
  <2>1. PICK m \in Messages : Yield(m)
    BY <1>5 DEF Hello, TakeHello, NoHello, Call, Reject, Unhandled
  <2> QED
    BY <2>1, YieldReadsOn
<1>6. CASE NotServed \/ LeaveBeforeHello
  BY <1>6, StillReadsOn DEF NotServed, LeaveBeforeHello, Awaiting
<1>7. CASE LeaveLoop \/ FrameworkCancels
  BY <1>7, StillReadsOn DEF LeaveLoop, FrameworkCancels, End, Awaiting
<1>8. CASE FrameworkCloses \/ CleanUp
  BY <1>8, StillReadsOn DEF FrameworkCloses, CleanUp, Awaiting
<1>9. ASSUME NEW k \in Tasks, Task(k)
      PROVE  StreamInv' /\ ReadsOn
  BY <1>9, StillReadsOn DEF Task, Reply, TaskStops, Awaiting
<1>10. CASE Terminated \/ UNCHANGED vars
  BY <1>10, StillReadsOn DEF Terminated, Awaiting
<1> QED
  BY <1>1, <1>2, <1>3, <1>4, <1>5, <1>6, <1>7, <1>8, <1>9, <1>10 DEF Next, Coroutine

(* A connection begins with nothing said, got or on its way.                *)
LEMMA InitStream ==
    ASSUME Init
    PROVE  ControlInv /\ StreamInv
<1>1. ControlInv
  BY DEF Init, ControlInv, GroupInit
<1>2. StreamInv
  <2>1. <<>> \in Seq(Frames) /\ <<>> \in Seq(Messages \cup {Damage}) /\ <<>> \in Seq(Messages)
    OBVIOUS
  <2> QED
    BY <2>1 DEF Init, StreamInv, Awaiting
<1> QED
  BY <1>1, <1>2

(* What the server is given.                                                *)
LEMMA ChannelStep ==
    ASSUME ControlInv, StreamInv, [Next]_vars
    PROVE  [Promised!Next]_(Promised!vars)
<1>0. /\ StreamInv' /\ ReadsOn
  BY StepStream
<1>1. CASE UNCHANGED <<said, got, reader>>
  BY <1>1 DEF Promised!vars
<1>2. CASE SaysMore /\ UNCHANGED <<got, reader>>
  BY <1>2 DEF SaysMore, Promised!Say, Promised!Next
<1>3. ASSUME NEW m \in Messages, Get(m)
      PROVE  Promised!Next
  <2>1. m # Damage
    OBVIOUS
  <2> QED
    BY <1>3, <2>1 DEF Get, Promised!Get, Promised!Pending, Promised!Upcoming, Promised!Next
<1>4. CASE /\ reader = "open" /\ reader' = "ended" /\ Len(got) = Len(said)
           /\ UNCHANGED <<said, got>>
  <2>1. ~(Len(got) < Len(said))
    BY <1>4 DEF StreamInv
  <2> QED
    BY <1>4, <2>1 DEF Promised!End, Promised!Pending, Promised!Next
<1>5. CASE /\ reader = "open" /\ reader' \in {"failed", "aborted"}
           /\ Len(got) < Len(said) /\ said[Len(got) + 1] = Damage
           /\ UNCHANGED <<said, got>>
  BY <1>5 DEF Promised!Fail, Promised!Pending, Promised!Upcoming, Promised!Next
<1> QED
  BY <1>0, <1>1, <1>2, <1>3, <1>4, <1>5 DEF ReadsOn

(* Whatever protocol is negotiated, however a client spreads its messages   *)
(* over batches and frames, whatever damage it does and wherever the        *)
(* session takes over the iterator: the server is given each message once   *)
(* and in order, told of the end after the last of them, and of damage only *)
(* where there is some.                                                     *)
THEOREM FramesAreAChannel == Spec => ImplementsChannel
<1> DEFINE Inv == ControlInv /\ StreamInv
<1>1. Init => Inv
  BY InitStream
<1>2. Inv /\ [Next]_vars => Inv'
  BY StepControl, StepStream
<1>3. Inv /\ [Next]_vars => [Promised!Next]_(Promised!vars)
  BY ChannelStep
<1>4. Init => Promised!Init
  BY DEF Init, Promised!Init
<1> HIDE DEF Inv
<1> QED
  BY <1>1, <1>2, <1>3, <1>4, PTL DEF Spec, ImplementsChannel, Promised!Spec

-----------------------------------------------------------------------------
(* What a client makes of replies.                                          *)

(* A set of one has one enumeration.                                        *)
LEMMA SingletonSeq ==
    ASSUME NEW m
    PROVE  SetToSeq({m}) = <<m>>
<1>1. Cardinality({m}) = 1
  BY FS_Singleton
<1>2. SetToSeq({m}) = CHOOSE f \in [1 .. 1 -> {m}] : IsInjective(f)
  BY <1>1 DEF SetToSeq
<1>3. <<m>> \in [1 .. 1 -> {m}] /\ \A f \in [1 .. 1 -> {m}] : f = <<m>>
  OBVIOUS
<1>4. IsInjective(<<m>>)
  BY DEF IsInjective
<1> QED
  BY <1>2, <1>3, <1>4

(* A reader that is through after one round makes as much of the payload in *)
(* any number of rounds.                                                    *)
LEMMA ReadInOneRound ==
    ASSUME NEW p, NEW data, Len(data) \in Nat \ {0},
           NEW final, ReadOn(p, data, [ok |-> TRUE, at |-> 0, read |-> <<>>]) = final,
           ReadOn(p, data, final) = final
    PROVE  ReadAll(p, data) = final
<1> DEFINE start == [ok |-> TRUE, at |-> 0, read |-> <<>>]
           N == Len(data)
           IsRounds(f) == f = [n \in 0 .. N |-> IF n = 0 THEN start ELSE ReadOn(p, data, f[n - 1])]
           rounds == CHOOSE f : IsRounds(f)
<1>1. \E f : IsRounds(f)
  <2>1. PICK f : f = [n \in 0 .. N |-> IF n = 0 THEN start ELSE final]
    OBVIOUS
  <2>2. ASSUME NEW n \in 0 .. N
        PROVE  f[n] = IF n = 0 THEN start ELSE ReadOn(p, data, f[n - 1])
    <3>1. CASE n = 0
      BY <2>1, <3>1
    <3>2. CASE n # 0
      <4>1. n - 1 \in 0 .. N
        BY <3>2
      <4>2. f[n] = final /\ (f[n - 1] = start \/ f[n - 1] = final)
        BY <2>1, <3>2, <4>1
      <4> QED
        BY <3>2, <4>2
    <3> QED
      BY <3>1, <3>2
  <2>3. IsRounds(f)
    BY <2>1, <2>2
  <2> QED
    BY <2>3
<1>2. IsRounds(rounds)
  BY <1>1
<1>3. ReadAll(p, data) = rounds[N]
  BY DEF ReadAll
<1> HIDE DEF rounds
<1>4. /\ rounds[0] = start
      /\ \A n \in 1 .. N : rounds[n] = ReadOn(p, data, rounds[n - 1])
  <2>1. rounds = [n \in 0 .. N |-> IF n = 0 THEN start ELSE ReadOn(p, data, rounds[n - 1])]
    BY <1>2
  <2>2. \A n \in 0 .. N : rounds[n] = IF n = 0 THEN start ELSE ReadOn(p, data, rounds[n - 1])
    BY ONLY <2>1
  <2>3. 0 \in 0 .. N /\ \A n \in 1 .. N : n \in 0 .. N /\ n # 0
    OBVIOUS
  <2> HIDE DEF start, N
  <2> QED
    BY <2>2, <2>3
<1> DEFINE T == {n \in Nat : n + 1 <= N => rounds[n + 1] = final}
<1>5. 0 \in T
  BY <1>4
<1>6. ASSUME NEW n \in Nat, n \in T
      PROVE  n + 1 \in T
  <2>1. SUFFICES ASSUME (n + 1) + 1 <= N
                 PROVE  rounds[(n + 1) + 1] = final
    OBVIOUS
  <2>2. rounds[n + 1] = final
    BY <1>6, <2>1
  <2>3. (n + 1) + 1 \in 1 .. N /\ ((n + 1) + 1) - 1 = n + 1
    BY <2>1
  <2> QED
    BY <1>4, <2>2, <2>3
<1>7. N - 1 \in T
  <2> HIDE DEF T
  <2>1. Nat \subseteq T
    BY <1>5, <1>6, Induction
  <2> QED
    BY <2>1
<1>8. rounds[N] = final
  BY <1>7
<1> QED
  BY <1>3, <1>8

(* All that a reader makes of what send_msg made of a message.              *)
LEMMA EncodedReadsBack ==
    ASSUME NEW p \in Protocols, NEW m \in Messages, Fits(p, m)
    PROVE  LET outcome == ReadAll(p, Encode(p, m))
           IN  /\ outcome.ok /\ outcome.read = <<m>>
               /\ p.batched /\ p.codec = "msgpack" => outcome.at = Len(Encode(p, m))
<1>1. PICK data, next : data = Encode(p, m) /\ next = NextObject(p, data, 0)
  OBVIOUS
<1>2. /\ ~Exhausted(p, data, 0) /\ Decoded(next.units) = {m}
      /\ next.at \in Nat /\ Exhausted(p, data, next.at)
      /\ p.batched /\ p.codec = "msgpack" => next.at = Len(data)
  BY <1>1, EncodedReads
<1>3. Len(data) \in Nat \ {0}
  BY <1>1, EncodedUnits
<1>4. PICK start, final :
        /\ start = [ok |-> TRUE, at |-> 0, read |-> <<>>]
        /\ final = [ok |-> TRUE, at |-> next.at, read |-> <<m>>]
  OBVIOUS
<1>5. ReadOn(p, data, start) = final
  <2>1. start.ok /\ start.at = 0 /\ start.read \o SetToSeq({m}) = <<m>>
    <3>1. <<m>> \in Seq(Messages)
      OBVIOUS
    <3>2. <<>> \o <<m>> = <<m>>
      BY <3>1, ConcatEmptySeq
    <3> QED
      BY <1>4, <3>2, SingletonSeq
  <2>2. ReadOn(p, data, start) =
            [ok |-> Decoded(next.units) # {}, at |-> next.at,
             read |-> start.read \o SetToSeq(Decoded(next.units))]
    BY <1>1, <1>2, <2>1 DEF ReadOn
  <2> QED
    BY <1>2, <1>4, <2>1, <2>2
<1>6. ReadOn(p, data, final) = final
  <2>1. final.at = next.at
    BY <1>4
  <2> QED
    BY <1>2, <2>1 DEF ReadOn
<1>7. ReadAll(p, data) = final
  BY <1>3, <1>4, <1>5, <1>6, ReadInOneRound
<1> QED
  BY <1>1, <1>2, <1>4, <1>7

(* What was sent is in frames of the protocol, one message to each, whose    *)
(* length was one that can be stated; and nothing is sent, or will be,       *)
(* before there is a protocol.                                               *)
SentInv ==
    /\ replied \in Seq(Messages) /\ heard \in Seq(Frames) /\ Len(heard) = Len(replied)
    /\ \A i \in 1 .. Len(heard) :
        /\ heard[i] = [type |-> DataType(protocol), data |-> Encode(protocol, replied[i])]
        /\ Fits(protocol, replied[i])
    /\ protocol \notin Protocols => heard = <<>> /\ \A k \in Tasks : task[k] # "running"

(* Nobody but the body of the group has tasks run.                          *)
LEMMA OnlySpawned ==
    ASSUME GroupInv,
           \/ Open \/ CancelLeaving \/ UNCHANGED groupVars
           \/ \E end \in Ends : BodyEnds(end)
           \/ \E how \in {"ended", "failed"} : CleanupEnds(how)
           \/ \E k \in Tasks : TaskEnds(k) \/ TaskRaises(k)
    PROVE  \A k \in Tasks : task'[k] = "running" => task[k] = "running"
<1> SUFFICES ASSUME NEW j \in Tasks, task'[j] = "running"
             PROVE  task[j] = "running"
  OBVIOUS
<1>0. task \in [Tasks -> {"none", "running", "cancelling", "ended"}]
  BY DEF GroupInv, GroupTypeOK
<1>1. ASSUME NEW tasks \in [Tasks -> {"none", "running", "cancelling", "ended"}], NEW raising,
             Leave(tasks, raising)
      PROVE  tasks[j] = "running"
  BY <1>1, CancelledTasks DEF Leave, WaitForTasks
<1>2. ASSUME NEW k \in Tasks
      PROVE  /\ [task EXCEPT ![k] = "ended"]
                    \in [Tasks -> {"none", "running", "cancelling", "ended"}]
             /\ [task EXCEPT ![k] = "ended"][j] = "running" => task[j] = "running"
  BY <1>0
<1>3. CASE Open
  BY <1>3 DEF Open
<1>4. CASE CancelLeaving
  BY <1>0, <1>1, <1>4 DEF CancelLeaving
<1>5. ASSUME NEW end \in Ends, BodyEnds(end)
      PROVE  task[j] = "running"
  BY <1>0, <1>1, <1>5 DEF BodyEnds, ShieldWaits, ShieldForgets, ShieldRaises
<1>6. ASSUME NEW how, CleanupEnds(how)
      PROVE  task[j] = "running"
  BY <1>0, <1>1, <1>6 DEF CleanupEnds
<1>7. ASSUME NEW k \in Tasks, TaskEnds(k)
      PROVE  task[j] = "running"
  BY <1>1, <1>2, <1>7 DEF TaskEnds
<1>8. ASSUME NEW k \in Tasks, TaskRaises(k)
      PROVE  task[j] = "running"
  <2>1. CASE group = "leaving"
    BY <1>1, <1>2, <1>8, <2>1 DEF TaskRaises
  <2>2. CASE group # "leaving"
    BY <1>2, <1>8, <2>2, CancelledTasks DEF TaskRaises
  <2> QED
    BY <2>1, <2>2
<1>9. CASE UNCHANGED groupVars
  BY <1>9
<1> QED
  BY <1>3, <1>4, <1>5, <1>6, <1>7, <1>8, <1>9

(* A message is sent, or lost: it cannot be encoded, or the link is down.   *)
LEMMA SayKeepsSent ==
    ASSUME SentInv, protocol \in Protocols, NEW m \in Messages, Say(m), UNCHANGED protocol
    PROVE  SentInv'
<1>1. CASE Sendable(m)
  <2>1. PICK frame : frame = [type |-> DataType(protocol), data |-> Encode(protocol, m)]
    OBVIOUS
  <2>2. frame \in Frames
    BY <2>1, DataTypes, EncodedUnits DEF Frames
  <2>3. heard' = Append(heard, frame) /\ replied' = Append(replied, m)
    BY <1>1, <2>1 DEF Say
  <2>4. /\ heard \in Seq(Frames) /\ replied \in Seq(Messages)
        /\ Len(heard) = Len(replied) /\ Len(heard) \in Nat
    BY DEF SentInv
  <2>5. /\ heard' \in Seq(Frames) /\ Len(heard') = Len(heard) + 1
        /\ \A i \in 1 .. Len(heard) : heard'[i] = heard[i]
        /\ heard'[Len(heard) + 1] = frame
    BY <2>2, <2>3, <2>4, AppendProperties
  <2>6. /\ replied' \in Seq(Messages) /\ Len(replied') = Len(replied) + 1
        /\ \A i \in 1 .. Len(replied) : replied'[i] = replied[i]
        /\ replied'[Len(replied) + 1] = m
    BY <2>3, <2>4, AppendProperties
  <2>7. ASSUME NEW i \in 1 .. Len(heard')
        PROVE  /\ heard'[i] = [type |-> DataType(protocol), data |-> Encode(protocol, replied'[i])]
               /\ Fits(protocol, replied'[i])
    <3>1. CASE i \in 1 .. Len(heard)
      <4>1. heard'[i] = heard[i] /\ replied'[i] = replied[i]
        BY <2>4, <2>5, <2>6, <3>1
      <4> QED
        BY <3>1, <4>1 DEF SentInv
    <3>2. CASE i = Len(heard) + 1
      <4>1. Fits(protocol, m)
        BY <1>1, EncodableFits DEF Sendable
      <4> QED
        BY <2>1, <2>4, <2>5, <2>6, <3>2, <4>1
    <3> QED
      BY <2>4, <2>5, <3>1, <3>2
  <2>8. UNCHANGED protocol
    OBVIOUS
  <2>9. \A i \in 1 .. Len(heard') :
            /\ heard'[i] = [type |-> DataType(protocol'), data |-> Encode(protocol', replied'[i])]
            /\ Fits(protocol', replied'[i])
    BY <2>7, <2>8
  <2> QED
    BY <2>4, <2>5, <2>6, <2>9 DEF SentInv
<1>2. CASE ~Sendable(m)
  BY <1>2 DEF SentInv, Say
<1> QED
  BY <1>1, <1>2

LEMMA StillSent ==
    ASSUME SentInv, UNCHANGED <<protocol, sent>>,
           \A k \in Tasks : task'[k] = "running" => task[k] = "running"
    PROVE  SentInv'
  BY DEF SentInv

(* Every step keeps what was sent readable.                                 *)
LEMMA StepSent ==
    ASSUME ControlInv, GroupInv, SentInv, [Next]_vars
    PROVE  SentInv'
<1>0. Welcome \in Messages /\ Abort \in Messages /\ Replies \subseteq Messages
  OBVIOUS
<1>1. ASSUME UNCHANGED <<protocol, sent>>,
             \/ UNCHANGED groupVars \/ CancelLeaving
             \/ \E how \in Ends : End(how)
             \/ \E how \in {"ended", "failed"} : CleanupEnds(how)
             \/ \E k \in Tasks : TaskEnds(k) \/ TaskRaises(k)
      PROVE  SentInv'
  BY <1>1, OnlySpawned, StillSent DEF End
<1>2. CASE Connect
  <2>1. protocol = NoProtocol /\ protocol' \in Protocols /\ UNCHANGED <<sent, task>>
    BY <1>2, NegotiatedIsProtocol DEF Connect, ControlInv
  <2>2. heard = <<>>
    BY <2>1 DEF SentInv
  <2> QED
    BY <2>1, <2>2 DEF SentInv
<1>3. ASSUME pc \in {"hello", "loop"}, NEW m \in Messages, Say(m), UNCHANGED protocol
      PROVE  SentInv'
  BY <1>3, SayKeepsSent DEF ControlInv
<1>4. CASE ReadFrame
  <2>1. pc \in {"hello", "loop"} /\ UNCHANGED <<protocol, task>>
    BY <1>4 DEF ReadFrame, Awaiting
  <2>2. Say(Abort) \/ UNCHANGED sent
    BY <1>4 DEF ReadFrame, AbortConnection
  <2> QED
    BY <1>0, <1>3, <2>1, <2>2, StillSent
<1>5. CASE Hello
  BY <1>0, <1>3, <1>5 DEF Hello, TakeHello, Yield
<1>6. CASE NoHello
  <2>1. pc \in {"hello", "loop"} /\ UNCHANGED <<protocol, task>>
    BY <1>6 DEF NoHello, Yield
  <2>2. Say(Abort) \/ UNCHANGED sent
    BY <1>6 DEF NoHello, AbortConnection
  <2> QED
    BY <1>0, <1>3, <2>1, <2>2, StillSent
<1>7. CASE Reject
  BY <1>0, <1>3, <1>7 DEF Reject, Yield, AbortConnection
<1>8. CASE Call
  BY <1>8 DEF Call, Yield, ControlInv, SentInv
<1>9. ASSUME NEW k \in Tasks, Task(k)
      PROVE  SentInv'
  <2>1. UNCHANGED protocol
    BY <1>9 DEF Task, Reply, TaskStops
  <2>2. CASE UNCHANGED sent
    BY <1>1, <1>9, <2>1, <2>2 DEF Task, Reply, TaskStops
  <2>3. ASSUME NEW m \in Replies, task[k] = "running", Say(m), TaskEnds(k)
        PROVE  SentInv'
    <3>1. protocol \in Protocols
      BY <2>3 DEF SentInv
    <3>2. \A j \in Tasks : task'[j] = "running" => task[j] = "running"
      BY <2>3, OnlySpawned
    <3> QED
      BY <1>0, <2>1, <2>3, <3>1, SayKeepsSent
  <2> QED
    BY <1>9, <2>2, <2>3 DEF Task, Reply, TaskStops
<1>10. CASE Client
  <2>1. UNCHANGED <<protocol, sent, groupVars>>
    BY <1>10 DEF Client, SendFrame, SendDamaged, SendOverlong, SendWrongType, ClientLeaves, Put
  <2> QED
    BY <1>1, <2>1
<1>11. CASE NotServed \/ LeaveBeforeHello \/ ReadEnd \/ ReadDamage \/ FrameworkCloses \/ Terminated
  BY <1>1, <1>11 DEF NotServed, LeaveBeforeHello, ReadEnd, ReadDamage, FrameworkCloses, Terminated
<1>12. CASE Unhandled \/ LeaveLoop \/ FrameworkCancels
  BY <1>1, <1>12 DEF Unhandled, LeaveLoop, FrameworkCancels, Yield, Ends
<1>13. CASE CleanUp
  BY <1>1, <1>13 DEF CleanUp
<1>14. CASE UNCHANGED vars
  BY <1>1, <1>14
<1> QED
  BY <1>2, <1>4, <1>5, <1>6, <1>7, <1>8, <1>9, <1>10, <1>11, <1>12, <1>13, <1>14
     DEF Next, Coroutine

(* The invariant of a connection.                                           *)
ServingInv == ControlInv /\ StreamInv /\ GroupInv /\ SentInv

(* The invariant holds of every state of a connection.                      *)
LEMMA InitServing ==
    ASSUME Init
    PROVE  ServingInv
<1>1. GroupInv
  BY DEF Init, GroupInit, GroupInv, GroupTypeOK, NoOrphans, Left
<1>2. SentInv
  <2>1. <<>> \in Seq(Frames) /\ <<>> \in Seq(Messages)
    OBVIOUS
  <2> QED
    BY <2>1 DEF Init, GroupInit, SentInv
<1> QED
  BY <1>1, <1>2, InitStream DEF ServingInv

LEMMA StepServing ==
    ASSUME ServingInv, [Next]_vars
    PROVE  ServingInv'
<1>1. GroupInv'
  BY ServingStep, GroupStep DEF ServingInv
<1> QED
  BY <1>1, StepControl, StepStream, StepSent DEF ServingInv

LEMMA ServingIsInvariant == Spec => []ServingInv
  BY InitServing, StepServing, PTL DEF Spec

(* A connection, its frames and its task group are well formed: beyond the  *)
(* negotiation there is a protocol, and every task is where the group knows *)
(* it.                                                                      *)
THEOREM ServingTyped == Spec => []TypeOK
<1>1. ASSUME ServingInv
      PROVE  TypeOK
  <2>1. GroupTypeOK /\ ControlInv /\ StreamInv /\ SentInv
    BY <1>1 DEF ServingInv, GroupInv
  <2>2. \A i \in DOMAIN inbox : inbox[i].type \in {"text", "bytes"} /\ inbox[i].data # <<>>
    <3>1. inbox \in Seq(Frames)
      BY <2>1 DEF StreamInv
    <3>2. \A i \in DOMAIN inbox : inbox[i] \in Frames
      BY <3>1
    <3> QED
      BY <3>2 DEF Frames
  <2>3. /\ Len(inbox) <= MaxFrames
        /\ got \in Seq(Messages) /\ Len(got) <= MaxSent
        /\ said \in Seq(Messages \cup {Damage})
    <3>1. /\ Len(inbox) <= MaxFrames /\ got \in Seq(Messages)
          /\ said \in Seq(Messages \cup {Damage})
          /\ Len(got) <= Len(said) /\ Len(said) <= MaxSent
      BY <2>1 DEF StreamInv
    <3>2. Len(got) \in Nat /\ Len(said) \in Nat
      BY <3>1
    <3> QED
      BY <3>1, <3>2
  <2>4. replied \in Seq(Messages) /\ Len(heard) = Len(replied)
    BY <2>1 DEF SentInv
  <2> QED
    BY <2>1, <2>2, <2>3, <2>4 DEF TypeOK, ControlInv
<1> QED
  BY <1>1, ServingIsInvariant, PTL

(* Whatever the server sends, on either adapter and in any protocol: a      *)
(* client that knows the protocol reads the message that was sent, and      *)
(* nothing else, from a frame of the right type, and finds a length that    *)
(* says where the message ends.                                             *)
THEOREM RepliesAreReadBack == Spec => []RepliesReadBack
<1>1. ASSUME ServingInv
      PROVE  RepliesReadBack
  <2>0. heard \in Seq(Frames) /\ replied \in Seq(Messages) /\ Len(heard) = Len(replied)
    BY <1>1 DEF ServingInv, SentInv
  <2>1. ASSUME NEW i \in DOMAIN heard
        PROVE  LET frame == heard[i]
                   outcome == ReadAll(protocol, frame.data)
               IN  /\ frame.type = DataType(protocol)
                   /\ outcome.ok /\ outcome.read = <<replied[i]>>
                   /\ protocol = Preference[1] => outcome.at = Len(frame.data)
    <3>1. i \in 1 .. Len(heard) /\ heard # <<>> /\ replied[i] \in Messages
      BY <2>0
    <3>2. /\ heard[i].type = DataType(protocol) /\ heard[i].data = Encode(protocol, replied[i])
          /\ protocol \in Protocols /\ Fits(protocol, replied[i])
      <4>1. heard[i] = [type |-> DataType(protocol), data |-> Encode(protocol, replied[i])]
        BY <1>1, <3>1 DEF ServingInv, SentInv
      <4>2. protocol \in Protocols /\ Fits(protocol, replied[i])
        BY <1>1, <3>1 DEF ServingInv, SentInv
      <4> QED
        BY <4>1, <4>2
    <3>3. PICK m : m = replied[i]
      OBVIOUS
    <3>4. LET outcome == ReadAll(protocol, Encode(protocol, m))
          IN  /\ outcome.ok /\ outcome.read = <<m>>
              /\ protocol.batched /\ protocol.codec = "msgpack" =>
                    outcome.at = Len(Encode(protocol, m))
      BY <3>1, <3>2, <3>3, EncodedReadsBack
    <3>5. protocol = Preference[1] => protocol.batched /\ protocol.codec = "msgpack"
      BY DEF Preference, Protocol
    <3> QED
      BY <3>2, <3>3, <3>4, <3>5
  <2> QED
    BY <2>1 DEF RepliesReadBack
<1> QED
  BY <1>1, ServingIsInvariant, PTL
=============================================================================

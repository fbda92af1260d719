------------------------------ MODULE TaskGroup ------------------------------
(***************************************************************************)
(* The task group of one session, and the shield around its clean-up, on    *)
(* each of the supports in serverwamp/adapters: asyncio.py, trio.py and      *)
(* anyio.py.  The body of the group is handle_session; whoever runs it says  *)
(* how it comes to its end (Serving).  asyncio's gather and shield, Trio's   *)
(* nurseries and anyio's task groups are external.                           *)
(***************************************************************************)
EXTENDS Naturals

CONSTANTS
    MaxTasks                 \* bound: tasks spawned into the group

ASSUME TaskGroupAssumption == MaxTasks \in Nat

VARIABLES
    support,                 \* the Application's async_support
    group,                   \* where its coroutine is in the group
    cause,                   \* how the body ended: "return" or "raise"
    failed,                  \* the group has an exception to raise
    task,                    \* task[k]: the k-th spawned task
    cleanup                  \* the shielded _clean_up_session

groupVars == <<support, group, cause, failed, task, cleanup>>

Tasks == 1 .. MaxTasks
Ends == {"return", "raise"}
Left == {"returned", "raised"}

GroupTypeOK ==
    /\ support \in {"asyncio", "trio", "anyio"}
    /\ group \in {"unopened", "body", "shield", "leaving"} \cup Left
    /\ cause \in Ends \cup {"none"}
    /\ failed \in BOOLEAN
    /\ task \in [Tasks -> {"none", "running", "cancelling", "ended"}]
    /\ cleanup \in {"none", "running", "ended", "failed"}

GroupInit ==
    /\ support \in {"asyncio", "trio", "anyio"}
    /\ group = "unopened"
    /\ cause = "none"
    /\ failed = FALSE
    /\ task = [k \in Tasks |-> "none"]
    /\ cleanup = "none"

(* Trio's nurseries and anyio's task groups are structured: their tasks are *)
(* in a scope that is cancelled as a whole, and nobody leaves before them.   *)
Structured == support # "asyncio"
Scoped == Structured /\ failed

Cancelled(tasks) ==
    [k \in Tasks |-> IF tasks[k] = "running" THEN "cancelling" ELSE tasks[k]]

Alive(tasks) == {k \in Tasks : tasks[k] \in {"running", "cancelling"}}

Open == group' = "body" /\ UNCHANGED <<support, cause, failed, task, cleanup>>

(* The body spawns tasks; in a cancelled scope they are cancelled at once.  *)
Spawn(k) ==
    /\ group = "body"
    /\ k \in Tasks /\ task[k] = "none"
    /\ task' = [task EXCEPT ![k] = IF Scoped THEN "cancelling" ELSE "running"]
    /\ UNCHANGED <<support, group, cause, failed, cleanup>>

(* The group as its coroutine comes to its end with these tasks: it waits,  *)
(* or has left, with the exception there is.  asyncio's wait is a gather of  *)
(* the tasks that are in the group then; its close, on the way out of an     *)
(* exception, cancels them and waits for none.  Mutant: asyncio's group does *)
(* not wait.                                                                 *)
MutantNoGather(tasks, raising) ==
    /\ task' = IF raising THEN Cancelled(tasks) ELSE tasks
    /\ group' = IF raising THEN "raised"
                ELSE IF Structured /\ Alive(tasks) # {} THEN "leaving" ELSE "returned"

WaitForTasks(tasks, raising) ==
    /\ task' = IF raising THEN Cancelled(tasks) ELSE tasks
    /\ group' = IF Alive(tasks) # {} /\ (Structured \/ ~raising) THEN "leaving"
                ELSE IF raising THEN "raised" ELSE "returned"

Leave(tasks, raising) ==
    /\ WaitForTasks(tasks, raising)
    /\ failed' = raising
    /\ UNCHANGED <<support, cause>>

(* The body is over, and the finally around it awaits the shielded clean-up:*)
(* asyncio's shield starts it as a task of its own and waits; Trio's opens a *)
(* cancel scope and does no more; anyio's is a context manager, and awaiting *)
(* one raises.                                                               *)
ShieldWaits(end) ==
    /\ support = "asyncio"
    /\ group' = "shield" /\ cause' = end
    /\ cleanup' = "running"
    /\ UNCHANGED <<support, failed, task>>

ShieldForgets(end) ==
    /\ support = "trio"
    /\ Leave(task, failed \/ end = "raise")
    /\ UNCHANGED cleanup

ShieldRaises ==
    /\ support = "anyio"
    /\ Leave(task, TRUE)
    /\ UNCHANGED cleanup

BodyEnds(end) ==
    /\ group = "body"
    /\ ShieldWaits(end) \/ ShieldForgets(end) \/ ShieldRaises

(* The clean-up is over, for a session that waits for it or was cancelled.  *)
CleanupEnds(how) ==
    /\ cleanup = "running"
    /\ cleanup' = how
    /\ IF group = "shield" THEN Leave(task, how = "failed" \/ cause = "raise")
       ELSE UNCHANGED <<support, group, cause, failed, task>>

(* A task comes to its end, well or because it was cancelled.               *)
TaskEnds(k) ==
    LET tasks == [task EXCEPT ![k] = "ended"] IN
    /\ k \in Alive(task)
    /\ IF group = "leaving" THEN Leave(tasks, failed)
       ELSE task' = tasks /\ UNCHANGED <<support, group, cause, failed>>
    /\ UNCHANGED cleanup

(* A task raises.  In a structured group that cancels everything in it; on  *)
(* asyncio it is seen by the gather, and by nobody before.                   *)
TaskRaises(k) ==
    LET tasks == [task EXCEPT ![k] = "ended"] IN
    /\ k \in Alive(task)
    /\ IF group = "leaving" THEN Leave(tasks, TRUE)
       ELSE /\ task' = IF Structured THEN Cancelled(tasks) ELSE tasks
            /\ failed' = (failed \/ Structured)
            /\ UNCHANGED <<support, group, cause>>
    /\ UNCHANGED cleanup

(* The coroutine is cancelled from outside while it waits for the clean-up, *)
(* which goes on alone, or for the tasks.                                    *)
CancelLeaving ==
    /\ group \in {"shield", "leaving"} /\ ~failed
    /\ Leave(task, TRUE)
    /\ UNCHANGED cleanup

GroupNext ==
    \/ Open \/ CancelLeaving
    \/ \E end \in Ends : BodyEnds(end)
    \/ \E how \in {"ended", "failed"} : CleanupEnds(how)
    \/ \E k \in Tasks : Spawn(k) \/ TaskEnds(k) \/ TaskRaises(k)
=============================================================================

---------------------------- MODULE SafeTaskManager ----------------------------
(***************************************************************************)
(* SafeTaskManager (async_primitives/safe_task_manager.py): background     *)
(* tasks with an on_error callback each.  A task is forgotten when its     *)
(* done-callback runs, which the event loop does some time after the end   *)
(* of the task; cancel_all cancels what it finds, waits, and then forgets  *)
(* everything there is by that time.                                       *)
(***************************************************************************)
EXTENDS Integers, FiniteSets

CONSTANTS Tasks,
          Callers   \* of cancel_all

VARIABLES status,     \* of every task
          active,    \* _active_tasks
          called,    \* tasks whose done-callback has run
          reported,  \* tasks whose on_error was called
          waiting,   \* per call of cancel_all, the tasks it waits for
          during,    \* tasks created while some cancel_all was waiting
          survivors  \* tasks that a cancel_all gave up waiting for

vars == <<status, active, called, reported, waiting, during, survivors>>

Ended == {t \in Tasks : status[t] \in {"completed", "failed", "cancelled"}}

Init ==
    /\ status = [t \in Tasks |-> "none"]
    /\ active = {} /\ called = {} /\ reported = {}
    /\ waiting = [c \in Callers |-> {}]
    /\ during = {} /\ survivors = {}

CreateTask(t) ==
    /\ status[t] = "none"
    /\ status' = [status EXCEPT ![t] = "running"]
    /\ active' = active \cup {t}
    /\ during' = IF \E c \in Callers : waiting[c] # {} THEN during \cup {t} ELSE during
    /\ UNCHANGED <<called, reported, waiting, survivors>>

\* A task that is cancelled may end in any way, or ignore it.
Ends(t) ==
    /\ status[t] \in {"running", "cancelling"}
    /\ \E how \in {"completed", "failed"} \cup (IF status[t] = "cancelling" THEN {"cancelled"} ELSE {}) :
          status' = [status EXCEPT ![t] = how]
    /\ UNCHANGED <<active, called, reported, waiting, during, survivors>>

\* _task_done_callback; of a task it does not know it only logs the error.
DoneCallback(t) ==
    /\ t \in Ended \ called
    /\ called' = called \cup {t}
    /\ active' = active \ {t}
    /\ reported' = IF status[t] = "failed" /\ t \in active THEN reported \cup {t} ELSE reported
    /\ UNCHANGED <<status, waiting, during, survivors>>

\* Mutant: the tasks are forgotten before they are waited for.
CancelAll_ForgetsFirst(c) ==
    /\ waiting[c] = {} /\ active # {}
    /\ status' = [t \in Tasks |-> IF t \in active \ Ended THEN "cancelling" ELSE status[t]]
    /\ waiting' = [waiting EXCEPT ![c] = active]
    /\ active' = {}
    /\ UNCHANGED <<called, reported, during, survivors>>

\* cancel_all, up to its wait
CancelAll(c) ==
    /\ waiting[c] = {} /\ active # {}
    /\ status' = [t \in Tasks |-> IF t \in active \ Ended THEN "cancelling" ELSE status[t]]
    /\ waiting' = [waiting EXCEPT ![c] = active]
    /\ UNCHANGED <<active, called, reported, during, survivors>>

\* All have ended (their done-callbacks were registered before those of the wait),
\* or the time is over.
WaitEnds(c) ==
    /\ waiting[c] # {}
    /\ survivors' = survivors \cup (waiting[c] \ called)
    /\ active' = {}
    /\ waiting' = [waiting EXCEPT ![c] = {}]
    /\ UNCHANGED <<status, called, reported, during>>

Next ==
    \/ \E t \in Tasks : CreateTask(t) \/ Ends(t) \/ DoneCallback(t)
    \/ \E c \in Callers : CancelAll(c) \/ WaitEnds(c)

Spec == Init /\ [][Next]_vars

-----------------------------------------------------------------------------
(* Properties *)

\* "Prevents the fire-and-forget anti-pattern": an error reaches the on_error of its
\* task and every task that lives is visible, whatever was cancelled, except tasks
\* created while a cancel_all waited and tasks it gave up.
ErrorsReported ==
    \A t \in Tasks \ (during \cup survivors) :
       /\ t \in called /\ status[t] = "failed" => t \in reported
       /\ status[t] # "none" => (t \in active <=> t \notin called)
=============================================================================

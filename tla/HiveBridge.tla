------------------------------ MODULE HiveBridge ------------------------------
(***************************************************************************)
(* The hive mind called from a turn (fsm/handlers/idle_waiting.py).  The   *)
(* synchronous REPL has no event loop: the turn runs the hive to its end.  *)
(* The asynchronous one calls the same handler on its loop's thread: the   *)
(* hive is scheduled on that loop, and its result is awaited by blocking   *)
(* the thread, so that no coroutine of the loop takes a step meanwhile.    *)
(***************************************************************************)
EXTENDS Integers

CONSTANTS MaxTasks   \* model bound: tasks the user types

VARIABLES async,  \* which of the two REPLs runs
          task,   \* the last task that was typed
          turn,   \* what the turn is doing with it
          hive,   \* per task, the hive's process_task
          brain   \* per task, who worked on it after the hive

vars == <<async, task, turn, hive, brain>>

TaskIds == 1 .. MaxTasks

Init ==
    /\ async \in BOOLEAN
    /\ task = 0 /\ turn = "prompt"
    /\ hive = [k \in TaskIds |-> "none"]
    /\ brain = [k \in TaskIds |-> "none"]

\* Coroutines of the loop run while the REPL awaits something: the user's input,
\* or an asynchronous driver's tokens.
LoopFree == async /\ turn \in {"prompt", "brainstorm"}

\* The turn of a task that is routed to the hive.
Route ==
    /\ turn = "prompt" /\ task < MaxTasks
    /\ task' = task + 1 /\ turn' = "hive"
    /\ hive' = [hive EXCEPT ![task + 1] = IF async THEN "scheduled" ELSE "running"]
    /\ UNCHANGED <<async, brain>>

Starts(k) ==
    /\ hive[k] = "scheduled" /\ LoopFree
    /\ hive' = [hive EXCEPT ![k] = "running"]
    /\ UNCHANGED <<async, task, turn, brain>>

\* It is answered with a result, good or bad, or raises.
Ends(k) ==
    /\ hive[k] = "running" /\ (async => LoopFree)
    /\ \E how \in {"answered", "raised"} : hive' = [hive EXCEPT ![k] = how]
    /\ UNCHANGED <<async, task, turn, brain>>

TakesResult ==
    /\ turn = "hive" /\ hive[task] = "answered"
    /\ turn' = "prompt" /\ UNCHANGED <<async, task, hive, brain>>

\* Mutant: the result is awaited without a limit.
GivesUp_NoTimeout ==
    /\ turn = "hive" /\ hive[task] = "raised"
    /\ turn' = "swarm" /\ UNCHANGED <<async, task, hive, brain>>

\* The hive's exception, or the timeout of result(): the coroutine stays scheduled.
GivesUp ==
    /\ turn = "hive"
    /\ hive[task] = "raised" \/ (async /\ hive[task] # "answered")
    /\ turn' = "swarm" /\ UNCHANGED <<async, task, hive, brain>>

\* The swarm runs in the turn; without a result from it the agents talk.
SwarmEnds ==
    /\ turn = "swarm"
    /\ brain' = [brain EXCEPT ![task] = "swarm"]
    /\ turn' \in {"prompt", "brainstorm"} /\ UNCHANGED <<async, task, hive>>

BrainstormEnds ==
    /\ turn = "brainstorm"
    /\ brain' = [brain EXCEPT ![task] = "agents"]
    /\ turn' = "prompt" /\ UNCHANGED <<async, task, hive>>

Turn == TakesResult \/ GivesUp \/ SwarmEnds \/ BrainstormEnds
Hive(k) == Starts(k) \/ Ends(k)

Next == Route \/ Turn \/ \E k \in TaskIds : Hive(k)

Spec == Init /\ [][Next]_vars

\* The turn's thread goes on, and so do coroutines that can.
Fairness == WF_vars(Turn) /\ \A k \in TaskIds : WF_vars(Hive(k))
FairSpec == Spec /\ Fairness

-----------------------------------------------------------------------------
(* Properties *)

\* No turn blocks for ever on the thread that would have to answer it: the user
\* gets the prompt back, whichever REPL runs.
PromptReturns == turn # "prompt" ~> turn = "prompt"

\* "Falling back to Swarm/Brainstorming after Hive Mind error": the fallback works
\* on tasks the hive has failed on.
FallbackAfterError == turn = "swarm" => hive[task] = "raised"
=============================================================================

----------------------------- MODULE TaskScheduler -----------------------------
(***************************************************************************)
(* TaskScheduler (execution/task_scheduler.py): workers ask next() for a   *)
(* task and then start() it by its name, which by then may have been       *)
(* started, ended, cleared, or submitted again as another task.  Scores    *)
(* only order the candidates and are left out.                             *)
(***************************************************************************)
EXTENDS Integers, FiniteSets

CONSTANTS Names, Workers,
          MaxPending,  \* max_queue_size
          MaxSubmits   \* model bound: tasks submitted

VARIABLES status,     \* of the task of every name, "none" when there is none
          dependsOn,  \* depends_on
          started,    \* how often the task was started
          picked,     \* what next() gave each worker
          submits,
          done,       \* names of which some task was completed
          cleared     \* names whose task was cleared after it was completed

vars == <<status, dependsOn, started, picked, submits, done, cleared>>

Nothing == "nothing"
Terminal == {"completed", "failed", "cancelled"}
Known == {n \in Names : status[n] # "none"}

Init ==
    /\ status = [n \in Names |-> "none"]
    /\ dependsOn = [n \in Names |-> {}]
    /\ started = [n \in Names |-> 0]
    /\ picked = [w \in Workers |-> Nothing]
    /\ submits = 0 /\ done = {} /\ cleared = {}

\* _deps_satisfied: a name that is no longer there is not completed.
Satisfied(deps, now) == \A d \in deps : now[d] = "completed"

\* _update_blocked_states.  It changes between blocked and pending only, which no
\* dependency is compared with: the order of the loop does not matter.
Updated(now) ==
    [n \in Names |->
       CASE now[n] = "blocked" /\ Satisfied(dependsOn[n], now) -> "pending"
         [] now[n] = "pending" /\ ~Satisfied(dependsOn[n], now) -> "blocked"
         [] OTHER -> now[n]]

\* submit: only tasks that are there can be depended on.
Submit(n, deps) ==
    /\ submits < MaxSubmits /\ submits' = submits + 1
    /\ n \notin Known /\ deps \subseteq Known
    /\ Cardinality({m \in Names : status[m] = "pending"}) < MaxPending
    /\ status' = [status EXCEPT ![n] = IF Satisfied(deps, status) THEN "pending" ELSE "blocked"]
    /\ dependsOn' = [dependsOn EXCEPT ![n] = deps]
    /\ started' = [started EXCEPT ![n] = 0]
    /\ UNCHANGED <<picked, done, cleared>>

NextTask(w) ==
    /\ picked[w] = Nothing
    /\ status' = Updated(status)
    /\ LET candidates == {n \in Names : status'[n] = "pending"}
       IN IF candidates = {} THEN UNCHANGED picked
          ELSE \E n \in candidates : picked' = [picked EXCEPT ![w] = n]
    /\ UNCHANGED <<dependsOn, started, submits, done, cleared>>

\* Mutant: a task is started by whoever was given it.
Start_Unchecked(w) ==
    /\ picked[w] # Nothing
    /\ picked' = [picked EXCEPT ![w] = Nothing]
    /\ LET n == picked[w]
       IN IF status[n] \in {"pending", "running"}
          THEN /\ status' = [status EXCEPT ![n] = "running"]
               /\ started' = [started EXCEPT ![n] = @ + 1]
          ELSE UNCHANGED <<status, started>>
    /\ UNCHANGED <<dependsOn, submits, done, cleared>>

Start(w) ==
    /\ picked[w] # Nothing
    /\ picked' = [picked EXCEPT ![w] = Nothing]
    /\ LET n == picked[w]
       IN IF status[n] = "pending"
          THEN /\ status' = [status EXCEPT ![n] = "running"]
               /\ started' = [started EXCEPT ![n] = @ + 1]
          ELSE UNCHANGED <<status, started>>
    /\ UNCHANGED <<dependsOn, submits, done, cleared>>

\* complete, of any task that has not ended
Complete(n) ==
    /\ n \in Known /\ status[n] \notin Terminal
    /\ status' = Updated([status EXCEPT ![n] = "completed"])
    /\ done' = done \cup {n}
    /\ UNCHANGED <<dependsOn, started, picked, submits, cleared>>

\* fail and cancel leave whoever depends on the task blocked.
Break(n, how) ==
    /\ n \in Known /\ status[n] \notin Terminal
    /\ status' = [status EXCEPT ![n] = how]
    /\ UNCHANGED <<dependsOn, started, picked, submits, done, cleared>>

ClearCompleted ==
    /\ status' = [n \in Names |-> IF status[n] \in Terminal THEN "none" ELSE status[n]]
    /\ cleared' = cleared \cup {n \in Names : status[n] = "completed"}
    /\ UNCHANGED <<dependsOn, started, picked, submits, done>>

Next ==
    \/ \E n \in Names : \/ \E deps \in SUBSET Names : Submit(n, deps)
                        \/ Complete(n)
                        \/ \E how \in {"failed", "cancelled"} : Break(n, how)
    \/ \E w \in Workers : NextTask(w) \/ Start(w)
    \/ ClearCompleted

Spec == Init /\ [][Next]_vars

-----------------------------------------------------------------------------
(* Properties *)

\* Two workers never run the same task; what may run depends on nothing that was
\* never completed, and what is blocked depends on something that is not, or was
\* cleared.  A name that is submitted again is another task.
RunsOnceWhenReady ==
    \A n \in Known :
       /\ started[n] <= 1
       /\ status[n] \in {"pending", "running"} => dependsOn[n] \subseteq done
       /\ status[n] = "blocked" /\ dependsOn[n] \subseteq done => dependsOn[n] \cap cleared # {}
=============================================================================

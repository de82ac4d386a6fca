---------------------------- MODULE WorkflowEngine ----------------------------
(***************************************************************************)
(* WorkflowEngine.execute (execution/workflow_engine.py): the steps of a   *)
(* workflow in topological order, with conditions, retries and failures.   *)
(* The statuses belong to the steps: a workflow that is executed again     *)
(* starts with those of its last execution, one that a KeyboardInterrupt   *)
(* has left in the middle, too.  execute is synchronous and the class has  *)
(* no lock: one workflow is executed by one caller at a time.              *)
(***************************************************************************)
EXTENDS Integers

CONSTANTS Steps,
          Missing,      \* a name in depends_on that no step has
          Retries,      \* retries of every step
          MaxExecutions \* model bound

VARIABLES dependsOn,     \* depends_on of every step
          stopOnFailure,
          status,        \* of every step
          taken,         \* steps of the order that this execution has come to
          current,       \* the step whose handler runs
          attempts,
          workflow,      \* status of the workflow
          executing,     \* a call of execute is under way
          executions,
          settled        \* the steps' statuses given in this execution

vars == <<dependsOn, stopOnFailure, status, taken, current, attempts, workflow, executing,
          executions, settled>>

None == "none"

\* What the constants are; MCTables, which instantiates this module, assumes it.
StepsAssumption == None \notin Steps

Init ==
    /\ dependsOn \in [Steps -> SUBSET (Steps \cup {Missing})]
    /\ stopOnFailure \in BOOLEAN
    /\ status = [s \in Steps |-> "pending"]
    /\ taken = {} /\ current = None /\ attempts = 0
    /\ workflow = "created" /\ executing = FALSE /\ executions = 0 /\ settled = {}

Execute ==
    /\ ~executing /\ executions < MaxExecutions
    /\ executing' = TRUE /\ workflow' = "running" /\ executions' = executions + 1
    /\ taken' = {} /\ settled' = {}
    /\ UNCHANGED <<dependsOn, stopOnFailure, status, current, attempts>>

\* Mutant: the steps are taken as they come.
InOrder_AsAdded(s) == s \notin taken

\* _topological_sort takes a step once it has taken all it depends on; a step on
\* or behind a cycle, or behind a missing name, is not in the order at all.
InOrder(s) == s \notin taken /\ dependsOn[s] \subseteq taken

Satisfied(s) == \A d \in dependsOn[s] : d # Missing /\ status[d] \in {"completed", "skipped"}

Takes(s) ==
    /\ executing /\ current = None /\ InOrder(s)
    /\ taken' = taken \cup {s}

Settles(s, how) ==
    /\ status' = [status EXCEPT ![s] = how]
    /\ settled' = settled \cup {s}

\* The final status counts the failed steps of any execution.
Final(now) == IF \E s \in Steps : now[s] = "failed" THEN "failed" ELSE "completed"

\* A failed step, with what its execution does then.
FailsNow(s) ==
    /\ Settles(s, "failed")
    /\ executing' = ~stopOnFailure
    /\ workflow' = IF stopOnFailure THEN Final(status') ELSE workflow

\* By its condition (any may be true), or for a dependency that is not satisfied.
Skip(s) ==
    /\ Takes(s) /\ Settles(s, "skipped")
    /\ UNCHANGED <<dependsOn, stopOnFailure, current, attempts, workflow, executing, executions>>

NoHandler(s) ==
    /\ Takes(s) /\ Satisfied(s) /\ FailsNow(s)
    /\ UNCHANGED <<dependsOn, stopOnFailure, current, attempts, executions>>

Begin(s) ==
    /\ Takes(s) /\ Satisfied(s)
    /\ current' = s /\ attempts' = 1
    /\ status' = [status EXCEPT ![s] = "running"]
    /\ UNCHANGED <<dependsOn, stopOnFailure, workflow, executing, executions, settled>>

Succeeds ==
    /\ current # None
    /\ Settles(current, "completed")
    /\ current' = None
    /\ UNCHANGED <<dependsOn, stopOnFailure, taken, attempts, workflow, executing, executions>>

Raises ==
    /\ current # None
    /\ IF attempts < Retries + 1
       THEN attempts' = attempts + 1 /\ UNCHANGED <<status, workflow, executing, current, settled>>
       ELSE FailsNow(current) /\ current' = None /\ UNCHANGED attempts
    /\ UNCHANGED <<dependsOn, stopOnFailure, taken, executions>>

\* A KeyboardInterrupt of the handler passes through, and leaves all as it is.
Interrupted ==
    /\ current # None /\ current' = None /\ executing' = FALSE
    /\ UNCHANGED <<dependsOn, stopOnFailure, status, taken, attempts, workflow, executions, settled>>

Finish ==
    /\ executing /\ current = None
    /\ \A s \in Steps : ~InOrder(s)
    /\ executing' = FALSE /\ workflow' = Final(status)
    /\ UNCHANGED <<dependsOn, stopOnFailure, status, taken, current, attempts, executions, settled>>

Next ==
    \/ Execute \/ Succeeds \/ Raises \/ Interrupted \/ Finish
    \/ \E s \in Steps : Skip(s) \/ NoHandler(s) \/ Begin(s)

Spec == Init /\ [][Next]_vars

-----------------------------------------------------------------------------
(* Properties *)

\* "Steps are executed in topological order": whatever earlier executions left, a
\* handler runs when all its step depends on was settled in this execution, and a
\* completed workflow has settled every step of the order.
RunsOnFreshResults ==
    /\ current # None => /\ dependsOn[current] \subseteq settled
                         /\ \A d \in dependsOn[current] : status[d] \in {"completed", "skipped"}
    /\ workflow = "completed" =>
          \A s \in Steps : dependsOn[s] \subseteq settled => s \in settled /\ status[s] # "failed"
=============================================================================

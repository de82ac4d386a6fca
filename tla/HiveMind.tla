-------------------------------- MODULE HiveMind --------------------------------
(***************************************************************************)
(* The hive mind (hive_mind/orchestrator.py and its phases): process_task  *)
(* drives one task through the seven phases, checkpoints each in a saga,   *)
(* diagnoses failed executions and retries them.  Between two awaits the   *)
(* process may die; a task may be resumed from its saga file, and the      *)
(* synchronization bridge may roll it back once it has been answered.      *)
(***************************************************************************)
EXTENDS SagaManager, FiniteSets

CONSTANTS Steps,        \* the steps of the execution plan are 1 .. Steps
          MaxAttempts,  \* max_attempts of process_task
          MaxRetries,   \* MAX_RETRIES of the retry phase
          MaxTurns,     \* model bound: turns of a debate
          MaxCrashes    \* model bound: times the process dies

ASSUME HiveAssumption ==
    /\ Steps \in Nat \ {0} /\ MaxTurns \in Nat /\ MaxCrashes \in Nat
    /\ MaxAttempts \in Nat \ {0} /\ MaxRetries \in Nat

VARIABLES
    at,       \* the phase process_task is in, and how far
    saga,     \* self._saga
    file,     \* the saga's file
    items,    \* the context window
    loop,     \* the execution loop: the attempt, the retries, the steps' outcomes
    dedup,    \* the request deduplicator's entry of each step
    result,   \* what process_task answered
    crashes

vars == <<at, saga, file, items, loop, dedup, result, crashes>>

Idle == <<"idle", "run">>
Reporting == <<"report", "save">>
Plan == 1 .. Steps
NotRun == "not run"

\* A plan's steps depend each on the one before it.
Outcomes == {NotRun, "unmet", "success", "warning", "error"}
NewLoop == [attempt |-> 0, retries |-> 0, steps |-> [s \in Plan |-> NotRun],
            debate |-> FALSE, success |-> FALSE]

Results == {None, "success", "failure", "cancelled", "failed", "exception"}

Loops == [attempt : 0 .. MaxAttempts, retries : 0 .. MaxRetries, steps : [Plan -> Outcomes],
          debate : BOOLEAN, success : BOOLEAN]

TypeOK ==
    /\ at \in (Phases \cup {"idle", "report", "rollback"}) \X {"run", "save", "flag"}
    /\ DOMAIN saga.cps \cup DOMAIN file.cps \subseteq Phases
    /\ loop \in Loops
    /\ dedup \in [Plan -> {"new", "pending", "completed"}]
    /\ result \in Results /\ crashes \in 0 .. MaxCrashes

Init ==
    /\ at = Idle /\ saga = NewSaga /\ file = NoFile
    /\ items = <<>> /\ loop = NewLoop /\ dedup = [s \in Plan |-> "new"]
    /\ result = None /\ crashes = 0

-----------------------------------------------------------------------------
(* How a task begins and how it is answered *)

\* process_task, up to the first phase: the task's file, if there is one, is
\* taken up, but the phases are run again from the analysis on.
Start ==
    /\ at = Idle
    /\ at' = <<"analysis", "run">>
    /\ saga' = IF file = NoFile THEN NewSaga ELSE file
    /\ items' = <<>> /\ loop' = NewLoop /\ result' = None
    /\ UNCHANGED <<file, dedup, crashes>>

\* An early return, or an exception of any phase: the saga's file is kept.
Answers(r) == at' = Idle /\ result' = r /\ loop' = NewLoop

\* Mutant: the file is removed whatever the outcome.
Raises_Cleans ==
    /\ at # Idle /\ at[1] # "rollback"
    /\ Answers("exception") /\ file' = NoFile
    /\ UNCHANGED <<saga, items, dedup, crashes>>

Raises ==
    /\ at # Idle /\ at[1] # "rollback"
    /\ Answers("exception")
    /\ UNCHANGED <<saga, file, items, dedup, crashes>>

-----------------------------------------------------------------------------
(* Checkpoints: stored and written, and only then flagged *)

\* The phase that follows a checkpoint's flag.
Follows(p) ==
    CASE p = "analysis" -> IF loop.debate THEN <<"debate", "run">> ELSE <<"debate", "save">>
      [] p = "debate" -> <<"architecture", "run">>
      [] p = "architecture" -> <<"execution", "run">>
      [] p = "execution" -> <<"consolidation", "run">>
      [] p = "diagnosis" -> <<"retry", "run">>

\* Mutant: the file is written before the checkpoint is stored.
Checkpoint_WritesFirst(p) ==
    /\ at = <<p, "save">>
    /\ at' = <<p, "flag">>
    /\ saga' = Checkpointed(saga, p, Len(items))
    /\ file' = saga
    /\ UNCHANGED <<items, loop, dedup, result, crashes>>

\* The checkpoint is in memory and handed to the executor, which replaces the
\* file in one step.
Checkpoint(p) ==
    /\ at = <<p, "save">>
    /\ at' = <<p, "flag">>
    /\ saga' = Checkpointed(saga, p, Len(items))
    /\ file' = saga'
    /\ UNCHANGED <<items, loop, dedup, result, crashes>>

\* update_context and sync_checkpoint; a diagnosis is followed by its user's choice.
Flag(p) ==
    /\ at = <<p, "flag">>
    /\ saga' = Flagged(saga, FlagOf[p])
    /\ \/ at' = Follows(p) /\ UNCHANGED <<loop, result>>
       \/ p = "diagnosis" /\ Answers("failed")
    /\ UNCHANGED <<file, items, dedup, crashes>>

-----------------------------------------------------------------------------
(* The phases *)

\* The agents analyse the task on their own and their answers are compared.
Analyse(debate) ==
    /\ at = <<"analysis", "run">>
    /\ at' = <<"analysis", "save">>
    /\ items' = Added(Added(items, Item("analysis", CRITICAL)), Item("analysis", HIGH))
    /\ loop' = [loop EXCEPT !.debate = debate]
    /\ UNCHANGED <<saga, file, dedup, result, crashes>>

\* One item per turn of the debate, the first two of a lower priority; the user
\* may cancel at the breakpoint after it.
Turns(n) == [t \in 1 .. n |-> Item("debate", IF t >= 3 THEN HIGH ELSE MEDIUM)]
Debate(turns) ==
    /\ at = <<"debate", "run">>
    /\ items' = FoldLeft(Added, items, Turns(turns))
    /\ \/ at' = <<"debate", "save">> /\ UNCHANGED <<loop, result>>
       \/ Answers("cancelled")
    /\ UNCHANGED <<saga, file, dedup, crashes>>

\* The user may refuse the agents to be spawned, and the confidence may be too
\* low: an early return, after the agents were spawned.
Architect ==
    /\ at = <<"architecture", "run">>
    /\ \/ at' = <<"architecture", "save">> /\ UNCHANGED <<loop, result>>
       \/ Answers("cancelled")
    /\ UNCHANGED <<saga, file, items, dedup, crashes>>

-----------------------------------------------------------------------------
(* The execution: the steps in the plan's order *)

Executing(s) ==
    /\ at = <<"execution", "run">>
    /\ loop.steps[s] = NotRun /\ \A t \in 1 .. s - 1 : loop.steps[t] # NotRun

\* Skipped, with an issue that is an error but without a result.
Unmet(s) ==
    /\ Executing(s) /\ s > 1 /\ loop.steps[s - 1] # "success"
    /\ loop' = [loop EXCEPT !.steps[s] = "unmet"]
    /\ UNCHANGED <<at, saga, file, items, dedup, result, crashes>>

Ready(s) == Executing(s) /\ (s > 1 => loop.steps[s - 1] = "success")

\* An earlier attempt's, or an earlier task's, result is taken for this one's.
Reuse(s) ==
    /\ Ready(s) /\ dedup[s] = "completed"
    /\ loop' = [loop EXCEPT !.steps[s] = "success"]
    /\ UNCHANGED <<at, saga, file, items, dedup, result, crashes>>

\* Only the result of a step that was new is kept; one that failed leaves its
\* entry pending.
Entry(s, outcome) ==
    IF dedup[s] = "new" /\ outcome = "success" THEN "completed" ELSE "pending"

Run(s, outcome) ==
    /\ Ready(s) /\ dedup[s] # "completed"
    /\ dedup' = [dedup EXCEPT ![s] = Entry(s, outcome)]
    /\ items' = Added(items, Item("execution", IF outcome = "success" THEN MEDIUM ELSE HIGH))
    /\ loop' = [loop EXCEPT !.steps[s] = outcome]
    /\ UNCHANGED <<at, saga, file, result, crashes>>

\* What the execution phase reports and process_task makes of it.
Judged(success, diagnose) ==
    /\ loop' = [loop EXCEPT !.success = success, !.steps = NewLoop.steps]
    /\ saga' = IF success THEN saga ELSE Flagged(saga, "execution_failed")
    /\ at' = CASE success -> <<"execution", "save">>
                [] ~success /\ diagnose -> <<"diagnosis", "run">>
                [] OTHER -> <<"consolidation", "run">>
    /\ UNCHANGED <<file, items, dedup, result, crashes>>

NoErrors == \A s \in Plan : loop.steps[s] # "error"

\* All steps were looked at; poor quality may ask for a diagnosis, too.
Executed(poor) ==
    /\ at = <<"execution", "run">> /\ \A s \in Plan : loop.steps[s] # NotRun
    /\ Judged(NoErrors, poor \/ \E s \in Plan : loop.steps[s] \in {"error", "unmet"})

\* A step with a critical issue ends the execution.
BrokenOff ==
    /\ at = <<"execution", "run">>
    /\ \E s \in Plan : loop.steps[s] = "error"
    /\ Judged(FALSE, TRUE)

\* The budget is used up before the next step.
Unaffordable(s) == Ready(s) /\ Judged(NoErrors, TRUE)

\* Both agents diagnose.
Diagnose ==
    /\ at = <<"diagnosis", "run">>
    /\ at' = <<"diagnosis", "save">>
    /\ items' = Added(items, Item("diagnosis", HIGH))
    /\ UNCHANGED <<saga, file, loop, dedup, result, crashes>>

\* Mutant: the attempt is not counted.
Again_Uncounted == at' = <<"execution", "run">> /\ UNCHANGED <<loop, result>>

\* The execution loop goes round, or ends after its last attempt.
Again ==
    /\ loop' = [loop EXCEPT !.attempt = @ + 1, !.retries = @ + 1]
    /\ at' = IF loop.attempt + 1 < MaxAttempts THEN <<"execution", "run">>
             ELSE <<"consolidation", "run">>
    /\ UNCHANGED result

\* Mutant: one retry more is granted.
Retry_OffByOne ==
    /\ at = <<"retry", "run">>
    /\ \/ loop.retries <= MaxRetries /\ Again
       \/ Answers("failed")
    /\ UNCHANGED <<saga, file, items, dedup, crashes>>

\* PhaseRetry.execute: the retries are counted, and there may be no budget, no
\* strategy left that is not blacklisted, or changes that cannot be applied.
Retry ==
    /\ at = <<"retry", "run">>
    /\ \/ loop.retries < MaxRetries /\ Again
       \/ Answers("failed")
    /\ UNCHANGED <<saga, file, items, dedup, crashes>>

\* Knowledge is consolidated.  A success removes the saga's file, and is answered
\* only after another await.
Consolidate(insight) ==
    /\ at = <<"consolidation", "run">>
    /\ items' = IF insight THEN Added(items, Item("consolidation", MEDIUM)) ELSE items
    /\ IF loop.success
       THEN at' = Reporting /\ file' = NoFile /\ UNCHANGED <<loop, result>>
       ELSE Answers("failure") /\ UNCHANGED file
    /\ UNCHANGED <<saga, dedup, crashes>>

Report ==
    /\ at = Reporting /\ Answers("success")
    /\ UNCHANGED <<saga, file, items, dedup, crashes>>

-----------------------------------------------------------------------------
(* Rollback, crash and time *)

\* coordinated_rollback, up to the write.
Rollback(p) ==
    /\ at = Idle /\ p \in DOMAIN saga.cps
    /\ at' = <<"rollback", "save">>
    /\ items' = Truncated(items, saga.cps[p])
    /\ saga' = RolledBack(saga, p)
    /\ UNCHANGED <<file, loop, dedup, result, crashes>>

RollbackWritten ==
    /\ at = <<"rollback", "save">>
    /\ at' = Idle /\ file' = saga
    /\ UNCHANGED <<saga, items, loop, dedup, result, crashes>>

\* The process dies; the files are all that is left.
Crash ==
    /\ crashes < MaxCrashes /\ crashes' = crashes + 1
    /\ at' = Idle /\ saga' = NewSaga /\ items' = <<>> /\ loop' = NewLoop /\ result' = None
    /\ dedup' = [s \in Plan |-> "new"]
    /\ UNCHANGED file

\* An entry outlives its time to live.
Expire(s) ==
    /\ dedup[s] # "new" /\ dedup' = [dedup EXCEPT ![s] = "new"]
    /\ UNCHANGED <<at, saga, file, items, loop, result, crashes>>

Works ==
    \/ \E p \in Phases \ {"retry", "consolidation"} : Checkpoint(p) \/ Flag(p)
    \/ \E debate \in BOOLEAN : Analyse(debate)
    \/ \E turns \in 0 .. MaxTurns : Debate(turns)
    \/ Architect
    \/ \E s \in Plan : \/ Unmet(s) \/ Reuse(s) \/ Unaffordable(s)
                       \/ \E outcome \in {"success", "warning", "error"} : Run(s, outcome)
    \/ \E poor \in BOOLEAN : Executed(poor)
    \/ BrokenOff
    \/ Diagnose
    \/ Retry
    \/ \E insight \in BOOLEAN : Consolidate(insight)
    \/ Report
    \/ RollbackWritten

Next ==
    \/ Start
    \/ Works
    \/ Raises
    \/ \E p \in Phases : Rollback(p)
    \/ \E s \in Plan : Expire(s)
    \/ Crash

Spec == Init /\ [][Next]_vars

\* Every call to an agent has a timeout, and the executor ends its writes.
Fairness == WF_vars(Works)
FairSpec == Spec /\ Fairness

-----------------------------------------------------------------------------
(* Properties *)

\* PHASE_GUARDS, which process_task never asks (can_enter_phase has no caller).
Guard(p) ==
    CASE p = "debate" -> "analysis_complete" \in saga.flags
      [] p = "architecture" ->
            saga.flags \cap {"debate_complete", "debate_skipped", "immediate_consensus"} # {}
      [] p = "execution" -> "architecture_approved" \in saga.flags
      [] p = "diagnosis" -> "execution_failed" \in saga.flags
      [] p = "retry" -> "diagnosis_complete" \in saga.flags
      [] p = "consolidation" -> saga.flags \cap {"execution_complete", "retry_exhausted"} # {}
      [] OTHER -> TRUE

\* No phase is entered against its guard although nobody looks at the guards:
\* the loop's attempts and the retry phase's limit, two constants in two files,
\* fit so that a failed execution never reaches the consolidation.
GuardsKept == at[2] = "run" => Guard(at[1])

\* A phase that is flagged as done, in memory or in the file, has its checkpoint
\* in the file: no crash, resumption or rollback makes the saga forget it.
Backed(flags, cps) == \A p \in DOMAIN FlagOf : FlagOf[p] \in flags => p \in DOMAIN cps
DurableFirst ==
    /\ Backed(file.flags, file.cps)
    /\ at[1] \in Phases => Backed(saga.flags, file.cps)

\* A task that was checkpointed can be resumed until an attempt of it has succeeded:
\* no early return, exception, exhausted retry or rollback removes its file.
KeptUntilSuccess == [][file # NoFile /\ file' = NoFile => loop.success]_vars

\* Retries end: every task is answered.
Answered == at # Idle ~> at = Idle

\* The promise of rollback_to: the context tells of nothing that is rolled back.
RollbackForgets ==
    [][\A p \in Phases : at = Idle /\ at'[1] = "rollback" /\ saga'.recovery = p =>
          \A i \in DOMAIN items' : items'[i].from \notin After(p)]_vars
=============================================================================

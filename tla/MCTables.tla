-------------------------------- MODULE MCTables --------------------------------
(***************************************************************************)
(* The tables that several callers read and write: the blackboard, the     *)
(* tree of cancellation tokens, the background tasks, the requests, the    *)
(* checkpoints, the swarm's queue, the scheduler, the workflows and their  *)
(* registry, the distributed lock and the questions to the user.  They     *)
(* share no state, so that each is explored on its own:                    *)
(* focus says which.                                                       *)
(***************************************************************************)
EXTENDS Blackboard, TLC

CONSTANTS Tokens, Root, Callbacks,
          Background, Cancellers,                   \* of the task manager
          Requests, Requesters, MaxEntries,
          Threads, MaxPerSession, MaxCreated,       \* of the checkpoints
          Queueable, MaxSize,
          Names, Workers, MaxPending, MaxSubmits,   \* of the scheduler
          Steps, Missing, Retries, MaxExecutions,
          Servers, Home, Stops,
          Locks, Offline, NoLock,                   \* of the distributed lock
          Clerks

VARIABLES focus,
          parent, own, children, callbacks, runs, walk, late, cut,
          task, active, called, reported, waiting, during, survivors,
          entries, older, doing, lost,
          list, store, next, file, save, created, shifted, mixed,
          queued, needs, completed, tooLate, dropped,
          scheduled, dependencies, started, picked, submits, done, cleared,
          dependsOn, stopOnFailure, status, taken, current, attempts, workflow, executing, executions,
          settled,
          connected, redis, memory, runner, stop, update, faulty,
          key, acquired, lockCall, doubtful,
          request, answer, overdue, call, succeeded

tokenVars == <<parent, own, children, callbacks, runs, walk, late, cut>>
managerVars == <<task, active, called, reported, waiting, during, survivors>>
dedupVars == <<entries, older, doing, lost>>
checkpointVars == <<list, store, next, file, save, created, shifted, mixed>>
queueVars == <<queued, needs, completed, tooLate, dropped>>
schedulerVars == <<scheduled, dependencies, started, picked, submits, done, cleared>>
workflowVars == <<dependsOn, stopOnFailure, status, taken, current, attempts, workflow,
                  executing, executions, settled>>
registryVars == <<connected, redis, memory, runner, stop, update, faulty>>
lockVars == <<key, acquired, lockCall, doubtful>>
questionVars == <<request, answer, overdue, call, succeeded>>

Token == INSTANCE CancellationToken
Manager == INSTANCE SafeTaskManager WITH status <- task, Tasks <- Background, Callers <- Cancellers
Dedup == INSTANCE RequestDeduplicator WITH Callers <- Requesters
Checkpoints == INSTANCE CheckpointManager
Queue == INSTANCE SwarmTaskQueue WITH
    status <- queued, dependsOn <- needs, late <- tooLate, Tasks <- Queueable
Scheduler == INSTANCE TaskScheduler WITH status <- scheduled, dependsOn <- dependencies
Engine == INSTANCE WorkflowEngine
Registry == INSTANCE WorkflowRegistry
Lock == INSTANCE DistributedLock WITH Nobody <- NoLock, call <- lockCall
Question == INSTANCE HITLPersistence WITH status <- request

ASSUME InstancesAreAssumed ==
    /\ BoardAssumption /\ Engine!StepsAssumption
    /\ Registry!ServersAssumption /\ Lock!LockAssumption /\ Token!TokensAssumption

allVars == <<focus, vars, tokenVars, managerVars, dedupVars, checkpointVars, queueVars,
             schedulerVars, workflowVars, registryVars, lockVars, questionVars>>

Tables == {"board", "token", "manager", "dedup", "checkpoint", "queue",
           "scheduler", "workflow", "registry", "lock", "question"}

\* A workflow that is not explored has no dependencies.
TablesInit ==
    /\ focus \in Tables
    /\ Init /\ Token!Init /\ Manager!Init /\ Dedup!Init /\ Checkpoints!Init
    /\ Queue!Init /\ Scheduler!Init /\ Registry!Init /\ Engine!Init /\ Lock!Init /\ Question!Init
    /\ focus = "workflow" \/ (stopOnFailure /\ \A s \in Steps : dependsOn[s] = {})

Only(table) ==
    /\ focus = table /\ UNCHANGED focus
    /\ table # "board" => UNCHANGED vars
    /\ table # "token" => UNCHANGED tokenVars
    /\ table # "manager" => UNCHANGED managerVars
    /\ table # "dedup" => UNCHANGED dedupVars
    /\ table # "checkpoint" => UNCHANGED checkpointVars
    /\ table # "queue" => UNCHANGED queueVars
    /\ table # "scheduler" => UNCHANGED schedulerVars
    /\ table # "workflow" => UNCHANGED workflowVars
    /\ table # "registry" => UNCHANGED registryVars
    /\ table # "lock" => UNCHANGED lockVars
    /\ table # "question" => UNCHANGED questionVars

TablesNext ==
    \/ Only("board") /\ Next
    \/ Only("token") /\ Token!Next
    \/ Only("manager") /\ Manager!Next
    \/ Only("dedup") /\ Dedup!Next
    \/ Only("checkpoint") /\ Checkpoints!Next
    \/ Only("queue") /\ Queue!Next
    \/ Only("scheduler") /\ Scheduler!Next
    \/ Only("workflow") /\ Engine!Next
    \/ Only("registry") /\ Registry!Next
    \/ Only("lock") /\ Lock!Next
    \/ Only("question") /\ Question!Next

\* The threads that save checkpoints are alike.
Symmetry == Permutations(Threads)

TablesSpec == TablesInit /\ [][TablesNext]_allVars

-----------------------------------------------------------------------------
(* The properties of the instances; those of the blackboard are its module's own *)

\* A cancellation reaches every token below and runs every callback once.
CancelsOnceAndAll == Token!CancelsOnceAndAll

\* The error of a background task reaches its on_error.
ErrorsReported == Manager!ErrorsReported

\* A request is executed by one caller at a time.
ExecutedOnce == Dedup!ExecutedOnce

\* A session's checkpoints are in the order of their numbers, and all exist.
SessionConsistent == Checkpoints!SessionConsistent

\* A task of the swarm is given out when all it depends on was completed, and then.
BlockedUntilComplete == Queue!BlockedUntilComplete

\* A scheduled task is started once, when what it depends on was completed.
RunsOnceWhenReady == Scheduler!RunsOnceWhenReady

\* A step of a workflow runs on the results of the same execution.
RunsOnFreshResults == Engine!RunsOnFreshResults

\* A workflow that has ended says so.
EndsVisibly == Registry!EndsVisibly

\* Two servers hold a lock together only where one of them is doubtful.
ExclusiveWhileLeased == Lock!ExclusiveWhileLeased

\* A question is settled once, but for calls that had looked before.
SettledIsFinal == Question!SettledIsFinal
=============================================================================

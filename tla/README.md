# Nexus Swarm OS: a TLA+ verification of its core

Nexus Swarm OS is a Python program that lets several language-model agents work
on one task: a finite state machine asks them in turn, executes the tools they
request, and has every result judged by another agent. Around that machine stand
an interactive loop, a swarm engine, a multi-phase "hive mind", an evolution
subsystem that debates changes to the program itself, and a layer of asyncio
primitives and resilience services.

This directory holds TLA+ models of the core of it, translated from the code
under `src/core`, configurations for TLC, and proofs for TLAPS. `PROJECT.json`
maps every definition to the lines it stands for and lists runs, mutants,
findings, hazards and theorems; this file explains them.

Contents: [1 the system](#1-the-system) · [2 the models](#2-the-models) ·
[3 the runs](#3-the-runs) · [4 where code and documentation part](#4-where-code-and-documentation-part) ·
[5 the proofs](#5-the-proofs) · [6 what is not modelled](#6-what-is-not-modelled) ·
[7 the plan](#7-the-plan)

## 1 The system

### 1.1 Parts, their state and their operations

| Part | State | Operations | Status |
|---|---|---|---|
| Orchestrator FSM: `orchestration_v7.py`, `fsm/handlers/`, `fsm/panic_system.py`, `execution_pkg/orchestration/` | FSM state, active agent, pending tool result, parse/error/stalemate counters, panic flag, evolution permissions, last result | `process_turn` and one handler per state, `transition_to`, `reset_to_idle`, `start_swarm_mode` | partly modelled (not the asynchronous twin, nor what turns record), safety proved |
| REPL session: `interface/repl.py`, `evolution/phases/brainstorm.py`, `bootstrap/service.py`, `swarm/service.py` | turns left in the loop, `tool_active`, successful turns, the state to restore | type a task, `/reset`, `/evolve` and its extraction retries, bootstrap debate, `/swarm-fsm`, Ctrl+C | partly modelled (not the commands that only read), safety proved |
| Stagnation detector, agent registry | window of recent messages; agents in registration order | `add_message`, `is_stagnant`, `reset`; `get_next`, `get_alternate` | inside the FSM model |
| Read-write lock: `async_primitives/rwlock.py` | readers, writer flag, pending writers, wait queue | `read`, `write`, the timeout variants | modelled, safety and refinement proved |
| Blackboard: `async_primitives/blackboard.py` | per key: value, version, time to live | `set`, `update`, `update_if_fresh`, `get_or_set`, `get_with_version`, `compare_and_set`, `expire_if_version`, `delete`, `clear_expired` | modelled, safety proved |
| Circuit breakers: `resilience/circuit_breaker.py` | per breaker: state, failures, backoff, time of last failure; the hierarchy's recent failures | `call`, `call_sync`, `reset`, cascade detection | modelled, on one event loop and on threads; safety proved, refinement per provider |
| Driver failover: `drivers/failover_manager.py` | per driver: level, failures, time the circuit opened | `register`, `unregister`, `select_driver`, `record_success`, `record_failure` | modelled, safety proved |
| Cancellation tokens, task manager: `async_primitives/cancellation.py`, `safe_task_manager.py` | tree of tokens with callbacks; the tasks under way and their error callbacks | `cancel`, `create_child`, `on_cancel`, `remove_callback`; `create_task`, `cancel_all` | modelled, safety proved |
| Request deduplicator: `resilience/request_deduplicator.py` | entries by fingerprint, oldest first | `check`, `complete`, `fail`, `remove`, `cleanup_expired`, eviction | modelled, safety proved |
| Checkpoint manager: `resilience/checkpoint_manager.py` | checkpoints, the sessions' lists, sequence numbers, `index.json` | `create`, `rewind`, `delete`, save and load | modelled, safety proved |
| Hive mind: `intelligence/hive_mind/`, with `sync_bridge.py` | the phase, the saga with its flags and checkpoints, its file, the context window, the execution loop | `process_task`, the phases, checkpoint, rollback, resume | modelled (control), safety proved |
| Hive mind in a turn: `fsm/handlers/idle_waiting.py`, `orchestration_v7.py`, `repl.py` | the turn, the coroutine on the loop | route, wait with timeout, fall back | modelled |
| Evidence jobs: `interface_pkg/mcp/server.py` | per job: status, cancel event, future | `start_evidence_job`, `cancel_job`, the worker | modelled, safety proved |
| Swarm task queue, task scheduler, workflow engine: `swarm/task_queue.py`, `execution/task_scheduler.py`, `execution/workflow_engine.py` | tasks or steps with dependencies and statuses | enqueue, acquire, complete, fail; submit, next, start, clear; execute, retry, skip | modelled (the engine: one caller at a time), safety proved |
| Workflow registry: `workflow/redis_registry.py` under `api/cerebro/routes/workflow.py` | the record in Redis and in each server's memory | start, `update_status`, stop | modelled for one workflow, safety proved |
| Distributed lock: `workflow/distributed_lock.py` | the key in Redis, each object's `_acquired` | `acquire`, `release`, expiry | modelled, exclusion proved |
| Human in the loop: `interaction/hitl_persistence.py` | the row of a question | create, answer, cancel, clean up | modelled for one question, safety proved; the providers are not |
| Message protocol, agent lifecycle, event buses, token buckets, budget, swarm negotiation, the other MCP tools | windows, lifecycle states, subscribers, counters | route, transition, publish, acquire, spend, negotiate | not modelled, see section 7 |
| Drivers, tools, memory, security filters, routing, reasoning, code graph, HTTP API, UI, Rust kernel, utilities | files, network, text | — | not modelled, see section 6 |

`PROJECT.json` lists all 41 parts with their files.

### 1.2 How they interact

- The REPL (and the MCP server, and the evolution and bootstrap debates) *drive*
  the FSM by calling `process_turn` and looking at the **result**, never at the
  machine's state. Some of them also force the state from outside. That gap
  between result and state is where most of what can go wrong in the FSM lives.
- A turn of the FSM calls agents through `AgentInvoker`, which itself may move
  the machine to ERROR when the budget is spent and still return a message.
- `handle_idle` may hand the whole task to the hive mind or the swarm engine and
  wait for the outcome. In `OrchestratorFSM` each outcome is an alternative of the IDLE
  turn; `HiveBridge` models the waiting, and `HiveMind` what is waited for.
- The hive mind checkpoints into a saga, deduplicates the steps it executes with the request
  deduplicator, and is rolled back by the synchronization bridge.
- The workflow routes of the HTTP API run turns in background tasks and keep their status in the
  registry, which any server may read and change.
- `AsyncBlackboard` serialises its methods with `AsyncRWLock`; clients of the
  blackboard interleave between calls.
- `HierarchicalCircuitBreaker` puts one `CircuitBreaker` per provider under a
  global one. At this commit the async factory only *reads* provider states
  (`async_factory.py:455`, `:480`) and the hive orchestrator only *records* to
  the failover manager (`hive_mind/orchestrator.py:1118`); both classes are
  modelled as libraries, under any caller that uses their public methods. So are the primitives and
  tables without a caller that restricts them: cancellation tokens, task manager, deduplicator,
  checkpoints, queue, scheduler, workflow engine, distributed lock, persisted questions.

### 1.3 What is hard, and what makes each part correct

- **FSM.** Synchronous, so the difficulty is long sequences of legal turns: who
  holds the floor after two hand-overs made in different handlers, counters that
  some paths reset and others do not, a tool result left by a validation that
  raised, a panic declared in one object while the state lives in another.
  Correct: a result is owned and judged by somebody else, every failure is
  counted and acted upon at its limit, ERROR and PANIC are left by a reset only.
- **Session.** Drivers that are abandoned half-way (an exception, Ctrl+C, a
  retry). Correct: permissions granted for a debate end with it, every command
  gives the prompt back, and where the machine then stands can be explained.
- **Read-write lock.** Interleavings of wake-ups, cancellations and timeouts at
  every `await`. Correct: mutual exclusion, exact counters, no lost wake-up, no
  writer starved by readers.
- **Blackboard.** Read in one call, compared in another; removal and re-creation
  restart versions; expiry in between. Correct: compare-and-set loses no update,
  and of racing initialisers one creates the entry.
- **Breakers and failover.** Results that arrive when the circuit has changed
  since the call was admitted; several calls admitted to one half-open circuit; a global
  state that threads look at and write without its lock.
  Correct: exact thresholds, bounded and monotone backoff, and that no level of
  trouble is a dead end.

- **Hive mind.** Three steps per checkpoint (memory, file, flag) with crashes, exceptions and
  resumptions between them; a retry loop whose counter and bound live in different files; guards that
  exist and that nobody asks. Correct: what is flagged as done can be resumed, no phase is entered
  without the ones before it, every task is answered.
- **Event loop and threads.** A turn that waits for a coroutine of the loop it blocks; a job that is
  cancelled between being entered, submitted and stored. Correct: the prompt returns, a
  cancellation that was accepted is kept.
- **Tables.** State that is looked at in one call and acted upon in the next: a request that is
  executed while its entry expires, a task that is named and then started, a record that is read and
  written back, a row that is found pending and then written, a lease that runs out in its holder's
  hands. Lists that are changed while they are walked, files that are written while the tables
  change. Correct: one owner at a time, an order that is kept, an end that is seen - each
  up to exceptions that the property names exactly.

The 40 hazards in `PROJECT.json` name the lines, and the properties that would
notice; a note says which half of a hazard the properties leave open. Two have no property: the turns that
the MCP server runs on several threads (planned, section 7) and the headless provider's replies (each is
handled in one step of the event loop, section 6).

## 2 The models

One module per component; proofs in a module of their own; mutants stand directly
before the definition they are a broken variant of, under its name and a suffix.

| Module | Models | Uses |
|---|---|---|
| `OrchestratorFSM` | `process_turn` and everything it dispatches to | |
| `ReplSession` | the callers that drive it | extends `OrchestratorFSM` |
| `AbstractRWLock` | what a read-write lock promises | |
| `AsyncRWLock` | the lock | implements `AbstractRWLock` |
| `CircuitBreaker` | one breaker | |
| `HierarchicalBreaker` | breakers under a global one | an instance of `CircuitBreaker` per breaker |
| `FailoverManager`, `MCFailover` | the driver pool, and its TLC instance | |
| `Blackboard` | one key of the blackboard | |
| `SagaManager` | a saga's fields and the context window, as operators | |
| `HiveMind` | `process_task` through its phases | extends `SagaManager` |
| `HiveBridge` | the hive mind called from a turn, with and without an event loop | |
| `EvidenceJobs` | the MCP server's jobs and their pool | |
| `CancellationToken`, `SafeTaskManager` | cancellation, background tasks | |
| `RequestDeduplicator`, `CheckpointManager` | the tables of those names | |
| `SwarmTaskQueue`, `TaskScheduler`, `WorkflowEngine` | work with dependencies | |
| `WorkflowRegistry`, `DistributedLock`, `HITLPersistence` | what several servers or threads share | |
| `MCGuards`, `MCHive`, `MCTables` | sums of several modules for one run, see 3.4 | an instance of each |
| `OrchestratorFSMProofs`, `ReplSessionProofs`, `AsyncRWLockProofs`, `CircuitBreakerProofs`, `BlackboardProofs` | theorems about one module | that module and `TLAPS` |
| `MCGuardsProofs`, `MCHiveProofs`, `MCTablesProofs` | theorems about every module of a sum, and about the sum | the sum and `TLAPS` |

### 2.1 `OrchestratorFSM`

One step is one call of `process_turn`, `reset_to_idle` or `start_swarm_mode`, or one
transition that a caller forces (`_transition_to` from the evolution and bootstrap debates): the
code is synchronous and, in the REPL, nothing else touches the machine meanwhile.
What varies is the order of calls, what agents answer, which calls raise.

| Variable | Code |
|---|---|
| `state`, `agent` | `orchestrator.state`, `orchestrator.active_agent` (agents numbered in registration order, 1 is "gemini") |
| `evolutionMode` | `tool_manager.evolution_mode`, set by the hook in `transition_to` |
| `pending` | whose `pending_tool_result` is kept, or none |
| `toolReady` | the last message of the history carries a usable `tool_use` |
| `parseFailures`, `errors`, `stalemate`, `inPanic` | `json_parse_failures` and `PanicSystem`'s fields |
| `talk` | the stagnation window, as the length of its trailing run of similar messages (all that `is_stagnant` asks) |
| `turn` | `iteration`, modulo the period of the kernel check, its only use |
| `result` | what the caller sees: a state's name, FINISHED, or that the call raised |
| `forced` | history variable: a caller has forced the state since the last reset. What a debate or `/swarm-fsm` leaves behind breaks promises that hold of tasks, and the properties say which |

Each handler is a disjunct of `ProcessTurn`, each of its ends an action named for
it. `UserSpeaks` is what a message of the user does first, whatever the state; `ReopenDebate` and `ForceState` are what
callers outside do, and `Forces` is their disjunction. Agent answers, similarity of messages, verdicts of the guard, kernel integrity and
outcomes of the hive and the swarm are nondeterministic. Branches the code guards by a
condition that cannot hold (handlers' fallbacks for an engine that only its own caller
could have started; hibernation; the swarm handlers' missing engine) are left out, with
a comment where it matters. A turn may raise where the code has no `try`: in the validation before it (the context, of a `tool_use` or an
output that is null) and after it (a verdict whose `content` is null), once a tool result has been handed over, and in the swarm's engine.

### 2.2 `ReplSession`

`OrchestratorFSM!Next` lets callers force the state at any moment; here they do it where the code does.
The module extends the FSM by who is driving (`mode`), how many turns that driver has left, and
its local variables. The state is forced by the FSM module's own actions, `ForceState` (`brainstorm.run` and the
bootstrap service) and `ReopenDebate` (an extraction that is tried again), so that a session is one way of driving
the machine (theorem `SessionIsMachine`). Ctrl+C may hit any driver and leaves everything as
it is. `used` is a history variable: which interventions (a debate, `/swarm-fsm`,
Ctrl+C) there were since the last reset, so that the properties can say what explains a
state at the prompt.

### 2.3 `AsyncRWLock` and `AbstractRWLock`

A task suspends only inside `Condition.wait`, so the code from one wait to the next is
one step. `pc` distinguishes *asleep* from *woken*: a woken task re-reads the lock only
when the event loop runs it, and others may be faster. A cancellation or a timeout can
hit either. `NotifyOnCancel` is the one difference between asyncio versions that
matters: since 3.13 a cancelled `wait()` passes a notification on. The refinement maps
tasks inside `read()` and `write()` to the abstract lock's two sets.

### 2.4 `CircuitBreaker`, `HierarchicalBreaker`

The breaker's methods are operators on a record of its fields, so that the hierarchy
can reuse them for the global and for every provider's breaker through `INSTANCE`. `call()`
awaits between its check and its report: `Call`, then `Succeeds`, `Fails` or
`Cancelled`, in any state the circuit has reached by then. `wait` counts down the
backoff since the last failure. The hierarchy asks the global breaker first and the
provider's next; a refusal by the provider leaves what the global check has done. A behaviour
of `HierarchicalBreaker` is of one of two kinds (`threaded`). On one event loop `call()` runs: no `await` comes between
the two checks, which are one step, and `age` is `_recent_failures` reduced to what `_check_cascade` asks: who
has failed within the window. On threads `call_sync()` runs: the global state is looked at, asked and set to HALF_OPEN without its lock, so
`Looks`, `Asks`, `Writes`, `Enters`, `Returns`, `Closes` and `Notes` are steps of their own that other threads interleave with;
the list of recent failures is rewritten there without a lock, and whether it shows a cascade is left open.

### 2.5 `FailoverManager`

Every method holds one lock and is a step; a caller selects a driver, calls it, and
reports when the driver may have become anything, or be registered anew. Failures in a
row are not told apart beyond `Cap` (at least the threshold, so no comparison is
affected). Ages matter in `circuit_open` only.

### 2.6 `Blackboard`

One key: keys do not interact. Every method's critical section is a step; `get_or_set`
has two, and the pattern the module's documentation recommends, `get_with_version`
followed by `compare_and_set` or `expire_if_version`, spreads over two calls. `Expire`
is the passing of time. The ghost `missed` records, for each caller between its two
calls, how the writes it missed showed in the version: counted, not counted
(`update()`), or by restarting it (creation and removal).

### 2.7 `SagaManager`, `HiveMind`

`at` is the phase `process_task` is in and how far: `run` is the phase itself, `save` and `flag` are the
checkpoint's steps, with an `await` between each two; a consolidation that has removed the saga's file
has its answer still before it (`report`). A crash, an exception of any phase, or a cancellation by the user
may end the task at each of them. `saga` and `file` hold flags, checkpoints (each remembering the length of
the context window) and the recovery point; the file is replaced atomically (`os.replace`), which is one step.
A task may be resumed from its file, which brings back the flags but runs the phases again. `items` is the context
window: items carry the phase they come from and a priority, and the limit in tokens is a number of items.
The execution goes through the plan's steps in their order, each of which depends on the one before it;
its deduplicator's entries outlive the attempt. `Retry` counts in the retry phase, `Again` in `process_task`.

### 2.8 `HiveBridge`, `EvidenceJobs`

`HiveBridge` has the two REPLs, chosen initially. In the asynchronous one the turn blocks the loop's thread while it
waits for a coroutine scheduled on that loop, so no coroutine moves unless `LoopFree`; the timeout of
`result()` leaves the coroutine scheduled. `brain` records who worked on a task afterwards.
`EvidenceJobs` has one action per step of the starting thread (enter, submit, store), of the pool's thread (take, say so, end) and `Cancel`
between any two, with what `Future.cancel()` answers in each case.

### 2.9 The tables

| Module | State ↔ code | Worth knowing |
|---|---|---|
| `CancellationToken` | `own` = `_cancelled` of each token, `children`, `callbacks` = the lists | `cancel()` is a stack (`walk`) of positions in lists; callbacks are steps in which any method may be called |
| `SafeTaskManager` | `active` = `_active_tasks`; `called` = done-callbacks run | a task's end and its done-callback are two steps of the loop; `cancel_all` clears after its wait |
| `RequestDeduplicator` | `entries` = `_entries`; `older` = for each entry those made before it, by `created_at`; `doing` = what callers execute between `check` and the report | reports go by fingerprint alone; `lost` = executing callers whose entry expired, was evicted, removed or settled |
| `CheckpointManager` | `list`, `store`, `next` = `_sessions`, `_checkpoints`, `_sequences` of one session, `file` = what can be read of `index.json`; `save` = the save each thread is in | a save that reads the dictionary of checkpoints while others change it may find some of both states (`Torn`). A checkpoint is an id and a sequence number, so a list is a set in the order of its ids. The change is made under the lock; the save reads checkpoints, then the next number, then the list's text, then truncates and writes in place. `Restart` loads what it finds; what cannot be parsed is an empty file |
| `SwarmTaskQueue` | status, `depends_on` | readiness is recomputed when a dependency is completed, and only then |
| `TaskScheduler` | status by name; `picked` = what `next()` named | a name may be another task by the time of `start()` |
| `WorkflowEngine` | the steps' statuses, which outlive an execution; `taken` = how far the order is; `executing` = a call of `execute` is under way | all dependency graphs on three steps, cyclic ones and unknown names too. `execute` is synchronous and has no lock: one caller at a time. A KeyboardInterrupt leaves a running workflow that can be executed again |
| `WorkflowRegistry` | the status in Redis and in the servers' memories; `update` = the `update_status` each process is in | a call of Redis may fail at every step, or be obeyed and its answer lost; what is in memory is the object itself. The event sent after the last update may raise, which turns a completed workflow into a failed one |
| `DistributedLock` | `key` in Redis, `acquired`, `call` = which step of which method | errors count as success in `acquire`; a cancellation leaves `_acquired` |
| `HITLPersistence` | the row's status and whose answer it has; `call` = what each thread, having found it pending, is about to write | a commit may be refused, or be obeyed and not answered, or be followed by a refresh that raises: the exception is the caller's in each case |

Scores, priorities and ages that only order candidates are left out: any candidate may be taken, which allows every order.

## 3 The runs

`tlc -config <name>.cfg <Module>` for the pairs in `PROJECT.json`. Every property of a passing run has a mutant, a
plausible bug in a mapped definition under which TLC finds that property violated. Deadlock is checked where the system goes on for ever; `hive` and
`tables` end when the tasks, jobs, steps or requests they have are used up, and so does `bridge_two_engines`.

| Run | Module | States | What it shows |
|---|---|---|---|
| `fsm_turns` | `OrchestratorFSM` | 2 142 162 | With three agents, turns, resets, swarm mode and forced debates in any order: the permissions are held in the evolution debate only; no turn leaves ERROR or PANIC. Unless the state was forced since the last reset: too many errors have declared a panic, and a panic means PANIC; a tool result exists exactly while it is validated, by the agent after the requester, which is not the requester; one error halts |
| `session` | `ReplSession` | 377 330 | All commands and Ctrl+C: what explains the machine's state at the prompt, turns that raised included; only debates fill the stagnation window; every command gives the prompt back |
| `guards` | `MCGuards` | 49 190 | Three tasks that read, one that writes, one that does both, with cancellations at every wait: the refinement of the abstract lock, exact counters, no lost wake-up (3.13), sleepers woken and writers served. Breakers alone and in the hierarchy, with results in any state: closed exactly below the threshold (on threads, the global one is never closed at it), backoff in its limits, providers' breakers are breakers, the global one opens on a cascade only and is tried again. Failover with late results and drivers taken out and put back: levels match counts; an open circuit runs its time and is always tested |
| `hive` | `MCHive` | 74 898 | One task with two steps, crashes, resumptions, retries and rollbacks: guards kept although nobody asks them, flags backed by the file, the file kept until an attempt succeeds, every task answered. The prompt returns in both REPLs. A cancelled job stays cancelled |
| `tables` | `MCTables` | 2 072 171 | `get_or_set` replaces nothing that is live; compare-and-set loses no counted write and fails for a reason; cancellation reaches all, and runs each callback once; errors of background tasks are reported; a request is executed by one caller at a time; sessions are consistent across restarts; work is given out once, when its dependencies are completed; workflows end visibly; leases exclude; a question that a call has reported settled is written by calls that had looked before only |
| `fsm_two_agents`, `session_evolve_leaks`, `rwlock_lost_wakeup`, `failover_failing`, `blackboard_update`, `hive_rollback`, `bridge_two_engines` | | | the findings of section 4.1 |

### 3.1 Bounds, and why they are enough

- `NAgents = 3`: the smallest pool in which two hand-overs do not return to the start; 2
  is the pool the program ships with (`fsm_two_agents`). The theorems cover all others.
- Thresholds and window of 3 in `fsm_turns` (the code's values, but `MaxStalemate` is 5 there) and of 2 in the
  session let every counter be below and at each comparison; a counter is not told apart beyond `Cap`, which no threshold
  exceeds, so that evolution debates, which count parse failures and act on none, stay finite. `KernelPeriod = 2`
  (100 in the code) lets the kernel check fall on any handler.
- Session: loops of 3 turns and debates of 2 instead of 50 and 30. Both limits are
  reached, also together with the window near the end in which the loop asks the user
  (`left` 1 or 2), the first turn of a debate, later turns, and the last. The kernel check is off in this run: it is one more way into
  PANIC, which `fsm_turns` covers. `evolution_trigger_threshold` is 1, so that every counted
  success triggers.
- Lock: four readers, two writers, with one task in both roles, is enough for a reader and a
  writer woken by one release, each overtaken by a third task, and cancelled. Neither
  counters nor order of the wait queue are bounded otherwise.
- Breakers: `Recovery = 2`, `MaxBackoff = 5` let the backoff double and be clipped between
  powers; three calls let two late results meet a half-open circuit. Hierarchy: two providers, which make a cascade, two calls of each on the loop and
  one of each on threads (`Threads`): one thread that is about to write HALF_OPEN, one that closes the circuit. The longest backoffs are 2, so that they double once.
- Failover: threshold 3, the default: every level exists (with 2, `degraded` and `failing`
  collapse). Two drivers of different priority, two callers.
- Blackboard: versions up to 3 let a stale version be one or two behind, and be reached again
  after a removal. Three callers: one between its calls, one that interferes, one that
  races it.
- Hive mind: the code's limits (3 retries, 4 attempts) as they are, two steps (one that depends on the other), two
  crashes: a resumed task may crash again. In `hive` the context window holds one item and debates add none: no property of that run
  looks at it. `hive_rollback` has 4 items and debates of 2 turns, so that evictions move positions. `MCHiveProofs` covers all other values.
- Bridge: three tasks, so that a coroutine left by the first meets the second and the third. Jobs: three for a pool of two threads, so that one waits.
- Cancellation: a root and two tokens below it or each other, two callbacks: one that is walked, one that is registered or removed meanwhile.
- Task manager: two tasks and two calls of `cancel_all`, which may overlap.
- Deduplicator: a table of one entry for two requests and three callers: every second request evicts, and an entry can be lost, be given again and lost again.
- Checkpoints: two threads, two per session, three created: the limit drops one, rewinds meet lists with and without a gap, and saves overlap. The two threads are symmetric.
- Queue, scheduler, workflow: three tasks, names or steps with every dependency between them, which makes chains, forks, joins and cycles; limits of two, so that one is refused or evicted; two executions.
- Registry: two servers, two stops. Distributed lock: three objects with Redis (a late releaser, the next holder, and who would be let in wrongly) and one without. Questions: two calls that settle the row and the cleanup.

### 3.2 Fairness, and why the code justifies it

- Session: whoever drives takes its next turn. The loops are plain Python loops; nothing in them
  waits for anybody but the user, and typing is not assumed. The REPL's own loop is left out of the
  property: near its limit it asks the user, who may renew it for ever.
- Lock: `Resumes` - the event loop runs a task that is ready; and holders release - what every
  user of a lock has to do. Nobody is assumed to call `read` or `write`, and cancellations may
  happen or not. `SleepersAreWoken` additionally assumes the lock keeps becoming free, since
  `write` only promises priority over readers.
- Breakers and failover: time passes, a call that was made ends somehow, and somebody keeps
  calling: without traffic an open circuit stays open, by design. In the hierarchy that is `Tick`, somebody who calls, and somebody who gets on - not each single call.
- Hive mind: a task goes on. Every call of an agent has a timeout, and the user's answers at breakpoints come from callbacks
  that return. Starting a task, crashing, rolling back and exceptions are not assumed.
- Bridge: the turn's thread goes on, and so do coroutines while the loop is free. The loop is not free while the turn blocks it: that is the question.
- Jobs: the threads of the server and of the pool go on, and `build_evidence_pack` ends. Nobody is assumed to start or to cancel.
- The other runs are about safety and assume none. In the sums, fairness is asked of the part explored only (3.4).

### 3.3 Atomicity

A turn of the FSM is one step since the REPL calls it synchronously. That is not true of the MCP server, whose `send_turn` runs
turns on several threads over one orchestrator (`mcp/server.py:715`); that is a hazard with no model yet.
Asyncio code is one step between `await`s that can suspend: an uncontended lock does not. Critical
sections of the blackboard rest on the lock's mutual exclusion, which `AsyncRWLockProofs` proves. Code under a `threading.Lock` is one step,
and what it does outside of the lock (the checkpoints' save, the jobs' three steps) is not. A command of Redis and an SQL statement are one step each. Of the breakers,
what holds a breaker's lock is one step: that the hierarchy's unlocked HALF_OPEN may land in the middle of the global breaker's `_on_failure` is not split further.

### 3.4 Sums of modules

`MCGuards`, `MCHive` and `MCTables` put modules that share no state into one specification: each initial state has a `focus`, and
only the module in focus takes steps, so that the state graph is the disjoint union of the modules' own graphs. A property
of one module is a property of its part, and holds trivially of the others', where its variables stay as they were initially. Fair actions are
guarded by the focus, or are not enabled in the initial state, so that nothing is asked of a module at rest. The
module a sum extends gives its properties directly, those of the others are named after them.

## 4 Where code and documentation part

### 4.1 With a run

1. **The two shipped agents validate their own tools** (`fsm_two_agents`,
   `validating_cfl.py:30`). The floor is handed over in `handle_executing_tool` and the "opposite" agent is
   asked for again in `handle_validating_cfl`. With two agents that is the requester. Theorem
   `SelfValidation` shows that with two agents it *always* is; `CrossValidation` that with more
   than two it never is.
2. **`/evolve` can leave the extended permissions granted** (`session_evolve_leaks`,
   `brainstorm.py:220`). The extraction's retries re-enter the debate after the state was restored, and
   nothing restores it again; so does a turn that raises.
3. **A reader can sleep beside a free lock** (`rwlock_lost_wakeup`, `rwlock.py:104`). A writer that gives up
   stops being pending and tells nobody. With asyncio before 3.13 nobody else does either.
4. **A failing driver never comes back** (`failover_failing`, `failover_manager.py:348`). It is not
   available, and the timeout check looks at open circuits only.
5. **`update()` is invisible to compare-and-set** (`blackboard_update`, `blackboard.py:184`): it keeps the
   version.
6. **A rollback can keep what it rolls back** (`hive_rollback`, `saga_manager.py:575`). A checkpoint remembers a position in the context window;
   evictions move the items, and the truncation then keeps some that came later.
7. **The fallback works while the hive may still** (`bridge_two_engines`, `idle_waiting.py:358`). The comment says the fallback follows an error of the
   hive mind. In the asynchronous REPL the hive cannot even start before the timeout: the coroutine stays scheduled, the swarm takes the task, and the hive
   begins it afterwards.

### 4.2 Seen while modelling, modelled as the code does it

- With the fast path enabled, a trivial task raises: `_handle_fast_path` is not defined (`idle_waiting.py:129`).
- A verdict whose `content` is null, which `protocol_v7.py:34` allows, raises at `validating_cfl.py:54`, after the handler's `try`; a tool output or `tool_use` that
  is null raises before it, when the context is built (`context_builder.py:157`). The machine is left in VALIDATING_CFL at the prompt with the result pending: what the user types next
  is not taken up, the validation is repeated. `PromptAfterTask` says so.
- A tool result that cannot be formatted raises after the floor was handed over and the state moved (`executing_tool.py:44`).
- What the swarm engine raises (`hybrid_swarm_engine.py:601`) passes through the handlers and leaves the machine in a swarm state.
- The stalemate counter survives a new task (`idle_waiting.py:118`): failed validations of different tasks add up.
- The stagnation window is shared by all debates and no finished debate empties it (`fsm/handlers/evolution.py:39`); within a
  task it is emptied at every hand-over, so stagnation is never detected in BRAINSTORMING by its own messages.
- `/swarm-fsm` moves the machine and then calls `orchestrator.step()`, which does not exist (`swarm/service.py:180`).
- The REPL counts a panic as a successful turn (`repl.py:257`).
- Forcing the state takes the machine out of PANIC with `is_in_panic` still set (`error.py:21`).
- The panic after three consecutive errors cannot be reached by typing tasks: the first error halts the machine,
  and the reset that follows clears the count (`ErrorsHalt`).
- A tool request without a tool stays in EXECUTING_TOOL and raises on every turn; a later debate may leave a message
  whose tool is then executed there.
- Over budget, the invoker moves the machine to ERROR while the handler goes on with the returned message
  (`agent_invoker.py:170`).
- `can_transition` looks for a state among the event names that are a dictionary's keys and so allows nothing
  (`state_handler.py:235`); no transition asks it.
- `record_failure`'s docstring has a degraded driver fail at the threshold (`failover_manager.py:307`); the code does it as soon as half the threshold is passed (`:345`), so a driver is degraded for
  one failure only. `LevelsMatchCounts` states what the code does.
- A recovering driver is closed by any success, also by one of a call that was made before its circuit opened (`failover_manager.py:288`).
- On threads, HALF_OPEN may be written over a global circuit that was closed since it was looked at (`circuit_breaker.py:424`): one failure then opens it, with no other counted.
- A half-open breaker lets every call through (`circuit_breaker.py:64`, `:160`), a recovering driver takes every
  call (`failover_manager.py:402`).
- A cascade adds one failure to the global breaker instead of tripping it, and nothing but a success in HALF_OPEN
  takes failures back: cascades days apart add up to the threshold (`circuit_breaker.py:396`).
- The global circuit becomes half open before the provider is asked; a refusal leaves it there (`circuit_breaker.py:373`).
- An expired entry reads as version 0 and is compared by its old version, so that the recommended retry loop fails until it
  is removed (`blackboard.py:345`); `get_or_set` restarts versions (`blackboard.py:222`), and so does deleting and writing again.
- After a writer gives up, readers that waited for it stay asleep until the last active reader leaves (`rwlock.py:104`).
- The asynchronous turn answers a fast-path task with WAITING_USER, which the REPL's loop does not take for an end (`orchestration_v7.py:695`).
- The hive's result `failure` is dead: a failed execution never reaches the consolidation, because the retries are used up one attempt before the loop
  is (theorem `GuardsAlwaysKept` under `LimitsFit`). `can_enter_phase` and `PHASE_GUARDS` have no caller.
- An execution whose steps were skipped, or whose budget ended before the first of them, has no step in error and counts as a success (`phase_execution.py:478`).
- An `emit` that raises when a task has succeeded has it answered as failed, with its saga's file gone (`orchestrator.py:1131`).
- Two `process_task` calls on one hive mind share `self._saga` (`orchestrator.py:551`).
- `fail()` of the deduplicator promises that a request can be retried, but `check()` answers "duplicate" until the entry expires (`request_deduplicator.py:190`).
  At its limit the table drops the oldest entry, pending or not (`:326`).
- `on_cancel` asks the token's own flag, `is_cancelled` its parents' too: a callback given to a token created below a cancelled one is never run (`cancellation.py:155`).
- `cancel_all` clears whatever there is after its wait: tasks created meanwhile and tasks that outlived the timeout go unseen (`safe_task_manager.py:183`).
- `rewind()` takes the next sequence number from a position in the list; after a deletion or the limit per session numbers are given twice (`checkpoint_manager.py:341`).
- A torn `index.json` is answered with an empty manager: all checkpoints are forgotten (`checkpoint_manager.py:457`).
- The save reads checkpoints, next number and list one after the other while other threads change them, so that a file may mix
  states and a later restart load a list and a next number that do not fit (`checkpoint_manager.py:453`). `SessionConsistent` promises an order of unmixed files only.
- A task of the swarm that is queued after everything it depends on was completed waits for ever (`task_queue.py:175`), and so does one whose completed
  dependency was evicted (`:190`) or, in the scheduler, cleared (`task_scheduler.py:373`).
- Steps on or behind a cycle, or behind a name that no step has, are left out of a workflow's order without a word, and the workflow completes
  (`workflow_engine.py:415`). A skipped step satisfies what depends on it. A second execution starts with the statuses of the first (`:275`).
- The scheduler's own usage example completes tasks without `start()` (`task_scheduler.py:23`): two workers that use it so may run the same task. `RunsOnceWhenReady` counts calls of `start()`.
- A workflow that has completed becomes a failed one when the event that follows raises (`routes/workflow.py:186`).
- Of a stop and an end of a workflow at the same time the later write wins (`redis_registry.py:267`); after an outage of Redis the newer record is in one server's memory
  and the older one in Redis, which is asked first (`:299`).
- An error of Redis counts as acquiring the distributed lock (`distributed_lock.py:113`), on purpose; `extend()` that finds the key gone leaves `_acquired` set.
- Two answers, or an answer and a cancellation, that find a persisted question pending both report success, and the later one's status stays
  (`hitl_persistence.py:150`); a cancellation that overwrites an answer leaves the answer's column. An overdue question can still be answered until the cleanup has run.

## 5 The proofs

All checked by TLAPS (SMT/Z3, Zenon, LS4 for temporal steps) for every value of the constants that satisfies the
named assumptions, which TLC evaluates on the runs:

| Assumption | Of | Says |
|---|---|---|
| `AgentsAssumption`, `BoundsAssumption`, `SwitchAssumption` | FSM | at least two agents; thresholds above 1 or 0 as stated and not above `Cap`; switches are Booleans |
| `TasksAssumption`, `NotifyAssumption` | lock | the sets of tasks are finite |
| `CommandsAssumption`, `LoopAssumption` | session | which commands there are; the loop is longer than 2 turns |
| `HiveAssumption`, `ItemsAssumption` | hive mind | limits and bounds are numbers |
| `BreakerAssumption`, `CascadeAssumption`, `PoolAssumption` | breakers, failover | thresholds are positive, `Cap` and the longest backoff not below what they cap, times and priorities are numbers; the calls on threads are among the calls |
| `BoardAssumption`, `LockAssumption`, `ServersAssumption`, `StepsAssumption`, `TokensAssumption` | tables | values that stand for nobody or nothing are not members of the sets they are told from; the workflow's server is one of the servers; the root is a token; the blackboard's writes are among those it has |

Modules that are only instantiated state theirs as definitions, and the sums assume them of their instances (`InstancesAreAssumed`).
Two further hypotheses are no assumptions of a module but of single theorems: `LimitsFit` (fewer retries than attempts; the code has 3 and 4) of
`GuardsAlwaysKept`, and `NotifyOnCancel` (asyncio since 3.13) of
`NoTaskForgotten`. `CrossValidation` and `SelfValidation` are about more than two agents and about two.

| Module | Inductive invariant | Theorems |
|---|---|---|
| `OrchestratorFSMProofs` | `Sound /\ (~forced => Calm)` | `TypeCorrect`, `PermissionsExact`, `ErrorsPanic`, `PanicSafe`, `ResultsOwned`, `ErrorsAlwaysHalt`, `CrossValidation`, `SelfValidation`, `OnlyResetRecovers` |
| `ReplSessionProofs` | `SInv`: the machine's, and what explains the state here, and the state that was put aside | `SessionIsMachine`, `PromptExplained`, `StagnationExplained`, `PermissionsFromDebates`, `SessionRecovers` |
| `AsyncRWLockProofs` | type, exact counters, exclusion, a sleeping writer has a holder, and (where asyncio notifies) no lost wake-up | `CountersAlwaysExact`, `WriterHasHolder`, `NoTaskForgotten`, `Implementation` |
| `CircuitBreakerProofs` | the circuit is `Good`: typed, exact, bounded | `BreakerGood`, `BackoffOnlyGrows` |
| `MCGuardsProofs` | `PoolInv`: every level matches its count. `HierarchyInv`: the global breaker and every provider's is `Good`; on threads, the global one is bounded and not closed with a full count | `LevelsAlwaysMatch`, `OpenCircuitsRunTheirTime`, `HierarchyKeepsCount`, `ProvidersImplementBreakers`, `GlobalOpensOnCascades`, `EveryBreakerKeepsCount`; of the sum, `GuardsSafe` |
| `BlackboardProofs` | every caller between two calls knows its version: what it missed explains how the version differs | `CasLosesNothing`, `CasFailsOnConflict`, `GetOrSetCreatesOnce` |
| `MCHiveProofs` | `IInv`: what is flagged is backed, what a rollback cuts is backed, a phase about to be flagged is in the file. `GInv`: types, and what each point of a task implies of flags and retries. `JobInv`: a status is final exactly when the pool is done with the job | `SagaForgetsNothing`, `FileOutlivesFailures`, `GuardsAlwaysKept`, `CancelledIsFinal`; of the sum, `HiveSafe` |
| `MCTablesProofs` | one for each table, see below | `QueueBlocks`, `SchedulerRunsOnce`, `EngineRunsFresh`, `LeasesExclude`, `SettledByLookers`, `ManagerReports`, `RegistryEndsVisibly`, `DedupExecutesOnce`, `CheckpointsConsistent`, `TokenCancelsAll`; of the sum, `TablesSafe` |

**FSM.** `Sound` (types, exact permissions, declared panics) holds however the machine is driven; `Calm` holds from a reset until a caller
forces the state. `Sound` is proved by one lemma per kind of variable (every operation makes one transition or none, reports a result,
passes the floor to a registered agent, counts or clears), `Calm` by one lemma per handler. `ErrorsHalt` alone is not inductive: an error could be
counted in a state that goes on. `Driven` (turns and resets enter neither swarm nor evolution states) and "a parse failure leaves the
machine halted" close it. `ResetCalms` is where the two meet: a reset needs `EvolutionModeExact` to be sure that it withdraws the
permissions. `CrossValidation` is `ValidationOrder` plus the arithmetic of two hand-overs (`TwoHandOvers`).

**Session.** Every step of the session is a step of the machine or leaves it alone (`SessionSteps`), so the machine's theorems hold in a
session, and the session's invariant may use the machine's. `PromptAfterTask` speaks of the prompt only and is not inductive: the state is
explained wherever a command may end, and the one that `brainstorm.run` has put aside must be too, since it is restored. What a turn may
do is one lemma, whoever drives it: a result that ends the loop stands for a machine at rest, a turn that raises leaves it where it can be
explained (a validation that broke keeps the result it was to judge), and no turn opens a debate (`TurnTells`).

**Lock.** `NoLostWakeup` needs the counters exact (so that a release that frees the lock is recognised), and needs
`WriterSleepsBehindHolder`: when a woken task goes back to sleep because a writer is pending, that writer is woken itself or has a
holder. The finite-set lemmas say how cardinalities change as one task moves. `Implementation` maps each step: taking the
lock to `Read`/`Write`, a release to `Leave`, everything else to a stutter.

**Breaker and hierarchy.** The three results of a call act on a circuit that may be in any state, so the invariant is about the record alone, and
each method is shown to keep `Good`. The hierarchy uses those lemmas for the global breaker and for any provider's, with their own
constants. On threads the global breaker's state is written from outside of its methods; what is left of `Good` is that the record is bounded, and that a closed circuit has not counted
up to the threshold: a circuit closes with its count cleared, and HALF_OPEN is written over whatever it was (`ThreadGlobal`). `ProvidersImplementBreakers` maps each step of the hierarchy, for each provider: a refusal by the global breaker to a stutter, a cascade's effect on
the global one to nothing, a reset of all to a reset.

**Failover.** A driver is healthy only below half the threshold, and degraded exactly at it. This is needed in every level's
next step and says that no level is skipped. `OpenCircuitsRunTheirTime` follows step by step: a late success is ignored by an open circuit, a late failure does not touch its clock.

**Blackboard.** A caller that has missed no restart holds a version not above the current one, and strictly below as soon as it missed a
counted write. So a version that still matches has missed none; and one that does not match was overtaken, or met an expired
entry. `update()` breaks neither, which is why it goes unnoticed (4.1). `CreatedOnce` needs the second look of `get_or_set`, under the write lock, and no invariant beyond types.

**Hive mind.** `DurableFirst` says that flags are backed by checkpoints, in memory and in the file. A rollback removes checkpoints and flags in memory first, so the
invariant adds that what is left is backed and that a rollback under way has a checkpoint to return to; a checkpoint's flag is set two
steps after the checkpoint was stored, so it adds that the checkpoint is still there. `GuardsKept` needs, for each phase, which flags the way to it has
set, and for the consolidation after a failure that the attempts have ended while the retries had not, which `LimitsFit` excludes.

**Jobs.** That a final status stays needs the pool: what could overwrite it is the thread that says "running" whatever was asked, and a job it still
has is not final.

**Tables.**
- Queue: what the queue remembers as completed still is, or left as completed. So a dependency is completed, dropped, or what a blocked task waits for.
- Scheduler: a task that may start has started never, and its dependencies have completed, even if they were cleared since (`done`).
- Workflow engine: the step under way is the one taken and not settled, and what it depends on is settled.
- Task manager: what a `cancel_all` will clear after its wait, it waits for, or was created meanwhile.
- Registry: which writes an update under way still has before it, and that the end of the workflow is among them until it shows.
- Deduplicator: who executes and has lost nothing owns the entry of its request, and an entry has one owner.
- Distributed lock: who is inside, or was just let in, owns the key or is doubtful; the key has one owner.
- Questions: once somebody has reported success the row is neither absent nor pending, and stays so; whoever writes later had looked before.
- Checkpoints: memory, the file, and each save under way as far as it has read, are in order or known to be mixed or shifted. The order is kept by each method
  under its exception, and what a save reads after it was overtaken is marked.
- Cancellation: the longest of the proofs, since `cancel()` walks lists that callbacks change under it. `WalkedOnce`: each token is in the walk
  once. `Descends`: below a cancelled token every child is cancelled, came late, or is ahead of the walk's position. `RunAll` and `RunOnce` say the same of callbacks. A position in a list means the same
  entry later only because lists grow at their end while they are walked, and a removal behind or ahead of a position is one the property names (`cut`).

**Sums.** A step of a sum is a step of one module and leaves the others alone, so its behaviours are behaviours of each (`SumRunsGuards`,
`SumRunsHive`, `SumRunsTables`), and `GuardsSafe`, `HiveSafe` and `TablesSafe` state of the specifications that TLC runs what it checks of their safety, for any constants.

Every invariant and every action property of a passing run is a theorem (of `CancelIsKept` the conjunct `EndedStays`). Only model-checked is
liveness: `DrivenToPrompt`, `SleepersAreWoken`, `WriterServed`, `GlobalIsProbed`, `OpenIsTested`, `Answered`, `PromptReturns`, and
of `CancelIsKept` that a cancelled job ends. It rests on fairness and so on `ENABLED`, which is out of the prover's reach.

## 6 What is not modelled, and why

- `/workspace switch`, which writes `orchestrator.state` past `transition_to` (`repl.py:1045`): the command imports a package that does not
  exist at this commit and ends there.
- The asynchronous twin `process_turn_async`, except for its way into the hive (`HiveBridge`), and the parts of turns that only record (memory, telemetry, logs).
- The Python 3.11 implementation of `wait_for`, which runs the wait in a task of its own. No caller uses the lock's timeout
  variants; the timeout is modelled as a cancellation.
- The order in which waiting tasks are woken: `notify_all` wakes all of them, and the event loop's order is not relied upon.
- Keys of the blackboard together: a snapshot is a read under the lock.
- Drivers, tools, security filters, memory stores, code graph, HTTP API, UI: wrappers of I/O, or functions of text and numbers without
  a protocol. What they decide is a nondeterministic choice where the models meet it.
- The bodies of the hive's phases: what agents answer, how plans are drawn up and issues are classified, are choices of `HiveMind`'s actions. The swarm's negotiation and mode
  selection are scores; its outcome is a choice of the IDLE turn.
- `extend()` of the distributed lock moves a time that may run out at any moment here. Commands of Redis that are obeyed after their caller has given up.
- The providers of questions, and the quality tracker. The command line blocks. The headless provider handles each reply in one step of the loop, so that nothing can come between its look and
  its answer: a reply before the future is registered is refused (`headless_provider.py:184`), and one in the same pass of the loop as the timeout is accepted and, since Python 3.12, not returned.
- Executions of one workflow by several callers at once: `WorkflowEngine` has no lock and no guard against it (`workflow_engine.py:297`), nor a caller that does it.
- `fsm_handlers.py`, the handlers' monolithic predecessor, which nothing but imports reaches.
- Routing, reasoning, fitness, health and resilience statistics: scores nobody's state depends on.
- The components planned below.

## 7 The plan

Done, in this order: the FSM and its drivers (the behaviour every use of the program goes through), the lock, breaker and hierarchy,
failover, blackboard; then the hive mind with its saga, the bridge, the jobs, the tables, the
distributed lock and the questions to the user; then the proofs of the session, the hierarchy, the jobs, every table, and the three sums.

Next, by how much of the system rests on it:

1. MCP turns over one shared orchestrator: the turn split at the points where two threads can meet, beside the whole turn that it should implement.
2. Event buses: subscription and removal while a publication is under way; the Redis bus, with what it loses when it reconnects.
3. Swarm negotiation and the fallbacks of the async driver factory; message deduplication and routing; agent lifecycle; token buckets, the concurrency limiter with its two semaphores; the budget.

Theorems: every safety and action property that a passing run checks is proved. Left to prove are refinements that no run asks
yet: of each table to what it promises its callers (a table that gives work out once), and, with item 1, of the split turn to the whole.
Related questions about one component share a run, and components that share no state a sum.

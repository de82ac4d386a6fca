--------------------------- MODULE OrchestratorFSM ---------------------------
(***************************************************************************)
(* The orchestrator's finite state machine: OrchestratorV7.process_turn,   *)
(* the handler it dispatches to in each state, PanicSystem's counters and  *)
(* StateHandler's transitions and reset.  One step is one whole call of    *)
(* process_turn, reset_to_idle or start_swarm_mode, or a transition forced *)
(* by a caller: the machine is synchronous, so what varies is the order of *)
(* the calls, what the agents answer and which of their calls raise.       *)
(*                                                                         *)
(* Agents are numbered in registration order; 1 is "gemini", the agent     *)
(* the code falls back to by name.                                         *)
(***************************************************************************)
EXTENDS Integers

CONSTANTS NAgents,           \* agents with a registered driver
          MaxParseFailures,  \* orchestrator.max_parse_failures
          MaxErrors,         \* the 3 of PanicSystem.record_error
          MaxStalemate,      \* PanicSystem.max_stalemate
          Window,            \* StagnationDetector.window_size
          KernelPeriod,      \* turns between two kernel integrity checks
          Cap,               \* model bound: a counter's values from Cap on are one
          KernelOn,          \* KERNEL_AVAILABLE
          FastPathOn,        \* config.fast_path_enabled
          SwarmOn,           \* an engine is installed as orchestrator.swarm_engine
          HiveOn             \* HIVE_MIND_AVAILABLE and config.hive_mind_enabled

ASSUME AgentsAssumption == NAgents \in Nat /\ NAgents >= 2
ASSUME BoundsAssumption ==
    /\ MaxParseFailures \in Nat /\ MaxParseFailures > 1
    /\ MaxErrors \in Nat /\ MaxErrors > 1
    /\ MaxStalemate \in Nat /\ MaxStalemate > 0
    /\ Window \in Nat /\ Window > 1
    /\ KernelPeriod \in Nat /\ KernelPeriod > 0
    /\ Cap \in Nat /\ \A n \in {MaxParseFailures, MaxErrors, MaxStalemate} : n <= Cap
ASSUME SwitchAssumption == {KernelOn, FastPathOn, SwarmOn, HiveOn} \subseteq BOOLEAN

Agents == 1 .. NAgents
Gemini == 1

States == {"IDLE", "BRAINSTORMING", "EXECUTING_TOOL", "VALIDATING_CFL",
           "EVOLUTION_BRAINSTORM", "WAITING_USER", "ERROR", "PANIC",
           "SWARM_ANALYZING", "SWARM_NEGOTIATING", "SWARM_EXECUTING"}

\* What a turn reports: a state's name, FINISHED, or that the call raised.
Results == States \cup {"FINISHED", "RAISED"}

NoTool == 0

VARIABLES state,          \* orchestrator.state
          evolutionMode,  \* tool_manager.evolution_mode
          agent,          \* orchestrator.active_agent
          pending,        \* who requested pending_tool_result, or NoTool
          toolReady,      \* the last message in history carries a usable tool_use
          parseFailures,  \* orchestrator.json_parse_failures
          errors,         \* panic_system.consecutive_errors
          stalemate,      \* panic_system.stalemate_counter
          inPanic,        \* panic_system.is_in_panic
          talk,           \* trailing mutually similar messages in the stagnation window
          turn,           \* orchestrator.iteration modulo KernelPeriod
          result,         \* the "state" and "finished" of the last result
          forced          \* ghost: since the last reset, a caller forced the state

vars == <<state, evolutionMode, agent, pending, toolReady, parseFailures, errors,
          stalemate, inPanic, talk, turn, result, forced>>

counters == <<parseFailures, errors, stalemate>>
dialogue == <<agent, pending, toolReady>>

TypeOK ==
    /\ state \in States
    /\ evolutionMode \in BOOLEAN
    /\ agent \in Agents
    /\ pending \in Agents \cup {NoTool}
    /\ toolReady \in BOOLEAN
    /\ {parseFailures, errors, stalemate} \subseteq 0 .. Cap
    /\ inPanic \in BOOLEAN
    /\ talk \in 0 .. Window
    /\ turn \in 0 .. (KernelPeriod - 1)
    /\ result \in [state : Results, finished : BOOLEAN]
    /\ forced \in BOOLEAN

Init ==
    /\ state = "IDLE" /\ evolutionMode = FALSE /\ agent = Gemini
    /\ pending = NoTool /\ toolReady = FALSE
    /\ parseFailures = 0 /\ errors = 0 /\ stalemate = 0 /\ inPanic = FALSE
    /\ talk = 0 /\ turn = 0
    /\ result = [state |-> "IDLE", finished |-> FALSE] /\ forced = FALSE

-----------------------------------------------------------------------------
(* Helpers *)

\* unified_registry.get_next and, with two or more drivers, get_alternate:
\* round robin in registration order.
GetNext(a) == (a % NAgents) + 1

\* One more failure.
Counted(n) == IF n < Cap THEN n + 1 ELSE n

Report(s, f) == result' = [state |-> s, finished |-> f]

\* The turn raised: no result; the caller sees the exception.
Raises == Report("RAISED", FALSE)

\* Mutant: the permissions are granted but never withdrawn.
TransitionTo_NeverWithdraws(s) ==
    /\ state' = s
    /\ evolutionMode' = (evolutionMode \/ s = "EVOLUTION_BRAINSTORM")

\* StateHandler.transition_to, with the evolution-mode hook that grants the
\* extended tool permissions on entry and withdraws them on the way out.
TransitionTo(s) ==
    /\ state' = s
    /\ evolutionMode' = IF s = "EVOLUTION_BRAINSTORM" THEN TRUE
                        ELSE evolutionMode /\ state # "EVOLUTION_BRAINSTORM"

Stay == UNCHANGED <<state, evolutionMode>>

\* StagnationDetector.add_message: the new message either repeats the trailing
\* run of similar ones or starts a run of its own.
AddMessage(n) == {1} \cup (IF n = 0 THEN {} ELSE {IF n < Window THEN n + 1 ELSE n})
IsStagnant == talk >= Window

\* PanicSystem.record_error has seen one error too many.
ErrorPanic == errors' >= MaxErrors

-----------------------------------------------------------------------------
(* What process_turn does before it dispatches *)

\* The iteration is counted; no turn is a caller's intervention.
Tick == turn' = (turn + 1) % KernelPeriod /\ UNCHANGED forced

\* Every KernelPeriod-th turn re-checks the kernel; a violation panics the FSM.
KernelViolation ==
    /\ KernelOn /\ (turn + 1) % KernelPeriod = 0
    /\ Tick
    /\ TransitionTo("PANIC") /\ Report("PANIC", TRUE)
    /\ UNCHANGED <<dialogue, counters, inPanic, talk>>

\* The input guard looks at input only where input is expected, and blocks
\* without a transition.
GuardBlocks(input) ==
    /\ input /\ state \in {"IDLE", "WAITING_USER"}
    /\ Tick
    /\ Stay /\ Report(state, FALSE)
    /\ UNCHANGED <<dialogue, counters, inPanic, talk>>

-----------------------------------------------------------------------------
(* IDLE and WAITING_USER *)

\* The ends of handle_idle that do not start a debate.  None but a completed
\* hive run makes a transition, whatever state the result names.
AnswerTrivial ==
    /\ TransitionTo("IDLE")
    /\ IF FastPathOn THEN Raises ELSE Report("WAITING_USER", TRUE)

HiveEnds ==
    /\ HiveOn
    /\ \/ TransitionTo("WAITING_USER") /\ Report("FINISHED", TRUE)
       \/ TransitionTo("IDLE") /\ Report("WAITING_USER", TRUE)
       \/ TransitionTo("IDLE") /\ Report("ERROR", FALSE)

SwarmCompletes ==
    /\ SwarmOn
    /\ TransitionTo("IDLE") /\ Report("WAITING_USER", TRUE)

\* Only the direct route to the debate resets the stagnation window; the
\* fallback after a hive exception does not.
StartBrainstorm(n) ==
    /\ TransitionTo("BRAINSTORMING") /\ Report("BRAINSTORMING", FALSE)
    /\ agent' = Gemini
    /\ talk' \in IF HiveOn THEN {0, n} ELSE {0}

\* handle_idle on a new input, with a stagnation window of n messages.
RouteTask(n) ==
    /\ \/ (AnswerTrivial \/ HiveEnds \/ SwarmCompletes) /\ UNCHANGED agent /\ talk' = n
       \/ StartBrainstorm(n)
    /\ UNCHANGED <<pending, toolReady, parseFailures, stalemate, inPanic>>

AwaitInput(input) ==
    /\ state \in {"IDLE", "WAITING_USER"} /\ ~input
    /\ Tick /\ Stay /\ Report(state, FALSE)
    /\ UNCHANGED <<dialogue, counters, inPanic, talk>>

HandleIdle(input) ==
    /\ state = "IDLE" /\ input
    /\ Tick
    /\ RouteTask(talk)
    /\ UNCHANGED errors

\* A new input restarts the iteration count and the error count, then recurses
\* into process_turn, which counts the first iteration.
HandleWaitingUser(input) ==
    /\ state = "WAITING_USER" /\ input
    /\ turn' = 1 % KernelPeriod /\ UNCHANGED forced
    /\ RouteTask(0)
    /\ errors' = 0

-----------------------------------------------------------------------------
(* BRAINSTORMING *)

Brainstorming == state = "BRAINSTORMING" /\ Tick

\* _handle_stagnation: hand over to gemini and go on.
BreakStagnation ==
    /\ Brainstorming /\ IsStagnant
    /\ agent' = Gemini /\ talk' = 0
    /\ Stay /\ Report("BRAINSTORMING", FALSE)
    /\ UNCHANGED <<pending, toolReady, counters, inPanic>>

\* Mutant: a failed invocation stays in the debate.
BrainstormFails_GoesOn ==
    /\ Brainstorming /\ ~IsStagnant
    /\ parseFailures' = Counted(parseFailures)
    /\ errors' = Counted(errors)
    /\ inPanic' = (inPanic \/ ErrorPanic)
    /\ Stay /\ Report("BRAINSTORMING", FALSE)
    /\ UNCHANGED <<dialogue, stalemate, talk>>

\* The invocation, or the validation of its answer, raised; or the answer was valid
\* but without content, and the failure is the first since the counts were cleared.
BrainstormFails ==
    /\ Brainstorming /\ ~IsStagnant
    /\ \/ parseFailures' = Counted(parseFailures) /\ errors' = Counted(errors)
       \/ parseFailures' = 1 /\ errors' = 1
    /\ inPanic' = (inPanic \/ ErrorPanic)
    /\ IF ErrorPanic \/ parseFailures' >= MaxParseFailures
       THEN TransitionTo("PANIC") /\ Report("PANIC", TRUE)
       ELSE TransitionTo("ERROR") /\ Report("ERROR", FALSE)
    /\ UNCHANGED <<dialogue, stalemate, talk>>

\* A valid answer resets both error counters before it is looked at.
AgentAnswers ==
    /\ Brainstorming /\ ~IsStagnant
    /\ parseFailures' = 0 /\ errors' = 0
    /\ UNCHANGED <<pending, stalemate, inPanic>>

\* A tool request; one whose tool_use field is missing is still accepted.
RequestTool ==
    /\ AgentAnswers
    /\ TransitionTo("EXECUTING_TOOL")
    /\ toolReady' \in BOOLEAN
    /\ \/ Report("EXECUTING_TOOL", FALSE)
       \/ ~toolReady' /\ Raises
    /\ UNCHANGED <<agent, talk>>

\* Mutant: the window survives the change of speakers.
Talk_KeepsWindow ==
    /\ AgentAnswers
    /\ agent' = GetNext(agent) /\ talk' \in AddMessage(talk) /\ toolReady' = FALSE
    /\ Stay /\ Report("BRAINSTORMING", FALSE)

\* TALK and DELEGATE: the message enters the window, the agents alternate and
\* the window is emptied.
Talk ==
    /\ AgentAnswers
    /\ agent' = GetNext(agent) /\ talk' = 0 /\ toolReady' = FALSE
    /\ Stay /\ Report("BRAINSTORMING", FALSE)

FinishBrainstorm ==
    /\ AgentAnswers
    /\ TransitionTo("IDLE") /\ Report("FINISHED", TRUE)
    /\ toolReady' = FALSE /\ UNCHANGED <<agent, talk>>

\* Any other action type keeps the turn with the same agent.
Ponder ==
    /\ AgentAnswers
    /\ Stay /\ Report("BRAINSTORMING", FALSE)
    /\ toolReady' = FALSE /\ UNCHANGED <<agent, talk>>

\* AgentInvoker.invoke_agent over budget: it moves the FSM to ERROR and returns
\* a message the caller takes for an answer.
BrainstormOverBudget ==
    /\ AgentAnswers
    /\ TransitionTo("ERROR") /\ Report("BRAINSTORMING", FALSE)
    /\ toolReady' = FALSE /\ UNCHANGED <<agent, talk>>

HandleBrainstorming ==
    \/ BreakStagnation \/ BrainstormFails \/ BrainstormOverBudget
    \/ RequestTool \/ Talk \/ FinishBrainstorm \/ Ponder

-----------------------------------------------------------------------------
(* EXECUTING_TOOL and VALIDATING_CFL *)

\* A result without output is handed over like any other, but cannot be shown.
HandleExecutingTool ==
    /\ state = "EXECUTING_TOOL"
    /\ Tick
    /\ \/ /\ toolReady
          /\ pending' = agent
          /\ agent' = GetNext(agent)
          /\ TransitionTo("VALIDATING_CFL")
          /\ Report("VALIDATING_CFL", FALSE) \/ Raises
       \/ /\ ~toolReady
          /\ Stay /\ Raises /\ UNCHANGED <<pending, agent>>
    /\ UNCHANGED <<toolReady, counters, inPanic, talk>>

Validating == state = "VALIDATING_CFL" /\ Tick

\* Mutant: the round robin is applied once too often.
Validator_Twice == GetNext(GetNext(agent))

\* The agent handle_validating_cfl asks for the verdict.
Validator == GetNext(agent)

ValidationRaises ==
    /\ Validating
    /\ errors' = Counted(errors)
    /\ inPanic' = (inPanic \/ ErrorPanic)
    /\ IF ErrorPanic THEN TransitionTo("PANIC") /\ Report("PANIC", TRUE)
       ELSE TransitionTo("ERROR") /\ Report("ERROR", FALSE)
    /\ UNCHANGED <<dialogue, parseFailures, stalemate, talk>>

\* Mutant: the result is not dropped after the verdict.
ValidationPasses_KeepsResult(finished) ==
    /\ Validating
    /\ stalemate' = 0 /\ errors' = 0
    /\ IF finished
       THEN TransitionTo("IDLE") /\ Report("FINISHED", TRUE) /\ UNCHANGED agent
       ELSE /\ TransitionTo("BRAINSTORMING") /\ Report("BRAINSTORMING", FALSE)
            /\ agent' = GetNext(agent)
    /\ UNCHANGED <<pending, toolReady, parseFailures, inPanic, talk>>

ValidationPasses(finished) ==
    /\ Validating
    /\ pending' = NoTool /\ stalemate' = 0 /\ errors' = 0
    /\ IF finished
       THEN TransitionTo("IDLE") /\ Report("FINISHED", TRUE) /\ UNCHANGED agent
       ELSE /\ TransitionTo("BRAINSTORMING") /\ Report("BRAINSTORMING", FALSE)
            /\ agent' = GetNext(agent)
    /\ UNCHANGED <<toolReady, parseFailures, inPanic, talk>>

\* Mutant: the limit itself is still allowed.
StalematePanic_OffByOne == stalemate' > MaxStalemate

\* PanicSystem.check_stalemate has counted one failed validation too many.
StalematePanic == stalemate' >= MaxStalemate

ValidationFails ==
    /\ Validating
    /\ pending' = NoTool
    /\ stalemate' = Counted(stalemate)
    /\ IF StalematePanic
       THEN /\ inPanic' = TRUE
            /\ TransitionTo("PANIC") /\ Report("PANIC", TRUE) /\ UNCHANGED agent
       ELSE /\ TransitionTo("BRAINSTORMING") /\ Report("BRAINSTORMING", FALSE)
            /\ agent' = GetNext(agent) /\ UNCHANGED inPanic
    /\ UNCHANGED <<toolReady, parseFailures, errors, talk>>

\* Outside of the handler's try: the context cannot be built, of a tool_use or an
\* output that is null, or the verdict has no content to be read.
ValidationBreaks ==
    /\ Validating
    /\ Stay /\ Raises
    /\ UNCHANGED <<dialogue, counters, inPanic, talk>>

HandleValidatingCFL ==
    \/ ValidationRaises \/ ValidationBreaks \/ ValidationFails
    \/ \E finished \in BOOLEAN : ValidationPasses(finished)

-----------------------------------------------------------------------------
(* Swarm states, ERROR and PANIC *)

\* Only start_swarm_mode enters the swarm states and it needs the engine, so the
\* handlers' fallbacks for a missing engine are never taken.  What the engine
\* raises passes through them.
SwarmMovesTo(s) == TransitionTo(s) /\ Report(s, FALSE)

HandleSwarm ==
    /\ Tick
    /\ \/ /\ state = "SWARM_ANALYZING"
          /\ SwarmMovesTo("SWARM_EXECUTING") \/ SwarmMovesTo("SWARM_NEGOTIATING")
       \/ /\ state = "SWARM_NEGOTIATING"
          /\ SwarmMovesTo("SWARM_EXECUTING")
       \/ /\ state = "SWARM_EXECUTING"
          /\ SwarmMovesTo("SWARM_EXECUTING") \/ SwarmMovesTo("VALIDATING_CFL")
       \/ /\ state \in {"SWARM_ANALYZING", "SWARM_NEGOTIATING", "SWARM_EXECUTING"}
          /\ Stay /\ Raises
    /\ UNCHANGED <<dialogue, counters, inPanic, talk>>

\* Mutant: a turn in ERROR recovers by itself.
HandleHalted_Recovers ==
    /\ state \in {"ERROR", "PANIC"}
    /\ Tick /\ TransitionTo("IDLE") /\ Report("IDLE", FALSE)
    /\ UNCHANGED <<dialogue, counters, inPanic, talk>>

HandleHalted ==
    /\ state \in {"ERROR", "PANIC"}
    /\ Tick /\ Stay /\ Report(state, FALSE)
    /\ UNCHANGED <<dialogue, counters, inPanic, talk>>

-----------------------------------------------------------------------------
(* EVOLUTION_BRAINSTORM *)

Evolving == state = "EVOLUTION_BRAINSTORM" /\ Tick

\* A stagnant window only ends the turn: nothing empties it.
EvolutionStagnates ==
    /\ Evolving /\ IsStagnant
    /\ Stay /\ Report("EVOLUTION_BRAINSTORM", FALSE)
    /\ UNCHANGED <<dialogue, counters, inPanic, talk>>

\* A failed invocation counts, and is not acted upon; an answer without content
\* counts as the first failure since the counts were cleared.
EvolutionFails ==
    /\ Evolving /\ ~IsStagnant
    /\ \/ parseFailures' = Counted(parseFailures) /\ UNCHANGED errors
       \/ parseFailures' = 1 /\ errors' = 0
    /\ Stay /\ Report("EVOLUTION_BRAINSTORM", FALSE)
    /\ UNCHANGED <<dialogue, stalemate, inPanic, talk>>

EvolutionAnswers ==
    /\ Evolving /\ ~IsStagnant
    /\ parseFailures' = 0 /\ errors' = 0
    /\ UNCHANGED <<pending, stalemate, inPanic>>

\* FINISHED with a valid mutation leaves the message in the window.
EvolutionFinishes ==
    /\ EvolutionAnswers
    /\ TransitionTo("IDLE") /\ Report("FINISHED", TRUE)
    /\ talk' \in AddMessage(talk)
    /\ toolReady' = FALSE /\ UNCHANGED agent

\* Otherwise the agents alternate and the window is emptied.  A tool runs in
\* place; a mutation in the text only marks the result as finished.  The last
\* message keeps its tool_use when the tool was blocked or raised.
EvolutionContinues ==
    /\ EvolutionAnswers
    /\ agent' = GetNext(agent) /\ talk' = 0 /\ toolReady' \in BOOLEAN
    /\ Stay
    /\ \E finished \in BOOLEAN :
          Report("EVOLUTION_BRAINSTORM", finished) /\ (finished => ~toolReady')

\* Over budget the FSM is in ERROR while the debate handler carries on.
EvolutionOverBudget ==
    /\ EvolutionAnswers
    /\ TransitionTo("ERROR") /\ Report("EVOLUTION_BRAINSTORM", FALSE)
    /\ agent' = GetNext(agent) /\ talk' = 0 /\ toolReady' = FALSE

\* A tool request whose tool_use is null raises once the agents have alternated.
EvolutionRaises ==
    /\ EvolutionAnswers
    /\ Stay /\ Raises
    /\ agent' = GetNext(agent) /\ talk' = 0 /\ toolReady' = FALSE

HandleEvolution ==
    \/ EvolutionStagnates \/ EvolutionFails \/ EvolutionFinishes
    \/ EvolutionContinues \/ EvolutionOverBudget \/ EvolutionRaises

-----------------------------------------------------------------------------
(* The operations of the orchestrator *)

ProcessTurn(input) ==
    \/ KernelViolation \/ GuardBlocks(input) \/ AwaitInput(input)
    \/ HandleIdle(input) \/ HandleWaitingUser(input)
    \/ HandleBrainstorming \/ HandleExecutingTool \/ HandleValidatingCFL
    \/ HandleSwarm \/ HandleEvolution \/ HandleHalted

\* SwarmBridge.start_swarm_mode, callable in any state.
StartSwarmMode ==
    /\ SwarmOn
    /\ TransitionTo("SWARM_ANALYZING") /\ Report("SWARM_ANALYZING", FALSE)
    /\ forced' = TRUE
    /\ UNCHANGED <<dialogue, counters, inPanic, talk, turn>>

\* StateHandler.reset_to_idle with clear_task, as every caller uses it but
\* rollback_to_backup, which nothing calls.
ResetToIdle ==
    /\ TransitionTo("IDLE")
    /\ pending' = NoTool /\ toolReady' = FALSE
    /\ parseFailures' = 0 /\ errors' = 0 /\ stalemate' = 0
    /\ inPanic' = FALSE /\ talk' = 0 /\ forced' = FALSE
    /\ UNCHANGED <<agent, turn, result>>

\* Between two turns a caller puts the machine into a state it has chosen.
ForcedInto(s) ==
    /\ TransitionTo(s) /\ forced' = TRUE
    /\ UNCHANGED <<agent, pending, counters, inPanic, talk, turn, result>>

\* brainstorm.run and the bootstrap service force a state from outside, to open
\* a debate and, whatever has happened meanwhile, when it is over: back to the
\* state they found, which may be any.
ForceState(s) == ForcedInto(s) /\ UNCHANGED toolReady

\* The extraction asks for better mutations and opens the debate again.
ReopenDebate == ForcedInto("EVOLUTION_BRAINSTORM") /\ toolReady' = FALSE

Forces == StartSwarmMode \/ ReopenDebate \/ \E s \in States : ForceState(s)

\* Between two turns the user adds a message to the conversation.
UserSpeaks ==
    /\ toolReady' = FALSE
    /\ UNCHANGED <<state, evolutionMode, agent, pending, counters, inPanic, talk, turn,
                   result, forced>>

Next ==
    \/ \E input \in BOOLEAN : ProcessTurn(input)
    \/ ResetToIdle
    \/ Forces
    \/ UserSpeaks

Spec == Init /\ [][Next]_vars

-----------------------------------------------------------------------------
(* Properties.  Since the last reset the machine was either driven by turns *)
(* alone, or forced by a caller; some of them hold of the former only.      *)

\* state_handler.py: the extended tool permissions are held in the evolution
\* debate and nowhere else, whatever path leads in or out of it.
EvolutionModeExact == evolutionMode <=> state = "EVOLUTION_BRAINSTORM"

\* panic_system.py against error.py: once PanicSystem has declared a panic the
\* machine is in PANIC, unless a caller has forced it out: clear_panic and every
\* other way out of PANIC go together.
PanicMeansPanic == inPanic => state = "PANIC" \/ forced

\* executing_tool.py, validating_cfl.py: a tool result exists exactly while it
\* is being validated; only a validation that raised can leave one behind, and
\* then the machine is halted until a reset drops it.
ResultOwned ==
    ~forced => /\ state = "VALIDATING_CFL" => pending # NoTool
               /\ pending # NoTool => state \in {"VALIDATING_CFL", "ERROR", "PANIC"}

\* The same, with who holds the floor: the agent after the one that asked.
ValidationOrder == state = "VALIDATING_CFL" /\ ~forced => agent = GetNext(pending)

\* The validator of a tool result is not the agent that requested the tool.
\* True of three agents or more.
CrossValidated ==
    state = "VALIDATING_CFL" /\ pending # NoTool /\ ~forced => Validator # pending

\* panic_system.py:record_error: an error of a task halts the machine and the only
\* way on is a reset, which clears the count.  So the count never passes one, and
\* the panic after three consecutive errors is never declared.
ErrorsHalt ==
    ~forced => /\ errors > 0 => state \in {"ERROR", "PANIC"}
               /\ errors <= 1 /\ parseFailures <= 1

\* panic_system.py: however tasks, debates and commands follow one another, the
\* third error in a row without a success has declared a panic.
ErrorPanicDeclared == errors >= MaxErrors => inPanic

\* validating_cfl.py: validation failures are counted across debates up to the
\* limit, and the limit is where the machine stops.
StalemateStops ==
    ~forced => /\ stalemate <= MaxStalemate
               /\ stalemate = MaxStalemate => state = "PANIC" /\ inPanic

\* The two together: the machine panics at the limit, and is in PANIC while it does.
PanicSafety == PanicMeansPanic /\ StalemateStops

\* error.py: ERROR and PANIC are left by a reset, or by force, never by a turn.
HaltedUntilReset ==
    [][(state \in {"ERROR", "PANIC"} /\ state' \notin {"ERROR", "PANIC"})
          => ResetToIdle \/ Forces]_vars
=============================================================================

----------------------------- MODULE ReplSession -----------------------------
(***************************************************************************)
(* The callers that drive the orchestrator in an interactive session: the  *)
(* REPL's turn loop, /reset, and the commands that force the machine's     *)
(* state from outside - /evolve (brainstorm.run), the bootstrap service    *)
(* and /swarm-fsm.  A caller looks at the result of a turn, never at the   *)
(* machine's state, to decide whether to go on.                            *)
(***************************************************************************)
EXTENDS OrchestratorFSM

CONSTANTS Commands,       \* what the user does besides typing tasks and /reset
          MaxLoop,        \* turns of one REPL loop (50 in the code)
          MaxDebate,      \* turns of one evolution debate (30)
          Checkpoint,     \* turns between two resets of tool_active (10)
          EvolveTrigger   \* evolution_trigger_threshold

ASSUME CommandsAssumption == Commands \subseteq {"evolve", "bootstrap", "swarm", "interrupt"}
ASSUME LoopAssumption == /\ {MaxLoop, MaxDebate, Checkpoint, EvolveTrigger} \subseteq Nat \ {0}
                         /\ MaxLoop > 2

VARIABLES mode,        \* who is driving: the prompt, a loop, or a command's phase
          left,        \* turns (or extraction retries) the driver has left
          saved,       \* brainstorm.run's original_state
          toolActive,  \* the REPL loop's tool_active
          successes,   \* repl.successful_turns
          used         \* ghost: "debate", "swarm", "interrupt" since the last reset

driver == <<mode, left, saved, toolActive, successes>>
driven == <<vars, driver>>
allVars == <<driven, used>>

Modes == {"prompt", "loop", "trigger", "evolve", "restore", "extract", "retry", "bootstrap", "leave"}

SessionInit ==
    /\ Init
    /\ mode = "prompt" /\ left = 0 /\ saved = "IDLE"
    /\ toolActive = FALSE /\ successes = 0 /\ used = {}

Terminal == {"IDLE", "ERROR", "PANIC", "FINISHED"}   \* where the REPL loop ends
DebateOver == {"IDLE", "ERROR", "PANIC"}             \* where the debate loops end

\* The drivers' local variables die with them.
KeepLocals ==
    /\ saved' = IF mode' = "prompt" THEN "IDLE" ELSE saved
    /\ toolActive' = (toolActive /\ mode' = "loop")

-----------------------------------------------------------------------------
(* The REPL loop *)

\* Where the loop goes once it is over: a finished result other than IDLE is
\* counted, and the count starts an evolution at the threshold.
CreditAndPrompt(r) ==
    /\ IF r.finished /\ r.state # "IDLE"
       THEN IF successes + 1 >= EvolveTrigger
            THEN mode' = "trigger" /\ left' = 0 /\ successes' = 0
            ELSE mode' = "prompt" /\ left' = 0 /\ successes' = successes + 1
       ELSE mode' = "prompt" /\ left' = 0 /\ UNCHANGED successes

\* One turn seen by the loop with n turns left afterwards.
AfterTurn(n) ==
    IF result'.state = "RAISED"
    THEN mode' = "prompt" /\ left' = 0 /\ UNCHANGED successes
    ELSE IF result'.state \in Terminal /\ n > 0
    THEN CreditAndPrompt(result')
    ELSE mode' = "loop" /\ left' = n /\ UNCHANGED successes

SubmitInput ==
    /\ mode = "prompt"
    /\ ProcessTurn(TRUE)
    /\ AfterTurn(MaxLoop)
    /\ toolActive' = FALSE
    /\ saved' = "IDLE"

LoopTurn ==
    /\ mode = "loop" /\ left > 0
    /\ ProcessTurn(FALSE)
    /\ AfterTurn(left - 1)
    /\ toolActive' = /\ toolActive \/ result'.state = "EXECUTING_TOOL"
                     /\ (MaxLoop - left + 1) % Checkpoint # 0
                     /\ mode' = "loop"
    /\ saved' = "IDLE"

\* Mutant: the exhausted loop returns without the reset.
LoopExhausted_NoReset ==
    /\ mode = "loop" /\ left = 0
    /\ CreditAndPrompt(result)
    /\ KeepLocals /\ UNCHANGED vars

\* Max iterations reached: reset, then count the last result like any other.
LoopExhausted ==
    /\ mode = "loop" /\ left = 0
    /\ ResetToIdle
    /\ CreditAndPrompt(result)
    /\ KeepLocals

\* Near the limit the loop asks the user, who may add a message and start the
\* count again, or break out with a reset.
Interject ==
    /\ mode = "loop" /\ left \in {1, 2} /\ ~toolActive
    /\ UserSpeaks
    /\ left' = MaxLoop
    /\ UNCHANGED <<mode, saved, toolActive, successes>>

BreakOut ==
    /\ mode = "loop" /\ left \in {1, 2} /\ ~toolActive
    /\ ResetToIdle
    /\ CreditAndPrompt(result)
    /\ KeepLocals

ResetCommand ==
    /\ mode = "prompt"
    /\ ResetToIdle
    /\ UNCHANGED driver

\* Ctrl+C: whatever was driving is abandoned where it stands.
Interrupt ==
    /\ "interrupt" \in Commands /\ mode # "prompt"
    /\ mode' = "prompt" /\ left' = 0
    /\ KeepLocals /\ UNCHANGED <<vars, successes>>

-----------------------------------------------------------------------------
(* /evolve: EvolutionBrainstormPhase.run and _extract_mutations *)

StartEvolve ==
    /\ "evolve" \in Commands
    /\ mode \in {"prompt", "trigger"}
    /\ saved' = state /\ UNCHANGED toolActive
    /\ ForceState("EVOLUTION_BRAINSTORM")
    /\ mode' = "evolve" /\ left' = MaxDebate + 1
    /\ UNCHANGED successes

\* The evolution rate limiter refuses the automatic trigger.
EvolveRefused ==
    /\ mode = "trigger"
    /\ mode' = "prompt"
    /\ KeepLocals /\ UNCHANGED <<vars, left, successes>>

\* Mutant: the debate's iterations are not counted.
DebateTurn_NoLimit(here, next) ==
    /\ mode = here
    /\ ProcessTurn(FALSE)
    /\ mode' = IF result'.state = "RAISED" THEN "prompt"
               ELSE IF result'.state \in DebateOver THEN next ELSE here
    /\ left' = IF mode' = here THEN left ELSE 0
    /\ KeepLocals /\ UNCHANGED successes

\* The first turn opens the debate and only its state is looked at; the turns
\* after it also end the debate by a finished result or, in brainstorm.run, by a
\* phrase that is read as consensus.
DebateTurn(here, next) ==
    /\ mode = here
    /\ ProcessTurn(FALSE)
    /\ LET opening == left = MaxDebate + 1
           over == \/ result'.state \in DebateOver \/ left = 1
                   \/ ~opening /\ result'.finished
           consensus == here = "evolve" /\ ~opening
       IN mode' \in IF result'.state = "RAISED" THEN {"prompt"}
                    ELSE IF over THEN {next}
                    ELSE {here} \cup {m \in {next} : consensus}
    /\ left' = IF mode' = here THEN left - 1 ELSE 0
    /\ KeepLocals /\ UNCHANGED successes

EvolveTurn == DebateTurn("evolve", "restore")

RestoreState ==
    /\ mode = "restore"
    /\ ForceState(saved)
    /\ \/ mode' = "prompt" /\ left' = 0
       \/ result.state \notin {"ERROR", "PANIC"} /\ mode' = "extract" /\ left' = 2
    /\ KeepLocals /\ UNCHANGED successes

\* Mutations that cannot be parsed send the agents back into the debate.
ExtractMutations ==
    /\ mode = "extract"
    /\ \/ /\ mode' = "prompt" /\ left' = 0
          /\ UNCHANGED vars
       \/ /\ left > 0
          /\ mode' = "retry" /\ left' = left - 1
          /\ ReopenDebate
    /\ KeepLocals /\ UNCHANGED successes

RetryTurn ==
    /\ mode = "retry"
    /\ ProcessTurn(FALSE)
    /\ mode' = IF result'.state = "RAISED" THEN "prompt" ELSE "extract"
    /\ KeepLocals /\ UNCHANGED <<left, successes>>

-----------------------------------------------------------------------------
(* The bootstrap service's debate, and /swarm-fsm *)

StartBootstrap ==
    /\ "bootstrap" \in Commands /\ mode = "prompt"
    /\ ForceState("EVOLUTION_BRAINSTORM")
    /\ mode' = "bootstrap" /\ left' = MaxDebate + 1
    /\ KeepLocals /\ UNCHANGED successes

BootstrapTurn == DebateTurn("bootstrap", "leave")

LeaveBootstrap ==
    /\ mode = "leave"
    /\ ForceState("IDLE")
    /\ mode' = "prompt" /\ left' = 0
    /\ KeepLocals /\ UNCHANGED successes

\* run_task_fsm starts swarm mode and calls orchestrator.step(), which does not
\* exist: the command reports a failure and the machine stays where it is.
SwarmCommand ==
    /\ "swarm" \in Commands /\ mode = "prompt"
    /\ StartSwarmMode
    /\ UNCHANGED driver

Turns == SubmitInput \/ LoopTurn \/ Interject
Resets == LoopExhausted \/ BreakOut \/ ResetCommand
Evolve == EvolveRefused \/ EvolveTurn \/ RestoreState \/ ExtractMutations \/ RetryTurn
Bootstrap == BootstrapTurn \/ LeaveBootstrap

Uses(what) == used' = used \cup {what}

SessionNext ==
    \/ (Turns \/ Evolve \/ Bootstrap) /\ UNCHANGED used
    \/ Resets /\ used' = {}
    \/ StartEvolve /\ Uses("debate")
    \/ StartBootstrap /\ Uses("debate")
    \/ SwarmCommand /\ Uses("swarm")
    \/ Interrupt /\ Uses("interrupt")

\* Whoever is driving takes its next turn: the loops are plain Python loops.
Fairness ==
    /\ WF_driven(LoopTurn) /\ WF_driven(LoopExhausted)
    /\ WF_driven(EvolveRefused \/ (StartEvolve /\ mode = "trigger"))
    /\ WF_driven(Evolve) /\ WF_driven(Bootstrap)

SessionSpec == SessionInit /\ [][SessionNext]_allVars /\ Fairness

-----------------------------------------------------------------------------
(* Properties *)

SwarmStates == {"SWARM_ANALYZING", "SWARM_NEGOTIATING", "SWARM_EXECUTING"}

\* repl.py: back at the prompt the task is over - the machine waits, or it has
\* halted - or a turn has raised, and the next one will find what it needs: the tool
\* result whose validation broke is still there to be validated, unless it is the
\* swarm's, which never had one.  A tool request without a tool stays until a debate
\* puts its own in the missing one's place; the states of debate and swarm are met
\* only by who has used them since the last reset.  A debate among the agents and a
\* tool that is ready to run are never left half-way, but by a Ctrl+C.
PromptAfterTask ==
    mode = "prompt" /\ "interrupt" \notin used =>
        \/ state \in {"IDLE", "WAITING_USER", "ERROR", "PANIC"}
        \/ state = "EXECUTING_TOOL" /\ (toolReady => "debate" \in used)
        \/ state = "VALIDATING_CFL" /\ (pending = NoTool => "swarm" \in used)
        \/ state = "EVOLUTION_BRAINSTORM" /\ "debate" \in used
        \/ state \in SwarmStates /\ "swarm" \in used

\* Whoever drives gives the prompt back: no loop runs for ever on its own.
DrivenToPrompt == mode \in Modes \ {"prompt", "loop"} ~> mode = "prompt"

\* brainstorm.py: the extended permissions never outlive the debate they were
\* granted for, as seen by the user who types the next task.
NoEvolutionAtPrompt == mode = "prompt" => ~evolutionMode

\* stagnation_detector.py: only debates fill the stagnation window.  The agents'
\* exchanges over a task empty it before it counts, so stagnation met anywhere
\* is left over from a debate since the last reset.
StagnationFromDebates == IsStagnant => "debate" \in used
=============================================================================

-------------------------- MODULE ReplSessionProofs --------------------------
(***************************************************************************)
(* The interactive session, for any thresholds, any length of the loops    *)
(* and any commands.  The machine's own invariant carries over, because    *)
(* every step of the session is a step of the machine: that is the first   *)
(* theorem.  The invariant of the session explains the state the machine   *)
(* is in by what was used since the last reset, in every mode a command    *)
(* may return to the prompt from, and explains likewise the state that     *)
(* brainstorm.run has put aside.                                           *)
(***************************************************************************)
EXTENDS ReplSession, OrchestratorFSMProofs

\* Where the machine waits for the user or has halted.
Resting == {"IDLE", "WAITING_USER", "ERROR", "PANIC"}

\* Where the machine may be while a debate is driven.
DebateStates == {"EVOLUTION_BRAINSTORM", "IDLE", "ERROR", "PANIC"}

\* Why the user may find the machine in state s.
Explained(s) ==
    \/ s \in Resting
    \/ s = "EXECUTING_TOOL" /\ (toolReady => "debate" \in used)
    \/ s = "VALIDATING_CFL" /\ (pending = NoTool => "swarm" \in used)
    \/ s = "EVOLUTION_BRAINSTORM" /\ "debate" \in used
    \/ s \in SwarmStates /\ "swarm" \in used

DriverOK == mode \in Modes /\ saved \in States

\* A debate, and a command that runs one, has been noted as used.
DebatesKnown ==
    state = "EVOLUTION_BRAINSTORM"
        \/ mode \in {"evolve", "restore", "extract", "retry", "bootstrap", "leave"}
    => "debate" \in used

Uninterrupted == "interrupt" \notin used

\* The swarm's states, and a validation without a result, come from its command.
SwarmKnown ==
    Uninterrupted /\ (state \in SwarmStates \/ (state = "VALIDATING_CFL" /\ pending = NoTool))
    => "swarm" \in used

DebateStands ==
    Uninterrupted /\ mode \in {"evolve", "retry", "bootstrap"} => state \in DebateStates

HereExplained ==
    Uninterrupted /\ mode \in {"prompt", "trigger", "extract"} => Explained(state)

SavedExplained == Uninterrupted /\ mode \in {"evolve", "restore"} => Explained(saved)

WindowEmpty == "debate" \notin used => talk = 0

Places == DebatesKnown /\ SwarmKnown /\ DebateStands /\ HereExplained /\ SavedExplained /\ WindowEmpty

SInv == IInv /\ DriverOK /\ Places

-----------------------------------------------------------------------------
(* What a turn, whoever drives it, may have done to the machine *)

\* A result that ends the loop stands for a machine that rests; a turn that
\* raised has left it where the caller finds it explained.
Tells ==
    /\ result'.state \in Terminal => state' \in Resting
    /\ result'.state = "RAISED" => \/ state' = "IDLE"
                                   \/ state' = "EXECUTING_TOOL" /\ ~toolReady'
                                   \/ state' \in {"EVOLUTION_BRAINSTORM", "VALIDATING_CFL"}
                                   \/ state' \in SwarmStates

\* No turn opens a debate or starts a swarm, only the swarm's end and a validation
\* are without a result, and outside of a debate an empty window stays empty.
Quiet ==
    /\ state' \in SwarmStates => state \in SwarmStates
    /\ state' = "VALIDATING_CFL" /\ pending' = NoTool =>
          state \in SwarmStates \/ (state = "VALIDATING_CFL" /\ pending = NoTool)
    /\ state' = "EVOLUTION_BRAINSTORM" => state = "EVOLUTION_BRAINSTORM"
    /\ talk = 0 /\ state # "EVOLUTION_BRAINSTORM" => talk' = 0

\* What holds of every turn.
LEMMA TurnTells ==
    ASSUME Sound, NEW input \in BOOLEAN, ProcessTurn(input)
    PROVE  Tells /\ Quiet
<1> USE DEF Tells, Quiet, SwarmStates, Resting, Terminal, Report, Raises, TransitionTo, Stay,
            dialogue
<1>0. agent \in Agents /\ NoTool \notin Agents
  BY DEF Sound, TypeOK, Agents, NoTool
<1>1. Returns(input) \/ Handles(input)
  BY DEF ProcessTurn, Returns, Handles
<1>2. CASE Returns(input)
  BY <1>2 DEF Returns, KernelViolation, GuardBlocks, AwaitInput
<1>3. CASE HandleIdle(input) \/ HandleWaitingUser(input)
  <2>1. PICK n : RouteTask(n) /\ (talk = 0 => n = 0)
    BY <1>3 DEF HandleIdle, HandleWaitingUser
  <2>2. CASE AnswerTrivial \/ HiveEnds \/ SwarmCompletes
    <3>1. Tells
      BY <2>2 DEF AnswerTrivial, HiveEnds, SwarmCompletes
    <3>2. state' # "EVOLUTION_BRAINSTORM"
      BY <2>2 DEF AnswerTrivial, HiveEnds, SwarmCompletes
    <3>3. talk = 0 => talk' = 0
      BY <2>1 DEF RouteTask, StartBrainstorm
    <3>4. state' \notin SwarmStates /\ state' # "VALIDATING_CFL"
      BY <2>2 DEF AnswerTrivial, HiveEnds, SwarmCompletes
    <3> QED BY <3>1, <3>2, <3>3, <3>4
  <2>3. CASE StartBrainstorm(n)
    BY <2>1, <2>3 DEF StartBrainstorm
  <2> QED BY <2>1, <2>2, <2>3 DEF RouteTask
<1>4. CASE HandleBrainstorming
  BY <1>4 DEF HandleBrainstorming, BreakStagnation, BrainstormFails, BrainstormOverBudget,
              RequestTool, Talk, FinishBrainstorm, Ponder, AgentAnswers, Brainstorming
<1>5. CASE HandleExecutingTool \/ HandleValidatingCFL
  BY <1>0, <1>5 DEF HandleExecutingTool, HandleValidatingCFL, ValidationRaises,
     ValidationBreaks, ValidationFails, ValidationPasses, Validating
<1>6. CASE HandleSwarm \/ HandleHalted
  BY <1>6 DEF HandleSwarm, SwarmMovesTo, HandleHalted
<1>7. CASE HandleEvolution
  BY <1>7 DEF HandleEvolution, EvolutionStagnates, EvolutionFails, EvolutionFinishes,
              EvolutionContinues, EvolutionOverBudget, EvolutionRaises, EvolutionAnswers, Evolving
<1> QED BY <1>1, <1>2, <1>3, <1>4, <1>5, <1>6, <1>7 DEF Handles

\* A turn without input keeps the machine among the states of a debate.
LEMMA DebateGoesOn ==
    ASSUME state \in DebateStates, ProcessTurn(FALSE)
    PROVE  state' \in DebateStates /\ pending' = pending
<1> USE DEF DebateStates, TransitionTo, Stay, dialogue
<1>1. CASE Returns(FALSE)
  BY <1>1 DEF Returns, KernelViolation, GuardBlocks, AwaitInput
<1>2. CASE HandleHalted
  BY <1>2 DEF HandleHalted
<1>3. CASE HandleEvolution
  BY <1>3 DEF HandleEvolution, EvolutionStagnates, EvolutionFails, EvolutionFinishes,
              EvolutionContinues, EvolutionOverBudget, EvolutionRaises, EvolutionAnswers
<1>4. ~HandleIdle(FALSE) /\ ~HandleWaitingUser(FALSE) /\ ~HandleSwarm
  BY DEF HandleIdle, HandleWaitingUser, HandleSwarm
<1>5. ~HandleBrainstorming /\ ~HandleExecutingTool /\ ~HandleValidatingCFL
  BY DEF HandleBrainstorming, BreakStagnation, BrainstormFails, BrainstormOverBudget,
         RequestTool, Talk, FinishBrainstorm, Ponder, AgentAnswers, Brainstorming,
         HandleExecutingTool, HandleValidatingCFL, ValidationRaises, ValidationBreaks, ValidationFails,
         ValidationPasses, Validating
<1> QED BY <1>1, <1>2, <1>3, <1>4, <1>5 DEF ProcessTurn, Returns

-----------------------------------------------------------------------------
(* The session drives the machine *)

\* Every step of the session is a step of the machine, or leaves it alone.
LEMMA SessionSteps ==
    ASSUME DriverOK, [SessionNext]_allVars
    PROVE  [Next]_vars
<1>1. CASE Turns
  BY <1>1 DEF Turns, SubmitInput, LoopTurn, Interject, Next
<1>2. CASE Resets
  BY <1>2 DEF Resets, LoopExhausted, BreakOut, ResetCommand, Next
<1>3. CASE Evolve
  <2>1. CASE EvolveRefused \/ EvolveTurn \/ RetryTurn
    BY <2>1 DEF EvolveRefused, EvolveTurn, DebateTurn, RetryTurn, Next
  <2>2. CASE RestoreState
    BY <2>2 DEF RestoreState, DriverOK, Next, Forces
  <2>3. CASE ExtractMutations
    BY <2>3 DEF ExtractMutations, Next, Forces
  <2> QED BY <1>3, <2>1, <2>2, <2>3 DEF Evolve
<1>4. CASE Bootstrap
  <2>1. CASE BootstrapTurn
    BY <2>1 DEF BootstrapTurn, DebateTurn, Next
  <2>2. CASE LeaveBootstrap
    BY <2>2 DEF LeaveBootstrap, Next, Forces, States
  <2> QED BY <1>4, <2>1, <2>2 DEF Bootstrap
<1>5. CASE StartEvolve \/ StartBootstrap
  BY <1>5 DEF StartEvolve, StartBootstrap, Next, Forces, States
<1>6. CASE SwarmCommand
  BY <1>6 DEF SwarmCommand, Next, Forces
<1>7. CASE Interrupt \/ UNCHANGED allVars
  BY <1>7 DEF Interrupt, allVars, driven
<1> QED BY <1>1, <1>2, <1>3, <1>4, <1>5, <1>6, <1>7 DEF SessionNext

\* The driver stays in one of its modes, and puts aside states of the machine only.
LEMMA DriverStays ==
    ASSUME state \in States, DriverOK, [SessionNext]_allVars
    PROVE  DriverOK'
<1> USE DEF DriverOK, Modes, KeepLocals
<1>1. "IDLE" \in States
  BY DEF States
<1>2. CASE Turns
  BY <1>1, <1>2 DEF Turns, SubmitInput, LoopTurn, Interject, AfterTurn, CreditAndPrompt
<1>3. CASE Resets
  BY <1>1, <1>3 DEF Resets, LoopExhausted, BreakOut, ResetCommand, driver, CreditAndPrompt
<1>4. CASE Evolve
  BY <1>1, <1>4 DEF Evolve, EvolveRefused, EvolveTurn, DebateTurn, RestoreState,
                    ExtractMutations, RetryTurn
<1>5. CASE Bootstrap
  BY <1>1, <1>5 DEF Bootstrap, BootstrapTurn, DebateTurn, LeaveBootstrap
<1>6. CASE StartEvolve \/ StartBootstrap
  BY <1>1, <1>6 DEF StartEvolve, StartBootstrap
<1>7. CASE SwarmCommand \/ Interrupt \/ UNCHANGED allVars
  BY <1>1, <1>7 DEF SwarmCommand, Interrupt, driver, allVars, driven
<1> QED BY <1>2, <1>3, <1>4, <1>5, <1>6, <1>7 DEF SessionNext

-----------------------------------------------------------------------------
(* Places: one lemma for each driver *)

USE DEF SwarmStates

\* The loop goes back to the prompt only on a result that says the task is over,
\* or on an exception.
LEMMA LoopEnds ==
    ASSUME NEW n \in Int, AfterTurn(n)
    PROVE  /\ mode' \in {"prompt", "trigger", "loop"}
           /\ mode' # "loop" => result'.state \in Terminal \cup {"RAISED"}
  BY DEF AfterTurn, CreditAndPrompt

\* A task: typed, turned over by the loop, and talked into.
LEMMA TurnsPlaced ==
    ASSUME SInv, Turns, used' = used
    PROVE  Places'
<1> USE DEF Explained
<1>1. CASE SubmitInput \/ LoopTurn
  <2>1. /\ mode' \in {"prompt", "trigger", "loop"}
        /\ mode' # "loop" => result'.state \in Terminal \cup {"RAISED"}
    BY <1>1, LoopEnds, LoopAssumption DEF SubmitInput, LoopTurn, AfterTurn, CreditAndPrompt
  <2>2. Tells /\ Quiet
    BY <1>1, TurnTells DEF SubmitInput, LoopTurn, SInv, IInv
  <2>3. DebatesKnown'
    BY <2>1, <2>2 DEF SInv, Places, DebatesKnown, Quiet
  <2>4. SwarmKnown'
    BY <2>2 DEF SInv, Places, SwarmKnown, Uninterrupted, Quiet
  <2>5. HereExplained'
    BY <2>1, <2>2, <2>3, <2>4 DEF HereExplained, DebatesKnown, SwarmKnown, Uninterrupted, Tells,
                                  Resting
  <2>6. WindowEmpty'
    BY <2>2 DEF SInv, Places, DebatesKnown, WindowEmpty, Quiet
  <2> QED BY <2>1, <2>3, <2>4, <2>5, <2>6 DEF Places, DebateStands, SavedExplained
<1>2. CASE Interject
  BY <1>2 DEF Interject, UserSpeaks, SInv, Places, DebatesKnown, SwarmKnown, DebateStands,
              HereExplained, SavedExplained, WindowEmpty, Uninterrupted
<1> QED BY <1>1, <1>2 DEF Turns

\* After a reset the machine waits, whatever was used before.
LEMMA ResetsPlaced ==
    ASSUME SInv, Resets, used' = {}
    PROVE  Places'
<1>1. state' = "IDLE" /\ talk' = 0
  BY DEF Resets, LoopExhausted, BreakOut, ResetCommand, ResetToIdle, TransitionTo
<1>2. mode' \in {"prompt", "trigger"}
  BY DEF Resets, LoopExhausted, BreakOut, ResetCommand, CreditAndPrompt, driver
<1> QED BY <1>1, <1>2 DEF Places, DebatesKnown, SwarmKnown, DebateStands, HereExplained, SavedExplained,
                          WindowEmpty, Explained, Resting

\* A debate, driven by /evolve or by the bootstrap service.
LEMMA DebatePlaced ==
    ASSUME SInv, used' = used, EvolveTurn \/ BootstrapTurn
    PROVE  Places'
<1>1. /\ mode \in {"evolve", "bootstrap"} /\ ProcessTurn(FALSE)
      /\ mode' \in {"prompt", "restore", "leave", mode}
      /\ mode' = "prompt" => result'.state = "RAISED"
      /\ mode' = "restore" => mode = "evolve"
      /\ mode' # "prompt" => saved' = saved
  BY DEF EvolveTurn, BootstrapTurn, DebateTurn, KeepLocals
<1>2. "debate" \in used' /\ Tells /\ Quiet
  BY <1>1, TurnTells DEF SInv, IInv, Places, DebatesKnown
<1>3. DebatesKnown' /\ WindowEmpty' /\ SwarmKnown'
  BY <1>2 DEF SInv, Places, DebatesKnown, WindowEmpty, SwarmKnown, Uninterrupted, Quiet
<1>4. DebateStands'
  BY <1>1, DebateGoesOn DEF SInv, Places, DebateStands, Uninterrupted
<1>5. HereExplained'
  BY <1>1, <1>2, <1>3 DEF HereExplained, Explained, Resting, Tells, SwarmKnown, Uninterrupted
<1>6. SavedExplained'
  BY <1>1, <1>2, DebateGoesOn
     DEF SInv, Places, DebateStands, SavedExplained, Explained, Uninterrupted
<1> QED BY <1>3, <1>4, <1>5, <1>6 DEF Places

\* What follows a debate of /evolve: the state is restored, and the extraction of
\* mutations may open the debate again.
LEMMA EvolvePlaced ==
    ASSUME SInv, used' = used, EvolveRefused \/ RestoreState \/ ExtractMutations \/ RetryTurn
    PROVE  Places'
<1> USE DEF KeepLocals
<1>1. CASE EvolveRefused
  BY <1>1 DEF EvolveRefused, vars, SInv, Places, DebatesKnown, SwarmKnown, DebateStands, HereExplained,
              SavedExplained, WindowEmpty, Explained, Uninterrupted
<1>2. CASE RestoreState \/ ExtractMutations \/ RetryTurn
  <2>1. "debate" \in used'
    BY <1>2 DEF RestoreState, ExtractMutations, RetryTurn, SInv, Places, DebatesKnown
  <2>2. mode' \in {"prompt", "extract", "retry"}
    BY <1>2 DEF RestoreState, ExtractMutations, RetryTurn
  <2>3. CASE RestoreState
    <3>1. /\ state' = saved /\ mode = "restore" /\ mode' \in {"prompt", "extract"}
          /\ UNCHANGED <<toolReady, pending, talk>>
      BY <2>3 DEF RestoreState, ForceState, ForcedInto, TransitionTo
    <3>2. HereExplained' /\ SwarmKnown'
      BY <3>1 DEF SInv, Places, SavedExplained, Uninterrupted, Explained, Resting,
                  HereExplained, SwarmKnown
    <3> QED BY <2>1, <3>1, <3>2 DEF Places, DebatesKnown, DebateStands, SavedExplained,
               WindowEmpty
  <2>4. CASE ExtractMutations
    <3>1. CASE UNCHANGED vars /\ mode' = "prompt"
      BY <2>1, <2>4, <3>1 DEF ExtractMutations, vars, SInv, Places, DebatesKnown, SwarmKnown, DebateStands,
         HereExplained, SavedExplained, WindowEmpty, Explained, Uninterrupted
    <3>2. CASE ReopenDebate /\ mode' = "retry"
      BY <2>1, <3>2 DEF ReopenDebate, ForcedInto, TransitionTo, Places, DebatesKnown,
         SwarmKnown, DebateStands, DebateStates, HereExplained, SavedExplained, WindowEmpty
    <3> QED BY <2>4, <3>1, <3>2 DEF ExtractMutations
  <2>5. CASE RetryTurn
    <3>1. state \in DebateStates => state' \in DebateStates /\ pending' = pending
      BY <2>5, DebateGoesOn DEF RetryTurn
    <3> QED BY <2>1, <2>2, <2>5, <3>1 DEF RetryTurn, SInv, Places, DebatesKnown, SwarmKnown, DebateStands,
               DebateStates, HereExplained, SavedExplained, WindowEmpty, Explained, Resting,
               Uninterrupted
  <2> QED BY <1>2, <2>3, <2>4, <2>5
<1> QED BY <1>1, <1>2

\* The commands that force the state, the end of the bootstrap, and Ctrl+C.
LEMMA CommandsPlaced ==
    ASSUME SInv,
           \/ LeaveBootstrap /\ used' = used
           \/ (StartEvolve \/ StartBootstrap) /\ Uses("debate")
           \/ SwarmCommand /\ Uses("swarm")
           \/ Interrupt /\ Uses("interrupt")
    PROVE  Places'
<1> USE DEF Explained, Uninterrupted
<1>1. CASE LeaveBootstrap /\ used' = used
  BY <1>1 DEF LeaveBootstrap, ForceState, ForcedInto, TransitionTo, SInv, Places, DebatesKnown,
     SwarmKnown, DebateStands, HereExplained, SavedExplained, WindowEmpty, Resting
<1>2. CASE StartEvolve /\ Uses("debate")
  <2>1. /\ state' = "EVOLUTION_BRAINSTORM" /\ mode' = "evolve" /\ saved' = state
        /\ mode \in {"prompt", "trigger"} /\ "debate" \in used'
        /\ used \subseteq used' /\ UNCHANGED <<toolReady, pending>>
    BY <1>2 DEF StartEvolve, Uses, ForceState, ForcedInto, TransitionTo
  <2>2. SavedExplained'
    BY <2>1 DEF SInv, Places, HereExplained, SavedExplained
  <2> QED BY <2>1, <2>2 DEF Places, DebatesKnown, SwarmKnown, DebateStands, DebateStates, HereExplained,
             WindowEmpty
<1>3. CASE StartBootstrap /\ Uses("debate")
  BY <1>3 DEF StartBootstrap, Uses, ForceState, ForcedInto, TransitionTo, Places, DebatesKnown,
     SwarmKnown, DebateStands, DebateStates, HereExplained, SavedExplained, WindowEmpty
<1>4. CASE SwarmCommand /\ Uses("swarm")
  BY <1>4 DEF SwarmCommand, Uses, StartSwarmMode, TransitionTo, driver, SInv, Places,
     DebatesKnown, SwarmKnown, DebateStands, HereExplained, SavedExplained, WindowEmpty
<1>5. CASE Interrupt /\ Uses("interrupt")
  BY <1>5 DEF Interrupt, Uses, vars, SInv, Places, DebatesKnown, SwarmKnown, DebateStands, HereExplained,
     SavedExplained, WindowEmpty
<1> QED BY <1>1, <1>2, <1>3, <1>4, <1>5

-----------------------------------------------------------------------------
(* The invariant *)

LEMMA SessionInit_SInv == SessionInit => SInv
<1> SUFFICES ASSUME SessionInit PROVE SInv
  OBVIOUS
<1>1. IInv /\ state = "IDLE" /\ talk = 0
  BY InitInv DEF SessionInit, Init
<1>2. DriverOK
  BY DEF SessionInit, DriverOK, Modes, States
<1>3. Places
  BY <1>1 DEF SessionInit, Places, DebatesKnown, SwarmKnown, DebateStands, HereExplained, SavedExplained,
     WindowEmpty, Explained, Resting
<1> QED BY <1>1, <1>2, <1>3 DEF SInv

LEMMA SessionNext_SInv == SInv /\ [SessionNext]_allVars => SInv'
<1> SUFFICES ASSUME SInv, [SessionNext]_allVars PROVE SInv'
  OBVIOUS
<1>1. IInv'
  BY SessionSteps, NextInv DEF SInv
<1>2. DriverOK'
  BY DriverStays DEF SInv, IInv, Sound, TypeOK
<1>3. Places'
  <2>1. CASE SessionNext
    BY <2>1, TurnsPlaced, ResetsPlaced, DebatePlaced, EvolvePlaced, CommandsPlaced
    DEF SessionNext, Evolve, Bootstrap
  <2>2. CASE UNCHANGED allVars
    BY <2>2 DEF allVars, driven, vars, driver, SInv, Places, DebatesKnown, SwarmKnown, DebateStands,
       HereExplained, SavedExplained, WindowEmpty, Explained, Uninterrupted
  <2> QED BY <2>1, <2>2
<1> QED BY <1>1, <1>2, <1>3 DEF SInv

-----------------------------------------------------------------------------
(* Theorems *)

\* The inductive invariant holds throughout a session.
THEOREM SessionInvariance == SessionSpec => []SInv
<1> QED BY SessionInit_SInv, SessionNext_SInv, PTL DEF SessionSpec

\* The session drives the orchestrator only through what the machine offers, so
\* whatever holds of the machine holds in a session.
THEOREM SessionIsMachine == SessionSpec => Spec
<1>1. SessionInit => Init
  BY DEF SessionInit
<1>2. SInv /\ [SessionNext]_allVars => [Next]_vars
  BY SessionSteps DEF SInv
<1> QED BY <1>1, <1>2, SessionInvariance, PTL DEF SessionSpec, Spec

\* repl.py: back at the prompt the machine waits or has halted; or a turn raised with
\* what it worked on still in its place; or a command used since the last reset
\* explains where it stands.
THEOREM PromptExplained == SessionSpec => []PromptAfterTask
<1>1. SInv => PromptAfterTask
  BY DEF SInv, Places, HereExplained, Explained, Resting, Uninterrupted, PromptAfterTask
<1> QED BY <1>1, SessionInvariance, PTL

\* stagnation_detector.py: stagnation is left over from a debate.
THEOREM StagnationExplained == SessionSpec => []StagnationFromDebates
<1>1. SInv => StagnationFromDebates
  BY BoundsAssumption DEF SInv, Places, WindowEmpty, StagnationFromDebates, IsStagnant
<1> QED BY <1>1, SessionInvariance, PTL

\* state_handler.py: a user who has not opened a debate since the last reset never
\* meets the extended tool permissions, at the prompt or in a turn.
THEOREM PermissionsFromDebates == SessionSpec => [](evolutionMode => "debate" \in used)
<1>1. SInv => (evolutionMode => "debate" \in used)
  BY DEF SInv, IInv, Sound, EvolutionModeExact, Places, DebatesKnown
<1> QED BY <1>1, SessionInvariance, PTL

\* error.py: in a session too, ERROR and PANIC are left by a reset or by a command
\* that forces the state, never by a turn.
THEOREM SessionRecovers == SessionSpec => HaltedUntilReset
<1> QED BY SessionIsMachine, OnlyResetRecovers, PTL
=============================================================================

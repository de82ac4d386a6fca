------------------------ MODULE OrchestratorFSMProofs ------------------------
(***************************************************************************)
(* Safety of the orchestrator, for any number of agents and any            *)
(* thresholds.  Sound holds however the machine is driven.  Calm holds     *)
(* while turns and resets alone drive it; it strengthens the properties    *)
(* TLC checks by two facts: turns do not enter the swarm and evolution     *)
(* states by themselves, and a failed parse leaves the machine halted.     *)
(***************************************************************************)
EXTENDS OrchestratorFSM, TLAPS

Sound == TypeOK /\ EvolutionModeExact /\ ErrorPanicDeclared

Entered == {"IDLE", "BRAINSTORMING", "EXECUTING_TOOL", "VALIDATING_CFL",
            "WAITING_USER", "ERROR", "PANIC"}

Halted == state \in {"ERROR", "PANIC"}

\* Turns and resets alone never reach the swarm and evolution states.
Driven == state \in Entered /\ evolutionMode = FALSE

Safe ==
    /\ PanicMeansPanic
    /\ ResultOwned
    /\ ValidationOrder
    /\ ErrorsHalt
    /\ parseFailures > 0 => Halted
    /\ StalemateStops

Calm == Driven /\ Safe

IInv == Sound /\ (~forced => Calm)

ResultType == [state : Results, finished : BOOLEAN]

\* The early returns of process_turn.
Returns(input) == KernelViolation \/ GuardBlocks(input) \/ AwaitInput(input)

\* A turn is one of these.
Handles(input) ==
    \/ HandleIdle(input) \/ HandleWaitingUser(input)
    \/ HandleBrainstorming \/ HandleExecutingTool \/ HandleValidatingCFL
    \/ HandleSwarm \/ HandleEvolution \/ HandleHalted

-----------------------------------------------------------------------------
(* The round robin, and counting *)

\* unified_registry.get_next returns a registered agent, never the one it is
\* asked about.
LEMMA NextAgent ==
    ASSUME NEW a \in Agents
    PROVE  GetNext(a) \in Agents /\ GetNext(a) # a
  BY AgentsAssumption DEF Agents, GetNext

\* With three agents or more, two hand-overs do not come back to the agent they
\* started from; with two they do.
LEMMA TwoHandOvers ==
    ASSUME NEW a \in Agents
    PROVE  /\ NAgents > 2 => GetNext(GetNext(a)) # a
           /\ NAgents = 2 => GetNext(GetNext(a)) = a
  BY AgentsAssumption DEF Agents, GetNext

\* A counter stays within its bound, and counts exactly below every threshold.
LEMMA Counting ==
    ASSUME NEW n \in 0 .. Cap
    PROVE  /\ Counted(n) \in 0 .. Cap /\ Counted(n) >= n
           /\ \A m \in {MaxParseFailures, MaxErrors, MaxStalemate} : n < m => Counted(n) = n + 1
  BY BoundsAssumption DEF Counted

-----------------------------------------------------------------------------
(* Sound: one lemma for each kind of variable, whatever operation runs *)

\* Every operation makes one transition or none.
Transits == Stay \/ \E s \in States : TransitionTo(s)

\* No operation changes the state but through transition_to.
LEMMA AllTransit ==
    ASSUME NEW input \in BOOLEAN,
           Returns(input) \/ Handles(input) \/ ResetToIdle \/ Forces \/ UserSpeaks
    PROVE  Transits
<1> USE DEF Transits, States
<1>1. CASE Returns(input)
  BY <1>1 DEF Returns, KernelViolation, GuardBlocks, AwaitInput
<1>2. CASE HandleIdle(input) \/ HandleWaitingUser(input)
  BY <1>2 DEF HandleIdle, HandleWaitingUser, RouteTask, AnswerTrivial, HiveEnds,
              SwarmCompletes, StartBrainstorm
<1>3. CASE HandleBrainstorming
  BY <1>3 DEF HandleBrainstorming, BreakStagnation, BrainstormFails, BrainstormOverBudget,
              RequestTool, Talk, FinishBrainstorm, Ponder
<1>4. CASE HandleExecutingTool \/ HandleValidatingCFL
  BY <1>4 DEF HandleExecutingTool, HandleValidatingCFL, ValidationRaises, ValidationBreaks, ValidationFails,
              ValidationPasses
<1>5. CASE HandleSwarm \/ HandleHalted
  BY <1>5 DEF HandleSwarm, SwarmMovesTo, HandleHalted
<1>6. CASE HandleEvolution
  BY <1>6 DEF HandleEvolution, EvolutionStagnates, EvolutionFails, EvolutionFinishes,
              EvolutionContinues, EvolutionOverBudget, EvolutionRaises
<1>7. CASE ResetToIdle \/ Forces \/ UserSpeaks
  BY <1>7 DEF ResetToIdle, Forces, StartSwarmMode, ForceState, ReopenDebate, ForcedInto,
              UserSpeaks, Stay, counters
<1> QED BY <1>1, <1>2, <1>3, <1>4, <1>5, <1>6, <1>7 DEF Handles

\* So the permissions follow the state.
LEMMA PermissionsFollow ==
    ASSUME Sound, Transits
    PROVE  state' \in States /\ evolutionMode' \in BOOLEAN /\ EvolutionModeExact'
<1>1. state \in States /\ evolutionMode \in BOOLEAN
  BY DEF Sound, TypeOK
<1>2. evolutionMode <=> state = "EVOLUTION_BRAINSTORM"
  BY DEF Sound, EvolutionModeExact
<1>3. CASE Stay
  BY <1>1, <1>2, <1>3, Zenon DEF Stay, EvolutionModeExact
<1>4. ASSUME NEW s \in States, TransitionTo(s)
      PROVE  state' \in States /\ evolutionMode' \in BOOLEAN /\ EvolutionModeExact'
  <2>1. state' = s
    BY <1>4 DEF TransitionTo
  <2>2. CASE s = "EVOLUTION_BRAINSTORM"
    <3>1. evolutionMode' = TRUE
      BY <1>4, <2>2 DEF TransitionTo
    <3> QED BY <2>1, <2>2, <3>1 DEF EvolutionModeExact
  <2>3. CASE s # "EVOLUTION_BRAINSTORM"
    <3>1. evolutionMode' = (evolutionMode /\ state # "EVOLUTION_BRAINSTORM")
      BY <1>4, <2>3 DEF TransitionTo
    <3>2. evolutionMode' = FALSE
      BY <3>1, <1>2, Zenon
    <3> QED BY <2>1, <2>3, <3>2 DEF EvolutionModeExact
  <2> QED BY <2>2, <2>3
<1> QED BY <1>3, <1>4 DEF Transits

Reports == UNCHANGED result \/ \E s \in Results, f \in BOOLEAN : Report(s, f)

\* Results are made by make_result, of a state's name, or the turn raised.
LEMMA AllReport ==
    ASSUME Sound, NEW input \in BOOLEAN,
           Returns(input) \/ Handles(input) \/ ResetToIdle \/ Forces \/ UserSpeaks
    PROVE  Reports
<1> USE DEF Reports, Results, States, Raises
<1>1. state \in States
  BY DEF Sound, TypeOK
<1>2. CASE Returns(input)
  BY <1>1, <1>2 DEF Returns, KernelViolation, GuardBlocks, AwaitInput
<1>3. CASE HandleIdle(input) \/ HandleWaitingUser(input)
  BY <1>3 DEF HandleIdle, HandleWaitingUser, RouteTask, AnswerTrivial, HiveEnds,
              SwarmCompletes, StartBrainstorm
<1>4. CASE HandleBrainstorming
  BY <1>4 DEF HandleBrainstorming, BreakStagnation, BrainstormFails, BrainstormOverBudget,
              RequestTool, Talk, FinishBrainstorm, Ponder
<1>5. CASE HandleExecutingTool \/ HandleValidatingCFL
  BY <1>5 DEF HandleExecutingTool, HandleValidatingCFL, ValidationRaises, ValidationBreaks, ValidationFails,
              ValidationPasses
<1>6. CASE HandleSwarm \/ HandleHalted
  BY <1>1, <1>6 DEF HandleSwarm, SwarmMovesTo, HandleHalted
<1>7. CASE HandleEvolution
  BY <1>7 DEF HandleEvolution, EvolutionStagnates, EvolutionFails, EvolutionFinishes,
              EvolutionContinues, EvolutionOverBudget, EvolutionRaises
<1>8. CASE ResetToIdle \/ Forces \/ UserSpeaks
  BY <1>8 DEF ResetToIdle, Forces, StartSwarmMode, ForceState, ReopenDebate, ForcedInto,
              UserSpeaks, Stay, counters
<1> QED BY <1>2, <1>3, <1>4, <1>5, <1>6, <1>7, <1>8 DEF Handles

\* So the result is one a caller knows.
LEMMA ResultKnown == ASSUME Sound, Reports PROVE result' \in ResultType
  BY DEF Sound, TypeOK, Reports, Report, ResultType

\* The floor is passed on among the registered agents, and the window and the
\* iteration count stay within their limits.
LEMMA AllPlaces ==
    ASSUME Sound, NEW input \in BOOLEAN,
           Returns(input) \/ Handles(input) \/ ResetToIdle \/ Forces \/ UserSpeaks
    PROVE  /\ agent' \in Agents /\ pending' \in Agents \cup {NoTool}
           /\ talk' \in 0 .. Window /\ turn' \in 0 .. (KernelPeriod - 1)
<1> USE DEF dialogue, counters, Tick
<1>1. /\ agent \in Agents /\ pending \in Agents \cup {NoTool}
      /\ talk \in 0 .. Window /\ turn \in 0 .. (KernelPeriod - 1)
  BY DEF Sound, TypeOK
<1>2. /\ 0 \in 0 .. Window /\ Gemini \in Agents
      /\ AddMessage(talk) \subseteq 0 .. Window
  BY <1>1, AgentsAssumption, BoundsAssumption DEF Gemini, Agents, AddMessage
<1>3. {(turn + 1) % KernelPeriod, 1 % KernelPeriod} \subseteq 0 .. (KernelPeriod - 1)
  BY <1>1, BoundsAssumption
<1>4. GetNext(agent) \in Agents
  BY <1>1, NextAgent
<1>5. CASE Returns(input)
  BY <1>1, <1>3, <1>5 DEF Returns, KernelViolation, GuardBlocks, AwaitInput
<1>6. CASE HandleIdle(input) \/ HandleWaitingUser(input)
  <2>1. agent' \in Agents /\ talk' \in 0 .. Window /\ pending' = pending
    BY <1>1, <1>2, <1>6 DEF HandleIdle, HandleWaitingUser, RouteTask, StartBrainstorm
  <2>2. turn' \in 0 .. (KernelPeriod - 1)
    BY <1>3, <1>6 DEF HandleIdle, HandleWaitingUser
  <2> QED BY <1>1, <2>1, <2>2
<1>7. CASE HandleBrainstorming
  BY <1>1, <1>2, <1>3, <1>4, <1>7
  DEF HandleBrainstorming, BreakStagnation, BrainstormFails, BrainstormOverBudget,
      RequestTool, Talk, FinishBrainstorm, Ponder, AgentAnswers, Brainstorming
<1>8. CASE HandleExecutingTool \/ HandleValidatingCFL
  BY <1>1, <1>3, <1>4, <1>8
  DEF HandleExecutingTool, HandleValidatingCFL, ValidationRaises, ValidationBreaks, ValidationFails,
      ValidationPasses, Validating
<1>9. CASE HandleSwarm \/ HandleHalted
  BY <1>1, <1>3, <1>9 DEF HandleSwarm, HandleHalted
<1>10. CASE HandleEvolution
  BY <1>1, <1>2, <1>3, <1>4, <1>10
  DEF HandleEvolution, EvolutionStagnates, EvolutionFails, EvolutionFinishes,
      EvolutionContinues, EvolutionOverBudget, EvolutionRaises, EvolutionAnswers, Evolving
<1>11. CASE ResetToIdle \/ Forces \/ UserSpeaks
  BY <1>1, <1>2, <1>11 DEF ResetToIdle, Forces, StartSwarmMode, ForceState, ReopenDebate, ForcedInto,
              UserSpeaks, Stay, counters
<1> QED BY <1>5, <1>6, <1>7, <1>8, <1>9, <1>10, <1>11 DEF Handles

\* Counters are counted, cleared or left alone.
LEMMA AllCount ==
    ASSUME Sound, NEW input \in BOOLEAN,
           Returns(input) \/ Handles(input) \/ ResetToIdle \/ Forces \/ UserSpeaks
    PROVE  {parseFailures', errors', stalemate'} \subseteq 0 .. Cap
<1> USE DEF dialogue, counters
<1>1. {parseFailures, errors, stalemate} \subseteq 0 .. Cap
  BY DEF Sound, TypeOK
<1>2. {Counted(parseFailures), Counted(errors), Counted(stalemate), 0, 1} \subseteq 0 .. Cap
  BY <1>1, Counting, BoundsAssumption
<1>3. CASE Returns(input)
  BY <1>1, <1>3 DEF Returns, KernelViolation, GuardBlocks, AwaitInput
<1>4. CASE HandleIdle(input) \/ HandleWaitingUser(input)
  BY <1>1, <1>2, <1>4 DEF HandleIdle, HandleWaitingUser, RouteTask
<1>5. CASE HandleBrainstorming
  BY <1>1, <1>2, <1>5
  DEF HandleBrainstorming, BreakStagnation, BrainstormFails, BrainstormOverBudget,
      RequestTool, Talk, FinishBrainstorm, Ponder, AgentAnswers
<1>6. CASE HandleExecutingTool \/ HandleValidatingCFL
  BY <1>1, <1>2, <1>6
  DEF HandleExecutingTool, HandleValidatingCFL, ValidationRaises, ValidationBreaks, ValidationFails,
      ValidationPasses
<1>7. CASE HandleSwarm \/ HandleHalted
  BY <1>1, <1>7 DEF HandleSwarm, HandleHalted
<1>8. CASE HandleEvolution
  BY <1>1, <1>2, <1>8
  DEF HandleEvolution, EvolutionStagnates, EvolutionFails, EvolutionFinishes,
      EvolutionContinues, EvolutionOverBudget, EvolutionRaises, EvolutionAnswers
<1>9. CASE ResetToIdle \/ Forces \/ UserSpeaks
  BY <1>1, <1>2, <1>9 DEF ResetToIdle, Forces, StartSwarmMode, ForceState, ReopenDebate, ForcedInto,
              UserSpeaks, Stay, counters
<1> QED BY <1>3, <1>4, <1>5, <1>6, <1>7, <1>8, <1>9 DEF Handles

\* What an operation does to the error count and the panic flag.
Errs == /\ errors' \in {Counted(errors), 1}
        /\ inPanic' = (inPanic \/ errors' >= MaxErrors)
Keeps == errors' = errors /\ inPanic' \in {inPanic, TRUE}
Clears == errors' = 0 /\ inPanic' \in {inPanic, FALSE}

\* Every error is counted together with the look at the limit.
LEMMA AllErr ==
    ASSUME NEW input \in BOOLEAN,
           Returns(input) \/ Handles(input) \/ ResetToIdle \/ Forces \/ UserSpeaks
    PROVE  Errs \/ Keeps \/ Clears
<1> USE DEF counters, Keeps, Clears
<1>1. CASE Returns(input)
  BY <1>1 DEF Returns, KernelViolation, GuardBlocks, AwaitInput
<1>2. CASE HandleIdle(input) \/ HandleWaitingUser(input)
  BY <1>2 DEF HandleIdle, HandleWaitingUser, RouteTask
<1>3. CASE HandleBrainstorming
  <2>1. CASE BrainstormFails
    BY <2>1 DEF BrainstormFails, ErrorPanic, Errs
  <2> QED BY <1>3, <2>1
          DEF HandleBrainstorming, BreakStagnation, BrainstormOverBudget,
              RequestTool, Talk, FinishBrainstorm, Ponder, AgentAnswers
<1>4. CASE HandleExecutingTool \/ HandleValidatingCFL
  <2>1. CASE ValidationRaises
    BY <2>1 DEF ValidationRaises, ValidationBreaks, ErrorPanic, Errs
  <2> QED BY <1>4, <2>1 DEF HandleExecutingTool, HandleValidatingCFL, ValidationBreaks, ValidationFails,
                        ValidationPasses
<1>5. CASE HandleSwarm \/ HandleHalted
  BY <1>5 DEF HandleSwarm, HandleHalted
<1>6. CASE HandleEvolution
  BY <1>6
  DEF HandleEvolution, EvolutionStagnates, EvolutionFails, EvolutionFinishes,
      EvolutionContinues, EvolutionOverBudget, EvolutionRaises, EvolutionAnswers
<1>7. CASE ResetToIdle \/ Forces \/ UserSpeaks
  BY <1>7 DEF ResetToIdle, Forces, StartSwarmMode, ForceState, ReopenDebate, ForcedInto,
              UserSpeaks, Stay, counters
<1> QED BY <1>1, <1>2, <1>3, <1>4, <1>5, <1>6, <1>7 DEF Handles

\* So enough errors in a row have declared a panic.
LEMMA PanicsDeclared ==
    ASSUME Sound, Errs \/ Keeps \/ Clears
    PROVE  inPanic' \in BOOLEAN /\ ErrorPanicDeclared'
<1>1. inPanic \in BOOLEAN /\ (errors >= MaxErrors => inPanic)
  BY DEF Sound, TypeOK, ErrorPanicDeclared
<1>2. CASE Errs
  <2>1. inPanic' = (inPanic \/ errors' >= MaxErrors)
    BY <1>2 DEF Errs
  <2> QED BY <1>1, <2>1, Zenon DEF ErrorPanicDeclared
<1>3. CASE Keeps
  <2>1. errors' = errors /\ (inPanic' = inPanic \/ inPanic' = TRUE)
    BY <1>3 DEF Keeps
  <2> QED BY <1>1, <2>1, Zenon DEF ErrorPanicDeclared
<1>4. CASE Clears
  <2>1. ~(errors' >= MaxErrors)
    BY <1>4, BoundsAssumption DEF Clears
  <2>2. inPanic' = inPanic \/ inPanic' = FALSE
    BY <1>4 DEF Clears
  <2> QED BY <1>1, <2>1, <2>2, Zenon DEF ErrorPanicDeclared
<1> QED BY <1>2, <1>3, <1>4

\* The flags beside them: the last message is looked at, and only a caller forces.
LEMMA AllFlags ==
    ASSUME Sound, NEW input \in BOOLEAN,
           Returns(input) \/ Handles(input) \/ ResetToIdle \/ Forces \/ UserSpeaks
    PROVE  /\ toolReady' \in BOOLEAN
           /\ Returns(input) \/ Handles(input) \/ UserSpeaks => forced' = forced
           /\ ResetToIdle => forced' = FALSE
           /\ Forces => forced' = TRUE
<1> USE DEF dialogue, counters, Tick
<1>1. toolReady \in BOOLEAN
  BY DEF Sound, TypeOK
<1>2. Returns(input) => toolReady' = toolReady /\ forced' = forced
  BY DEF Returns, KernelViolation, GuardBlocks, AwaitInput
<1>3. HandleIdle(input) \/ HandleWaitingUser(input) => toolReady' = toolReady /\ forced' = forced
  BY DEF HandleIdle, HandleWaitingUser, RouteTask
<1>4. HandleBrainstorming => toolReady' \in {toolReady, TRUE, FALSE} /\ forced' = forced
  BY DEF HandleBrainstorming, BreakStagnation, BrainstormFails, BrainstormOverBudget,
         RequestTool, Talk, FinishBrainstorm, Ponder, AgentAnswers, Brainstorming
<1>5. HandleExecutingTool \/ HandleValidatingCFL => toolReady' = toolReady /\ forced' = forced
  BY DEF HandleExecutingTool, HandleValidatingCFL, ValidationRaises, ValidationBreaks, ValidationFails,
         ValidationPasses, Validating
<1>6. HandleSwarm \/ HandleHalted => toolReady' = toolReady /\ forced' = forced
  BY DEF HandleSwarm, HandleHalted
<1>7. HandleEvolution => toolReady' \in {toolReady, TRUE, FALSE} /\ forced' = forced
  BY DEF HandleEvolution, EvolutionStagnates, EvolutionFails, EvolutionFinishes,
         EvolutionContinues, EvolutionOverBudget, EvolutionRaises, EvolutionAnswers, Evolving
<1>8. ResetToIdle => toolReady' = FALSE /\ forced' = FALSE
  BY DEF ResetToIdle
<1>9. Forces => toolReady' \in {toolReady, FALSE} /\ forced' = TRUE
  BY DEF Forces, StartSwarmMode, ForceState, ReopenDebate, ForcedInto
<1>10. Handles(input) => toolReady' \in {toolReady, TRUE, FALSE} /\ forced' = forced
  BY <1>3, <1>4, <1>5, <1>6, <1>7 DEF Handles
<1>11. UserSpeaks => toolReady' = FALSE /\ forced' = forced
  BY DEF UserSpeaks
<1> QED BY <1>1, <1>2, <1>8, <1>9, <1>10, <1>11

\* Every operation keeps what is sound.
LEMMA SoundStep ==
    ASSUME Sound, NEW input \in BOOLEAN,
           Returns(input) \/ Handles(input) \/ ResetToIdle \/ Forces \/ UserSpeaks
    PROVE  Sound'
<1>1. state' \in States /\ evolutionMode' \in BOOLEAN /\ EvolutionModeExact'
  BY AllTransit, PermissionsFollow
<1>2. result' \in [state : Results, finished : BOOLEAN]
  BY AllReport, ResultKnown DEF ResultType
<1>3. /\ agent' \in Agents /\ pending' \in Agents \cup {NoTool}
      /\ talk' \in 0 .. Window /\ turn' \in 0 .. (KernelPeriod - 1)
  BY AllPlaces
<1>4. {parseFailures', errors', stalemate'} \subseteq 0 .. Cap
  BY AllCount
<1>5. inPanic' \in BOOLEAN /\ ErrorPanicDeclared'
  BY AllErr, PanicsDeclared
<1>6. forced \in BOOLEAN
  BY DEF Sound, TypeOK
<1>7. toolReady' \in BOOLEAN /\ forced' \in BOOLEAN
  BY <1>6, AllFlags
<1>8. TypeOK'
  BY <1>1, <1>2, <1>3, <1>4, <1>5, <1>7 DEF TypeOK
<1> QED BY <1>1, <1>5, <1>8 DEF Sound

-----------------------------------------------------------------------------
(* Calm: one lemma for each handler *)

\* The registries and counters start out clean.
LEMMA InitInv == Init => IInv
<1> SUFFICES ASSUME Init PROVE IInv
  OBVIOUS
<1>1. result \in [state : Results, finished : BOOLEAN]
  BY DEF Init, Results, States
<1>2. state \in States /\ agent \in Agents /\ pending \in Agents \cup {NoTool}
  BY AgentsAssumption DEF Init, States, Agents, Gemini
<1>3. /\ talk \in 0 .. Window /\ turn \in 0 .. (KernelPeriod - 1)
      /\ {parseFailures, errors, stalemate} \subseteq 0 .. Cap
  BY BoundsAssumption DEF Init
<1>4. evolutionMode \in BOOLEAN /\ toolReady \in BOOLEAN /\ inPanic \in BOOLEAN /\ forced \in BOOLEAN
  BY DEF Init
<1>5. TypeOK
  BY <1>1, <1>2, <1>3, <1>4 DEF TypeOK
<1>6. Driven /\ EvolutionModeExact
  BY DEF Init, Driven, Entered, EvolutionModeExact
<1>7. ErrorPanicDeclared
  BY BoundsAssumption DEF Init, ErrorPanicDeclared
<1>8. Safe
  BY BoundsAssumption DEF Init, Safe, PanicMeansPanic, ResultOwned, ValidationOrder,
     ErrorsHalt, Halted, StalemateStops, NoTool
<1> QED BY <1>5, <1>6, <1>7, <1>8 DEF IInv, Sound, Calm

\* A transition to a state turns reach, or none, leaves the permissions ordinary.
LEMMA Moves == ASSUME Driven, NEW s \in Entered, TransitionTo(s) PROVE Driven'
  BY DEF Driven, Entered, TransitionTo

\* A handler that makes no transition leaves them alone too.
LEMMA Stays == ASSUME Driven, Stay PROVE Driven'
  BY DEF Driven, Stay

USE DEF PanicMeansPanic, ResultOwned, ValidationOrder, ErrorsHalt, StalemateStops,
        Halted, NoTool, counters, dialogue

\* The early returns of process_turn.
LEMMA ReturnsCalm ==
    ASSUME TypeOK, Calm, ~forced, NEW input \in BOOLEAN, Returns(input)
    PROVE  Calm'
<1>1. CASE KernelViolation
  <2>1. Driven'
    BY <1>1, Moves DEF Calm, Entered, KernelViolation
  <2>2. Safe'
    BY <1>1 DEF TypeOK, Calm, Driven, Entered, Safe, KernelViolation, TransitionTo
  <2> QED BY <2>1, <2>2 DEF Calm
<1>2. CASE GuardBlocks(input) \/ AwaitInput(input)
  <2>1. Driven'
    BY <1>2, Stays DEF Calm, GuardBlocks, AwaitInput
  <2>2. UNCHANGED <<state, agent, pending, parseFailures, errors, stalemate, inPanic, forced>>
    BY <1>2 DEF GuardBlocks, AwaitInput, Stay, Tick
  <2>3. Safe'
    BY <2>2 DEF Calm, Safe, GetNext
  <2> QED BY <2>1, <2>3 DEF Calm
<1> QED BY <1>1, <1>2 DEF Returns

\* handle_idle and handle_waiting_user: whatever route a new task takes.
LEMMA IdleCalm ==
    ASSUME TypeOK, Calm, ~forced, NEW input \in BOOLEAN,
           HandleIdle(input) \/ HandleWaitingUser(input)
    PROVE  Calm'
<1> USE DEF HandleIdle, HandleWaitingUser
<1>1. /\ state \in {"IDLE", "WAITING_USER"} /\ errors' \in {0, errors}
      /\ \E n \in 0 .. Window : RouteTask(n)
  BY BoundsAssumption DEF TypeOK
<1>2. Driven' /\ state' \in {"IDLE", "WAITING_USER", "BRAINSTORMING"}
  BY <1>1 DEF Calm, Driven, Entered, RouteTask, StartBrainstorm, AnswerTrivial, HiveEnds,
              SwarmCompletes, TransitionTo
<1>3. UNCHANGED <<pending, parseFailures, stalemate, inPanic>>
  BY <1>1 DEF RouteTask
<1>4. /\ errors = 0 /\ parseFailures = 0 /\ pending = NoTool /\ inPanic = FALSE
      /\ stalemate <= MaxStalemate /\ stalemate # MaxStalemate
  BY <1>1 DEF TypeOK, Calm, Safe
<1>5. Safe'
  BY <1>1, <1>2, <1>3, <1>4 DEF Safe
<1> QED BY <1>2, <1>5 DEF Calm

\* handle_brainstorming, one way out at a time.
LEMMA BrainstormingCalm ==
    ASSUME TypeOK, Calm, ~forced, HandleBrainstorming
    PROVE  Calm'
<1> USE DEF Brainstorming, AgentAnswers
<1>1. CASE BreakStagnation \/ Talk \/ Ponder
  <2>1. Driven'
    BY <1>1, Stays DEF Calm, BreakStagnation, Talk, Ponder
  <2>2. /\ state = "BRAINSTORMING" /\ UNCHANGED <<state, pending, stalemate, inPanic>>
        /\ errors' \in {0, errors} /\ parseFailures' \in {0, parseFailures}
    BY <1>1 DEF BreakStagnation, Talk, Ponder, Stay
  <2>3. Safe'
    BY <2>2, BoundsAssumption DEF TypeOK, Calm, Safe
  <2> QED BY <2>1, <2>3 DEF Calm
<1>2. CASE BrainstormFails
  <2>1. Driven'
    BY <1>2, Moves DEF Calm, Entered, BrainstormFails
  <2>2. /\ errors = 0 /\ parseFailures = 0 /\ inPanic = FALSE /\ pending = NoTool
        /\ stalemate <= MaxStalemate /\ stalemate # MaxStalemate
    BY <1>2 DEF TypeOK, Calm, Safe, BrainstormFails
  <2>3. Counted(0) = 1 /\ ~(1 >= MaxErrors) /\ ~(1 >= MaxParseFailures)
    BY Counting, BoundsAssumption
  <2>4. errors' = 1 /\ parseFailures' = 1
    BY <1>2, <2>2, <2>3 DEF BrainstormFails
  <2>5. ~ErrorPanic
    BY <2>3, <2>4 DEF ErrorPanic
  <2>6. inPanic' = FALSE /\ state' = "ERROR" /\ UNCHANGED <<pending, stalemate>>
    <3>1. inPanic' = (inPanic \/ ErrorPanic)
      BY <1>2 DEF BrainstormFails
    <3>2. inPanic' = FALSE
      BY <2>2, <2>5, <3>1, Zenon
    <3>3. state' = "ERROR" /\ UNCHANGED <<pending, stalemate>>
      BY <1>2, <2>3, <2>4, <2>5, Zenon DEF BrainstormFails, TransitionTo
    <3> QED BY <3>2, <3>3
  <2>7. Safe'
    BY <2>2, <2>4, <2>6 DEF Safe
  <2> QED BY <2>1, <2>7 DEF Calm
<1>3. CASE RequestTool \/ FinishBrainstorm \/ BrainstormOverBudget
  <2>1. Driven'
    BY <1>3, Moves DEF Calm, Entered, RequestTool, FinishBrainstorm, BrainstormOverBudget
  <2>2. /\ state = "BRAINSTORMING" /\ state' \in {"EXECUTING_TOOL", "IDLE", "ERROR"}
        /\ errors' = 0 /\ parseFailures' = 0 /\ UNCHANGED <<pending, stalemate, inPanic>>
    BY <1>3 DEF RequestTool, FinishBrainstorm, BrainstormOverBudget, TransitionTo
  <2>3. pending = NoTool /\ inPanic = FALSE /\ stalemate <= MaxStalemate /\ stalemate # MaxStalemate
    BY <2>2 DEF TypeOK, Calm, Safe
  <2>4. Safe'
    BY <2>2, <2>3 DEF Safe
  <2> QED BY <2>1, <2>4 DEF Calm
<1> QED BY <1>1, <1>2, <1>3 DEF HandleBrainstorming

\* handle_executing_tool: the floor passes on and the result is the requester's.
LEMMA ToolCalm ==
    ASSUME TypeOK, Calm, ~forced, HandleExecutingTool
    PROVE  Calm'
<1>1. CASE toolReady
  <2>1. Driven'
    BY <1>1, Moves DEF Calm, Entered, HandleExecutingTool
  <2>2. Safe'
    BY <1>1 DEF TypeOK, Calm, Agents, Safe, HandleExecutingTool, TransitionTo
  <2> QED BY <2>1, <2>2 DEF Calm
<1>2. CASE ~toolReady
  <2>1. Driven'
    BY <1>2, Stays DEF Calm, HandleExecutingTool
  <2>2. Safe'
    BY <1>2 DEF TypeOK, Calm, Safe, HandleExecutingTool, Stay
  <2> QED BY <2>1, <2>2 DEF Calm
<1> QED BY <1>1, <1>2

\* handle_validating_cfl; the limits are compared after counting.
LEMMA ValidationCalm ==
    ASSUME TypeOK, Calm, ~forced, HandleValidatingCFL
    PROVE  Calm'
<1> USE DEF Validating
<1>1. state = "VALIDATING_CFL"
  BY DEF HandleValidatingCFL, ValidationRaises, ValidationBreaks, ValidationPasses, ValidationFails
<1>2. /\ errors = 0 /\ parseFailures = 0 /\ inPanic = FALSE
      /\ stalemate \in Nat /\ stalemate < MaxStalemate
  BY <1>1, BoundsAssumption DEF TypeOK, Calm, Safe
<1>3. CASE ValidationRaises
  <2>1. Driven'
    BY <1>3, Moves DEF Calm, Entered, ValidationRaises
  <2>2. Counted(0) = 1 /\ ~(1 >= MaxErrors)
    BY Counting, BoundsAssumption
  <2>3. errors' = 1 /\ ~ErrorPanic
    BY <1>2, <1>3, <2>2 DEF ValidationRaises, ValidationBreaks, ErrorPanic
  <2>4. inPanic' = FALSE /\ state' = "ERROR" /\ UNCHANGED <<pending, stalemate, parseFailures>>
    <3>1. inPanic' = (inPanic \/ ErrorPanic)
      BY <1>3 DEF ValidationRaises
    <3>2. inPanic' = FALSE
      BY <1>2, <2>3, <3>1, Zenon
    <3>3. state' = "ERROR" /\ UNCHANGED <<pending, stalemate, parseFailures>>
      BY <1>3, <2>3, Zenon DEF ValidationRaises, ValidationBreaks, TransitionTo
    <3> QED BY <3>2, <3>3
  <2>5. Safe'
    BY <1>2, <2>3, <2>4, BoundsAssumption DEF Safe
  <2> QED BY <2>1, <2>5 DEF Calm
<1>4. ASSUME NEW finished \in BOOLEAN, ValidationPasses(finished) PROVE Calm'
  <2>1. Driven'
    BY <1>4, Moves DEF Calm, Entered, ValidationPasses
  <2>2. errors' = 0 /\ stalemate' = 0 /\ pending' = NoTool /\ UNCHANGED <<parseFailures, inPanic>>
    BY <1>4 DEF ValidationPasses
  <2>3. state' \in {"IDLE", "BRAINSTORMING"}
    BY <1>4 DEF ValidationPasses, TransitionTo
  <2>4. Safe'
    BY <1>2, <2>2, <2>3, BoundsAssumption DEF Safe
  <2> QED BY <2>1, <2>4 DEF Calm
<1>5. CASE ValidationFails
  <2>1. Driven'
    BY <1>5, Moves DEF Calm, Entered, ValidationFails
  <2>2. /\ pending' = NoTool /\ UNCHANGED <<errors, parseFailures>>
        /\ stalemate' = Counted(stalemate)
    BY <1>5 DEF ValidationFails
  <2>3. Counted(stalemate) = stalemate + 1
    BY <1>2, Counting, BoundsAssumption DEF TypeOK
  <2>4. CASE StalematePanic
    <3>1. inPanic' = TRUE /\ state' = "PANIC"
      BY <1>5, <2>4 DEF ValidationFails, TransitionTo
    <3>2. stalemate' = MaxStalemate
      BY <1>2, <2>2, <2>3, <2>4, BoundsAssumption DEF StalematePanic
    <3> QED BY <1>2, <2>1, <2>2, <3>1, <3>2, BoundsAssumption DEF Safe, Calm
  <2>5. CASE ~StalematePanic
    <3>1. inPanic' = FALSE /\ state' = "BRAINSTORMING"
      BY <1>2, <1>5, <2>5 DEF ValidationFails, TransitionTo
    <3>2. stalemate' <= MaxStalemate /\ stalemate' # MaxStalemate
      BY <1>2, <2>2, <2>3, <2>5, BoundsAssumption DEF StalematePanic
    <3> QED BY <1>2, <2>1, <2>2, <3>1, <3>2 DEF Safe, Calm
  <2> QED BY <2>4, <2>5
<1>6. CASE ValidationBreaks
  <2>1. Driven'
    BY <1>6, Stays DEF Calm, ValidationBreaks
  <2>2. Safe'
    BY <1>6 DEF Calm, Safe, ValidationBreaks, Stay, GetNext
  <2> QED BY <2>1, <2>2 DEF Calm
<1> QED BY <1>3, <1>4, <1>5, <1>6 DEF HandleValidatingCFL

\* ERROR and PANIC ignore turns.
LEMMA HaltedCalm == ASSUME TypeOK, Calm, ~forced, HandleHalted PROVE Calm'
<1>1. Driven'
  BY Stays DEF Calm, HandleHalted
<1>2. Safe'
  BY DEF TypeOK, Calm, Safe, HandleHalted, Stay
<1> QED BY <1>1, <1>2 DEF Calm

\* Turns find nothing to do for the handlers of the states only callers enter.
LEMMA OnlyEntered == ASSUME Calm PROVE ~HandleSwarm /\ ~HandleEvolution
  BY DEF Calm, Driven, Entered, HandleSwarm, HandleEvolution, EvolutionStagnates, EvolutionFails,
         EvolutionFinishes, EvolutionContinues, EvolutionOverBudget, EvolutionRaises,
         EvolutionAnswers, Evolving

\* reset_to_idle calms the machine down, wherever it was forced to.
LEMMA ResetCalms == ASSUME Sound, ResetToIdle PROVE Calm'
<1>1. state' = "IDLE"
  BY DEF ResetToIdle, TransitionTo
<1>2. evolutionMode' = FALSE
  <2>1. evolutionMode <=> state = "EVOLUTION_BRAINSTORM"
    BY DEF Sound, EvolutionModeExact
  <2>2. evolutionMode' = (evolutionMode /\ state # "EVOLUTION_BRAINSTORM")
    BY DEF ResetToIdle, TransitionTo
  <2> QED BY <2>1, <2>2, Zenon
<1>3. Safe'
  BY <1>1, BoundsAssumption DEF Safe, ResetToIdle
<1> QED BY <1>1, <1>2, <1>3 DEF Calm, Driven, Entered

\* Every operation preserves the invariant.
LEMMA NextInv == IInv /\ [Next]_vars => IInv'
<1> SUFFICES ASSUME IInv, [Next]_vars PROVE IInv'
  OBVIOUS
<1>1. ASSUME NEW input \in BOOLEAN, ProcessTurn(input) PROVE IInv'
  <2>1. Returns(input) \/ Handles(input)
    BY <1>1 DEF ProcessTurn, Returns, Handles
  <2>2. Sound' /\ forced' = forced
    BY <2>1, SoundStep, AllFlags DEF IInv
  <2>3. ASSUME ~forced PROVE Calm'
    <3>1. TypeOK /\ Calm
      BY <2>3 DEF IInv, Sound
    <3> QED BY <2>1, <2>3, <3>1, ReturnsCalm, IdleCalm, BrainstormingCalm, ToolCalm,
               ValidationCalm, HaltedCalm, OnlyEntered DEF Handles
  <2> QED BY <2>2, <2>3 DEF IInv
<1>2. CASE ResetToIdle
  <2>1. Sound' /\ Calm'
    BY <1>2, SoundStep, ResetCalms DEF IInv
  <2> QED BY <2>1 DEF IInv
<1>3. CASE Forces
  <2>1. Sound' /\ forced' = TRUE
    BY <1>3, SoundStep, AllFlags DEF IInv
  <2> QED BY <2>1 DEF IInv
<1>4. CASE UserSpeaks
  <2>1. Sound' /\ forced' = forced
    BY <1>4, SoundStep, AllFlags DEF IInv
  <2>2. Calm => Calm'
    BY <1>4 DEF UserSpeaks, Calm, Driven, Safe, GetNext
  <2> QED BY <2>1, <2>2 DEF IInv
<1>5. CASE UNCHANGED vars
  <2>1. Sound' /\ forced' = forced
    BY <1>5 DEF vars, IInv, Sound, TypeOK, EvolutionModeExact, ErrorPanicDeclared
  <2>2. Calm => Calm'
    BY <1>5 DEF vars, Calm, Driven, Safe, GetNext
  <2> QED BY <2>1, <2>2 DEF IInv
<1> QED BY <1>1, <1>2, <1>3, <1>4, <1>5 DEF Next

-----------------------------------------------------------------------------
(* Theorems *)

\* The inductive invariant holds of every behaviour.
THEOREM Invariance == Spec => []IInv
<1> QED BY InitInv, NextInv, PTL DEF Spec

\* Every variable keeps its type, for any number of agents and any thresholds.
THEOREM TypeCorrect == Spec => []TypeOK
<1>1. IInv => TypeOK
  BY DEF IInv, Sound
<1> QED BY <1>1, Invariance, PTL

\* However the machine is driven, the extended permissions are held in the evolution
\* debate and nowhere else.
THEOREM PermissionsExact == Spec => []EvolutionModeExact
<1>1. IInv => EvolutionModeExact
  BY DEF IInv, Sound
<1> QED BY <1>1, Invariance, PTL

\* However it is driven, too many errors in a row have declared a panic.
THEOREM ErrorsPanic == Spec => []ErrorPanicDeclared
<1>1. IInv => ErrorPanicDeclared
  BY DEF IInv, Sound
<1> QED BY <1>1, Invariance, PTL

\* Unless a caller forces the state, a declared panic and the PANIC state go together,
\* and the stalemate limit is reached only by stopping there.
THEOREM PanicSafe == Spec => []PanicSafety
<1>1. IInv => PanicSafety
  BY DEF IInv, Calm, Safe, PanicSafety
<1> QED BY <1>1, Invariance, PTL

\* A tool result exists exactly while it is validated or the machine is halted.
THEOREM ResultsOwned == Spec => [](ResultOwned /\ ValidationOrder)
<1>1. IInv => ResultOwned /\ ValidationOrder
  BY DEF IInv, Calm, Safe
<1> QED BY <1>1, Invariance, PTL

\* One error is all a task can see: the panic after several is unreachable.
THEOREM ErrorsAlwaysHalt == Spec => []ErrorsHalt
<1>1. IInv => ErrorsHalt
  BY DEF IInv, Calm, Safe
<1> QED BY <1>1, Invariance, PTL

\* validating_cfl.py: with three agents or more the validator is never the requester.
THEOREM CrossValidation ==
    ASSUME NAgents > 2
    PROVE  Spec => []CrossValidated
<1>1. IInv => CrossValidated
  BY TwoHandOvers DEF IInv, Sound, Calm, Safe, TypeOK, CrossValidated, Validator
<1> QED BY <1>1, Invariance, PTL

\* With the two agents the program ships with, every result of a task is judged by
\* the agent that asked for it.
THEOREM SelfValidation ==
    ASSUME NAgents = 2
    PROVE  Spec => [](state = "VALIDATING_CFL" /\ ~forced => Validator = pending)
<1>1. IInv => (state = "VALIDATING_CFL" /\ ~forced => Validator = pending)
  BY TwoHandOvers DEF IInv, Sound, Calm, Safe, TypeOK, Validator
<1> QED BY <1>1, Invariance, PTL

\* ERROR and PANIC are left by a reset or by force, never by a turn.
THEOREM OnlyResetRecovers == Spec => HaltedUntilReset
<1>1. [Next]_vars =>
        [(state \in {"ERROR", "PANIC"} /\ state' \notin {"ERROR", "PANIC"})
            => ResetToIdle \/ Forces]_vars
  <2> SUFFICES ASSUME [Next]_vars, state \in {"ERROR", "PANIC"},
                      state' \notin {"ERROR", "PANIC"}
               PROVE  ResetToIdle \/ Forces
    OBVIOUS
  <2>1. ASSUME NEW input \in BOOLEAN, ProcessTurn(input) PROVE FALSE
    <3> USE DEF TransitionTo, Stay
    <3>1. ~KernelViolation
      BY DEF KernelViolation
    <3>2. ~GuardBlocks(input) /\ ~AwaitInput(input) /\ ~HandleHalted
      BY DEF GuardBlocks, AwaitInput, HandleHalted
    <3>3. ~HandleIdle(input) /\ ~HandleWaitingUser(input)
      BY DEF HandleIdle, HandleWaitingUser
    <3>4. ~HandleBrainstorming
      BY DEF HandleBrainstorming, BreakStagnation, BrainstormFails, BrainstormOverBudget,
             RequestTool, Talk, FinishBrainstorm, Ponder, AgentAnswers, Brainstorming
    <3>5. ~HandleExecutingTool /\ ~HandleValidatingCFL
      BY DEF HandleExecutingTool, HandleValidatingCFL, ValidationRaises, ValidationBreaks, ValidationFails,
             ValidationPasses, Validating
    <3>6. ~HandleSwarm /\ ~HandleEvolution
      BY DEF HandleSwarm, HandleEvolution, EvolutionStagnates, EvolutionFails,
             EvolutionFinishes, EvolutionContinues, EvolutionOverBudget, EvolutionRaises,
             EvolutionAnswers, Evolving
    <3> QED BY <2>1, <3>1, <3>2, <3>3, <3>4, <3>5, <3>6 DEF ProcessTurn
  <2>2. ~UserSpeaks
    BY DEF UserSpeaks
  <2> QED BY <2>1, <2>2 DEF Next, vars
<1> QED BY <1>1, PTL DEF Spec, HaltedUntilReset
=============================================================================

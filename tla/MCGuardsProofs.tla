----------------------------- MODULE MCGuardsProofs -----------------------------
(***************************************************************************)
(* Safety of the guards, for any callers, thresholds and timeouts.  As     *)
(* MCGuards explores them, so are they proved here: each over its own      *)
(* Spec, the lock in AsyncRWLockProofs, and all of them of the sum.        *)
(***************************************************************************)
EXTENDS MCGuards, AsyncRWLockProofs, TLAPS

-----------------------------------------------------------------------------
(* The failover.  The level of a driver says how often it failed in a row,  *)
(* and an open circuit runs its time.                                       *)

\* What the invariant says of one driver.
LevelMatches(s) ==
    /\ s.status = "healthy" => s.failures < Failover!Half
    /\ s.status = "degraded" => s.failures = Failover!Half /\ Failover!Half < Threshold

PoolGood(s) == s \in Failover!States \cup {Failover!Unregistered} /\ LevelMatches(s)

Slots == Drivers \cup {Failover!Idle}

PoolInv ==
    /\ pool \in [Drivers -> Failover!States \cup {Failover!Unregistered}]
    /\ \A d \in Drivers : LevelMatches(pool[d])
    /\ calls \in [Callers -> Slots]

\* An open circuit stays open and grows older, is tested when it is due, or goes.
PoolKept(s, t) ==
    s.status = "circuit_open" =>
       \/ t.status = "circuit_open" /\ t.age >= s.age
       \/ t.status = "recovering" /\ s.age >= Recovery
       \/ t.status = "absent"

\* A driver that does not change keeps what it is.
LEMMA SameKept ==
    ASSUME Failover!PoolAssumption, NEW s, PoolGood(s)
    PROVE  PoolKept(s, s)
  BY DEF PoolGood, PoolKept, Failover!States, Failover!Unregistered, Failover!PoolAssumption

\* Each driver of the pool is good.
LEMMA AllGood == ASSUME PoolInv, NEW d \in Drivers PROVE PoolGood(pool[d])
  BY DEF PoolInv, PoolGood

\* Half the threshold is a count, and at least one failure.
LEMMA HalfIsNat ==
    ASSUME Failover!PoolAssumption
    PROVE  Failover!Half \in Nat \ {0} /\ Threshold \in Nat \ {0} /\ Recovery \in Nat
  BY DEF Failover!PoolAssumption, Failover!Half

\* Registration and its opposite.
LEMMA FixedGood ==
    ASSUME Failover!PoolAssumption
    PROVE  PoolGood(Failover!Fresh) /\ PoolGood(Failover!Unregistered)
<1>1. Failover!Fresh \in Failover!States /\ LevelMatches(Failover!Fresh)
  BY HalfIsNat
     DEF Failover!PoolAssumption, Failover!Fresh, Failover!States, Failover!Levels, LevelMatches
<1>2. LevelMatches(Failover!Unregistered)
  BY DEF Failover!Unregistered, LevelMatches
<1> QED BY <1>1, <1>2 DEF PoolGood

\* record_success
LEMMA SucceededGood ==
    ASSUME Failover!PoolAssumption, NEW s \in Failover!States, LevelMatches(s)
    PROVE  PoolGood(Failover!Succeeded(s)) /\ PoolKept(s, Failover!Succeeded(s))
<1> DEFINE t == Failover!Succeeded(s)
           l == IF s.status \in {"recovering", "degraded"} THEN "healthy" ELSE s.status
<1>1. l \in Failover!Levels /\ l # "degraded" /\ (s.status = "circuit_open" => l = "circuit_open")
  BY DEF Failover!States, Failover!Levels
<1>2. t = [s EXCEPT !.failures = 0, !.status = l]
  BY DEF Failover!Succeeded
<1> HIDE DEF l
<1>3. t \in Failover!States /\ t.status = l /\ t.failures = 0 /\ t.age = s.age
  <2>1. l \in Failover!Levels /\ 0 \in 0 .. Cap
    BY <1>1 DEF Failover!PoolAssumption
  <2> QED BY <1>2, <2>1 DEF Failover!States
<1> HIDE DEF t
<1>4. LevelMatches(t)
  BY <1>1, <1>3, HalfIsNat DEF LevelMatches
<1>5. t.age >= s.age
  BY <1>3 DEF Failover!States, Failover!PoolAssumption
<1> QED BY <1>1, <1>3, <1>4, <1>5 DEF PoolGood, PoolKept, t

\* One more failure takes a driver to the level its count stands for.
LEMMA LevelGood ==
    ASSUME Failover!PoolAssumption, NEW s \in Failover!States, LevelMatches(s),
           NEW n \in 0 .. Cap,
           n = IF s.failures < Cap THEN s.failures + 1 ELSE Cap
    PROVE  /\ Failover!LevelAfter(s, n) \in Failover!Levels
           /\ Failover!LevelAfter(s, n) = "healthy" => n < Failover!Half
           /\ Failover!LevelAfter(s, n) = "degraded" => n = Failover!Half /\ Failover!Half < Threshold
           /\ s.status = "circuit_open" => Failover!LevelAfter(s, n) = "circuit_open"
<1>1. s.status \in Failover!Levels /\ s.failures \in 0 .. Cap
  BY DEF Failover!States
<1>2. /\ s.status = "healthy" => n <= Failover!Half
      /\ s.status = "degraded" => n >= Failover!Half
  BY <1>1, HalfIsNat DEF Failover!PoolAssumption, LevelMatches
<1>3. CASE s.status = "recovering" \/ n >= Threshold
  BY <1>3 DEF Failover!LevelAfter, Failover!Levels
<1>4. CASE ~(s.status = "recovering" \/ n >= Threshold)
  BY <1>1, <1>2, <1>4, HalfIsNat
     DEF Failover!PoolAssumption, Failover!LevelAfter, Failover!Levels
<1> QED BY <1>3, <1>4

\* record_failure
LEMMA FailedGood ==
    ASSUME Failover!PoolAssumption, NEW s \in Failover!States, LevelMatches(s)
    PROVE  PoolGood(Failover!Failed(s)) /\ PoolKept(s, Failover!Failed(s))
<1> DEFINE n == IF s.failures < Cap THEN s.failures + 1 ELSE Cap
           l == Failover!LevelAfter(s, n)
           a == IF l # s.status THEN 0 ELSE s.age
           t == Failover!Failed(s)
<1>1. n \in 0 .. Cap
  BY DEF Failover!PoolAssumption, Failover!States
<1>2. /\ l \in Failover!Levels /\ (l = "healthy" => n < Failover!Half)
      /\ l = "degraded" => n = Failover!Half /\ Failover!Half < Threshold
      /\ s.status = "circuit_open" => l = "circuit_open"
  BY <1>1, LevelGood
<1>3. a \in 0 .. Recovery
  BY DEF Failover!PoolAssumption, Failover!States
<1>4. t = [status |-> l, failures |-> n, age |-> a]
  BY DEF Failover!Failed
<1> HIDE DEF n, l, a, t
<1>5. t \in Failover!States /\ t.status = l /\ t.failures = n /\ t.age = a
  BY <1>1, <1>2, <1>3, <1>4 DEF Failover!States
<1>6. LevelMatches(t)
  BY <1>2, <1>5 DEF LevelMatches
<1>7. l = s.status => a >= s.age
  BY <1>3 DEF Failover!PoolAssumption, a
<1> QED BY <1>2, <1>5, <1>6, <1>7 DEF PoolGood, PoolKept, t

\* The first loop of select_driver.
LEMMA CoolsDownGood ==
    ASSUME Failover!PoolAssumption, NEW s, PoolGood(s)
    PROVE  PoolGood(Failover!CoolsDown(s)) /\ PoolKept(s, Failover!CoolsDown(s))
<1>1. CASE s.status = "circuit_open" /\ s.age >= Recovery
  <2> DEFINE t == Failover!CoolsDown(s)
  <2>1. s \in Failover!States
    BY <1>1 DEF PoolGood, Failover!Unregistered
  <2>2. t = [s EXCEPT !.status = "recovering"]
    BY <1>1 DEF Failover!CoolsDown
  <2>3. t \in Failover!States /\ t.status = "recovering"
    BY <2>1, <2>2 DEF Failover!States, Failover!Levels
  <2> HIDE DEF t
  <2> QED BY <1>1, <2>3 DEF PoolGood, LevelMatches, PoolKept, t
<1>2. CASE ~(s.status = "circuit_open" /\ s.age >= Recovery)
  BY <1>2, SameKept DEF Failover!CoolsDown
<1> QED BY <1>1, <1>2

\* The passing of time.
LEMMA OlderGood ==
    ASSUME Failover!PoolAssumption, NEW s, PoolGood(s), s.status = "circuit_open",
           s.age < Recovery
    PROVE  PoolGood([s EXCEPT !.age = @ + 1]) /\ PoolKept(s, [s EXCEPT !.age = @ + 1])
<1> DEFINE t == [s EXCEPT !.age = @ + 1]
<1>1. s \in Failover!States
  BY DEF PoolGood, Failover!Unregistered
<1>2. s.age + 1 \in 0 .. Recovery
  BY <1>1 DEF Failover!PoolAssumption, Failover!States
<1>3. t \in Failover!States /\ t.status = "circuit_open" /\ t.age >= s.age
  BY <1>1, <1>2 DEF Failover!States, Failover!PoolAssumption
<1> HIDE DEF t
<1> QED BY <1>3 DEF PoolGood, LevelMatches, PoolKept, t

\* A pool whose drivers are all good, after a step that changes one of them.
LEMMA OneDriver ==
    ASSUME Failover!PoolAssumption, PoolInv, NEW d \in Drivers, NEW t, PoolGood(t),
           PoolKept(pool[d], t),
           pool' = [pool EXCEPT ![d] = t], calls' \in [Callers -> Slots]
    PROVE  PoolInv' /\ \A e \in Drivers : PoolKept(pool[e], pool'[e])
<1>1. pool' \in [Drivers -> Failover!States \cup {Failover!Unregistered}]
  BY DEF PoolInv, PoolGood
<1>2. \A e \in Drivers : pool'[e] = IF e = d THEN t ELSE pool[e]
  BY DEF PoolInv
<1>3. \A e \in Drivers : PoolKept(pool[e], pool[e])
  BY AllGood, SameKept
<1>4. \A e \in Drivers : LevelMatches(pool'[e]) /\ PoolKept(pool[e], pool'[e])
  BY <1>2, <1>3 DEF PoolInv, PoolGood
<1> QED BY <1>1, <1>4 DEF PoolInv, LevelMatches

PoolStep == PoolInv' /\ \A e \in Drivers : PoolKept(pool[e], pool'[e])

\* Selections change open circuits at most, and only into tests.
LEMMA SelectKeeps ==
    ASSUME Failover!PoolAssumption, PoolInv, NEW c \in Callers, Failover!Select(c)
    PROVE  PoolStep
<1>1. \A d \in Drivers : pool'[d] = Failover!CoolsDown(pool[d])
  BY DEF Failover!Select
<1>2. \A d \in Drivers : PoolGood(pool'[d]) /\ PoolKept(pool[d], pool'[d])
  BY <1>1, AllGood, CoolsDownGood
<1>3. pool' \in [Drivers -> Failover!States \cup {Failover!Unregistered}]
  BY <1>2 DEF Failover!Select, PoolGood
<1>4. calls' \in [Callers -> Slots]
  <2>1. CASE UNCHANGED calls
    BY <2>1 DEF PoolInv
  <2>2. ASSUME NEW d \in Drivers, calls' = [calls EXCEPT ![c] = d]
        PROVE  calls' \in [Callers -> Slots]
    BY <2>2 DEF PoolInv, Slots
  <2> QED BY <2>1, <2>2 DEF Failover!Select
<1> QED BY <1>2, <1>3, <1>4 DEF PoolInv, PoolGood, LevelMatches, PoolStep

\* The result of a call.
LEMMA EndsKeeps ==
    ASSUME Failover!PoolAssumption, PoolInv, NEW c \in Callers, Failover!Ends(c)
    PROVE  PoolStep
<1> DEFINE d == calls[c]
<1>1. calls' \in [Callers -> Slots]
  BY DEF Failover!Ends, PoolInv, Slots
<1>2. d \in Drivers
  BY DEF Failover!Ends, PoolInv, Slots
<1>3. CASE UNCHANGED pool
  <2>1. \A e \in Drivers : PoolKept(pool[e], pool'[e])
    BY <1>3, AllGood, SameKept
  <2> QED BY <1>1, <1>3, <2>1 DEF PoolInv, LevelMatches, PoolStep
<1>4. CASE pool[d].status # "absent"
  <2>1. pool[d] \in Failover!States /\ LevelMatches(pool[d])
    BY <1>2, <1>4 DEF PoolInv, Failover!Unregistered
  <2>2. \/ pool' = [pool EXCEPT ![d] = Failover!Succeeded(pool[d])]
        \/ pool' = [pool EXCEPT ![d] = Failover!Failed(pool[d])]
    BY <1>4 DEF Failover!Ends
  <2> HIDE DEF d
  <2> QED BY <1>1, <1>2, <2>1, <2>2, SucceededGood, FailedGood, OneDriver DEF PoolStep
<1> QED BY <1>3, <1>4 DEF Failover!Ends

\* Registration and its opposite.
LEMMA RegistrationKeeps ==
    ASSUME Failover!PoolAssumption, PoolInv, NEW d \in Drivers,
           Failover!Register(d) \/ Failover!Unregister(d)
    PROVE  PoolStep
<1>1. calls' \in [Callers -> Slots]
  BY DEF PoolInv, Failover!Register, Failover!Unregister
<1>2. CASE Failover!Register(d)
  <2>1. PoolKept(pool[d], Failover!Fresh)
    BY <1>2 DEF Failover!Register, PoolKept
  <2> QED BY <1>1, <1>2, <2>1, FixedGood, OneDriver DEF Failover!Register, PoolStep
<1>3. CASE Failover!Unregister(d)
  <2>1. PoolKept(pool[d], Failover!Unregistered)
    BY DEF PoolKept, Failover!Unregistered
  <2> QED BY <1>1, <1>3, <2>1, FixedGood, OneDriver DEF Failover!Unregister, PoolStep
<1> QED BY <1>2, <1>3

\* The passing of time.
LEMMA TickKeeps == ASSUME Failover!PoolAssumption, PoolInv, Failover!Tick PROVE PoolStep
<1> DEFINE Open(d) == pool[d].status = "circuit_open" /\ pool[d].age < Recovery
<1>1. \A d \in Drivers :
         pool'[d] = IF Open(d) THEN [pool[d] EXCEPT !.age = @ + 1] ELSE pool[d]
  BY DEF Failover!Tick
<1>2. ASSUME NEW d \in Drivers PROVE PoolGood(pool'[d]) /\ PoolKept(pool[d], pool'[d])
  <2>1. PoolGood(pool[d]) /\ PoolKept(pool[d], pool[d])
    BY AllGood, SameKept
  <2> QED BY <1>1, <2>1, OlderGood
<1>3. pool' \in [Drivers -> Failover!States \cup {Failover!Unregistered}]
  BY <1>2 DEF Failover!Tick, PoolGood
<1> QED BY <1>2, <1>3 DEF Failover!Tick, PoolInv, PoolGood, LevelMatches, PoolStep

\* Every step keeps the invariant.
LEMMA PoolKeeps ==
    ASSUME Failover!PoolAssumption
    PROVE  PoolInv /\ [Failover!Next]_Failover!vars => PoolStep
<1> SUFFICES ASSUME PoolInv, [Failover!Next]_Failover!vars PROVE PoolStep
  OBVIOUS
<1>1. CASE UNCHANGED Failover!vars
  <2>1. \A e \in Drivers : PoolKept(pool[e], pool'[e])
    BY <1>1, AllGood, SameKept DEF Failover!vars
  <2> QED BY <1>1, <2>1 DEF Failover!vars, PoolInv, LevelMatches, PoolStep
<1> QED BY <1>1, SelectKeeps, EndsKeeps, RegistrationKeeps, TickKeeps DEF Failover!Next

\* The invariant holds at the start.
LEMMA PoolStart == ASSUME Failover!PoolAssumption PROVE Failover!Init => PoolInv
  BY FixedGood DEF Failover!Init, PoolInv, PoolGood, Slots

\* failover_manager.py, for any drivers, thresholds and callers: type correctness,
\* and a driver's level says how often it failed in a row, as the code escalates.
THEOREM LevelsAlwaysMatch == Failover!Spec => [](Failover!TypeOK /\ LevelsMatchCounts)
<1>0. Failover!PoolAssumption
  BY InstancesAreAssumed
<1>1. PoolInv /\ [Failover!Next]_Failover!vars => PoolInv'
  BY <1>0, PoolKeeps DEF PoolStep
<1>2. PoolInv => Failover!TypeOK /\ LevelsMatchCounts
  BY DEF PoolInv, LevelMatches, Slots, Failover!TypeOK, LevelsMatchCounts,
         Failover!LevelsMatchCounts
<1> QED BY <1>0, PoolStart, <1>1, <1>2, PTL DEF Failover!Spec

\* failover_manager.py: a driver's open circuit runs its time.  It ends with a selection
\* after the timeout, or with its driver, and no result that is late changes its age.
THEOREM OpenCircuitsRunTheirTime == Failover!Spec => OpenRunsItsTime
<1>0. Failover!PoolAssumption
  BY InstancesAreAssumed
<1>1. PoolInv /\ [Failover!Next]_Failover!vars => PoolInv'
  BY <1>0, PoolKeeps DEF PoolStep
<1>2. PoolInv /\ [Failover!Next]_Failover!vars =>
        [\A d \in Drivers : pool[d].status = "circuit_open" =>
            \/ pool'[d].status = "circuit_open" /\ pool'[d].age >= pool[d].age
            \/ pool'[d].status = "recovering" /\ pool[d].age >= Recovery
            \/ pool'[d].status = "absent"]_Failover!vars
  BY <1>0, PoolKeeps DEF PoolStep, PoolKept
<1> QED BY <1>0, PoolStart, <1>1, <1>2, PTL
        DEF Failover!Spec, OpenRunsItsTime, Failover!OpenRunsItsTime

-----------------------------------------------------------------------------
(* The breakers.  What CircuitBreakerProofs shows of a breaker's fields      *)
(* holds of the breaker that stands alone, of the global one and of each     *)
(* provider's, by their parameters.                                          *)

AloneFacts == INSTANCE CircuitBreakerProofs WITH
    calls <- served, Callers <- BreakerCallers, Threshold <- BreakerThreshold,
    Recovery <- BreakerRecovery, Cap <- BreakerCap
GlobalFacts == INSTANCE CircuitBreakerProofs WITH
    circuit <- global, calls <- [c \in {} |-> "idle"], Threshold <- GlobalThreshold,
    Recovery <- GlobalRecovery, MaxBackoff <- GlobalMaxBackoff, Cap <- CascadeCap
ProviderFacts == INSTANCE CircuitBreakerProofs WITH
    circuit <- global, calls <- [c \in {} |-> "idle"], Threshold <- ProviderThreshold,
    Recovery <- ProviderRecovery, MaxBackoff <- ProviderMaxBackoff, Cap <- CascadeCap

\* circuit_breaker.py, a breaker alone: the circuit is closed exactly while fewer
\* failures than the threshold were counted, and the backoff stays in its limits.
THEOREM BreakerKeepsCount == Breaker!Spec => [](Breaker!TripsExactly /\ Breaker!BackoffBounded)
<1>0. AloneFacts!BreakerAssumption
  BY InstancesAreAssumed DEF Breaker!BreakerAssumption, AloneFacts!BreakerAssumption
<1>1. Breaker!Init => AloneFacts!Init
  BY DEF Breaker!Init, AloneFacts!Init, Breaker!Closed, AloneFacts!Closed
<1>2. [Breaker!Next]_Breaker!vars => [AloneFacts!Next]_AloneFacts!vars
  BY DEF Breaker!Next, Breaker!vars, Breaker!Call, Breaker!Ends, Breaker!Succeeds, Breaker!Fails,
         Breaker!Cancelled, Breaker!Reset, Breaker!Tick, Breaker!Admits, Breaker!Admitted,
         Breaker!OnSuccess, Breaker!OnFailure, Breaker!Closed, Breaker!Cooled, Breaker!AtMost,
         Breaker!Opens, Breaker!Backoff,
         AloneFacts!Next, AloneFacts!vars, AloneFacts!Call, AloneFacts!Ends, AloneFacts!Succeeds,
         AloneFacts!Fails, AloneFacts!Cancelled, AloneFacts!Reset, AloneFacts!Tick,
         AloneFacts!Admits, AloneFacts!Admitted, AloneFacts!OnSuccess, AloneFacts!OnFailure,
         AloneFacts!Closed, AloneFacts!Cooled, AloneFacts!AtMost, AloneFacts!Opens,
         AloneFacts!Backoff
<1>3. AloneFacts!TripsExactly /\ AloneFacts!BackoffBounded => Breaker!TripsExactly /\ Breaker!BackoffBounded
  BY DEF Breaker!TripsExactly, Breaker!BackoffBounded, Breaker!Exact, Breaker!Bounded,
         AloneFacts!TripsExactly, AloneFacts!BackoffBounded, AloneFacts!Exact, AloneFacts!Bounded
<1> QED BY <1>0, <1>1, <1>2, <1>3, AloneFacts!BreakerGood, PTL DEF Breaker!Spec, AloneFacts!Spec

-----------------------------------------------------------------------------
(* The hierarchy of breakers *)

Ages == 0 .. Hierarchy!Old

\* The global breaker, whose state is written without its lock on threads.
GlobalInv ==
    /\ threaded \in BOOLEAN
    /\ GlobalFacts!Sound(global)
    /\ ~threaded => GlobalFacts!Good(global)

HierarchyInv ==
    /\ GlobalInv
    /\ provider \in [Drivers -> ProviderFacts!Circuits]
    /\ \A d \in Drivers : ProviderFacts!Good(provider[d])
    /\ cascading \in [Drivers -> [Callers -> Hierarchy!Stops]]
    /\ age \in [Drivers -> Ages]

\* What may be found where the global breaker was, on one event loop.
LEMMA GlobalGood ==
    ASSUME NEW g, GlobalFacts!Good(g)
    PROVE  /\ GlobalFacts!Good(Hierarchy!Global!Closed)
           /\ GlobalFacts!Good(Hierarchy!Global!OnSuccess(g))
           /\ GlobalFacts!Good(Hierarchy!Passed(g))
           /\ GlobalFacts!Good(Hierarchy!Global!OnFailure(g))
           /\ GlobalFacts!Good(Hierarchy!Global!Cooled(g))
<1>0. GlobalFacts!BreakerAssumption
  BY InstancesAreAssumed DEF Hierarchy!Global!BreakerAssumption, GlobalFacts!BreakerAssumption
<1>1. /\ Hierarchy!Global!Closed = GlobalFacts!Closed
      /\ Hierarchy!Global!OnSuccess(g) = GlobalFacts!Closed
      /\ Hierarchy!Passed(g) = GlobalFacts!Admitted(g)
      /\ Hierarchy!Global!OnFailure(g) = GlobalFacts!OnFailure(g)
      /\ Hierarchy!Global!Cooled(g) = GlobalFacts!Cooled(g)
  BY DEF Hierarchy!Passed, Hierarchy!Global!Closed, Hierarchy!Global!OnSuccess,
         Hierarchy!Global!Admitted, Hierarchy!Global!OnFailure, Hierarchy!Global!Cooled,
         Hierarchy!Global!AtMost, Hierarchy!Global!Opens, Hierarchy!Global!Backoff,
         GlobalFacts!Closed, GlobalFacts!Admitted, GlobalFacts!OnFailure, GlobalFacts!Cooled,
         GlobalFacts!AtMost, GlobalFacts!Opens, GlobalFacts!Backoff
<1> QED BY <1>0, <1>1, GlobalFacts!ClosedGood, GlobalFacts!AdmittedGood, GlobalFacts!FailureGood,
           GlobalFacts!CooledGood

\* The same on threads.
LEMMA GlobalSound ==
    ASSUME NEW g, GlobalFacts!Sound(g)
    PROVE  /\ GlobalFacts!Sound(Hierarchy!Global!Closed)
           /\ GlobalFacts!Sound(Hierarchy!Global!OnSuccess(g))
           /\ GlobalFacts!Sound([g EXCEPT !.state = "HALF_OPEN"])
           /\ GlobalFacts!Sound(Hierarchy!Global!OnFailure(g))
           /\ GlobalFacts!Sound(Hierarchy!Global!Cooled(g))
<1>0. GlobalFacts!BreakerAssumption
  BY InstancesAreAssumed DEF Hierarchy!Global!BreakerAssumption, GlobalFacts!BreakerAssumption
<1>1. /\ Hierarchy!Global!Closed = GlobalFacts!Closed
      /\ Hierarchy!Global!OnSuccess(g) = GlobalFacts!Closed
      /\ Hierarchy!Global!OnFailure(g) = GlobalFacts!OnFailure(g)
      /\ Hierarchy!Global!Cooled(g) = GlobalFacts!Cooled(g)
  BY DEF Hierarchy!Global!Closed, Hierarchy!Global!OnSuccess, Hierarchy!Global!OnFailure,
         Hierarchy!Global!Cooled, Hierarchy!Global!AtMost, Hierarchy!Global!Opens,
         Hierarchy!Global!Backoff,
         GlobalFacts!Closed, GlobalFacts!OnFailure, GlobalFacts!Cooled, GlobalFacts!AtMost,
         GlobalFacts!Opens, GlobalFacts!Backoff
<1>2. GlobalFacts!Sound(GlobalFacts!Closed)
  BY <1>0, GlobalFacts!ClosedGood, GlobalFacts!GoodIsSound
<1> QED BY <1>0, <1>1, <1>2, GlobalFacts!ForcedSound, GlobalFacts!FailureSound,
           GlobalFacts!CooledSound

\* What may be found where a provider's breaker was.
LEMMA ProviderGood ==
    ASSUME NEW d \in Drivers, NEW b, ProviderFacts!Good(b)
    PROVE  /\ ProviderFacts!Good(Hierarchy!Breaker(d)!Closed)
           /\ ProviderFacts!Good(Hierarchy!Breaker(d)!OnSuccess(b))
           /\ ProviderFacts!Good(Hierarchy!Breaker(d)!Admitted(b))
           /\ ProviderFacts!Good(Hierarchy!Breaker(d)!OnFailure(b))
           /\ ProviderFacts!Good(Hierarchy!Breaker(d)!Cooled(b))
<1>0. ProviderFacts!BreakerAssumption
  BY InstancesAreAssumed DEF Hierarchy!Breaker!BreakerAssumption, ProviderFacts!BreakerAssumption
<1>1. /\ Hierarchy!Breaker(d)!Closed = ProviderFacts!Closed
      /\ Hierarchy!Breaker(d)!OnSuccess(b) = ProviderFacts!Closed
      /\ Hierarchy!Breaker(d)!Admitted(b) = ProviderFacts!Admitted(b)
      /\ Hierarchy!Breaker(d)!OnFailure(b) = ProviderFacts!OnFailure(b)
      /\ Hierarchy!Breaker(d)!Cooled(b) = ProviderFacts!Cooled(b)
  BY DEF Hierarchy!Breaker!Closed, Hierarchy!Breaker!OnSuccess, Hierarchy!Breaker!Admitted,
         Hierarchy!Breaker!OnFailure, Hierarchy!Breaker!Cooled, Hierarchy!Breaker!AtMost,
         Hierarchy!Breaker!Opens, Hierarchy!Breaker!Backoff,
         ProviderFacts!Closed, ProviderFacts!Admitted, ProviderFacts!OnFailure,
         ProviderFacts!Cooled, ProviderFacts!AtMost, ProviderFacts!Opens, ProviderFacts!Backoff
<1> QED BY <1>0, <1>1, ProviderFacts!ClosedGood, ProviderFacts!AdmittedGood,
           ProviderFacts!FailureGood, ProviderFacts!CooledGood

\* The hierarchy starts with closed breakers and no failure in the window.
LEMMA HierarchyStart == Hierarchy!Init => HierarchyInv
<1>0. GlobalFacts!Good(Hierarchy!Global!Closed)
  BY InstancesAreAssumed, GlobalFacts!ClosedGood
     DEF Hierarchy!Global!BreakerAssumption, GlobalFacts!BreakerAssumption,
         Hierarchy!Global!Closed, GlobalFacts!Closed
<1>1. \A d \in Drivers : ProviderFacts!Good(Hierarchy!Breaker(d)!Closed)
  BY InstancesAreAssumed, ProviderFacts!ClosedGood
     DEF Hierarchy!Breaker!BreakerAssumption, ProviderFacts!BreakerAssumption,
         Hierarchy!Breaker!Closed, ProviderFacts!Closed
<1>2. CascadeWindow \in Nat
  BY InstancesAreAssumed DEF Hierarchy!CascadeAssumption
<1>3. Hierarchy!Init => GlobalInv
  BY <1>0, GlobalFacts!GoodIsSound DEF Hierarchy!Init, GlobalInv
<1> QED BY <1>1, <1>2, <1>3
        DEF Hierarchy!Init, HierarchyInv, Ages, Hierarchy!Old, Hierarchy!Stops, ProviderFacts!Good

\* One provider's breaker is exchanged for a good one, and the rest is as it should be.
LEMMA OneProvider ==
    ASSUME HierarchyInv, NEW d \in Drivers, NEW b, ProviderFacts!Good(b),
           provider' = [provider EXCEPT ![d] = b], GlobalInv',
           cascading' \in [Drivers -> [Callers -> Hierarchy!Stops]],
           age' \in [Drivers -> Ages]
    PROVE  HierarchyInv'
<1>1. provider' \in [Drivers -> ProviderFacts!Circuits]
  BY DEF HierarchyInv, ProviderFacts!Good
<1>2. \A e \in Drivers : provider'[e] = IF e = d THEN b ELSE provider[e]
  BY DEF HierarchyInv
<1>3. \A e \in Drivers : ProviderFacts!Good(provider'[e])
  BY <1>2 DEF HierarchyInv
<1> QED BY <1>1, <1>3 DEF HierarchyInv, ProviderFacts!Good

\* No provider's breaker is changed.
LEMMA SameProviders ==
    ASSUME HierarchyInv, UNCHANGED <<provider, age>>, GlobalInv',
           cascading' \in [Drivers -> [Callers -> Hierarchy!Stops]]
    PROVE  HierarchyInv'
  BY DEF HierarchyInv, ProviderFacts!Good

\* A call goes from one stop to another.
LEMMA GoesOn ==
    ASSUME HierarchyInv, NEW d \in Drivers, NEW c \in Callers, NEW from,
           NEW to \in Hierarchy!Stops, Hierarchy!Goes(d, c, from, to)
    PROVE  /\ cascading' \in [Drivers -> [Callers -> Hierarchy!Stops]]
           /\ UNCHANGED threaded
  BY DEF Hierarchy!Goes, HierarchyInv

\* The global breaker after a step on one event loop, and after one on threads.
LEMMA LoopGlobal ==
    ASSUME HierarchyInv, ~threaded, UNCHANGED threaded, GlobalFacts!Good(global')
    PROVE  GlobalInv'
  BY GlobalFacts!GoodIsSound DEF HierarchyInv, GlobalInv, GlobalFacts!Good, GlobalFacts!Sound

LEMMA ThreadGlobal ==
    ASSUME HierarchyInv, threaded, UNCHANGED threaded, GlobalFacts!Sound(global')
    PROVE  GlobalInv'
  BY DEF HierarchyInv, GlobalInv, GlobalFacts!Sound

\* The steps of call, on one event loop.
LEMMA LoopStep ==
    ASSUME HierarchyInv, NEW d \in Drivers, NEW c \in Callers,
           Hierarchy!Call(d, c) \/ Hierarchy!Rejected(d, c) \/ Hierarchy!Ends(d, c)
    PROVE  HierarchyInv'
<1>0. CascadeWindow \in Nat
  BY InstancesAreAssumed DEF Hierarchy!CascadeAssumption
<1>1. ~threaded
  BY DEF Hierarchy!Call, Hierarchy!Rejected, Hierarchy!Ends, Hierarchy!Succeeds,
         Hierarchy!Fails, Hierarchy!Cancelled
<1>2. GlobalFacts!Good(global) /\ \A e \in Drivers : ProviderFacts!Good(provider[e])
  BY <1>1 DEF HierarchyInv, GlobalInv
<1>3. /\ cascading' \in [Drivers -> [Callers -> Hierarchy!Stops]]
      /\ UNCHANGED threaded
  <2>1. "idle" \in Hierarchy!Stops /\ "awaiting" \in Hierarchy!Stops
    BY DEF Hierarchy!Stops
  <2> QED BY <2>1, GoesOn
          DEF Hierarchy!Call, Hierarchy!Rejected, Hierarchy!Ends, Hierarchy!Succeeds,
              Hierarchy!Fails, Hierarchy!Cancelled
<1>4. age' \in [Drivers -> Ages]
  BY <1>0 DEF HierarchyInv, Ages, Hierarchy!Old, Hierarchy!Call, Hierarchy!Rejected,
              Hierarchy!Ends, Hierarchy!Succeeds, Hierarchy!Fails, Hierarchy!Cancelled
<1>5. GlobalInv'
  <2>1. GlobalFacts!Good(global')
    BY <1>2, GlobalGood
       DEF Hierarchy!Call, Hierarchy!Rejected, Hierarchy!Ends, Hierarchy!Succeeds,
           Hierarchy!Fails, Hierarchy!Cancelled
  <2> QED BY <1>1, <1>3, <2>1, LoopGlobal
<1>6. CASE UNCHANGED <<provider, age>>
  BY <1>3, <1>5, <1>6, SameProviders
<1>7. ASSUME NEW b, ProviderFacts!Good(b), provider' = [provider EXCEPT ![d] = b]
      PROVE  HierarchyInv'
  BY <1>3, <1>4, <1>5, <1>7, OneProvider
<1>8. CASE Hierarchy!Call(d, c)
  <2>1. provider' = [provider EXCEPT ![d] = Hierarchy!Breaker(d)!Admitted(provider[d])]
    BY <1>8 DEF Hierarchy!Call
  <2> QED BY <1>2, <1>7, <2>1, ProviderGood
<1>9. CASE Hierarchy!Succeeds(d, c)
  <2>1. provider' = [provider EXCEPT ![d] = Hierarchy!Breaker(d)!OnSuccess(provider[d])]
    BY <1>9 DEF Hierarchy!Succeeds
  <2> QED BY <1>2, <1>7, <2>1, ProviderGood
<1>10. CASE Hierarchy!Fails(d, c)
  <2>1. provider' = [provider EXCEPT ![d] = Hierarchy!Breaker(d)!OnFailure(provider[d])]
    BY <1>10 DEF Hierarchy!Fails
  <2> QED BY <1>2, <1>7, <2>1, ProviderGood
<1> QED BY <1>6, <1>8, <1>9, <1>10 DEF Hierarchy!Rejected, Hierarchy!Ends, Hierarchy!Cancelled

\* The steps of call_sync, on threads.
LEMMA ThreadStep ==
    ASSUME HierarchyInv, NEW d \in Drivers, NEW c \in Callers,
           Hierarchy!Looks(d, c) \/ Hierarchy!Runs(d, c)
    PROVE  HierarchyInv'
<1> USE DEF Hierarchy!Runs
<1>1. /\ threaded
      /\ cascading' \in [Drivers -> [Callers -> Hierarchy!Stops]]
      /\ UNCHANGED <<threaded, age>>
  <2>1. \A a \in {"idle", "asking", "admitting", "admitted", "awaiting", "succeeded",
                  "closing", "failed"} : a \in Hierarchy!Stops
    BY DEF Hierarchy!Stops
  <2>2. CASE Hierarchy!Looks(d, c)
    BY <2>1, <2>2, GoesOn DEF Hierarchy!Looks
  <2>3. CASE Hierarchy!Asks(d, c)
    BY <2>1, <2>3, GoesOn DEF Hierarchy!Asks
  <2>4. CASE Hierarchy!Writes(d, c)
    BY <2>1, <2>4, GoesOn DEF Hierarchy!Writes
  <2>5. CASE Hierarchy!Enters(d, c)
    BY <2>1, <2>5, GoesOn DEF Hierarchy!Enters
  <2>6. CASE Hierarchy!Returns(d, c)
    BY <2>1, <2>6, GoesOn DEF Hierarchy!Returns
  <2>7. CASE Hierarchy!Closes(d, c)
    BY <2>1, <2>7, GoesOn DEF Hierarchy!Closes
  <2>8. CASE Hierarchy!Notes(d, c)
    BY <2>1, <2>8, GoesOn DEF Hierarchy!Notes
  <2> QED BY <2>2, <2>3, <2>4, <2>5, <2>6, <2>7, <2>8
<1>2. GlobalInv'
  <2>1. GlobalFacts!Sound(global)
    BY DEF HierarchyInv, GlobalInv
  <2>2. GlobalFacts!Sound(global')
    BY <2>1, GlobalSound
       DEF Hierarchy!Looks, Hierarchy!Asks, Hierarchy!Writes, Hierarchy!Enters,
           Hierarchy!Returns, Hierarchy!Closes, Hierarchy!Notes
  <2> QED BY <1>1, <2>2, ThreadGlobal
<1>3. CASE UNCHANGED provider
  BY <1>1, <1>2, <1>3, SameProviders
<1>4. ASSUME NEW b, ProviderFacts!Good(b), provider' = [provider EXCEPT ![d] = b]
      PROVE  HierarchyInv'
  <2>1. age' \in [Drivers -> Ages]
    BY <1>1 DEF HierarchyInv
  <2> QED BY <1>1, <1>2, <1>4, <2>1, OneProvider
<1>5. \/ UNCHANGED provider
      \/ provider' = [provider EXCEPT ![d] = Hierarchy!Breaker(d)!Admitted(provider[d])]
      \/ provider' = [provider EXCEPT ![d] = Hierarchy!Breaker(d)!OnSuccess(provider[d])]
      \/ provider' = [provider EXCEPT ![d] = Hierarchy!Breaker(d)!OnFailure(provider[d])]
  BY DEF Hierarchy!Looks, Hierarchy!Asks, Hierarchy!Writes, Hierarchy!Enters,
         Hierarchy!Returns, Hierarchy!Closes, Hierarchy!Notes
<1>6. ProviderFacts!Good(provider[d])
  BY DEF HierarchyInv
<1> QED BY <1>3, <1>4, <1>5, <1>6, ProviderGood

\* Each step keeps every breaker good, and the global one as good as may be.
LEMMA HierarchyStep ==
    ASSUME HierarchyInv, [Hierarchy!Next]_Hierarchy!vars
    PROVE  HierarchyInv'
<1>0. CascadeWindow \in Nat
  BY InstancesAreAssumed DEF Hierarchy!CascadeAssumption
<1>1. GlobalInv /\ \A d \in Drivers : ProviderFacts!Good(provider[d])
  BY DEF HierarchyInv
<1>2. ASSUME NEW d \in Drivers, Hierarchy!ResetProvider(d) PROVE HierarchyInv'
  <2>1. /\ GlobalInv'
        /\ cascading' \in [Drivers -> [Callers -> Hierarchy!Stops]]
        /\ age' \in [Drivers -> Ages]
    BY <1>1, <1>2
       DEF Hierarchy!ResetProvider, HierarchyInv, GlobalInv, GlobalFacts!Sound, GlobalFacts!Good
  <2>2. provider' = [provider EXCEPT ![d] = Hierarchy!Breaker(d)!Closed]
    BY <1>2 DEF Hierarchy!ResetProvider
  <2> QED BY <1>1, <2>1, <2>2, ProviderGood, OneProvider
<1>3. CASE Hierarchy!ResetAll
  <2>1. GlobalFacts!Good(global') /\ ~threaded
    BY <1>1, <1>3, GlobalGood DEF Hierarchy!ResetAll, GlobalInv
  <2>2. GlobalInv'
    BY <1>3, <2>1, LoopGlobal DEF Hierarchy!ResetAll
  <2>3. \A d \in Drivers : ProviderFacts!Good(Hierarchy!Breaker(d)!Closed)
    BY <1>1, ProviderGood
  <2>4. age' \in [Drivers -> Ages]
    BY <1>0, <1>3 DEF Hierarchy!ResetAll, Ages, Hierarchy!Old
  <2> QED BY <1>3, <2>2, <2>3, <2>4 DEF Hierarchy!ResetAll, HierarchyInv, ProviderFacts!Good
<1>4. CASE Hierarchy!ResetGlobal
  <2>1. GlobalFacts!Sound(global')
    BY <1>1, <1>4, GlobalSound DEF Hierarchy!ResetGlobal, GlobalInv
  <2>2. GlobalInv'
    BY <1>4, <2>1, ThreadGlobal DEF Hierarchy!ResetGlobal
  <2>3. cascading' \in [Drivers -> [Callers -> Hierarchy!Stops]]
    BY <1>4 DEF Hierarchy!ResetGlobal, HierarchyInv
  <2> QED BY <1>4, <2>2, <2>3, SameProviders DEF Hierarchy!ResetGlobal
<1>5. CASE Hierarchy!Tick
  <2>1. GlobalFacts!Sound(global') /\ (~threaded => GlobalFacts!Good(global'))
    BY <1>1, <1>5, GlobalGood, GlobalSound DEF Hierarchy!Tick, GlobalInv
  <2>2. GlobalInv'
    BY <1>1, <1>5, <2>1 DEF Hierarchy!Tick, GlobalInv, GlobalFacts!Sound, GlobalFacts!Good
  <2>3. \A d \in Drivers : ProviderFacts!Good(Hierarchy!Breaker(d)!Cooled(provider[d]))
    BY <1>1, ProviderGood
  <2>4. age' \in [Drivers -> Ages]
    BY <1>0, <1>5 DEF Hierarchy!Tick, HierarchyInv, Ages, Hierarchy!Old
  <2> QED BY <1>5, <2>2, <2>3, <2>4 DEF Hierarchy!Tick, HierarchyInv, ProviderFacts!Good
<1>6. CASE UNCHANGED Hierarchy!vars
  BY <1>6 DEF Hierarchy!vars, HierarchyInv, GlobalInv, ProviderFacts!Good, GlobalFacts!Good,
              GlobalFacts!Sound
<1> QED BY <1>2, <1>3, <1>4, <1>5, <1>6, LoopStep, ThreadStep DEF Hierarchy!Next

\* circuit_breaker.py, the hierarchy: each breaker of it keeps its backoff in its limits
\* and is never closed with a full count; on one event loop it is closed exactly while
\* its count is not full, though the global one is told of some failures and successes
\* only, and calls end in any order.
THEOREM HierarchyKeepsCount ==
    Hierarchy!Spec => [](Hierarchy!TypeOK /\ Hierarchy!GlobalKeepsCount)
<1>1. HierarchyInv => Hierarchy!TypeOK /\ Hierarchy!GlobalKeepsCount
  <2> SUFFICES ASSUME HierarchyInv PROVE Hierarchy!TypeOK /\ Hierarchy!GlobalKeepsCount
    OBVIOUS
  <2>1. Hierarchy!GlobalKeepsCount /\ global \in Hierarchy!Global!Circuits
    BY DEF HierarchyInv, GlobalInv, GlobalFacts!Sound, GlobalFacts!Good, GlobalFacts!Circuits,
           GlobalFacts!Exact, GlobalFacts!Bounded, Hierarchy!GlobalKeepsCount,
           Hierarchy!Global!Circuits, Hierarchy!Global!Exact, Hierarchy!Global!Bounded
  <2>2. ASSUME NEW d \in Drivers PROVE Hierarchy!Breaker(d)!TypeOK
    BY DEF HierarchyInv, ProviderFacts!Circuits, Hierarchy!Breaker!TypeOK,
           Hierarchy!Breaker!Circuits, Hierarchy!Served
  <2> QED BY <2>1, <2>2 DEF HierarchyInv, GlobalInv, Hierarchy!TypeOK, Ages
<1> QED BY <1>1, HierarchyStart, HierarchyStep, PTL DEF Hierarchy!Spec

\* A stop as the provider's breaker knows it.
Known(stop) == IF stop = "awaiting" THEN "awaiting" ELSE "idle"

\* What a provider's breaker sees of a call that goes on: nothing, unless it is its own.
LEMMA ServedAfter ==
    ASSUME HierarchyInv, NEW d \in Drivers, NEW c \in Callers, NEW from, NEW to,
           Hierarchy!Goes(d, c, from, to)
    PROVE  /\ \A e \in Drivers \ {d} : UNCHANGED Hierarchy!Served(e)
           /\ Hierarchy!Served(d)[c] = Known(from)
           /\ Hierarchy!Served(d)' = [Hierarchy!Served(d) EXCEPT ![c] = Known(to)]
           /\ Known(from) = Known(to) => UNCHANGED Hierarchy!Served(d)
<1> DEFINE f == Hierarchy!Served(d)
<1>1. /\ cascading \in [Drivers -> [Callers -> Hierarchy!Stops]]
      /\ cascading[d][c] = from /\ cascading' = [cascading EXCEPT ![d][c] = to]
  BY DEF HierarchyInv, Hierarchy!Goes
<1>2. \A e \in Drivers \ {d} : UNCHANGED Hierarchy!Served(e)
  BY <1>1 DEF Hierarchy!Served
<1>3. f = [k \in Callers |-> Known(cascading[d][k])]
  BY DEF Hierarchy!Served, Known
<1>4. f' = [k \in Callers |-> IF k = c THEN Known(to) ELSE Known(cascading[d][k])]
  BY <1>1 DEF Hierarchy!Served, Known
<1>5. f[c] = Known(from) /\ f' = [f EXCEPT ![c] = Known(to)]
  BY <1>1, <1>3, <1>4
<1>6. Known(from) = Known(to) => f' = f
  BY <1>1, <1>3, <1>4
<1> QED BY <1>2, <1>5, <1>6

\* What a step of the hierarchy is to one provider's breaker.
BreakerGoesOn(d) == Hierarchy!Breaker(d)!Next \/ UNCHANGED <<provider[d], Hierarchy!Served(d)>>

\* A call that changes nothing of the breaker.
LEMMA QuietCall ==
    ASSUME HierarchyInv, NEW d \in Drivers, NEW e \in Drivers, NEW c \in Callers, NEW from, NEW to,
           Hierarchy!Goes(e, c, from, to), e # d \/ Known(from) = Known(to),
           provider'[d] = provider[d]
    PROVE  BreakerGoesOn(d)
  BY ServedAfter DEF BreakerGoesOn

\* A call that enters the provider, or comes back from it.
LEMMA LoudCall ==
    ASSUME HierarchyInv, NEW d \in Drivers, NEW c \in Callers, NEW from, NEW to,
           Hierarchy!Goes(d, c, from, to),
           \/ /\ Known(from) = "idle" /\ to = "awaiting"
              /\ Hierarchy!Breaker(d)!Admits(provider[d])
              /\ provider'[d] = Hierarchy!Breaker(d)!Admitted(provider[d])
           \/ /\ from = "awaiting" /\ Known(to) = "idle"
              /\ \/ provider'[d] = Hierarchy!Breaker(d)!OnSuccess(provider[d])
                 \/ provider'[d] = Hierarchy!Breaker(d)!OnFailure(provider[d])
                 \/ provider'[d] = provider[d]
    PROVE  Hierarchy!Breaker(d)!Next
<1>1. /\ Hierarchy!Served(d)[c] = Known(from)
      /\ Hierarchy!Served(d)' = [Hierarchy!Served(d) EXCEPT ![c] = Known(to)]
  BY ServedAfter
<1>2. CASE Known(from) = "idle" /\ to = "awaiting"
  BY <1>1, <1>2 DEF Known, Hierarchy!Breaker!Next, Hierarchy!Breaker!Call
<1>3. CASE from = "awaiting" /\ Known(to) = "idle"
  BY <1>1, <1>3
     DEF Known, Hierarchy!Breaker!Next, Hierarchy!Breaker!Ends, Hierarchy!Breaker!Succeeds,
         Hierarchy!Breaker!Fails, Hierarchy!Breaker!Cancelled
<1> QED BY <1>2, <1>3

\* On one event loop.
LEMMA LoopStepOfBreaker ==
    ASSUME HierarchyInv, NEW d \in Drivers, NEW e \in Drivers, NEW c \in Callers,
           Hierarchy!Call(e, c) \/ Hierarchy!Rejected(e, c) \/ Hierarchy!Ends(e, c)
    PROVE  BreakerGoesOn(d)
<1> USE DEF Known
<1>0. provider \in [Drivers -> ProviderFacts!Circuits]
  BY DEF HierarchyInv
<1>1. CASE Hierarchy!Call(e, c)
  <2>1. CASE e = d
    BY <1>0, <1>1, <2>1, LoudCall DEF Hierarchy!Call, BreakerGoesOn
  <2>2. CASE e # d
    BY <1>0, <1>1, <2>2, QuietCall DEF Hierarchy!Call
  <2> QED BY <2>1, <2>2
<1>2. CASE Hierarchy!Rejected(e, c)
  BY <1>0, <1>2, QuietCall DEF Hierarchy!Rejected
<1>3. CASE Hierarchy!Succeeds(e, c)
  <2>1. CASE e = d
    BY <1>0, <1>3, <2>1, LoudCall DEF Hierarchy!Succeeds, BreakerGoesOn
  <2>2. CASE e # d
    BY <1>0, <1>3, <2>2, QuietCall DEF Hierarchy!Succeeds
  <2> QED BY <2>1, <2>2
<1>4. CASE Hierarchy!Fails(e, c)
  <2>1. CASE e = d
    BY <1>0, <1>4, <2>1, LoudCall DEF Hierarchy!Fails, BreakerGoesOn
  <2>2. CASE e # d
    BY <1>0, <1>4, <2>2, QuietCall DEF Hierarchy!Fails
  <2> QED BY <2>1, <2>2
<1>5. CASE Hierarchy!Cancelled(e, c)
  <2>1. CASE e = d
    BY <1>0, <1>5, <2>1, LoudCall DEF Hierarchy!Cancelled, BreakerGoesOn
  <2>2. CASE e # d
    BY <1>0, <1>5, <2>2, QuietCall DEF Hierarchy!Cancelled
  <2> QED BY <2>1, <2>2
<1> QED BY <1>1, <1>2, <1>3, <1>4, <1>5 DEF Hierarchy!Ends

\* On threads.
LEMMA ThreadStepOfBreaker ==
    ASSUME HierarchyInv, NEW d \in Drivers, NEW e \in Drivers, NEW c \in Callers,
           Hierarchy!Looks(e, c) \/ Hierarchy!Runs(e, c)
    PROVE  BreakerGoesOn(d)
<1> USE DEF Known
<1>0. provider \in [Drivers -> ProviderFacts!Circuits]
  BY DEF HierarchyInv
<1>1. CASE Hierarchy!Looks(e, c)
  BY <1>1, QuietCall DEF Hierarchy!Looks
<1>2. CASE Hierarchy!Asks(e, c)
  BY <1>2, QuietCall DEF Hierarchy!Asks
<1>3. CASE Hierarchy!Writes(e, c)
  BY <1>3, QuietCall DEF Hierarchy!Writes
<1>4. CASE Hierarchy!Enters(e, c)
  <2>1. CASE ~Hierarchy!Breaker(e)!Admits(provider[e])
    BY <1>4, <2>1, QuietCall DEF Hierarchy!Enters
  <2>2. CASE Hierarchy!Breaker(e)!Admits(provider[e]) /\ e = d
    BY <1>0, <1>4, <2>2, LoudCall DEF Hierarchy!Enters, BreakerGoesOn
  <2>3. CASE Hierarchy!Breaker(e)!Admits(provider[e]) /\ e # d
    BY <1>0, <1>4, <2>3, QuietCall DEF Hierarchy!Enters
  <2> QED BY <2>1, <2>2, <2>3
<1>5. CASE Hierarchy!Returns(e, c)
  <2>1. CASE e = d
    BY <1>0, <1>5, <2>1, LoudCall DEF Hierarchy!Returns, BreakerGoesOn
  <2>2. CASE e # d
    BY <1>0, <1>5, <2>2, QuietCall DEF Hierarchy!Returns
  <2> QED BY <2>1, <2>2
<1>6. CASE Hierarchy!Closes(e, c)
  BY <1>6, QuietCall DEF Hierarchy!Closes
<1>7. CASE Hierarchy!Notes(e, c)
  BY <1>7, QuietCall DEF Hierarchy!Notes
<1> QED BY <1>1, <1>2, <1>3, <1>4, <1>5, <1>6, <1>7 DEF Hierarchy!Runs

\* Every step of the hierarchy.
LEMMA StepOfBreaker ==
    ASSUME HierarchyInv, [Hierarchy!Next]_Hierarchy!vars, NEW d \in Drivers
    PROVE  BreakerGoesOn(d)
<1>0. provider \in [Drivers -> ProviderFacts!Circuits]
  BY DEF HierarchyInv
<1>1. ASSUME UNCHANGED cascading PROVE UNCHANGED Hierarchy!Served(d)
  BY <1>1 DEF Hierarchy!Served
<1>2. ASSUME NEW e \in Drivers, Hierarchy!ResetProvider(e) PROVE BreakerGoesOn(d)
  <2>1. \/ provider'[d] = Hierarchy!Breaker(d)!Closed
        \/ provider'[d] = provider[d]
    BY <1>0, <1>2 DEF Hierarchy!ResetProvider
  <2> QED BY <1>1, <1>2, <2>1
          DEF Hierarchy!ResetProvider, BreakerGoesOn, Hierarchy!Breaker!Next, Hierarchy!Breaker!Reset
<1>3. CASE Hierarchy!ResetAll
  BY <1>1, <1>3
     DEF Hierarchy!ResetAll, BreakerGoesOn, Hierarchy!Breaker!Next, Hierarchy!Breaker!Reset
<1>4. CASE Hierarchy!ResetGlobal
  BY <1>1, <1>4 DEF Hierarchy!ResetGlobal, BreakerGoesOn
<1>5. CASE Hierarchy!Tick
  BY <1>1, <1>5
     DEF Hierarchy!Tick, BreakerGoesOn, Hierarchy!Breaker!Next, Hierarchy!Breaker!Tick
<1>6. CASE UNCHANGED Hierarchy!vars
  BY <1>1, <1>6 DEF Hierarchy!vars, BreakerGoesOn
<1> QED BY <1>2, <1>3, <1>4, <1>5, <1>6, LoopStepOfBreaker, ThreadStepOfBreaker
        DEF Hierarchy!Next

\* circuit_breaker.py, the hierarchy: every provider's breaker implements a breaker
\* that stands alone, whatever the global one lets through.
THEOREM ProvidersImplementBreakers == Hierarchy!Spec => ProvidersAreBreakers
<1>1. Hierarchy!Init => \A p \in Drivers : Hierarchy!Breaker(p)!Init
  BY DEF Hierarchy!Init, Hierarchy!Breaker!Init, Hierarchy!Served
<1>2. HierarchyInv /\ [Hierarchy!Next]_Hierarchy!vars =>
        [\A p \in Drivers : [Hierarchy!Breaker(p)!Next]_<<provider[p], Hierarchy!Served(p)>>]_Hierarchy!vars
  <2> SUFFICES ASSUME HierarchyInv, [Hierarchy!Next]_Hierarchy!vars, NEW p \in Drivers
               PROVE  Hierarchy!Breaker(p)!Next \/ UNCHANGED <<provider[p], Hierarchy!Served(p)>>
    OBVIOUS
  <2> QED BY StepOfBreaker DEF BreakerGoesOn
<1>3. Hierarchy!Spec => \A p \in Drivers : Hierarchy!Breaker(p)!Init
  BY <1>1, PTL DEF Hierarchy!Spec
<1>4. Hierarchy!Spec =>
        [][\A p \in Drivers : [Hierarchy!Breaker(p)!Next]_<<provider[p], Hierarchy!Served(p)>>]_Hierarchy!vars
  BY <1>2, HierarchyStart, HierarchyStep, PTL DEF Hierarchy!Spec
<1> QED BY <1>3, <1>4 DEF ProvidersAreBreakers, Hierarchy!ProvidersAreBreakers

\* circuit_breaker.py, the hierarchy: the global circuit is opened by the failure of a
\* call that was made, and, on one event loop, only when as many providers as make a
\* cascade are failing.
THEOREM GlobalOpensOnCascades == Hierarchy!Spec => OpensOnCascadeOnly
<1> DEFINE Opened == global.state # "OPEN" /\ global'.state = "OPEN"
           Cascade ==
             /\ \E d \in Drivers, c \in Callers :
                   /\ cascading[d][c] = (IF threaded THEN "failed" ELSE "awaiting")
                   /\ cascading'[d][c] = "idle"
             /\ threaded \/ Hierarchy!Cascades(age')
<1>1. HierarchyInv /\ [Hierarchy!Next]_Hierarchy!vars /\ Opened => Cascade
  <2> SUFFICES ASSUME HierarchyInv, [Hierarchy!Next]_Hierarchy!vars, Opened PROVE Cascade
    OBVIOUS
  <2>1. /\ GlobalFacts!Sound(global)
        /\ Hierarchy!Global!Closed.state # "OPEN"
        /\ Hierarchy!Global!OnSuccess(global).state # "OPEN"
        /\ Hierarchy!Passed(global).state # "OPEN"
        /\ [global EXCEPT !.state = "HALF_OPEN"].state # "OPEN"
        /\ Hierarchy!Global!Cooled(global).state # "OPEN"
    BY DEF HierarchyInv, GlobalInv, GlobalFacts!Sound, GlobalFacts!Circuits, Hierarchy!Passed,
       Hierarchy!Global!Closed, Hierarchy!Global!OnSuccess, Hierarchy!Global!Admitted,
       Hierarchy!Global!Cooled
  <2>2. ASSUME NEW d \in Drivers, NEW c \in Callers, Hierarchy!Fails(d, c) PROVE Cascade
    <3>1. cascading[d][c] = "awaiting" /\ cascading'[d][c] = "idle" /\ ~threaded
      BY <2>2 DEF Hierarchy!Fails, Hierarchy!Goes, HierarchyInv
    <3>2. Hierarchy!Cascades(age')
      BY <2>2 DEF Hierarchy!Fails
    <3> QED BY <3>1, <3>2
  <2>3. ASSUME NEW d \in Drivers, NEW c \in Callers, Hierarchy!Notes(d, c) PROVE Cascade
    <3>1. cascading[d][c] = "failed" /\ cascading'[d][c] = "idle" /\ threaded
      BY <2>3 DEF Hierarchy!Notes, Hierarchy!Goes, HierarchyInv
    <3> QED BY <3>1
  <2>4. ASSUME NEW d \in Drivers, NEW c \in Callers,
               \/ Hierarchy!Call(d, c) \/ Hierarchy!Rejected(d, c)
               \/ Hierarchy!Succeeds(d, c) \/ Hierarchy!Cancelled(d, c)
        PROVE  FALSE
    BY <2>1, <2>4 DEF Hierarchy!Call, Hierarchy!Rejected, Hierarchy!Succeeds, Hierarchy!Cancelled
  <2>5. ASSUME NEW d \in Drivers, NEW c \in Callers,
               \/ Hierarchy!Looks(d, c) \/ Hierarchy!Asks(d, c) \/ Hierarchy!Writes(d, c)
               \/ Hierarchy!Enters(d, c) \/ Hierarchy!Returns(d, c) \/ Hierarchy!Closes(d, c)
        PROVE  FALSE
    BY <2>1, <2>5 DEF Hierarchy!Looks, Hierarchy!Asks, Hierarchy!Writes, Hierarchy!Enters,
       Hierarchy!Returns, Hierarchy!Closes
  <2>6. ASSUME \/ \E d \in Drivers : Hierarchy!ResetProvider(d)
               \/ Hierarchy!ResetAll \/ Hierarchy!ResetGlobal \/ Hierarchy!Tick
               \/ UNCHANGED Hierarchy!vars
        PROVE  FALSE
    BY <2>1, <2>6 DEF Hierarchy!ResetProvider, Hierarchy!ResetAll, Hierarchy!ResetGlobal,
       Hierarchy!Tick, Hierarchy!vars
  <2> QED BY <2>2, <2>3, <2>4, <2>5, <2>6 DEF Hierarchy!Next, Hierarchy!Ends, Hierarchy!Runs
<1>2. HierarchyInv /\ [Hierarchy!Next]_Hierarchy!vars =>
        [global.state # "OPEN" /\ global'.state = "OPEN" =>
           /\ \E p \in Drivers, c \in Callers :
                 cascading[p][c] = (IF threaded THEN "failed" ELSE "awaiting") /\ cascading'[p][c] = "idle"
           /\ threaded \/ Hierarchy!Cardinality({p \in Drivers : age'[p] <= CascadeWindow}) >= CascadeThreshold
        ]_Hierarchy!vars
  BY <1>1 DEF Hierarchy!Cascades, Hierarchy!Failing
<1> QED BY <1>2, HierarchyStart, HierarchyStep, PTL
        DEF Hierarchy!Spec, OpensOnCascadeOnly, Hierarchy!OpensOnCascadeOnly

-----------------------------------------------------------------------------
(* All of them *)

\* A behaviour of the sum is a behaviour of each module.
LEMMA SumRunsGuards == GuardsSpec => Spec /\ Failover!Spec /\ Breaker!Spec /\ Hierarchy!Spec
<1>1. GuardsInit => Init /\ Failover!Init /\ Breaker!Init /\ Hierarchy!Init
  BY DEF GuardsInit
<1>2. [GuardsNext]_allVars => [Next]_vars
  BY DEF GuardsNext, allVars
<1>3. [GuardsNext]_allVars => [Failover!Next]_Failover!vars
  BY DEF GuardsNext, allVars, failoverVars, Failover!vars
<1>4. [GuardsNext]_allVars => [Breaker!Next]_Breaker!vars
  BY DEF GuardsNext, allVars, breakerVars, Breaker!vars
<1>5. [GuardsNext]_allVars => [Hierarchy!Next]_Hierarchy!vars
  BY DEF GuardsNext, allVars, hierarchyVars, Hierarchy!vars
<1> QED BY <1>1, <1>2, <1>3, <1>4, <1>5, PTL
        DEF GuardsSpec, Spec, Failover!Spec, Breaker!Spec, Hierarchy!Spec

\* circuit_breaker.py: every breaker alone, and the global one on one event loop, trips
\* exactly at its threshold; on threads, the global one is never closed with a full
\* count.  Every backoff stays within its limits.
THEOREM EveryBreakerKeepsCount == GuardsSpec => []CountsKept
  BY SumRunsGuards, BreakerKeepsCount, HierarchyKeepsCount, PTL DEF CountsKept

\* What the run on the guards checks of their safety, for any constants.
THEOREM GuardsSafe ==
    ASSUME NotifyOnCancel
    PROVE  GuardsSpec =>
             /\ []CountersExact /\ []NoLostWakeup /\ ImplementsAbstract
             /\ []LevelsMatchCounts /\ OpenRunsItsTime
             /\ []CountsKept /\ ProvidersAreBreakers /\ OpensOnCascadeOnly
  BY SumRunsGuards, CountersAlwaysExact, NoTaskForgotten, Implementation, LevelsAlwaysMatch,
     OpenCircuitsRunTheirTime, EveryBreakerKeepsCount, ProvidersImplementBreakers,
     GlobalOpensOnCascades, PTL
=============================================================================

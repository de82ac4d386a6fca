---------------------------- MODULE FailoverManager ----------------------------
(***************************************************************************)
(* FailoverManager (drivers/failover_manager.py): the pool of drivers,     *)
(* their levels of trouble and the selection among them.  Every method     *)
(* holds the manager's lock; what interleaves is selections and the        *)
(* results of the calls they lead to, which may come after the driver's    *)
(* state has changed, or after it was registered anew.                     *)
(***************************************************************************)
EXTENDS Integers

CONSTANTS Drivers, Callers,
          Priority(_),  \* lower is preferred
          Threshold,    \* failure_threshold
          Recovery,     \* recovery_timeout
          Cap           \* model bound: failures beyond Cap are not told apart

\* What the constants are; MCGuards, which instantiates this module, assumes it.
PoolAssumption ==
    /\ \A d \in Drivers : Priority(d) \in Nat
    /\ Threshold \in Nat \ {0} /\ Recovery \in Nat
    /\ Cap \in Nat /\ Cap >= Threshold

VARIABLES pool,   \* _states: each registered driver's status and failures
          calls   \* per caller: the driver it is calling

vars == <<pool, calls>>

Unregistered == [status |-> "absent", failures |-> 0, age |-> 0]
Fresh == [status |-> "healthy", failures |-> 0, age |-> 0]
Idle == "idle"

Levels == {"healthy", "degraded", "failing", "circuit_open", "recovering"}
States == [status : Levels, failures : 0 .. Cap, age : 0 .. Recovery]

TypeOK ==
    /\ pool \in [Drivers -> States \cup {Unregistered}]
    /\ calls \in [Callers -> Drivers \cup {Idle}]

Init ==
    /\ pool = [d \in Drivers |-> Unregistered]
    /\ calls = [c \in Callers |-> Idle]

-----------------------------------------------------------------------------
(* The state of one driver *)

Half == IF Threshold \div 2 > 1 THEN Threshold \div 2 ELSE 1

\* record_success
Succeeded(s) ==
    [s EXCEPT !.failures = 0,
              !.status = IF s.status \in {"recovering", "degraded"} THEN "healthy" ELSE s.status]

\* Mutant: the threshold is not looked at while a driver is merely degraded.
LevelAfter_SkipsThreshold(s, n) ==
    CASE s.status = "recovering" -> "circuit_open"
      [] s.status = "degraded" /\ n >= Threshold -> "failing"
      [] s.status = "healthy" /\ n >= Half -> "degraded"
      [] s.status # "recovering" /\ s.status # "degraded" /\ n >= Threshold -> "circuit_open"
      [] OTHER -> s.status

\* Where one more failure, the n-th in a row, takes a driver.  (The docstring has a
\* degraded driver escalate at the threshold; the code does it at half of it.)
LevelAfter(s, n) ==
    IF s.status = "recovering" \/ n >= Threshold THEN "circuit_open"
    ELSE IF s.status = "degraded" /\ n >= Half THEN "failing"
    ELSE IF s.status = "healthy" /\ n >= Half THEN "degraded"
    ELSE s.status

\* Mutant: a failure restarts the timeout of a circuit that is open already.
Failed_RestartsTimeout(s) ==
    LET n == IF s.failures < Cap THEN s.failures + 1 ELSE Cap
        level == LevelAfter(s, n)
    IN [status |-> level, failures |-> n,
        age |-> IF level # s.status \/ level = "circuit_open" THEN 0 ELSE s.age]

\* record_failure; the age of an open circuit counts from when it opened.
Failed(s) ==
    LET n == IF s.failures < Cap THEN s.failures + 1 ELSE Cap
        level == LevelAfter(s, n)
    IN [status |-> level, failures |-> n,
        age |-> IF level # s.status THEN 0 ELSE s.age]

\* Mutant: the timeout has to be passed, not reached.
CoolsDown_TooLate(s) ==
    IF s.status = "circuit_open" /\ s.age > Recovery
    THEN [s EXCEPT !.status = "recovering"] ELSE s

\* The first loop of select_driver.
CoolsDown(s) ==
    IF s.status = "circuit_open" /\ s.age >= Recovery
    THEN [s EXCEPT !.status = "recovering"] ELSE s

\* is_available, which is true of a recovering driver as well.
Available(s) == s.status \notin {"absent", "circuit_open", "failing"}

-----------------------------------------------------------------------------
(* The manager's methods *)

Register(d) ==
    /\ pool[d].status = "absent"
    /\ pool' = [pool EXCEPT ![d] = Fresh] /\ UNCHANGED calls

Unregister(d) ==
    /\ pool[d].status # "absent"
    /\ pool' = [pool EXCEPT ![d] = Unregistered] /\ UNCHANGED calls

\* select_driver, by a caller that calls what it gets.  Drivers of equal priority
\* are taken in the order of registration, which is not modelled: either may be.
Select(c) ==
    /\ calls[c] = Idle
    /\ pool' = [d \in Drivers |-> CoolsDown(pool[d])]
    /\ LET ready == {d \in Drivers : Available(pool'[d])}
       IN IF ready = {} THEN UNCHANGED calls
          ELSE \E d \in ready :
                 /\ \A e \in ready : Priority(d) <= Priority(e)
                 /\ calls' = [calls EXCEPT ![c] = d]

\* The result of a call; a driver that is no longer registered is ignored.
Ends(c) ==
    /\ calls[c] # Idle
    /\ LET d == calls[c]
       IN IF pool[d].status = "absent" THEN UNCHANGED pool
          ELSE \/ pool' = [pool EXCEPT ![d] = Succeeded(@)]
               \/ pool' = [pool EXCEPT ![d] = Failed(@)]
    /\ calls' = [calls EXCEPT ![c] = Idle]

Tick ==
    /\ pool' = [d \in Drivers |->
                  IF pool[d].status = "circuit_open" /\ pool[d].age < Recovery
                  THEN [pool[d] EXCEPT !.age = @ + 1] ELSE pool[d]]
    /\ UNCHANGED calls

Next ==
    \/ \E d \in Drivers : Register(d) \/ Unregister(d)
    \/ \E c \in Callers : Select(c) \/ Ends(c)
    \/ Tick

Spec == Init /\ [][Next]_vars

\* Time passes, calls end, and there is always somebody who asks for a driver.
FairSpec == Spec /\ WF_vars(Tick) /\ \A c \in Callers : WF_vars(Select(c)) /\ WF_vars(Ends(c))

-----------------------------------------------------------------------------
(* Properties *)

\* The levels of a driver that is used are those record_failure's code gives to its
\* count, whatever results arrive late: a healthy driver has failed less than half
\* the threshold in a row, and a degraded one exactly half, for the next failure makes
\* it failing.  (record_failure's docstring says "degraded and consecutive >= threshold:
\* failing", by which it would stay degraded up to the threshold.)
LevelsMatchCounts ==
    \A d \in Drivers :
       /\ pool[d].status = "healthy" => pool[d].failures < Half
       /\ pool[d].status = "degraded" => pool[d].failures = Half /\ Half < Threshold

\* An open circuit runs its time, whatever results of calls from before arrive: no
\* late success cuts the timeout short, no late failure starts it over, and only a
\* selection after it ends it.  (Once the driver is tested, a call from before may
\* still decide the test: record_success does not tell it from the test call.)
OpenRunsItsTime ==
    [][\A d \in Drivers : pool[d].status = "circuit_open" =>
          \/ pool'[d].status = "circuit_open" /\ pool'[d].age >= pool[d].age
          \/ pool'[d].status = "recovering" /\ pool[d].age >= Recovery
          \/ pool'[d].status = "absent"]_vars

\* Every open circuit is tested in the end, though others are asked in between.
OpenIsTested ==
    \A d \in Drivers : pool[d].status = "circuit_open" ~> pool[d].status # "circuit_open"

\* "failing -> circuit_open -> recovering -> healthy": failing is no dead end.
FailingRecovers ==
    \A d \in Drivers : pool[d].status = "failing" ~> pool[d].status # "failing"
=============================================================================

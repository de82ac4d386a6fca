------------------------- MODULE CircuitBreakerProofs -------------------------
(***************************************************************************)
(* For any number of concurrent calls and any threshold and timeouts: a    *)
(* circuit is closed exactly while it has counted fewer failures than its  *)
(* threshold, its backoff stays within its limits, and only closing takes  *)
(* the backoff back.                                                       *)
(***************************************************************************)
EXTENDS CircuitBreaker, TLAPS

Good(b) == b \in Circuits /\ Exact(b) /\ Bounded(b)

IInv == Good(circuit) /\ calls \in [Callers -> {"idle", "awaiting"}]

-----------------------------------------------------------------------------
(* What each method does to a good breaker *)

\* A new or reset breaker is good.
LEMMA ClosedGood == ASSUME BreakerAssumption PROVE Good(Closed)
  BY DEF BreakerAssumption, Good, Circuits, Closed, Exact, Bounded

\* Letting a call through keeps the breaker good and its backoff.
LEMMA AdmittedGood ==
    ASSUME NEW b, Good(b)
    PROVE  Good(Admitted(b)) /\ Admitted(b).backoff = b.backoff
<1>1. CASE b.state = "OPEN"
  <2> DEFINE a == [b EXCEPT !.state = "HALF_OPEN"]
  <2>1. a \in Circuits /\ a.state = "HALF_OPEN" /\ a.failures = b.failures
        /\ a.backoff = b.backoff /\ a.wait = b.wait
    BY DEF Good, Circuits
  <2>2. Admitted(b) = a
    BY <1>1 DEF Admitted
  <2> HIDE DEF a
  <2> QED BY <1>1, <2>1, <2>2 DEF Good, Exact, Bounded
<1>2. CASE b.state # "OPEN"
  BY <1>2 DEF Admitted
<1> QED BY <1>1, <1>2

\* The backoff after a failure is within the limits and not smaller than before.
LEMMA BackoffInRange ==
    ASSUME BreakerAssumption, NEW b, Good(b)
    PROVE  /\ Backoff(b) \in Nat /\ Recovery <= Backoff(b) /\ Backoff(b) <= MaxBackoff
           /\ Backoff(b) >= b.backoff
  BY DEF BreakerAssumption, Good, Circuits, Bounded, Backoff, AtMost

\* A failure keeps the breaker good: one more failure is counted, and the circuit
\* opens exactly when the threshold is reached.
LEMMA FailureGood ==
    ASSUME BreakerAssumption, NEW b, Good(b)
    PROVE  Good(OnFailure(b)) /\ OnFailure(b).backoff >= b.backoff
<1> DEFINE n == AtMost(b.failures + 1, Cap)
           counted == [b EXCEPT !.failures = n]
           f == OnFailure(b)
<1>1. b \in Circuits /\ b.failures \in 0 .. Cap
  BY DEF Good, Circuits
<1>2. n \in 0 .. Cap
  BY <1>1 DEF BreakerAssumption, AtMost
<1>3. /\ counted \in Circuits /\ counted.failures = n /\ counted.state = b.state
  BY <1>1, <1>2 DEF Circuits
<1>4. Opens(counted) <=> b.state = "HALF_OPEN" \/ n >= Threshold
  BY <1>3 DEF Opens
<1> HIDE DEF n
<1>5. /\ f \in Circuits
      /\ f.failures = n /\ f.backoff = Backoff(b) /\ f.wait = Backoff(b)
      /\ f.state = IF b.state = "HALF_OPEN" \/ n >= Threshold THEN "OPEN" ELSE b.state
  BY <1>1, <1>2, <1>3, <1>4, BackoffInRange DEF OnFailure, Circuits, n
<1> HIDE DEF f
<1>6. Exact(f)
  <2>1. b.state \in {"CLOSED", "OPEN", "HALF_OPEN"}
    BY <1>1 DEF Circuits
  <2>2. b.state # "CLOSED" => n >= Threshold
    BY <1>1 DEF BreakerAssumption, Good, Exact, n, AtMost
  <2> QED BY <1>2, <1>5, <2>1, <2>2 DEF BreakerAssumption, Exact
<1>7. Bounded(f)
  <2>1. f.state = "CLOSED" => b.state = "CLOSED"
    BY <1>5
  <2>2. f.state = "CLOSED" => Backoff(b) = Recovery
    BY <2>1 DEF Good, Bounded, Backoff
  <2> QED BY <1>5, <2>2, BackoffInRange DEF Bounded
<1> QED BY <1>5, <1>6, <1>7, BackoffInRange DEF Good, f

\* The passing of time keeps the breaker good.
LEMMA CooledGood ==
    ASSUME NEW b, Good(b)
    PROVE  Good(Cooled(b)) /\ Cooled(b).backoff = b.backoff
<1> DEFINE w == IF b.wait > 0 THEN b.wait - 1 ELSE 0
           k == Cooled(b)
<1>1. b \in Circuits /\ w \in Nat /\ w <= b.wait
  BY DEF Good, Circuits
<1> HIDE DEF w
<1>2. k \in Circuits /\ k.state = b.state /\ k.failures = b.failures /\ k.backoff = b.backoff
      /\ k.wait = w
  BY <1>1 DEF Cooled, Circuits, w
<1> HIDE DEF k
<1>3. Good(k)
  BY <1>1, <1>2 DEF Good, Exact, Bounded, Circuits
<1> QED BY <1>2, <1>3 DEF k

-----------------------------------------------------------------------------
(* A breaker whose state others set to HALF_OPEN without its lock is not good *)
(* any more, for it may be half open with any count.  This much is kept.      *)

Sound(b) == b \in Circuits /\ Bounded(b) /\ (b.state = "CLOSED" => b.failures < Threshold)

\* A good breaker is sound.
LEMMA GoodIsSound == ASSUME NEW b, Good(b) PROVE Sound(b)
  BY DEF Good, Sound, Exact

\* HALF_OPEN may be written over any state.
LEMMA ForcedSound == ASSUME NEW b, Sound(b) PROVE Sound([b EXCEPT !.state = "HALF_OPEN"])
<1> DEFINE f == [b EXCEPT !.state = "HALF_OPEN"]
<1>1. /\ f \in Circuits /\ f.state = "HALF_OPEN" /\ f.failures = b.failures
      /\ f.backoff = b.backoff /\ f.wait = b.wait
  BY DEF Sound, Circuits
<1> HIDE DEF f
<1>2. Sound(f)
  BY <1>1 DEF Sound, Bounded
<1> QED BY <1>2 DEF f

\* A failure leaves a breaker closed only below the threshold.
LEMMA FailureSound == ASSUME BreakerAssumption, NEW b, Sound(b) PROVE Sound(OnFailure(b))
<1> DEFINE n == AtMost(b.failures + 1, Cap)
           counted == [b EXCEPT !.failures = n]
           f == OnFailure(b)
<1>1. b \in Circuits /\ b.failures \in 0 .. Cap
  BY DEF Sound, Circuits
<1>2. n \in 0 .. Cap
  BY <1>1 DEF BreakerAssumption, AtMost
<1>3. /\ counted \in Circuits /\ counted.failures = n /\ counted.state = b.state
  BY <1>1, <1>2 DEF Circuits
<1>4. Opens(counted) <=> b.state = "HALF_OPEN" \/ n >= Threshold
  BY <1>3 DEF Opens
<1>5. Backoff(b) \in Nat /\ Recovery <= Backoff(b) /\ Backoff(b) <= MaxBackoff
  BY DEF BreakerAssumption, Sound, Circuits, Bounded, Backoff, AtMost
<1> HIDE DEF n
<1>6. /\ f \in Circuits
      /\ f.failures = n /\ f.backoff = Backoff(b) /\ f.wait = Backoff(b)
      /\ f.state = IF b.state = "HALF_OPEN" \/ n >= Threshold THEN "OPEN" ELSE b.state
  BY <1>1, <1>2, <1>3, <1>4, <1>5 DEF OnFailure, Circuits, n
<1> HIDE DEF f
<1>7. f.state = "CLOSED" => b.state = "CLOSED" /\ n < Threshold
  BY <1>2, <1>6 DEF BreakerAssumption
<1>8. f.state = "CLOSED" => Backoff(b) = Recovery
  BY <1>7 DEF Sound, Bounded, Backoff
<1>9. Sound(f)
  BY <1>5, <1>6, <1>7, <1>8 DEF Sound, Bounded
<1> QED BY <1>9 DEF f

\* The passing of time.
LEMMA CooledSound == ASSUME NEW b, Sound(b) PROVE Sound(Cooled(b))
<1> DEFINE w == IF b.wait > 0 THEN b.wait - 1 ELSE 0
           k == Cooled(b)
<1>1. b \in Circuits /\ w \in Nat /\ w <= b.wait
  BY DEF Sound, Circuits
<1> HIDE DEF w
<1>2. k \in Circuits /\ k.state = b.state /\ k.failures = b.failures /\ k.backoff = b.backoff
      /\ k.wait = w
  BY <1>1 DEF Cooled, Circuits, w
<1> HIDE DEF k
<1>3. Sound(k)
  BY <1>1, <1>2 DEF Sound, Bounded, Circuits
<1> QED BY <1>3 DEF k

-----------------------------------------------------------------------------
(* The inductive invariant, and the theorems *)

Kept == IInv' /\ (circuit'.backoff < circuit.backoff => circuit'.state = "CLOSED")

\* A step leaves a good breaker, and lowers the backoff only by closing.
LEMMA StepGood == ASSUME BreakerAssumption, IInv, [Next]_vars PROVE Kept
<1>1. circuit.backoff \in Nat
  BY DEF IInv, Good, Circuits
<1>2. Closed.state = "CLOSED"
  BY DEF Closed
<1>3. ASSUME NEW c \in Callers, Call(c) PROVE Kept
  BY <1>1, <1>3, AdmittedGood DEF IInv, Call, Kept
<1>4. ASSUME NEW c \in Callers, Succeeds(c) PROVE Kept
  BY <1>2, <1>4, ClosedGood DEF IInv, Succeeds, OnSuccess, Kept
<1>5. ASSUME NEW c \in Callers, Fails(c) PROVE Kept
  <2>1. Good(circuit') /\ circuit'.backoff >= circuit.backoff
    BY <1>5, FailureGood DEF IInv, Fails
  <2>2. circuit'.backoff \in Nat
    BY <2>1 DEF Good, Circuits
  <2> QED BY <1>1, <1>5, <2>1, <2>2 DEF IInv, Fails, Kept
<1>6. ASSUME NEW c \in Callers, Cancelled(c) PROVE Kept
  BY <1>1, <1>6 DEF IInv, Cancelled, Kept
<1>7. CASE Reset
  BY <1>2, <1>7, ClosedGood DEF IInv, Reset, Kept
<1>8. CASE Tick
  BY <1>1, <1>8, CooledGood DEF IInv, Tick, Kept
<1>9. CASE UNCHANGED vars
  BY <1>1, <1>9 DEF IInv, vars, Kept
<1> QED BY <1>3, <1>4, <1>5, <1>6, <1>7, <1>8, <1>9 DEF Next, Ends

\* circuit_breaker.py, for any number of callers, any threshold and timeouts: the
\* type invariant, the exact threshold and the limits of the backoff.
THEOREM BreakerGood == ASSUME BreakerAssumption PROVE Spec => [](TypeOK /\ TripsExactly /\ BackoffBounded)
<1>1. Init => IInv
  BY ClosedGood DEF Init, IInv
<1>2. IInv /\ [Next]_vars => IInv'
  BY StepGood DEF Kept
<1>3. IInv => TypeOK /\ TripsExactly /\ BackoffBounded
  BY DEF IInv, Good, TypeOK, TripsExactly, BackoffBounded
<1> QED BY <1>1, <1>2, <1>3, PTL DEF Spec

\* Only a success or a reset takes the backoff back.
THEOREM BackoffOnlyGrows == ASSUME BreakerAssumption PROVE Spec => BackoffGrows
<1>1. Init => IInv
  BY ClosedGood DEF Init, IInv
<1>2. IInv /\ [Next]_vars => IInv'
  BY StepGood DEF Kept
<1>3. IInv /\ [Next]_vars =>
        [circuit'.backoff < circuit.backoff => circuit'.state = "CLOSED"]_vars
  BY StepGood DEF Kept
<1> QED BY <1>1, <1>2, <1>3, PTL DEF Spec, BackoffGrows
=============================================================================

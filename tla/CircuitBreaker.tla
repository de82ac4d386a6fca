---------------------------- MODULE CircuitBreaker ----------------------------
(***************************************************************************)
(* CircuitBreaker (resilience/circuit_breaker.py): call() looks at the     *)
(* circuit, awaits the function, and reports its outcome to whatever the   *)
(* circuit has become meanwhile.  Time is a countdown: wait is how much of *)
(* the backoff is left since the last failure.                             *)
(***************************************************************************)
EXTENDS Integers

CONSTANTS Callers,     \* concurrent calls
          Threshold,   \* failure_threshold
          Recovery,    \* recovery_timeout
          MaxBackoff,  \* max_backoff
          Cap          \* model bound: failures beyond Cap are not told apart

\* What the constants are; MCGuards, which instantiates this module, assumes it.
BreakerAssumption ==
    /\ Threshold \in Nat \ {0} /\ Cap \in Nat /\ Cap >= Threshold
    /\ Recovery \in Nat \ {0} /\ MaxBackoff \in Nat /\ MaxBackoff >= Recovery

VARIABLES circuit,  \* the breaker's fields
          calls     \* per caller: idle, or awaiting the function

vars == <<circuit, calls>>

Circuits == [state : {"CLOSED", "OPEN", "HALF_OPEN"}, failures : 0 .. Cap,
             backoff : Nat, wait : Nat]

TypeOK ==
    /\ circuit \in Circuits
    /\ calls \in [Callers -> {"idle", "awaiting"}]

\* A new breaker, and one that was reset or reported a success.
Closed == [state |-> "CLOSED", failures |-> 0, backoff |-> Recovery, wait |-> 0]

Init == circuit = Closed /\ calls = [c \in Callers |-> "idle"]

-----------------------------------------------------------------------------
(* The breaker's methods, on its fields *)

AtMost(n, bound) == IF n <= bound THEN n ELSE bound

\* Whether call() lets a call through, and what it leaves.
Admits(b) == b.state # "OPEN" \/ b.wait = 0

Admitted(b) == IF b.state = "OPEN" THEN [b EXCEPT !.state = "HALF_OPEN"] ELSE b

OnSuccess(b) == Closed

\* The backoff doubles when a recovery fails.
Backoff(b) == IF b.state = "HALF_OPEN" THEN AtMost(b.backoff * 2, MaxBackoff) ELSE b.backoff

\* Mutant: the circuit opens one failure late.
Opens_OffByOne(b) == b.state = "HALF_OPEN" \/ b.failures > Threshold

\* With b.failures already counted.
Opens(b) == b.state = "HALF_OPEN" \/ b.failures >= Threshold

OnFailure(b) ==
    LET counted == [b EXCEPT !.failures = AtMost(b.failures + 1, Cap)]
    IN [counted EXCEPT !.state = IF Opens(counted) THEN "OPEN" ELSE b.state,
                       !.backoff = Backoff(b), !.wait = Backoff(b)]

\* Time passes.
Cooled(b) == [b EXCEPT !.wait = IF b.wait > 0 THEN b.wait - 1 ELSE 0]

-----------------------------------------------------------------------------
(* Calls *)

Call(c) ==
    /\ calls[c] = "idle" /\ Admits(circuit)
    /\ circuit' = Admitted(circuit)
    /\ calls' = [calls EXCEPT ![c] = "awaiting"]

Succeeds(c) ==
    /\ calls[c] # "idle"
    /\ circuit' = OnSuccess(circuit)
    /\ calls' = [calls EXCEPT ![c] = "idle"]

Fails(c) ==
    /\ calls[c] # "idle"
    /\ circuit' = OnFailure(circuit)
    /\ calls' = [calls EXCEPT ![c] = "idle"]

\* CancelledError is not an Exception: neither outcome is reported.
Cancelled(c) ==
    /\ calls[c] # "idle"
    /\ calls' = [calls EXCEPT ![c] = "idle"] /\ UNCHANGED circuit

\* reset, by hand
Reset == circuit' = Closed /\ UNCHANGED calls

Tick == circuit' = Cooled(circuit) /\ UNCHANGED calls

Ends(c) == Succeeds(c) \/ Fails(c) \/ Cancelled(c)

Next == (\E c \in Callers : Call(c) \/ Ends(c)) \/ Reset \/ Tick

Spec == Init /\ [][Next]_vars

-----------------------------------------------------------------------------
(* Properties *)

\* The circuit is closed exactly while fewer failures than the threshold have
\* been counted, although results of calls admitted earlier arrive in any state.
Exact(b) == b.state = "CLOSED" <=> b.failures < Threshold
TripsExactly == Exact(circuit)

\* The backoff stays between its limits, starts over when the circuit closes, and
\* nobody is kept out for longer than the backoff that is reported.
Bounded(b) ==
    /\ Recovery <= b.backoff /\ b.backoff <= MaxBackoff
    /\ b.state = "CLOSED" => b.backoff = Recovery
    /\ b.wait <= b.backoff
BackoffBounded == Bounded(circuit)

\* Backoffs never shrink from one failed recovery to the next: only a success or
\* a reset, which close the circuit, take it back.
BackoffGrows ==
    [][circuit'.backoff < circuit.backoff => circuit'.state = "CLOSED"]_vars
=============================================================================

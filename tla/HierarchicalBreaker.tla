-------------------------- MODULE HierarchicalBreaker --------------------------
(***************************************************************************)
(* HierarchicalCircuitBreaker (resilience/circuit_breaker.py): a breaker   *)
(* per provider, under a global one that counts cascades, failures while   *)
(* several providers have failed within a window.  Every breaker is the    *)
(* one of module CircuitBreaker, with parameters of its own.               *)
(*                                                                         *)
(* The global breaker is looked at and written without its lock.  On one   *)
(* event loop, where call() runs, nothing comes between two awaits; on     *)
(* threads, where call_sync() runs, other threads do.  A behaviour is of   *)
(* the one kind or of the other.  What holds a breaker's lock is one step. *)
(***************************************************************************)
EXTENDS Integers, FiniteSets

CONSTANTS Providers,
          Callers,           \* the concurrent calls to a provider
          Threads,           \* those of them that are made on threads
          ProviderThreshold, ProviderRecovery, ProviderMaxBackoff,
          GlobalThreshold, GlobalRecovery, GlobalMaxBackoff,
          CascadeWindow,     \* cascade_window
          CascadeThreshold,  \* cascade_threshold
          Cap                \* model bound: failures beyond Cap are not told apart

VARIABLES threaded,  \* whether call_sync runs on threads, or call on one event loop
          global,    \* the global breaker's fields
          provider,  \* _per_provider: each provider's breaker
          calls,     \* per provider and caller, how far its call is
          age        \* _recent_failures: ticks since each provider's last failure

vars == <<threaded, global, provider, calls, age>>

\* The stops of call_sync; call stops at the await only.
Stops == {"idle", "asking", "admitting", "admitted", "awaiting", "succeeded", "closing", "failed"}

\* What the provider's own breaker knows of its calls.
Served(p) == [c \in Callers |-> IF calls[p][c] = "awaiting" THEN "awaiting" ELSE "idle"]

Global == INSTANCE CircuitBreaker WITH
              circuit <- global, calls <- [c \in {} |-> "idle"], Threshold <- GlobalThreshold,
              Recovery <- GlobalRecovery, MaxBackoff <- GlobalMaxBackoff
Breaker(p) == INSTANCE CircuitBreaker WITH
              circuit <- provider[p], calls <- Served(p), Threshold <- ProviderThreshold,
              Recovery <- ProviderRecovery, MaxBackoff <- ProviderMaxBackoff

\* What the constants are; MCGuards, which instantiates this module, assumes it.
CascadeAssumption ==
    Threads \subseteq Callers /\ CascadeWindow \in Nat /\ CascadeThreshold \in Nat

\* An age beyond the window: the failure was dropped from the list.
Old == CascadeWindow + 1

TypeOK ==
    /\ threaded \in BOOLEAN
    /\ global \in Global!Circuits
    /\ \A p \in Providers : Breaker(p)!TypeOK
    /\ calls \in [Providers -> [Callers -> Stops]]
    /\ age \in [Providers -> 0 .. Old]

Init ==
    /\ threaded \in BOOLEAN
    /\ global = Global!Closed
    /\ provider = [p \in Providers |-> Breaker(p)!Closed]
    /\ calls = [p \in Providers |-> [c \in Callers |-> "idle"]]
    /\ age = [p \in Providers |-> Old]

-----------------------------------------------------------------------------
(* call, on one event loop *)

\* Mutant: the attempt does not show in the state.
Passed_StaysOpen(g) == g

\* What passing the global check leaves.
Passed(g) == Global!Admitted(g)

\* The providers that have failed within the window.
Failing(ages) == {p \in Providers : ages[p] <= CascadeWindow}

\* _check_cascade
Cascades(ages) == Cardinality(Failing(ages)) >= CascadeThreshold

\* The call goes from one stop to another.
Goes(p, c, from, to) ==
    /\ calls[p][c] = from
    /\ calls' = [calls EXCEPT ![p][c] = to]
    /\ UNCHANGED threaded

\* Mutant: the provider's own breaker is not asked.
Call_GlobalOnly(p, c) ==
    /\ ~threaded /\ Global!Admits(global)
    /\ Goes(p, c, "idle", "awaiting")
    /\ global' = Passed(global)
    /\ provider' = [provider EXCEPT ![p] = Breaker(p)!Admitted(@)]
    /\ UNCHANGED age

\* The global check and the provider's are made without an await between them.
Call(p, c) ==
    /\ ~threaded /\ Global!Admits(global) /\ Breaker(p)!Admits(provider[p])
    /\ Goes(p, c, "idle", "awaiting")
    /\ global' = Passed(global)
    /\ provider' = [provider EXCEPT ![p] = Breaker(p)!Admitted(@)]
    /\ UNCHANGED age

\* Mutant: the refusal is handled like any other exception.
Rejected_AsFailure(p, c) ==
    /\ ~threaded /\ Global!Admits(global) /\ ~Breaker(p)!Admits(provider[p])
    /\ Goes(p, c, "idle", "idle")
    /\ age' = [age EXCEPT ![p] = 0]
    /\ global' = IF Cascades(age') THEN Global!OnFailure(Passed(global)) ELSE Passed(global)
    /\ UNCHANGED provider

\* The provider refuses a call that has passed the global check.
Rejected(p, c) ==
    /\ ~threaded /\ Global!Admits(global) /\ ~Breaker(p)!Admits(provider[p])
    /\ Goes(p, c, "idle", "idle")
    /\ global' = Passed(global)
    /\ UNCHANGED <<provider, age>>

Succeeds(p, c) ==
    /\ ~threaded
    /\ Goes(p, c, "awaiting", "idle")
    /\ provider' = [provider EXCEPT ![p] = Breaker(p)!OnSuccess(@)]
    /\ global' = IF global.state = "HALF_OPEN" THEN Global!OnSuccess(global) ELSE global
    /\ UNCHANGED age

Fails(p, c) ==
    /\ ~threaded
    /\ Goes(p, c, "awaiting", "idle")
    /\ provider' = [provider EXCEPT ![p] = Breaker(p)!OnFailure(@)]
    /\ age' = [age EXCEPT ![p] = 0]
    /\ global' = IF Cascades(age') THEN Global!OnFailure(global) ELSE global

Cancelled(p, c) ==
    /\ ~threaded
    /\ Goes(p, c, "awaiting", "idle")
    /\ UNCHANGED <<global, provider, age>>

Ends(p, c) == Succeeds(p, c) \/ Fails(p, c) \/ Cancelled(p, c)

-----------------------------------------------------------------------------
(* call_sync, on threads.  The list of recent failures is rewritten without *)
(* a lock, so that failures get lost: which ones is left open, age is not   *)
(* kept, and a failure may find a cascade whenever there are providers      *)
(* enough for one.                                                          *)

\* The global state is read.
Looks(p, c) ==
    /\ threaded /\ c \in Threads
    /\ Goes(p, c, "idle", IF global.state = "OPEN" THEN "asking" ELSE "admitted")
    /\ UNCHANGED <<global, provider, age>>

\* _should_attempt_recovery; it raises when the circuit is closed between its two
\* readings of the time of the last failure.
Asks(p, c) ==
    /\ threaded
    /\ \/ global.wait = 0 /\ Goes(p, c, "asking", "admitting")
       \/ (global.wait > 0 \/ global.state = "CLOSED") /\ Goes(p, c, "asking", "idle")
    /\ UNCHANGED <<global, provider, age>>

\* Whatever the state has become, it is set to HALF_OPEN.
Writes(p, c) ==
    /\ threaded
    /\ Goes(p, c, "admitting", "admitted")
    /\ global' = [global EXCEPT !.state = "HALF_OPEN"]
    /\ UNCHANGED <<provider, age>>

\* The provider's breaker lets the call through, or not.
Enters(p, c) ==
    /\ threaded
    /\ IF Breaker(p)!Admits(provider[p])
       THEN /\ Goes(p, c, "admitted", "awaiting")
            /\ provider' = [provider EXCEPT ![p] = Breaker(p)!Admitted(@)]
       ELSE /\ Goes(p, c, "admitted", "idle")
            /\ UNCHANGED provider
    /\ UNCHANGED <<global, age>>

\* The provider's breaker is told the outcome.
Returns(p, c) ==
    /\ threaded
    /\ \/ /\ Goes(p, c, "awaiting", "succeeded")
          /\ provider' = [provider EXCEPT ![p] = Breaker(p)!OnSuccess(@)]
       \/ /\ Goes(p, c, "awaiting", "failed")
          /\ provider' = [provider EXCEPT ![p] = Breaker(p)!OnFailure(@)]
    /\ UNCHANGED <<global, age>>

\* After a success, a half-open global circuit is closed, in two steps.
Closes(p, c) ==
    /\ threaded
    /\ \/ /\ Goes(p, c, "succeeded", IF global.state = "HALF_OPEN" THEN "closing" ELSE "idle")
          /\ UNCHANGED global
       \/ /\ Goes(p, c, "closing", "idle")
          /\ global' = Global!OnSuccess(global)
    /\ UNCHANGED <<provider, age>>

\* After a failure, the global breaker is told of a cascade.
Notes(p, c) ==
    /\ threaded
    /\ Goes(p, c, "failed", "idle")
    /\ \/ UNCHANGED global
       \/ Cardinality(Providers) >= CascadeThreshold /\ global' = Global!OnFailure(global)
    /\ UNCHANGED <<provider, age>>

Runs(p, c) == \/ Asks(p, c) \/ Writes(p, c) \/ Enters(p, c)
              \/ Returns(p, c) \/ Closes(p, c) \/ Notes(p, c)

-----------------------------------------------------------------------------

ResetAll ==
    /\ ~threaded
    /\ global' = Global!Closed
    /\ provider' = [p \in Providers |-> Breaker(p)!Closed]
    /\ age' = [p \in Providers |-> Old]
    /\ UNCHANGED <<threaded, calls>>

\* On threads, reset_all resets one breaker after the other.
ResetGlobal ==
    /\ threaded
    /\ global' = Global!Closed
    /\ UNCHANGED <<threaded, provider, calls, age>>

ResetProvider(p) ==
    /\ provider' = [provider EXCEPT ![p] = Breaker(p)!Closed]
    /\ UNCHANGED <<threaded, global, calls, age>>

Tick ==
    /\ global' = Global!Cooled(global)
    /\ provider' = [p \in Providers |-> Breaker(p)!Cooled(provider[p])]
    /\ age' = [p \in Providers |-> IF age[p] < Old THEN age[p] + 1 ELSE Old]
    /\ UNCHANGED <<threaded, calls>>

Next ==
    \/ \E p \in Providers :
          \/ \E c \in Callers : \/ Call(p, c) \/ Rejected(p, c) \/ Ends(p, c)
                               \/ Looks(p, c) \/ Runs(p, c)
          \/ ResetProvider(p)
    \/ ResetAll \/ ResetGlobal
    \/ Tick

Spec == Init /\ [][Next]_vars

SomebodyCalls == \E p \in Providers, c \in Callers : Call(p, c) \/ Rejected(p, c) \/ Looks(p, c)
SomebodyGoesOn == \E p \in Providers, c \in Callers : Ends(p, c) \/ Runs(p, c)

\* Time passes, there is always somebody who calls, and calls get on: some of them.
Fairness == WF_vars(Tick) /\ WF_vars(SomebodyCalls) /\ WF_vars(SomebodyGoesOn)
FairSpec == Spec /\ Fairness

-----------------------------------------------------------------------------
(* Properties *)

\* Each provider's breaker works as one that stands alone: the global breaker
\* above it only takes calls away.
ProvidersAreBreakers ==
    /\ \A p \in Providers : Breaker(p)!Init
    /\ [][\A p \in Providers : [Breaker(p)!Next]_<<provider[p], Served(p)>>]_vars

\* The global breaker keeps the promises of a breaker although it is told of some
\* failures and some successes only, and its state is set from outside.  On threads,
\* it is never closed with a full count, but HALF_OPEN may be written over a circuit
\* that was closed meanwhile, so that it need not be closed with a count that is not.
GlobalKeepsCount ==
    /\ Global!Bounded(global)
    /\ global.state = "CLOSED" => global.failures < GlobalThreshold
    /\ ~threaded => Global!Exact(global)

\* The global breaker opens only when a call that was made fails, and, on one event
\* loop, several providers are failing: refusals and one provider's troubles do not
\* open it.
OpensOnCascadeOnly ==
    [][global.state # "OPEN" /\ global'.state = "OPEN" =>
          /\ \E p \in Providers, c \in Callers :
                calls[p][c] = (IF threaded THEN "failed" ELSE "awaiting") /\ calls'[p][c] = "idle"
          /\ threaded \/ Cardinality({p \in Providers : age'[p] <= CascadeWindow}) >= CascadeThreshold]_vars

\* Whatever the late results do, an open global circuit lets somebody try again.
GlobalIsProbed == global.state = "OPEN" ~> global.state # "OPEN"
=============================================================================

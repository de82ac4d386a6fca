-------------------------------- MODULE MCGuards --------------------------------
(***************************************************************************)
(* What makes callers wait, and has to let them go again: the read-write   *)
(* lock, the circuit breakers and the failover of the drivers.  They share *)
(* no state, so that each is explored on its own: focus says which.        *)
(***************************************************************************)
EXTENDS AsyncRWLock

CONSTANTS gemini, claude,  \* the drivers that are registered, both providers too
          Callers,
          Threshold, Recovery, Cap,                                  \* of the failover
          BreakerCallers, BreakerThreshold, BreakerRecovery, MaxBackoff, BreakerCap,
          ProviderThreshold, ProviderRecovery, ProviderMaxBackoff,
          GlobalThreshold, GlobalRecovery, GlobalMaxBackoff,
          Threads, CascadeWindow, CascadeThreshold, CascadeCap

Drivers == {gemini, claude}
Priority(d) == IF d = gemini THEN 0 ELSE 1

VARIABLES focus,
          pool, calls,                       \* the failover
          circuit, served,                   \* a breaker, and its calls
          threaded, global, provider, cascading, age   \* the hierarchy of breakers

failoverVars == <<pool, calls>>
breakerVars == <<circuit, served>>
hierarchyVars == <<threaded, global, provider, cascading, age>>
allVars == <<focus, vars, failoverVars, breakerVars, hierarchyVars>>

Failover == INSTANCE FailoverManager
Breaker == INSTANCE CircuitBreaker WITH
    calls <- served, Callers <- BreakerCallers, Threshold <- BreakerThreshold,
    Recovery <- BreakerRecovery, Cap <- BreakerCap
Hierarchy == INSTANCE HierarchicalBreaker WITH
    Providers <- Drivers, calls <- cascading, Cap <- CascadeCap

ASSUME InstancesAreAssumed ==
    /\ Failover!PoolAssumption
    /\ Breaker!BreakerAssumption
    /\ Hierarchy!CascadeAssumption
    /\ Hierarchy!Global!BreakerAssumption
    /\ \A d \in Drivers : Hierarchy!Breaker(d)!BreakerAssumption

GuardsInit ==
    /\ focus \in {"lock", "failover", "breaker", "hierarchy"}
    /\ Init /\ Failover!Init /\ Breaker!Init /\ Hierarchy!Init

GuardsNext ==
    \/ focus = "lock" /\ Next /\ UNCHANGED <<focus, failoverVars, breakerVars, hierarchyVars>>
    \/ focus = "failover" /\ Failover!Next /\ UNCHANGED <<focus, vars, breakerVars, hierarchyVars>>
    \/ focus = "breaker" /\ Breaker!Next /\ UNCHANGED <<focus, vars, failoverVars, hierarchyVars>>
    \/ focus = "hierarchy" /\ Hierarchy!Next /\ UNCHANGED <<focus, vars, failoverVars, breakerVars>>

\* The fairness of each module, asked where the module is explored: at rest, the
\* lock has no fair action that is enabled, but clocks tick and callers call.
GuardsFairness ==
    /\ Fairness
    /\ WF_failoverVars(focus = "failover" /\ Failover!Tick)
    /\ \A c \in Callers : /\ WF_failoverVars(focus = "failover" /\ Failover!Select(c))
                          /\ WF_failoverVars(focus = "failover" /\ Failover!Ends(c))
    /\ WF_hierarchyVars(focus = "hierarchy" /\ Hierarchy!Tick)
    /\ WF_hierarchyVars(focus = "hierarchy" /\ Hierarchy!SomebodyCalls)
    /\ WF_hierarchyVars(focus = "hierarchy" /\ Hierarchy!SomebodyGoesOn)

GuardsSpec == GuardsInit /\ [][GuardsNext]_allVars /\ GuardsFairness

-----------------------------------------------------------------------------
(* The properties of the instances; those of the lock are its module's own *)

\* The levels of the drivers match their counts of failures, as the code escalates.
LevelsMatchCounts == Failover!LevelsMatchCounts

\* A driver's open circuit runs its time, neither cut short nor drawn out by late results.
OpenRunsItsTime == Failover!OpenRunsItsTime

\* Every open circuit of a driver is tested in the end.
OpenIsTested == Failover!OpenIsTested

\* Every breaker, alone, or global over others on one event loop, is closed exactly
\* while it has counted fewer failures than its threshold; over threads, the global one
\* is never closed with a full count.  All backoffs stay between their limits.
CountsKept ==
    /\ Breaker!TripsExactly /\ Breaker!BackoffBounded
    /\ Hierarchy!TypeOK /\ Hierarchy!GlobalKeepsCount

\* Every provider's breaker implements a breaker that stands alone.
ProvidersAreBreakers == Hierarchy!ProvidersAreBreakers

\* The global circuit opens on cascades only, by the failure of a call that was made.
OpensOnCascadeOnly == Hierarchy!OpensOnCascadeOnly

\* An open global circuit is tried again.
GlobalIsProbed == Hierarchy!GlobalIsProbed
=============================================================================

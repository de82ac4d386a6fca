--------------------------------- MODULE MCHive ---------------------------------
(***************************************************************************)
(* The work that takes long: the hive mind's phases, the hive mind called  *)
(* from a turn, and the evidence jobs of the MCP server.  They share no    *)
(* state, so that each is explored on its own: focus says which.           *)
(***************************************************************************)
EXTENDS HiveMind

CONSTANTS MaxTasks, Jobs, PoolSize

VARIABLES focus,
          async, task, turn, hive, brain,  \* the hive mind called from a turn
          status, event, future, stored    \* the jobs

bridgeVars == <<async, task, turn, hive, brain>>
jobVars == <<status, event, future, stored>>
allVars == <<focus, vars, bridgeVars, jobVars>>

Bridge == INSTANCE HiveBridge
Job == INSTANCE EvidenceJobs

MCInit ==
    /\ focus \in {"hive", "bridge", "jobs"}
    /\ Init /\ Bridge!Init /\ Job!Init
    /\ focus # "bridge" => ~async

MCNext ==
    \/ focus = "hive" /\ Next /\ UNCHANGED <<focus, bridgeVars, jobVars>>
    \/ focus = "bridge" /\ Bridge!Next /\ UNCHANGED <<focus, vars, jobVars>>
    \/ focus = "jobs" /\ Job!Next /\ UNCHANGED <<focus, vars, bridgeVars>>

\* None of the fair actions is enabled where a module is at rest: idle, without a
\* task, without a job.
MCSpec == MCInit /\ [][MCNext]_allVars /\ Fairness /\ Bridge!Fairness /\ Job!Fairness

-----------------------------------------------------------------------------
(* The properties of the instances; those of the hive mind are its module's own *)

\* The user gets the prompt back.
PromptReturns == Bridge!PromptReturns

\* A cancellation that was accepted is kept.
CancelIsKept == Job!CancelIsKept
=============================================================================

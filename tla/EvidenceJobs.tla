----------------------------- MODULE EvidenceJobs -----------------------------
(***************************************************************************)
(* The evidence jobs of the MCP server (mcp/server.py): start_evidence_job *)
(* enters a job, submits it to a pool of threads and then stores its       *)
(* future, in three steps; cancel_job may come between any two, and while  *)
(* a thread of the pool has taken the job and not yet said so.             *)
(***************************************************************************)
EXTENDS Integers, FiniteSets

CONSTANTS Jobs,
          PoolSize   \* max_workers

VARIABLES status,  \* of every job, "none" before it is started
          event,   \* _cancel_event: the jobs whose cancellation was asked for
          future,  \* what the pool has done with the job
          stored   \* the jobs whose _future is stored

vars == <<status, event, future, stored>>

Terminal == {"completed", "failed", "cancelled"}

Init ==
    /\ status = [j \in Jobs |-> "none"]
    /\ event = {} /\ stored = {}
    /\ future = [j \in Jobs |-> "none"]

-----------------------------------------------------------------------------
(* start_evidence_job *)

Enter(j) ==
    /\ status[j] = "none"
    /\ status' = [status EXCEPT ![j] = "pending"]
    /\ UNCHANGED <<event, future, stored>>

Submit(j) ==
    /\ status[j] # "none" /\ future[j] = "none"
    /\ future' = [future EXCEPT ![j] = "queued"]
    /\ UNCHANGED <<status, event, stored>>

Store(j) ==
    /\ future[j] # "none" /\ j \notin stored
    /\ stored' = stored \cup {j}
    /\ UNCHANGED <<status, event, future>>

-----------------------------------------------------------------------------
(* cancel_job *)

\* Mutant: the request is noted, whether or not the pool still has the job.
Cancel_AlwaysRequests(j) ==
    /\ status[j] \notin Terminal \cup {"none"}
    /\ event' = event \cup {j}
    /\ future' = IF j \in stored /\ future[j] = "queued" THEN [future EXCEPT ![j] = "cancelled"] ELSE future
    /\ status' = [status EXCEPT ![j] = "cancel_requested"]
    /\ UNCHANGED stored

\* Future.cancel() succeeds as long as no thread has taken the job.
Cancel(j) ==
    /\ status[j] \notin Terminal \cup {"none"}
    /\ event' = event \cup {j}
    /\ IF j \in stored /\ future[j] \in {"queued", "cancelled"}
       THEN /\ future' = [future EXCEPT ![j] = "cancelled"]
            /\ status' = [status EXCEPT ![j] = "cancelled"]
       ELSE /\ status' = [status EXCEPT ![j] = "cancel_requested"]
            /\ UNCHANGED future
    /\ UNCHANGED stored

-----------------------------------------------------------------------------
(* The pool, and _run_evidence_job *)

Busy == {j \in Jobs : future[j] \in {"taken", "working"}}

Take(j) ==
    /\ future[j] = "queued" /\ Cardinality(Busy) < PoolSize
    /\ future' = [future EXCEPT ![j] = "taken"]
    /\ UNCHANGED <<status, event, stored>>

\* The status says running whatever was asked for meanwhile.
Run(j) ==
    /\ future[j] = "taken"
    /\ future' = [future EXCEPT ![j] = "working"]
    /\ status' = [status EXCEPT ![j] = "running"]
    /\ UNCHANGED <<event, stored>>

Ends(j, how) ==
    /\ future[j] = "working"
    /\ future' = [future EXCEPT ![j] = "done"]
    /\ status' = [status EXCEPT ![j] = how]
    /\ UNCHANGED <<event, stored>>

Finishes(j) == Ends(j, IF j \in event THEN "cancelled" ELSE "completed")

\* _cancel_check raises, or something else does.
Stops(j) == j \in event /\ Ends(j, "cancelled")
Fails(j) == Ends(j, "failed")

Starter(j) == Submit(j) \/ Store(j)
Worker(j) == Take(j) \/ Run(j) \/ Finishes(j) \/ Stops(j) \/ Fails(j)

Next == \E j \in Jobs : Enter(j) \/ Starter(j) \/ Cancel(j) \/ Worker(j)

Spec == Init /\ [][Next]_vars

\* Threads go on, and build_evidence_pack ends.
Fairness == \A j \in Jobs : WF_vars(Starter(j)) /\ WF_vars(Worker(j))
FairSpec == Spec /\ Fairness

-----------------------------------------------------------------------------
(* Properties *)

\* What has ended stays as it is.
EndedStays == [][\A j \in Jobs : status[j] \in Terminal => status'[j] = status[j]]_vars

\* A cancellation that was accepted is kept, wherever the job was when it came: the
\* job ends, not as completed, and what has ended stays as it is.
CancelIsKept ==
    /\ \A j \in Jobs : j \in event ~> status[j] \in {"cancelled", "failed"}
    /\ EndedStays
=============================================================================

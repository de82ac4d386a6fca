---------------------------- MODULE SwarmTaskQueue ----------------------------
(***************************************************************************)
(* SwarmTaskQueue (swarm/task_queue.py): tasks that wait for others, are   *)
(* acquired by agents and end.  A task becomes ready when a task it waits  *)
(* for is completed, and at no other time.  Priorities and ages only order *)
(* the ready and the evicted, and are left out: any of them may be taken.  *)
(***************************************************************************)
EXTENDS Integers, FiniteSets

CONSTANTS Tasks,
          MaxSize   \* max_size

VARIABLES status,     \* of every task; "none" before it is queued, "gone" afterwards
          dependsOn,  \* depends_on
          completed,  \* tasks that were completed, whether or not they are still there
          late,       \* tasks queued when all they depend on was completed already
          dropped     \* completed tasks that were evicted or removed

vars == <<status, dependsOn, completed, late, dropped>>

Terminal == {"completed", "failed", "cancelled"}
Queued == {t \in Tasks : status[t] \notin {"none", "gone"}}
Ended == {t \in Queued : status[t] \in Terminal}

Init ==
    /\ status = [t \in Tasks |-> "none"]
    /\ dependsOn = [t \in Tasks |-> {}]
    /\ completed = {} /\ late = {} /\ dropped = {}

\* The tasks in gone leave the queue.
Drops(gone) == dropped' = dropped \cup (gone \cap completed)

\* enqueue: the tasks it depends on are not looked at.  A full queue evicts one
\* that has ended; with none it grows.
Enqueue(t, deps) ==
    /\ status[t] = "none" /\ deps \subseteq {u \in Tasks : status[u] # "none"}
    /\ dependsOn' = [dependsOn EXCEPT ![t] = deps]
    /\ late' = IF deps # {} /\ deps \subseteq completed THEN late \cup {t} ELSE late
    /\ LET put == [status EXCEPT ![t] = IF deps = {} THEN "ready" ELSE "pending"]
       IN IF Cardinality(Queued) < MaxSize \/ Ended = {}
          THEN status' = put /\ UNCHANGED dropped
          ELSE \E u \in Ended : status' = [put EXCEPT ![u] = "gone"] /\ Drops({u})
    /\ UNCHANGED completed

Acquire(t) ==
    /\ status[t] = "ready"
    /\ status' = [status EXCEPT ![t] = "acquired"]
    /\ UNCHANGED <<dependsOn, completed, late, dropped>>

\* Mutant: one completed dependency is enough.
Complete_Any(t) ==
    /\ t \in Queued \ Ended
    /\ status' = [u \in Tasks |->
                    IF u = t THEN "completed"
                    ELSE IF status[u] = "pending" /\ t \in dependsOn[u] THEN "ready"
                    ELSE status[u]]
    /\ completed' = completed \cup {t}
    /\ UNCHANGED <<dependsOn, late, dropped>>

\* complete, of any task that has not ended: what depends on it is looked at, and
\* a task that is no longer there does not count as completed.
Complete(t) ==
    /\ t \in Queued \ Ended
    /\ LET done(d) == d = t \/ status[d] = "completed"
       IN status' = [u \in Tasks |->
                       IF u = t THEN "completed"
                       ELSE IF status[u] = "pending" /\ t \in dependsOn[u]
                               /\ \A d \in dependsOn[u] : done(d) THEN "ready"
                       ELSE status[u]]
    /\ completed' = completed \cup {t}
    /\ UNCHANGED <<dependsOn, late, dropped>>

Fail(t) ==
    /\ t \in Queued \ Ended
    /\ status' = [status EXCEPT ![t] = "failed"]
    /\ UNCHANGED <<dependsOn, completed, late, dropped>>

Cancel(t) ==
    /\ t \in Queued \ Ended
    /\ status' = [status EXCEPT ![t] = "cancelled"]
    /\ UNCHANGED <<dependsOn, completed, late, dropped>>

\* remove one task, or clear them all
Remove(ts) ==
    /\ ts # {} /\ ts \subseteq Queued
    /\ status' = [t \in Tasks |-> IF t \in ts THEN "gone" ELSE status[t]]
    /\ Drops(ts)
    /\ UNCHANGED <<dependsOn, completed, late>>

Next ==
    \/ \E t \in Tasks :
         \/ \E deps \in SUBSET Tasks : Enqueue(t, deps)
         \/ Acquire(t) \/ Complete(t) \/ Fail(t) \/ Cancel(t) \/ Remove({t})
    \/ Remove(Queued)

Spec == Init /\ [][Next]_vars

-----------------------------------------------------------------------------
(* Properties *)

\* "task blocked until deps complete", and no longer: work is given out only when
\* all it depends on was completed, and whoever is blocked waits for something that
\* was not, except tasks queued too late and those whose dependencies have left.
BlockedUntilComplete ==
    \A t \in Queued :
       /\ status[t] \in {"ready", "acquired"} => dependsOn[t] \subseteq completed
       /\ status[t] = "pending" /\ dependsOn[t] \subseteq completed =>
             t \in late \/ dependsOn[t] \cap dropped # {}
=============================================================================

---------------------------- MODULE DistributedLock ----------------------------
(***************************************************************************)
(* DistributedLock (workflow/distributed_lock.py): lock objects for one    *)
(* resource, on any servers.  The lock is a key in Redis with a time to    *)
(* live, and each object believes what its own _acquired says.  Between    *)
(* the command that is sent and its answer the key may run out, and the    *)
(* answer may be an error, whether or not Redis has obeyed, which it does  *)
(* before its caller gives up or not at all.  extend moves the end of a    *)
(* key that may run out at any time here: it changes nothing.              *)
(***************************************************************************)

CONSTANTS Locks,    \* the lock objects, each with an owner_id of its own
          Offline,  \* those whose server has no Redis
          Nobody

\* What the constants are; MCTables, which instantiates this module, assumes it.
LockAssumption == Nobody \notin Locks

VARIABLES key,       \* the owner_id that is stored in Redis, or Nobody
          acquired,  \* the objects whose _acquired is set
          call,      \* the method each object is in, and whether Redis has obeyed
          doubtful   \* objects that believe to have a key that ran out, was deleted, or
                    \* never given

vars == <<key, acquired, call, doubtful>>

Calls == {"none", "acquire", "granted", "refused", "release", "released"}

TypeOK ==
    /\ key \in Locks \cup {Nobody}
    /\ acquired \subseteq Locks /\ doubtful \subseteq Locks
    /\ call \in [Locks -> Calls]

Init ==
    /\ key = Nobody /\ acquired = {} /\ doubtful = {}
    /\ call = [l \in Locks |-> "none"]

Goes(l, step) == call' = [call EXCEPT ![l] = step]

-----------------------------------------------------------------------------
(* acquire *)

\* Without Redis it always succeeds.
AcquireOffline(l) ==
    /\ l \in Offline /\ call[l] = "none"
    /\ acquired' = acquired \cup {l} /\ doubtful' = doubtful \cup {l}
    /\ UNCHANGED <<key, call>>

Acquire(l) ==
    /\ l \notin Offline /\ call[l] = "none"
    /\ Goes(l, "acquire")
    /\ UNCHANGED <<key, acquired, doubtful>>

\* SET NX EX; the object's own key is in the way, too.
SetNX(l) ==
    /\ call[l] = "acquire"
    /\ \/ /\ key = Nobody /\ key' = l
          /\ Goes(l, "granted") /\ doubtful' = doubtful \ {l}
       \/ /\ key # Nobody /\ Goes(l, "refused")
          /\ UNCHANGED <<key, doubtful>>
    /\ UNCHANGED acquired

\* A refusal leaves _acquired as it was.
Answered(l) ==
    /\ call[l] \in {"granted", "refused"}
    /\ acquired' = IF call[l] = "granted" THEN acquired \cup {l} ELSE acquired
    /\ Goes(l, "none")
    /\ UNCHANGED <<key, doubtful>>

\* An error counts as success, whatever Redis has done.
AcquireError(l) ==
    /\ call[l] \in {"acquire", "granted", "refused"}
    /\ acquired' = acquired \cup {l}
    /\ doubtful' = IF key = l THEN doubtful ELSE doubtful \cup {l}
    /\ Goes(l, "none")
    /\ UNCHANGED key

\* A cancellation is no Exception: _acquired stays as it was, whatever the key is by
\* now, in the middle of a release, too.
Cancel(l) ==
    /\ call[l] # "none"
    /\ doubtful' = IF l \in acquired /\ key # l THEN doubtful \cup {l} ELSE doubtful
    /\ Goes(l, "none")
    /\ UNCHANGED <<key, acquired>>

-----------------------------------------------------------------------------
(* release, and the passing of time *)

Release(l) ==
    /\ l \in acquired /\ call[l] = "none"
    /\ IF l \in Offline
       THEN acquired' = acquired \ {l} /\ UNCHANGED call
       ELSE Goes(l, "release") /\ UNCHANGED acquired
    /\ UNCHANGED <<key, doubtful>>

\* Mutant: the key is deleted, whoever owns it.
Delete_Unasked(l) ==
    /\ call[l] = "release"
    /\ key' = Nobody
    /\ Goes(l, "released")
    /\ UNCHANGED <<acquired, doubtful>>

\* The script deletes the key if the object owns it.
Delete(l) ==
    /\ call[l] = "release"
    /\ key' = IF key = l THEN Nobody ELSE key
    /\ Goes(l, "released")
    /\ UNCHANGED <<acquired, doubtful>>

\* Its answer, or an error before or after it.
Released(l) ==
    /\ call[l] \in {"release", "released"}
    /\ acquired' = acquired \ {l}
    /\ Goes(l, "none")
    /\ UNCHANGED <<key, doubtful>>

\* The time to live ends.
Expire ==
    /\ key # Nobody
    /\ key' = Nobody /\ doubtful' = doubtful \cup {key}
    /\ UNCHANGED <<acquired, call>>

Next ==
    \/ \E l \in Locks : \/ AcquireOffline(l) \/ Acquire(l) \/ SetNX(l)
                        \/ Answered(l) \/ AcquireError(l) \/ Cancel(l)
                        \/ Release(l) \/ Delete(l) \/ Released(l)
    \/ Expire

Spec == Init /\ [][Next]_vars

-----------------------------------------------------------------------------
(* Properties *)

\* Whose code may be between acquire and release.
Inside(l) == l \in acquired /\ call[l] \notin {"release", "released"}

\* No two servers are inside at the same time, unless one of them has no Redis, was
\* let in by an error, has stayed longer than its time to live, or was cancelled in
\* its release: another one's late release, refusal or error never opens the door.
ExclusiveWhileLeased ==
    \A l, m \in Locks : l # m /\ Inside(l) /\ Inside(m) => l \in doubtful \/ m \in doubtful
=============================================================================

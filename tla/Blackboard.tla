------------------------------ MODULE Blackboard ------------------------------
(***************************************************************************)
(* AsyncBlackboard (async_primitives/blackboard.py), seen at one key.      *)
(* Every method holds the lock of module AsyncRWLock, so its critical      *)
(* sections are steps; get_or_set has two of them, and the documented      *)
(* read-then-compare_and_set pattern spreads over two calls.               *)
(***************************************************************************)
EXTENDS Integers

CONSTANTS Callers,
          Writes,  \* the methods in use besides the compare-and-set pattern
          Timed,   \* entries may have a time to live
          Cap      \* model bound: an entry of version Cap is not written any more

AllWrites == {"set", "update", "fresh", "get_or_set", "delete", "clear_expired", "expire_if"}

\* What the constants are; MCTables, which extends this module, assumes it.
BoardAssumption == Writes \subseteq AllWrites /\ Timed \in BOOLEAN /\ Cap \in Nat \ {0}

VARIABLES entry,   \* the key's BlackboardEntry
          client   \* what each caller is in the middle of

vars == <<entry, client>>

Nobody == "nobody"
Absent == [version |-> 0, value |-> Nobody, ttl |-> FALSE, expired |-> FALSE]
Idle == [doing |-> "idle", version |-> 0, missed |-> {}]

\* How a write shows in the version: by one more, not at all, or by starting over,
\* as creations and removals do.
Kinds == {"counted", "uncounted", "restarted"}

TypeOK ==
    /\ entry \in [version : 0 .. Cap, value : Callers \cup {Nobody}, ttl : BOOLEAN, expired : BOOLEAN]
    /\ client \in [Callers -> [doing : {"idle", "cas", "create"}, version : 0 .. Cap,
                               missed : SUBSET Kinds]]
    /\ entry.version = 0 => entry = Absent

Init ==
    /\ entry = Absent
    /\ client = [c \in Callers |-> Idle]

-----------------------------------------------------------------------------
(* Entries *)

Present == entry.version > 0
Live == Present /\ ~entry.expired

\* A time to live may be given with a value; none given keeps the entry's own.
TTLs(old) == IF Timed THEN {old, TRUE} ELSE {old}

New(c, ttl) == [version |-> 1, value |-> c, ttl |-> ttl, expired |-> FALSE]

\* A write of an entry that exists: its value, its age and its version.
Rewritten(c, ttl) ==
    [version |-> entry.version + 1, value |-> c, ttl |-> ttl, expired |-> FALSE]

\* Those in the middle of something miss a write, but for a caller that ends with it.
Misses(k, kind) == IF k.doing = "idle" THEN k ELSE [k EXCEPT !.missed = @ \cup {kind}]

Store(kind, e) ==
    /\ entry' = e
    /\ client' = [d \in Callers |-> Misses(client[d], kind)]

StoreAndEnd(c, kind, e) ==
    /\ entry' = e
    /\ client' = [d \in Callers |-> IF d = c THEN Idle ELSE Misses(client[d], kind)]

End(c) == client' = [client EXCEPT ![c] = Idle]

Free(c) == client[c].doing = "idle"

-----------------------------------------------------------------------------
(* Single calls *)

Set(c) ==
    /\ "set" \in Writes /\ Free(c) /\ entry.version < Cap
    /\ \E ttl \in TTLs(entry.ttl) :
          IF Present THEN Store("counted", Rewritten(c, ttl)) ELSE Store("restarted", New(c, ttl))

\* update leaves the version of an entry that exists, and gives no time to live.
Update(c) ==
    /\ "update" \in Writes /\ Free(c)
    /\ IF Present THEN Store("uncounted", [entry EXCEPT !.value = c, !.expired = FALSE])
       ELSE Store("restarted", New(c, FALSE))

\* update_if_fresh; its maximal age has nothing to do with the time to live.
UpdateIfFresh(c) ==
    /\ "fresh" \in Writes /\ Free(c) /\ Present /\ entry.version < Cap
    /\ Store("counted", Rewritten(c, entry.ttl))

\* delete and clear
Delete(c) ==
    /\ "delete" \in Writes /\ Free(c) /\ Present
    /\ Store("restarted", Absent)

ClearExpired(c) ==
    /\ "clear_expired" \in Writes /\ Free(c) /\ Present /\ entry.expired
    /\ Store("restarted", Absent)

\* The time to live runs out.
Expire ==
    /\ Live /\ entry.ttl
    /\ entry' = [entry EXCEPT !.expired = TRUE]
    /\ UNCHANGED client

-----------------------------------------------------------------------------
(* get_or_set *)

\* When get_or_set returns what is there, in its first and its second look.
Returns == Live

CreateLooks(c) ==
    /\ "get_or_set" \in Writes /\ Free(c)
    /\ IF Returns THEN UNCHANGED client
       ELSE client' = [client EXCEPT ![c] = [Idle EXCEPT !.doing = "create"]]
    /\ UNCHANGED entry

\* Mutant: no second look once the lock is held for writing.
CreateWrites_NoSecondLook(c) ==
    /\ client[c].doing = "create"
    /\ StoreAndEnd(c, "restarted", New(c, FALSE))

CreateWrites(c) ==
    /\ client[c].doing = "create"
    /\ IF Returns THEN End(c) /\ UNCHANGED entry
       ELSE \E ttl \in TTLs(FALSE) : StoreAndEnd(c, "restarted", New(c, ttl))

-----------------------------------------------------------------------------
(* get_with_version, then compare_and_set or expire_if_version *)

\* Mutant: the version that is returned is the next one.
ReadVersion_Next(c) ==
    /\ Free(c) /\ entry.version < Cap
    /\ client' = [client EXCEPT ![c] = [doing |-> "cas", version |-> entry.version + 1,
                                       missed |-> {}]]
    /\ UNCHANGED entry

ReadVersion(c) ==
    /\ Free(c)
    /\ \E seen \in {entry.version} \cup (IF entry.expired THEN {0} ELSE {}) :
          client' = [client EXCEPT ![c] = [doing |-> "cas", version |-> seen, missed |-> {}]]
    /\ UNCHANGED entry

\* Mutant: one version later will do.
Matches_OneLater(c) == entry.version \in {client[c].version, client[c].version + 1}

\* The expected version is the current one; 0 stands for no entry.
Matches(c) == entry.version = client[c].version

CompareAndSet(c) ==
    /\ client[c].doing = "cas" /\ Matches(c) /\ entry.version < Cap
    /\ \E ttl \in TTLs(entry.ttl) :
          IF Present THEN StoreAndEnd(c, "counted", Rewritten(c, ttl))
          ELSE StoreAndEnd(c, "restarted", New(c, ttl))

CompareFails(c) ==
    /\ client[c].doing = "cas" /\ ~Matches(c)
    /\ End(c) /\ UNCHANGED entry

ExpireIfVersion(c) ==
    /\ "expire_if" \in Writes
    /\ client[c].doing = "cas" /\ Present /\ Matches(c)
    /\ StoreAndEnd(c, "restarted", Absent)

\* The caller is cancelled, or does not want to write after all.
Abandon(c) == ~Free(c) /\ End(c) /\ UNCHANGED entry

Next ==
    \/ \E c \in Callers :
         \/ Set(c) \/ Update(c) \/ UpdateIfFresh(c) \/ Delete(c) \/ ClearExpired(c)
         \/ CreateLooks(c) \/ CreateWrites(c)
         \/ ReadVersion(c) \/ CompareAndSet(c) \/ CompareFails(c) \/ ExpireIfVersion(c)
         \/ Abandon(c)
    \/ Expire

Spec == Init /\ [][Next]_vars

-----------------------------------------------------------------------------
(* Properties *)

\* "Get a value, or set it if not present (atomic operation)", in two critical sections:
\* of the callers that find the key missing, the first that gets to write creates it,
\* and all others, however long ago they looked, leave what is there by then, so that
\* nothing that is live is replaced, be it from another initialiser or any writer.
Creates(c) == client[c].doing = "create" /\ client'[c].doing = "idle" /\ entry' # entry
CreatedOnce == [][\A c \in Callers : Creates(c) => ~Live]_vars

\* A compare-and-set that writes, or a conditional expiry that removes.
Swaps(c) == client[c].doing = "cas" /\ client'[c].doing = "idle" /\ entry' # entry

\* blackboard.py: compare-and-set overwrites no write that was counted since its
\* caller read the key, unless the versions started over in between; nothing is
\* promised about the writes of update().
CountedNotLost ==
    [][\A c \in Callers :
          Swaps(c) /\ "counted" \in client[c].missed => "restarted" \in client[c].missed]_vars

\* "Version mismatch - concurrent modification detected": a compare-and-set that is
\* about to fail has been overtaken by a write, or the entry it is about expired.
FailsOnConflict ==
    \A c \in Callers :
        client[c].doing = "cas" /\ ~Matches(c) => client[c].missed # {} \/ entry.expired

\* "This prevents lost updates in concurrent PARALLEL mode operations": what a
\* compare-and-set overwrites is what its caller has read.
NoLostUpdate == [][\A c \in Callers : Swaps(c) => client[c].missed = {}]_vars
=============================================================================

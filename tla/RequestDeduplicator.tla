-------------------------- MODULE RequestDeduplicator --------------------------
(***************************************************************************)
(* RequestDeduplicator (resilience/request_deduplicator.py): a table of    *)
(* requests by fingerprint.  A caller checks, executes what is new, and    *)
(* reports by fingerprint alone: by then its entry may have expired, been  *)
(* evicted or removed, or be another caller's.                             *)
(***************************************************************************)
EXTENDS Integers, FiniteSets

CONSTANTS Requests, Callers,
          MaxEntries   \* max_entries

VARIABLES entries,  \* _entries
          older,    \* by created_at: the entries made before each one
          doing,    \* the request each caller is executing
          lost      \* executing callers whose entry expired, was evicted, removed or settled

vars == <<entries, older, doing, lost>>

None == "none"

Absent == [status |-> "absent", expired |-> FALSE, by |-> None]
Entry(c) == [status |-> "pending", expired |-> FALSE, by |-> c]

Init ==
    /\ entries = [r \in Requests |-> Absent]
    /\ older = [r \in Requests |-> {}]
    /\ doing = [c \in Callers |-> None]
    /\ lost = {}

Present == {r \in Requests : entries[r] # Absent}

\* The callers these entries were made for and who still execute.
Owners(rs) == {c \in Callers : doing[c] \in rs /\ entries[doing[c]].by = c}

\* Mutant: only what is completed counts as a duplicate.
Duplicate_CompletedOnly(r) == ~entries[r].expired /\ entries[r].status = "completed"

\* check: any entry that has not expired, a failed one too.
Duplicate(r) == r \in Present /\ ~entries[r].expired

\* The entries rs leave a table that is otherwise as given.
Leave(rs, table, order) ==
    /\ entries' = [r \in Requests |-> IF r \in rs THEN Absent ELSE table[r]]
    /\ older' = [r \in Requests |-> IF r \in rs THEN {} ELSE order[r] \ rs]

\* A duplicate is told so, and leaves nothing.  Otherwise a new entry takes the place
\* of one that has expired, and _enforce_max_entries drops the oldest, pending or not.
Check(c, r) ==
    /\ doing[c] = None /\ ~Duplicate(r)
    /\ doing' = [doing EXCEPT ![c] = r]
    /\ LET now == Present \cup {r}
           order == [q \in Requests |-> IF q = r THEN now \ {r} ELSE older[q] \ {r}]
       IN \E gone \in SUBSET now :
             /\ Cardinality(now \ gone) =
                   IF Cardinality(now) > MaxEntries THEN MaxEntries ELSE Cardinality(now)
             /\ \A kept \in now \ gone : gone \subseteq order[kept]
             /\ Leave(gone, [entries EXCEPT ![r] = Entry(c)], order)
             /\ lost' = lost \cup Owners(gone \ {r}) \cup (IF r \in gone THEN {c} ELSE {})

\* complete and fail: whatever entry the request has by now.
Report(c, status) ==
    /\ doing[c] # None
    /\ doing' = [doing EXCEPT ![c] = None]
    /\ entries' = [r \in Requests |->
                     IF r = doing[c] /\ r \in Present
                     THEN [entries[r] EXCEPT !.status = status, !.by = None] ELSE entries[r]]
    /\ lost' = (lost \cup Owners({doing[c]})) \ {c}
    /\ UNCHANGED older

\* An exception that nobody reports: the entry stays pending until it expires.
Abandon(c) ==
    /\ doing[c] # None
    /\ doing' = [doing EXCEPT ![c] = None]
    /\ lost' = lost \ {c}
    /\ UNCHANGED <<entries, older>>

\* remove, of one, cleanup_expired and clear
Remove(rs) ==
    /\ Leave(rs, entries, older)
    /\ lost' = lost \cup Owners(rs)
    /\ UNCHANGED doing

CleanupExpired == Remove({r \in Present : entries[r].expired})

Expire(r) ==
    /\ r \in Present /\ ~entries[r].expired
    /\ entries' = [entries EXCEPT ![r].expired = TRUE]
    /\ lost' = lost \cup Owners({r})
    /\ UNCHANGED <<older, doing>>

Next ==
    \/ \E c \in Callers : \/ \E r \in Requests : Check(c, r)
                          \/ \E status \in {"completed", "failed"} : Report(c, status)
                          \/ Abandon(c)
    \/ \E r \in Requests : Remove({r}) \/ Expire(r)
    \/ CleanupExpired
    \/ Remove(Requests)

Spec == Init /\ [][Next]_vars

-----------------------------------------------------------------------------
(* Properties *)

\* A request is executed by one caller at a time, unless the entry of an earlier
\* one expired, was evicted or removed, or was settled by a caller before it.
ExecutedOnce ==
    \A c, d \in Callers : c # d /\ doing[c] # None /\ doing[c] = doing[d] =>
        c \in lost \/ d \in lost
=============================================================================

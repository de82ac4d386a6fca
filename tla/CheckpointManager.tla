--------------------------- MODULE CheckpointManager ---------------------------
(***************************************************************************)
(* CheckpointManager (resilience/checkpoint_manager.py), for one session:  *)
(* the list of its checkpoints' ids, the checkpoints by id, and the next   *)
(* sequence number.  Every method changes them under a lock and then saves *)
(* outside of it: it reads the checkpoints, then the next number, then the *)
(* list, and writes index.json in place.  A restart loads what it finds.   *)
(* Ids count the checkpoints created, so that a list is the set of its     *)
(* members, in the order of their ids.                                     *)
(***************************************************************************)
EXTENDS Integers, FiniteSets

CONSTANTS Threads,
          MaxPerSession,  \* max_per_session
          MaxCreated      \* model bound: checkpoints created

VARIABLES list,     \* _sessions: ids, each with the sequence number of its checkpoint
          store,    \* _checkpoints
          next,     \* _sequences
          file,     \* what can be read of index.json
          save,     \* the save each thread is in
          created,
          shifted,  \* a rewind counted positions of a list that had lost an entry
          mixed     \* a save read the checkpoints and the lists of different states

vars == <<list, store, next, file, save, created, shifted, mixed>>

Empty == [store |-> {}, list |-> {}, next |-> 0, mixed |-> FALSE]
Idle == [at |-> "idle", found |-> Empty]
Saving == [at |-> "checkpoints", found |-> Empty]

Init ==
    /\ list = {} /\ store = {} /\ next = 0
    /\ file = Empty /\ save = [t \in Threads |-> Idle]
    /\ created = 0 /\ shifted = FALSE /\ mixed = FALSE

-----------------------------------------------------------------------------
(* The methods, under the lock *)

\* A save that has read the checkpoints and not yet all the rest is overtaken.  One
\* that holds the list itself, and not yet its text, still sees it change in place,
\* unless the session's list is another one by now.
Overtaken(s, inPlace) ==
    [at |-> s.at,
     found |-> [s.found EXCEPT !.mixed = TRUE,
                               !.list = IF s.at = "lists" /\ inPlace THEN list' ELSE @]]

\* One that is in the middle of the checkpoints may have passed those that go.
Torn(s) == [s EXCEPT !.found.store = @ \cup store, !.found.mixed = TRUE]

\* met: the saves that are in the middle of a dictionary, or hold the list itself.
Changes(t, then, inPlace) ==
    /\ save[t] = Idle
    /\ \E met \in SUBSET {u \in Threads \ {t} : save[u].at \in {"checkpoints", "lists"}} :
         save' = [u \in Threads |->
                    CASE u = t -> then
                      [] u # t /\ save[u].at = "checkpoints" /\ u \in met -> Torn(save[u])
                      [] u # t /\ save[u].at \in {"sequences", "lists"} ->
                            Overtaken(save[u], inPlace /\ u \in met)
                      [] OTHER -> save[u]]

\* The oldest make room: the list may already be over the limit.
Trimmed(ids) == {x \in ids : Cardinality({y \in ids : y.id > x.id}) < MaxPerSession}

Create(t) ==
    /\ created < MaxCreated /\ created' = created + 1
    /\ LET ids == list \cup {[id |-> created, sequence |-> next]}
       IN /\ list' = Trimmed(ids)
          /\ store' = (store \cup ids) \ (ids \ list')
    /\ next' = next + 1
    /\ Changes(t, Saving, TRUE)
    /\ UNCHANGED <<file, shifted, mixed>>

UpTo(x) == {y \in list : y.id <= x.id}

\* Mutant: the counter is left one behind.
Rewind_OneBehind(t, x) ==
    /\ list' = UpTo(x) /\ store' = store \ (list \ UpTo(x))
    /\ next' = Cardinality(UpTo(x)) - 1
    /\ shifted' = (shifted \/ x.sequence + 1 # Cardinality(UpTo(x)))
    /\ Changes(t, Saving, FALSE)
    /\ UNCHANGED <<file, created, mixed>>

\* The counter is set to a position in the list.
Rewind(t, x) ==
    /\ list' = UpTo(x) /\ store' = store \ (list \ UpTo(x))
    /\ next' = Cardinality(UpTo(x))
    /\ shifted' = (shifted \/ x.sequence + 1 # next')
    /\ Changes(t, Saving, FALSE)
    /\ UNCHANGED <<file, created, mixed>>

\* delete, and cleanup of those that are old: the counter stays.
Delete(t, ids) ==
    /\ ids # {}
    /\ store' = store \ ids /\ list' = list \ ids
    /\ Changes(t, Saving, TRUE)
    /\ UNCHANGED <<next, file, created, shifted, mixed>>

DeleteSession(t) ==
    /\ list' = {} /\ store' = store \ list /\ next' = 0
    /\ Changes(t, Saving, FALSE)
    /\ UNCHANGED <<file, created, shifted, mixed>>

\* clear saves nothing.
Clear(t) ==
    /\ list' = {} /\ store' = {} /\ next' = 0 /\ mixed' = FALSE
    /\ Changes(t, Idle, FALSE)
    /\ UNCHANGED <<file, created, shifted>>

-----------------------------------------------------------------------------
(* _save and _load *)

\* The dictionary is read to its end, outside of the lock: what was removed meanwhile
\* may be among it.  Where its size has changed the read raises: nothing is saved.
ReadCheckpoints(t) ==
    /\ save[t].at = "checkpoints"
    /\ \/ \E passed \in SUBSET (save[t].found.store \ store) :
             save' = [save EXCEPT ![t] =
                        [at |-> "sequences",
                         found |-> [Empty EXCEPT !.store = store \cup passed,
                                                 !.mixed = mixed \/ save[t].found.mixed]]]
       \/ Cardinality(Threads) > 1 /\ save' = [save EXCEPT ![t] = Idle]
    /\ UNCHANGED <<list, store, next, file, created, shifted, mixed>>

\* dict() copies the numbers, and of the lists only which they are.
ReadSequences(t) ==
    /\ save[t].at = "sequences"
    /\ save' = [save EXCEPT ![t] = [at |-> "lists",
                                    found |-> [@.found EXCEPT !.next = next, !.list = list]]]
    /\ UNCHANGED <<list, store, next, file, created, shifted, mixed>>

\* Once all is text, write_text truncates the file, and then writes it: what cannot
\* be parsed is as good as nothing.
Dump(t) ==
    /\ save[t].at = "lists"
    /\ save' = [save EXCEPT ![t].at = "write"]
    /\ file' = Empty
    /\ UNCHANGED <<list, store, next, created, shifted, mixed>>

\* Of two that have opened the file, the second may leave the other's tail.
Write(t) ==
    /\ save[t].at \in {"write", "write over"}
    /\ save' = [u \in Threads |->
                  IF u = t THEN Idle
                  ELSE IF save[u].at = "write" THEN [save[u] EXCEPT !.at = "write over"]
                  ELSE save[u]]
    /\ file' \in {save[t].found} \cup (IF save[t].at = "write over" THEN {Empty} ELSE {})
    /\ UNCHANGED <<list, store, next, created, shifted, mixed>>

\* What cannot be parsed is logged and left: the manager starts with nothing.
Restart ==
    /\ store' = file.store /\ list' = file.list /\ next' = file.next
    /\ mixed' = file.mixed
    /\ save' = [t \in Threads |-> Idle]
    /\ UNCHANGED <<file, created, shifted>>

Next ==
    \/ \E t \in Threads :
         \/ Create(t)
         \/ \E x \in list : Rewind(t, x)
         \/ \E ids \in SUBSET store : Delete(t, ids)
         \/ DeleteSession(t)
         \/ Clear(t)
         \/ ReadCheckpoints(t) \/ ReadSequences(t) \/ Dump(t) \/ Write(t)
    \/ Restart

Spec == Init /\ [][Next]_vars

-----------------------------------------------------------------------------
(* Properties *)

\* A session lists the checkpoints that exist and no others, in the order of their
\* sequence numbers and all below the next one, as long as no rewind met a list with
\* a gap and unless the file it was restored from was put together from two states:
\* across restarts from whatever file a crash has left.
SessionConsistent ==
    ~mixed => /\ list = store
              /\ ~shifted => \A x, y \in list : /\ x.id < y.id => x.sequence < y.sequence
                                                /\ x.sequence < next
=============================================================================

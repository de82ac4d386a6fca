------------------------------ MODULE SagaManager ------------------------------
(***************************************************************************)
(* SagaManager (hive_mind/saga_manager.py) and the context window it       *)
(* truncates (hive_mind/context_manager.py), as operators on a saga's      *)
(* fields and on the sequence of context items.                            *)
(***************************************************************************)
EXTENDS Integers, SequencesExt

CONSTANT MaxItems   \* max_tokens, every item counted as one

ASSUME ItemsAssumption == MaxItems \in Nat \ {0}

PhaseOrder == <<"analysis", "debate", "architecture", "execution",
                "diagnosis", "retry", "consolidation">>
Phases == {"analysis", "debate", "architecture", "execution",
           "diagnosis", "retry", "consolidation"}
After(p) == {q \in Phases : \E i, j \in DOMAIN PhaseOrder :
                i < j /\ PhaseOrder[i] = p /\ PhaseOrder[j] = q}

\* The flag that says a phase is done; _reset_context_after knows no other.
FlagOf == [analysis |-> "analysis_complete", debate |-> "debate_complete",
           architecture |-> "architecture_approved", execution |-> "execution_complete",
           diagnosis |-> "diagnosis_complete", retry |-> "retry_exhausted"]

-----------------------------------------------------------------------------
(* A saga: its checkpoints with the length the context had, the flags of its *)
(* context and its recovery point.  The compensations clear fields of the    *)
(* orchestrator that the next task sets anew, and are left out.              *)

None == "none"
NoCheckpoints == [p \in {} |-> 0]
NoFile == [cps |-> NoCheckpoints, flags |-> {}, recovery |-> "no file"]

NewSaga == [cps |-> NoCheckpoints, flags |-> {}, recovery |-> None]

\* checkpoint_phase, up to the write
Checkpointed(saga, p, length) ==
    [saga EXCEPT !.cps = [q \in DOMAIN saga.cps \cup {p} |->
                             IF q = p THEN length ELSE saga.cps[q]],
                 !.recovery = p]

\* update_context
Flagged(saga, flag) == [saga EXCEPT !.flags = @ \cup {flag}]

\* _reset_context_after
ResetAfter(flags, p) == flags \ {FlagOf[q] : q \in After(p) \cap DOMAIN FlagOf}

\* What rollback_to leaves in memory.
RolledBack(saga, p) ==
    [saga EXCEPT !.cps = [q \in DOMAIN saga.cps \ After(p) |-> saga.cps[q]],
                 !.flags = ResetAfter(saga.flags, p), !.recovery = p]

-----------------------------------------------------------------------------
(* The context window: items, oldest first, with the phase they tell of *)

CRITICAL == 4
HIGH == 3
MEDIUM == 2

Item(p, priority) == [from |-> p, priority |-> priority]

\* _evict_one: the item of the lowest priority, the oldest of those.
Evictable(items) == {i \in DOMAIN items : items[i].priority # CRITICAL}
Victim(items) == CHOOSE i \in Evictable(items) : \A j \in Evictable(items) :
                    \/ items[i].priority < items[j].priority
                    \/ items[i].priority = items[j].priority /\ i <= j

\* add_item: what fits in no way is dropped.
Added(items, item) ==
    IF Len(items) < MaxItems THEN Append(items, item)
    ELSE IF Evictable(items) # {} THEN Append(RemoveAt(items, Victim(items)), item)
    ELSE items

Truncated(items, length) == SubSeq(items, 1, IF length < Len(items) THEN length ELSE Len(items))
=============================================================================

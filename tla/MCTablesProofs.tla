----------------------------- MODULE MCTablesProofs -----------------------------
(***************************************************************************)
(* Safety of the tables, for any numbers of callers, tasks, servers and    *)
(* threads and any limits.  MCTables explores each of them on its own; so  *)
(* are they proved here, one section each and over its own Spec.  A        *)
(* behaviour of the sum is a behaviour of every one of them.               *)
(***************************************************************************)
EXTENDS MCTables, BlackboardProofs, SequenceTheorems, TLAPS

-----------------------------------------------------------------------------
(* The sum *)

\* A behaviour of the sum is a behaviour of every table.
LEMMA SumRunsTables ==
    TablesSpec =>
        /\ Spec /\ Token!Spec /\ Manager!Spec /\ Dedup!Spec /\ Checkpoints!Spec /\ Queue!Spec
        /\ Scheduler!Spec /\ Engine!Spec /\ Registry!Spec /\ Lock!Spec /\ Question!Spec
<1>0. TablesInit => /\ Init /\ Token!Init /\ Manager!Init /\ Dedup!Init /\ Checkpoints!Init /\ Queue!Init
                    /\ Scheduler!Init /\ Engine!Init /\ Registry!Init /\ Lock!Init /\ Question!Init
  BY DEF TablesInit
<1>1. [TablesNext]_allVars => [Next]_vars
  BY DEF TablesNext, Only, allVars
<1>2. [TablesNext]_allVars => [Token!Next]_Token!vars
  BY DEF TablesNext, Only, allVars, tokenVars, Token!vars
<1>3. [TablesNext]_allVars => [Manager!Next]_Manager!vars
  BY DEF TablesNext, Only, allVars, managerVars, Manager!vars
<1>4. [TablesNext]_allVars => [Dedup!Next]_Dedup!vars
  BY DEF TablesNext, Only, allVars, dedupVars, Dedup!vars
<1>5. [TablesNext]_allVars => [Checkpoints!Next]_Checkpoints!vars
  BY DEF TablesNext, Only, allVars, checkpointVars, Checkpoints!vars
<1>6. [TablesNext]_allVars => [Queue!Next]_Queue!vars
  BY DEF TablesNext, Only, allVars, queueVars, Queue!vars
<1>7. [TablesNext]_allVars => [Scheduler!Next]_Scheduler!vars
  BY DEF TablesNext, Only, allVars, schedulerVars, Scheduler!vars
<1>8. [TablesNext]_allVars => [Engine!Next]_Engine!vars
  BY DEF TablesNext, Only, allVars, workflowVars, Engine!vars
<1>9. [TablesNext]_allVars => [Registry!Next]_Registry!vars
  BY DEF TablesNext, Only, allVars, registryVars, Registry!vars
<1>10. [TablesNext]_allVars => [Lock!Next]_Lock!vars
  BY DEF TablesNext, Only, allVars, lockVars, Lock!vars
<1>11. [TablesNext]_allVars => [Question!Next]_Question!vars
  BY DEF TablesNext, Only, allVars, questionVars, Question!vars, Question!row
<1> QED BY <1>0, <1>1, <1>2, <1>3, <1>4, <1>5, <1>6, <1>7, <1>8, <1>9, <1>10, <1>11, PTL
        DEF TablesSpec, Spec, Token!Spec, Manager!Spec, Dedup!Spec, Checkpoints!Spec, Queue!Spec,
            Scheduler!Spec, Engine!Spec, Registry!Spec, Lock!Spec, Question!Spec

-----------------------------------------------------------------------------
(* The swarm's queue.  What is remembered as completed is what still is, or  *)
(* has left as completed; so that a dependency is completed, or was dropped, *)
(* or is what a blocked task waits for.                                      *)

QueueStatuses == {"none", "pending", "ready", "acquired", "completed", "failed", "cancelled", "gone"}

QueueType ==
    /\ queued \in [Queueable -> QueueStatuses]
    /\ needs \in [Queueable -> SUBSET Queueable]
    /\ completed \subseteq Queueable /\ dropped \subseteq completed

QueueInv ==
    /\ QueueType
    /\ \A t \in Queueable : t \in completed <=> queued[t] = "completed" \/ t \in dropped
    /\ BlockedUntilComplete

LEMMA QueueStart == Queue!Init => QueueInv
  BY DEF Queue!Init, QueueInv, QueueType, QueueStatuses, BlockedUntilComplete,
         Queue!BlockedUntilComplete, Queue!Queued

LEMMA QueueStep ==
    ASSUME QueueInv, [Queue!Next]_Queue!vars
    PROVE  QueueInv'
<1> USE DEF QueueInv, QueueType, QueueStatuses, BlockedUntilComplete, Queue!BlockedUntilComplete,
            Queue!Queued, Queue!Ended, Queue!Terminal, Queue!Drops
<1>1. ASSUME NEW t \in Queueable, NEW deps \in SUBSET Queueable, Queue!Enqueue(t, deps)
      PROVE  QueueInv'
  BY <1>1 DEF Queue!Enqueue
<1>2. ASSUME NEW t \in Queueable, Queue!Acquire(t) \/ Queue!Fail(t) \/ Queue!Cancel(t)
      PROVE  QueueInv'
  BY <1>2 DEF Queue!Acquire, Queue!Fail, Queue!Cancel
<1>3. ASSUME NEW t \in Queueable, Queue!Complete(t) PROVE QueueInv'
  BY <1>3 DEF Queue!Complete
<1>4. ASSUME NEW ts \in SUBSET Queueable, Queue!Remove(ts) PROVE QueueInv'
  BY <1>4 DEF Queue!Remove
<1>5. CASE UNCHANGED Queue!vars
  BY <1>5 DEF Queue!vars
<1> QED BY <1>1, <1>2, <1>3, <1>4, <1>5 DEF Queue!Next

\* task_queue.py: no task is given out before all it depends on was completed, and
\* none stays blocked once it was, but for tasks queued too late or whose
\* dependencies have left.
THEOREM QueueBlocks == Queue!Spec => []BlockedUntilComplete
<1>1. QueueInv => BlockedUntilComplete
  BY DEF QueueInv
<1> QED BY <1>1, QueueStart, QueueStep, PTL DEF Queue!Spec

-----------------------------------------------------------------------------
(* The scheduler.  Whatever is blocked has a dependency that is not completed *)
(* now: the states are brought up to date whenever one is.  What was          *)
(* completed and is not so now was cleared.                                  *)

SchedulerStatuses == {"none", "pending", "blocked", "running", "completed", "failed", "cancelled"}

SchedulerType ==
    /\ scheduled \in [Names -> SchedulerStatuses]
    /\ dependencies \in [Names -> SUBSET Names]
    /\ started \in [Names -> Nat]
    /\ picked \in [Workers -> Names \cup {Scheduler!Nothing}]
    /\ done \subseteq Names

SchedulerInv ==
    /\ SchedulerType
    /\ \A n \in Names :
          /\ scheduled[n] \in {"pending", "blocked"} => started[n] = 0
          /\ scheduled[n] # "none" => started[n] <= 1
          /\ scheduled[n] = "completed" => n \in done
          /\ n \in done => scheduled[n] = "completed" \/ n \in cleared
          /\ scheduled[n] \in {"pending", "running"} => dependencies[n] \subseteq done
          /\ scheduled[n] = "blocked" => \E d \in dependencies[n] : scheduled[d] # "completed"

\* _update_blocked_states moves tasks between blocked and pending, by what they
\* depend on, and completes none.
LEMMA BlockedStates ==
    ASSUME NEW now \in [Names -> SchedulerStatuses]
    PROVE  /\ Scheduler!Updated(now) \in [Names -> SchedulerStatuses]
           /\ \A n \in Names :
                 /\ now[n] \notin {"blocked", "pending"} => Scheduler!Updated(now)[n] = now[n]
                 /\ now[n] \in {"blocked", "pending"} =>
                       Scheduler!Updated(now)[n] =
                          IF Scheduler!Satisfied(dependencies[n], now) THEN "pending" ELSE "blocked"
  BY DEF Scheduler!Updated, SchedulerStatuses

LEMMA SchedulerStart == Scheduler!Init => SchedulerInv
  BY DEF Scheduler!Init, SchedulerInv, SchedulerType, SchedulerStatuses

\* A state that is brought up to date keeps the invariant.
LEMMA UpdateKeeps ==
    ASSUME SchedulerType, NEW now \in [Names -> SchedulerStatuses],
           scheduled' = Scheduler!Updated(now), done' \subseteq Names,
           UNCHANGED <<dependencies, started, cleared>>, picked' \in [Workers -> Names \cup {Scheduler!Nothing}],
           \A n \in Names :
              /\ now[n] \in {"pending", "blocked"} => started[n] = 0
              /\ now[n] # "none" => started[n] <= 1
              /\ now[n] = "completed" => n \in done'
              /\ n \in done' => now[n] = "completed" \/ n \in cleared
              /\ now[n] \in {"running"} => dependencies[n] \subseteq done'
    PROVE  SchedulerInv'
<1>1. \A n \in Names : scheduled'[n] = "completed" <=> now[n] = "completed"
  BY BlockedStates
<1>2. \A n \in Names :
         scheduled'[n] \in {"pending", "blocked"} =>
            /\ now[n] \in {"pending", "blocked"}
            /\ scheduled'[n] = IF Scheduler!Satisfied(dependencies[n], now) THEN "pending" ELSE "blocked"
  BY BlockedStates
<1>3. SchedulerType'
  BY BlockedStates DEF SchedulerType
<1>4. ASSUME NEW n \in Names
      PROVE  /\ scheduled'[n] = "pending" => dependencies[n] \subseteq done'
             /\ scheduled'[n] = "blocked" => \E d \in dependencies[n] : scheduled'[d] # "completed"
  BY <1>1, <1>2 DEF Scheduler!Satisfied, SchedulerType
<1>5. ASSUME NEW n \in Names
      PROVE  /\ scheduled'[n] # "none" => now[n] # "none"
             /\ scheduled'[n] = "running" => now[n] = "running"
  BY BlockedStates
<1> QED BY <1>1, <1>2, <1>3, <1>4, <1>5 DEF SchedulerInv

LEMMA SchedulerStep ==
    ASSUME SchedulerInv, [Scheduler!Next]_Scheduler!vars
    PROVE  SchedulerInv'
<1> USE DEF SchedulerStatuses
<1>1. ASSUME NEW n \in Names, NEW deps \in SUBSET Names, Scheduler!Submit(n, deps)
      PROVE  SchedulerInv'
  BY <1>1 DEF Scheduler!Submit, Scheduler!Satisfied, Scheduler!Known, SchedulerInv, SchedulerType
<1>2. ASSUME NEW w \in Workers, Scheduler!NextTask(w) PROVE SchedulerInv'
  <2>1. picked' \in [Workers -> Names \cup {Scheduler!Nothing}]
    BY <1>2 DEF Scheduler!NextTask, SchedulerInv, SchedulerType
  <2> QED BY <1>2, <2>1, UpdateKeeps DEF Scheduler!NextTask, SchedulerInv, SchedulerType
<1>3. ASSUME NEW w \in Workers, Scheduler!Start(w) PROVE SchedulerInv'
  BY <1>3 DEF Scheduler!Start, SchedulerInv, SchedulerType
<1>4. ASSUME NEW n \in Names, Scheduler!Complete(n) PROVE SchedulerInv'
  <2> DEFINE now == [scheduled EXCEPT ![n] = "completed"]
  <2>1. now \in [Names -> SchedulerStatuses]
    BY DEF SchedulerInv, SchedulerType
  <2>2. /\ scheduled' = Scheduler!Updated(now) /\ done' = done \cup {n}
        /\ UNCHANGED <<dependencies, started, cleared, picked>> /\ scheduled[n] # "none"
    BY <1>4 DEF Scheduler!Complete, Scheduler!Known
  <2>3. \A m \in Names : now[m] = IF m = n THEN "completed" ELSE scheduled[m]
    BY DEF SchedulerInv, SchedulerType
  <2> HIDE DEF now
  <2> QED BY <2>1, <2>2, <2>3, UpdateKeeps DEF SchedulerInv, SchedulerType
<1>5. ASSUME NEW n \in Names, NEW how \in {"failed", "cancelled"}, Scheduler!Break(n, how)
      PROVE  SchedulerInv'
  BY <1>5 DEF Scheduler!Break, Scheduler!Known, Scheduler!Terminal, SchedulerInv, SchedulerType
<1>6. CASE Scheduler!ClearCompleted
  BY <1>6 DEF Scheduler!ClearCompleted, Scheduler!Terminal, SchedulerInv, SchedulerType
<1>7. CASE UNCHANGED Scheduler!vars
  BY <1>7 DEF Scheduler!vars, SchedulerInv, SchedulerType
<1> QED BY <1>1, <1>2, <1>3, <1>4, <1>5, <1>6, <1>7 DEF Scheduler!Next

\* task_scheduler.py: a task is started once, when all it depends on was completed,
\* and stays blocked only while something is not completed or was cleared.
THEOREM SchedulerRunsOnce == Scheduler!Spec => []RunsOnceWhenReady
<1>1. SchedulerInv => RunsOnceWhenReady
  BY DEF SchedulerInv, SchedulerType, RunsOnceWhenReady, Scheduler!RunsOnceWhenReady, Scheduler!Known
<1> QED BY <1>1, SchedulerStart, SchedulerStep, PTL DEF Scheduler!Spec

-----------------------------------------------------------------------------
(* The workflow engine.  In one execution a step is settled once it was taken *)
(* from the order, but for the one that is running; so that what a running    *)
(* step depends on was settled, and is still as its handler was promised.     *)

EngineType ==
    /\ dependsOn \in [Steps -> SUBSET (Steps \cup {Missing})]
    /\ status \in [Steps -> {"pending", "running", "completed", "failed", "skipped"}]
    /\ taken \subseteq Steps /\ settled \subseteq Steps
    /\ current \in Steps \cup {Engine!None}

EngineInv ==
    /\ EngineType
    /\ current # Engine!None =>
          /\ executing /\ workflow = "running" /\ current \in taken /\ current \notin settled
          /\ taken = settled \cup {current}
          /\ dependsOn[current] \subseteq settled
          /\ Engine!Satisfied(current)
    /\ executing /\ current = Engine!None => workflow = "running" /\ taken = settled
    /\ ~executing => current = Engine!None
    /\ executing \in BOOLEAN /\ stopOnFailure \in BOOLEAN
    /\ RunsOnFreshResults

LEMMA EngineStart == Engine!Init => EngineInv
  BY InstancesAreAssumed
  DEF Engine!Init, EngineInv, EngineType, RunsOnFreshResults, Engine!RunsOnFreshResults,
      Engine!StepsAssumption, Engine!None

\* A step that is taken depends on steps that were taken before it.
LEMMA StepTaken ==
    ASSUME EngineInv, NEW s \in Steps, Engine!Skip(s) \/ Engine!NoHandler(s) \/ Engine!Begin(s)
    PROVE  EngineInv'
<1> USE InstancesAreAssumed DEF EngineInv, EngineType, RunsOnFreshResults,
        Engine!RunsOnFreshResults, Engine!StepsAssumption, Engine!Satisfied,
        Engine!Takes, Engine!InOrder
<1>1. CASE Engine!Skip(s)
  BY <1>1 DEF Engine!Skip, Engine!Settles
<1>2. CASE Engine!NoHandler(s)
  BY <1>2 DEF Engine!NoHandler, Engine!FailsNow, Engine!Settles, Engine!Final
<1>3. CASE Engine!Begin(s)
  BY <1>3 DEF Engine!Begin
<1> QED BY <1>1, <1>2, <1>3

LEMMA EngineStep ==
    ASSUME EngineInv, [Engine!Next]_Engine!vars
    PROVE  EngineInv'
<1> USE InstancesAreAssumed DEF EngineInv, EngineType, RunsOnFreshResults,
        Engine!RunsOnFreshResults, Engine!StepsAssumption, Engine!Satisfied
<1>1. CASE Engine!Execute
  BY <1>1 DEF Engine!Execute
<1>2. CASE Engine!Succeeds
  BY <1>2 DEF Engine!Succeeds, Engine!Settles
<1>3. CASE Engine!Raises
  <2>1. CASE attempts' = attempts + 1 /\ UNCHANGED <<status, workflow, executing, current, settled>>
    BY <1>3, <2>1 DEF Engine!Raises
  <2>2. CASE Engine!FailsNow(current) /\ current' = Engine!None
    BY <1>3, <2>2 DEF Engine!Raises, Engine!FailsNow, Engine!Settles, Engine!Final
  <2> QED BY <1>3, <2>1, <2>2 DEF Engine!Raises
<1>4. CASE Engine!Finish
  BY <1>4 DEF Engine!Finish, Engine!InOrder, Engine!Final
<1>5. CASE UNCHANGED Engine!vars
  BY <1>5 DEF Engine!vars
<1>6. CASE Engine!Interrupted
  BY <1>6 DEF Engine!Interrupted
<1> QED BY <1>1, <1>2, <1>3, <1>4, <1>5, <1>6, StepTaken DEF Engine!Next

\* workflow_engine.py: a handler runs on the results of this execution, and a
\* completed workflow has settled every step of the order.
THEOREM EngineRunsFresh == Engine!Spec => []RunsOnFreshResults
<1>1. EngineInv => RunsOnFreshResults
  BY DEF EngineInv
<1> QED BY <1>1, EngineStart, EngineStep, PTL DEF Engine!Spec

-----------------------------------------------------------------------------
(* The distributed lock.  An object that is inside, or was just let in and   *)
(* has not heard of it, owns the key, unless it is doubtful.  The key has    *)
(* one owner.                                                                *)

Holds(l) == Lock!Inside(l) \/ lockCall[l] = "granted"

LockInv == Lock!TypeOK /\ \A l \in Locks : Holds(l) /\ l \notin doubtful => key = l

\* One object's calls to acquire.
LEMMA LockAcquiring ==
    ASSUME Lock!LockAssumption, LockInv, NEW l \in Locks,
           Lock!AcquireOffline(l) \/ Lock!Acquire(l) \/ Lock!SetNX(l) \/ Lock!Answered(l) \/ Lock!AcquireError(l)
    PROVE  LockInv'
<1>1. CASE Lock!AcquireOffline(l)
  BY <1>1 DEF Lock!AcquireOffline, LockInv, Lock!TypeOK, Holds, Lock!Inside
<1>2. CASE Lock!Acquire(l)
  BY <1>2 DEF Lock!Acquire, Lock!Goes, LockInv, Lock!TypeOK, Holds, Lock!Inside, Lock!Calls
<1>3. CASE Lock!SetNX(l)
  <2>1. CASE key = NoLock /\ key' = l
    <3>1. \A m \in Locks : Holds(m) => m \in doubtful
      BY <2>1 DEF LockInv, Lock!LockAssumption
    <3>2. \A m \in Locks : m # l /\ Holds(m)' => m \in doubtful'
      BY <1>3, <2>1, <3>1 DEF Lock!SetNX, Lock!Goes, LockInv, Lock!TypeOK, Holds, Lock!Inside, Lock!LockAssumption
    <3>3. Lock!TypeOK'
      BY <1>3, <2>1 DEF Lock!SetNX, Lock!Goes, LockInv, Lock!TypeOK, Lock!Calls
    <3> QED
      BY <2>1, <3>2, <3>3 DEF LockInv
  <2>2. CASE key # NoLock
    BY <1>3, <2>2 DEF Lock!SetNX, Lock!Goes, LockInv, Lock!TypeOK, Holds, Lock!Inside, Lock!Calls
  <2> QED
    BY <1>3, <2>1, <2>2 DEF Lock!SetNX
<1>4. CASE Lock!Answered(l)
  BY <1>4 DEF Lock!Answered, Lock!Goes, LockInv, Lock!TypeOK, Holds, Lock!Inside, Lock!Calls
<1>5. CASE Lock!AcquireError(l)
  BY <1>5 DEF Lock!AcquireError, Lock!Goes, LockInv, Lock!TypeOK, Holds, Lock!Inside, Lock!Calls
<1> QED
  BY <1>1, <1>2, <1>3, <1>4, <1>5

\* One object's release: who has begun it is inside no more when the key goes.
LEMMA LockReleasing ==
    ASSUME Lock!LockAssumption, LockInv, NEW l \in Locks, Lock!Release(l) \/ Lock!Delete(l) \/ Lock!Released(l)
    PROVE  LockInv'
<1>1. CASE Lock!Release(l)
  BY <1>1 DEF Lock!Release, Lock!Goes, LockInv, Lock!TypeOK, Holds, Lock!Inside, Lock!Calls
<1>2. CASE Lock!Delete(l)
  BY <1>2 DEF Lock!Delete, Lock!Goes, LockInv, Lock!TypeOK, Holds, Lock!Inside, Lock!Calls
<1>3. CASE Lock!Released(l)
  BY <1>3 DEF Lock!Released, Lock!Goes, LockInv, Lock!TypeOK, Holds, Lock!Inside, Lock!Calls
<1> QED
  BY <1>1, <1>2, <1>3

\* A cancelled lockCall leaves its object acquired without the key at worst, and doubtful.
LEMMA LockCancelling == ASSUME LockInv, NEW l \in Locks, Lock!Cancel(l) PROVE LockInv'
  BY DEF Lock!Cancel, Lock!Goes, LockInv, Lock!TypeOK, Holds, Lock!Inside, Lock!Calls

\* A key that runs out makes its owner doubtful.
LEMMA LockExpiring == ASSUME Lock!LockAssumption, LockInv, Lock!Expire PROVE LockInv'
  BY DEF Lock!Expire, LockInv, Lock!TypeOK, Holds, Lock!Inside

LEMMA LockStep == ASSUME Lock!LockAssumption, LockInv, [Lock!Next]_Lock!vars PROVE LockInv'
<1>1. CASE UNCHANGED Lock!vars
  BY <1>1 DEF Lock!vars, LockInv, Lock!TypeOK, Holds, Lock!Inside
<1>2. CASE Lock!Next
  BY <1>2, LockAcquiring, LockReleasing, LockCancelling, LockExpiring DEF Lock!Next
<1> QED
  BY <1>1, <1>2

\* Two that are inside and not doubtful would both own the key.
LEMMA OneOwner == ASSUME LockInv PROVE ExclusiveWhileLeased
  BY DEF LockInv, ExclusiveWhileLeased, Lock!ExclusiveWhileLeased, Holds

LEMMA LockStart == Lock!LockAssumption /\ Lock!Init => LockInv
  BY DEF Lock!Init, LockInv, Lock!TypeOK, Lock!Calls, Holds, Lock!Inside

\* distributed_lock.py: however many servers contend, with answers lost and keys
\* running out at any moment, two are inside together only where one is doubtful.
THEOREM LeasesExclude == Lock!Spec => []ExclusiveWhileLeased
<1>1. Lock!Init => LockInv
  BY LockStart, InstancesAreAssumed
<1>2. LockInv /\ [Lock!Next]_Lock!vars => LockInv'
  BY LockStep, InstancesAreAssumed
<1>3. LockInv => ExclusiveWhileLeased
  BY OneOwner
<1> QED BY <1>1, <1>2, <1>3, PTL DEF Lock!Spec

-----------------------------------------------------------------------------
(* The question to the user.  Once something has settled it the row is never  *)
(* pending again.                                                             *)

QuestionInv ==
    /\ call \in [Clerks -> {"idle", "answered", "cancelled", "ended"}]
    /\ succeeded # {} => request \notin {"none", "pending"}

LEMMA QuestionStart == Question!Init => QuestionInv
  BY DEF Question!Init, QuestionInv

LEMMA QuestionStep ==
    ASSUME QuestionInv, [Question!Next]_Question!vars
    PROVE  QuestionInv'
<1> USE DEF QuestionInv
<1>1. CASE Question!CreateRequest \/ Question!RunsOut \/ Question!CleanupExpired
  BY <1>1 DEF Question!CreateRequest, Question!RunsOut, Question!CleanupExpired, Question!row
<1>2. ASSUME NEW c \in Clerks, Question!Write(c) PROVE QuestionInv'
  BY <1>2 DEF Question!Write, Question!Commits, Question!UnderWay
<1>3. ASSUME NEW c \in Clerks,
             Question!Refused(c) \/ \E does \in {"answered", "cancelled"} : Question!Find(c, does)
      PROVE  QuestionInv'
  BY <1>3 DEF Question!Refused, Question!Commits, Question!UnderWay, Question!Find, Question!row
<1>4. CASE UNCHANGED Question!vars
  BY <1>4 DEF Question!vars, Question!row
<1> QED BY <1>1, <1>2, <1>3, <1>4 DEF Question!Next

\* hitl_persistence.py: whatever calls, refused commits and cleanups cross, what is
\* settled is written over only by calls that had looked before.
THEOREM SettledByLookers == Question!Spec => SettledIsFinal
<1>1. QuestionInv /\ [Question!Next]_Question!vars =>
        [succeeded # {} =>
           /\ \A c \in Clerks : call[c] = "idle" => call'[c] = "idle"
           /\ Question!UnderWay = {} => UNCHANGED Question!row]_Question!vars
  <2> SUFFICES ASSUME QuestionInv, Question!Next, succeeded # {}
               PROVE  /\ \A c \in Clerks : call[c] = "idle" => call'[c] = "idle"
                      /\ Question!UnderWay = {} => UNCHANGED Question!row
    OBVIOUS
  <2>1. request \notin {"none", "pending"}
    BY DEF QuestionInv
  <2>2. CASE Question!CreateRequest \/ Question!RunsOut \/ Question!CleanupExpired
    BY <2>1, <2>2 DEF Question!CreateRequest, Question!RunsOut, Question!CleanupExpired,
                      Question!Open, Question!row
  <2>3. ASSUME NEW c \in Clerks, Question!Write(c) \/ Question!Refused(c)
        PROVE  /\ \A d \in Clerks : call[d] = "idle" => call'[d] = "idle"
               /\ Question!UnderWay # {}
    BY <2>3 DEF QuestionInv, Question!Write, Question!Refused, Question!UnderWay
  <2>4. ASSUME NEW c \in Clerks, NEW does \in {"answered", "cancelled"}, Question!Find(c, does)
        PROVE  FALSE
    BY <2>1, <2>4 DEF Question!Find, Question!Open
  <2> QED BY <2>2, <2>3, <2>4 DEF Question!Next
<1> QED BY <1>1, QuestionStart, QuestionStep, PTL DEF Question!Spec, SettledIsFinal, Question!SettledIsFinal

-----------------------------------------------------------------------------
(* The background tasks.  What a cancel_all waits for is what was active, and *)
(* what became active since was created meanwhile: nobody else is forgotten   *)
(* when the wait is over.                                                     *)

ManagerType ==
    /\ task \in [Background -> {"none", "running", "cancelling", "completed", "failed", "cancelled"}]
    /\ active \subseteq Background /\ called \subseteq Manager!Ended
    /\ waiting \in [Cancellers -> SUBSET Background]

ManagerInv ==
    /\ ManagerType
    /\ \A t \in Background : task[t] = "none" => t \notin active
    /\ \A c \in Cancellers : waiting[c] # {} => active \subseteq waiting[c] \cup during
    /\ ErrorsReported

LEMMA ManagerStart == Manager!Init => ManagerInv
  BY DEF Manager!Init, ManagerInv, ManagerType, ErrorsReported, Manager!ErrorsReported, Manager!Ended

LEMMA ManagerStep ==
    ASSUME ManagerInv, [Manager!Next]_Manager!vars
    PROVE  ManagerInv'
<1> USE DEF ManagerInv, ManagerType, ErrorsReported, Manager!ErrorsReported, Manager!Ended
<1>1. ASSUME NEW t \in Background, Manager!CreateTask(t) PROVE ManagerInv'
  BY <1>1 DEF Manager!CreateTask
<1>2. ASSUME NEW t \in Background, Manager!Ends(t) PROVE ManagerInv'
  BY <1>2 DEF Manager!Ends
<1>3. ASSUME NEW t \in Background, Manager!DoneCallback(t) PROVE ManagerInv'
  BY <1>3 DEF Manager!DoneCallback
<1>4. ASSUME NEW c \in Cancellers, Manager!CancelAll(c) PROVE ManagerInv'
  BY <1>4 DEF Manager!CancelAll
<1>5. ASSUME NEW c \in Cancellers, Manager!WaitEnds(c) PROVE ManagerInv'
  BY <1>5 DEF Manager!WaitEnds
<1>6. CASE UNCHANGED Manager!vars
  BY <1>6 DEF Manager!vars
<1> QED BY <1>1, <1>2, <1>3, <1>4, <1>5, <1>6 DEF Manager!Next

\* safe_task_manager.py: an error reaches its on_error and a living task is visible,
\* but for tasks created while a cancel_all waited and those it gave up.
THEOREM ManagerReports == Manager!Spec => []ErrorsReported
<1>1. ManagerInv => ErrorsReported
  BY DEF ManagerInv
<1> QED BY <1>1, ManagerStart, ManagerStep, PTL DEF Manager!Spec

-----------------------------------------------------------------------------
(* The workflow registry.  A record that is not terminal is in Redis only    *)
(* where the workflow's server is connected, and once the workflow was       *)
(* started that server finds a record: its last update is lost to a fault of *)
(* Redis or not at all, and whoever writes afterwards writes "cancelled".    *)

WorkflowStatuses == {"absent", "pending", "running", "completed", "failed", "cancelled"}

RegistryType ==
    /\ redis \in WorkflowStatuses
    /\ memory \in [Servers -> WorkflowStatuses]
    /\ runner \in {"none", "queued", "running", "reporting", "ended"}
    /\ stop \in [Stops -> [at : {"none", "asked", "stopping", "refused"}, server : Servers]]
    /\ update \in [Registry!Processes -> [at : {"none", "get", "set"}, status : WorkflowStatuses]]

\* What the processes may be writing.
Writing ==
    /\ \A r \in Stops : update[r] # Registry!NoUpdate => update[r].status = "cancelled"
    /\ update[Registry!Runner] # Registry!NoUpdate =>
          /\ runner \in {"running", "reporting", "ended"}
          /\ update[Registry!Runner].status = "running" \/ update[Registry!Runner].status \in Registry!Terminal
          /\ runner \in {"reporting", "ended"} => update[Registry!Runner].status \in Registry!Terminal
    /\ update[Registry!Runner].at = "set" => Home \in connected
    /\ \A p \in Registry!Processes : update[p].at = "none" => update[p] = Registry!NoUpdate

Kept ==
    /\ redis \in {"pending", "running"} => Home \in connected
    /\ runner # "none" => memory[Home] # "absent" \/ (redis # "absent" /\ Home \in connected)

Visible ==
    /\ runner \in {"reporting", "ended"} /\ update[Registry!Runner] = Registry!NoUpdate
    /\ Registry!Runner \notin faulty
    => Registry!Status \in Registry!Terminal

RegistryInv == RegistryType /\ Writing /\ Kept /\ Visible

LEMMA RegistryStart == Registry!Init => RegistryInv
  BY InstancesAreAssumed
  DEF Registry!Init, RegistryInv, RegistryType, Writing, Kept, Visible, WorkflowStatuses,
      Registry!Absent, Registry!NoUpdate, Registry!Processes, Registry!ServersAssumption

\* The routes.
LEMMA RoutesStep ==
    ASSUME RegistryInv,
           \/ Registry!StartWorkflow \/ Registry!Begins \/ Registry!Ends \/ Registry!Reports
           \/ \E r \in Stops : Registry!LookAtStatus(r) \/ \E s \in Servers : Registry!AskStop(r, s)
    PROVE  RegistryInv'
<1> USE InstancesAreAssumed
    DEF RegistryInv, RegistryType, Writing, Kept, Visible, WorkflowStatuses, Registry!Absent,
        Registry!NoUpdate, Registry!Processes, Registry!ServersAssumption, Registry!Runner,
        Registry!Terminal, Registry!Status, Registry!Updates
<1>1. CASE Registry!StartWorkflow
  BY <1>1 DEF Registry!StartWorkflow, Registry!Connects
<1>2. CASE Registry!Begins \/ Registry!Ends \/ Registry!Reports
  BY <1>2 DEF Registry!Begins, Registry!Ends, Registry!Reports
<1>3. ASSUME NEW r \in Stops, Registry!LookAtStatus(r) PROVE RegistryInv'
  <2>1. CASE Registry!Updates(r, "cancelled") /\ stop' = [stop EXCEPT ![r].at = "stopping"]
    BY <1>3, <2>1 DEF Registry!LookAtStatus
  <2>2. CASE stop' = [stop EXCEPT ![r].at = "refused"] /\ UNCHANGED update
    BY <1>3, <2>2 DEF Registry!LookAtStatus
  <2> QED BY <1>3, <2>1, <2>2 DEF Registry!LookAtStatus
<1>4. ASSUME NEW r \in Stops, NEW s \in Servers, Registry!AskStop(r, s) PROVE RegistryInv'
  BY <1>4 DEF Registry!AskStop, Registry!Connects
<1> QED BY <1>1, <1>2, <1>3, <1>4

\* update_status of any process.
LEMMA UpdatesStep ==
    ASSUME RegistryInv, NEW p \in Registry!Processes, Registry!Update(p)
    PROVE  RegistryInv'
<1> USE InstancesAreAssumed
    DEF RegistryInv, RegistryType, Writing, Kept, Visible, WorkflowStatuses, Registry!Absent,
        Registry!NoUpdate, Registry!Processes, Registry!ServersAssumption, Registry!Runner,
        Registry!Terminal, Registry!Status, Registry!Server, Registry!Fault, Registry!NoFault
<1>1. CASE Registry!Found(p)
  BY <1>1 DEF Registry!Found
<1>2. CASE Registry!FoundInMemory(p)
  BY <1>2 DEF Registry!FoundInMemory
<1>3. CASE Registry!NotFound(p)
  BY <1>3 DEF Registry!NotFound
<1>4. CASE Registry!Stored(p)
  BY <1>4 DEF Registry!Stored
<1> QED BY <1>1, <1>2, <1>3, <1>4 DEF Registry!Update

LEMMA RegistryStep ==
    ASSUME RegistryInv, [Registry!Next]_Registry!vars
    PROVE  RegistryInv'
<1>1. CASE Registry!Next
  BY <1>1, RoutesStep, UpdatesStep DEF Registry!Next
<1>2. CASE UNCHANGED Registry!vars
  BY <1>2 DEF Registry!vars, RegistryInv, RegistryType, Writing, Kept, Visible, Registry!Status
<1> QED BY <1>1, <1>2

\* redis_registry.py: a workflow that has ended says so, whoever has tried to stop it
\* on whichever server, unless Redis failed in the last update it has made itself.
THEOREM RegistryEndsVisibly == Registry!Spec => []EndsVisibly
<1>1. RegistryInv => EndsVisibly
  BY DEF RegistryInv, Visible, EndsVisibly, Registry!EndsVisibly, Registry!Processes
<1> QED BY <1>1, RegistryStart, RegistryStep, PTL DEF Registry!Spec

-----------------------------------------------------------------------------
(* The requests.  Whoever executes and has lost nothing owns the entry of its *)
(* request, and an entry has one owner.                                       *)

DedupInv ==
    \A c \in Requesters : doing[c] # Dedup!None /\ c \notin lost =>
        /\ doing[c] \in Requests /\ ~entries[doing[c]].expired
        /\ entries[doing[c]] # Dedup!Absent /\ entries[doing[c]].by = c

DedupType == DOMAIN entries = Requests /\ DOMAIN doing = Requesters

LEMMA DedupStart == Dedup!Init => DedupType /\ DedupInv
  BY DEF Dedup!Init, DedupType, DedupInv

\* An entry that is made belongs to the caller that made it; the owner of one that
\* has gone or has expired has lost it.
LEMMA DedupChecks ==
    ASSUME DedupType, DedupInv, NEW c \in Requesters, NEW r \in Requests, Dedup!Check(c, r)
    PROVE  DedupType' /\ DedupInv'
<1>1. PICK gone \in SUBSET (Dedup!Present \cup {r}) :
         /\ entries' = [q \in Requests |-> IF q \in gone THEN Dedup!Absent
                                           ELSE [entries EXCEPT ![r] = Dedup!Entry(c)][q]]
         /\ lost' = lost \cup Dedup!Owners(gone \ {r}) \cup (IF r \in gone THEN {c} ELSE {})
  BY DEF Dedup!Check, Dedup!Leave
<1>2. doing' = [doing EXCEPT ![c] = r] /\ ~Dedup!Duplicate(r)
  BY DEF Dedup!Check
<1>3. DedupType'
  BY <1>1, <1>2 DEF DedupType
<1>4. ASSUME NEW d \in Requesters, doing'[d] # Dedup!None, d \notin lost'
      PROVE  /\ doing'[d] \in Requests /\ ~entries'[doing'[d]].expired
             /\ entries'[doing'[d]] # Dedup!Absent /\ entries'[doing'[d]].by = d
  <2>1. CASE d = c
    BY <2>1, <1>1, <1>2, <1>4 DEF DedupType, Dedup!Entry, Dedup!Absent
  <2>2. CASE d # c
    <3>1. doing'[d] = doing[d] /\ d \notin lost
      BY <2>2, <1>1, <1>2, <1>4 DEF DedupType
    <3>2. doing[d] # r
      BY <3>1, <1>2, <1>4 DEF DedupInv, Dedup!Duplicate, Dedup!Present
    <3>3. doing[d] \notin gone
      BY <3>1, <3>2, <1>1, <1>4 DEF DedupInv, Dedup!Owners
    <3> QED BY <3>1, <3>2, <3>3, <1>1, <1>4 DEF DedupType, DedupInv
  <2> QED BY <2>1, <2>2
<1> QED BY <1>3, <1>4 DEF DedupInv

LEMMA DedupStep ==
    ASSUME DedupType, DedupInv, [Dedup!Next]_Dedup!vars
    PROVE  DedupType' /\ DedupInv'
<1>1. ASSUME NEW c \in Requesters, NEW s \in {"completed", "failed"}, Dedup!Report(c, s)
      PROVE  DedupType' /\ DedupInv'
  BY <1>1 DEF Dedup!Report, Dedup!Owners, Dedup!Present, Dedup!Absent, DedupType, DedupInv
<1>2. ASSUME NEW c \in Requesters, Dedup!Abandon(c) PROVE DedupType' /\ DedupInv'
  BY <1>2 DEF Dedup!Abandon, DedupType, DedupInv
<1>3. ASSUME NEW rs \in SUBSET Requests, Dedup!Remove(rs) PROVE DedupType' /\ DedupInv'
  BY <1>3 DEF Dedup!Remove, Dedup!Leave, Dedup!Owners, DedupType, DedupInv
<1>4. ASSUME NEW r \in Requests, Dedup!Expire(r) PROVE DedupType' /\ DedupInv'
  BY <1>4 DEF Dedup!Expire, Dedup!Owners, Dedup!Absent, DedupType, DedupInv
<1>5. CASE UNCHANGED Dedup!vars
  BY <1>5 DEF Dedup!vars, DedupType, DedupInv
<1>6. {r \in Dedup!Present : entries[r].expired} \in SUBSET Requests
  BY DEF Dedup!Present
<1> QED BY <1>1, <1>2, <1>3, <1>4, <1>5, <1>6, DedupChecks DEF Dedup!Next, Dedup!CleanupExpired

\* request_deduplicator.py: two callers execute a request at a time only where the
\* entry of one of them expired, was evicted or removed, or was settled before.
THEOREM DedupExecutesOnce == Dedup!Spec => []ExecutedOnce
<1>1. DedupInv => ExecutedOnce
  BY DEF DedupInv, ExecutedOnce, Dedup!ExecutedOnce
<1> QED BY <1>1, DedupStart, DedupStep, PTL DEF Dedup!Spec

-----------------------------------------------------------------------------
(* The checkpoints.  What memory, the file and a save about to write hold is *)
(* in order, unless it was put together from two states; a save that nobody  *)
(* has overtaken has so far read what memory still is.                       *)

\* An index in order, where made checkpoints exist and gaps may have been counted.
InOrder(index, made, gaps) ==
    ~index.mixed =>
        /\ index.list = index.store
        /\ \A x \in index.list : x.id \in Nat /\ x.id < made
        /\ ~gaps => /\ index.next \in Nat
                    /\ \A x, y \in index.list : /\ x.id < y.id => x.sequence < y.sequence
                                                /\ x.id = y.id => x.sequence = y.sequence
                                                /\ x.sequence \in Nat /\ x.sequence < index.next

Memory == [store |-> store, list |-> list, next |-> next, mixed |-> mixed]

SaveKeepsUp(s) ==
    /\ s.at \in {"write", "write over"} => InOrder(s.found, created, shifted)
    /\ s.at \in {"sequences", "lists"} /\ ~s.found.mixed => ~mixed /\ s.found.store = store
    /\ s.at = "lists" /\ ~s.found.mixed => s.found.list = list /\ s.found.next = next
    /\ s.at = "checkpoints" /\ ~s.found.mixed => s.found.store = {}

IsSave(s) ==
    /\ DOMAIN s = {"at", "found"}
    /\ DOMAIN s.found = {"store", "list", "next", "mixed"}

CheckpointInv ==
    /\ created \in Nat /\ shifted \in BOOLEAN
    /\ InOrder(Memory, created, shifted) /\ InOrder(file, created, shifted)
    /\ DOMAIN save = Threads
    /\ \A t \in Threads : IsSave(save[t]) /\ SaveKeepsUp(save[t])

\* What is in order stays so while checkpoints are made and gaps are met.
LEMMA OrderStays ==
    ASSUME NEW index, NEW made \in Nat, NEW more \in Nat, made <= more,
           NEW gaps, NEW wider, gaps => wider, InOrder(index, made, gaps)
    PROVE  InOrder(index, more, wider)
<1>1. SUFFICES ASSUME ~index.mixed PROVE InOrder(index, more, wider)
  BY DEF InOrder
<1>2. \A x \in index.list : x.id \in Nat /\ x.id < more
  BY <1>1 DEF InOrder
<1> QED BY <1>1, <1>2 DEF InOrder

LEMMA EmptyInOrder == ASSUME NEW made, NEW gaps PROVE InOrder(Checkpoints!Empty, made, gaps)
  BY DEF InOrder, Checkpoints!Empty

\* A save that has read nothing yet.
LEMMA NothingRead ==
    ASSUME NEW s \in {Checkpoints!Idle, Checkpoints!Saving}
    PROVE  IsSave(s) /\ s.at \in {"idle", "checkpoints"} /\ s.found.store = {}
  BY DEF Checkpoints!Idle, Checkpoints!Saving, Checkpoints!Empty, IsSave

LEMMA CheckpointStart == Checkpoints!Init => CheckpointInv
<1> SUFFICES ASSUME Checkpoints!Init PROVE CheckpointInv
  OBVIOUS
<1>1. InOrder(Memory, created, shifted) /\ InOrder(file, created, shifted)
  BY EmptyInOrder DEF Checkpoints!Init, Memory, Checkpoints!Empty
<1>2. ASSUME NEW t \in Threads PROVE IsSave(save[t]) /\ SaveKeepsUp(save[t])
  BY NothingRead DEF Checkpoints!Init, SaveKeepsUp
<1> QED BY <1>1, <1>2 DEF Checkpoints!Init, CheckpointInv

\* A method that changes the lists keeps the invariant, if it leaves them in order:
\* the saves under way are overtaken.
LEMMA ChangeKeeps ==
    ASSUME CheckpointInv, NEW t \in Threads, NEW then \in {Checkpoints!Idle, Checkpoints!Saving},
           NEW inPlace, Checkpoints!Changes(t, then, inPlace), UNCHANGED file,
           created' \in Nat, created <= created', shifted' \in BOOLEAN, shifted => shifted',
           InOrder(Memory', created', shifted')
    PROVE  CheckpointInv'
<1>1. InOrder(file', created', shifted')
  BY OrderStays DEF CheckpointInv
<1>2. DOMAIN save' = Threads
  BY DEF Checkpoints!Changes
<1>3. ASSUME NEW u \in Threads PROVE IsSave(save'[u]) /\ SaveKeepsUp(save[u])'
  <2>1. CASE u = t
    <3>1. save'[u] = then
      BY <2>1 DEF Checkpoints!Changes
    <3> QED BY <3>1, NothingRead DEF SaveKeepsUp
  <2>2. CASE u # t /\ save[u].at \in {"sequences", "lists"}
    <3>1. PICK met \in SUBSET Threads : save'[u] = Checkpoints!Overtaken(save[u], inPlace /\ u \in met)
      BY <2>2 DEF Checkpoints!Changes
    <3> DEFINE seen == [save[u].found EXCEPT
                          !.mixed = TRUE,
                          !.list = IF save[u].at = "lists" /\ inPlace /\ u \in met THEN list' ELSE @]
    <3>2. save'[u] = [at |-> save[u].at, found |-> seen]
      BY <3>1 DEF Checkpoints!Overtaken
    <3>3. IsSave(save[u])
      BY DEF CheckpointInv
    <3>4. DOMAIN seen = {"store", "list", "next", "mixed"} /\ seen.mixed
      BY <3>3 DEF IsSave
    <3> HIDE DEF seen
    <3>5. IsSave(save'[u])
      BY <3>2, <3>4 DEF IsSave
    <3>6. save'[u].at = save[u].at /\ save'[u].found = seen
      BY <3>2
    <3> QED BY <2>2, <3>4, <3>5, <3>6 DEF SaveKeepsUp
  <2>4. CASE u # t /\ save[u].at = "checkpoints" /\ save'[u] = Checkpoints!Torn(save[u])
    <3> DEFINE torn == [save[u].found EXCEPT !.store = @ \cup store, !.mixed = TRUE]
    <3>1. IsSave(save[u])
      BY DEF CheckpointInv
    <3>2. DOMAIN torn = {"store", "list", "next", "mixed"} /\ torn.mixed
      BY <3>1 DEF IsSave
    <3>3. DOMAIN save'[u] = {"at", "found"} /\ save'[u].at = "checkpoints" /\ save'[u].found = torn
      BY <2>4, <3>1 DEF Checkpoints!Torn, IsSave
    <3> HIDE DEF torn
    <3> QED BY <3>2, <3>3 DEF IsSave, SaveKeepsUp
  <2>3. CASE u # t /\ save[u].at \notin {"sequences", "lists"} /\ save'[u] = save[u]
    <3>1. save'[u] = save[u]
      BY <2>3
    <3>2. save[u].at \in {"write", "write over"} => InOrder(save[u].found, created', shifted')
      BY OrderStays DEF CheckpointInv, SaveKeepsUp
    <3> QED BY <2>3, <3>1, <3>2 DEF SaveKeepsUp, CheckpointInv
  <2>5. \/ u = t
        \/ u # t /\ save[u].at \in {"sequences", "lists"}
        \/ u # t /\ save[u].at = "checkpoints" /\ save'[u] = Checkpoints!Torn(save[u])
        \/ u # t /\ save[u].at \notin {"sequences", "lists"} /\ save'[u] = save[u]
    BY DEF Checkpoints!Changes
  <2> QED BY <2>1, <2>2, <2>3, <2>4, <2>5
<1> QED BY <1>1, <1>2, <1>3 DEF CheckpointInv

\* create: the new one's id and number are above all others.
LEMMA CreateKeeps ==
    ASSUME CheckpointInv, NEW t \in Threads, Checkpoints!Create(t)
    PROVE  CheckpointInv'
<1> DEFINE id == [id |-> created, sequence |-> next]
<1>1. /\ list' \subseteq list \cup {id} /\ next' = next + 1
      /\ store' = (store \cup list \cup {id}) \ ((list \cup {id}) \ list')
      /\ created' = created + 1 /\ created \in Nat
      /\ UNCHANGED <<file, shifted, mixed>>
  BY DEF Checkpoints!Create, Checkpoints!Trimmed, CheckpointInv
<1>2. InOrder(Memory', created', shifted')
  <2>1. SUFFICES ASSUME ~mixed
                 PROVE  InOrder(Memory', created', shifted')
    BY <1>1 DEF InOrder, Memory
  <2>2. /\ list = store
        /\ \A x \in list : x.id \in Nat /\ x.id < created
        /\ ~shifted => /\ next \in Nat
                       /\ \A x, y \in list : /\ x.id < y.id => x.sequence < y.sequence
                                             /\ x.id = y.id => x.sequence = y.sequence
                                             /\ x.sequence \in Nat /\ x.sequence < next
    BY <2>1 DEF CheckpointInv, InOrder, Memory
  <2>3. list' = store'
    BY <1>1, <2>2
  <2>4. \A x \in list' : x.id \in Nat /\ x.id < created'
    BY <1>1, <2>2
  <2>5. ASSUME ~shifted
        PROVE  /\ next' \in Nat
               /\ \A x, y \in list' : /\ x.id < y.id => x.sequence < y.sequence
                                      /\ x.id = y.id => x.sequence = y.sequence
                                      /\ x.sequence \in Nat /\ x.sequence < next'
    BY <1>1, <2>2, <2>5
  <2> QED BY <1>1, <2>3, <2>4, <2>5 DEF InOrder, Memory
<1>3. Checkpoints!Changes(t, Checkpoints!Saving, TRUE)
  BY DEF Checkpoints!Create
<1>4. created' \in Nat /\ created <= created' /\ shifted' \in BOOLEAN /\ (shifted => shifted')
  BY <1>1 DEF CheckpointInv
<1> QED BY <1>1, <1>2, <1>3, <1>4, ChangeKeeps

\* rewind: where the position is the number there is one below the next.
LEMMA RewindKeeps ==
    ASSUME CheckpointInv, NEW t \in Threads, NEW x \in list, Checkpoints!Rewind(t, x)
    PROVE  CheckpointInv'
<1>1. /\ list' = Checkpoints!UpTo(x) /\ store' = store \ (list \ Checkpoints!UpTo(x))
      /\ shifted' = (shifted \/ x.sequence + 1 # next')
      /\ UNCHANGED <<file, created, mixed>>
      /\ Checkpoints!Changes(t, Checkpoints!Saving, FALSE)
  BY DEF Checkpoints!Rewind
<1>2. InOrder(Memory', created', shifted')
  <2>1. SUFFICES ASSUME ~mixed
                 PROVE  InOrder(Memory', created', shifted')
    BY <1>1 DEF InOrder, Memory
  <2>2. /\ list = store
        /\ \A y \in list : y.id \in Nat /\ y.id < created
        /\ ~shifted => /\ next \in Nat
                       /\ \A y, z \in list : /\ y.id < z.id => y.sequence < z.sequence
                                             /\ y.id = z.id => y.sequence = z.sequence
                                             /\ y.sequence \in Nat /\ y.sequence < next
    BY <2>1 DEF CheckpointInv, InOrder, Memory
  <2>3. list' = store'
    BY <1>1, <2>2 DEF Checkpoints!UpTo
  <2>4. \A y \in list' : y \in list /\ y.id <= x.id
    BY <1>1 DEF Checkpoints!UpTo
  <2>5. ASSUME ~shifted'
        PROVE  /\ next' \in Nat
               /\ \A y, z \in list' : /\ y.id < z.id => y.sequence < z.sequence
                                      /\ y.id = z.id => y.sequence = z.sequence
                                      /\ y.sequence \in Nat /\ y.sequence < next'
    <3>1. ~shifted /\ next' = x.sequence + 1
      BY <1>1, <2>5
    <3>2. ASSUME NEW y \in list' PROVE y.sequence <= x.sequence
      BY <2>2, <2>4, <3>1
    <3> QED BY <2>2, <2>4, <3>1, <3>2
  <2> QED BY <1>1, <2>2, <2>3, <2>4, <2>5 DEF InOrder, Memory
<1>3. created' \in Nat /\ created <= created' /\ shifted' \in BOOLEAN /\ (shifted => shifted')
  BY <1>1 DEF CheckpointInv
<1> QED BY <1>1, <1>2, <1>3, ChangeKeeps

\* delete, cleanup, delete_session and clear leave fewer, and no number that is too low.
LEMMA DeleteKeeps ==
    ASSUME CheckpointInv, NEW t \in Threads,
           \/ \E ids \in SUBSET store : Checkpoints!Delete(t, ids)
           \/ Checkpoints!DeleteSession(t) \/ Checkpoints!Clear(t)
    PROVE  CheckpointInv'
<1>1. UNCHANGED <<file, created, shifted>>
  BY DEF Checkpoints!Delete, Checkpoints!DeleteSession, Checkpoints!Clear
<1>0. created' \in Nat /\ created <= created' /\ shifted' \in BOOLEAN /\ (shifted => shifted')
  BY <1>1 DEF CheckpointInv
<1>2. ASSUME NEW ids \in SUBSET store, Checkpoints!Delete(t, ids) PROVE CheckpointInv'
  <2>1. InOrder(Memory', created', shifted')
    BY <1>1, <1>2 DEF Checkpoints!Delete, CheckpointInv, InOrder, Memory
  <2> QED BY <1>1, <1>2, <1>0, <2>1, ChangeKeeps DEF Checkpoints!Delete
<1>3. CASE Checkpoints!DeleteSession(t)
  <2>1. InOrder(Memory', created', shifted')
    BY <1>1, <1>3 DEF Checkpoints!DeleteSession, CheckpointInv, InOrder, Memory
  <2> QED BY <1>1, <1>3, <1>0, <2>1, ChangeKeeps DEF Checkpoints!DeleteSession
<1>4. CASE Checkpoints!Clear(t)
  <2>1. InOrder(Memory', created', shifted')
    BY <1>1, <1>4 DEF Checkpoints!Clear, InOrder, Memory
  <2> QED BY <1>1, <1>4, <1>0, <2>1, ChangeKeeps DEF Checkpoints!Clear
<1> QED BY <1>2, <1>3, <1>4

\* _save and _load: whoever was not overtaken has read one state.
LEMMA SaveKeeps ==
    ASSUME CheckpointInv, NEW t \in Threads,
           \/ Checkpoints!ReadCheckpoints(t) \/ Checkpoints!ReadSequences(t)
           \/ Checkpoints!Dump(t) \/ Checkpoints!Write(t)
    PROVE  CheckpointInv'
<1>1. /\ UNCHANGED <<list, store, next, created, shifted, mixed>>
      /\ DOMAIN save' = Threads
      /\ InOrder(Memory', created', shifted')
  BY DEF Checkpoints!ReadCheckpoints, Checkpoints!ReadSequences, Checkpoints!Dump,
         Checkpoints!Write, CheckpointInv, Memory
<1>2. CASE Checkpoints!ReadCheckpoints(t)
  <2>1. \/ \E passed \in SUBSET (save[t].found.store \ store) :
              save'[t] = [at |-> "sequences",
                          found |-> [Checkpoints!Empty EXCEPT
                                       !.store = store \cup passed,
                                       !.mixed = mixed \/ save[t].found.mixed]]
        \/ save'[t] = Checkpoints!Idle
    <3>1. DOMAIN save = Threads
      BY DEF CheckpointInv
    <3> QED BY <1>2, <3>1 DEF Checkpoints!ReadCheckpoints
  <2>2. UNCHANGED file /\ \A u \in Threads : u # t => save'[u] = save[u]
    BY <1>2 DEF Checkpoints!ReadCheckpoints, CheckpointInv
  <2>3. IsSave(save[t]) /\ (~save[t].found.mixed => save[t].found.store = {})
    BY <1>2 DEF Checkpoints!ReadCheckpoints, CheckpointInv, SaveKeepsUp
  <2>4. ASSUME NEW passed \in SUBSET (save[t].found.store \ store),
               save'[t] = [at |-> "sequences",
                           found |-> [Checkpoints!Empty EXCEPT
                                        !.store = store \cup passed,
                                        !.mixed = mixed \/ save[t].found.mixed]]
        PROVE  IsSave(save'[t]) /\ SaveKeepsUp(save[t])'
    <3> DEFINE read == [Checkpoints!Empty EXCEPT !.store = store \cup passed,
                                              !.mixed = mixed \/ save[t].found.mixed]
    <3>1. /\ DOMAIN read = {"store", "list", "next", "mixed"}
          /\ read.store = store \cup passed /\ (read.mixed <=> mixed \/ save[t].found.mixed)
      BY DEF Checkpoints!Empty
    <3>2. save'[t] = [at |-> "sequences", found |-> read]
      BY <2>4
    <3> HIDE DEF read
    <3>3. DOMAIN save'[t] = {"at", "found"} /\ save'[t].at = "sequences" /\ save'[t].found = read
      BY <3>2
    <3> QED BY <2>3, <3>1, <3>3, <1>1 DEF IsSave, SaveKeepsUp
  <2>5. ASSUME save'[t] = Checkpoints!Idle
        PROVE  IsSave(save'[t]) /\ SaveKeepsUp(save[t])'
    BY <2>5, NothingRead DEF SaveKeepsUp
  <2> QED BY <1>1, <2>1, <2>2, <2>4, <2>5 DEF CheckpointInv, SaveKeepsUp
<1>3. CASE Checkpoints!ReadSequences(t)
  <2>1. /\ save[t].at = "sequences"
        /\ save' = [save EXCEPT ![t] = [at |-> "lists",
                                   found |-> [save[t].found EXCEPT !.next = next, !.list = list]]]
        /\ UNCHANGED file
    BY <1>3 DEF Checkpoints!ReadSequences
  <2>2. IsSave(save'[t]) /\ SaveKeepsUp(save[t])'
    BY <2>1, <1>1 DEF IsSave, SaveKeepsUp, CheckpointInv
  <2> QED BY <1>1, <2>1, <2>2 DEF CheckpointInv, SaveKeepsUp
<1>4. CASE Checkpoints!Dump(t)
  <2>1. /\ save[t].at = "lists"
        /\ save' = [save EXCEPT ![t].at = "write"]
        /\ file' = Checkpoints!Empty
    BY <1>4 DEF Checkpoints!Dump
  <2>2. InOrder(save[t].found, created, shifted)
    <3>1. InOrder(Memory, created, shifted) /\ SaveKeepsUp(save[t])
      BY DEF CheckpointInv
    <3> QED BY <2>1, <3>1 DEF SaveKeepsUp, InOrder, Memory
  <2>3. IsSave(save'[t]) /\ SaveKeepsUp(save[t])'
    BY <2>1, <2>2, <1>1 DEF IsSave, SaveKeepsUp, CheckpointInv
  <2> QED BY <1>1, <2>1, <2>3, EmptyInOrder DEF CheckpointInv, SaveKeepsUp
<1>5. CASE Checkpoints!Write(t)
  <2>1. InOrder(file', created', shifted')
    <3>1. SaveKeepsUp(save[t])
      BY DEF CheckpointInv
    <3>2. InOrder(save[t].found, created, shifted)
      BY <1>5, <3>1 DEF Checkpoints!Write, SaveKeepsUp
    <3>3. file' = save[t].found \/ file' = Checkpoints!Empty
      BY <1>5 DEF Checkpoints!Write
    <3> QED BY <1>1, <3>2, <3>3, EmptyInOrder
  <2>2. ASSUME NEW u \in Threads PROVE IsSave(save'[u]) /\ SaveKeepsUp(save[u])'
    <3>1. \/ save'[u] = Checkpoints!Idle
          \/ save[u].at = "write" /\ save'[u] = [save[u] EXCEPT !.at = "write over"]
          \/ save'[u] = save[u]
      BY <1>5 DEF Checkpoints!Write
    <3> QED BY <3>1, <1>1, NothingRead DEF IsSave, SaveKeepsUp, CheckpointInv
  <2> QED BY <1>1, <2>1, <2>2 DEF CheckpointInv
<1> QED BY <1>2, <1>3, <1>4, <1>5

LEMMA CheckpointStep ==
    ASSUME CheckpointInv, [Checkpoints!Next]_Checkpoints!vars
    PROVE  CheckpointInv'
<1>1. CASE Checkpoints!Restart
  <2>1. InOrder(Memory', created', shifted') /\ InOrder(file', created', shifted')
    BY <1>1 DEF Checkpoints!Restart, CheckpointInv, InOrder, Memory
  <2>2. ASSUME NEW t \in Threads PROVE IsSave(save'[t]) /\ SaveKeepsUp(save[t])'
    BY <1>1, NothingRead DEF Checkpoints!Restart, SaveKeepsUp
  <2> QED BY <1>1, <2>1, <2>2 DEF Checkpoints!Restart, CheckpointInv
<1>2. CASE UNCHANGED Checkpoints!vars
  BY <1>2 DEF Checkpoints!vars, CheckpointInv, SaveKeepsUp, Memory
<1> QED BY <1>1, <1>2, CreateKeeps, RewindKeeps, DeleteKeeps, SaveKeeps DEF Checkpoints!Next

\* checkpoint_manager.py: whatever saves were interrupted, overtook each other or lost
\* their file, a session lists what exists, in the order of its numbers, unless it was
\* loaded from a file of two states; the numbers, unless a rewind counted a gap.
THEOREM CheckpointsConsistent == Checkpoints!Spec => []SessionConsistent
<1>1. CheckpointInv => SessionConsistent
  BY DEF CheckpointInv, InOrder, Memory, SessionConsistent, Checkpoints!SessionConsistent
<1> QED BY <1>1, CheckpointStart, CheckpointStep, PTL DEF Checkpoints!Spec

-----------------------------------------------------------------------------
(* The tree of cancellation tokens.  Whatever the walk has left behind is     *)
(* done: the children of a cancelled token are cancelled or came later, and   *)
(* its callbacks were run, but for those a position of the walk has yet to    *)
(* reach.                                                                     *)

Positions == [token : Tokens, list : {"children", "callbacks"}, done : Nat, inside : BOOLEAN]

\* A position of the walk that has yet to reach the k-th child, or callback, of t.
ChildAhead(t, k) == \E i \in DOMAIN walk : walk[i].token = t /\ walk[i].list = "children" /\ walk[i].done < k
CallbackAhead(t, k) ==
    \E i \in DOMAIN walk : walk[i].token = t /\ (walk[i].list = "children" \/ walk[i].done < k)

TokenType ==
    /\ parent \in [Tokens -> Tokens \cup {Token!Unborn, Token!NoParent}]
    /\ own \in SUBSET Tokens /\ late \in SUBSET Tokens
    /\ children \in [Tokens -> Seq(Tokens)]
    /\ callbacks \in [Tokens -> Seq(Callbacks)]
    /\ runs \in [Callbacks -> Nat]
    /\ walk \in Seq(Positions)

\* A token is cancelled before the walk goes below it, once.
WalkedOnce ==
    /\ \A i \in DOMAIN walk : walk[i].token \in own
    /\ \A i, j \in DOMAIN walk : walk[i].token = walk[j].token => i = j

\* The tree: all children are listed, and those of a cancelled token are cancelled,
\* late or ahead of the walk.
Descends ==
    /\ \A t \in Tokens : parent[t] \in Tokens =>
          \E k \in DOMAIN children[parent[t]] : children[parent[t]][k] = t
    /\ \A t \in Tokens : parent[t] = Token!Unborn => children[t] = <<>>
    /\ \A t \in own : \A k \in DOMAIN children[t] : children[t][k] \in own \cup late \/ ChildAhead(t, k)
    /\ \A t \in late : \A k \in DOMAIN children[t] : children[t][k] \in late
    /\ \A t \in late : Token!IsCancelled(t)

\* The callbacks of a cancelled token have run, or are ahead of the walk.
RunAll == \A t \in own : t \in cut \/ \A k \in DOMAIN callbacks[t] :
             runs[callbacks[t][k]] = 1 \/ CallbackAhead(t, k)

\* What was run is behind the walk, and is in no list twice.
RunOnce ==
    /\ \A b \in Callbacks : runs[b] <= 1
    /\ \A t, u \in Tokens : \A j \in DOMAIN callbacks[t], k \in DOMAIN callbacks[u] :
          callbacks[t][j] = callbacks[u][k] => t = u /\ j = k
    /\ \A t \in Tokens : \A k \in DOMAIN callbacks[t] : runs[callbacks[t][k]] > 0 =>
          /\ t \in own
          /\ \A i \in DOMAIN walk : walk[i].token = t => walk[i].list = "callbacks" /\ k <= walk[i].done

TokenInv == TokenType /\ WalkedOnce /\ Descends /\ RunAll /\ RunOnce

\* The last position of a walk is replaced, or left.
LEMMA WalkMoves ==
    ASSUME TokenType, walk # <<>>, NEW v \in Positions
    PROVE  /\ Token!Top(v) \in Seq(Positions) /\ Len(Token!Top(v)) = Len(walk)
           /\ DOMAIN Token!Top(v) = DOMAIN walk
           /\ DOMAIN walk = 1 .. Len(walk) /\ Len(walk) \in Nat /\ Len(walk) > 0
           /\ \A i \in DOMAIN walk : Token!Top(v)[i] = IF i = Len(walk) THEN v ELSE walk[i]
<1>1. walk \in Seq(Positions) /\ Len(walk) \in Nat /\ Len(walk) > 0 /\ DOMAIN walk = 1 .. Len(walk)
  BY DEF TokenType
<1>2. /\ Token!Front(walk) \in Seq(Positions) /\ Len(Token!Front(walk)) = Len(walk) - 1
      /\ \A i \in 1 .. Len(walk) - 1 : Token!Front(walk)[i] = walk[i]
  BY <1>1 DEF Token!Front
<1> DEFINE f == Token!Front(walk)
<1>3. Token!Top(v) = Append(f, v)
  BY DEF Token!Top
<1> HIDE DEF f
<1>4. f \in Seq(Positions) /\ Len(f) = Len(walk) - 1 /\ \A i \in 1 .. Len(walk) - 1 : f[i] = walk[i]
  BY <1>2 DEF f
<1>5. /\ Append(f, v) \in Seq(Positions) /\ Len(Append(f, v)) = Len(f) + 1
      /\ DOMAIN Append(f, v) = 1 .. Len(f) + 1
      /\ Append(f, v)[Len(f) + 1] = v
      /\ \A i \in 1 .. Len(f) : Append(f, v)[i] = f[i]
  BY <1>4
<1>6. Len(f) + 1 = Len(walk) /\ 1 .. Len(f) = 1 .. Len(walk) - 1
  BY <1>1, <1>4
<1>7. ASSUME NEW n \in Nat, NEW i \in 1 .. n PROVE i = n \/ i \in 1 .. n - 1
  OBVIOUS
<1> QED BY <1>1, <1>3, <1>4, <1>5, <1>6, <1>7

LEMMA WalkLast ==
    ASSUME TokenType, walk # <<>>
    PROVE  /\ Len(walk) \in DOMAIN walk /\ Token!Last(walk) = walk[Len(walk)]
           /\ Token!Last(walk) \in Positions
  BY DEF TokenType, Token!Last

LEMMA WalkReturns ==
    ASSUME TokenType, walk # <<>>, walk' = Token!Front(walk)
    PROVE  /\ walk' \in Seq(Positions) /\ DOMAIN walk' = DOMAIN walk \ {Len(walk)}
           /\ \A i \in DOMAIN walk' : walk'[i] = walk[i]
  BY DEF TokenType, Token!Front

LEMMA WalkGrows ==
    ASSUME NEW seq \in Seq(Positions), NEW w \in Positions, walk' = Append(seq, w)
    PROVE  /\ walk' \in Seq(Positions)
           /\ DOMAIN walk' = DOMAIN seq \cup {Len(seq) + 1} /\ DOMAIN seq = 1 .. Len(seq)
           /\ Len(seq) \in Nat
           /\ walk'[Len(seq) + 1] = w
           /\ \A i \in DOMAIN seq : walk'[i] = seq[i]
  OBVIOUS

LEMMA Listed ==
    ASSUME TokenType, NEW t \in Tokens
    PROVE  /\ Len(children[t]) \in Nat /\ DOMAIN children[t] = 1 .. Len(children[t])
           /\ \A k \in DOMAIN children[t] : k \in Nat /\ k > 0 /\ children[t][k] \in Tokens
           /\ Len(callbacks[t]) \in Nat /\ DOMAIN callbacks[t] = 1 .. Len(callbacks[t])
           /\ \A k \in DOMAIN callbacks[t] : k \in Nat /\ k > 0 /\ callbacks[t][k] \in Callbacks
<1>1. children[t] \in Seq(Tokens) /\ callbacks[t] \in Seq(Callbacks)
  BY DEF TokenType
<1> QED BY <1>1

LEMMA ListClosesUp ==
    ASSUME NEW S, NEW s \in Seq(S), NEW i \in 1 .. Len(s)
    PROVE  /\ Token!RemoveAt(s, i) \in Seq(S) /\ i \in Nat
           /\ \A k \in DOMAIN Token!RemoveAt(s, i) :
                 LET j == IF k < i THEN k ELSE k + 1
                 IN k \in Nat /\ j \in DOMAIN s /\ Token!RemoveAt(s, i)[k] = s[j]
<1> DEFINE before == SubSeq(s, 1, i - 1)
           after == SubSeq(s, i + 1, Len(s))
           n == Len(s)
<1>1. n \in Nat /\ i \in 1 .. n /\ DOMAIN s = 1 .. n
  OBVIOUS
<1>2. before \in Seq(S) /\ Len(before) = i - 1 /\ \A k \in 1 .. i - 1 : before[k] = s[k]
  BY <1>1
<1>3. after \in Seq(S) /\ Len(after) = n - i /\ \A k \in 1 .. n - i : after[k] = s[k + i]
  <2>1. \A k \in i + 1 .. n : s[k] \in S
    BY <1>1
  <2>2. /\ SubSeq(s, i + 1, n) \in Seq(S)
        /\ Len(SubSeq(s, i + 1, n)) = IF i + 1 <= n THEN n - (i + 1) + 1 ELSE 0
        /\ \A k \in 1 .. n - (i + 1) + 1 : SubSeq(s, i + 1, n)[k] = s[(i + 1) + k - 1]
    BY <1>1, <2>1, SubSeqProperties
  <2> HIDE DEF n
  <2>3. n - (i + 1) + 1 = n - i /\ (i + 1 <= n <=> i # n) /\ (i = n => n - i = 0)
    BY <1>1
  <2>4. \A k \in 1 .. n - i : k \in Int /\ (i + 1) + k - 1 = k + i
    BY <1>1
  <2> QED BY <2>2, <2>3, <2>4 DEF n
<1>4. Token!RemoveAt(s, i) = before \o after
  BY DEF Token!RemoveAt
<1> HIDE DEF before, after, n
<1>5. /\ before \o after \in Seq(S)
      /\ DOMAIN (before \o after) = 1 .. Len(before) + Len(after)
      /\ \A k \in 1 .. Len(before) + Len(after) :
            (before \o after)[k] = IF k <= Len(before) THEN before[k] ELSE after[k - Len(before)]
  <2>1. /\ before \o after \in Seq(S) /\ Len(before \o after) = Len(before) + Len(after)
        /\ \A k \in 1 .. Len(before) + Len(after) :
              (before \o after)[k] = IF k <= Len(before) THEN before[k] ELSE after[k - Len(before)]
    BY <1>2, <1>3, ConcatProperties
  <2> DEFINE both == before \o after
  <2>2. both \in Seq(S) => DOMAIN both = 1 .. Len(both)
    <3> HIDE DEF both
    <3> QED OBVIOUS
  <2> QED BY <2>1, <2>2
<1>6. \A k \in 1 .. n - 1 :
         /\ k \in Nat
         /\ k < i => k \in 1 .. i - 1 /\ k \in 1 .. n
         /\ ~(k < i) => k - (i - 1) \in 1 .. n - i /\ (k - (i - 1)) + i = k + 1 /\ k + 1 \in 1 .. n
  BY <1>1
<1>7. Len(before) + Len(after) = n - 1
  BY <1>1, <1>2, <1>3
<1> DEFINE r == Token!RemoveAt(s, i)
<1>8. r \in Seq(S) /\ DOMAIN r = 1 .. n - 1
  BY <1>4, <1>5, <1>7
<1>9. \A k \in 1 .. n - 1 : r[k] = IF k <= i - 1 THEN before[k] ELSE after[k - (i - 1)]
  BY <1>2, <1>4, <1>5, <1>7
<1> HIDE DEF r
<1>10. ASSUME NEW k \in 1 .. n - 1
       PROVE  LET j == IF k < i THEN k ELSE k + 1
              IN k \in Nat /\ j \in DOMAIN s /\ r[k] = s[j]
  <2>1. CASE k < i
    <3>1. k <= i - 1
      BY <2>1, <1>1
    <3> QED BY <2>1, <3>1, <1>1, <1>2, <1>6, <1>9
  <2>2. CASE ~(k < i)
    <3>1. ~(k <= i - 1)
      BY <2>2, <1>1
    <3> QED BY <2>2, <3>1, <1>1, <1>3, <1>6, <1>9
  <2> QED BY <2>1, <2>2
<1> QED BY <1>1, <1>8, <1>10 DEF r

LEMMA TokenStart == Token!TokensAssumption /\ Token!Init => TokenInv
<1> SUFFICES ASSUME Token!TokensAssumption, Token!Init PROVE TokenInv
  OBVIOUS
<1> USE DEF Token!Init
<1>1. TokenType
  BY DEF TokenType
<1>2. WalkedOnce
  BY DEF WalkedOnce
<1>3. Descends
  BY DEF Descends, Token!TokensAssumption, Token!NoParent, Token!Unborn
<1>4. RunAll /\ RunOnce
  BY DEF RunAll, RunOnce
<1> QED BY <1>1, <1>2, <1>3, <1>4 DEF TokenInv

\* What is cancelled stays so, when tokens are added below.
LEMMA StaysCancelled ==
    ASSUME own \subseteq own', \A v \in Tokens : parent[v] \in Tokens => parent'[v] = parent[v],
           NEW t \in Tokens, Token!IsCancelled(t)
    PROVE  Token!IsCancelled(t)'
<1>1. PICK u \in Token!UpFrom(t) : u \in own
  BY DEF Token!IsCancelled
<1>2. u \in Tokens /\ \A above \in SUBSET Tokens :
         t \in above /\ (\A v \in above : parent[v] \in Tokens => parent[v] \in above) => u \in above
  BY <1>1 DEF Token!UpFrom
<1>3. ASSUME NEW above \in SUBSET Tokens, t \in above,
             \A v \in above : parent'[v] \in Tokens => parent'[v] \in above
      PROVE  u \in above
  BY <1>2, <1>3
<1>4. u \in Token!UpFrom(t)'
  BY <1>2, <1>3 DEF Token!UpFrom
<1> QED BY <1>1, <1>4 DEF Token!IsCancelled

\* So is what is below it.
LEMMA BelowIsCancelled ==
    ASSUME NEW t \in Tokens, NEW child \in Tokens, parent'[child] = t, Token!IsCancelled(t)'
    PROVE  Token!IsCancelled(child)'
<1>1. PICK u \in Token!UpFrom(t)' : u \in own'
  BY DEF Token!IsCancelled
<1>2. u \in Tokens /\ \A above \in SUBSET Tokens :
         t \in above /\ (\A v \in above : parent'[v] \in Tokens => parent'[v] \in above) => u \in above
  BY <1>1 DEF Token!UpFrom
<1>3. u \in Token!UpFrom(child)'
  BY <1>2 DEF Token!UpFrom
<1> QED BY <1>1, <1>3 DEF Token!IsCancelled

\* cancel: the walk is about to go below the token.
LEMMA CancelKeeps ==
    ASSUME TokenInv, NEW t \in Tokens, Token!Cancel(t)
    PROVE  TokenInv'
<1> DEFINE w == Token!At(t, "children", 0)
<1>1. /\ own' = own \cup {t} /\ t \notin own /\ walk' = Append(walk, w)
      /\ UNCHANGED <<parent, children, callbacks, runs, late, cut>>
  BY DEF Token!Cancel, Token!Born
<1>2. w \in Positions /\ w.token = t /\ w.list = "children" /\ w.done = 0
  BY DEF Token!At, Positions
<1> HIDE DEF w
<1>3. /\ walk' \in Seq(Positions)
      /\ DOMAIN walk' = DOMAIN walk \cup {Len(walk) + 1} /\ DOMAIN walk = 1 .. Len(walk)
      /\ Len(walk) \in Nat
      /\ walk'[Len(walk) + 1] = w
      /\ \A i \in DOMAIN walk : walk'[i] = walk[i]
  BY <1>1, <1>2, WalkGrows DEF TokenInv, TokenType
<1>4. TokenType'
  BY <1>1, <1>3 DEF TokenInv, TokenType
<1>5. WalkedOnce'
  BY <1>1, <1>2, <1>3 DEF TokenInv, WalkedOnce
<1>6. Descends'
  <2>1. ASSUME NEW u \in own', NEW k \in DOMAIN children[u]
        PROVE  children[u][k] \in own' \cup late \/ ChildAhead(u, k)'
    <3>1. CASE u = t
      <4>1. k > 0
        BY <3>1, Listed DEF TokenInv
      <4> QED BY <3>1, <4>1, <1>2, <1>3 DEF ChildAhead
    <3>2. CASE u # t
      BY <3>2, <1>1, <1>3 DEF ChildAhead, TokenInv, Descends
    <3> QED BY <3>1, <3>2
  <2>2. \A u \in late : Token!IsCancelled(u)'
    BY <1>1, StaysCancelled DEF TokenInv, TokenType, Descends
  <2> QED BY <2>1, <2>2, <1>1 DEF TokenInv, Descends
<1>7. RunAll'
  <2>1. ASSUME NEW u \in own', u \notin cut, NEW k \in DOMAIN callbacks[u]
        PROVE  runs[callbacks[u][k]] = 1 \/ CallbackAhead(u, k)'
    <3>1. CASE u = t
      BY <3>1, <1>2, <1>3 DEF CallbackAhead
    <3>2. CASE u # t
      BY <3>2, <2>1, <1>1, <1>3 DEF CallbackAhead, TokenInv, RunAll
    <3> QED BY <3>1, <3>2
  <2> QED BY <2>1, <1>1 DEF RunAll
<1>8. RunOnce'
  BY <1>1, <1>2, <1>3 DEF TokenInv, RunOnce
<1> QED BY <1>4, <1>5, <1>6, <1>7, <1>8 DEF TokenInv

\* The walk cancels the next child, and goes below one that was not cancelled.
LEMMA CancelChildKeeps ==
    ASSUME TokenInv, Token!CancelChild
    PROVE  TokenInv'
<1> DEFINE n == Len(walk)
           w == walk[n]
           child == children[w.token][w.done + 1]
           v == [w EXCEPT !.done = @ + 1]
           below == Token!At(child, "children", 0)
<1>1. /\ walk # <<>> /\ n \in DOMAIN walk /\ w \in Positions
      /\ w.list = "children" /\ w.done < Len(children[w.token])
      /\ own' = own \cup {child}
      /\ walk' = IF child \in own THEN Token!Top(v) ELSE Append(Token!Top(v), below)
      /\ UNCHANGED <<parent, children, callbacks, runs, late, cut>>
  BY WalkLast DEF Token!CancelChild, TokenInv
<1>2. child \in Tokens /\ w.token \in Tokens /\ w.done \in Nat
  BY <1>1, Listed DEF TokenInv, Positions
<1>3. v \in Positions /\ v.token = w.token /\ v.list = "children" /\ v.done = w.done + 1
  BY <1>1 DEF Positions
<1>4. below \in Positions /\ below.token = child /\ below.list = "children" /\ below.done = 0
  BY <1>2 DEF Token!At, Positions
<1> HIDE DEF v, below, child
<1>5. /\ Token!Top(v) \in Seq(Positions) /\ Len(Token!Top(v)) = n
      /\ DOMAIN walk = 1 .. n /\ n \in Nat /\ n > 0
      /\ \A i \in DOMAIN walk : Token!Top(v)[i] = IF i = n THEN v ELSE walk[i]
  BY <1>1, <1>3, WalkMoves DEF TokenInv
<1>6. /\ walk' \in Seq(Positions)
      /\ \A i \in DOMAIN walk : i \in DOMAIN walk' /\ walk'[i] = IF i = n THEN v ELSE walk[i]
      /\ \A i \in DOMAIN walk' \ DOMAIN walk : i = n + 1 /\ walk'[i] = below /\ child \notin own
      /\ child \notin own => n + 1 \in DOMAIN walk' /\ walk'[n + 1] = below
  BY <1>1, <1>4, <1>5
<1> HIDE DEF n, w
<1>7. TokenType'
  BY <1>1, <1>2, <1>6 DEF TokenInv, TokenType
<1>8. WalkedOnce'
  BY <1>1, <1>3, <1>4, <1>5, <1>6 DEF TokenInv, WalkedOnce, w
<1>9. Descends'
  <2>1. ASSUME NEW u \in own', NEW k \in DOMAIN children[u]
        PROVE  children[u][k] \in own' \cup late \/ ChildAhead(u, k)'
    <3>0. u \in Tokens /\ k \in Nat /\ k > 0
      BY <1>1, <1>2, Listed DEF TokenInv, TokenType
    <3>1. CASE u = child /\ child \notin own
      BY <3>0, <3>1, <1>4, <1>6 DEF ChildAhead
    <3>2. CASE u \in own /\ ChildAhead(u, k)
      <4>1. PICK i \in DOMAIN walk : walk[i].token = u /\ walk[i].list = "children" /\ walk[i].done < k
        BY <3>2 DEF ChildAhead
      <4>2. CASE i = n /\ k = w.done + 1
        BY <4>1, <4>2, <1>1 DEF child, w
      <4>3. CASE ~(i = n /\ k = w.done + 1)
        BY <3>0, <4>1, <4>3, <1>2, <1>3, <1>6 DEF ChildAhead, w
      <4> QED BY <4>2, <4>3
    <3>3. CASE u \in own /\ ~ChildAhead(u, k)
      BY <3>3, <1>1 DEF TokenInv, Descends
    <3> QED BY <3>1, <3>2, <3>3, <1>1
  <2>2. \A u \in late : Token!IsCancelled(u)'
    BY <1>1, StaysCancelled DEF TokenInv, TokenType, Descends
  <2> QED BY <2>1, <2>2, <1>1 DEF TokenInv, Descends
<1>10. RunAll'
  <2>1. ASSUME NEW u \in own', u \notin cut, NEW k \in DOMAIN callbacks[u]
        PROVE  runs[callbacks[u][k]] = 1 \/ CallbackAhead(u, k)'
    <3>1. CASE u = child /\ child \notin own
      BY <3>1, <1>4, <1>6 DEF CallbackAhead
    <3>2. CASE u \in own
      BY <3>2, <2>1, <1>1, <1>3, <1>6 DEF CallbackAhead, TokenInv, RunAll, w
    <3> QED BY <3>1, <3>2, <1>1
  <2> QED BY <2>1, <1>1 DEF RunAll
<1>11. RunOnce'
  BY <1>1, <1>3, <1>4, <1>6 DEF TokenInv, RunOnce, w
<1> QED BY <1>7, <1>8, <1>9, <1>10, <1>11 DEF TokenInv

\* All children are cancelled or late: the callbacks are next.
LEMMA ChildrenDoneKeeps ==
    ASSUME TokenInv, Token!ChildrenDone
    PROVE  TokenInv'
<1> DEFINE n == Len(walk)
           w == walk[n]
           v == Token!At(w.token, "callbacks", 0)
<1>1. /\ walk # <<>> /\ n \in DOMAIN walk /\ w \in Positions
      /\ w.list = "children" /\ w.done >= Len(children[w.token])
      /\ walk' = Token!Top(v)
      /\ UNCHANGED <<parent, own, children, callbacks, runs, late, cut>>
  BY WalkLast DEF Token!ChildrenDone, TokenInv
<1>2. w.token \in Tokens /\ w.done \in Nat
  BY <1>1 DEF Positions
<1>3. v \in Positions /\ v.token = w.token /\ v.list = "callbacks" /\ v.done = 0
  BY <1>2 DEF Token!At, Positions
<1> HIDE DEF v
<1>4. /\ walk' \in Seq(Positions) /\ DOMAIN walk' = DOMAIN walk
      /\ \A i \in DOMAIN walk : walk'[i] = IF i = n THEN v ELSE walk[i]
  BY <1>1, <1>3, WalkMoves DEF TokenInv
<1> HIDE DEF n, w
<1>5. TokenType'
  BY <1>1, <1>4 DEF TokenInv, TokenType
<1>6. WalkedOnce'
  BY <1>1, <1>3, <1>4 DEF TokenInv, WalkedOnce, w
<1>7. Descends'
  <2>1. ASSUME NEW u \in own, NEW k \in DOMAIN children[u], ChildAhead(u, k)
        PROVE  ChildAhead(u, k)'
    <3>1. PICK i \in DOMAIN walk : walk[i].token = u /\ walk[i].list = "children" /\ walk[i].done < k
      BY <2>1 DEF ChildAhead
    <3>2. Len(children[u]) \in Nat /\ k \in 1 .. Len(children[u])
      BY Listed DEF TokenInv, TokenType
    <3>3. i # n
      BY <3>1, <3>2, <1>1, <1>2 DEF w
    <3> QED BY <3>1, <3>3, <1>4 DEF ChildAhead
  <2>2. \A u \in late : Token!IsCancelled(u)'
    BY <1>1, StaysCancelled DEF TokenInv, TokenType, Descends
  <2> QED BY <2>1, <2>2, <1>1 DEF TokenInv, Descends
<1>8. RunAll'
  <2>1. ASSUME NEW u \in own, NEW k \in DOMAIN callbacks[u], CallbackAhead(u, k)
        PROVE  CallbackAhead(u, k)'
    <3>1. k \in Nat /\ k > 0
      BY Listed DEF TokenInv, TokenType
    <3> QED BY <2>1, <3>1, <1>3, <1>4 DEF CallbackAhead, w
  <2> QED BY <2>1, <1>1 DEF TokenInv, RunAll
<1>9. RunOnce'
  BY <1>1, <1>3, <1>4 DEF TokenInv, RunOnce, w
<1> QED BY <1>5, <1>6, <1>7, <1>8, <1>9 DEF TokenInv

\* The next callback is run: no other position of the walk is at its token.
LEMMA RunCallbackKeeps ==
    ASSUME TokenInv, Token!RunCallback
    PROVE  TokenInv'
<1> DEFINE n == Len(walk)
           w == walk[n]
           b == callbacks[w.token][w.done + 1]
           v == [w EXCEPT !.done = @ + 1, !.inside = TRUE]
<1>1. /\ walk # <<>> /\ n \in DOMAIN walk /\ w \in Positions
      /\ w.list = "callbacks" /\ w.done < Len(callbacks[w.token])
      /\ runs' = [runs EXCEPT ![b] = @ + 1]
      /\ walk' = Token!Top(v)
      /\ UNCHANGED <<parent, own, children, callbacks, late, cut>>
  BY WalkLast DEF Token!RunCallback, TokenInv
<1>2. w.token \in Tokens /\ w.done \in Nat /\ w.done + 1 \in DOMAIN callbacks[w.token] /\ b \in Callbacks
  BY <1>1, Listed DEF TokenInv, Positions
<1>3. v \in Positions /\ v.token = w.token /\ v.list = "callbacks" /\ v.done = w.done + 1
  <2> DEFINE on == [w EXCEPT !.done = @ + 1]
  <2>1. on \in Positions /\ on.token = w.token /\ on.list = w.list /\ on.done = w.done + 1
    BY <1>1 DEF Positions
  <2>2. v = [on EXCEPT !.inside = TRUE]
    OBVIOUS
  <2> HIDE DEF on, v
  <2> QED BY <2>1, <2>2, <1>1 DEF Positions
<1> HIDE DEF v
<1>4. /\ walk' \in Seq(Positions) /\ DOMAIN walk' = DOMAIN walk
      /\ \A i \in DOMAIN walk : walk'[i] = IF i = n THEN v ELSE walk[i]
  BY <1>1, <1>3, WalkMoves DEF TokenInv
<1> HIDE DEF n
<1>5. runs[b] = 0
  <2>1. ~(runs[b] > 0)
    BY <1>1, <1>2 DEF TokenInv, RunOnce
  <2> QED BY <2>1, <1>2 DEF TokenInv, TokenType
<1> HIDE DEF w, b
<1>6. TokenType'
  BY <1>1, <1>2, <1>4 DEF TokenInv, TokenType
<1>7. WalkedOnce'
  BY <1>1, <1>3, <1>4 DEF TokenInv, WalkedOnce, w
<1>8. Descends'
  <2>1. ASSUME NEW u \in own, NEW k \in DOMAIN children[u], ChildAhead(u, k)
        PROVE  ChildAhead(u, k)'
    BY <2>1, <1>1, <1>4 DEF ChildAhead, w
  <2>2. \A u \in late : Token!IsCancelled(u)'
    BY <1>1, StaysCancelled DEF TokenInv, TokenType, Descends
  <2> QED BY <2>1, <2>2, <1>1 DEF TokenInv, Descends
<1>9. RunAll'
  <2>1. ASSUME NEW u \in own, u \notin cut, NEW k \in DOMAIN callbacks[u]
        PROVE  runs'[callbacks[u][k]] = 1 \/ CallbackAhead(u, k)'
    <3>1. k \in Nat /\ k > 0 /\ callbacks[u][k] \in Callbacks
      BY Listed DEF TokenInv, TokenType
    <3>2. CASE callbacks[u][k] = b
      BY <3>1, <3>2, <1>1, <1>5 DEF TokenInv, TokenType
    <3>3. CASE callbacks[u][k] # b /\ runs[callbacks[u][k]] = 1
      BY <3>1, <3>3, <1>1 DEF TokenInv, TokenType
    <3>4. CASE callbacks[u][k] # b /\ CallbackAhead(u, k)
      <4>1. PICK i \in DOMAIN walk : walk[i].token = u /\ (walk[i].list = "children" \/ walk[i].done < k)
        BY <3>4 DEF CallbackAhead
      <4>2. i = n => w.done + 1 < k
        BY <3>1, <3>4, <4>1, <1>1, <1>2 DEF b, w
      <4> QED BY <4>1, <4>2, <1>1, <1>3, <1>4 DEF CallbackAhead, w
    <3> QED BY <2>1, <3>2, <3>3, <3>4 DEF TokenInv, RunAll
  <2> QED BY <2>1, <1>1 DEF RunAll
<1>10. RunOnce'
  <2>1. \A c \in Callbacks : runs'[c] = IF c = b THEN 1 ELSE runs[c]
    BY <1>1, <1>5 DEF TokenInv, TokenType
  <2>2. ASSUME NEW t \in Tokens, NEW k \in DOMAIN callbacks[t], runs'[callbacks[t][k]] > 0
        PROVE  /\ t \in own
               /\ \A i \in DOMAIN walk' : walk'[i].token = t => walk'[i].list = "callbacks" /\ k <= walk'[i].done
    <3>1. k \in Nat /\ callbacks[t][k] \in Callbacks
      BY Listed DEF TokenInv
    <3>2. CASE callbacks[t][k] = b
      <4>1. t = w.token /\ k = w.done + 1
        BY <3>2, <1>2 DEF TokenInv, RunOnce, b
      <4>2. t \in own
        BY <4>1, <1>1 DEF TokenInv, WalkedOnce, w
      <4>3. \A i \in DOMAIN walk : walk[i].token = t => i = n
        BY <4>1, <1>1 DEF TokenInv, WalkedOnce, w
      <4> QED BY <4>1, <4>2, <4>3, <1>2, <1>3, <1>4
    <3>3. CASE callbacks[t][k] # b
      <4>1. /\ t \in own
            /\ \A i \in DOMAIN walk : walk[i].token = t => walk[i].list = "callbacks" /\ k <= walk[i].done
        BY <2>1, <2>2, <3>1, <3>3 DEF TokenInv, RunOnce
      <4> QED BY <4>1, <3>1, <1>1, <1>2, <1>3, <1>4 DEF w
    <3> QED BY <3>2, <3>3
  <2> QED BY <2>1, <2>2, <1>1 DEF TokenInv, RunOnce
<1> QED BY <1>6, <1>7, <1>8, <1>9, <1>10 DEF TokenInv

\* The callback that was run returns: the walk goes on from where it was.
LEMMA CallbackReturnsKeeps ==
    ASSUME TokenInv, Token!CallbackReturns
    PROVE  TokenInv'
<1> DEFINE n == Len(walk)
           w == walk[n]
           v == [w EXCEPT !.inside = FALSE]
<1>1. /\ walk # <<>> /\ n \in DOMAIN walk /\ w \in Positions
      /\ walk' = Token!Top(v)
      /\ UNCHANGED <<parent, own, children, callbacks, runs, late, cut>>
  BY WalkLast DEF Token!CallbackReturns, TokenInv
<1>2. v \in Positions /\ v.token = w.token /\ v.list = w.list /\ v.done = w.done
  BY <1>1 DEF Positions
<1> HIDE DEF v
<1>3. /\ walk' \in Seq(Positions) /\ DOMAIN walk' = DOMAIN walk
      /\ \A i \in DOMAIN walk : walk'[i] = IF i = n THEN v ELSE walk[i]
  BY <1>1, <1>2, WalkMoves DEF TokenInv
<1>4. \A i \in DOMAIN walk : /\ walk'[i].token = walk[i].token /\ walk'[i].list = walk[i].list
                             /\ walk'[i].done = walk[i].done
  BY <1>2, <1>3
<1> HIDE DEF n, w
<1>5. TokenType'
  BY <1>1, <1>3 DEF TokenInv, TokenType
<1>6. WalkedOnce' /\ RunOnce'
  BY <1>1, <1>3, <1>4 DEF TokenInv, WalkedOnce, RunOnce
<1>7. Descends'
  <2>1. \A u \in late : Token!IsCancelled(u)'
    BY <1>1, StaysCancelled DEF TokenInv, TokenType, Descends
  <2> QED BY <2>1, <1>1, <1>3, <1>4 DEF TokenInv, Descends, ChildAhead
<1>8. RunAll'
  BY <1>1, <1>3, <1>4 DEF TokenInv, RunAll, CallbackAhead
<1> QED BY <1>5, <1>6, <1>7, <1>8 DEF TokenInv

\* A token whose callbacks were run leaves the walk, which nothing is left to reach.
LEMMA CallbacksDoneKeeps ==
    ASSUME TokenInv, Token!CallbacksDone
    PROVE  TokenInv'
<1> DEFINE n == Len(walk)
           w == walk[n]
<1>1. /\ walk # <<>> /\ n \in DOMAIN walk /\ w \in Positions
      /\ w.list = "callbacks" /\ w.done >= Len(callbacks[w.token])
      /\ walk' = Token!Front(walk)
      /\ UNCHANGED <<parent, own, children, callbacks, runs, late, cut>>
  BY WalkLast DEF Token!CallbacksDone, TokenInv
<1>2. w.token \in Tokens /\ w.done \in Nat
  BY <1>1 DEF Positions
<1>3. /\ walk' \in Seq(Positions) /\ DOMAIN walk' = DOMAIN walk \ {n}
      /\ \A i \in DOMAIN walk' : walk'[i] = walk[i]
  BY <1>1, WalkReturns DEF TokenInv
<1> HIDE DEF n
<1>4. TokenType'
  BY <1>1, <1>3 DEF TokenInv, TokenType
<1>5. WalkedOnce' /\ RunOnce'
  BY <1>1, <1>3 DEF TokenInv, WalkedOnce, RunOnce
<1> HIDE DEF w
<1>6. Descends'
  <2>1. ASSUME NEW u \in own, NEW k \in DOMAIN children[u], ChildAhead(u, k)
        PROVE  ChildAhead(u, k)'
    BY <2>1, <1>1, <1>3 DEF ChildAhead, w
  <2>2. \A u \in late : Token!IsCancelled(u)'
    BY <1>1, StaysCancelled DEF TokenInv, TokenType, Descends
  <2> QED BY <2>1, <2>2, <1>1 DEF TokenInv, Descends
<1>7. RunAll'
  <2>1. ASSUME NEW u \in own, NEW k \in DOMAIN callbacks[u], CallbackAhead(u, k)
        PROVE  CallbackAhead(u, k)'
    <3>1. Len(callbacks[u]) \in Nat /\ k \in 1 .. Len(callbacks[u])
      BY Listed DEF TokenInv, TokenType
    <3>2. PICK i \in DOMAIN walk : walk[i].token = u /\ (walk[i].list = "children" \/ walk[i].done < k)
      BY <2>1 DEF CallbackAhead
    <3>3. i # n
      BY <3>1, <3>2, <1>1, <1>2 DEF w
    <3> QED BY <3>2, <3>3, <1>3 DEF CallbackAhead
  <2> QED BY <2>1, <1>1 DEF TokenInv, RunAll
<1> QED BY <1>4, <1>5, <1>6, <1>7 DEF TokenInv

\* A child that is created below a cancelled token is late.
LEMMA CreateChildKeeps ==
    ASSUME Token!TokensAssumption, TokenInv, NEW t \in Tokens, NEW child \in Tokens,
           Token!CreateChild(t, child)
    PROVE  TokenInv'
<1>1. /\ parent' = [parent EXCEPT ![child] = t]
      /\ children' = [children EXCEPT ![t] = Append(@, child)]
      /\ late' = IF Token!IsCancelled(t) THEN late \cup {child} ELSE late
      /\ parent[child] = Token!Unborn /\ parent[child] \notin Tokens
      /\ UNCHANGED <<own, callbacks, runs, walk, cut>>
  BY DEF Token!CreateChild, Token!Born, Token!TokensAssumption
<1>2. TokenType'
  BY <1>1 DEF TokenInv, TokenType
<1>3. /\ \A k \in DOMAIN children[t] : k \in DOMAIN children'[t] /\ children'[t][k] = children[t][k]
      /\ \A k \in DOMAIN children'[t] \ DOMAIN children[t] : children'[t][k] = child
      /\ \E k \in DOMAIN children'[t] : children'[t][k] = child
      /\ \A u \in Tokens : u # t => children'[u] = children[u]
  <2>1. children[t] \in Seq(Tokens) /\ children'[t] = Append(children[t], child)
    BY <1>1 DEF TokenInv, TokenType
  <2>2. /\ Len(children[t]) \in Nat
        /\ DOMAIN children[t] = 1 .. Len(children[t])
        /\ DOMAIN children'[t] = 1 .. Len(children[t]) + 1
        /\ children'[t][Len(children[t]) + 1] = child
        /\ \A k \in 1 .. Len(children[t]) : children'[t][k] = children[t][k]
    BY <2>1
  <2>3. \A u \in Tokens : u # t => children'[u] = children[u]
    BY <1>1 DEF TokenInv, TokenType
  <2> QED BY <2>2, <2>3
<1>4. WalkedOnce' /\ RunAll' /\ RunOnce'
  BY <1>1 DEF TokenInv, WalkedOnce, RunAll, CallbackAhead, RunOnce
<1>5. t \in own \cup late => child \in late'
  <2>1. t \in own => Token!IsCancelled(t)
    BY DEF Token!IsCancelled, Token!UpFrom
  <2>2. t \in late => Token!IsCancelled(t)
    BY DEF TokenInv, Descends
  <2> QED BY <2>1, <2>2, <1>1
<1>6. Descends'
  <2>1. ASSUME NEW u \in Tokens, parent'[u] \in Tokens
        PROVE  \E k \in DOMAIN children'[parent'[u]] : children'[parent'[u]][k] = u
    <3>1. CASE u = child
      BY <3>1, <1>1, <1>3 DEF TokenInv, TokenType
    <3>2. CASE u # child
      <4>1. parent'[u] = parent[u]
        BY <3>2, <1>1 DEF TokenInv, TokenType
      <4>2. PICK k \in DOMAIN children[parent[u]] : children[parent[u]][k] = u
        BY <4>1, <2>1 DEF TokenInv, Descends
      <4> QED BY <2>1, <4>1, <4>2, <1>3
    <3> QED BY <3>1, <3>2
  <2>2. ASSUME NEW u \in own, NEW k \in DOMAIN children'[u]
        PROVE  children'[u][k] \in own \cup late' \/ ChildAhead(u, k)
    <3>1. /\ u \in Tokens
          /\ \A j \in DOMAIN children[u] : children[u][j] \in own \cup late' \/ ChildAhead(u, j)
      BY <1>1 DEF TokenInv, TokenType, Descends
    <3>2. CASE u = t
      BY <3>1, <3>2, <1>3, <1>5
    <3> QED BY <3>1, <3>2, <1>3
  <2>3. ASSUME NEW u \in late', NEW k \in DOMAIN children'[u]
        PROVE  children'[u][k] \in late'
    <3>1. CASE u \in late
      <4>1. u \in Tokens /\ \A j \in DOMAIN children[u] : children[u][j] \in late'
        BY <3>1, <1>1 DEF TokenInv, TokenType, Descends
      <4>2. CASE u = t
        BY <4>1, <4>2, <3>1, <1>3, <1>5
      <4> QED BY <4>1, <4>2, <1>3
    <3>2. CASE u \notin late
      <4>1. u = child /\ children'[u] = <<>>
        BY <3>2, <1>1, <1>3 DEF TokenInv, Descends, Token!CreateChild, Token!Born
      <4> QED BY <4>1
    <3> QED BY <3>1, <3>2
  <2>4. \A u \in late' : Token!IsCancelled(u)'
    <3>1. \A v \in Tokens : parent[v] \in Tokens => parent'[v] = parent[v]
      BY <1>1 DEF TokenInv, TokenType
    <3>2. \A u \in late : Token!IsCancelled(u)'
      BY <3>1, <1>1, StaysCancelled DEF TokenInv, TokenType, Descends
    <3>3. CASE Token!IsCancelled(t)
      <4>1. Token!IsCancelled(t)'
        BY <3>1, <3>3, <1>1, StaysCancelled
      <4>2. parent'[child] = t
        BY <1>1 DEF TokenInv, TokenType
      <4>3. Token!IsCancelled(child)'
        BY <4>1, <4>2, BelowIsCancelled
      <4> QED BY <4>3, <3>2, <1>1
    <3> QED BY <3>2, <3>3, <1>1
  <2>5. ASSUME NEW u \in Tokens, parent'[u] = Token!Unborn PROVE children'[u] = <<>>
    <3>1. parent'[u] = IF u = child THEN t ELSE parent[u]
      BY <1>1 DEF TokenInv, TokenType
    <3>2. t # Token!Unborn /\ parent[t] # Token!Unborn
      BY DEF Token!TokensAssumption, Token!CreateChild, Token!Born
    <3>3. u # child /\ u # t /\ parent[u] = Token!Unborn
      BY <2>5, <3>1, <3>2
    <3>4. children[u] = <<>>
      BY <3>3 DEF TokenInv, Descends
    <3> QED BY <3>3, <3>4, <1>3
  <2> QED BY <2>1, <2>2, <2>3, <2>4, <2>5, <1>1 DEF Descends, ChildAhead
<1> QED BY <1>2, <1>4, <1>6 DEF TokenInv

\* on_cancel: a callback is run at once or listed, and it was neither before.
LEMMA OnCancelKeeps ==
    ASSUME TokenInv, NEW t \in Tokens, NEW b \in Callbacks, Token!OnCancel(t, b)
    PROVE  TokenInv'
<1>1. /\ runs[b] = 0 /\ \A u \in Tokens : \A k \in DOMAIN callbacks[u] : callbacks[u][k] # b
      /\ UNCHANGED <<parent, own, children, walk, late, cut>>
  <2>1. ~(runs[b] > 0) /\ \A u \in Tokens : ~Token!Contains(callbacks[u], b)
    BY DEF Token!OnCancel, Token!Known
  <2>2. runs[b] = 0
    BY <2>1 DEF TokenInv, TokenType
  <2>3. \A u \in Tokens : \A k \in DOMAIN callbacks[u] : callbacks[u][k] # b
    BY <2>1, Listed DEF TokenInv, Token!Contains
  <2> QED BY <2>2, <2>3 DEF Token!OnCancel
<1>2. WalkedOnce'
  BY <1>1 DEF TokenInv, WalkedOnce
<1>3. Descends'
  <2>1. \A u \in late : Token!IsCancelled(u)'
    BY <1>1, StaysCancelled DEF TokenInv, TokenType, Descends
  <2> QED BY <2>1, <1>1 DEF TokenInv, Descends, ChildAhead
<1>4. CASE t \in own
  <2>1. runs' = [runs EXCEPT ![b] = @ + 1] /\ UNCHANGED callbacks
    BY <1>4 DEF Token!OnCancel
  <2>2. TokenType'
    BY <2>1, <1>1 DEF TokenInv, TokenType
  <2>3. \A u \in Tokens : \A k \in DOMAIN callbacks[u] :
           callbacks[u][k] \in Callbacks /\ runs'[callbacks[u][k]] = runs[callbacks[u][k]]
    BY <2>1, <1>1, Listed DEF TokenInv, TokenType
  <2>4. RunAll'
    BY <2>1, <2>3, <1>1 DEF TokenInv, TokenType, RunAll, CallbackAhead
  <2>5. \A c \in Callbacks : runs'[c] <= 1
    BY <2>1, <1>1 DEF TokenInv, TokenType, RunOnce
  <2>6. RunOnce'
    BY <2>1, <2>3, <2>5, <1>1 DEF TokenInv, RunOnce
  <2> QED BY <2>2, <2>4, <2>6, <1>2, <1>3 DEF TokenInv
<1>5. CASE t \notin own
  <2>1. callbacks' = [callbacks EXCEPT ![t] = Append(@, b)] /\ UNCHANGED runs
    BY <1>5 DEF Token!OnCancel
  <2>2. TokenType'
    BY <2>1, <1>1 DEF TokenInv, TokenType
  <2>3. \A u \in Tokens : u # t => callbacks'[u] = callbacks[u]
    BY <2>1 DEF TokenInv, TokenType
  <2>4. PICK n \in Nat : DOMAIN callbacks[t] = 1 .. n /\ DOMAIN callbacks'[t] = 1 .. n + 1
                         /\ callbacks'[t][n + 1] = b
                         /\ \A k \in 1 .. n : callbacks'[t][k] = callbacks[t][k]
    <3>1. callbacks[t] \in Seq(Callbacks) /\ callbacks'[t] = Append(callbacks[t], b)
      BY <2>1 DEF TokenInv, TokenType
    <3> WITNESS Len(callbacks[t]) \in Nat
    <3> QED BY <3>1
  <2>5. RunAll'
    BY <2>1, <2>3, <1>1, <1>5 DEF TokenInv, TokenType, RunAll, CallbackAhead
  <2>6. ASSUME NEW u \in Tokens, NEW k \in DOMAIN callbacks'[u]
        PROVE  \/ u = t /\ k = n + 1 /\ callbacks'[u][k] = b
               \/ k \in DOMAIN callbacks[u] /\ callbacks'[u][k] = callbacks[u][k] /\ callbacks[u][k] # b
    <3>1. CASE u = t
      BY <3>1, <2>4, <1>1
    <3>2. CASE u # t
      BY <3>2, <2>3, <1>1
    <3> QED BY <3>1, <3>2
  <2>7. \A u, v \in Tokens : \A j \in DOMAIN callbacks'[u], k \in DOMAIN callbacks'[v] :
           callbacks'[u][j] = callbacks'[v][k] => u = v /\ j = k
    BY <2>6 DEF TokenInv, RunOnce
  <2>8. RunOnce'
    BY <2>1, <2>6, <2>7, <1>1 DEF TokenInv, RunOnce
  <2> QED BY <2>2, <2>5, <2>8, <1>2, <1>3 DEF TokenInv
<1> QED BY <1>4, <1>5

\* remove_callback: the list closes up, behind the walk as ahead of it.
LEMMA RemoveCallbackKeeps ==
    ASSUME TokenInv, NEW t \in Tokens, NEW b \in Callbacks, Token!RemoveCallback(t, b)
    PROVE  TokenInv'
<1>1. PICK i \in DOMAIN callbacks[t] : callbacks' = [callbacks EXCEPT ![t] = Token!RemoveAt(@, i)]
  BY DEF Token!RemoveCallback
<1>2. /\ cut' = IF t \in own THEN cut \cup {t} ELSE cut
      /\ UNCHANGED <<parent, own, children, runs, walk, late>>
  BY DEF Token!RemoveCallback
<1>3. callbacks[t] \in Seq(Callbacks) /\ callbacks'[t] = Token!RemoveAt(callbacks[t], i)
      /\ i \in 1 .. Len(callbacks[t])
  BY <1>1 DEF TokenInv, TokenType
<1>0. /\ callbacks'[t] \in Seq(Callbacks) /\ i \in Nat
      /\ \A k \in DOMAIN callbacks'[t] :
            LET j == IF k < i THEN k ELSE k + 1
            IN k \in Nat /\ j \in DOMAIN callbacks[t] /\ callbacks'[t][k] = callbacks[t][j]
  BY <1>3, ListClosesUp
<1>4. \A u \in Tokens : u # t => callbacks'[u] = callbacks[u]
  BY <1>1 DEF TokenInv, TokenType
<1>5. TokenType'
  BY <1>0, <1>1, <1>2 DEF TokenInv, TokenType
<1>6. WalkedOnce'
  BY <1>2 DEF TokenInv, WalkedOnce
<1>7. Descends'
  <2>1. \A u \in late : Token!IsCancelled(u)'
    BY <1>2, StaysCancelled DEF TokenInv, TokenType, Descends
  <2> QED BY <2>1, <1>2 DEF TokenInv, Descends, ChildAhead
<1>8. RunAll'
  <2>1. ASSUME NEW u \in own, u \notin cut' PROVE callbacks'[u] = callbacks[u] /\ u \notin cut
    BY <2>1, <1>2, <1>4 DEF TokenInv, TokenType
  <2> QED BY <2>1, <1>2 DEF TokenInv, RunAll, CallbackAhead
<1>9. RunOnce'
  <2>1. \A u \in Tokens : \A k \in DOMAIN callbacks'[u] :
           LET j == IF u = t /\ k >= i THEN k + 1 ELSE k
           IN k \in Nat /\ j \in DOMAIN callbacks[u] /\ callbacks'[u][k] = callbacks[u][j]
    <3>1. ASSUME NEW u \in Tokens, u # t, NEW k \in DOMAIN callbacks'[u]
          PROVE  k \in Nat /\ k \in DOMAIN callbacks[u] /\ callbacks'[u][k] = callbacks[u][k]
      BY <3>1, <1>4, Listed DEF TokenInv
    <3> QED BY <3>1, <1>0
  <2>2. i \in Nat
    BY <1>0
  <2>3. \A u, v \in Tokens : \A j \in DOMAIN callbacks'[u], k \in DOMAIN callbacks'[v] :
           callbacks'[u][j] = callbacks'[v][k] => u = v /\ j = k
    BY <2>1, <2>2 DEF TokenInv, RunOnce
  <2>4. ASSUME NEW u \in Tokens, NEW k \in DOMAIN callbacks'[u], runs[callbacks'[u][k]] > 0
        PROVE  /\ u \in own
               /\ \A p \in DOMAIN walk : walk[p].token = u => walk[p].list = "callbacks" /\ k <= walk[p].done
    <3>1. PICK j \in DOMAIN callbacks[u] :
             k \in Nat /\ (j = k \/ j = k + 1) /\ callbacks'[u][k] = callbacks[u][j]
      BY <2>1
    <3>2. /\ u \in own
          /\ \A p \in DOMAIN walk : walk[p].token = u => walk[p].list = "callbacks" /\ j <= walk[p].done
      BY <3>1, <2>4 DEF TokenInv, RunOnce
    <3>3. ASSUME NEW p \in DOMAIN walk PROVE walk[p].done \in Nat
      <4>1. walk[p] \in Positions
        BY DEF TokenInv, TokenType
      <4> QED BY <4>1 DEF Positions
    <3> QED BY <3>1, <3>2, <3>3
  <2> QED BY <2>3, <2>4, <1>2 DEF TokenInv, RunOnce
<1> QED BY <1>5, <1>6, <1>7, <1>8, <1>9 DEF TokenInv

LEMMA TokenStep ==
    ASSUME Token!TokensAssumption, TokenInv, [Token!Next]_Token!vars
    PROVE  TokenInv'
<1>1. CASE UNCHANGED Token!vars
  <2>1. UNCHANGED <<parent, own, children, callbacks, runs, walk, late, cut>>
    BY <1>1 DEF Token!vars
  <2>2. \A u \in late : Token!IsCancelled(u)'
    BY <2>1, StaysCancelled DEF TokenInv, TokenType, Descends
  <2>3. Descends'
    BY <2>1, <2>2 DEF TokenInv, Descends, ChildAhead
  <2> QED BY <2>1, <2>3 DEF TokenInv, TokenType, WalkedOnce, RunAll, CallbackAhead, RunOnce
<1> QED BY <1>1, CancelKeeps, CancelChildKeeps, ChildrenDoneKeeps, RunCallbackKeeps, CallbackReturnsKeeps,
           CallbacksDoneKeeps, CreateChildKeeps, OnCancelKeeps, RemoveCallbackKeeps DEF Token!Next

\* When no walk is under way, what is above an uncancelled token is not cancelled.
LEMMA CancelledBelow ==
    ASSUME TokenInv, walk = <<>>, NEW t \in Tokens, Token!IsCancelled(t)
    PROVE  t \in own \cup late
<1> SUFFICES ASSUME t \notin own \cup late PROVE FALSE
  OBVIOUS
<1> DEFINE free == Tokens \ (own \cup late)
<1>1. ASSUME NEW v \in free, parent[v] \in Tokens PROVE parent[v] \in free
  <2>1. PICK k \in DOMAIN children[parent[v]] : children[parent[v]][k] = v
    BY <1>1 DEF TokenInv, Descends
  <2> QED BY <2>1, <1>1 DEF TokenInv, Descends, ChildAhead
<1>2. Token!UpFrom(t) \subseteq free
  BY <1>1 DEF Token!UpFrom
<1> QED BY <1>2 DEF Token!IsCancelled

\* cancellation.py: when the outermost cancel() returns, all below a cancelled token
\* is cancelled and has run all its callbacks, but for what was created later or
\* removed meanwhile; and no callback is ever run twice.
THEOREM TokenCancelsAll == Token!Spec => []CancelsOnceAndAll
<1>1. TokenInv => CancelsOnceAndAll
  <2> SUFFICES ASSUME TokenInv PROVE CancelsOnceAndAll
    OBVIOUS
  <2>1. \A b \in Callbacks : runs[b] <= 1
    BY DEF TokenInv, RunOnce
  <2>2. ASSUME walk = <<>>, NEW t \in Token!Born, Token!IsCancelled(t)
        PROVE  /\ t \in own \cup late
               /\ t \in own \ cut => \A i \in DOMAIN callbacks[t] : runs[callbacks[t][i]] = 1
    BY <2>2, CancelledBelow DEF Token!Born, TokenInv, RunAll, CallbackAhead
  <2> QED BY <2>1, <2>2 DEF CancelsOnceAndAll, Token!CancelsOnceAndAll
<1>2. Token!TokensAssumption
  BY InstancesAreAssumed
<1> QED BY <1>1, <1>2, TokenStart, TokenStep, PTL DEF Token!Spec

-----------------------------------------------------------------------------
(* All of them *)

\* What the run on the tables checks of their safety, for any constants.
THEOREM TablesSafe ==
    TablesSpec =>
        /\ []FailsOnConflict /\ CountedNotLost /\ CreatedOnce
        /\ []CancelsOnceAndAll /\ []ErrorsReported /\ []ExecutedOnce /\ []SessionConsistent
        /\ []BlockedUntilComplete /\ []RunsOnceWhenReady /\ []RunsOnFreshResults /\ []EndsVisibly
        /\ []ExclusiveWhileLeased /\ SettledIsFinal
<1>1. BoardAssumption
  BY InstancesAreAssumed
<1>2. Spec => []FailsOnConflict /\ CountedNotLost /\ CreatedOnce
  BY <1>1, CasLosesNothing, CasFailsOnConflict, GetOrSetCreatesOnce, PTL
<1> QED BY <1>2, SumRunsTables, TokenCancelsAll, ManagerReports, DedupExecutesOnce,
           CheckpointsConsistent, QueueBlocks, SchedulerRunsOnce, EngineRunsFresh,
           RegistryEndsVisibly, LeasesExclude, SettledByLookers, PTL
=============================================================================

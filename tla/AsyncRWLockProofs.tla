--------------------------- MODULE AsyncRWLockProofs ---------------------------
(***************************************************************************)
(* For any finite sets of tasks: AsyncRWLock's counters are exact, it      *)
(* implements a read-write lock, and, where asyncio notifies on            *)
(* cancellation, it never forgets a sleeping task.                         *)
(***************************************************************************)
EXTENDS AsyncRWLock, FiniteSetTheorems, TLAPS

Exclusive ==
    /\ writer => Reading = {}
    /\ \A t, u \in Writing : t = u

IInv ==
    /\ TypeOK
    /\ CountersExact
    /\ Exclusive
    /\ WriterSleepsBehindHolder
    /\ NotifyOnCancel => NoLostWakeup

USE DEF Reading, Writing, Pending, Asleep, Woken, At, Stages

-----------------------------------------------------------------------------
(* Counting *)

\* Every group of tasks is finite.
LEMMA Finite ==
    /\ IsFiniteSet(Reading) /\ IsFiniteSet(Pending)
    /\ Cardinality(Reading) \in Nat /\ Cardinality(Pending) \in Nat
<1>1. IsFiniteSet(Tasks)
  BY TasksAssumption, FS_Union DEF Tasks
<1>2. Reading \in SUBSET Tasks /\ Pending \in SUBSET Tasks
  OBVIOUS
<1>3. IsFiniteSet(Reading) /\ IsFiniteSet(Pending)
  BY <1>1, <1>2, FS_Subset
<1> QED BY <1>3, FS_CardinalityType

\* There is a reader exactly when the counter says so.
LEMMA CountPositive == ASSUME CountersExact PROVE readers > 0 <=> Reading # {}
<1>1. Cardinality(Reading) = 0 <=> Reading = {}
  BY Finite, FS_EmptySet
<1> QED BY <1>1, Finite DEF CountersExact

\* The counters stay exact when tasks enter or leave a group one at a time.
LEMMA CountStep ==
    ASSUME NEW S, NEW x, IsFiniteSet(S)
    PROVE  /\ x \notin S => Cardinality(S \cup {x}) = Cardinality(S) + 1
           /\ x \in S => Cardinality(S \ {x}) = Cardinality(S) - 1
  BY FS_AddElement, FS_RemoveElement

\* A task that leaves, waking everybody or nobody, is gone from every group;
\* a notification moves nobody else into or out of the groups that are counted.
LEMMA LeaveAndNotify ==
    ASSUME TypeOK, NEW t \in Tasks, pc' = NotifyAll([pc EXCEPT ![t] = "idle"])
    PROVE  /\ pc' \in [Tasks -> Stages]
           /\ Reading' = Reading \ {t} /\ Writing' = Writing \ {t} /\ Pending' = Pending \ {t}
           /\ Asleep' = {}
<1>1. pc' = [u \in Tasks |-> IF u = t THEN "idle"
                             ELSE IF pc[u] = "readSleep" THEN "readWoken"
                             ELSE IF pc[u] = "writeSleep" THEN "writeWoken" ELSE pc[u]]
  BY DEF TypeOK, NotifyAll
<1> QED BY <1>1 DEF TypeOK

\* A task that leaves waking nobody.
LEMMA LeaveSilently ==
    ASSUME TypeOK, NEW t \in Tasks, pc' = [pc EXCEPT ![t] = "idle"]
    PROVE  /\ pc' \in [Tasks -> Stages]
           /\ Reading' = Reading \ {t} /\ Writing' = Writing \ {t} /\ Pending' = Pending \ {t}
           /\ Asleep' = Asleep \ {t}
  BY DEF TypeOK

-----------------------------------------------------------------------------
(* The inductive invariant, one operation at a time *)

\* A new lock: nobody holds it, nobody waits.
LEMMA InitInv == Init => IInv
<1> SUFFICES ASSUME Init PROVE IInv
  OBVIOUS
<1>1. TypeOK
  BY DEF Init, TypeOK
<1>2. Reading = {} /\ Writing = {} /\ Pending = {} /\ Asleep = {}
  BY DEF Init
<1>3. CountersExact
  BY <1>2, FS_EmptySet DEF Init, CountersExact
<1> QED BY <1>1, <1>2, <1>3 DEF IInv, Exclusive, WriterSleepsBehindHolder, NoLostWakeup

\* read(): the task reads, or sleeps behind a writer that holds or waits.
LEMMA ReadInv ==
    ASSUME IInv, NEW t \in Tasks, Read(t)
    PROVE  IInv'
<1>1. CASE ReadFree /\ readers' = readers + 1 /\ pc' = [pc EXCEPT ![t] = "reading"]
  <2>1. TypeOK'
    BY <1>1 DEF IInv, TypeOK, Read
  <2>2. t \notin Reading /\ Reading' = Reading \cup {t} /\ Writing' = Writing /\ Pending' = Pending
    BY <1>1 DEF IInv, TypeOK, Read
  <2>3. CountersExact'
    <3>1. Cardinality(Reading \cup {t}) = Cardinality(Reading) + 1
      BY <2>2, Finite, CountStep
    <3> QED BY <1>1, <2>2, <3>1 DEF IInv, CountersExact, Read
  <2>4. writer' = FALSE /\ readers' > 0
    BY <1>1 DEF IInv, TypeOK, Read, ReadFree
  <2> QED BY <2>1, <2>2, <2>3, <2>4
          DEF IInv, Exclusive, WriterSleepsBehindHolder, NoLostWakeup
<1>2. CASE ~ReadFree /\ pc' = [pc EXCEPT ![t] = "readSleep"] /\ UNCHANGED readers
  <2>1. TypeOK'
    BY <1>2 DEF IInv, TypeOK, Read
  <2>2. Reading' = Reading /\ Writing' = Writing /\ Pending' = Pending
    BY <1>2 DEF IInv, TypeOK, Read
  <2>3. CountersExact' /\ Exclusive'
    BY <1>2, <2>2 DEF IInv, CountersExact, Exclusive, Read
  <2>4. WriterSleepsBehindHolder'
    BY <1>2 DEF IInv, TypeOK, WriterSleepsBehindHolder, Read
  <2>5. NotifyOnCancel' => NoLostWakeup'
    <3>1. CASE writer
      BY <1>2, <3>1 DEF NoLostWakeup, Read
    <3>2. CASE ~writer
      <4>1. Pending # {}
        BY <1>2, <3>2, FS_EmptySet DEF IInv, TypeOK, CountersExact, ReadFree
      <4>2. PICK u \in Tasks : pc[u] \in {"writeSleep", "writeWoken"}
        BY <4>1
      <4>3. u # t /\ pc'[u] = pc[u]
        BY <1>2, <4>2 DEF IInv, TypeOK, Read
      <4>4. CASE pc[u] = "writeWoken"
        BY <4>3, <4>4 DEF NoLostWakeup
      <4>5. CASE pc[u] = "writeSleep"
        BY <1>2, <4>5 DEF IInv, WriterSleepsBehindHolder, NoLostWakeup, Read
      <4> QED BY <4>2, <4>4, <4>5
    <3> QED BY <3>1, <3>2
  <2> QED BY <2>1, <2>3, <2>4, <2>5 DEF IInv
<1> QED BY <1>1, <1>2 DEF Read

\* write() and a writer that is resumed take a free lock the same way.
LEMMA TakeWriteInv ==
    ASSUME IInv, NEW t \in Tasks, pc[t] \in {"idle", "writeWoken"}, WriteFree,
           writer' = TRUE, pc' = [pc EXCEPT ![t] = "writing"], UNCHANGED readers,
           pendingWriters' = IF pc[t] = "idle" THEN pendingWriters ELSE pendingWriters - 1
    PROVE  IInv'
<1>1. Reading = {} /\ Writing = {}
  BY CountPositive DEF IInv, TypeOK, CountersExact, WriteFree
<1>2. Reading' = {} /\ Writing' = {t}
  BY <1>1 DEF IInv, TypeOK
<1>3. pendingWriters' = Cardinality(Pending')
  <2>1. CASE pc[t] = "idle"
    <3>1. Pending' = Pending
      BY <2>1 DEF IInv, TypeOK
    <3> QED BY <2>1, <3>1 DEF IInv, CountersExact
  <2>2. CASE pc[t] = "writeWoken"
    <3>1. t \in Pending /\ Pending' = Pending \ {t}
      BY <2>2 DEF IInv, TypeOK
    <3>2. Cardinality(Pending \ {t}) = Cardinality(Pending) - 1
      BY <3>1, Finite, CountStep
    <3> QED BY <2>2, <3>1, <3>2 DEF IInv, CountersExact
  <2> QED BY <2>1, <2>2
<1>4. CountersExact'
  BY <1>1, <1>2, <1>3 DEF IInv, CountersExact
<1>5. TypeOK'
  <2>1. IsFiniteSet(Pending')
    <3>1. IsFiniteSet(Tasks)
      BY TasksAssumption, FS_Union DEF Tasks
    <3>2. Pending' \in SUBSET Tasks
      OBVIOUS
    <3> QED BY <3>1, <3>2, FS_Subset
  <2>2. pendingWriters' \in Nat
    BY <1>3, <2>1, FS_CardinalityType
  <2> QED BY <2>2 DEF IInv, TypeOK
<1> QED BY <1>2, <1>4, <1>5 DEF IInv, Exclusive, WriterSleepsBehindHolder, NoLostWakeup

\* write(): the task writes, or is pending and sleeps behind a holder.
LEMMA WriteInv ==
    ASSUME IInv, NEW t \in Tasks, Write(t)
    PROVE  IInv'
<1>1. CASE WriteFree /\ writer' = TRUE /\ pc' = [pc EXCEPT ![t] = "writing"]
           /\ UNCHANGED pendingWriters
  BY <1>1, TakeWriteInv DEF Write
<1>2. CASE ~WriteFree /\ pendingWriters' = pendingWriters + 1
           /\ pc' = [pc EXCEPT ![t] = "writeSleep"] /\ UNCHANGED writer
  <2>1. TypeOK'
    BY <1>2 DEF IInv, TypeOK, Write
  <2>2. t \notin Pending /\ Pending' = Pending \cup {t} /\ Reading' = Reading /\ Writing' = Writing
    BY <1>2 DEF IInv, TypeOK, Write
  <2>3. CountersExact' /\ Exclusive'
    <3>1. Cardinality(Pending \cup {t}) = Cardinality(Pending) + 1
      BY <2>2, Finite, CountStep
    <3> QED BY <1>2, <2>2, <3>1 DEF IInv, CountersExact, Exclusive, Write
  <2>4. writer' \/ readers' > 0
    BY <1>2 DEF IInv, TypeOK, WriteFree, Write
  <2> QED BY <2>1, <2>3, <2>4 DEF IInv, WriterSleepsBehindHolder, NoLostWakeup
<1> QED BY <1>1, <1>2 DEF Write

\* A woken writer takes the lock or goes back to sleep behind a holder.
LEMMA ResumeInv ==
    ASSUME IInv, NEW t \in Tasks, ResumeWrite(t)
    PROVE  IInv'
<1>1. CASE WriteFree /\ writer' = TRUE /\ pendingWriters' = pendingWriters - 1
           /\ pc' = [pc EXCEPT ![t] = "writing"]
  BY <1>1, TakeWriteInv DEF ResumeWrite
<1>2. CASE ~WriteFree /\ pc' = [pc EXCEPT ![t] = "writeSleep"]
           /\ UNCHANGED <<writer, pendingWriters>>
  <2>1. TypeOK'
    BY <1>2 DEF IInv, TypeOK, ResumeWrite
  <2>2. Pending' = Pending /\ Reading' = Reading /\ Writing' = Writing
    BY <1>2 DEF IInv, TypeOK, ResumeWrite
  <2>3. CountersExact' /\ Exclusive'
    BY <1>2, <2>2 DEF IInv, CountersExact, Exclusive, ResumeWrite
  <2>4. writer' \/ readers' > 0
    BY <1>2 DEF IInv, TypeOK, WriteFree, ResumeWrite
  <2> QED BY <2>1, <2>3, <2>4 DEF IInv, WriterSleepsBehindHolder, NoLostWakeup
<1> QED BY <1>1, <1>2 DEF ResumeWrite

\* The last reader wakes everybody; another one leaves a reader behind.
LEMMA ReleaseReadInv ==
    ASSUME IInv, NEW t \in Tasks, ReleaseRead(t)
    PROVE  IInv'
<1>1. t \in Reading /\ TypeOK
  BY DEF IInv, ReleaseRead
<1>2. /\ pc' \in [Tasks -> Stages]
      /\ Reading' = Reading \ {t} /\ Writing' = Writing \ {t} /\ Pending' = Pending \ {t}
      /\ readers' = 0 => Asleep' = {}
  BY <1>1, LeaveAndNotify, LeaveSilently DEF ReleaseRead
<1>3. Writing' = Writing /\ Pending' = Pending
  BY <1>1, <1>2
<1>4. readers' = Cardinality(Reading') /\ readers' \in Nat
  <2>1. Cardinality(Reading \ {t}) = Cardinality(Reading) - 1
    BY <1>1, Finite, CountStep
  <2>2. IsFiniteSet(Reading \ {t})
    BY Finite, FS_RemoveElement
  <2>3. Cardinality(Reading \ {t}) \in Nat
    BY <2>2, FS_CardinalityType
  <2> QED BY <1>2, <2>1, <2>3 DEF IInv, CountersExact, ReleaseRead
<1>5. TypeOK' /\ CountersExact' /\ Exclusive'
  BY <1>2, <1>3, <1>4 DEF IInv, TypeOK, CountersExact, Exclusive, ReleaseRead
<1> QED BY <1>2, <1>4, <1>5 DEF IInv, WriterSleepsBehindHolder, NoLostWakeup

\* The writer leaves a free lock and nobody asleep.
LEMMA ReleaseWriteInv ==
    ASSUME IInv, NEW t \in Tasks, ReleaseWrite(t)
    PROVE  IInv'
<1>1. t \in Writing /\ TypeOK
  BY DEF IInv, ReleaseWrite
<1>2. /\ pc' \in [Tasks -> Stages]
      /\ Reading' = Reading \ {t} /\ Writing' = Writing \ {t} /\ Pending' = Pending \ {t}
      /\ Asleep' = {}
  BY <1>1, LeaveAndNotify DEF ReleaseWrite
<1>3. Reading' = Reading /\ Writing' = {} /\ Pending' = Pending
  BY <1>1, <1>2 DEF IInv, Exclusive
<1>4. TypeOK' /\ CountersExact'
  BY <1>2, <1>3 DEF IInv, TypeOK, CountersExact, ReleaseWrite
<1> QED BY <1>2, <1>3, <1>4
        DEF IInv, Exclusive, WriterSleepsBehindHolder, NoLostWakeup, ReleaseWrite

\* A task that gives up leaves the holders alone and puts nobody to sleep.
LEMMA AbandonKeepsHolders ==
    ASSUME TypeOK, NEW t \in Tasks, Abandon(t)
    PROVE  /\ pc' \in [Tasks -> Stages]
           /\ Reading' = Reading /\ Writing' = Writing
           /\ Pending' = Pending \ {t}
           /\ \A u \in Tasks : pc'[u] \in {"readSleep", "writeSleep"} => pc[u] = pc'[u]
<1> DEFINE left == [pc EXCEPT ![t] = "idle"]
           asleep == Asleep \ {t}
<1>1. \/ /\ ~(NotifyOnCancel /\ asleep # {})
         /\ pc' = left
      \/ \E u \in asleep : pc' = [left EXCEPT ![u] = NotifyAll(left)[u]]
  BY DEF Abandon
<1>2. CASE pc' = left
  BY <1>2 DEF TypeOK, Abandon
<1>3. CASE \E u \in asleep : pc' = [left EXCEPT ![u] = NotifyAll(left)[u]]
  <2>1. PICK u \in asleep : pc' = [left EXCEPT ![u] = NotifyAll(left)[u]]
    BY <1>3
  <2>2. \/ pc[u] = "readSleep" /\ NotifyAll(left)[u] = "readWoken"
        \/ pc[u] = "writeSleep" /\ NotifyAll(left)[u] = "writeWoken"
    BY <2>1 DEF TypeOK, NotifyAll
  <2>3. \/ pc[u] = "readSleep" /\ pc' = [left EXCEPT ![u] = "readWoken"]
        \/ pc[u] = "writeSleep" /\ pc' = [left EXCEPT ![u] = "writeWoken"]
    BY <2>1, <2>2
  <2> QED BY <2>1, <2>3 DEF TypeOK, Abandon
<1> QED BY <1>1, <1>2, <1>3

\* A task that gives up leaves the counters exact; where asyncio passes the
\* notification on, somebody else will look at the lock.
LEMMA AbandonInv ==
    ASSUME IInv, NEW t \in Tasks, Abandon(t)
    PROVE  IInv'
<1> DEFINE left == [pc EXCEPT ![t] = "idle"]
           asleep == Asleep \ {t}
<1>1. left \in [Tasks -> Stages]
  BY DEF IInv, TypeOK
<1>2. \/ /\ ~(NotifyOnCancel /\ asleep # {})
         /\ pc' = left
      \/ \E u \in asleep : pc' = [left EXCEPT ![u] = NotifyAll(left)[u]]
  BY DEF Abandon
<1>3. /\ pc' \in [Tasks -> Stages]
      /\ Reading' = Reading /\ Writing' = Writing
      /\ Pending' = Pending \ {t}
      /\ \A u \in Tasks : pc'[u] \in {"readSleep", "writeSleep"} => pc[u] = pc'[u]
  BY AbandonKeepsHolders DEF IInv
<1>4. pendingWriters' = Cardinality(Pending') /\ pendingWriters' \in Nat
  <2>1. CASE t \in Pending
    <3>1. Cardinality(Pending \ {t}) = Cardinality(Pending) - 1
      BY <2>1, Finite, CountStep
    <3>2. pendingWriters' = pendingWriters - 1
      BY <2>1 DEF Abandon, StopsPending
    <3>3. pendingWriters' = Cardinality(Pending')
      BY <1>3, <3>1, <3>2 DEF IInv, CountersExact
    <3>4. IsFiniteSet(Pending')
      BY <1>3, Finite, FS_RemoveElement
    <3> QED BY <3>3, <3>4, FS_CardinalityType
  <2>2. CASE t \notin Pending
    <3>1. pendingWriters' = pendingWriters /\ Pending' = Pending
      BY <1>3, <2>2 DEF IInv, TypeOK, Abandon, StopsPending
    <3> QED BY <3>1 DEF IInv, TypeOK, CountersExact
  <2> QED BY <2>1, <2>2
<1>5. TypeOK' /\ CountersExact' /\ Exclusive'
  BY <1>3, <1>4 DEF IInv, TypeOK, CountersExact, Exclusive, Abandon
<1>6. WriterSleepsBehindHolder'
  BY <1>3 DEF IInv, WriterSleepsBehindHolder, Abandon
<1>7. NotifyOnCancel' => NoLostWakeup'
  <2> SUFFICES ASSUME NotifyOnCancel, Asleep' # {} PROVE NoLostWakeup'
    BY DEF NoLostWakeup
  <2>1. asleep # {}
    BY <1>1, <1>2, <1>3 DEF IInv, TypeOK
  <2>2. PICK u \in asleep : pc' = [left EXCEPT ![u] = NotifyAll(left)[u]]
    BY <1>2, <2>1
  <2>3. left[u] \in {"readSleep", "writeSleep"}
    BY <2>2 DEF IInv, TypeOK
  <2>4. pc'[u] \in {"readWoken", "writeWoken"}
    BY <1>1, <2>2, <2>3 DEF NotifyAll
  <2> QED BY <2>2, <2>4 DEF NoLostWakeup
<1> QED BY <1>5, <1>6, <1>7 DEF IInv

\* Every step of every task preserves the invariant.
LEMMA NextInv == IInv /\ [Next]_vars => IInv'
<1> SUFFICES ASSUME IInv, [Next]_vars PROVE IInv'
  OBVIOUS
<1>1. ASSUME NEW t \in Tasks, Step(t) \/ Abandon(t) PROVE IInv'
  BY <1>1, ReadInv, WriteInv, ResumeInv, ReleaseReadInv, ReleaseWriteInv, AbandonInv DEF Step
<1>2. CASE UNCHANGED vars
  BY <1>2 DEF vars, IInv, TypeOK, CountersExact, Exclusive, WriterSleepsBehindHolder,
              NoLostWakeup
<1> QED BY <1>1, <1>2 DEF Next

-----------------------------------------------------------------------------
(* Theorems *)

\* The inductive invariant holds of every behaviour.
THEOREM Invariance == Spec => []IInv
  BY InitInv, NextInv, PTL DEF Spec

\* rwlock.py: readers, is_write_locked and pending_writers tell the truth, for any
\* number of tasks and whatever is cancelled.
THEOREM CountersAlwaysExact == Spec => [](TypeOK /\ CountersExact)
<1>1. IInv => TypeOK /\ CountersExact
  BY DEF IInv
<1> QED BY <1>1, Invariance, PTL

\* A writer never sleeps beside a free lock, on any version of asyncio.
THEOREM WriterHasHolder == Spec => []WriterSleepsBehindHolder
<1>1. IInv => WriterSleepsBehindHolder
  BY DEF IInv
<1> QED BY <1>1, Invariance, PTL

\* Where asyncio notifies on cancellation, no task is forgotten beside a free lock.
THEOREM NoTaskForgotten ==
    ASSUME NotifyOnCancel
    PROVE  Spec => []NoLostWakeup
<1>1. IInv => NoLostWakeup
  BY DEF IInv
<1> QED BY <1>1, Invariance, PTL

\* What a step of the lock does to the readers and the writer is a step of the
\* read-write lock it implements, or none.
LEMMA StepRefines ==
    ASSUME IInv, NEW t \in Tasks, Step(t) \/ Abandon(t)
    PROVE  Abstract!Next \/ UNCHANGED <<Reading, Writing>>
<1> USE DEF IInv, TypeOK
<1>1. CASE Read(t) /\ ReadFree
  <2>1. t \notin Reading \cup Writing /\ Writing = {}
    BY <1>1 DEF Read, ReadFree, CountersExact
  <2>2. Reading' = Reading \cup {t} /\ Writing' = Writing
    BY <1>1 DEF Read
  <2> QED BY <1>1, <2>1, <2>2 DEF Read, Abstract!Next, Abstract!Read
<1>2. CASE Read(t) /\ ~ReadFree
  BY <1>2 DEF Read
<1>3. CASE (Write(t) \/ ResumeWrite(t)) /\ WriteFree
  <2>1. t \notin Reading \cup Writing /\ Writing = {} /\ Reading = {}
    BY <1>3, CountPositive DEF Write, ResumeWrite, WriteFree, CountersExact
  <2>2. Writing' = {t} /\ Reading' = Reading
    BY <1>3, <2>1 DEF Write, ResumeWrite
  <2> QED BY <1>3, <2>1, <2>2 DEF Write, ResumeWrite, Abstract!Next, Abstract!Write
<1>4. CASE (Write(t) \/ ResumeWrite(t)) /\ ~WriteFree
  BY <1>4 DEF Write, ResumeWrite
<1>5. CASE ReleaseRead(t) \/ ReleaseWrite(t)
  <2>1. t \in Reading \cup Writing
    BY <1>5 DEF ReleaseRead, ReleaseWrite
  <2>2. Reading' = Reading \ {t} /\ Writing' = Writing \ {t}
    BY <1>5, LeaveAndNotify, LeaveSilently DEF ReleaseRead, ReleaseWrite
  <2> QED BY <2>1, <2>2 DEF Tasks, Abstract!Next, Abstract!Leave
<1>6. CASE Abandon(t)
  BY <1>6, AbandonKeepsHolders
<1> QED BY <1>1, <1>2, <1>3, <1>4, <1>5, <1>6 DEF Step

\* AsyncRWLock implements the read-write lock.
THEOREM Implementation == Spec => ImplementsAbstract
<1>1. Init => Abstract!Init
  BY DEF Init, Abstract!Init
<1>2. IInv /\ [Next]_vars => [Abstract!Next]_<<Reading, Writing>>
  <2> SUFFICES ASSUME IInv, [Next]_vars
               PROVE  Abstract!Next \/ UNCHANGED <<Reading, Writing>>
    OBVIOUS
  <2>1. CASE UNCHANGED vars
    BY <2>1 DEF vars
  <2> QED BY <2>1, StepRefines DEF Next
<1> QED BY <1>1, <1>2, Invariance, PTL DEF Spec, ImplementsAbstract, Abstract!Spec
=============================================================================

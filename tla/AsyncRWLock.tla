------------------------------ MODULE AsyncRWLock ------------------------------
(***************************************************************************)
(* AsyncRWLock (rwlock.py) and its timeout and instrumented variants:      *)
(* read() and write() over one asyncio.Condition.  A task suspends only in *)
(* Condition.wait, so the code from one wait to the next is one step.  A   *)
(* task that wait() has put to sleep is woken by a notification, and looks *)
(* at the lock again only when the event loop runs it.  A cancellation or  *)
(* a timeout can hit it before, asleep or already woken.                   *)
(***************************************************************************)
EXTENDS Integers, FiniteSets

CONSTANTS ReadTasks,       \* tasks that call read()
          WriteTasks,      \* tasks that call write()
          NotifyOnCancel   \* asyncio: a cancelled wait() notifies another (3.13)

ASSUME TasksAssumption == IsFiniteSet(ReadTasks) /\ IsFiniteSet(WriteTasks)
ASSUME NotifyAssumption == NotifyOnCancel \in BOOLEAN

Tasks == ReadTasks \cup WriteTasks

VARIABLES pc,             \* where each task stands
          readers,        \* _readers
          writer,         \* _writer
          pendingWriters  \* _pending_writers

vars == <<pc, readers, writer, pendingWriters>>

Stages == {"idle", "readSleep", "readWoken", "reading", "writeSleep", "writeWoken", "writing"}

TypeOK ==
    /\ pc \in [Tasks -> Stages]
    /\ readers \in Nat
    /\ writer \in BOOLEAN
    /\ pendingWriters \in Nat

At(stages) == {t \in Tasks : pc[t] \in stages}
Reading == At({"reading"})
Writing == At({"writing"})
Pending == At({"writeSleep", "writeWoken"})
Asleep == At({"readSleep", "writeSleep"})
Woken == At({"readWoken", "writeWoken"})

Init ==
    /\ pc = [t \in Tasks |-> "idle"]
    /\ readers = 0 /\ writer = FALSE /\ pendingWriters = 0

-----------------------------------------------------------------------------
(* Acquiring *)

\* Mutant: readers ignore the writers that wait.
ReadFree_NoPriority == ~writer

\* Mutant: a reader looks at the waiting writers only.
ReadFree_IgnoresWriter == pendingWriters = 0

ReadFree == ~writer /\ pendingWriters = 0
WriteFree == ~writer /\ readers = 0

Read(t) ==
    /\ t \in ReadTasks /\ pc[t] \in {"idle", "readWoken"}
    /\ \/ /\ ReadFree
          /\ readers' = readers + 1 /\ pc' = [pc EXCEPT ![t] = "reading"]
       \/ /\ ~ReadFree
          /\ pc' = [pc EXCEPT ![t] = "readSleep"] /\ UNCHANGED readers
    /\ UNCHANGED <<writer, pendingWriters>>

\* A writer is pending from its first look at the lock until it has it.
Write(t) ==
    /\ t \in WriteTasks /\ pc[t] = "idle"
    /\ \/ /\ WriteFree
          /\ writer' = TRUE /\ pc' = [pc EXCEPT ![t] = "writing"]
          /\ UNCHANGED pendingWriters
       \/ /\ ~WriteFree
          /\ pendingWriters' = pendingWriters + 1 /\ pc' = [pc EXCEPT ![t] = "writeSleep"]
          /\ UNCHANGED writer
    /\ UNCHANGED readers

ResumeWrite(t) ==
    /\ t \in WriteTasks /\ pc[t] = "writeWoken"
    /\ \/ /\ WriteFree
          /\ writer' = TRUE /\ pendingWriters' = pendingWriters - 1
          /\ pc' = [pc EXCEPT ![t] = "writing"]
       \/ /\ ~WriteFree
          /\ pc' = [pc EXCEPT ![t] = "writeSleep"]
          /\ UNCHANGED <<writer, pendingWriters>>
    /\ UNCHANGED readers

-----------------------------------------------------------------------------
(* Releasing *)

\* Condition.notify_all
NotifyAll(stage) ==
    [t \in Tasks |-> CASE stage[t] = "readSleep"  -> "readWoken"
                       [] stage[t] = "writeSleep" -> "writeWoken"
                       [] OTHER                   -> stage[t]]

\* Mutant: the last reader does not notify.
ReleaseRead_Silent(t) ==
    /\ pc[t] = "reading"
    /\ readers' = readers - 1
    /\ pc' = [pc EXCEPT ![t] = "idle"]
    /\ UNCHANGED <<writer, pendingWriters>>

\* Only the last reader wakes anybody.
ReleaseRead(t) ==
    /\ pc[t] = "reading"
    /\ readers' = readers - 1
    /\ LET left == [pc EXCEPT ![t] = "idle"]
       IN pc' = IF readers' = 0 THEN NotifyAll(left) ELSE left
    /\ UNCHANGED <<writer, pendingWriters>>

ReleaseWrite(t) ==
    /\ pc[t] = "writing"
    /\ writer' = FALSE
    /\ pc' = NotifyAll([pc EXCEPT ![t] = "idle"])
    /\ UNCHANGED <<readers, pendingWriters>>

\* Mutant: a cancelled writer stays pending.
StopsPending_Never(t) == 0

\* The finally clause of write(): a writer that gives up is no longer pending.
StopsPending(t) == IF pc[t] \in {"writeSleep", "writeWoken"} THEN 1 ELSE 0

\* A cancellation, or the timeout of the ..._with_timeout variants, raised in
\* wait().  The code notifies nobody; asyncio itself may notify one task.
Abandon(t) ==
    /\ pc[t] \in {"readSleep", "readWoken", "writeSleep", "writeWoken"}
    /\ pendingWriters' = pendingWriters - StopsPending(t)
    /\ LET left == [pc EXCEPT ![t] = "idle"]
           asleep == Asleep \ {t}
       IN IF NotifyOnCancel /\ asleep # {}
          THEN \E u \in asleep : pc' = [left EXCEPT ![u] = NotifyAll(left)[u]]
          ELSE pc' = left
    /\ UNCHANGED <<readers, writer>>

Step(t) == Read(t) \/ Write(t) \/ ResumeWrite(t) \/ ReleaseRead(t) \/ ReleaseWrite(t)

Next == \E t \in Tasks : Step(t) \/ Abandon(t)

\* The event loop runs every task that is ready, and no caller keeps the lock.
Resumes(t) == (pc[t] = "readWoken" /\ Read(t)) \/ ResumeWrite(t)
Fairness == \A t \in Tasks : /\ WF_vars(Resumes(t))
                             /\ WF_vars(ReleaseRead(t)) /\ WF_vars(ReleaseWrite(t))

Spec == Init /\ [][Next]_vars
FairSpec == Spec /\ Fairness

-----------------------------------------------------------------------------
(* Properties *)

\* rwlock.py: the counters the properties readers, is_write_locked and
\* pending_writers report are exactly the tasks in those positions, whatever
\* was cancelled on the way.
CountersExact ==
    /\ readers = Cardinality(Reading)
    /\ writer <=> Writing # {}
    /\ pendingWriters = Cardinality(Pending)

Abstract == INSTANCE AbstractRWLock WITH reading <- Reading, writing <- Writing

\* The lock promises what a read-write lock promises.
ImplementsAbstract == Abstract!Spec

\* Nobody sleeps beside a lock that is free and that no woken task will look at:
\* every release that frees the lock wakes all.
NoLostWakeup == Asleep # {} => writer \/ readers > 0 \/ Woken # {}

\* A sleeping writer has a holder to wait for.
WriterSleepsBehindHolder == At({"writeSleep"}) # {} => writer \/ readers > 0

\* read() and write() block while the lock is taken, or promised to a writer, and
\* not for ever otherwise: whenever the lock keeps becoming free, whoever sleeps is
\* woken, whatever is cancelled on the way.
SleepersAreWoken ==
    [](<>(~writer /\ readers = 0)) => \A t \in Tasks : t \in Asleep ~> t \notin Asleep

\* Priority against starvation by readers: however many readers come, go and give
\* up, a writer that waits gets the lock, gives up itself, or is overtaken by
\* another writer.
WriterServed ==
    \A t \in WriteTasks :
        pc[t] = "writeSleep" ~> \/ pc[t] \in {"writing", "idle"}
                                \/ \E u \in WriteTasks \ {t} : pc[u] = "writing"
=============================================================================

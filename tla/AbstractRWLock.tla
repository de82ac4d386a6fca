---------------------------- MODULE AbstractRWLock ----------------------------
(***************************************************************************)
(* What a read-write lock promises its callers: any number of readers, or  *)
(* one writer.                                                             *)
(***************************************************************************)
CONSTANTS ReadTasks, WriteTasks

VARIABLES reading,  \* tasks inside lock.read()
          writing   \* tasks inside lock.write()

Init == reading = {} /\ writing = {}

Read(t) ==
    /\ t \notin reading \cup writing /\ writing = {}
    /\ reading' = reading \cup {t} /\ UNCHANGED writing

Write(t) ==
    /\ t \notin reading \cup writing /\ reading = {} /\ writing = {}
    /\ writing' = {t} /\ UNCHANGED reading

Leave(t) ==
    /\ t \in reading \cup writing
    /\ reading' = reading \ {t} /\ writing' = writing \ {t}

Next ==
    \/ \E t \in ReadTasks : Read(t)
    \/ \E t \in WriteTasks : Write(t)
    \/ \E t \in ReadTasks \cup WriteTasks : Leave(t)

Spec == Init /\ [][Next]_<<reading, writing>>
=============================================================================

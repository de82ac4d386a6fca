---------------------------- MODULE HITLPersistence ----------------------------
(***************************************************************************)
(* A question to the user, kept in the database                            *)
(* (security_pkg/interaction/hitl_persistence.py).  Every call runs in a   *)
(* thread and a session of its own: it reads the row, asks whether it is   *)
(* pending, and writes the columns it has changed by id.  The cleanup is   *)
(* one UPDATE.  Questions do not interact: there is one row.               *)
(***************************************************************************)
EXTENDS Integers

CONSTANTS Clerks  \* calls of answer_request and cancel_request

VARIABLES status,    \* of the row
          answer,    \* the call whose answer the row has
          overdue,   \* expires_at has passed
          call,      \* what each call is about to write
          succeeded  \* what has told its caller that it settled the request

row == <<status, answer>>
vars == <<row, overdue, call, succeeded>>

Cleanup == "cleanup"
Nobody == "nobody"

Init ==
    /\ status = "none" /\ answer = Nobody /\ overdue = FALSE
    /\ call = [c \in Clerks |-> "idle"] /\ succeeded = {}

CreateRequest ==
    /\ status = "none" /\ status' = "pending"
    /\ UNCHANGED <<answer, overdue, call, succeeded>>

\* A row that is there.  Mutant: its status is not asked for.
Open_Any == status # "none"

\* The row is pending; that it is overdue does not matter.
Open == status = "pending"

\* The look; a call that finds the row settled returns and has changed nothing.
Find(c, does) ==
    /\ call[c] = "idle" /\ Open
    /\ call' = [call EXCEPT ![c] = does]
    /\ UNCHANGED <<row, overdue, succeeded>>

UnderWay == {c \in Clerks : call[c] \in {"answered", "cancelled"}}

\* The commit.  What has become of the row since the look is not asked, and a
\* cancellation leaves the column of the answer alone.
Commits(c) == status' = call[c] /\ answer' = IF call[c] = "answered" THEN c ELSE answer

Write(c) ==
    /\ c \in UnderWay /\ Commits(c)
    /\ succeeded' = succeeded \cup {c}
    /\ call' = [call EXCEPT ![c] = "ended"]
    /\ UNCHANGED overdue

\* The database refuses the commit, or its answer is lost, or the refresh that
\* follows raises: the exception is the caller's, whatever the row has become.
Refused(c) ==
    /\ c \in UnderWay /\ (Commits(c) \/ UNCHANGED row)
    /\ call' = [call EXCEPT ![c] = "ended"]
    /\ UNCHANGED <<overdue, succeeded>>

RunsOut == ~overdue /\ status # "none" /\ overdue' = TRUE
           /\ UNCHANGED <<row, call, succeeded>>

CleanupExpired ==
    /\ Open /\ overdue
    /\ status' = "expired" /\ succeeded' = succeeded \cup {Cleanup}
    /\ UNCHANGED <<answer, overdue, call>>

Next ==
    \/ CreateRequest \/ RunsOut \/ CleanupExpired
    \/ \E c \in Clerks : \/ Write(c) \/ Refused(c)
                         \/ \E does \in {"answered", "cancelled"} : Find(c, does)

Spec == Init /\ [][Next]_vars

-----------------------------------------------------------------------------
(* Properties *)

\* Once a call has reported that it settled the request, only calls that had looked
\* before may still write over it: one that begins later fails, and when none is
\* under way the row stays as it is, cleanup or not.
SettledIsFinal ==
    [][succeeded # {} =>
          /\ \A c \in Clerks : call[c] = "idle" => call'[c] = "idle"
          /\ UnderWay = {} => UNCHANGED row]_vars
=============================================================================

--------------------------- MODULE WorkflowRegistry ---------------------------
(***************************************************************************)
(* One workflow in RedisWorkflowRegistry (workflow/redis_registry.py), as  *)
(* the HTTP routes use it (api/cerebro/routes/workflow.py): one server     *)
(* starts and runs it, any server may be asked to stop it.  The record is  *)
(* in Redis, shared by all, and after a failure or without a connection in *)
(* the memory of one server.  update_status reads the record and writes it *)
(* back, with awaits in between.                                           *)
(***************************************************************************)
EXTENDS Integers

CONSTANTS Servers, Home,  \* Home runs the workflow
          Stops           \* requests to stop it

VARIABLES connected,  \* the servers that are connected to Redis
          redis,      \* the status in Redis, or Absent
          memory,     \* the status in every server's memory
          runner,     \* where the workflow's background task is
          stop,       \* where every stop request is, and on which server
          update,     \* per process, the update_status it is in
          faulty      \* processes of whose last update a call of Redis failed

vars == <<connected, redis, memory, runner, stop, update, faulty>>

Absent == "absent"
Terminal == {"completed", "failed", "cancelled"}
Runner == "runner"
Processes == Stops \cup {Runner}
NoUpdate == [at |-> "none", status |-> Absent]

\* What the constants are; MCTables, which instantiates this module, assumes it.
ServersAssumption == Home \in Servers /\ Runner \notin Stops

Init ==
    /\ connected = {} /\ redis = Absent
    /\ memory = [s \in Servers |-> Absent]
    /\ runner = "none"
    /\ stop = [r \in Stops |-> [at |-> "none", server |-> Home]]
    /\ update = [p \in Processes |-> NoUpdate]
    /\ faulty = {}

Server(p) == IF p = Runner THEN Home ELSE stop[p].server

\* connect: a server that could not is asked again at the next request.
Connects(s) == connected' = connected \/ (s \notin connected /\ connected' = connected \cup {s})

-----------------------------------------------------------------------------
(* update_status, of the process p *)

Updates(p, status) == update' = [update EXCEPT ![p] = [at |-> "get", status |-> status]]

Fault(p) == faulty' = faulty \cup {p}
NoFault(p) == faulty' = faulty \ {p}

\* get_workflow found the record in Redis.
Found(p) ==
    /\ update[p].at = "get" /\ Server(p) \in connected /\ redis # Absent
    /\ update' = [update EXCEPT ![p].at = "set"]
    /\ NoFault(p)
    /\ UNCHANGED <<connected, redis, memory, runner, stop>>

\* It is taken from memory, as the object that is kept there: it changes at once.
FoundInMemory(p) ==
    /\ update[p].at = "get"
    /\ LET s == Server(p)
       IN /\ memory[s] # Absent
          /\ \/ s \in connected /\ redis = Absent /\ NoFault(p)
             \/ s \in connected /\ Fault(p)
             \/ s \notin connected /\ NoFault(p)
          /\ memory' = [memory EXCEPT ![s] = update[p].status]
          /\ update' = [update EXCEPT ![p] = IF s \in connected THEN [@ EXCEPT !.at = "set"] ELSE NoUpdate]
    /\ UNCHANGED <<connected, redis, runner, stop>>

\* None: the update is dropped.
NotFound(p) ==
    /\ update[p].at = "get" /\ memory[Server(p)] = Absent
    /\ \/ Server(p) \in connected /\ redis = Absent /\ NoFault(p)
       \/ Server(p) \in connected /\ Fault(p)
       \/ Server(p) \notin connected /\ NoFault(p)
    /\ update' = [update EXCEPT ![p] = NoUpdate]
    /\ UNCHANGED <<connected, redis, memory, runner, stop>>

\* The whole record is written, or kept in memory when that fails; in both, when the
\* answer is lost or the call after it fails (the set of the active ones).
Stored(p) ==
    /\ update[p].at = "set"
    /\ \/ /\ redis' = update[p].status /\ UNCHANGED faulty
          /\ UNCHANGED memory \/ memory' = [memory EXCEPT ![Server(p)] = update[p].status]
       \/ /\ memory' = [memory EXCEPT ![Server(p)] = update[p].status]
          /\ Fault(p) /\ UNCHANGED redis
    /\ update' = [update EXCEPT ![p] = NoUpdate]
    /\ UNCHANGED <<connected, runner, stop>>

-----------------------------------------------------------------------------
(* The routes *)

\* start_workflow, up to its answer: the background task begins afterwards.
StartWorkflow ==
    /\ runner = "none" /\ runner' = "queued"
    /\ Connects(Home)
    /\ \/ /\ Home \in connected' /\ redis' = "pending"
          /\ UNCHANGED memory \/ memory' = [memory EXCEPT ![Home] = "pending"]
       \/ memory' = [memory EXCEPT ![Home] = "pending"] /\ UNCHANGED redis
    /\ UNCHANGED <<stop, update, faulty>>

\* run_workflow
Begins ==
    /\ runner = "queued" /\ runner' = "running" /\ Updates(Runner, "running")
    /\ UNCHANGED <<connected, redis, memory, stop, faulty>>

\* Mutant: an exception ends the task without a status.
Ends_FailureUnseen ==
    /\ runner = "running" /\ update[Runner] = NoUpdate
    /\ \/ runner' = "reporting" /\ Updates(Runner, "completed")
       \/ runner' = "ended" /\ UNCHANGED update
    /\ UNCHANGED <<connected, redis, memory, stop, faulty>>

\* process_turn has returned, or something has raised.
Ends ==
    /\ runner = "running" /\ update[Runner] = NoUpdate
    /\ \/ runner' = "reporting" /\ Updates(Runner, "completed")
       \/ runner' = "ended" /\ Updates(Runner, "failed")
    /\ UNCHANGED <<connected, redis, memory, stop, faulty>>

\* The event that follows the status may raise, and the workflow has failed then.
Reports ==
    /\ runner = "reporting" /\ update[Runner] = NoUpdate /\ runner' = "ended"
    /\ UNCHANGED update \/ Updates(Runner, "failed")
    /\ UNCHANGED <<connected, redis, memory, stop, faulty>>

\* stop_workflow: the request reaches a server, and the status is looked at.
\* What get_workflow answers is the record in Redis, or else in memory.
AskStop(r, s) ==
    /\ stop[r].at = "none" /\ runner # "none"
    /\ Connects(s)
    /\ stop' = [stop EXCEPT ![r] = [at |-> "asked", server |-> s]]
    /\ UNCHANGED <<redis, memory, runner, update, faulty>>

Answers(s) ==
    (IF s \in connected /\ redis # Absent THEN {redis} ELSE {}) \cup {memory[s]}

\* It is stopped when it is pending or running; otherwise 404 or 400.
LookAtStatus(r) ==
    /\ stop[r].at = "asked"
    /\ \E status \in Answers(stop[r].server) :
          IF status \in {"pending", "running"}
          THEN Updates(r, "cancelled") /\ stop' = [stop EXCEPT ![r].at = "stopping"]
          ELSE stop' = [stop EXCEPT ![r].at = "refused"] /\ UNCHANGED update
    /\ UNCHANGED <<connected, redis, memory, runner, faulty>>

Update(p) == Found(p) \/ FoundInMemory(p) \/ NotFound(p) \/ Stored(p)

Next ==
    \/ StartWorkflow \/ Begins \/ Ends \/ Reports
    \/ \E r \in Stops : LookAtStatus(r) \/ \E s \in Servers : AskStop(r, s)
    \/ \E p \in Processes : Update(p)

Spec == Init /\ [][Next]_vars

-----------------------------------------------------------------------------
(* Properties *)

\* What get_workflow answers on the workflow's server, when Redis answers.
Status == IF Home \in connected /\ redis # Absent THEN redis ELSE memory[Home]

\* A workflow that has ended says so, whoever has tried to stop it meanwhile, on
\* whichever server, and whatever has failed before, unless Redis failed in the
\* last update the workflow itself has made.
EndsVisibly ==
    runner = "ended" /\ (\A p \in Processes : update[p] = NoUpdate) /\ Runner \notin faulty =>
        Status \in Terminal
=============================================================================

---------------------------- MODULE MCHiveProofs ------------------------------
(***************************************************************************)
(* The hive mind: no crash, resumption, retry or rollback makes a saga     *)
(* forget a phase it has flagged as done (SagaForgetsNothing), its file    *)
(* goes away with a success alone (FileOutlivesFailures), and no phase is  *)
(* entered against its guard (GuardsAlwaysKept).  The evidence jobs: what  *)
(* has ended stays, and is no success once it was to be cancelled          *)
(* (CancelledIsFinal).  HiveSafe is all of it for the sum that is checked. *)
(***************************************************************************)
EXTENDS MCHive, TLAPS

-----------------------------------------------------------------------------
(* Sagas: a flag is backed by the checkpoint of its phase, in memory and   *)
(* in the file.  DurableFirst needs two facts more to be inductive: what a *)
(* rollback cuts is backed, and a phase about to be flagged is in the file. *)

Flaggable == Phases \ {"retry", "consolidation"}

IInv ==
    /\ Backed(saga.flags, saga.cps)
    /\ Backed(file.flags, file.cps)
    /\ at[1] \in Phases => Backed(saga.flags, file.cps)
    /\ at[1] = "rollback" => DOMAIN saga.cps # {}
    /\ \A p \in Flaggable : at = <<p, "flag">> => p \in DOMAIN file.cps /\ p \in DOMAIN saga.cps

\* Flags that stand for no phase, and fewer flags, need nothing more.
LEMMA BackedByMore ==
    ASSUME NEW flags, NEW cps, NEW more, Backed(flags, cps), DOMAIN cps \subseteq DOMAIN more
    PROVE  Backed(flags, more)
  BY DEF Backed

\* A phase's flag is its own: one more is backed by its checkpoint.
LEMMA BackedFlag ==
    ASSUME NEW flags, NEW cps, NEW p \in Flaggable, Backed(flags, cps), p \in DOMAIN cps
    PROVE  Backed(flags \cup {FlagOf[p]}, cps)
  BY DEF Backed, FlagOf, Flaggable, Phases

LEMMA BackedFailure ==
    ASSUME NEW flags, NEW cps, Backed(flags, cps)
    PROVE  Backed(flags \cup {"execution_failed"}, cps)
  BY DEF Backed, FlagOf

\* A rollback takes the flags of the phases whose checkpoints it takes.
LEMMA BackedRollback ==
    ASSUME NEW flags, NEW cps, NEW p, Backed(flags, cps)
    PROVE  Backed(ResetAfter(flags, p), [q \in DOMAIN cps \ After(p) |-> cps[q]])
  BY DEF Backed, ResetAfter

-----------------------------------------------------------------------------
(* The steps *)

\* Where process_task may go without touching the saga or its file.
Places == (Phases \X {"run", "save"}) \cup {Idle}

LEMMA PhasePlaces ==
    /\ Idle \in Places
    /\ \A p \in Phases : <<p, "run">> \in Places /\ <<p, "save">> \in Places
    /\ \A p \in Phases : <<p, "run">>[1] \in Phases
  BY DEF Places

LEMMA FollowsIsPlace == ASSUME NEW p \in Flaggable PROVE Follows(p) \in Places
<1>1. {"debate", "architecture", "execution", "consolidation", "retry"} \subseteq Phases
  BY DEF Phases
<1>2. p \in {"analysis", "debate", "architecture", "execution", "diagnosis"}
  BY DEF Flaggable, Phases
<1> QED BY <1>1, <1>2, PhasePlaces DEF Follows

LEMMA PlacesFlagNothing ==
    ASSUME NEW place \in Places
    PROVE  /\ place[1] \in Phases \/ place[1] = "idle"
           /\ place[1] # "rollback"
           /\ \A p \in Flaggable : place # <<p, "flag">>
  BY DEF Places, Idle, Phases

\* Steps that leave the saga and its file alone.
LEMMA MovesPreserve ==
    ASSUME IInv, saga' = saga, file' = file, at' \in Places, at[1] \in Phases \/ at' = Idle
    PROVE  IInv'
  BY PlacesFlagNothing DEF IInv, Idle, Phases

LEMMA CheckpointPreserves ==
    ASSUME IInv, NEW p \in Flaggable, Checkpoint(p)
    PROVE  IInv'
<1>1. saga'.flags = saga.flags /\ DOMAIN saga.cps \cup {p} = DOMAIN saga'.cps /\ file' = saga'
  BY DEF Checkpoint, Checkpointed
<1>2. Backed(saga'.flags, saga'.cps)
  BY <1>1, BackedByMore DEF IInv
<1>3. at' = <<p, "flag">>
  BY DEF Checkpoint
<1> QED BY <1>1, <1>2, <1>3 DEF IInv

LEMMA FlagPreserves ==
    ASSUME IInv, NEW p \in Flaggable, Flag(p)
    PROVE  IInv'
<1>1. at = <<p, "flag">> /\ at[1] \in Phases
  BY DEF Flag, Flaggable
<1>2. saga'.flags = saga.flags \cup {FlagOf[p]} /\ saga'.cps = saga.cps /\ file' = file
  BY DEF Flag, Flagged
<1>3. Backed(saga'.flags, saga'.cps) /\ Backed(saga'.flags, file'.cps)
  BY <1>1, <1>2, BackedFlag DEF IInv
<1>4. at' \in Places
  <2>1. at' = Follows(p) \/ at' = Idle
    BY DEF Flag, Answers
  <2>2. Follows(p) \in Places
    BY FollowsIsPlace
  <2> QED BY <2>1, <2>2, PhasePlaces
<1> QED BY <1>2, <1>3, <1>4, PlacesFlagNothing DEF IInv

LEMMA JudgedPreserves ==
    ASSUME IInv, NEW success \in BOOLEAN, NEW diagnose \in BOOLEAN, at[1] \in Phases, Judged(success, diagnose)
    PROVE  IInv'
<1>1. file' = file /\ saga'.cps = saga.cps
      /\ (saga'.flags = saga.flags \/ saga'.flags = saga.flags \cup {"execution_failed"})
  BY DEF Judged, Flagged
<1>2. Backed(saga'.flags, saga'.cps) /\ Backed(saga'.flags, file'.cps)
  BY <1>1, BackedFailure DEF IInv
<1>3. at' \in Places
  <2>1. at' \in {<<"execution", "save">>, <<"diagnosis", "run">>, <<"consolidation", "run">>}
    BY DEF Judged
  <2> QED BY <2>1, PhasePlaces DEF Phases
<1> QED BY <1>1, <1>2, <1>3, PlacesFlagNothing DEF IInv

LEMMA NoFileBacked == Backed(NoFile.flags, NoFile.cps) /\ Backed(NewSaga.flags, NewSaga.cps)
                      /\ \A cps : Backed(NewSaga.flags, cps)
  BY DEF Backed, NoFile, NewSaga, FlagOf

LEMMA StartPreserves == ASSUME IInv, Start PROVE IInv'
<1>1. saga' = NewSaga \/ saga' = file
  BY DEF Start
<1>2. file' = file /\ at' = <<"analysis", "run">>
  BY DEF Start
<1>3. Backed(saga'.flags, saga'.cps) /\ Backed(saga'.flags, file'.cps)
  BY <1>1, <1>2, NoFileBacked DEF IInv
<1> QED BY <1>2, <1>3 DEF IInv

LEMMA AfterIsLater == \A p : p \notin After(p)
  BY DEF After, PhaseOrder, Phases

LEMMA RollbackPreserves == ASSUME IInv, NEW p \in Phases, Rollback(p) PROVE IInv'
<1>1. /\ saga'.flags = ResetAfter(saga.flags, p)
      /\ saga'.cps = [q \in DOMAIN saga.cps \ After(p) |-> saga.cps[q]]
      /\ file' = file /\ at' = <<"rollback", "save">>
  BY DEF Rollback, RolledBack
<1>2. Backed(saga'.flags, saga'.cps)
  BY <1>1, BackedRollback DEF IInv
<1>3. p \in DOMAIN saga'.cps
  BY <1>1, AfterIsLater DEF Rollback
<1> QED BY <1>1, <1>2, <1>3 DEF IInv, Phases

LEMMA RollbackWrittenPreserves == ASSUME IInv, RollbackWritten PROVE IInv'
  BY DEF IInv, RollbackWritten, Idle, Phases

LEMMA ConsolidatePreserves == ASSUME IInv, NEW insight, Consolidate(insight) PROVE IInv'
<1>1. saga' = saga /\ at' \in {Idle, Reporting} /\ (file' = file \/ file' = NoFile)
  BY DEF Consolidate, Answers
<1>2. Backed(file'.flags, file'.cps)
  BY <1>1, NoFileBacked DEF IInv
<1> QED BY <1>1, <1>2 DEF IInv, Idle, Reporting, Phases

LEMMA ReportPreserves == ASSUME IInv, Report PROVE IInv'
  BY DEF IInv, Report, Answers, Idle, Phases

LEMMA CrashPreserves == ASSUME IInv, Crash PROVE IInv'
<1>1. saga' = NewSaga /\ at' = Idle /\ file' = file
  BY DEF Crash
<1> QED BY <1>1, NoFileBacked DEF IInv, Idle, Phases

LEMMA StepPreserves == IInv /\ [Next]_vars => IInv'
<1> SUFFICES ASSUME IInv, [Next]_vars PROVE IInv'
  OBVIOUS
<1>1. CASE UNCHANGED vars
  BY <1>1 DEF IInv, vars
<1>2. CASE Start
  BY <1>2, StartPreserves
<1>3. CASE Works
  <2>1. CASE \E p \in Flaggable : Checkpoint(p) \/ Flag(p)
    BY <2>1, CheckpointPreserves, FlagPreserves
  <2>2. CASE \/ \E debate \in BOOLEAN : Analyse(debate)
             \/ \E turns \in 0 .. MaxTurns : Debate(turns)
             \/ Architect \/ Diagnose \/ Retry
    <3>1. saga' = saga /\ file' = file
      BY <2>2 DEF Analyse, Debate, Architect, Diagnose, Retry
    <3>2. \E p \in Phases : at = <<p, "run">>
      BY <2>2 DEF Analyse, Debate, Architect, Diagnose, Retry, Phases
    <3>3. at' \in Places
      <4>2. CASE \/ \E debate \in BOOLEAN : Analyse(debate)
                 \/ \E turns \in 0 .. MaxTurns : Debate(turns)
        BY PhasePlaces, <4>2 DEF Analyse, Debate, Answers, Phases
      <4>3. CASE Architect \/ Diagnose
        BY PhasePlaces, <4>3 DEF Architect, Diagnose, Answers, Phases
      <4>4. CASE Retry
        BY PhasePlaces, <4>4 DEF Retry, Again, Answers, Phases
      <4> QED BY <2>2, <4>2, <4>3, <4>4
    <3> QED BY <3>1, <3>2, <3>3, PhasePlaces, MovesPreserve
  <2>3. CASE \E s \in Plan : \/ Unmet(s) \/ Reuse(s)
                             \/ \E outcome \in {"success", "warning", "error"} : Run(s, outcome)
    <3>1. saga' = saga /\ file' = file /\ at' = at
      BY <2>3 DEF Unmet, Reuse, Run
    <3> QED BY <3>1 DEF IInv
  <2>6. CASE (\E s \in Plan : Unaffordable(s)) \/ (\E poor \in BOOLEAN : Executed(poor)) \/ BrokenOff
    <3>1. at[1] \in Phases
      <4>1. at = <<"execution", "run">>
        BY <2>6 DEF Unaffordable, Executed, BrokenOff, Ready, Executing
      <4> QED BY <4>1 DEF Phases
    <3> NoErrors \in BOOLEAN
      BY DEF NoErrors
    <3>2. CASE \E s \in Plan : Unaffordable(s)
      BY <3>1, <3>2, JudgedPreserves DEF Unaffordable
    <3>3. CASE \E poor \in BOOLEAN : Executed(poor)
      <4>1. PICK poor \in BOOLEAN : Executed(poor)
        BY <3>3
      <4> DEFINE diagnose == poor \/ \E s \in Plan : loop.steps[s] \in {"error", "unmet"}
      <4>2. diagnose \in BOOLEAN
        OBVIOUS
      <4>3. Judged(NoErrors, diagnose)
        BY <4>1 DEF Executed
      <4> QED BY <3>1, <4>2, <4>3, JudgedPreserves
    <3>4. CASE BrokenOff
      BY <3>1, <3>4, JudgedPreserves DEF BrokenOff
    <3> QED BY <2>6, <3>2, <3>3, <3>4
  <2>4. CASE \E insight \in BOOLEAN : Consolidate(insight)
    BY <2>4, ConsolidatePreserves
  <2>5. CASE RollbackWritten \/ Report
    BY <2>5, RollbackWrittenPreserves, ReportPreserves
  <2> QED BY <1>3, <2>1, <2>2, <2>3, <2>4, <2>5, <2>6 DEF Works, Flaggable
<1>4. CASE Raises
  BY <1>4, MovesPreserve DEF Raises, Answers, Places
<1>5. CASE \E p \in Phases : Rollback(p)
  BY <1>5, RollbackPreserves
<1>6. CASE \E s \in Plan : Expire(s)
  BY <1>6 DEF Expire, IInv
<1>7. CASE Crash
  BY <1>7, CrashPreserves
<1> QED BY <1>1, <1>2, <1>3, <1>4, <1>5, <1>6, <1>7 DEF Next

\* Whatever crashes, resumptions, retries and rollbacks follow each other, a phase
\* flagged as done in memory or on disk has its checkpoint on disk.
THEOREM SagaForgetsNothing == Spec => []DurableFirst
<1>1. Init => IInv
  BY NoFileBacked DEF Init, IInv, Idle, Phases
<1>2. IInv => DurableFirst
  BY DEF IInv, DurableFirst
<1> QED BY <1>1, <1>2, StepPreserves, PTL DEF Spec

\* The file of a task that was checkpointed goes away when an attempt has succeeded,
\* and at no other time.
THEOREM FileOutlivesFailures == Spec => KeptUntilSuccess
<1>1. Init => IInv
  BY NoFileBacked DEF Init, IInv, Idle, Phases
<1>2. IInv /\ [Next]_vars => [file # NoFile /\ file' = NoFile => loop.success]_vars
  <2> SUFFICES ASSUME IInv, Next, file # NoFile, file' = NoFile PROVE loop.success
    OBVIOUS
  <2>1. DOMAIN file'.cps = {}
    BY DEF NoFile, NoCheckpoints
  <2>2. ASSUME NEW p \in Flaggable, Checkpoint(p) PROVE FALSE
    BY <2>1, <2>2 DEF Checkpoint, Checkpointed
  <2>3. CASE \E insight \in BOOLEAN : Consolidate(insight)
    BY <2>3 DEF Consolidate
  <2>4. CASE RollbackWritten
    BY <2>1, <2>4 DEF RollbackWritten, IInv
  <2>5. CASE file' = file
    BY <2>5
  <2>6. \/ \E p \in Flaggable : Checkpoint(p)
        \/ \E insight \in BOOLEAN : Consolidate(insight)
        \/ RollbackWritten
        \/ file' = file
    BY DEF Next, Works, Flaggable, Start, Flag, Analyse, Debate, Architect, Unmet, Reuse,
           Unaffordable, Executed, BrokenOff, Judged, Run, Diagnose, Retry, Report, Raises,
           Rollback, Expire, Crash
  <2> QED BY <2>2, <2>3, <2>4, <2>5, <2>6
<1> QED BY <1>1, <1>2, StepPreserves, PTL DEF Spec, KeptUntilSuccess

-----------------------------------------------------------------------------
(* The types, and the guards that nobody asks *)

\* max_attempts and MAX_RETRIES, two constants in two files.
LimitsFit == MaxRetries < MaxAttempts

\* The attempts and the retries are counted together, and once the architecture is
\* approved the saga keeps that flag through every attempt.
GInv ==
    /\ TypeOK
    /\ loop.attempt = loop.retries
    /\ GuardsKept
    /\ at[1] \in {"execution", "diagnosis", "retry"} => "architecture_approved" \in saga.flags

LEMMA NewLoopTyped == NewLoop \in Loops /\ NewLoop.attempt = NewLoop.retries
<1>1. [s \in Plan |-> NotRun] \in [Plan -> Outcomes]
  BY DEF Outcomes
<1>2. 0 \in 0 .. MaxAttempts /\ 0 \in 0 .. MaxRetries
  BY HiveAssumption
<1> QED BY <1>1, <1>2 DEF NewLoop, Loops

LEMMA IdleIsGuarded == Guard("idle") /\ Guard("analysis") /\ Guard("rollback")
  BY DEF Guard

\* The steps that keep the flags, the counters and the place.
LEMMA StayGuarded ==
    ASSUME GInv, TypeOK', at' = at, saga' = saga,
           loop'.attempt = loop.attempt, loop'.retries = loop.retries
    PROVE  GInv'
<1>1. \A p : Guard(p)' <=> Guard(p)
  BY DEF Guard
<1> QED BY <1>1 DEF GInv, GuardsKept

AllPlaces == (Phases \cup {"idle", "report", "rollback"}) \X {"run", "save", "flag"}

LEMMA PlacesTyped ==
    /\ Places \subseteq AllPlaces /\ Idle \in AllPlaces
    /\ <<"rollback", "save">> \in AllPlaces /\ Reporting \in AllPlaces
    /\ \A p \in Phases : <<p, "flag">> \in AllPlaces
  BY DEF Places, AllPlaces, Idle, Reporting

\* Answers ends the task: nothing is guarded then.
LEMMA AnswersGuarded ==
    ASSUME GInv, NEW r \in Results, Answers(r), dedup' = dedup, crashes' = crashes,
           DOMAIN saga'.cps \cup DOMAIN file'.cps \subseteq Phases
    PROVE  GInv'
<1>1. at' = Idle /\ at'[1] = "idle" /\ at' \in AllPlaces
  BY PlacesTyped DEF Answers, Idle
<1>2. loop' \in Loops /\ loop'.attempt = loop'.retries /\ result' \in Results
  BY NewLoopTyped DEF Answers
<1>3. TypeOK'
  BY <1>1, <1>2 DEF GInv, TypeOK, AllPlaces
<1>4. GuardsKept'
  BY <1>1 DEF GuardsKept, Guard
<1> QED BY <1>1, <1>2, <1>3, <1>4 DEF GInv

LEMMA StartGuarded == ASSUME GInv, Start PROVE GInv'
<1>1. at' = <<"analysis", "run">> /\ at'[1] = "analysis" /\ at' \in AllPlaces
  BY DEF Start, AllPlaces, Phases
<1>2. loop' \in Loops /\ loop'.attempt = loop'.retries /\ result' \in Results
  BY NewLoopTyped DEF Start, Results
<1>3. DOMAIN saga'.cps \cup DOMAIN file'.cps \subseteq Phases
  BY DEF Start, NewSaga, NoCheckpoints, GInv, TypeOK
<1>4. TypeOK'
  BY <1>1, <1>2, <1>3 DEF Start, GInv, TypeOK, AllPlaces
<1>5. GuardsKept'
  BY <1>1 DEF GuardsKept, Guard
<1> QED BY <1>1, <1>2, <1>4, <1>5 DEF GInv

LEMMA CheckpointGuarded == ASSUME GInv, NEW p \in Flaggable, Checkpoint(p) PROVE GInv'
<1>1. saga'.flags = saga.flags /\ DOMAIN saga'.cps = DOMAIN saga.cps \cup {p} /\ file' = saga'
  BY DEF Checkpoint, Checkpointed
<1>2. at' = <<p, "flag">> /\ at[1] = p /\ at'[1] = p /\ at'[2] = "flag" /\ p \in Phases
  BY DEF Checkpoint, Flaggable
<1>3. at' \in AllPlaces
  BY <1>2, PlacesTyped
<1>4. TypeOK'
  BY <1>1, <1>2, <1>3 DEF Checkpoint, GInv, TypeOK, AllPlaces
<1>5. GuardsKept'
  BY <1>2 DEF GuardsKept
<1>6. loop' = loop
  BY DEF Checkpoint
<1> QED BY <1>1, <1>2, <1>4, <1>5, <1>6 DEF GInv

LEMMA FlagGuarded == ASSUME GInv, NEW p \in Flaggable, Flag(p) PROVE GInv'
<1>1. /\ saga'.flags = saga.flags \cup {FlagOf[p]} /\ saga'.cps = saga.cps
      /\ file' = file /\ dedup' = dedup /\ crashes' = crashes
  BY DEF Flag, Flagged
<1>2. CASE Answers("failed")
  BY <1>1, <1>2, AnswersGuarded DEF GInv, TypeOK, Results
<1>3. CASE at' = Follows(p) /\ loop' = loop /\ result' = result
  <2>1. at' \in AllPlaces
    BY <1>3, FollowsIsPlace, PlacesTyped
  <2>2. TypeOK'
    BY <1>1, <1>3, <2>1 DEF GInv, TypeOK, AllPlaces
  <2>3. p \in {"analysis", "debate", "architecture", "execution", "diagnosis"} /\ at[1] = p
    BY DEF Flaggable, Phases, Flag
  <2>4. /\ GuardsKept'
        /\ at'[1] \in {"execution", "diagnosis", "retry"} => "architecture_approved" \in saga'.flags
    <3>1. CASE p = "analysis"
      <4>1. at'[1] = "debate" /\ "analysis_complete" \in saga'.flags
        BY <1>1, <1>3, <3>1 DEF Follows, FlagOf
      <4> QED BY <4>1 DEF Guard, GuardsKept
    <3>2. CASE p = "debate"
      <4>1. at'[1] = "architecture" /\ "debate_complete" \in saga'.flags
        BY <1>1, <1>3, <3>2 DEF Follows, FlagOf
      <4> QED BY <4>1 DEF Guard, GuardsKept
    <3>3. CASE p = "architecture"
      <4>1. at'[1] = "execution" /\ "architecture_approved" \in saga'.flags
        BY <1>1, <1>3, <3>3 DEF Follows, FlagOf
      <4> QED BY <4>1 DEF Guard, GuardsKept
    <3>4. CASE p = "execution"
      <4>1. at'[1] = "consolidation" /\ "execution_complete" \in saga'.flags
        BY <1>1, <1>3, <3>4 DEF Follows, FlagOf
      <4> QED BY <4>1 DEF Guard, GuardsKept
    <3>5. CASE p = "diagnosis"
      <4>1. at'[1] = "retry" /\ "diagnosis_complete" \in saga'.flags
        BY <1>1, <1>3, <3>5 DEF Follows, FlagOf
      <4>2. "architecture_approved" \in saga'.flags
        BY <1>1, <2>3, <3>5 DEF GInv
      <4> QED BY <4>1, <4>2 DEF Guard, GuardsKept
    <3> QED BY <2>3, <3>1, <3>2, <3>3, <3>4, <3>5
  <2> QED BY <1>3, <2>2, <2>4 DEF GInv
<1> QED BY <1>2, <1>3 DEF Flag

\* A phase has done its work: its checkpoint comes next.
LEMMA WorkedGuarded ==
    ASSUME GInv, NEW p \in Phases, at = <<p, "run">>, at' = <<p, "save">>,
           saga' = saga, file' = file, dedup' = dedup, result' = result, crashes' = crashes,
           loop' \in Loops, loop'.attempt = loop.attempt, loop'.retries = loop.retries
    PROVE  GInv'
<1>1. at[1] = p /\ at'[1] = p /\ at'[2] = "save" /\ at' \in AllPlaces
  BY PlacesTyped, PhasePlaces
<1>2. TypeOK'
  BY <1>1 DEF GInv, TypeOK, AllPlaces
<1> QED BY <1>1, <1>2 DEF GInv, GuardsKept

LEMMA JudgedGuarded ==
    ASSUME GInv, NEW success \in BOOLEAN, NEW diagnose \in BOOLEAN, at[1] = "execution",
           Judged(success, diagnose), ~success => diagnose
    PROVE  GInv'
<1>1. /\ saga'.cps = saga.cps /\ saga.flags \subseteq saga'.flags
      /\ ~success => "execution_failed" \in saga'.flags
  BY DEF Judged, Flagged
<1>2. /\ at' \in {<<"execution", "save">>, <<"diagnosis", "run">>}
      /\ at' = <<"diagnosis", "run">> => ~success
  BY DEF Judged
<1>3. at' \in AllPlaces /\ at'[1] \in {"execution", "diagnosis"}
  BY <1>2, PhasePlaces, PlacesTyped DEF Phases
<1>4. loop' \in Loops /\ loop'.attempt = loop.attempt /\ loop'.retries = loop.retries
  <2>1. NewLoop.steps \in [Plan -> Outcomes]
    BY NewLoopTyped DEF Loops
  <2>2. loop' = [loop EXCEPT !.success = success, !.steps = NewLoop.steps]
    BY DEF Judged
  <2>3. loop \in Loops
    BY DEF GInv, TypeOK
  <2> HIDE DEF NewLoop, Outcomes, Plan
  <2> QED BY <2>1, <2>2, <2>3 DEF Loops
<1>5. UNCHANGED <<file, dedup, result, crashes>>
  BY DEF Judged
<1>6. TypeOK'
  BY <1>1, <1>3, <1>4, <1>5 DEF GInv, TypeOK, AllPlaces
<1>7. GuardsKept'
  BY <1>1, <1>2 DEF GuardsKept, Guard
<1> QED BY <1>1, <1>4, <1>6, <1>7 DEF GInv

\* The one place where the limits meet: a retry that is granted is an attempt that
\* the loop still makes.
LEMMA RetryGuarded == ASSUME LimitsFit, GInv, Retry PROVE GInv'
<1>1. UNCHANGED <<saga, file, dedup, crashes>> /\ at[1] = "retry"
  BY DEF Retry
<1>2. CASE Answers("failed")
  BY <1>1, <1>2, AnswersGuarded DEF GInv, TypeOK, Results
<1>3. CASE loop.retries < MaxRetries /\ Again
  <2>1. loop \in Loops /\ loop.attempt = loop.retries
    BY DEF GInv, TypeOK
  <2>2. loop.attempt + 1 < MaxAttempts /\ loop.retries + 1 \in 0 .. MaxRetries
    BY <1>3, <2>1, HiveAssumption DEF LimitsFit, Loops
  <2>3. at' = <<"execution", "run">> /\ result' = result
    BY <1>3, <2>2 DEF Again
  <2>4. loop' \in Loops /\ loop'.attempt = loop'.retries
    <3>1. loop' = [loop EXCEPT !.attempt = @ + 1, !.retries = @ + 1]
      BY <1>3 DEF Again
    <3>2. loop.attempt + 1 \in 0 .. MaxAttempts
      BY <2>1, <2>2, HiveAssumption DEF Loops
    <3> QED BY <2>1, <2>2, <3>1, <3>2 DEF Loops
  <2>5. at' \in AllPlaces
    BY <2>3, PhasePlaces, PlacesTyped DEF Phases
  <2>6. TypeOK'
    BY <1>1, <2>3, <2>4, <2>5 DEF GInv, TypeOK, AllPlaces
  <2>7. "architecture_approved" \in saga'.flags
    BY <1>1 DEF GInv
  <2>8. GuardsKept'
    BY <2>3, <2>7 DEF GuardsKept, Guard
  <2> QED BY <2>3, <2>4, <2>6, <2>7, <2>8 DEF GInv
<1> QED BY <1>2, <1>3 DEF Retry

LEMMA RollbackGuarded == ASSUME GInv, NEW p \in Phases, Rollback(p) PROVE GInv'
<1>1. /\ at' = <<"rollback", "save">> /\ DOMAIN saga'.cps \subseteq DOMAIN saga.cps
      /\ UNCHANGED <<file, loop, dedup, result, crashes>>
  BY DEF Rollback, RolledBack
<1>2. TypeOK'
  BY <1>1, PlacesTyped DEF GInv, TypeOK, AllPlaces
<1> QED BY <1>1, <1>2 DEF GInv, GuardsKept

LEMMA AtRestGuarded ==
    ASSUME GInv, RollbackWritten \/ Report \/ Crash \/ \E insight \in BOOLEAN : Consolidate(insight)
    PROVE  GInv'
<1>1. CASE RollbackWritten
  <2>1. at' = Idle /\ file' = saga /\ UNCHANGED <<saga, loop, dedup, result, crashes>>
    BY <1>1 DEF RollbackWritten
  <2>2. TypeOK'
    BY <2>1, PlacesTyped DEF GInv, TypeOK, AllPlaces
  <2> QED BY <2>1, <2>2 DEF GInv, GuardsKept, Guard, Idle
<1>2. CASE Crash
  <2>1. /\ at' = Idle /\ saga' = NewSaga /\ file' = file /\ loop' = NewLoop /\ result' = None
        /\ dedup' = [s \in Plan |-> "new"] /\ crashes < MaxCrashes /\ crashes' = crashes + 1
    BY <1>2 DEF Crash
  <2>2. DOMAIN saga'.cps = {}
    BY <2>1 DEF NewSaga, NoCheckpoints
  <2>3. crashes' \in 0 .. MaxCrashes
    BY <2>1, HiveAssumption DEF GInv, TypeOK
  <2>4. dedup' \in [Plan -> {"new", "pending", "completed"}] /\ result' \in Results
    BY <2>1 DEF Results
  <2>5. TypeOK'
    BY <2>1, <2>2, <2>3, <2>4, PlacesTyped, NewLoopTyped DEF GInv, TypeOK, AllPlaces
  <2> QED BY <2>1, <2>5, NewLoopTyped DEF GInv, GuardsKept, Guard, Idle
<1>3. CASE \E insight \in BOOLEAN : Consolidate(insight)
  <2>1. PICK insight \in BOOLEAN : Consolidate(insight)
    BY <1>3
  <2>2. /\ Answers("failure") \/ (at' = Reporting /\ UNCHANGED <<loop, result>>)
        /\ saga' = saga /\ (file' = file \/ file' = NoFile)
        /\ dedup' = dedup /\ crashes' = crashes
    BY <2>1 DEF Consolidate
  <2>3. DOMAIN saga'.cps \cup DOMAIN file'.cps \subseteq Phases
    <3>1. DOMAIN NoFile.cps = {}
      BY DEF NoFile, NoCheckpoints
    <3>2. DOMAIN saga.cps \cup DOMAIN file.cps \subseteq Phases
      BY DEF GInv, TypeOK
    <3> QED BY <2>2, <3>1, <3>2
  <2>4. CASE Answers("failure")
    BY <2>2, <2>3, <2>4, AnswersGuarded DEF Results
  <2>5. CASE at' = Reporting /\ UNCHANGED <<loop, result>>
    <3>1. TypeOK'
      BY <2>2, <2>3, <2>5, PlacesTyped DEF GInv, TypeOK, AllPlaces
    <3> QED BY <2>2, <2>5, <3>1 DEF GInv, GuardsKept, Reporting
  <2> QED BY <2>2, <2>4, <2>5
<1>4. CASE Report
  <2>1. Answers("success") /\ UNCHANGED <<saga, file, dedup, crashes>>
    BY <1>4 DEF Report
  <2> QED BY <2>1, AnswersGuarded DEF Results, GInv, TypeOK
<1> QED BY <1>1, <1>2, <1>3, <1>4

LEMMA PhasesGuarded ==
    ASSUME GInv, \/ \E debate \in BOOLEAN : Analyse(debate)
                 \/ \E turns \in 0 .. MaxTurns : Debate(turns)
                 \/ Architect \/ Diagnose
    PROVE  GInv'
<1>1. loop \in Loops /\ DOMAIN saga.cps \cup DOMAIN file.cps \subseteq Phases
  BY DEF GInv, TypeOK
<1>2. CASE \E debate \in BOOLEAN : Analyse(debate)
  <2>1. PICK debate \in BOOLEAN : Analyse(debate)
    BY <1>2
  <2>2. loop' \in Loops /\ loop'.attempt = loop.attempt /\ loop'.retries = loop.retries
    BY <1>1, <2>1 DEF Analyse, Loops
  <2> QED BY <2>1, <2>2, WorkedGuarded DEF Analyse, Phases
<1>3. CASE (\E turns \in 0 .. MaxTurns : Debate(turns)) \/ Architect
  <2>1. /\ \E p \in Phases : at = <<p, "run">> /\ (at' = <<p, "save">> => UNCHANGED <<loop, result>>)
                         /\ (at' = <<p, "save">> \/ Answers("cancelled"))
        /\ UNCHANGED <<saga, file, dedup, crashes>>
    BY <1>3 DEF Debate, Architect, Phases, Answers, Idle
  <2> QED BY <1>1, <2>1, WorkedGuarded, AnswersGuarded DEF Results
<1>4. CASE Diagnose
  BY <1>1, <1>4, WorkedGuarded DEF Diagnose, Phases
<1> QED BY <1>2, <1>3, <1>4

LEMMA StepsGuarded ==
    ASSUME GInv, NEW s \in Plan,
           \/ Unmet(s) \/ Reuse(s) \/ Expire(s)
           \/ \E outcome \in {"success", "warning", "error"} : Run(s, outcome)
    PROVE  GInv'
<1>1. /\ at' = at /\ saga' = saga /\ file' = file /\ result' = result /\ crashes' = crashes
      /\ \/ loop' = loop
         \/ \E outcome \in Outcomes : loop' = [loop EXCEPT !.steps[s] = outcome]
  BY DEF Unmet, Reuse, Run, Expire, Outcomes
<1>2. /\ \/ dedup' = dedup
         \/ \E e \in {"new", "pending", "completed"} : dedup' = [dedup EXCEPT ![s] = e]
  BY DEF Unmet, Reuse, Run, Expire, Entry
<1>3. loop' \in Loops /\ loop'.attempt = loop.attempt /\ loop'.retries = loop.retries
  <2>1. loop \in Loops
    BY DEF GInv, TypeOK
  <2> HIDE DEF Outcomes, Plan
  <2> QED BY <1>1, <2>1 DEF Loops
<1>4. dedup' \in [Plan -> {"new", "pending", "completed"}]
  BY <1>2 DEF GInv, TypeOK
<1>5. TypeOK'
  BY <1>1, <1>3, <1>4 DEF GInv, TypeOK
<1> QED BY <1>1, <1>3, <1>5, StayGuarded

LEMMA ExecutionGuarded ==
    ASSUME GInv, \/ \E s \in Plan : Unaffordable(s)
                 \/ \E poor \in BOOLEAN : Executed(poor)
                 \/ BrokenOff
    PROVE  GInv'
<1> NoErrors \in BOOLEAN
  BY DEF NoErrors
<1>1. at[1] = "execution"
  <2>1. at = <<"execution", "run">>
    BY DEF Unaffordable, Executed, BrokenOff, Ready, Executing
  <2> QED BY <2>1
<1>2. CASE \E s \in Plan : Unaffordable(s)
  BY <1>1, <1>2, JudgedGuarded DEF Unaffordable
<1>3. CASE \E poor \in BOOLEAN : Executed(poor)
  <2>1. PICK poor \in BOOLEAN : Executed(poor)
    BY <1>3
  <2> DEFINE diagnose == poor \/ \E s \in Plan : loop.steps[s] \in {"error", "unmet"}
  <2>2. diagnose \in BOOLEAN
    OBVIOUS
  <2>3. ~NoErrors => diagnose
    BY DEF NoErrors
  <2>4. Judged(NoErrors, diagnose)
    BY <2>1 DEF Executed
  <2> HIDE DEF diagnose
  <2> QED BY <1>1, <2>2, <2>3, <2>4, JudgedGuarded
<1>4. CASE BrokenOff
  BY <1>1, <1>4, JudgedGuarded DEF BrokenOff
<1> QED BY <1>2, <1>3, <1>4

LEMMA StepGuarded == ASSUME LimitsFit PROVE GInv /\ [Next]_vars => GInv'
<1> SUFFICES ASSUME GInv, [Next]_vars PROVE GInv'
  OBVIOUS
<1>1. CASE UNCHANGED vars
  <2>1. TypeOK' /\ UNCHANGED <<at, saga, loop>>
    BY <1>1 DEF vars, GInv, TypeOK
  <2> QED BY <2>1, StayGuarded
<1>2. CASE Works
  <2>1. CASE \E p \in Flaggable : Checkpoint(p) \/ Flag(p)
    BY <2>1, CheckpointGuarded, FlagGuarded
  <2>2. CASE \/ \E debate \in BOOLEAN : Analyse(debate)
             \/ \E turns \in 0 .. MaxTurns : Debate(turns)
             \/ Architect \/ Diagnose
    BY <2>2, PhasesGuarded
  <2>3. CASE \E s \in Plan : \/ Unmet(s) \/ Reuse(s)
                             \/ \E outcome \in {"success", "warning", "error"} : Run(s, outcome)
    BY <2>3, StepsGuarded
  <2>4. CASE (\E s \in Plan : Unaffordable(s)) \/ (\E poor \in BOOLEAN : Executed(poor)) \/ BrokenOff
    BY <2>4, ExecutionGuarded
  <2>5. CASE Retry
    BY <2>5, RetryGuarded
  <2>6. CASE RollbackWritten \/ Report \/ \E insight \in BOOLEAN : Consolidate(insight)
    BY <2>6, AtRestGuarded
  <2> QED BY <1>2, <2>1, <2>2, <2>3, <2>4, <2>5, <2>6 DEF Works, Flaggable
<1>3. CASE Start
  BY <1>3, StartGuarded
<1>4. CASE Raises
  BY <1>4, AnswersGuarded DEF Raises, GInv, TypeOK, Results
<1>5. CASE \E p \in Phases : Rollback(p)
  BY <1>5, RollbackGuarded
<1>6. CASE \E s \in Plan : Expire(s)
  BY <1>6, StepsGuarded
<1>7. CASE Crash
  BY <1>7, AtRestGuarded
<1> QED BY <1>1, <1>2, <1>3, <1>4, <1>5, <1>6, <1>7 DEF Next

\* As long as the loop makes more attempts than the retry phase grants retries, no
\* phase is entered against its guard, although no code asks the guards: a failed
\* execution is diagnosed, retried or answered, and never consolidated.
THEOREM GuardsAlwaysKept == ASSUME LimitsFit PROVE Spec => [](TypeOK /\ GuardsKept)
<1>1. Init => GInv
  <2> SUFFICES ASSUME Init PROVE GInv
    OBVIOUS
  <2>1. TypeOK
    <3>1. DOMAIN saga.cps = {} /\ DOMAIN file.cps = {} /\ at \in AllPlaces
      BY PlacesTyped DEF Init, NewSaga, NoFile, NoCheckpoints
    <3>2. loop \in Loops /\ crashes \in 0 .. MaxCrashes /\ result \in Results
      BY NewLoopTyped, HiveAssumption DEF Init, Results
    <3> QED BY <3>1, <3>2 DEF Init, TypeOK, AllPlaces
  <2> QED BY <2>1, NewLoopTyped DEF Init, GInv, GuardsKept, Guard, Idle
<1>2. GInv => TypeOK /\ GuardsKept
  BY DEF GInv
<1> QED BY <1>1, <1>2, StepGuarded, PTL DEF Spec

-----------------------------------------------------------------------------
(* The evidence jobs *)

\* A status is final exactly when the pool is done with the job, and a job that was
\* to be cancelled has not completed.
JobInv ==
    /\ status \in [Jobs -> {"none", "pending", "running", "cancel_requested"} \cup Job!Terminal]
    /\ future \in [Jobs -> {"none", "queued", "taken", "working", "done", "cancelled"}]
    /\ event \subseteq Jobs
    /\ \A j \in Jobs :
         /\ status[j] \in Job!Terminal <=> future[j] \in {"done", "cancelled"}
         /\ future[j] = "cancelled" => status[j] = "cancelled"
         /\ status[j] = "none" => future[j] = "none"
         /\ j \in event => status[j] # "completed"

LEMMA JobStart == Job!Init => JobInv
  BY DEF Job!Init, JobInv, Job!Terminal

LEMMA JobStep == JobInv /\ [Job!Next]_Job!vars => JobInv'
<1> SUFFICES ASSUME JobInv, [Job!Next]_Job!vars PROVE JobInv'
  OBVIOUS
<1>1. CASE UNCHANGED Job!vars
  BY <1>1 DEF Job!vars, JobInv
<1>2. ASSUME NEW j \in Jobs, Job!Enter(j) \/ Job!Starter(j) PROVE JobInv'
  BY <1>2 DEF JobInv, Job!Terminal, Job!Enter, Job!Starter, Job!Submit, Job!Store
<1>3. ASSUME NEW j \in Jobs, Job!Cancel(j) PROVE JobInv'
  <2>1. CASE j \in stored /\ future[j] \in {"queued", "cancelled"}
    BY <1>3, <2>1 DEF JobInv, Job!Terminal, Job!Cancel
  <2>2. CASE ~(j \in stored /\ future[j] \in {"queued", "cancelled"})
    BY <1>3, <2>2 DEF JobInv, Job!Terminal, Job!Cancel
  <2> QED BY <2>1, <2>2
<1>4. ASSUME NEW j \in Jobs, Job!Take(j) \/ Job!Run(j) PROVE JobInv'
  BY <1>4 DEF JobInv, Job!Terminal, Job!Take, Job!Run
<1>5. ASSUME NEW j \in Jobs, Job!Finishes(j) \/ Job!Stops(j) \/ Job!Fails(j) PROVE JobInv'
  <2>1. PICK how \in Job!Terminal :
          /\ Job!Ends(j, how)
          /\ how = "completed" => j \notin event
    BY <1>5 DEF Job!Finishes, Job!Stops, Job!Fails, Job!Terminal
  <2> QED BY <2>1 DEF JobInv, Job!Terminal, Job!Ends
<1> QED BY <1>1, <1>2, <1>3, <1>4, <1>5 DEF Job!Next, Job!Worker

\* mcp/server.py, the evidence jobs: a status that is final stays, whatever cancel_job
\* and the job's thread do next, and no job completes once it was to be cancelled.
THEOREM CancelledIsFinal ==
    Job!Spec => Job!EndedStays /\ [](\A j \in Jobs : j \in event => status[j] # "completed")
<1>1. JobInv /\ [Job!Next]_Job!vars =>
        [\A j \in Jobs : status[j] \in Job!Terminal => status'[j] = status[j]]_Job!vars
  <2> SUFFICES ASSUME JobInv, [Job!Next]_Job!vars, NEW j \in Jobs, status[j] \in Job!Terminal
               PROVE  status'[j] = status[j]
    OBVIOUS
  <2>1. future[j] \in {"done", "cancelled"} /\ status[j] # "none"
    BY DEF JobInv, Job!Terminal
  <2>2. ASSUME NEW i \in Jobs, Job!Enter(i) \/ Job!Starter(i) \/ Job!Cancel(i) \/ Job!Worker(i)
        PROVE  status'[j] = status[j]
    BY <2>1, <2>2 DEF JobInv, Job!Enter, Job!Starter, Job!Submit, Job!Store, Job!Cancel,
       Job!Worker, Job!Take, Job!Run, Job!Finishes, Job!Stops, Job!Fails, Job!Ends
  <2>3. CASE UNCHANGED Job!vars
    BY <2>3 DEF Job!vars
  <2> QED BY <2>2, <2>3 DEF Job!Next
<1>2. JobInv => \A j \in Jobs : j \in event => status[j] # "completed"
  BY DEF JobInv
<1>3. Job!Spec => Job!EndedStays
  BY <1>1, JobStart, JobStep, PTL DEF Job!Spec, Job!EndedStays
<1>4. Job!Spec => [](\A j \in Jobs : j \in event => status[j] # "completed")
  BY <1>2, JobStart, JobStep, PTL DEF Job!Spec
<1> QED BY <1>3, <1>4

-----------------------------------------------------------------------------
(* The sum *)

\* A behaviour of the sum is a behaviour of the hive mind and one of the jobs.
LEMMA SumRunsHive == MCSpec => Spec /\ Job!Spec
<1>1. MCInit => Init /\ Job!Init
  BY DEF MCInit
<1>2. [MCNext]_allVars => [Next]_vars
  BY DEF MCNext, allVars
<1>3. [MCNext]_allVars => [Job!Next]_Job!vars
  BY DEF MCNext, allVars, jobVars, Job!vars
<1> QED BY <1>1, <1>2, <1>3, PTL DEF MCSpec, Spec, Job!Spec

\* What the run on the long work checks of its safety, for any constants.
THEOREM HiveSafe ==
    ASSUME LimitsFit
    PROVE  MCSpec => []GuardsKept /\ []DurableFirst /\ KeptUntilSuccess /\ Job!EndedStays
  BY SumRunsHive, GuardsAlwaysKept, SagaForgetsNothing, FileOutlivesFailures,
     CancelledIsFinal, PTL
=============================================================================

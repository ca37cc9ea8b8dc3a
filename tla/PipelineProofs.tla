--------------------------- MODULE PipelineProofs ---------------------------
(***************************************************************************)
(* Proofs about Pipeline for every number of steps, attempts, workers,     *)
(* runs and faults.                                                        *)
(***************************************************************************)
EXTENDS Pipeline, TLAPS

-----------------------------------------------------------------------------
(* Type correctness.  TypeOK is not inductive alone: that a busy process   *)
(* holds a real job, and that only a queued meeting has a run, is needed   *)
(* to know that the job ids it forms exist.                                *)

BusyHasJob == \A p \in Procs : proc[p].pc # "idle" \/ proc[p].owns => proc[p].job \in JobIds

\* A worker that runs a step, or records its outcome, holds a step job.
StepPCs == {"mark", "running", "record", "fail"}
StepHasStep == \A p \in Procs : proc[p].pc \in StepPCs => StepOf(proc[p].job) \in Steps

HasRun == status \notin {"recording", "deleted"} => run \in Runs

TypeInv == TypeOK /\ BusyHasJob /\ StepHasStep /\ HasRun

LEMMA IdleType == Idle \in ProcStates
BY DEF Idle, ProcStates, PCs, NoJob

LEMMA AfterType == /\ After("enqueue") = "queued" /\ After("requeue") = "queued"
                   /\ After("start_processing") = "processing"
                   /\ After("complete") = "ready" /\ After("fail") = "failed"
BY DEF After, Transitions

LEMMA JobIdsType == \A j \in JobIds : /\ j = <<RunOf(j), StepOf(j)>>
                                      /\ RunOf(j) \in Runs /\ StepOf(j) \in 0..NSteps
                                      /\ \A s \in Steps \cup {0} : <<RunOf(j), s>> \in JobIds
BY PipelineAssumption DEF JobIds, RunOf, StepOf, Steps

LEMMA InitType == Init => TypeInv
<1> SUFFICES ASSUME Init PROVE TypeInv
  OBVIOUS
<1>1. /\ rows \in [Steps -> RowStates]
      /\ jobs \in [JobIds -> JobStates] /\ attemptsMade \in [JobIds -> Nat]
      /\ proc \in [Procs -> ProcStates]
  BY IdleType DEF Init, RowStates, JobStates
<1>2. TypeOK
  <2>1. run \in 0..MaxRuns /\ failureReason \in 0..NSteps /\ pushes \in Nat /\ faults \in Nat
    BY PipelineAssumption DEF Init
  <2>2. /\ status \in Statuses \cup {"deleted"} /\ notified \in BOOLEAN /\ quiet \in BOOLEAN
        /\ outbox \subseteq Runs /\ done \subseteq Steps
    BY DEF Init, Statuses
  <2> QED
    BY <1>1, <2>1, <2>2 DEF TypeOK
<1>3. \A p \in Procs : proc[p].pc = "idle" /\ proc[p].owns = FALSE
  BY DEF Init, Idle
<1> QED
  BY <1>2, <1>3 DEF TypeInv, BusyHasJob, StepHasStep, HasRun, StepPCs, Init

(* How a process moves keeps the part of the invariant that is about it.    *)
ProcInv == proc \in [Procs -> ProcStates] /\ BusyHasJob /\ StepHasStep

LEMMA GotoInv ==
  ASSUME ProcInv, NEW p \in Procs, NEW pc \in PCs, Goto(p, pc),
         proc[p].pc # "idle", pc \in StepPCs => proc[p].pc \in StepPCs
  PROVE  ProcInv'
<1>1. proc' \in [Procs -> ProcStates]
  BY DEF ProcInv, Goto, ProcStates
<1>2. \A q \in Procs : /\ proc'[q].job = proc[q].job /\ proc'[q].owns = proc[q].owns
                       /\ proc'[q].pc = IF q = p THEN pc ELSE proc[q].pc
  BY DEF ProcInv, Goto, ProcStates
<1> QED
  BY <1>1, <1>2 DEF ProcInv, BusyHasJob, StepHasStep

LEMMA IdleInv ==
  ASSUME ProcInv, NEW p \in Procs, proc' = [proc EXCEPT ![p] = Idle]
  PROVE  ProcInv'
BY IdleType DEF ProcInv, BusyHasJob, StepHasStep, Idle, StepPCs

LEMMA LeaveInv ==
  ASSUME ProcInv, NEW p \in Procs, Leave(p), proc[p].pc # "idle"
  PROVE  ProcInv'
<1>1. CASE p = Sweeper
  BY <1>1, IdleInv DEF Leave
<1>2. CASE p # Sweeper
  BY <1>2 DEF Leave, ProcInv, ProcStates, PCs, BusyHasJob, StepHasStep, StepPCs
<1> QED
  BY <1>1, <1>2

LEMMA SameInv == ProcInv /\ proc' = proc => ProcInv'
BY DEF ProcInv, BusyHasJob, StepHasStep

LEMMA ProcStep == TypeInv /\ [Next]_vars => ProcInv'
<1> SUFFICES ASSUME TypeInv, [Next]_vars PROVE ProcInv'
  OBVIOUS
<1>0. ProcInv
  BY DEF TypeInv, TypeOK, ProcInv
<1>w. Workers \subseteq Procs /\ Sweeper \in Procs
  BY DEF Procs
<1> USE <1>0, <1>w DEF At, PCs, StepPCs
<1>1. CASE UNCHANGED proc
  BY <1>1, SameInv
<1>2. ASSUME NEW w \in Workers, NEW j \in JobIds, Take(w, j) PROVE ProcInv'
  <2> DEFINE x == [Idle EXCEPT !.pc = IF StepOf(j) = 0 THEN "start" ELSE "mark",
                               !.job = j, !.attempt = attemptsMade[j], !.owns = TRUE]
  <2>1. proc' = [proc EXCEPT ![w] = x]
    BY <1>2 DEF Take
  <2>2. attemptsMade[j] \in Nat
    BY DEF TypeInv, TypeOK
  <2>3. x \in ProcStates /\ x.job = j /\ x.pc = IF StepOf(j) = 0 THEN "start" ELSE "mark"
    BY <2>2, IdleType DEF ProcStates, Idle
  <2>4. StepOf(j) # 0 => StepOf(j) \in Steps
    BY JobIdsType, PipelineAssumption DEF Steps
  <2> HIDE DEF x
  <2>5. proc' \in [Procs -> ProcStates]
    BY <2>1, <2>3 DEF ProcInv
  <2>6. \A q \in Procs : proc'[q] = IF q = w THEN x ELSE proc[q]
    BY <2>1 DEF ProcInv
  <2> QED
    BY <2>3, <2>4, <2>5, <2>6 DEF ProcInv, BusyHasJob, StepHasStep
<1>3. ASSUME NEW w \in Workers, Worker(w) PROVE ProcInv'
  <2>1. CASE StartRun(w)
    BY <2>1, GotoInv DEF StartRun
  <2>2. CASE MarkRunning(w)
    BY <2>2, GotoInv DEF MarkRunning
  <2>3. CASE HandlerSucceeds(w)
    BY <2>3, GotoInv DEF HandlerSucceeds
  <2>4. ASSUME NEW fatal \in BOOLEAN, HandlerFails(w, fatal) PROVE ProcInv'
    BY <2>4 DEF HandlerFails, ProcInv, ProcStates, BusyHasJob, StepHasStep
  <2>5. CASE MarkSucceeded(w)
    BY <2>5, GotoInv DEF MarkSucceeded
  <2>6. CASE FailStep(w)
    BY <2>6, GotoInv DEF FailStep
  <2>7. CASE RecordAttemptError(w)
    BY <2>7, GotoInv DEF RecordAttemptError
  <2>8. CASE Resolve(w)
    BY <2>8, IdleInv DEF Resolve
  <2>9. CASE Reject(w)
    BY <2>9, IdleInv DEF Reject
  <2> QED
    BY <1>3, <2>1, <2>2, <2>3, <2>4, <2>5, <2>6, <2>7, <2>8, <2>9 DEF Worker
<1>4. ASSUME NEW p \in Procs, Engine(p) PROVE ProcInv'
  <2>1. CASE Advance(p)
    <3>2. proc[p].pc = "advance"
      BY <2>1 DEF Advance
    <3>1. ASSUME NEW s \in Handled, proc' = [proc EXCEPT ![p].pc = "enqueue", ![p].next = s]
          PROVE  ProcInv'
      <4>1. s \in Steps
        BY PipelineAssumption
      <4>a. [proc[p] EXCEPT !.pc = "enqueue", !.next = s] \in ProcStates
        BY <4>1 DEF ProcInv, ProcStates
      <4>b. proc' = [proc EXCEPT ![p] = [proc[p] EXCEPT !.pc = "enqueue", !.next = s]]
        BY <3>1 DEF ProcInv
      <4>2. proc' \in [Procs -> ProcStates]
        BY <4>a, <4>b DEF ProcInv
      <4>3. \A q \in Procs : /\ proc'[q].job = proc[q].job /\ proc'[q].owns = proc[q].owns
                             /\ proc'[q].pc = IF q = p THEN "enqueue" ELSE proc[q].pc
        BY <3>1 DEF ProcInv, ProcStates
      <4> QED
        BY <3>2, <4>2, <4>3 DEF ProcInv, BusyHasJob, StepHasStep
    <3>3. ASSUME Goto(p, "complete") PROVE ProcInv'
      BY <3>2, <3>3, GotoInv
    <3>4. ASSUME Leave(p) PROVE ProcInv'
      BY <3>2, <3>4, LeaveInv
    <3> QED
      BY <2>1, <3>1, <3>3, <3>4 DEF Advance
  <2>2. CASE EnqueueStep(p)
    BY <2>2, LeaveInv DEF EnqueueStep
  <2>3. CASE CompleteRun(p)
    BY <2>3, LeaveInv, GotoInv DEF CompleteRun
  <2>4. CASE ClaimPush(p)
    <3>1. (Leave(p) \/ Goto(p, "push")) /\ proc[p].pc = "claim"
      BY <2>4 DEF ClaimPush, At
    <3>2. "push" \in PCs /\ "push" \notin StepPCs
      BY DEF PCs, StepPCs
    <3>3. CASE Leave(p)
      BY <3>1, <3>3, LeaveInv
    <3>4. CASE Goto(p, "push")
      BY <3>1, <3>2, <3>4, GotoInv
    <3> QED BY <3>1, <3>3, <3>4
  <2>5. CASE SendPush(p)
    BY <2>5, LeaveInv DEF SendPush
  <2> QED
    BY <1>4, <2>1, <2>2, <2>3, <2>4, <2>5 DEF Engine
<1>5. CASE SweepScan
  <2>1. run \in Runs
    BY <1>5 DEF SweepScan, TypeInv, HasRun
  <2>2. <<run, 0>> \in JobIds
    BY <2>1, PipelineAssumption DEF JobIds
  <2> QED
    BY <1>5, <2>2 DEF SweepScan, ProcInv, ProcStates, Idle, BusyHasJob, StepHasStep
<1>6. CASE Faults
  <2>1. ASSUME NEW w \in Workers, LoseLock(w) PROVE ProcInv'
    BY <2>1, ZenonT(60) DEF LoseLock, ProcInv, ProcStates, BusyHasJob, StepHasStep
  <2>2. ASSUME NEW p \in Procs, Crash(p) PROVE ProcInv'
    BY <2>2, IdleInv DEF Crash
  <2>3. ASSUME NEW p \in Procs, Throw(p) PROVE ProcInv'
    BY <2>3, IdleInv, GotoInv DEF Throw
  <2>4. ASSUME NEW r \in Runs, LoseEnqueue(r) PROVE ProcInv'
    BY <2>4, <1>1 DEF LoseEnqueue
  <2> QED
    BY <1>6, <2>1, <2>2, <2>3, <2>4 DEF Faults
<1>7. CASE Requests \/ (\E r \in Runs : EnqueueAfterCommit(r)) \/ RequeueStranded \/ TimePasses
  BY <1>7, <1>1 DEF NewRun, Requests, End, Reindex, Delete, EnqueueAfterCommit, RequeueStranded, TimePasses
<1>8. CASE UNCHANGED vars
  BY <1>8, <1>1 DEF vars
<1> QED
  BY <1>2, <1>3, <1>4, <1>5, <1>6, <1>7, <1>8 DEF Next

(* BullMQ's tables: every action adds, takes, removes or retries one job.   *)
LEMMA RedisStep ==
  TypeInv /\ [Next]_vars =>
    jobs' \in [JobIds -> JobStates] /\ attemptsMade' \in [JobIds -> Nat]
<1> SUFFICES ASSUME TypeInv, [Next]_vars
             PROVE  jobs' \in [JobIds -> JobStates] /\ attemptsMade' \in [JobIds -> Nat]
  OBVIOUS
<1> DEFINE Good == jobs' \in [JobIds -> JobStates] /\ attemptsMade' \in [JobIds -> Nat]
<1>0. /\ jobs \in [JobIds -> JobStates] /\ attemptsMade \in [JobIds -> Nat]
      /\ Workers \subseteq Procs
      /\ \A p \in Procs : proc[p].pc # "idle" \/ proc[p].owns => proc[p].job \in JobIds
      /\ \A p \in Procs : proc[p].attempt \in Nat /\ proc[p].next \in Steps \cup {0}
  BY DEF TypeInv, TypeOK, BusyHasJob, Procs, ProcStates
<1> USE <1>0 DEF JobStates, At
<1>1. CASE UNCHANGED redis
  BY <1>1 DEF redis
<1>2. ASSUME NEW j \in JobIds, Add(j), UNCHANGED attemptsMade PROVE Good
  BY <1>2 DEF Add
<1>3. ASSUME NEW j \in JobIds, Remove(j) PROVE Good
  BY <1>3 DEF Remove
<1>4. ASSUME NEW j \in JobIds, Stalled(j) PROVE Good
  BY <1>4, <1>3 DEF Stalled
<1>5. ASSUME NEW w \in Workers, NEW j \in JobIds, Take(w, j) PROVE Good
  BY <1>5 DEF Take
<1>6. ASSUME NEW w \in Workers, Worker(w) PROVE Good
  <2>1. CASE Resolve(w)
    BY <2>1, <1>1, <1>3 DEF Resolve
  <2>2. CASE Reject(w)
    <3>1. proc[w].job \in JobIds /\ proc[w].attempt + 1 \in Nat
      BY <2>2 DEF Reject
    <3> QED
      BY <3>1, <2>2, <1>1, <1>3 DEF Reject
  <2> QED
    BY <1>6, <2>1, <2>2, <1>1
    DEF Worker, StartRun, MarkRunning, HandlerSucceeds, HandlerFails, MarkSucceeded, FailStep,
        RecordAttemptError
<1>7. ASSUME NEW p \in Procs, EnqueueStep(p) PROVE Good
  BY <1>7, <1>2, JobIdsType DEF EnqueueStep
<1>8. ASSUME NEW r \in Runs, EnqueueAfterCommit(r) PROVE Good
  <2>1. <<r, 0>> \in JobIds
    BY PipelineAssumption DEF JobIds
  <2> QED
    BY <2>1, <1>8, <1>2 DEF EnqueueAfterCommit
<1>9. CASE Faults
  BY <1>9, <1>1, <1>4 DEF Faults, LoseLock, Crash, Throw, LoseEnqueue
<1> QED
  BY <1>1, <1>5, <1>6, <1>7, <1>8, <1>9
  DEF NewRun, Next, Requests, End, Reindex, Delete, RequeueStranded, SweepScan, TimePasses, Engine,
      Advance, CompleteRun, ClaimPush, SendPush, vars

(* The meeting, its rows and the counters.                                  *)
LEMMA DbStep ==
  TypeInv /\ [Next]_vars =>
    /\ status' \in Statuses \cup {"deleted"} /\ run' \in 0..MaxRuns /\ failureReason' \in 0..NSteps
    /\ rows' \in [Steps -> RowStates] /\ notified' \in BOOLEAN /\ quiet' \in BOOLEAN
    /\ outbox' \subseteq Runs /\ pushes' \in Nat /\ done' \subseteq Steps /\ faults' \in Nat
    /\ HasRun'
<1> DEFINE Good ==
      /\ status' \in Statuses \cup {"deleted"} /\ run' \in 0..MaxRuns /\ failureReason' \in 0..NSteps
      /\ rows' \in [Steps -> RowStates] /\ notified' \in BOOLEAN /\ quiet' \in BOOLEAN
      /\ outbox' \subseteq Runs /\ pushes' \in Nat /\ done' \subseteq Steps /\ faults' \in Nat
      /\ HasRun'
<1> SUFFICES ASSUME TypeInv, [Next]_vars PROVE Good
  OBVIOUS
<1>0. /\ status \in Statuses \cup {"deleted"} /\ run \in 0..MaxRuns /\ failureReason \in 0..NSteps
      /\ rows \in [Steps -> RowStates] /\ notified \in BOOLEAN /\ quiet \in BOOLEAN
      /\ outbox \subseteq Runs /\ pushes \in Nat /\ done \subseteq Steps /\ faults \in Nat
      /\ HasRun /\ Workers \subseteq Procs
      /\ \A p \in Procs : proc[p].pc \in StepPCs => StepOf(proc[p].job) \in Steps
  BY DEF TypeInv, TypeOK, StepHasStep, Procs
<1> USE <1>0, AfterType, PipelineAssumption
<1> USE DEF At, Statuses, RowStates, HasRun, StepPCs, Runs, Fault, NoFault, db
<1>1. CASE UNCHANGED <<db, quiet, outbox, pushes, done>> /\ faults' \in Nat
  BY <1>1
<1>2. CASE End
  <2>1. run' = run + 1 /\ run + 1 \in Runs /\ run + 1 \in 0..MaxRuns
    BY <1>2 DEF NewRun, End
  <2> QED
    BY <1>2, <2>1 DEF NewRun, End, Live
<1>3. ASSUME NEW scope \in {"changed", "full"}, Reindex(scope) PROVE Good
  <2>1. run' = run + 1 /\ run + 1 \in Runs /\ run + 1 \in 0..MaxRuns
    BY <1>3 DEF NewRun, Reindex
  <2>2. rows' \in [Steps -> RowStates] /\ done' \subseteq Steps
    BY <1>3 DEF NewRun, Reindex
  <2>3. /\ status' = "queued" /\ failureReason' = 0 /\ quiet' = FALSE
        /\ outbox' = outbox \cup {run + 1} /\ UNCHANGED <<notified, pushes, faults>>
    BY <1>3 DEF NewRun, Reindex
  <2>4. notified' \in BOOLEAN /\ quiet' \in BOOLEAN
    BY <2>3, Zenon
  <2>5. run' \in Runs /\ outbox' \subseteq Runs /\ failureReason' \in 0..NSteps
    BY <2>1, <2>3
  <2> QED
    BY <2>1, <2>2, <2>3, <2>4, <2>5
<1>4. CASE Delete
  BY <1>4 DEF Delete
<1>5. CASE RequeueStranded
  BY <1>5 DEF RequeueStranded
<1>6. CASE TimePasses
  BY <1>6 DEF TimePasses
<1>7. ASSUME NEW r \in Runs, EnqueueAfterCommit(r) \/ LoseEnqueue(r) PROVE Good
  <2>1. outbox' = outbox \ {r} /\ UNCHANGED <<db, quiet, pushes, done>>
    BY <1>7 DEF EnqueueAfterCommit, LoseEnqueue
  <2>2. faults' = faults \/ faults' = faults + 1
    BY <1>7 DEF EnqueueAfterCommit, LoseEnqueue
  <2>3. faults' \in Nat /\ outbox' \subseteq Runs
    BY <2>1, <2>2
  <2> QED
    BY <2>1, <2>3
<1>8. ASSUME NEW w \in Workers, Worker(w) PROVE Good
  <2>1. CASE StartRun(w)
    BY <2>1 DEF StartRun
  <2>2. CASE MarkRunning(w)
    BY <2>2 DEF MarkRunning
  <2>3. CASE MarkSucceeded(w)
    BY <2>3 DEF MarkSucceeded
  <2>4. CASE FailStep(w)
    <3>1. StepOf(proc[w].job) \in Steps /\ Steps \subseteq 0..NSteps
      BY <2>4 DEF FailStep, Steps
    <3>2. CASE Current(w)
      BY <2>4, <3>1, <3>2 DEF FailStep, Current
    <3> QED
      BY <2>4, <3>2 DEF FailStep
  <2>5. CASE RecordAttemptError(w)
    BY <2>5 DEF RecordAttemptError
  <2> QED
    BY <1>8, <2>1, <2>2, <2>3, <2>4, <2>5, <1>1
    DEF Worker, HandlerSucceeds, HandlerFails, Resolve, Reject
<1>9. ASSUME NEW p \in Procs, Engine(p) PROVE Good
  <2>1. CASE CompleteRun(p)
    <3>1. CASE Current(p)
      <4>1. run \in Runs
        BY <3>1 DEF Current
      <4>2. /\ status' = "ready" /\ failureReason' = 0 /\ quiet' = FALSE
            /\ UNCHANGED <<run, rows, notified, outbox, pushes, done, faults>>
        BY <2>1, <3>1 DEF CompleteRun
      <4>3. notified' \in BOOLEAN /\ quiet' \in BOOLEAN
        BY <4>2, Zenon
      <4>4. failureReason' \in 0..NSteps
        BY <4>2
      <4> QED
        BY <4>1, <4>2, <4>3, <4>4
    <3> QED
      BY <2>1, <3>1 DEF CompleteRun
  <2>2. CASE ClaimPush(p)
    BY <2>2 DEF Unclaimed, ClaimPush
  <2>3. CASE SendPush(p)
    BY <2>3 DEF SendPush
  <2> QED
    BY <1>9, <2>1, <2>2, <2>3, <1>1 DEF Engine, Advance, EnqueueStep
<1>10. CASE Faults
  BY <1>10, <1>1, <1>7 DEF Faults, LoseLock, Crash, Throw
<1> QED
  BY <1>1, <1>2, <1>3, <1>4, <1>5, <1>6, <1>7, <1>8, <1>9, <1>10
  DEF Next, Requests, SweepScan, Take, vars

LEMMA TypeStep == TypeInv /\ [Next]_vars => TypeInv'
BY ProcStep, RedisStep, DbStep DEF TypeInv, TypeOK, ProcInv

\* Every reachable state of the pipeline is well typed, and busy processes hold
\* jobs that exist.
THEOREM TypeCorrect == Spec => []TypeInv
<1>1. Init => TypeInv
  BY InitType
<1> QED
  BY <1>1, TypeStep, PTL DEF Spec

THEOREM TypeOKInvariant == Spec => []TypeOK
BY TypeCorrect, PTL DEF TypeInv

-----------------------------------------------------------------------------
(* Ready means done.                                                        *)
(*                                                                          *)
(* nextStep() reads the rows outside any lock and whatever run they belong  *)
(* to, and completeRun() trusts that read one await later.  What makes it   *)
(* sound: a row says `succeeded` only for a step in done (RowsDone), and a   *)
(* process about to complete the current run saw them all (CompleteKnows):  *)
(* done only shrinks in a step that ends the run (failStep, reindex,        *)
(* delete), after which the process is no longer of the current run, or the *)
(* meeting can come back to `queued` only under a new number.               *)

RowsDone == \A s \in Steps : rows[s] = "succeeded" => s \in done

CompleteKnows ==
  \A p \in Procs : /\ proc[p].pc = "complete" /\ RunOf(proc[p].job) = run
                   /\ status \in {"queued", "processing"}
                   => done = Steps

\* Nothing anywhere is of a run that has not begun.
PastRuns ==
  /\ \A p \in Procs : RunOf(proc[p].job) <= run
  /\ \A j \in JobIds : jobs[j] # "absent" => RunOf(j) <= run
  /\ \A r \in outbox : r <= run

SafeInv == RowsDone /\ CompleteKnows /\ PastRuns /\ ReadyMeansDone /\ FailedNamesStep

LEMMA SafeInit == Init => SafeInv
<1> SUFFICES ASSUME Init PROVE SafeInv
  OBVIOUS
<1>1. \A p \in Procs : proc[p].pc = "idle" /\ RunOf(proc[p].job) = 0
  BY DEF Init, Idle, NoJob, RunOf
<1> QED
  BY <1>1
  DEF Init, SafeInv, RowsDone, CompleteKnows, PastRuns, ReadyMeansDone, FailedNamesStep

(* No process is of a later run than the meeting, and no job id of a later  *)
(* run is taken: runs are numbered by the transaction that queues them.     *)
LEMMA PastRunsStep == TypeInv /\ PastRuns /\ [Next]_vars => PastRuns'
<1> SUFFICES ASSUME TypeInv, PastRuns, [Next]_vars PROVE PastRuns'
  OBVIOUS
<1>t. /\ run \in Nat /\ proc \in [Procs -> ProcStates] /\ jobs \in [JobIds -> JobStates]
      /\ Workers \subseteq Procs /\ Sweeper \in Procs
      /\ \A p \in Procs : proc[p].pc # "idle" \/ proc[p].owns => proc[p].job \in JobIds
      /\ RunOf(Idle.job) = 0
  BY PipelineAssumption DEF TypeInv, TypeOK, BusyHasJob, Procs, Idle, NoJob, RunOf
<1> DEFINE P(q) == RunOf(proc'[q].job) <= run'
           J(j) == jobs'[j] # "absent" => RunOf(j) <= run'
           Good == /\ \A q \in Procs : P(q)
                   /\ \A j \in JobIds : J(j)
                   /\ \A r \in outbox' : r <= run'
<1>0. /\ \A q \in Procs : RunOf(proc[q].job) <= run
      /\ \A j \in JobIds : jobs[j] # "absent" => RunOf(j) <= run
      /\ \A r \in outbox : r \in Nat /\ r <= run
      /\ \A q \in Procs : RunOf(proc[q].job) \in Nat
      /\ \A j \in JobIds : RunOf(j) \in Nat
  <2>1. \A q \in Procs : proc[q].job \in JobIds \cup {NoJob}
    BY DEF TypeInv, TypeOK, ProcStates
  <2>2. \A j \in JobIds \cup {NoJob} : RunOf(j) \in Nat
    BY PipelineAssumption DEF JobIds, NoJob, RunOf, Runs
  <2>3. outbox \subseteq Nat
    BY PipelineAssumption DEF TypeInv, TypeOK, Runs
  <2> QED
    BY <2>1, <2>2, <2>3 DEF PastRuns
<1> USE <1>t, <1>0 DEF At
\* Requests and sweeps leave the processes and Redis alone.
<1>1. CASE UNCHANGED <<proc, redis>> /\ run' \in {run, run + 1} /\ outbox' \subseteq outbox \cup {run'}
  BY <1>1 DEF redis, PastRuns
<1>2. CASE End \/ (\E scope \in {"changed", "full"} : Reindex(scope)) \/ Delete
           \/ RequeueStranded \/ TimePasses \/ (\E r \in Runs : LoseEnqueue(r)) \/ UNCHANGED vars
  BY <1>2, <1>1 DEF NewRun, End, Reindex, Delete, RequeueStranded, TimePasses, LoseEnqueue, vars, db, redis
<1>3. ASSUME NEW r \in Runs, EnqueueAfterCommit(r) PROVE Good
  <2>1. UNCHANGED <<run, proc>> /\ outbox' = outbox \ {r} /\ r <= run
    BY <1>3 DEF EnqueueAfterCommit, db
  <2>2. \A j \in JobIds : jobs'[j] # "absent" => jobs[j] # "absent" \/ j = <<r, 0>>
    BY <1>3 DEF EnqueueAfterCommit, Add
  <2>3. RunOf(<<r, 0>>) = r
    BY DEF RunOf
  <2> QED
    BY <2>1, <2>2, <2>3
\* A process that goes on keeps its job or drops it; jobs only leave Redis or go back.
<1>4. CASE /\ UNCHANGED <<run, outbox>>
           /\ \A q \in Procs : RunOf(proc'[q].job) = RunOf(proc[q].job) \/ RunOf(proc'[q].job) = 0
                               \/ RunOf(proc'[q].job) = run
           /\ \A j \in JobIds : jobs'[j] # "absent" => jobs[j] # "absent" \/ RunOf(j) <= run
  BY <1>4 DEF PastRuns
<1>5. ASSUME NEW w \in Workers, NEW j \in JobIds, Take(w, j) PROVE Good
  <2>1. UNCHANGED <<run, outbox>> /\ jobs[j] = "waiting" /\ jobs' = [jobs EXCEPT ![j] = "active"]
    BY <1>5 DEF Take, db
  <2>2. \A q \in Procs : proc'[q].job = proc[q].job \/ proc'[q].job = j
    BY <1>5 DEF Take, Idle
  <2> QED
    BY <2>1, <2>2
<1>6. ASSUME NEW q \in Procs, NEW pc, Goto(q, pc)
      PROVE  \A x \in Procs : proc'[x].job = proc[x].job
  BY <1>6 DEF Goto, ProcStates
<1>7. ASSUME NEW q \in Procs, proc' = [proc EXCEPT ![q] = Idle] \/ Leave(q)
      PROVE  \A x \in Procs : RunOf(proc'[x].job) = RunOf(proc[x].job) \/ RunOf(proc'[x].job) = 0
  BY <1>7 DEF Leave, ProcStates
<1>8. ASSUME NEW w \in Workers, Worker(w) PROVE Good
  <2>1. UNCHANGED <<run, outbox>>
    BY <1>8 DEF Worker, StartRun, MarkRunning, HandlerSucceeds, HandlerFails, MarkSucceeded,
                FailStep, RecordAttemptError, Resolve, Reject, db
  <2>2. \A q \in Procs : RunOf(proc'[q].job) = RunOf(proc[q].job) \/ RunOf(proc'[q].job) = 0
    <3>1. ASSUME NEW fatal \in BOOLEAN, HandlerFails(w, fatal)
          PROVE  \A q \in Procs : proc'[q].job = proc[q].job
      BY <3>1 DEF HandlerFails, ProcStates
    <3>2. CASE Resolve(w) \/ Reject(w)
      BY <3>2, <1>7 DEF Resolve, Reject
    <3>3. CASE StartRun(w) \/ MarkRunning(w) \/ HandlerSucceeds(w) \/ MarkSucceeded(w)
      BY <3>3, <1>6 DEF StartRun, MarkRunning, HandlerSucceeds, MarkSucceeded
    <3>4. CASE FailStep(w) \/ RecordAttemptError(w)
      BY <3>4, <1>6 DEF FailStep, RecordAttemptError
    <3> QED
      BY <1>8, <3>1, <3>2, <3>3, <3>4 DEF Worker
  <2>3. ASSUME NEW j \in JobIds, jobs'[j] # "absent" PROVE jobs[j] # "absent" \/ RunOf(j) <= run
    BY <1>8, <2>3
    DEF Worker, StartRun, MarkRunning, HandlerSucceeds, HandlerFails, MarkSucceeded,
        FailStep, RecordAttemptError, Resolve, Reject, Remove, redis
  <2> QED
    BY <2>1, <2>2, <2>3, <1>4
<1>9. ASSUME NEW q \in Procs, Engine(q) PROVE Good
  <2>1. UNCHANGED <<run, outbox>>
    BY <1>9 DEF Unclaimed, Engine, Advance, EnqueueStep, CompleteRun, ClaimPush, SendPush, db
  <2>2. \A x \in Procs : RunOf(proc'[x].job) = RunOf(proc[x].job) \/ RunOf(proc'[x].job) = 0
    BY <1>9, <1>6, <1>7
    DEF Unclaimed, Engine, Advance, EnqueueStep, CompleteRun, ClaimPush, SendPush, ProcStates
  <2>3. ASSUME NEW j \in JobIds, jobs'[j] # "absent" PROVE jobs[j] # "absent" \/ RunOf(j) <= run
    <3>1. \A s : RunOf(<<RunOf(proc[q].job), s>>) = RunOf(proc[q].job)
      BY DEF RunOf
    <3> QED
      BY <1>9, <2>3, <3>1
      DEF Unclaimed, Engine, Advance, EnqueueStep, CompleteRun, ClaimPush, SendPush, Add, redis
  <2> QED
    BY <2>1, <2>2, <2>3, <1>4
<1>10. CASE SweepScan
  <2>1. RunOf(<<run, 0>>) = run
    BY DEF RunOf
  <2>2. \A q \in Procs : proc'[q].job = proc[q].job \/ proc'[q].job = <<run, 0>>
    BY <1>10 DEF SweepScan, Idle
  <2> QED
    BY <1>10, <2>1, <2>2, <1>4 DEF SweepScan, db, redis
<1>11. CASE (\E w \in Workers : LoseLock(w)) \/ (\E q \in Procs : Crash(q) \/ Throw(q))
  <2>1. UNCHANGED <<run, outbox>>
    BY <1>11 DEF LoseLock, Crash, Throw, db
  <2>2. \A x \in Procs : RunOf(proc'[x].job) = RunOf(proc[x].job) \/ RunOf(proc'[x].job) = 0
    BY <1>11, <1>6, <1>7 DEF LoseLock, Crash, Throw, ProcStates
  <2>3. ASSUME NEW j \in JobIds, jobs'[j] # "absent" PROVE jobs[j] # "absent" \/ RunOf(j) <= run
    BY <1>11, <2>3 DEF LoseLock, Crash, Throw, Stalled, Remove, redis
  <2> QED
    BY <2>1, <2>2, <2>3, <1>4
<1> QED
  BY <1>2, <1>3, <1>5, <1>8, <1>9, <1>10, <1>11 DEF Next, Requests, Faults, PastRuns

(* A process comes to completeRun() only through nextStep() finding nothing *)
(* left; every other step leaves it there with the same job, or moves on.   *)
NoNewCompleter ==
  \A q \in Procs : proc'[q].pc = "complete" => proc[q].pc = "complete" /\ proc'[q].job = proc[q].job

LEMMA MovesOn ==
  ASSUME TypeOK, NEW p \in Procs,
         \/ \E pc \in PCs \ {"complete"} : Goto(p, pc)
         \/ Leave(p) \/ proc' = [proc EXCEPT ![p] = Idle] \/ UNCHANGED proc
  PROVE  NoNewCompleter
BY DEF TypeOK, NoNewCompleter, Goto, Leave, Idle, ProcStates

LEMMA CoreStep ==
  TypeInv /\ SafeInv /\ [Next]_vars
    => RowsDone' /\ CompleteKnows' /\ ReadyMeansDone' /\ FailedNamesStep'
<1> DEFINE Good == RowsDone' /\ CompleteKnows' /\ ReadyMeansDone' /\ FailedNamesStep'
<1> SUFFICES ASSUME TypeInv, SafeInv, [Next]_vars PROVE Good
  OBVIOUS
<1>t. /\ TypeOK /\ run \in Nat /\ rows \in [Steps -> RowStates] /\ done \subseteq Steps
      /\ Workers \subseteq Procs /\ Sweeper \in Procs
      /\ \A q \in Procs : RunOf(proc[q].job) <= run /\ RunOf(proc[q].job) \in Int
  <2>1. \A q \in Procs : proc[q].job \in JobIds \cup {NoJob}
    BY DEF TypeInv, TypeOK, ProcStates
  <2>2. \A j \in JobIds \cup {NoJob} : RunOf(j) \in Int
    BY PipelineAssumption DEF JobIds, NoJob, RunOf, Runs
  <2> QED
    BY <2>1, <2>2, PipelineAssumption DEF TypeInv, TypeOK, SafeInv, PastRuns, Procs
<1>s. RowsDone /\ CompleteKnows /\ ReadyMeansDone /\ FailedNamesStep
  BY DEF SafeInv
<1> USE <1>t, <1>s, AfterType DEF At
<1> USE DEF RowsDone, CompleteKnows, ReadyMeansDone, FailedNamesStep
<1>1. CASE UNCHANGED <<status, run, rows, done, failureReason>> /\ NoNewCompleter
  BY <1>1 DEF NoNewCompleter
\* A new run: whoever is about to complete the old one is no longer of the current run.
<1>2. CASE /\ status' = "queued" /\ run' = run + 1 /\ proc' = proc
           /\ \A s \in Steps : rows'[s] = "succeeded" => s \in done'
  BY <1>2
<1>3. CASE End
  BY <1>3, <1>2 DEF NewRun, End
<1>4. ASSUME NEW scope \in {"changed", "full"}, Reindex(scope) PROVE Good
  <2>1. status' = "queued" /\ run' = run + 1 /\ proc' = proc
    BY <1>4 DEF NewRun, Reindex
  <2>2. \A s \in Steps : rows'[s] = "succeeded" => s \in done'
    BY <1>4 DEF NewRun, Reindex
  <2> QED
    BY <2>1, <2>2, <1>2
<1>5. CASE Delete
  BY <1>5 DEF Delete
<1>6. CASE \/ RequeueStranded \/ TimePasses \/ UNCHANGED vars
           \/ (\E r \in Runs : EnqueueAfterCommit(r) \/ LoseEnqueue(r))
  BY <1>6, <1>1, MovesOn
  DEF RequeueStranded, TimePasses, vars, EnqueueAfterCommit, LoseEnqueue, db
<1>7. ASSUME NEW w \in Workers, NEW j \in JobIds, Take(w, j) PROVE Good
  <2>1. NoNewCompleter
    BY <1>7 DEF Take, Idle, NoNewCompleter, TypeOK
  <2> QED
    BY <1>7, <2>1, <1>1 DEF Take, db
<1>8. CASE SweepScan
  <2>1. NoNewCompleter
    BY <1>8 DEF SweepScan, Idle, NoNewCompleter, TypeOK
  <2> QED
    BY <1>8, <2>1, <1>1 DEF SweepScan, db
<1>9. CASE Faults
  <2>1. UNCHANGED <<status, run, rows, done, failureReason>>
    BY <1>9 DEF Faults, LoseLock, Crash, Throw, LoseEnqueue, db
  <2>2. NoNewCompleter
    <3>1. ASSUME NEW w \in Workers, LoseLock(w) PROVE NoNewCompleter
      BY <3>1 DEF LoseLock, NoNewCompleter, TypeOK, ProcStates
    <3>2. ASSUME NEW q \in Procs, Crash(q) \/ Throw(q) PROVE NoNewCompleter
      BY <3>2, MovesOn DEF Crash, Throw, PCs
    <3>3. ASSUME NEW r \in Runs, LoseEnqueue(r) PROVE NoNewCompleter
      BY <3>3, MovesOn DEF LoseEnqueue
    <3> QED
      BY <1>9, <3>1, <3>2, <3>3 DEF Faults
  <2> QED
    BY <2>1, <2>2, <1>1
<1>10. ASSUME NEW w \in Workers, Worker(w) PROVE Good
  <2>m. NoNewCompleter
    <3>1. ASSUME NEW fatal \in BOOLEAN, HandlerFails(w, fatal) PROVE NoNewCompleter
      BY <3>1 DEF HandlerFails, NoNewCompleter, TypeOK, ProcStates
    <3>2. CASE Resolve(w) \/ Reject(w)
      BY <3>2, MovesOn DEF Resolve, Reject
    <3>3. CASE StartRun(w) \/ MarkRunning(w) \/ HandlerSucceeds(w) \/ MarkSucceeded(w)
      BY <3>3, MovesOn DEF StartRun, MarkRunning, HandlerSucceeds, MarkSucceeded, PCs
    <3>4. CASE FailStep(w) \/ RecordAttemptError(w)
      BY <3>4, MovesOn DEF FailStep, RecordAttemptError, PCs
    <3> QED
      BY <1>10, <3>1, <3>2, <3>3, <3>4 DEF Worker
  <2> USE <2>m DEF NoNewCompleter
  <2>1. CASE StartRun(w)
    BY <2>1 DEF StartRun
  <2>2. CASE MarkRunning(w)
    BY <2>2 DEF MarkRunning, Current
  <2>3. CASE MarkSucceeded(w)
    <3>1. StepOf(proc[w].job) \in Steps
      BY <2>3 DEF MarkSucceeded, TypeInv, StepHasStep, StepPCs
    <3>2. CASE Current(w)
      <4>1. /\ status = "processing" /\ UNCHANGED <<status, run, failureReason>>
            /\ rows' = [rows EXCEPT ![StepOf(proc[w].job)] = "succeeded"]
            /\ done' = done \cup {StepOf(proc[w].job)}
        BY <2>3, <3>2 DEF MarkSucceeded, Current
      <4> QED
        BY <3>1, <4>1
    <3> QED
      BY <2>3, <3>2 DEF MarkSucceeded
  <2>4. CASE FailStep(w)
    <3>1. StepOf(proc[w].job) \in Steps
      BY <2>4 DEF FailStep, TypeInv, StepHasStep, StepPCs
    <3>2. CASE Current(w)
      <4>1. /\ status' = "failed" /\ failureReason' = StepOf(proc[w].job) /\ run' = run
            /\ rows' = [rows EXCEPT ![StepOf(proc[w].job)] = "failed"]
            /\ done' = done \ {StepOf(proc[w].job)}
        BY <2>4, <3>2 DEF FailStep
      <4> QED
        BY <3>1, <4>1
    <3> QED
      BY <2>4, <3>2 DEF FailStep
  <2>5. CASE RecordAttemptError(w)
    BY <2>5 DEF RecordAttemptError, Current
  <2>6. CASE HandlerSucceeds(w) \/ Resolve(w) \/ Reject(w) \/ (\E fatal \in BOOLEAN : HandlerFails(w, fatal))
    BY <2>6, <1>1 DEF HandlerSucceeds, Resolve, Reject, HandlerFails, db
  <2> QED
    BY <1>10, <2>1, <2>2, <2>3, <2>4, <2>5, <2>6 DEF Worker
<1>11. ASSUME NEW q \in Procs, Engine(q) PROVE Good
  <2>1. CASE Advance(q)
    <3>1. UNCHANGED <<status, run, rows, done, failureReason>>
      BY <2>1 DEF Advance, db
    <3>2. CASE Unfinished = {} /\ Goto(q, "complete")
      <4>1. done = Steps
        BY <3>2 DEF Unfinished
      <4> QED
        BY <3>1, <4>1
    <3>3. CASE Leave(q)
      BY <3>1, <3>3, <1>1, MovesOn
    <3>4. ASSUME NEW s \in Handled, proc' = [proc EXCEPT ![q].pc = "enqueue", ![q].next = s]
          PROVE  Good
      <4>1. NoNewCompleter
        BY <3>4 DEF NoNewCompleter, TypeOK, ProcStates
      <4> QED
        BY <3>1, <4>1, <1>1
    <3> QED
      BY <2>1, <3>2, <3>3, <3>4 DEF Advance
  <2>2. CASE CompleteRun(q)
    <3>1. NoNewCompleter
      BY <2>2, MovesOn DEF CompleteRun, PCs
    <3>2. CASE Current(q)
      <4>1. done = Steps
        BY <2>2, <3>2 DEF CompleteRun, Current
      <4> QED
        BY <2>2, <3>2, <4>1 DEF CompleteRun, Current
    <3> QED
      BY <2>2, <3>1, <3>2, <1>1 DEF CompleteRun
  <2>3. CASE EnqueueStep(q) \/ ClaimPush(q) \/ SendPush(q)
    <3>1. NoNewCompleter
      BY <2>3, MovesOn DEF Unclaimed, EnqueueStep, ClaimPush, SendPush, PCs
    <3> QED
      BY <2>3, <3>1, <1>1 DEF Unclaimed, EnqueueStep, ClaimPush, SendPush, db
  <2> QED
    BY <1>11, <2>1, <2>2, <2>3 DEF Engine
<1> QED
  BY <1>3, <1>4, <1>5, <1>6, <1>7, <1>8, <1>9, <1>10, <1>11 DEF Next, Requests, Faults

\* In every reachable state a row says succeeded only for a step done since its last
\* reset, and a process about to complete the current run has seen them all.
THEOREM SafeCorrect == Spec => [](TypeInv /\ SafeInv)
<1>1. Init => TypeInv /\ SafeInv
  BY InitType, SafeInit
<1>2. TypeInv /\ SafeInv /\ [Next]_vars => TypeInv' /\ SafeInv'
  BY TypeStep, PastRunsStep, CoreStep DEF SafeInv
<1> QED
  BY <1>1, <1>2, PTL DEF Spec

\* A meeting is ready only when every step has succeeded since it was last asked
\* for, for any number of steps, workers, runs and faults.
THEOREM ReadyMeansDoneCorrect == Spec => []ReadyMeansDone
BY SafeCorrect, PTL DEF SafeInv

\* A failed meeting names a step whose row says failed.
THEOREM FailedNamesStepCorrect == Spec => []FailedNamesStep
BY SafeCorrect, PTL DEF SafeInv
-----------------------------------------------------------------------------
(* Across runs.                                                             *)

\* A newly queued run finds its job ids free in Redis: End and Reindex number it
\* past every job there is (PastRuns).
THEOREM NeverSwallowedCorrect == Spec => NeverSwallowed
<1> DEFINE Fresh == status # "queued" /\ status' = "queued"
                      => \A s \in 0..NSteps : jobs[<<run', s>>] = "absent"
<1>1. ASSUME TypeInv, PastRuns, [Next]_vars PROVE Fresh
  <2> SUFFICES ASSUME status # "queued", status' = "queued", NEW s \in 0..NSteps
               PROVE  jobs[<<run', s>>] = "absent"
    OBVIOUS
  <2>1. run' = run + 1 /\ run' \in Runs
    <3>1. End \/ \E scope \in {"changed", "full"} : Reindex(scope)
      BY <1>1, AfterType
      DEF Next, Requests, Delete, EnqueueAfterCommit, RequeueStranded, SweepScan, TimePasses, Take,
          Worker, StartRun, MarkRunning, HandlerSucceeds, HandlerFails, MarkSucceeded, FailStep,
          RecordAttemptError, Resolve, Reject, Engine, Advance, EnqueueStep, CompleteRun, ClaimPush,
          SendPush, Faults, LoseLock, Crash, Throw, LoseEnqueue, vars, db
    <3>2. run < MaxRuns /\ run' = run + 1
      BY <3>1 DEF End, Reindex, NewRun
    <3>3. run \in Nat
      BY <1>1, PipelineAssumption DEF TypeInv, TypeOK
    <3> QED
      BY <3>2, <3>3, PipelineAssumption DEF Runs
  <2>2. <<run', s>> \in JobIds /\ RunOf(<<run', s>>) = run'
    BY <2>1 DEF JobIds, RunOf
  <2>3. ~(run' <= run)
    BY <1>1, <2>1, PipelineAssumption DEF TypeInv, TypeOK
  <2> QED
    BY <1>1, <2>2, <2>3 DEF PastRuns
<1>2. TypeInv /\ PastRuns /\ [Next]_vars => [Fresh]_vars
  BY <1>1
<1>3. Spec => [](TypeInv /\ PastRuns)
  BY SafeCorrect, PTL DEF SafeInv
<1> QED
  BY <1>2, <1>3, PTL DEF Spec, NeverSwallowed

\* Whoever acts for a run that is no longer the meeting's leaves the meeting and
\* its rows alone: every write is guarded by the run number under the row lock.
THEOREM OldRunChangesNothingCorrect == Spec => OldRunChangesNothing
<1> DEFINE Old(p) == proc[p].job # NoJob /\ RunOf(proc[p].job) # run /\ proc'[p] # proc[p]
           Same == UNCHANGED <<status, run, rows, failureReason>>
<1>1. ASSUME TypeInv, [Next]_vars, NEW p \in Procs, Old(p) PROVE Same
  <2>0. proc \in [Procs -> ProcStates] /\ Workers \subseteq Procs /\ Sweeper \in Procs
    BY <1>1 DEF TypeInv, TypeOK, Procs
  <2>1. ASSUME NEW w \in Workers, Worker(w) PROVE Same
    <3>1. \A q \in Procs : proc'[q] # proc[q] => q = w
      BY <2>0, <2>1
      DEF Worker, StartRun, MarkRunning, HandlerSucceeds, HandlerFails, MarkSucceeded, FailStep,
          RecordAttemptError, Resolve, Reject, Goto
    <3>2. RunOf(proc[w].job) # run
      BY <1>1, <3>1
    <3> QED
      BY <2>1, <3>2
      DEF Worker, StartRun, MarkRunning, HandlerSucceeds, HandlerFails, MarkSucceeded, FailStep,
          RecordAttemptError, Resolve, Reject, Current, db
  <2>2. ASSUME NEW q \in Procs, Engine(q) PROVE Same
    <3>1. \A x \in Procs : proc'[x] # proc[x] => x = q
      BY <2>0, <2>2
      DEF Engine, Advance, EnqueueStep, CompleteRun, ClaimPush, SendPush, Goto, Leave
    <3>2. RunOf(proc[q].job) # run
      BY <1>1, <3>1
    <3> QED
      BY <2>2, <3>2 DEF Engine, Advance, EnqueueStep, CompleteRun, ClaimPush, SendPush, Current, db
  <2>3. CASE Requests
    BY <1>1, <2>3 DEF Requests, End, Reindex, Delete
  <2>4. CASE Faults
    BY <2>4 DEF Faults, LoseLock, Crash, Throw, LoseEnqueue, db
  <2> QED
    BY <1>1, <2>1, <2>2, <2>3, <2>4
    DEF Next, EnqueueAfterCommit, RequeueStranded, SweepScan, TimePasses, Take, vars, db
<1>2. TypeInv /\ [Next]_vars => [\A p \in Procs : Old(p) => Same]_vars
  BY <1>1
<1> QED
  BY <1>2, TypeCorrect, PTL DEF Spec, OldRunChangesNothing

(* One process at most holds the claim on the push, and only before it went *)
(* out; the claim is taken once.                                            *)
PushInv ==
  /\ \A p, q \in Procs : proc[p].pc = "push" /\ proc[q].pc = "push" => p = q
  /\ \A p \in Procs : proc[p].pc = "push" => notified /\ pushes = 0
  /\ ~notified => pushes = 0
  /\ AtMostOnePush

LEMMA PushStep == TypeInv /\ PushInv /\ [Next]_vars => PushInv'
<1> SUFFICES ASSUME TypeInv, PushInv, [Next]_vars PROVE PushInv'
  OBVIOUS
<1>0. /\ proc \in [Procs -> ProcStates] /\ Workers \subseteq Procs /\ Sweeper \in Procs
      /\ pushes \in Nat
  BY DEF TypeInv, TypeOK, Procs
<1> USE <1>0 DEF At
<1> DEFINE NoNewPusher == \A q \in Procs : proc'[q].pc = "push" => proc[q].pc = "push"
<1>1. CASE UNCHANGED <<notified, pushes>> /\ NoNewPusher
  BY <1>1 DEF PushInv, AtMostOnePush
<1>2. ASSUME NEW q \in Procs,
             \/ \E pc \in PCs \ {"push"} : Goto(q, pc)
             \/ Leave(q) \/ proc' = [proc EXCEPT ![q] = Idle]
      PROVE  NoNewPusher
  BY <1>2 DEF Goto, Leave, Idle, ProcStates
<1>3. CASE Requests \/ (\E r \in Runs : EnqueueAfterCommit(r) \/ LoseEnqueue(r)) \/ RequeueStranded
           \/ TimePasses \/ UNCHANGED vars
  BY <1>3, <1>1
  DEF Requests, End, Reindex, Delete, EnqueueAfterCommit, LoseEnqueue, RequeueStranded, TimePasses,
      vars, db
<1>4. CASE SweepScan
  <2>1. NoNewPusher
    BY <1>4 DEF SweepScan, Idle
  <2> QED
    BY <1>4, <2>1, <1>1 DEF SweepScan, db
<1>5. ASSUME NEW w \in Workers, NEW j \in JobIds, Take(w, j) PROVE PushInv'
  <2>1. NoNewPusher
    BY <1>5 DEF Take, Idle
  <2> QED
    BY <1>5, <2>1, <1>1 DEF Take, db
<1>6. ASSUME NEW w \in Workers, Worker(w) PROVE PushInv'
  <2>1. UNCHANGED <<notified, pushes>>
    BY <1>6
    DEF Worker, StartRun, MarkRunning, HandlerSucceeds, HandlerFails, MarkSucceeded, FailStep,
        RecordAttemptError, Resolve, Reject, db
  <2>2. NoNewPusher
    <3>1. ASSUME NEW fatal \in BOOLEAN, HandlerFails(w, fatal) PROVE NoNewPusher
      BY <3>1 DEF HandlerFails, ProcStates
    <3>2. CASE Resolve(w) \/ Reject(w)
      BY <3>2, <1>2 DEF Resolve, Reject
    <3>3. CASE StartRun(w) \/ MarkRunning(w) \/ HandlerSucceeds(w) \/ MarkSucceeded(w)
      BY <3>3, <1>2 DEF StartRun, MarkRunning, HandlerSucceeds, MarkSucceeded, PCs
    <3>4. CASE FailStep(w) \/ RecordAttemptError(w)
      BY <3>4, <1>2 DEF FailStep, RecordAttemptError, PCs
    <3> QED
      BY <1>6, <3>1, <3>2, <3>3, <3>4 DEF Worker
  <2> QED
    BY <2>1, <2>2, <1>1
<1>7. ASSUME NEW p \in Procs, Engine(p) PROVE PushInv'
  <2>1. CASE Advance(p) \/ EnqueueStep(p) \/ CompleteRun(p)
    <3>1. UNCHANGED <<notified, pushes>>
      BY <2>1 DEF Advance, EnqueueStep, CompleteRun, db
    <3>2. ASSUME NEW s \in Handled, proc' = [proc EXCEPT ![p].pc = "enqueue", ![p].next = s]
          PROVE  NoNewPusher
      BY <3>2 DEF ProcStates
    <3>3. NoNewPusher
      BY <2>1, <3>2, <1>2 DEF Advance, EnqueueStep, CompleteRun, PCs
    <3> QED
      BY <3>1, <3>3, <1>1
  <2>2. CASE ClaimPush(p)
    <3>1. CASE Unclaimed /\ notified' = TRUE /\ Goto(p, "push")
      <4>1. ~notified /\ pushes = 0 /\ \A q \in Procs : proc[q].pc # "push"
        BY <3>1 DEF Unclaimed, PushInv
      <4>2. \A q \in Procs : proc'[q].pc = "push" => q = p
        BY <3>1, <4>1 DEF Goto, ProcStates
      <4> QED
        BY <2>2, <3>1, <4>1, <4>2 DEF ClaimPush, PushInv, AtMostOnePush
    <3>2. CASE Leave(p) /\ UNCHANGED notified
      BY <2>2, <3>2, <1>1, <1>2 DEF ClaimPush
    <3> QED
      BY <2>2, <3>1, <3>2 DEF ClaimPush
  <2>3. CASE SendPush(p)
    <3>1. proc[p].pc = "push" /\ notified /\ pushes = 0 /\ pushes' \in {0, 1} /\ notified' = notified
      BY <2>3 DEF SendPush, PushInv, db
    <3>2. \A q \in Procs : proc'[q].pc # "push"
      <4>1. \A q \in Procs : q # p => proc[q].pc # "push"
        BY <3>1 DEF PushInv
      <4>2. \A q \in Procs : q # p => proc'[q] = proc[q]
        BY <2>3 DEF SendPush, Leave
      <4>3. proc'[p].pc \in {"idle", "resolved"}
        BY <2>3 DEF SendPush, Leave, Idle, ProcStates
      <4> QED
        BY <4>1, <4>2, <4>3
    <3> QED
      BY <3>1, <3>2 DEF PushInv, AtMostOnePush
  <2> QED
    BY <1>7, <2>1, <2>2, <2>3 DEF Engine
<1>8. CASE (\E w \in Workers : LoseLock(w)) \/ (\E p \in Procs : Crash(p) \/ Throw(p))
  <2>1. UNCHANGED <<notified, pushes>>
    BY <1>8 DEF LoseLock, Crash, Throw, db
  <2>2. ASSUME NEW w \in Workers, LoseLock(w) PROVE NoNewPusher
    BY <2>2 DEF LoseLock, ProcStates
  <2>3. ASSUME NEW p \in Procs, Crash(p) \/ Throw(p) PROVE NoNewPusher
    BY <2>3, <1>2 DEF Crash, Throw, PCs
  <2> QED
    BY <1>8, <2>1, <2>2, <2>3, <1>1
<1> QED
  BY <1>3, <1>4, <1>5, <1>6, <1>7, <1>8 DEF Next, Faults

\* The "meeting ready" push is handed to Expo at most once per meeting, over any
\* number of runs, workers, crashes and retries.
THEOREM AtMostOnePushCorrect == Spec => []AtMostOnePush
<1>1. Init => PushInv
  BY DEF Init, PushInv, AtMostOnePush, Idle
<1> QED
  BY <1>1, PushStep, TypeCorrect, PTL DEF Spec, PushInv
-----------------------------------------------------------------------------
(* The contract.                                                            *)

LEMMA ContractStep == TypeInv /\ SafeInv /\ [Next]_vars => [Contract!Next]_(Contract!vars)
<1> DEFINE Goal == [Contract!Next]_(Contract!vars)
<1> SUFFICES ASSUME TypeInv, SafeInv, [Next]_vars PROVE Goal
  OBVIOUS
<1>0. done \subseteq Steps /\ Contract!Steps = Steps
  BY DEF TypeInv, TypeOK, Contract!Steps, Steps
<1> USE <1>0, AfterType DEF Contract!vars
<1>1. CASE UNCHANGED <<status, run, done>>
  BY <1>1
<1>2. CASE End \/ \E scope \in {"changed", "full"} : Reindex(scope)
  <2>1. status \in Live \cup {"ready", "failed"}
    BY <1>2 DEF End, Reindex, CanMove, Transitions
  <2>2. done' \in SUBSET done /\ status' = "queued" /\ run < MaxRuns /\ run' = run + 1
    BY <1>2 DEF End, Reindex, NewRun
  <2>3. Contract!Queue
    BY <2>1, <2>2 DEF Contract!Queue, Contract!Live, Live
  <2> QED
    BY <2>3 DEF Contract!Next
<1>3. CASE Delete
  BY <1>3 DEF Delete, Contract!Delete, Contract!Next
<1>4. ASSUME NEW w \in Workers, Worker(w) PROVE Goal
  <2>1. CASE StartRun(w)
    <3>1. CASE status = "queued" /\ status' = "processing"
      BY <2>1, <3>1 DEF StartRun, Contract!Start, Contract!Next
    <3>2. CASE status' = status
      BY <2>1, <3>2, <1>1 DEF StartRun
    <3> QED
      BY <2>1, <3>1, <3>2 DEF StartRun
  <2>2. CASE MarkSucceeded(w)
    <3>1. StepOf(proc[w].job) \in Steps
      BY <2>2 DEF MarkSucceeded, At, TypeInv, StepHasStep, StepPCs, Procs
    <3>2. CASE Current(w)
      <4>1. Contract!StepDone(StepOf(proc[w].job))
        BY <2>2, <3>2 DEF MarkSucceeded, Current, Contract!StepDone
      <4> QED
        BY <3>1, <4>1 DEF Contract!Next
    <3> QED
      BY <2>2, <3>2, <1>1 DEF MarkSucceeded
  <2>3. CASE FailStep(w)
    <3>1. StepOf(proc[w].job) \in Steps
      BY <2>3 DEF FailStep, At, TypeInv, StepHasStep, StepPCs, Procs
    <3>2. CASE Current(w)
      <4>1. Contract!Fail(StepOf(proc[w].job))
        BY <2>3, <3>2 DEF FailStep, Current, Contract!Fail
      <4> QED
        BY <3>1, <4>1 DEF Contract!Next
    <3> QED
      BY <2>3, <3>2, <1>1 DEF FailStep
  <2> QED
    BY <1>4, <2>1, <2>2, <2>3, <1>1
    DEF Worker, MarkRunning, HandlerSucceeds, HandlerFails, RecordAttemptError, Resolve, Reject, db
<1>5. ASSUME NEW p \in Procs, Engine(p) PROVE Goal
  <2>1. CASE CompleteRun(p)
    <3>1. CASE Current(p)
      <4>1. done = Steps
        BY <2>1, <3>1 DEF CompleteRun, At, Current, SafeInv, CompleteKnows
      <4>2. Contract!Complete
        BY <2>1, <3>1, <4>1 DEF CompleteRun, Current, Contract!Complete
      <4> QED
        BY <4>2 DEF Contract!Next
    <3> QED
      BY <2>1, <3>1, <1>1 DEF CompleteRun
  <2> QED
    BY <1>5, <2>1, <1>1 DEF Engine, Advance, EnqueueStep, ClaimPush, SendPush, db
<1>6. CASE Faults
  BY <1>6, <1>1 DEF Faults, LoseLock, Crash, Throw, LoseEnqueue, db
<1> QED
  BY <1>1, <1>2, <1>3, <1>4, <1>5, <1>6
  DEF Next, Requests, EnqueueAfterCommit, RequeueStranded, SweepScan, TimePasses, Take, vars, db

\* The engine, with its workers, sweeps, retries and faults, shows clients nothing
\* but the lifecycle of PipelineContract.
THEOREM ImplementsContractCorrect == Spec => ImplementsContract
<1>1. Init => Contract!Init
  BY DEF Init, Contract!Init
<1> QED
  BY <1>1, ContractStep, SafeCorrect, PTL DEF Spec, ImplementsContract, Contract!Spec
=============================================================================

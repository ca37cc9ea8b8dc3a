------------------------------ MODULE Pipeline ------------------------------
(***************************************************************************)
(* The post-meeting pipeline of one meeting: the engine that runs the      *)
(* steps (pipeline-engine.ts), the durable rows it keeps in PostgreSQL     *)
(* (pipeline-store.ts), the re-index request (pipeline-control.service.ts),*)
(* the hand-over to BullMQ (meeting-pipeline.trigger.ts, bull-step-queue.ts)*)
(* the maintenance sweeps (abandoned-meeting.job.ts, resumeStalled) and    *)
(* the "ready" push (meeting-ready.notifier.ts).                           *)
(*                                                                         *)
(* One action per transaction or awaited call, so every interleaving of    *)
(* two workers, the sweep and the HTTP requests between two awaits is      *)
(* explored.  Meetings share no pipeline state, so one meeting is enough.  *)
(***************************************************************************)
EXTENDS Integers, MeetingLifecycle

CONSTANTS
  NSteps,       \* length of STEP_ORDER (five in production)
  Handled,      \* the steps the registry has a handler for
  MaxAttempts,  \* STEP_ATTEMPTS: attempts BullMQ gives a step job
  Workers,      \* BullMQ worker slots (STEP_CONCURRENCY)
  Sweeper,      \* the meeting-maintenance worker
  MaxRuns,      \* bound: (re)queues of the meeting that are explored
  MaxFaults     \* bound: crashes, lost locks, failing calls to PostgreSQL, Redis, Expo

Steps == 1..NSteps
Runs == 1..MaxRuns
Procs == Workers \cup {Sweeper}

ASSUME PipelineAssumption ==
  /\ NSteps \in Nat \ {0}
  /\ Handled \subseteq Steps
  /\ MaxAttempts \in Nat \ {0}
  /\ MaxRuns \in Nat
  /\ MaxFaults \in Nat
  /\ Sweeper \notin Workers

\* BullMQ job ids: <<r, 0>> is the run job <m>-r<r>, <<r, s>> the step job
\* <m>-r<r>-<step>.
JobIds == Runs \X (0..NSteps)
StepOf(j) == j[2]
RunOf(j) == j[1]
NoJob == <<0, 0>>

VARIABLES
  \* PostgreSQL
  status,         \* meetings.status, or "deleted"
  run,            \* meetings.pipeline_run
  failureReason,  \* meetings.failure_reason: a step, 0 for NULL
  rows,           \* processing_jobs.status per step, "none" when there is no row
  quiet,          \* meetings.updated_at is older than the sweeps' thresholds
  notified,       \* meetings.ready_notified_at is set
  \* Redis
  jobs,           \* BullMQ: state of each job id
  attemptsMade,   \* BullMQ: attemptsMade of each job
  \* API processes
  outbox,         \* runs committed as queued whose enqueue call is still to come
  proc,           \* what each worker slot and the sweeper are doing
  pushes,         \* "meeting ready" pushes handed to Expo
  \* history and bounds
  done,           \* history: steps recorded as succeeded since their row was last reset
  faults          \* faults injected so far

db == <<status, run, failureReason, rows, notified>>
redis == <<jobs, attemptsMade>>
vars == <<db, quiet, redis, outbox, proc, pushes, done, faults>>

RowStates == {"none", "pending", "running", "succeeded", "failed"}
JobStates == {"absent", "waiting", "active"}
PCs == {"idle", "start", "mark", "running", "record", "fail", "advance", "enqueue",
        "complete", "claim", "push", "resolved", "rejected"}

\* job: the job in hand (for the sweep, <<run, 0>> of the run it re-drives);
\* attempt: job.attemptsMade when it was fetched; next: the step advance() read;
\* fatal: the handler threw NonRetryableStepError; owns: the BullMQ lock is held.
ProcStates == [pc: PCs, job: JobIds \cup {NoJob}, attempt: Nat,
               next: Steps \cup {0}, fatal: BOOLEAN, owns: BOOLEAN]

Idle == [pc |-> "idle", job |-> NoJob, attempt |-> 0, next |-> 0, fatal |-> FALSE, owns |-> FALSE]

Init ==
  /\ status = "recording" /\ run = 0 /\ failureReason = 0 /\ notified = FALSE
  /\ rows = [s \in Steps |-> "none"]
  /\ quiet = FALSE
  /\ jobs = [j \in JobIds |-> "absent"]
  /\ attemptsMade = [j \in JobIds |-> 0]
  /\ outbox = {}
  /\ proc = [p \in Procs |-> Idle]
  /\ pushes = 0
  /\ done = {} /\ faults = 0

Goto(p, pc) == proc' = [proc EXCEPT ![p].pc = pc]
At(p, pc) == proc[p].pc = pc
Fault == faults < MaxFaults /\ faults' = faults + 1
NoFault == UNCHANGED faults

-----------------------------------------------------------------------------
(* BullMQ: add() is a no-op while a job with that id exists; the id is free *)
(* again once the job completed or failed (removeOnComplete, removeOnFail). *)

Add(j) == jobs' = IF jobs[j] = "absent" THEN [jobs EXCEPT ![j] = "waiting"] ELSE jobs
BadRemove_KeepsId(j) == UNCHANGED redis
Remove(j) == /\ jobs' = [jobs EXCEPT ![j] = "absent"]
             /\ attemptsMade' = [attemptsMade EXCEPT ![j] = 0]

\* A worker slot fetches a waiting job and its processor is called.
Take(w, j) ==
  /\ At(w, "idle") /\ jobs[j] = "waiting"
  /\ jobs' = [jobs EXCEPT ![j] = "active"]
  /\ proc' = [proc EXCEPT ![w] = [Idle EXCEPT !.pc = IF StepOf(j) = 0 THEN "start" ELSE "mark",
                                              !.job = j, !.attempt = attemptsMade[j], !.owns = TRUE]]
  /\ UNCHANGED <<db, quiet, attemptsMade, outbox, pushes, done, faults>>

\* The processor's promise resolved: the job is complete and its id is free.
Resolve(w) ==
  /\ At(w, "resolved")
  /\ IF proc[w].owns THEN Remove(proc[w].job) ELSE UNCHANGED redis
  /\ proc' = [proc EXCEPT ![w] = Idle]
  /\ UNCHANGED <<db, quiet, outbox, pushes, done, faults>>

\* The promise was rejected: retried after the backoff while attempts are left
\* (a run job has one), unless UnrecoverableError; then removed.
Attempts(j) == IF StepOf(j) = 0 THEN 1 ELSE MaxAttempts
Reject(w) ==
  LET j == proc[w].job IN
  /\ At(w, "rejected")
  /\ \/ ~proc[w].owns /\ UNCHANGED redis
     \/ /\ proc[w].owns /\ ~proc[w].fatal /\ proc[w].attempt + 1 < Attempts(j)
        /\ jobs' = [jobs EXCEPT ![j] = "waiting"]
        /\ attemptsMade' = [attemptsMade EXCEPT ![j] = proc[w].attempt + 1]
     \/ /\ proc[w].owns /\ (proc[w].fatal \/ proc[w].attempt + 1 >= Attempts(j))
        /\ Remove(j)
  /\ proc' = [proc EXCEPT ![w] = Idle]
  /\ UNCHANGED <<db, quiet, outbox, pushes, done, faults>>

\* The job's lock expires: the stalled check moves it back to waiting, or fails
\* it when it stalled more often than allowed.  The process died (Crash) or is
\* merely late and goes on working (LoseLock).
Stalled(j) == \/ jobs' = [jobs EXCEPT ![j] = "waiting"] /\ UNCHANGED attemptsMade
              \/ Remove(j)

Crash(p) ==
  /\ ~At(p, "idle") /\ Fault
  /\ IF proc[p].owns THEN Stalled(proc[p].job) ELSE UNCHANGED redis
  /\ proc' = [proc EXCEPT ![p] = Idle]
  /\ UNCHANGED <<db, quiet, outbox, pushes, done>>

LoseLock(w) ==
  /\ proc[w].owns /\ Fault
  /\ Stalled(proc[w].job)
  /\ proc' = [proc EXCEPT ![w].owns = FALSE]
  /\ UNCHANGED <<db, quiet, outbox, pushes, done>>

-----------------------------------------------------------------------------
(* Requests and sweeps that queue a run.                                    *)

\* The transaction counts a new run; enqueueAfterCommit is a later, separate call.
BadNewRun_EnqueuesOldRun == run < MaxRuns /\ run' = run + 1 /\ outbox' = outbox \cup {run}
BadNewRun_NotCounted ==
  /\ run < MaxRuns /\ run' = (IF run = 0 THEN 1 ELSE run) /\ outbox' = outbox \cup {run'}
NewRun == run < MaxRuns /\ run' = run + 1 /\ outbox' = outbox \cup {run + 1}

\* end + enqueue in one transaction: the "ended" status is never visible.
End ==
  /\ status \in Live /\ CanMove(After("end"), "enqueue")
  /\ status' = After("enqueue")
  /\ NewRun
  /\ quiet' = FALSE
  /\ UNCHANGED <<failureReason, rows, notified, redis, proc, pushes, done, faults>>

Reset(resume) == {s \in Steps : IF resume THEN rows[s] = "failed" ELSE rows[s] # "none"}

\* scope `changed` on a failed meeting resumes it: only failed rows go back.
\* The check for unprocessed edits is a matter of the transcript, not modelled here.
Reindex(scope) ==
  LET reset == Reset(scope = "changed" /\ status = "failed") IN
  /\ CanMove(status, "requeue")
  /\ rows' = [s \in Steps |-> IF s \in reset THEN "pending" ELSE rows[s]]
  /\ done' = done \ reset
  /\ status' = After("requeue")
  /\ failureReason' = 0
  /\ NewRun
  /\ quiet' = FALSE
  /\ UNCHANGED <<notified, redis, proc, pushes, faults>>

EnqueueAfterCommit(r) ==
  /\ r \in outbox
  /\ outbox' = outbox \ {r}
  /\ Add(<<r, 0>>)
  /\ UNCHANGED <<db, quiet, attemptsMade, proc, pushes, done, faults>>

\* Redis refuses the add (the error is swallowed) or the API dies before it.
LoseEnqueue(r) ==
  /\ r \in outbox /\ Fault
  /\ outbox' = outbox \ {r}
  /\ UNCHANGED <<db, quiet, redis, proc, pushes, done>>

\* requeueStrandedMeetings: reads status and run, then enqueues that run.
RequeueStranded ==
  /\ status = "queued" /\ quiet /\ run \notin outbox
  /\ outbox' = outbox \cup {run}
  /\ UNCHANGED <<db, quiet, redis, proc, pushes, done, faults>>

\* The row and everything that hangs on it are deleted.
Delete ==
  /\ status # "deleted"
  /\ status' = "deleted"
  /\ rows' = [s \in Steps |-> "none"]
  /\ failureReason' = 0
  /\ done' = {}
  /\ UNCHANGED <<run, notified, quiet, redis, outbox, proc, pushes, faults>>

\* updated_at grows older than the sweeps' thresholds (5 and 10 minutes).
TimePasses ==
  /\ ~quiet /\ status # "deleted"
  /\ quiet' = TRUE
  /\ UNCHANGED <<db, redis, outbox, proc, pushes, done, faults>>

-----------------------------------------------------------------------------
(* The engine.                                                              *)

\* stepWrite's re-check under the row lock: current run, still processing.
BadCurrent_AnyRun(p) == status = "processing"
BadCurrent_AnyStatus(p) == RunOf(proc[p].job) = run
BadCurrent_AlsoFailed(p) == RunOf(proc[p].job) = run /\ status \in {"processing", "failed"}
Current(p) == RunOf(proc[p].job) = run /\ status = "processing"

StartRun(w) ==
  /\ At(w, "start")
  /\ \/ /\ RunOf(proc[w].job) = run /\ status \in {"queued", "processing"}
        /\ status' = After("start_processing")
        /\ quiet' = IF status = "queued" THEN FALSE ELSE quiet
        /\ rows' = [s \in Steps |-> IF rows[s] = "none" THEN "pending" ELSE rows[s]]
        /\ Goto(w, "advance")
     \/ /\ ~(RunOf(proc[w].job) = run /\ status \in {"queued", "processing"})
        /\ Goto(w, "resolved")
        /\ UNCHANGED <<status, quiet, rows>>
  /\ UNCHANGED <<run, failureReason, notified, redis, outbox, pushes, done, faults>>

\* resumeStalled's scan: the run it found, to be advanced later.
SweepScan ==
  /\ At(Sweeper, "idle") /\ status = "processing" /\ quiet
  /\ proc' = [proc EXCEPT ![Sweeper] = [Idle EXCEPT !.pc = "advance", !.job = <<run, 0>>]]
  /\ UNCHANGED <<db, quiet, redis, outbox, pushes, done, faults>>

\* nextStep: read outside any lock and whatever run the rows belong to now.
BadUnfinished_RunningIsDone == {s \in Steps : rows[s] \notin {"succeeded", "running"}}
Unfinished == {s \in Steps : rows[s] # "succeeded"}
IsNext(s) == s \in Unfinished /\ \A t \in Unfinished : s <= t
Leave(p) == IF p = Sweeper THEN proc' = [proc EXCEPT ![p] = Idle]
            ELSE proc' = [proc EXCEPT ![p].pc = "resolved", ![p].next = 0]

Advance(p) ==
  /\ At(p, "advance")
  /\ \/ Unfinished = {} /\ Goto(p, "complete")
     \/ \E s \in Steps \ Handled : IsNext(s) /\ Leave(p)
     \/ \E s \in Handled : /\ IsNext(s)
                          /\ proc' = [proc EXCEPT ![p].pc = "enqueue", ![p].next = s]
  /\ UNCHANGED <<db, quiet, redis, outbox, pushes, done, faults>>

EnqueueStep(p) ==
  /\ At(p, "enqueue")
  /\ Add(<<RunOf(proc[p].job), proc[p].next>>)
  /\ Leave(p)
  /\ UNCHANGED <<db, quiet, attemptsMade, outbox, pushes, done, faults>>

CompleteRun(p) ==
  /\ At(p, "complete")
  /\ \/ /\ Current(p)
        /\ status' = After("complete") /\ failureReason' = 0 /\ quiet' = FALSE
        /\ Goto(p, "claim")
     \/ ~Current(p) /\ Leave(p) /\ UNCHANGED <<status, failureReason, quiet>>
  /\ UNCHANGED <<run, rows, notified, redis, outbox, pushes, done, faults>>

\* current() and markRunning make the same check; the second, under the lock,
\* decides.  It reports true even when the row already succeeded.
MarkRunning(w) ==
  LET s == StepOf(proc[w].job) IN
  /\ At(w, "mark")
  /\ \/ /\ Current(w) /\ s \in Handled
        /\ rows' = IF rows[s] # "succeeded" THEN [rows EXCEPT ![s] = "running"] ELSE rows
        /\ quiet' = FALSE
        /\ Goto(w, "running")
     \/ /\ ~(Current(w) /\ s \in Handled)
        /\ Goto(w, "resolved")
        /\ UNCHANGED <<rows, quiet>>
  /\ UNCHANGED <<status, run, failureReason, notified, redis, outbox, pushes, done, faults>>

HandlerSucceeds(w) ==
  /\ At(w, "running")
  /\ Goto(w, "record")
  /\ UNCHANGED <<db, quiet, redis, outbox, pushes, done, faults>>

\* The handler throws, or loses the race against the step's time budget.
HandlerFails(w, fatal) ==
  /\ At(w, "running")
  /\ proc' = [proc EXCEPT ![w].pc = "fail", ![w].fatal = fatal]
  /\ UNCHANGED <<db, quiet, redis, outbox, pushes, done, faults>>

MarkSucceeded(w) ==
  LET s == StepOf(proc[w].job) IN
  /\ At(w, "record")
  /\ \/ /\ Current(w)
        /\ rows' = [rows EXCEPT ![s] = "succeeded"]
        /\ done' = done \cup {s}
        /\ quiet' = FALSE
        /\ Goto(w, "advance")
     \/ ~Current(w) /\ Goto(w, "resolved") /\ UNCHANGED <<rows, done, quiet>>
  /\ UNCHANGED <<status, run, failureReason, notified, redis, outbox, pushes, faults>>

\* The last attempt, or an error retrying cannot fix: step and meeting fail.
Final(w) == proc[w].fatal \/ proc[w].attempt + 1 >= MaxAttempts

FailStep(w) ==
  LET s == StepOf(proc[w].job) IN
  /\ At(w, "fail") /\ Final(w)
  /\ \/ /\ Current(w)
        /\ rows' = [rows EXCEPT ![s] = "failed"]
        /\ status' = After("fail") /\ failureReason' = s
        /\ done' = done \ {s}
        /\ quiet' = FALSE
     \/ ~Current(w) /\ UNCHANGED <<rows, status, failureReason, done, quiet>>
  /\ Goto(w, "rejected")
  /\ UNCHANGED <<run, notified, redis, outbox, pushes, faults>>

RecordAttemptError(w) ==
  LET s == StepOf(proc[w].job) IN
  /\ At(w, "fail") /\ ~Final(w)
  /\ \/ /\ Current(w)
        /\ rows' = [rows EXCEPT ![s] = "pending"]
        /\ quiet' = FALSE
     \/ ~Current(w) /\ UNCHANGED <<rows, quiet>>
  /\ Goto(w, "rejected")
  /\ UNCHANGED <<status, run, failureReason, notified, redis, outbox, pushes, done, faults>>

\* meetingReady -> notify: claim ready_notified_at, then send.  Never throws.
BadUnclaimed_NotChecked == status # "deleted"
Unclaimed == ~notified /\ status # "deleted"

ClaimPush(p) ==
  /\ At(p, "claim")
  /\ \/ Unclaimed /\ notified' = TRUE /\ Goto(p, "push")
     \/ ~Unclaimed /\ Leave(p) /\ UNCHANGED notified
  /\ UNCHANGED <<status, run, failureReason, rows, quiet, redis, outbox, pushes, done, faults>>

SendPush(p) ==
  /\ At(p, "push")
  /\ \/ pushes' = pushes + 1 /\ NoFault
     \/ Fault /\ UNCHANGED pushes      \* Expo unreachable: logged and swallowed
  /\ Leave(p)
  /\ UNCHANGED <<db, quiet, redis, outbox, done>>

\* PostgreSQL or Redis fails under an await outside the handler's try block:
\* the job is rejected, the sweep gives up until its next turn.
Throw(p) ==
  /\ proc[p].pc \in {"start", "mark", "record", "fail", "advance", "enqueue", "complete"}
  /\ Fault
  /\ IF p = Sweeper THEN proc' = [proc EXCEPT ![p] = Idle] ELSE Goto(p, "rejected")
  /\ UNCHANGED <<db, quiet, redis, outbox, pushes, done>>

-----------------------------------------------------------------------------
Engine(p) == Advance(p) \/ EnqueueStep(p) \/ CompleteRun(p) \/ ClaimPush(p) \/ SendPush(p)

Worker(w) ==
  \/ StartRun(w) \/ MarkRunning(w) \/ HandlerSucceeds(w)
  \/ \E fatal \in BOOLEAN : HandlerFails(w, fatal)
  \/ MarkSucceeded(w) \/ FailStep(w) \/ RecordAttemptError(w)
  \/ Resolve(w) \/ Reject(w)

Requests == End \/ (\E scope \in {"changed", "full"} : Reindex(scope)) \/ Delete

Faults ==
  \/ \E w \in Workers : LoseLock(w)
  \/ \E p \in Procs : Crash(p) \/ Throw(p)
  \/ \E r \in Runs : LoseEnqueue(r)

Next ==
  \/ Requests
  \/ \E r \in Runs : EnqueueAfterCommit(r)
  \/ RequeueStranded \/ SweepScan \/ TimePasses
  \/ \E w \in Workers, j \in JobIds : Take(w, j)
  \/ \E w \in Workers : Worker(w)
  \/ \E p \in Procs : Engine(p)
  \/ Faults

Spec == Init /\ [][Next]_vars

(* Fairness: BullMQ hands out waiting jobs, a fetched job keeps executing   *)
(* (a handler ends within its time budget), the API makes the call after    *)
(* its commit, the schedulers fire for ever.  Nothing is assumed of the     *)
(* user or of faults.                                                       *)
Fairness ==
  /\ \A r \in Runs : WF_vars(EnqueueAfterCommit(r))
  /\ WF_vars(RequeueStranded) /\ WF_vars(SweepScan) /\ WF_vars(TimePasses)
  /\ \A j \in JobIds : WF_vars(\E w \in Workers : Take(w, j))
  /\ \A w \in Workers : WF_vars(Worker(w))
  /\ \A p \in Procs : WF_vars(Engine(p))

FairSpec == Spec /\ Fairness

-----------------------------------------------------------------------------
(* Properties.                                                              *)

\* The types of the variables.
TypeOK ==
  /\ status \in Statuses \cup {"deleted"} /\ run \in 0..MaxRuns
  /\ failureReason \in 0..NSteps
  /\ rows \in [Steps -> RowStates]
  /\ notified \in BOOLEAN /\ quiet \in BOOLEAN
  /\ jobs \in [JobIds -> JobStates] /\ attemptsMade \in [JobIds -> Nat]
  /\ outbox \subseteq Runs
  /\ proc \in [Procs -> ProcStates]
  /\ pushes \in Nat /\ done \subseteq Steps /\ faults \in Nat

\* A meeting is shown as ready only when every step has succeeded since it was
\* last asked for, however workers, sweeps and old runs interleave
\* (advance/completeRun: nextStep is read outside the lock).
ReadyMeansDone == status = "ready" => done = Steps

\* A failed meeting names a step whose own row says failed, so a resume always
\* finds something to redo (failStep, reindex).
FailedNamesStep == status = "failed" => failureReason \in Steps /\ rows[failureReason] = "failed"

\* The push goes out at most once for a meeting, over all its runs, retries and
\* concurrent workers (MeetingReadyNotifier).
AtMostOnePush == pushes <= 1

\* A newly queued run finds none of its job ids in Redis, so none of its jobs is
\* swallowed as a duplicate of an older one (reindex, MeetingPipelineTrigger).
NeverSwallowed ==
  [][status # "queued" /\ status' = "queued"
       => \A s \in 0..NSteps : jobs[<<run', s>>] = "absent"]_vars

\* A worker or sweep still holding an older run changes neither the meeting nor
\* its rows, wherever it was when the run was superseded (PipelineStore).
OldRunChangesNothing ==
  [][\A p \in Procs : proc[p].job # NoJob /\ RunOf(proc[p].job) # run /\ proc'[p] # proc[p]
       => UNCHANGED <<status, run, rows, failureReason>>]_vars

\* A queued meeting ends up ready or failed, whatever was lost on the way: a job
\* that never reached Redis, a crash between two steps, a stalled worker.  Only a
\* handler that fails retryably for ever, each time between a sweep's read of the
\* rows and its add(), can keep two steps re-opening each other (see the README).
HandlersRecover == <>[][\A w \in Workers : HandlerFails(w, FALSE) => Final(w)]_vars
QueuedIsProcessed ==
  HandlersRecover => (status = "queued" ~> status \in {"ready", "failed", "deleted"})

(* What clients may rely on: see PipelineContract.                          *)
Contract ==
  INSTANCE PipelineContract
    WITH status <- status, run <- run, done <- done, NSteps <- NSteps, MaxRuns <- MaxRuns
ImplementsContract == Contract!Spec
=============================================================================

-------------------------- MODULE PipelineContract --------------------------
(***************************************************************************)
(* What a meeting's pipeline promises its clients, without workers, jobs,  *)
(* sweeps or faults: the meeting moves along its lifecycle, each (re)queue *)
(* is a new run, and it is ready only when every step is done.             *)
(***************************************************************************)
EXTENDS Integers, MeetingLifecycle

CONSTANTS NSteps, MaxRuns
VARIABLES status, run, done

vars == <<status, run, done>>
Steps == 1..NSteps

Init == status = "recording" /\ run = 0 /\ done = {}

Queue ==
  /\ status \in Live \cup {"ready", "failed"} /\ run < MaxRuns
  /\ status' = "queued" /\ run' = run + 1
  /\ done' \in SUBSET done

Start == status = "queued" /\ status' = "processing" /\ UNCHANGED <<run, done>>

StepDone(s) == status = "processing" /\ done' = done \cup {s} /\ UNCHANGED <<status, run>>

Fail(s) ==
  /\ status = "processing" /\ status' = "failed"
  /\ done' = done \ {s}
  /\ UNCHANGED run

Complete ==
  /\ status = "processing" /\ done = Steps
  /\ status' = "ready"
  /\ UNCHANGED <<run, done>>

Delete == status # "deleted" /\ status' = "deleted" /\ done' = {} /\ UNCHANGED run

Next ==
  \/ Queue \/ Start \/ Complete \/ Delete
  \/ \E s \in Steps : StepDone(s) \/ Fail(s)

Spec == Init /\ [][Next]_vars
=============================================================================

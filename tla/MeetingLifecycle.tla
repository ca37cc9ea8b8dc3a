-------------------------- MODULE MeetingLifecycle --------------------------
(***************************************************************************)
(* The one table that decides which lifecycle moves of a meeting are legal *)
(* (apps/api/src/meetings/meeting-state-machine.ts).  Every module that    *)
(* changes a meeting's status goes through CanMove and After, as every     *)
(* service of the API goes through transition().                           *)
(***************************************************************************)

Statuses == {"recording", "paused", "ended", "queued", "processing", "ready", "failed"}

\* The two statuses of a meeting that is still on the phone.
Live == {"recording", "paused"}

Transitions ==
  [pause            |-> [from |-> {"recording"},           to |-> "paused"],
   resume           |-> [from |-> {"paused"},              to |-> "recording"],
   end              |-> [from |-> {"recording", "paused"}, to |-> "ended"],
   enqueue          |-> [from |-> {"ended"},               to |-> "queued"],
   start_processing |-> [from |-> {"queued"},              to |-> "processing"],
   complete         |-> [from |-> {"processing"},          to |-> "ready"],
   fail             |-> [from |-> {"processing"},          to |-> "failed"],
   requeue          |-> [from |-> {"failed", "ready"},     to |-> "queued"]]

\* transition() returns rule.to or throws 409 INVALID_STATE_TRANSITION:
\* CanMove is "does not throw", After is the value returned.
CanMove(status, action) == status \in Transitions[action].from
After(action) == Transitions[action].to

\* Late segments are kept until the pipeline starts reading the transcript.
AcceptsSegments == {"recording", "paused", "ended", "queued"}

\* Statuses in which a transcript line may be corrected.
Editable == {"queued", "ready", "failed"}
=============================================================================

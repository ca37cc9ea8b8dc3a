---------------------------- MODULE GeminiCalls ----------------------------
(***************************************************************************)
(* Calls to Gemini (gemini.client.ts, gemini-call-runner.ts,               *)
(* gemini-key-pool.ts, usage-tracker.ts): bounded concurrency, several     *)
(* keys in turn, keys that rest or are dropped, retries, aborts, and the   *)
(* accounting of what was billed.  All calls are of one user.              *)
(*                                                                         *)
(* A finished call hands its place to the first that waits: the waiter     *)
(* resumes in a microtask, before anything else can run.                   *)
(***************************************************************************)
EXTENDS Integers, Sequences, FiniteSets, SequencesExt

CONSTANTS
  Callers,         \* calls
  Keys,            \* 1..n, in GEMINI_API_KEY's order
  MaxConcurrency, Retries,
  MaxTime,         \* bound: the clock
  MaxErrors,       \* bound: answers that are not a result
  CallBudget       \* monthly_token_budget, in calls

ASSUME CallsAssumption ==
  /\ IsFiniteSet(Callers)
  /\ Keys = 1..Cardinality(Keys) /\ Keys # {} /\ MaxConcurrency \in Nat \ {0} /\ Retries \in Nat
  /\ MaxTime \in Nat /\ MaxErrors \in Nat /\ CallBudget \in Nat

VARIABLES
  clock,
  restingUntil, \* per key
  disabled,     \* keys Gemini rejected as invalid
  cursor,       \* the key whose turn it is
  calls,        \* calls[c]: [st, key, failures]
  aborted,      \* calls whose AbortSignal fired
  inside,       \* GeminiCallRunner.active
  waiting,      \* GeminiCallRunner.waiting
  recorded,     \* usage_records of the month
  errorsLeft

callVars == <<clock, restingUntil, disabled, cursor, calls, aborted, inside, waiting, recorded, errorsLeft>>

\* "ready" is about to take a key; "answered" has a result whose usage row is not written yet.
CallStates == {"new", "waiting", "ready", "calling", "backoff", "answered", "done", "failed"}
InSlot == {"ready", "calling", "backoff"}

CallsTypeOK ==
  /\ clock \in 0..MaxTime /\ restingUntil \in [Keys -> 0..(2 * MaxTime + 2)]
  /\ disabled \subseteq Keys /\ cursor \in Keys
  /\ calls \in [Callers -> [st : CallStates, key : {0} \union Keys, failures : 0..(Retries + 1)]]
  /\ aborted \subseteq Callers /\ inside \in 0..MaxConcurrency /\ waiting \in Seq(Callers)
  /\ recorded \in 0..Cardinality(Callers)

CallsInit ==
  /\ clock = 0 /\ restingUntil = [k \in Keys |-> 0] /\ disabled = {} /\ cursor = 1
  /\ calls = [c \in Callers |-> [st |-> "new", key |-> 0, failures |-> 0]]
  /\ aborted = {} /\ inside = 0 /\ waiting = <<>> /\ recorded = 0 /\ errorsLeft = MaxErrors

Becomes(c, st) == [calls EXCEPT ![c].st = st]

\* The budget is checked, then a place is taken or waited for.
Call(c) ==
  /\ calls[c].st = "new"
  /\ IF recorded >= CallBudget \/ c \in aborted
     THEN calls' = Becomes(c, "failed") /\ UNCHANGED <<inside, waiting>>
     ELSE IF inside >= MaxConcurrency
     THEN calls' = Becomes(c, "waiting") /\ waiting' = Append(waiting, c) /\ UNCHANGED inside
     ELSE calls' = Becomes(c, "ready") /\ inside' = inside + 1 /\ UNCHANGED waiting
  /\ UNCHANGED <<clock, restingUntil, disabled, cursor, aborted, recorded, errorsLeft>>

\* run's finally: the place is freed and goes to the first in the queue.
Leave(c, st) ==
  IF waiting = <<>> THEN calls' = Becomes(c, st) /\ inside' = inside - 1 /\ UNCHANGED waiting
  ELSE /\ calls' = [Becomes(c, st) EXCEPT ![Head(waiting)].st = "ready"]
       /\ waiting' = Tail(waiting) /\ UNCHANGED inside

\* acquire: the keys in turn from the cursor.
Usable(k) == k \notin disabled /\ restingUntil[k] <= clock
After(k, n) == ((k + n - 1) % Cardinality(Keys)) + 1
Turns == {n \in 0..(Cardinality(Keys) - 1) : Usable(After(cursor, n))}
Acquire(c) ==
  /\ calls[c].st = "ready"
  /\ IF c \in aborted THEN Leave(c, "failed") /\ UNCHANGED cursor
     ELSE IF Turns = {} THEN Leave(c, "failed") /\ UNCHANGED cursor
     ELSE LET k == After(cursor, CHOOSE n \in Turns : \A m \in Turns : n <= m)
          IN /\ calls' = [calls EXCEPT ![c] = [st |-> "calling", key |-> k, failures |-> @.failures]]
             /\ cursor' = After(k, 1) /\ UNCHANGED <<inside, waiting>>
  /\ UNCHANGED <<clock, restingUntil, disabled, aborted, recorded, errorsLeft>>

Answered(c) ==
  /\ calls[c].st = "calling" /\ c \notin aborted /\ Leave(c, "answered")
  /\ UNCHANGED <<clock, restingUntil, disabled, cursor, aborted, recorded, errorsLeft>>

\* 429: the key rests as long as this error says, and another is tried at once.
Busy(c) ==
  /\ calls[c].st = "calling" /\ errorsLeft > 0 /\ errorsLeft' = errorsLeft - 1
  /\ \E delay \in 1..(MaxTime + 1) : restingUntil' = [restingUntil EXCEPT ![calls[c].key] = clock + delay]
  /\ calls' = Becomes(c, "ready")
  /\ UNCHANGED <<clock, disabled, cursor, aborted, inside, waiting, recorded>>
InvalidKey(c) ==
  /\ calls[c].st = "calling" /\ errorsLeft > 0 /\ errorsLeft' = errorsLeft - 1
  /\ disabled' = disabled \union {calls[c].key} /\ calls' = Becomes(c, "ready")
  /\ UNCHANGED <<clock, restingUntil, cursor, aborted, inside, waiting, recorded>>

\* 5xx, the network, or the abort of the request itself: back off, up to Retries times.
ServerFails(c) ==
  /\ calls[c].st = "calling"
  /\ IF c \in aborted THEN UNCHANGED errorsLeft ELSE errorsLeft > 0 /\ errorsLeft' = errorsLeft - 1
  /\ IF calls[c].failures >= Retries THEN Leave(c, "failed")
     ELSE /\ calls' = [calls EXCEPT ![c] = [st |-> "backoff", key |-> @.key, failures |-> @.failures + 1]]
          /\ UNCHANGED <<inside, waiting>>
  /\ UNCHANGED <<clock, restingUntil, disabled, cursor, aborted, recorded>>
BackoffEnds(c) ==
  /\ calls[c].st = "backoff" /\ calls' = Becomes(c, "ready")
  /\ UNCHANGED <<clock, restingUntil, disabled, cursor, aborted, inside, waiting, recorded,
                 errorsLeft>>

\* 403 and other 4xx reach the caller.
Refused403(c) ==
  /\ calls[c].st = "calling" /\ errorsLeft > 0 /\ errorsLeft' = errorsLeft - 1 /\ Leave(c, "failed")
  /\ UNCHANGED <<clock, restingUntil, disabled, cursor, aborted, recorded>>

BadAbort_StaysQueued(c) ==
  /\ c \notin aborted /\ calls[c].st \in {"new", "waiting"} \union InSlot
  /\ aborted' = aborted \union {c}
  /\ calls' = IF calls[c].st = "waiting" THEN Becomes(c, "failed") ELSE calls
  /\ UNCHANGED <<clock, restingUntil, disabled, cursor, inside, waiting, recorded, errorsLeft>>

\* The caller gives up: a waiting call leaves the queue, one inside notices at its next step.
Abort(c) ==
  /\ c \notin aborted /\ calls[c].st \in {"new", "waiting"} \union InSlot
  /\ aborted' = aborted \union {c}
  /\ IF calls[c].st = "waiting"
     THEN /\ calls' = Becomes(c, "failed")
          /\ \E i \in DOMAIN waiting : waiting[i] = c /\ waiting' = RemoveAt(waiting, i)
     ELSE UNCHANGED <<calls, waiting>>
  /\ UNCHANGED <<clock, restingUntil, disabled, cursor, inside, recorded, errorsLeft>>

\* The usage row is written before the result is handed over; a failed INSERT fails the call.
Record(c) ==
  /\ calls[c].st = "answered"
  /\ \/ calls' = Becomes(c, "done") /\ recorded' = recorded + 1
     \/ calls' = Becomes(c, "failed") /\ UNCHANGED recorded
  /\ UNCHANGED <<clock, restingUntil, disabled, cursor, aborted, inside, waiting, errorsLeft>>

ClockTicks ==
  /\ clock < MaxTime /\ clock' = clock + 1
  /\ UNCHANGED <<restingUntil, disabled, cursor, calls, aborted, inside, waiting, recorded,
                 errorsLeft>>

CallsNext ==
  \/ ClockTicks
  \/ \E c \in Callers : \/ Call(c) \/ Acquire(c) \/ Answered(c) \/ Busy(c) \/ InvalidKey(c) \/ ServerFails(c)
                        \/ BackoffEnds(c) \/ Refused403(c) \/ Abort(c) \/ Record(c)
CallsSpec == CallsInit /\ [][CallsNext]_callVars
------------------------------------------------------------------------------
(* Whatever ends a call, its place is given back exactly once: the counter *)
(* is the number of calls inside, calls wait only while every place is     *)
(* taken, and the queue holds exactly those that wait                      *)
(* (gemini-call-runner.ts:35-43, 92-111).                                  *)
PlacesAddUp ==
  /\ inside = Cardinality({c \in Callers : calls[c].st \in InSlot})
  /\ waiting # <<>> => inside = MaxConcurrency
  /\ IsInjective(waiting) /\ {waiting[i] : i \in DOMAIN waiting} = {c \in Callers : calls[c].st = "waiting"}
=============================================================================

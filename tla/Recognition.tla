---------------------------- MODULE Recognition ----------------------------
(***************************************************************************)
(* Recognition on the phone for one meeting: the self-restarting loop      *)
(* (restart-loop.ts) between the engine's events and the assembler of      *)
(* segments (segment-assembler.ts), as recognition-pipeline.ts wires them. *)
(*                                                                         *)
(* Speech is a sequence of numbered utterances; a partial or final result  *)
(* is the utterance's number.  Delays are not measured: an armed timer may *)
(* fire at any moment, so every race between an engine event and a timeout *)
(* is a behaviour.  Only the time without a session is counted, because a  *)
(* short interruption is not shown: `downTime` advances by one of DeadTimes *)
(* whenever a session comes up.                                            *)
(*                                                                         *)
(* The native recogniser's events reach JavaScript through a FIFO: a       *)
(* `start` arrives before a timer fires or the user resumes, and what a    *)
(* dead session left behind before the next one comes up.  The server      *)
(* engines call their handlers directly, so in server mode an event is     *)
(* handled before anything else happens.                                   *)
(***************************************************************************)
EXTENDS Naturals, Sequences

CONSTANTS
  MaxHeard,      \* bound: utterances spoken
  MaxListens,    \* bound: how often the user starts or resumes
  MaxSessions,   \* bound: engine sessions that come up
  MaxOnTheWay,   \* bound: native events on their way at a time
  GapMarkMin,    \* GAP_MARK_MIN_MS: a shorter interruption is not shown
  DeadTimes      \* how long recognition may be down at a time

ASSUME RecognitionAssumption == GapMarkMin \in Nat /\ DeadTimes \subseteq Nat

VARIABLES
  recogMode,     \* RecognitionMode: "on_device" or "server"
  control,       \* what the session asked: "off" | "listening" | "draining" | "silent"
  listens,       \* how often listen() was called
  loop,          \* the loop's closure: [running, ended, awaiting, died, diedAt], diedAt = null
                 \* being ~died
  timer,         \* cancelPending: "none" | "startTimeout" | "errorWait" | "backoff"
  engine,        \* "off" | "starting" | "on" | "stopping"
  engineRunning, \* the pipeline's flag, set by onStart, cleared by onEnd
  utterance,     \* what the engine is hearing, 0 between utterances
  heard,         \* utterances heard so far
  sessions,      \* engine sessions that came up
  downTime,      \* the time without a session so far
  events,        \* engine events on their way
  lastPartial,   \* the assembler's volatile text: an utterance, and when its session came up
  pendingGap,    \* pendingGapMs
  saved          \* segments handed to onSegment

recogVars == <<recogMode, control, listens, loop, timer, engine, engineRunning, utterance,
               heard, sessions, downTime, events, lastPartial, pendingGap, saved>>

engineVars == <<engine, utterance, heard, sessions, downTime>>
heldVars == <<lastPartial, pendingGap, saved>>

Silence == [n |-> 0, up |-> 0]

RecognitionInit ==
  /\ recogMode \in {"on_device", "server"}
  /\ control = "off" /\ listens = 0
  /\ loop = [running |-> FALSE, ended |-> TRUE, awaiting |-> FALSE, died |-> FALSE,
             diedAt |-> 0]
  /\ timer = "none"
  /\ engine = "off" /\ engineRunning = FALSE
  /\ utterance = 0 /\ heard = 0 /\ sessions = 0 /\ downTime = 0
  /\ events = <<>>
  /\ lastPartial = Silence /\ pendingGap = 0 /\ saved = <<>>

\* A server engine's handlers run inside its call.
Idle == recogMode = "server" => events = <<>>

NoStartOnItsWay == \A i \in DOMAIN events : events[i].type # "start"

-----------------------------------------------------------------------------
(* The assembler.                                                          *)

Saved(what, gap) ==
  Append(saved, [n |-> what.n, up |-> what.up, gap |-> gap, listen |-> listens])

Final(what) ==
  /\ saved' = Saved(what, pendingGap >= GapMarkMin)
  /\ lastPartial' = Silence
  /\ pendingGap' = 0

Flush == IF lastPartial # Silence THEN Final(lastPartial) ELSE UNCHANGED heldVars

-----------------------------------------------------------------------------
(* The engine as the loop calls it.                                        *)

\* start() of a recogniser that is not idle is ignored.
Started == IF engine = "off" THEN "starting" ELSE engine

Stopped == IF engine \in {"starting", "on"} THEN "stopping" ELSE engine

-----------------------------------------------------------------------------
(* The restart loop.                                                       *)

\* The loop takes the session for dead; what it heard so far is kept.
EndSession ==
  IF loop.ended THEN UNCHANGED <<loop, timer>> /\ UNCHANGED heldVars
  ELSE /\ loop' = [loop EXCEPT !.ended = TRUE, !.died = @ \/ loop.running,
                               !.diedAt = IF loop.died THEN @ ELSE downTime]
       /\ timer' = IF loop.running THEN "backoff" ELSE "none"
       /\ IF loop.running THEN Flush ELSE UNCHANGED heldVars

LaunchSession ==
  /\ loop' = [loop EXCEPT !.running = TRUE, !.ended = FALSE, !.awaiting = TRUE]
  /\ timer' = "startTimeout"
  /\ engine' = Started
  /\ UNCHANGED <<utterance, heard, sessions, downTime>>

\* start() throws: a session that ended at once.
LaunchThrows ==
  /\ loop' = [running |-> TRUE, ended |-> TRUE, awaiting |-> TRUE, died |-> TRUE,
              diedAt |-> IF loop.died THEN loop.diedAt ELSE downTime]
  /\ timer' = "backoff"
  /\ Flush
  /\ UNCHANGED engineVars

Launch == (LaunchSession /\ UNCHANGED heldVars) \/ LaunchThrows

\* Mutant: the dead time of a restart is measured only when the session announced its end.
BadHandleStart_NoGap ==
  IF loop.ended \/ ~loop.awaiting THEN UNCHANGED <<loop, timer, pendingGap>>
  ELSE /\ loop' = [loop EXCEPT !.awaiting = FALSE, !.died = FALSE]
       /\ timer' = "none"
       /\ pendingGap' = pendingGap

HandleStart ==
  IF loop.ended \/ ~loop.awaiting THEN UNCHANGED <<loop, timer, pendingGap>>
  ELSE /\ loop' = [loop EXCEPT !.awaiting = FALSE, !.died = FALSE]
       /\ timer' = "none"
       /\ pendingGap' = IF loop.died THEN pendingGap + (downTime - loop.diedAt) ELSE pendingGap

\* Mutant: a result between start() and `start` is taken for the new session's.
BadListened_NotAwaited == ~loop.ended

\* handleResult drops what a dead session still delivers.
Listened == ~loop.ended /\ ~loop.awaiting

\* Mutant: an error only cancels the timer; the `end` will follow.
BadHandleError_WaitsForEnd ==
  timer' = IF loop.ended THEN timer ELSE "none"

HandleError ==
  timer' = IF loop.ended THEN timer ELSE "errorWait"

-----------------------------------------------------------------------------
(* Calls of the recording session.                                         *)

\* listen(): start and resume of a meeting.
Listen ==
  /\ Idle /\ NoStartOnItsWay /\ control \in {"off", "silent"} /\ listens < MaxListens
  /\ control' = "listening" /\ listens' = listens + 1
  /\ Launch
  /\ UNCHANGED <<recogMode, engineRunning, events>>

StopLoop ==
  /\ loop' = [loop EXCEPT !.running = FALSE, !.died = FALSE, !.ended = TRUE]
  /\ timer' = "none"
  /\ engine' = IF loop.ended THEN engine ELSE Stopped
  /\ UNCHANGED <<utterance, heard, sessions, downTime>>

\* silence(): pause and end; a running server engine is given time to deliver its last text.
DoSilence ==
  /\ Idle /\ control = "listening"
  /\ StopLoop
  /\ IF recogMode = "server" /\ engineRunning
       THEN control' = "draining" /\ UNCHANGED heldVars
       ELSE control' = "silent" /\ Flush
  /\ UNCHANGED <<recogMode, listens, engineRunning, events>>

\* SERVER_DRAIN_TIMEOUT_MS passed: Pause and End do not wait for a stuck upload.
DrainTimesOut ==
  /\ Idle /\ control = "draining"
  /\ control' = "silent" /\ Flush
  /\ UNCHANGED <<recogMode, listens, loop, timer, engineRunning, events, engineVars>>

TimerFires ==
  /\ Idle /\ timer # "none" /\ NoStartOnItsWay
  /\ IF timer = "backoff"
       THEN Launch
       ELSE EndSession /\ UNCHANGED engineVars
  /\ UNCHANGED <<recogMode, control, listens, engineRunning, events>>

-----------------------------------------------------------------------------
(* What the engine does by itself.                                         *)

Emit(more) == Len(events) + Len(more) <= MaxOnTheWay /\ events' = events \o more

EngineOnly == UNCHANGED <<recogMode, control, listens, loop, timer, engineRunning, heldVars>>

EngineUp ==
  /\ events = <<>> /\ engine = "starting" /\ sessions < MaxSessions
  /\ engine' = "on" /\ sessions' = sessions + 1
  /\ \E ms \in DeadTimes : downTime' = downTime + ms
  /\ Emit(<<[type |-> "start"]>>)
  /\ UNCHANGED <<utterance, heard>> /\ EngineOnly

\* Speech is heard; with interim results on, a partial follows at once.
EngineHears ==
  /\ Idle /\ engine = "on" /\ utterance = 0 /\ heard < MaxHeard
  /\ heard' = heard + 1 /\ utterance' = heard + 1
  /\ \E interim \in BOOLEAN :
       Emit(IF interim THEN <<[type |-> "partial", n |-> heard + 1, up |-> downTime]>>
                       ELSE <<>>)
  /\ UNCHANGED <<engine, sessions, downTime>> /\ EngineOnly

EngineFinal ==
  /\ Idle /\ engine \in {"on", "stopping"} /\ utterance # 0
  /\ utterance' = 0
  /\ Emit(<<[type |-> "final", n |-> utterance, up |-> downTime]>>)
  /\ UNCHANGED <<engine, heard, sessions, downTime>> /\ EngineOnly

\* A server engine reports `start` again when the chunked engine takes over from a broken stream,
\* and late when stop was pressed while the stream came up.
EngineUpAgain ==
  /\ Idle /\ recogMode = "server"
  /\ \/ engine = "on"
     \/ engine = "stopping" /\ ~engineRunning
  /\ Emit(<<[type |-> "start"]>>)
  /\ UNCHANGED engineVars /\ EngineOnly

\* A chunk that could not be transcribed, audio the stream dropped or the time a takeover cost is
\* reported as a gap; bound: until the gap is long enough to be shown.
EngineLoses ==
  /\ Idle /\ recogMode = "server" /\ engine \in {"on", "stopping"} /\ pendingGap < GapMarkMin
  /\ utterance' = 0
  /\ \E ms \in DeadTimes : Emit(<<[type |-> "gap", ms |-> ms]>>)
  /\ UNCHANGED <<engine, heard, sessions, downTime>> /\ EngineOnly

\* On the phone an engine dies of silence, its cap or an interruption, with or without an
\* `error`, after an `error` perhaps without an `end`, and what it was hearing may still come
\* as a last result; a server engine that fails says `error` and `end`.
Dying ==
  IF recogMode = "on_device" THEN {<<"end">>, <<"error">>, <<"error", "end">>}
  ELSE {<<"error", "end">>} \cup (IF engine = "stopping" THEN {<<"end">>} ELSE {})

EngineDies ==
  /\ Idle /\ engine # "off"
  /\ engine' = "off" /\ utterance' = 0
  /\ \E last \in Dying, late \in BOOLEAN :
       /\ late => recogMode = "on_device" /\ utterance # 0
       /\ Emit([i \in DOMAIN last |-> [type |-> last[i]]] \o
               IF late THEN <<[type |-> "final", n |-> utterance, up |-> downTime]>>
                       ELSE <<>>)
  /\ UNCHANGED <<heard, sessions, downTime>> /\ EngineOnly

\* The chunked engine says `error` and settles its uploads, whose text still comes, before `end`.
EngineFails ==
  /\ Idle /\ recogMode = "server" /\ engine = "on"
  /\ engine' = "stopping"
  /\ Emit(<<[type |-> "error"]>>)
  /\ UNCHANGED <<utterance, heard, sessions, downTime>> /\ EngineOnly

\* An engine error that does not end the session by itself.
EngineComplains ==
  /\ Idle /\ recogMode = "on_device" /\ engine = "on"
  /\ Emit(<<[type |-> "error"]>>)
  /\ UNCHANGED engineVars /\ EngineOnly

-----------------------------------------------------------------------------
(* recognition-pipeline.ts: the handler of each engine event.              *)

OnStart(e) ==
  /\ e.type = "start"
  /\ engineRunning' = TRUE
  /\ HandleStart
  /\ UNCHANGED <<control, lastPartial, saved>>

OnResult(e) ==
  /\ e.type \in {"partial", "final"}
  /\ IF recogMode = "on_device" /\ ~Listened THEN UNCHANGED heldVars
     ELSE IF e.type = "final" THEN Final([n |-> e.n, up |-> e.up])
     ELSE lastPartial' = [n |-> e.n, up |-> e.up] /\ UNCHANGED <<pendingGap, saved>>
  /\ UNCHANGED <<control, loop, timer, engineRunning>>

OnGap(e) ==
  /\ e.type = "gap"
  /\ pendingGap' = pendingGap + e.ms
  /\ UNCHANGED <<control, loop, timer, engineRunning, lastPartial, saved>>

OnError(e) ==
  /\ e.type = "error"
  /\ HandleError
  /\ UNCHANGED <<control, loop, engineRunning, heldVars>>

\* The end lets every waiting silence() go on, which flushes; the loop is stopped by then.
OnEnd(e) ==
  /\ e.type = "end"
  /\ engineRunning' = FALSE
  /\ IF control = "draining"
       THEN control' = "silent" /\ Flush /\ UNCHANGED <<loop, timer>>
       ELSE EndSession /\ UNCHANGED control

Deliver ==
  /\ events # <<>>
  /\ LET e == Head(events) IN OnStart(e) \/ OnResult(e) \/ OnGap(e) \/ OnError(e) \/ OnEnd(e)
  /\ events' = Tail(events)
  /\ UNCHANGED <<recogMode, listens, engineVars>>

RecognitionNext ==
  \/ Listen \/ DoSilence \/ DrainTimesOut \/ TimerFires
  \/ EngineUp \/ EngineUpAgain \/ EngineHears \/ EngineFinal \/ EngineLoses
  \/ EngineFails \/ EngineDies \/ EngineComplains
  \/ Deliver

RecognitionSpec == RecognitionInit /\ [][RecognitionNext]_recogVars

-----------------------------------------------------------------------------
(* Properties.                                                             *)

\* An utterance is saved at most once and in the order of speech when recognition is on the
\* phone: the words of a session that died mid-utterance are kept by the flush, and what that
\* session still delivers afterwards is not taken for the next session's (restart-loop.ts).
SavedOnce ==
  recogMode = "on_device" =>
    \A i, j \in DOMAIN saved : i < j => saved[i].n < saved[j].n

\* When between the sessions that heard two segments, without a pause of the user between these,
\* recognition was down for GAP_MARK_MIN_MS or more, at once or through several restarts, the
\* transcript says that it was interrupted (US-10).  A shorter interruption is left out by design
\* (segment-assembler.ts), and one is measured from where the loop takes the session for dead: that
\* is errorWithoutEndMs after an `error` without an `end`.
DeathsAreMarked ==
  recogMode = "on_device" =>
    \A i \in 1 .. Len(saved) - 1 :
      (saved[i + 1].up >= saved[i].up + GapMarkMin /\ saved[i].listen = saved[i + 1].listen)
        => saved[i + 1].gap

\* The loop never waits for nothing: while it runs, an engine session is up or on its way, an
\* event is about to arrive, or a timer will start the next session (US-11).
KeepsListening ==
  loop.running => engine # "off" \/ events # <<>> \/ timer # "none"
=============================================================================

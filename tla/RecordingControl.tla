-------------------------- MODULE RecordingControl --------------------------
(***************************************************************************)
(* The recording session of the phone (recording-session.ts): pause,       *)
(* resume and end, driven by the screen, the notification's buttons        *)
(* (recording-notification-actions.ts) and phone calls                     *)
(* (call-interruption.ts), one after another; the segments on their way to *)
(* the disk; the translations of saved lines (translation-runner.ts); the  *)
(* death of the app and the way back into an unfinished meeting.           *)
(*                                                                         *)
(* Recognition appears as `listening` and the utterances it hands over;    *)
(* Recognition.tla has its inside, SegmentSync.tla what becomes of the     *)
(* segments on disk.  start() and resumeUnfinished() are one step each.    *)
(***************************************************************************)
EXTENDS Naturals, Sequences

CONSTANTS
  MaxMeetings,   \* bound: meetings started
  MaxSpoken,     \* bound: utterances
  MaxWaiting,    \* bound: transitions that wait for their turn
  MaxOps,        \* bound: operations of a meeting
  MaxKills,      \* bound: deaths of the app
  MaxCalls       \* bound: phone calls

ASSUME ControlAssumption == MaxMeetings \in Nat

VARIABLES
  phase,        \* the store's phase: "idle" | "recording" | "paused" | "ending"
  meeting,      \* the store's meetingId, and the last one started
  started,
  wired,        \* a pipeline exists
  listening,    \* its loop runs
  turn,         \* the transition under way: [what, by, at, from, m]; `at` is "none", "silence",
                \* "settle", "op" or "listen", `from` and `m` the phase and the meeting it found
  toDo,       \* transitions that wait: [what, by]
  unsaved,      \* utterances on their way to disk: [m, n]
  utterances,   \* how many were handed over
  lines,        \* disk: segments by meeting
  chain,        \* lines whose translation is pending
  ops,          \* disk: lifecycle operations by meeting
  local,        \* disk: meetings in local_meetings
  pausedBy,     \* the store's: "none" | "call"
  pauser,       \* history: who made the current pause
  callActive,   \* the call watcher's flag
  kills,        \* deaths of the app and calls so far
  callCount

controlVars == <<phase, meeting, started, wired, listening, turn, toDo, unsaved, utterances,
                 lines, chain, ops, local, pausedBy, pauser, callActive, kills, callCount>>

diskVars == <<lines, ops, local>>
phoneCallVars == <<pausedBy, pauser, callActive, callCount>>
recognitionVars == <<wired, listening, unsaved, utterances>>

MtgNumbers == 1 .. MaxMeetings
NoTurn == [what |-> "none", by |-> "none", at |-> "none", from |-> "idle", m |-> 0]

ControlInit ==
  /\ phase = "idle" /\ meeting = 0 /\ started = 0
  /\ wired = FALSE /\ listening = FALSE
  /\ turn = NoTurn /\ toDo = <<>>
  /\ unsaved = <<>> /\ utterances = 0
  /\ lines = [m \in MtgNumbers |-> <<>>] /\ chain = {}
  /\ ops = [m \in MtgNumbers |-> <<>>] /\ local = {}
  /\ pausedBy = "none" /\ pauser = "none" /\ callActive = FALSE
  /\ kills = 0 /\ callCount = 0

-----------------------------------------------------------------------------
(* start() and recognition.                                                *)

\* start().  It takes no turn; that the transitions of the last meeting have run out by the
\* time the user has set up the next one is assumed.
StartRecordingMeeting ==
  /\ phase = "idle" /\ turn = NoTurn /\ toDo = <<>> /\ started < MaxMeetings
  /\ started' = started + 1 /\ meeting' = started + 1
  /\ local' = local \cup {started + 1}
  /\ phase' = "recording" /\ wired' = TRUE /\ listening' = TRUE
  /\ callActive' = FALSE /\ pausedBy' = "none" /\ pauser' = "none"
  /\ UNCHANGED <<turn, toDo, unsaved, utterances, lines, chain, ops, kills, callCount>>

\* onSegment: an utterance is handed over for the meeting the pipeline was wired for.
Utter ==
  /\ listening /\ utterances < MaxSpoken
  /\ utterances' = utterances + 1
  /\ unsaved' = Append(unsaved, [m |-> started, n |-> utterances + 1])
  /\ UNCHANGED <<phase, meeting, started, wired, listening, turn, toDo, diskVars, chain,
                 phoneCallVars, kills>>

\* drain(): the first unsaved segment reaches the disk and its line is given to the translator.
\* A meeting that is gone from the disk takes none, and those behind it wait.
SaveSegment ==
  /\ unsaved # <<>> /\ Head(unsaved).m \in local
  /\ unsaved' = Tail(unsaved)
  /\ lines' = [lines EXCEPT ![Head(unsaved).m] = Append(@, Head(unsaved).n)]
  /\ chain' = chain \cup {Head(unsaved)}
  /\ UNCHANGED <<phase, meeting, started, wired, listening, turn, toDo, utterances, ops, local,
                 phoneCallVars, kills>>

\* A translation is done, or failed, or timed out.
TranslationSettles ==
  /\ \E line \in chain : chain' = chain \ {line}
  /\ UNCHANGED <<phase, meeting, started, recognitionVars, turn, toDo, diskVars, phoneCallVars,
                 kills>>

-----------------------------------------------------------------------------
(* Who asks.                                                               *)

AskFor(what, by) ==
  /\ Len(toDo) < MaxWaiting /\ Len(ops[meeting]) < MaxOps
  /\ toDo' = Append(toDo, [what |-> what, by |-> by])

\* The screen and the notification offer what the phase allows at the time of the tap.
Tap ==
  /\ \/ phase = "recording" /\ AskFor("pause", "user")
     \/ phase = "paused" /\ AskFor("resume", "user")
     \/ phase \in {"recording", "paused"} /\ AskFor("end", "user")
  /\ UNCHANGED <<phase, meeting, started, recognitionVars, turn, chain, diskVars, phoneCallVars,
                 kills>>

CallStarts ==
  /\ phase \in {"recording", "paused"} /\ ~callActive /\ callCount < MaxCalls
  /\ callActive' = TRUE /\ callCount' = callCount + 1
  /\ IF phase = "recording" THEN AskFor("pause", "call") ELSE UNCHANGED toDo
  /\ UNCHANGED <<phase, meeting, started, recognitionVars, turn, chain, diskVars, pausedBy, pauser,
                 kills>>

\* Mutant: a call that ends resumes whatever is paused.
BadUndoesPause_Any == phase = "paused"

\* The end of a call resumes only a pause a call made.
UndoesPause == phase = "paused" /\ pausedBy = "call"

CallEnds ==
  /\ phase \in {"recording", "paused"} /\ callActive
  /\ callActive' = FALSE
  /\ IF UndoesPause THEN AskFor("resume", "call") ELSE UNCHANGED toDo
  /\ UNCHANGED <<phase, meeting, started, recognitionVars, turn, chain, diskVars, pausedBy, pauser,
                 callCount, kills>>

-----------------------------------------------------------------------------
(* serial(): one transition at a time, which reads the phase on its turn.  *)

Allowed(what) ==
  CASE what = "pause" -> phase = "recording"
    [] what = "resume" -> phase = "paused"
    [] what = "end" -> phase \in {"recording", "paused"}

\* pipeline.silence(): the microphone is off, and what was half said is handed over.
Silenced ==
  /\ listening' = FALSE
  /\ \/ UNCHANGED <<unsaved, utterances>>
     \/ /\ listening /\ utterances < MaxSpoken
        /\ utterances' = utterances + 1
        /\ unsaved' = Append(unsaved, [m |-> started, n |-> utterances + 1])

TakeTurn ==
  /\ turn = NoTurn /\ toDo # <<>>
  /\ toDo' = Tail(toDo)
  /\ LET what == Head(toDo).what IN
     IF ~Allowed(what) THEN UNCHANGED <<turn, listening, unsaved, utterances>>
     ELSE /\ turn' = [what |-> what, by |-> Head(toDo).by,
                      at |-> IF what = "resume" THEN "op" ELSE "silence", from |-> phase,
                      m |-> meeting]
          /\ IF what = "resume" THEN UNCHANGED <<listening, unsaved, utterances>> ELSE Silenced
  /\ UNCHANGED <<phase, meeting, started, wired, chain, diskVars, phoneCallVars, kills>>

\* Mutant: what is on its way to the disk is not waited for.
BadWritten_NotAwaited == TRUE

Written == unsaved = <<>>

\* silence() is over: a pause is recorded; an end disposes the pipeline and waits for the
\* translations first.
SilenceDone ==
  /\ turn.at = "silence" /\ Written
  /\ IF turn.what = "end"
       THEN /\ turn' = [turn EXCEPT !.at = "settle"] /\ wired' = FALSE
            /\ phase' = "ending" /\ pausedBy' = "none"
       ELSE turn' = [turn EXCEPT !.at = "op"] /\ UNCHANGED <<phase, wired, pausedBy>>
  /\ UNCHANGED <<meeting, started, listening, unsaved, utterances, toDo, chain, diskVars, pauser,
                 callActive, callCount, kills>>

\* The disk refused a segment twice: the transition is given up, the text kept.
SilenceFails ==
  /\ turn.at = "silence" /\ unsaved # <<>>
  /\ turn' = NoTurn
  /\ UNCHANGED <<phase, meeting, started, recognitionVars, toDo, chain, diskVars, phoneCallVars,
                 kills>>

TranslationsSettled ==
  /\ turn.at = "settle" /\ chain = {}
  /\ turn' = [turn EXCEPT !.at = "op"]
  /\ UNCHANGED <<phase, meeting, started, recognitionVars, toDo, chain, diskVars, phoneCallVars,
                 kills>>

Recorded == ops' = [ops EXCEPT ![turn.m] = Append(@, turn.what)]

\* A pause a call asked for is the call's; if the call ended meanwhile it is undone at once.
PauseRecorded ==
  /\ turn.at = "op" /\ turn.what = "pause"
  /\ Recorded /\ turn' = NoTurn
  /\ phase' = "paused" /\ pauser' = turn.by
  /\ pausedBy' = IF turn.by = "call" THEN "call" ELSE pausedBy
  /\ IF turn.by = "call" /\ ~callActive THEN AskFor("resume", "call") ELSE UNCHANGED toDo
  /\ UNCHANGED <<meeting, started, recognitionVars, chain, lines, local, callActive, callCount,
                 kills>>

ResumeRecorded ==
  /\ turn.at = "op" /\ turn.what = "resume"
  /\ Recorded /\ turn' = [turn EXCEPT !.at = "listen"]
  /\ phase' = "recording" /\ pausedBy' = "none"
  /\ UNCHANGED <<meeting, started, recognitionVars, toDo, chain, lines, local, pauser,
                 callActive, callCount, kills>>

\* listen(): without a pipeline nothing is heard.
ResumeListens ==
  /\ turn.at = "listen"
  /\ turn' = NoTurn /\ listening' = wired
  /\ UNCHANGED <<phase, meeting, started, wired, unsaved, utterances, toDo, chain, diskVars,
                 phoneCallVars, kills>>

EndRecorded ==
  /\ turn.at = "op" /\ turn.what = "end"
  /\ Recorded /\ turn' = NoTurn
  /\ UNCHANGED <<phase, meeting, started, recognitionVars, toDo, chain, lines, local, phoneCallVars,
                 kills>>

\* The disk refuses the operation: an end puts the phase back, without a pipeline, and a call
\* gives its pause up to the user.
OpFails ==
  /\ turn.at = "op"
  /\ turn' = NoTurn
  /\ IF turn.what = "end" THEN phase' = turn.from ELSE UNCHANGED phase
  /\ pausedBy' = IF turn.what = "resume" /\ turn.by = "call" THEN "none" ELSE pausedBy
  /\ UNCHANGED <<meeting, started, recognitionVars, toDo, chain, diskVars, pauser, callActive,
                 callCount, kills>>

-----------------------------------------------------------------------------
(* The end of a meeting on this phone, and the death of the app.           *)

\* finish(): the sync worker reports the meeting synced and ended, or deleted on the server; its
\* rows are gone by then.  The store is reset; a pipeline that still runs is left running.
Finish ==
  /\ phase # "idle"
  /\ local' = local \ {meeting}
  /\ phase' = "idle" /\ pausedBy' = "none"
  /\ UNCHANGED <<meeting, started, recognitionVars, turn, toDo, lines, ops, chain, pauser,
                 callActive, callCount, kills>>

Kill ==
  /\ kills < MaxKills /\ kills' = kills + 1
  /\ phase' = "idle" /\ wired' = FALSE /\ listening' = FALSE
  /\ turn' = NoTurn /\ toDo' = <<>> /\ unsaved' = <<>> /\ chain' = {}
  /\ pausedBy' = "none" /\ callActive' = FALSE
  /\ UNCHANGED <<meeting, started, utterances, diskVars, pauser, callCount>>

\* The status the operations on disk left the meeting in.
LastOp(m) == IF ops[m] = <<>> THEN "resume" ELSE ops[m][Len(ops[m])]

\* resumeUnfinished(): an ending meeting stays so; a paused one is resumed like a tap would; one
\* that was being recorded goes on, and its untranslated lines are translated.
ResumeUnfinished ==
  /\ phase = "idle" /\ turn = NoTurn /\ ~wired
  /\ started \in local
  /\ meeting' = started
  /\ CASE LastOp(started) = "end" ->
            phase' = "ending" /\ UNCHANGED <<wired, listening, toDo, chain>>
       [] LastOp(started) = "pause" ->
            phase' = "paused" /\ wired' = TRUE /\ AskFor("resume", "user")
            /\ UNCHANGED listening
            /\ \E some \in SUBSET {[m |-> started, n |-> lines[started][i]]
                                     : i \in DOMAIN lines[started]} : chain' = some
       [] OTHER ->
            phase' = "recording" /\ wired' = TRUE /\ listening' = TRUE /\ UNCHANGED toDo
            /\ \E some \in SUBSET {[m |-> started, n |-> lines[started][i]]
                                     : i \in DOMAIN lines[started]} : chain' = some
  /\ pauser' = "user"
  /\ UNCHANGED <<started, unsaved, utterances, turn, diskVars, pausedBy, callActive, callCount,
                 kills>>

ControlNext ==
  \/ StartRecordingMeeting \/ Utter \/ SaveSegment \/ TranslationSettles
  \/ Tap \/ CallStarts \/ CallEnds
  \/ TakeTurn \/ SilenceDone \/ SilenceFails \/ TranslationsSettled
  \/ PauseRecorded \/ ResumeRecorded \/ ResumeListens \/ EndRecorded \/ OpFails
  \/ Finish \/ Kill \/ ResumeUnfinished

ControlSpec == ControlInit /\ [][ControlNext]_controlVars

-----------------------------------------------------------------------------
(* Properties.                                                             *)

\* What is on disk can be sent as it is: pauses and resumes of a meeting alternate and an end is
\* the last of them, whatever taps, calls and deaths of the app come together; and from then on
\* no utterance of it waits for the disk and no line for its translation (Phase 21).
EndIsComplete ==
  \A m \in MtgNumbers :
    /\ \A i \in DOMAIN ops[m] :
         ops[m][i] \in {IF i % 2 = 1 THEN "pause" ELSE "resume", "end"}
    /\ \A i \in DOMAIN ops[m] : ops[m][i] = "end" =>
         /\ i = Len(ops[m])
         /\ \A j \in DOMAIN unsaved : unsaved[j].m # m
         /\ \A line \in chain : line.m # m

\* A call resumes only a pause that a call made (call-interruption.ts).
OnlyOwnPauseUndone ==
  [][ResumeRecorded /\ turn.by = "call" => pauser = "call"]_controlVars
=============================================================================

---------------------------- MODULE Translations ----------------------------
(***************************************************************************)
(* The translations of one meeting, made on the phone: the chain that      *)
(* translates its lines (translation-runner.ts), the rows that wait on     *)
(* disk (translation-queue.ts), the sync pass that PUTs them and then      *)
(* sends `end` (translation-sync.ts, sync-worker.ts), the server that      *)
(* stores them (segment-translation.service.ts) and the transcript         *)
(* screen's "Dịch" (use-translate-segment.ts).                             *)
(*                                                                         *)
(* A text is its version: 1 as spoken, more after corrections.  A          *)
(* translation is the version it was made from.  Lines reach the server    *)
(* at any time after they were spoken: how is SegmentSync's subject.       *)
(***************************************************************************)
EXTENDS Integers, Sequences, FiniteSets, SequencesExt

CONSTANTS
  TLines,        \* bound: lines of the meeting
  MaxNotFound,   \* TRANSLATION_MAX_NOT_FOUND
  MaxTEdits,     \* bound: corrections on the server
  MaxRetaps,     \* bound: taps on "Thử lại" and "Dịch"
  MaxTTrouble    \* bound: lost requests, kills, failed jobs and writes, acts of others

ASSUME TranslationsAssumption == TLines \in Nat

Spoken == 1..TLines
Versions == 0..MaxTEdits + 1

VARIABLES
  app,      \* the recording screen: "recording" (or paused), "settling" (end() waits), "ending", "idle"
  local,    \* local_meetings.status: "recording" (or paused), "ending", "none"
  spoken,   \* lines in local_meetings.last_seq
  unsent,   \* pending_segments
  shownText,\* the text of each line on the recording screen, 0 for a line it does not show
  shown,    \* translations of the store: "none" | "pending" | "done" | "failed"
  chain,    \* the runner's queue: [seq, of, due]; end() waits for a due job
  mark,     \* how many of its jobs end() waits for
  rows,     \* pending_translations: [st, of, tries]
  todo,     \* the rows the pass still has to PUT, as it read them
  put,      \* the answer to the PUT under way: "none" | "stored" | "refused" | "missing"
  missing,  \* waiting: some PUT of this pass found no segment
  ending,   \* the pass's `end`: "none" | "sent" | "done"
  text,     \* transcript_segments.text, 0 before the line arrived
  trans,    \* transcript_segments.translated_text, 0 for NULL
  wanted,   \* meetings.translate_to is still what the phone recorded with
  closed,   \* the meeting ended on the server
  read,     \* the transcript screen's copy of `text`
  dich,     \* the "Dịch" under way for each line: the version it translated, 0 for none
  owed,     \* history: lines whose due translation was saved, and which nobody changed since
  taps, trouble, corrections

phoneT == <<app, local, spoken, unsent, shownText>>
runnerT == <<shown, chain, mark>>
passT == <<todo, put, missing, ending>>
serverT == <<text, trans, wanted, closed>>
screenT == <<read, dich>>
transVars == <<phoneT, runnerT, rows, passT, serverT, screenT, owed, taps, trouble, corrections>>

NoRow == [st |-> "none", of |-> 0, tries |-> 0]

TransInit ==
  /\ app = "recording" /\ local = "recording" /\ spoken = 0 /\ unsent = {}
  /\ shownText = [s \in Spoken |-> 0]
  /\ shown = [s \in Spoken |-> "none"] /\ chain = <<>> /\ mark = 0
  /\ rows = [s \in Spoken |-> NoRow]
  /\ todo = <<>> /\ put = "none" /\ missing = FALSE /\ ending = "none"
  /\ text = [s \in Spoken |-> 0] /\ trans = [s \in Spoken |-> 0] /\ wanted = TRUE /\ closed = FALSE
  /\ read = [s \in Spoken |-> 0] /\ dich = [s \in Spoken |-> 0]
  /\ owed = {} /\ taps = 0 /\ trouble = 0 /\ corrections = 0

Trouble == trouble < MaxTTrouble /\ trouble' = trouble + 1
Tap == taps < MaxRetaps /\ taps' = taps + 1
Calm == UNCHANGED <<taps, trouble, corrections>>

Job(s) == [seq |-> s, of |-> shownText'[s], due |-> app' = "recording"]
\* ORDER BY seq
BySeq(S) == {order \in SetToSeqs(S) : \A i, j \in DOMAIN order : i < j => order[i] < order[j]}

-----------------------------------------------------------------------------
(* The recording screen and the runner.                                    *)

\* enqueueSegment has written the line; its translation is queued behind the others.
SpeakLine ==
  /\ app = "recording" /\ spoken < TLines
  /\ LET s == spoken + 1 IN
     /\ spoken' = s /\ unsent' = unsent \cup {s}
     /\ shownText' = [shownText EXCEPT ![s] = 1]
     /\ shown' = [shown EXCEPT ![s] = "pending"]
     /\ UNCHANGED <<app, local>>
     /\ chain' = Append(chain, Job(s))
  /\ UNCHANGED <<mark, rows, passT, serverT, screenT, owed>> /\ Calm

\* translateLine's job: translated, saved while the meeting is local, shown; or failed, or too late.
JobDone(ok) ==
  /\ chain # <<>>
  /\ LET job == Head(chain) IN
     /\ shown' = IF app = "idle" THEN shown
                 ELSE [shown EXCEPT ![job.seq] = IF ok THEN "done" ELSE "failed"]
     /\ rows' = IF ok /\ local # "none"
                  THEN [rows EXCEPT ![job.seq] = [st |-> "pending", of |-> job.of, tries |-> 0]]
                  ELSE rows
     /\ owed' = IF ok /\ job.due THEN owed \cup {job.seq} ELSE owed
  /\ chain' = Tail(chain) /\ mark' = IF mark > 0 THEN mark - 1 ELSE 0
  /\ IF ok THEN UNCHANGED trouble ELSE Trouble
  /\ UNCHANGED <<phoneT, passT, serverT, screenT, taps, corrections>>

\* "Thử lại" on a line that failed; the screen offers it until it leaves for the ended meeting.
RetryTranslation(s) ==
  /\ app # "idle" /\ shownText[s] > 0 /\ shown[s] = "failed" /\ Tap
  /\ shown' = [shown EXCEPT ![s] = "pending"]
  /\ UNCHANGED phoneT
  /\ chain' = Append(chain, Job(s))
  /\ UNCHANGED <<mark, rows, passT, serverT, screenT, owed, trouble, corrections>>

\* end(): settled() is the chain as it is now.
End ==
  /\ app = "recording" /\ app' = "settling" /\ mark' = Len(chain)
  /\ UNCHANGED <<local, spoken, unsent, shownText, shown, chain, rows, passT, serverT, screenT, owed>> /\ Calm

BadSettled_NotAwaited == TRUE
Settled == mark = 0

\* recordOp wrote `end`, or the disk refused and the phase goes back.
EndRecorded ==
  /\ app = "settling" /\ Settled
  /\ \/ app' = "ending" /\ local' = "ending" /\ UNCHANGED trouble
     \/ app' = "recording" /\ UNCHANGED local /\ Trouble
  /\ UNCHANGED <<spoken, unsent, shownText, runnerT, rows, passT, serverT, screenT, owed, taps, corrections>>

\* The process dies: the screen, the chain and the pass with it.
KillApp ==
  /\ Trouble
  /\ app' = "idle" /\ shownText' = [s \in Spoken |-> 0] /\ shown' = [s \in Spoken |-> "none"]
  /\ chain' = <<>> /\ mark' = 0
  /\ todo' = <<>> /\ put' = "none" /\ missing' = FALSE /\ ending' = "none"
  /\ UNCHANGED <<local, spoken, unsent, rows, serverT, screenT, owed, taps, corrections>>

\* resumeUnfinished: the server's copy of a line wins, when it could be loaded.
ResumeUnfinished(loaded) ==
  /\ app = "idle" /\ local # "none" /\ app' = local
  /\ shownText' = [s \in Spoken |-> IF loaded /\ text[s] > 0 THEN text[s]
                                    ELSE IF s \in unsent THEN 1 ELSE 0]
  /\ LET saved == {s \in Spoken : (loaded /\ trans[s] > 0) \/ rows[s].st = "pending"}
         again == {s \in Spoken : shownText'[s] > 0 /\ s \notin saved}
     IN IF local = "ending"
          THEN /\ shown' = [s \in Spoken |-> IF s \in saved THEN "done" ELSE "none"]
               /\ UNCHANGED chain
          ELSE /\ shown' = [s \in Spoken |-> IF s \in saved THEN "done"
                                             ELSE IF s \in again THEN "pending" ELSE "none"]
               /\ \E order \in BySeq(again) : chain' = chain \o [i \in DOMAIN order |-> Job(order[i])]
  /\ IF loaded THEN UNCHANGED trouble ELSE Trouble
  /\ UNCHANGED <<local, spoken, unsent, mark, rows, passT, serverT, screenT, owed, taps, corrections>>

\* endUnfinishedMeeting, from Home: nothing waits for translations, none is under way.
EndUnfinished ==
  /\ app = "idle" /\ local = "recording" /\ local' = "ending"
  /\ UNCHANGED <<app, spoken, unsent, shownText, runnerT, rows, passT, serverT, screenT, owed>> /\ Calm

-----------------------------------------------------------------------------
(* The sync pass.                                                          *)

\* A segment was stored and acknowledged; one the server holds keeps its text.
SegmentAcked(s) ==
  /\ s \in unsent /\ unsent' = unsent \ {s}
  /\ text' = [text EXCEPT ![s] = IF @ = 0 THEN 1 ELSE @]
  /\ UNCHANGED <<app, local, spoken, shownText, runnerT, rows, passT, trans, wanted, closed, screenT, owed>>
  /\ Calm

Resting == todo = <<>> /\ ~missing /\ ending = "none"
Pending == {s \in Spoken : rows[s].st = "pending"}
\* syncableTranslations
Syncable == Pending \ unsent

PassReads ==
  /\ Resting /\ local # "none" /\ Syncable # {}
  /\ \E order \in BySeq(Syncable) : todo' = [i \in DOMAIN order |-> [seq |-> order[i], of |-> rows[order[i]].of]]
  /\ UNCHANGED <<phoneT, runnerT, rows, put, missing, ending, serverT, screenT, owed>> /\ Calm

\* SegmentTranslationService.put, for the sync pass and for the transcript screen.
Answer(s) == IF ~wanted THEN "refused" ELSE IF text[s] = 0 THEN "missing" ELSE "stored"
StoreTranslation(s, of) == IF Answer(s) = "stored" THEN [trans EXCEPT ![s] = of] ELSE trans

PutApplied ==
  /\ todo # <<>> /\ put = "none"
  /\ put' = Answer(Head(todo).seq) /\ trans' = StoreTranslation(Head(todo).seq, Head(todo).of)
  /\ UNCHANGED <<phoneT, runnerT, rows, todo, missing, ending, text, wanted, closed, screenT, owed>> /\ Calm

Dropped(s) == rows' = [rows EXCEPT ![s].st = IF @ = "none" THEN @ ELSE "dropped"] /\ owed' = owed \ {s}

\* 204 removes the row unless a newer text replaced it; 400 drops it; 404 counts.
PutAnswered ==
  /\ put # "none" /\ put' = "none" /\ todo' = Tail(todo)
  /\ LET t == Head(todo)
         row == rows[t.seq]
     IN \/ /\ put = "stored"
           /\ rows' = IF row.of = t.of THEN [rows EXCEPT ![t.seq] = NoRow] ELSE rows
           /\ UNCHANGED <<missing, owed>>
        \/ put = "refused" /\ Dropped(t.seq) /\ UNCHANGED missing
        \/ /\ put = "missing"
           /\ IF row.tries + 1 >= MaxNotFound THEN Dropped(t.seq) /\ UNCHANGED missing
              ELSE /\ rows' = [rows EXCEPT ![t.seq].tries = @ + 1]
                   /\ missing' = TRUE /\ UNCHANGED owed
  /\ UNCHANGED <<phoneT, runnerT, ending, serverT, screenT>> /\ Calm

\* Offline, a 5xx or a lost answer: the pass gives up, whatever the server did.
PassFails ==
  /\ todo # <<>> \/ ending # "none"
  /\ todo' = <<>> /\ put' = "none" /\ missing' = FALSE /\ ending' = "none"
  /\ Trouble
  /\ UNCHANGED <<phoneT, runnerT, rows, serverT, screenT, owed, taps, corrections>>

\* "translations waiting for their segments": the pass throws, to start again after a backoff.
PassWaits ==
  /\ todo = <<>> /\ missing /\ missing' = FALSE
  /\ UNCHANGED <<phoneT, runnerT, rows, todo, put, ending, serverT, screenT, owed>> /\ Calm

AllTranslated == Pending = {}

\* `end` goes out once no segment and no translation is pending.
EndSent ==
  /\ Resting /\ local = "ending" /\ unsent = {} /\ AllTranslated
  /\ ending' = "sent"
  /\ UNCHANGED <<phoneT, runnerT, rows, todo, put, missing, serverT, screenT, owed>> /\ Calm

\* The server ends the meeting, or had: both answers let the phone go on.
EndApplied ==
  /\ ending = "sent" /\ ending' = "done" /\ closed' = TRUE
  /\ UNCHANGED <<phoneT, runnerT, rows, todo, put, missing, text, trans, wanted, screenT, owed>> /\ Calm

\* deleteLocalMeeting and finish: the queue and the screen let the meeting go; the chain runs on.
EndAnswered ==
  /\ ending = "done" /\ ending' = "none"
  /\ local' = "none" /\ rows' = [s \in Spoken |-> NoRow] /\ unsent' = {}
  /\ app' = "idle" /\ shownText' = [s \in Spoken |-> 0] /\ shown' = [s \in Spoken |-> "none"]
  /\ UNCHANGED <<spoken, chain, mark, todo, put, missing, serverT, screenT, owed>> /\ Calm

-----------------------------------------------------------------------------
(* The server, and the transcript screen of any of the user's devices.     *)

\* Meetings left recording are closed after 24 h (abandoned-meetings job).
ServerCloses ==
  /\ ~closed /\ Trouble /\ closed' = TRUE
  /\ UNCHANGED <<phoneT, runnerT, rows, passT, text, trans, wanted, screenT, owed, taps, corrections>>

\* An acknowledged row is gone, a restored backup: the case sync-worker.ts:75 and the 404s are for.
ServerLoses(s) ==
  /\ text[s] > 0 /\ Trouble
  /\ text' = [text EXCEPT ![s] = 0] /\ trans' = [trans EXCEPT ![s] = 0] /\ owed' = owed \ {s}
  /\ UNCHANGED <<phoneT, runnerT, rows, passT, wanted, closed, screenT, taps, corrections>>

\* PATCH /meetings/:id sets another translate_to.
ChangeTarget ==
  /\ wanted /\ Trouble /\ wanted' = FALSE
  /\ UNCHANGED <<phoneT, runnerT, rows, passT, text, trans, closed, screenT, owed, taps, corrections>>

\* A correction, allowed once the meeting is over; the screen that made it reads it back.
CorrectLine(s) ==
  /\ closed /\ text[s] > 0 /\ corrections < MaxTEdits /\ corrections' = corrections + 1
  /\ text' = [text EXCEPT ![s] = @ + 1] /\ trans' = [trans EXCEPT ![s] = 0] /\ owed' = owed \ {s}
  /\ UNCHANGED <<phoneT, runnerT, rows, passT, wanted, closed, screenT, taps, trouble>>

ReadTranscript ==
  /\ read # text /\ read' = text
  /\ UNCHANGED <<phoneT, runnerT, rows, passT, serverT, dich, owed>> /\ Calm

\* "Dịch" translates the text the screen holds.
TapDich(s) ==
  /\ wanted /\ read[s] > 0 /\ dich[s] = 0 /\ Tap
  /\ dich' = [dich EXCEPT ![s] = read[s]]
  /\ UNCHANGED <<phoneT, runnerT, rows, passT, serverT, read, owed, trouble, corrections>>

\* Its PUT is stored or refused, and the screen reads the transcript again.
DichStored(s) ==
  /\ dich[s] > 0 /\ dich' = [dich EXCEPT ![s] = 0]
  /\ trans' = StoreTranslation(s, dich[s])
  /\ read' = IF Answer(s) = "stored" THEN text ELSE read
  /\ UNCHANGED <<phoneT, runnerT, rows, passT, text, wanted, closed, owed>> /\ Calm

TransNext ==
  \/ SpeakLine \/ End \/ EndRecorded \/ KillApp \/ EndUnfinished
  \/ \E ok \in BOOLEAN : JobDone(ok) \/ ResumeUnfinished(ok)
  \/ \E s \in Spoken : RetryTranslation(s) \/ SegmentAcked(s) \/ ServerLoses(s) \/ CorrectLine(s)
                       \/ TapDich(s) \/ DichStored(s)
  \/ PassReads \/ PutApplied \/ PutAnswered \/ PassFails \/ PassWaits
  \/ EndSent \/ EndApplied \/ EndAnswered
  \/ ServerCloses \/ ChangeTarget \/ ReadTranscript

TransSpec == TransInit /\ [][TransNext]_transVars
-----------------------------------------------------------------------------
(* A translation that end() waited for is never lost: from the moment it   *)
(* is saved it is on the phone or on the server, through kills, retries,   *)
(* lost answers and the deletion of the local copy, until someone          *)
(* corrects the line or the server refuses it (recording-session.ts:187,   *)
(* sync-worker.ts:127).                                                    *)
TranslationsKept == \A s \in owed : s \in Pending \/ trans[s] > 0
=============================================================================

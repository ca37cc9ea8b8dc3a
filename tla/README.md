# Meetio: verification of recording, sync, processing and what is derived from it

Meetio records meetings on a phone, keeps the transcript in the phone's SQLite until the server has it,
and turns an ended meeting into chunks, a summary, tasks and an entity graph on the server. Speech is
recognised on the phone or streamed to the server and on to Gemini Live. These TLA+ modules model the parts
of it that have state somebody else can disturb. TLC checks them on small instances; TLAPS proves for every value of
their constants the properties of the pipeline, the sync, the live recognition on the server, recognition and recording on the phone,
the tokens, the sign-in, the meeting screen and the freshness of what is derived.

Paths below are relative to `src/apps`: `api/…` stands for `src/apps/api/src/…` and `mobile/…` for
`src/apps/mobile/src/…`.

## 1. Inventory

### Components, their state and their operations

| Component | Code | State | Operations |
|---|---|---|---|
| Meeting lifecycle | `api/meetings/meeting-state-machine.ts`, `meetings.service.ts` | `meetings.status` | create, pause, resume, end, and every move of the pipeline, all through one transition table |
| Pipeline engine | `api/pipeline/*` | `processing_jobs`, `meetings.pipeline_run`, BullMQ jobs in Redis | run job, step jobs, retry, fail, complete, resume sweep |
| Pipeline control | `api/pipeline/pipeline-control.service.ts` | the same | re-index: full, changed or resumed |
| Ready notification | `api/notifications/meeting-ready.notifier.ts` | `meetings.ready_notified_at` | claim, send |
| Stranded and abandoned meetings | `api/jobs/abandoned-meeting.job.ts` | – | requeue after a lost enqueue, close after 24 hours |
| Offline queue and sync worker | `mobile/queue/*` | `local_meetings`, `pending_segments`, `pending_ops`; the worker's pass, in-flight set, timers | enqueue, kick, pass, replay, send by socket or bulk, ack, error |
| Segment ingest | `api/realtime/*`, `api/segments/*` | the 200 ms buffer, `transcript_segments` | join, receive, write a batch, ack; bulk |
| Recording session | `mobile/recording/recording-session.ts`, `recording-recovery.ts` | phase, pipeline, unsaved segments, `lifecycle_ops` | start, pause, resume, end, resume or end an unfinished meeting |
| Calls and notification buttons | `mobile/recording/call-interruption.ts`, `recording-notification-actions.ts` | who paused | pause for a call, resume after it; the buttons |
| Recognition on the phone | `mobile/recording/restart-loop.ts`, `segment-assembler.ts`, `*stt-engine.ts`, `server-stream-stt-*` | the loop's flags and timer, the volatile text; a stream's epoch, link, backlog; the chunk recorder | restart after a death, mark the gap, reconnect, back off, fall back to chunks |
| Speech to text on the server | `api/stt/*` | slots per user, streams per socket, the meter; legs, ring buffer, seam filter | start, push audio, rotate, recover, stop |
| Translations | `mobile/recording/translation-runner.ts`, `mobile/queue/translation-*`, `api/meetings/segment-translation.service.ts` | the runner's chain, `pending_translations`, `translated_text` | translate, retry, PUT before `end`, "Dịch" on the transcript |
| Transcript edits | `api/transcript/*`, `api/meetings/meeting-edits.ts` | `edited_at`, `pipeline_started_at` | correct a line, decide what must be processed again |
| Chunking and embedding | `api/chunking/*` | `meeting_chunks` | cut, cut again in place, embed |
| Summaries and actions | `api/summaries/*`, `api/actions/*` | `summaries`, `action_items`, `action_item_dismissals` | summarise, replace the AI's tasks, the user's own changes |
| Entity graph | `api/graph/*` | `entities`, mentions, relations, merges with snapshots, suggestions | extract, resolve, merge, undo, rename, delete, reject |
| Questions | `api/qa/*` | `qa_messages` | retrieve, answer with citations, store, show, clear |
| Gemini client | `api/ai/*` | places, the queue, keys at rest, usage rows | call with rotation of keys, retries, aborts, accounting |
| Tokens | `api/auth/*`, `mobile/api/*`, `mobile/store/session.store.ts` | token families; the phone's pair in memory and on disk | sign in, refresh (single flight), sign out, restart |
| Push tokens | `api/notifications/push-tokens.controller.ts`, `mobile/notifications/push-registration.ts`, `use-push-notifications-lifecycle.ts` | whose row this phone's token is | register, unregister, log out, remove the account, drop a dead device |
| Accounts, retention | `api/users/*`, `api/auth/google-auth.service.ts`, `api/jobs/*` | `users`, `meetings.retention_notified_at` | register, sign in with Google, update, delete, purge |
| Progress on the screen | `mobile/hooks/use-meeting-room-socket.ts`, `use-meeting-detail-query.ts`, `api/realtime/meeting.gateway.ts`, `meeting-room.notifier.ts` | the query's cache, the room, the access token | join, announce, invalidate, fetch, recover from an expired token |
| Meeting deletion | `api/meetings/meeting-deletion.service.ts` | – | physical delete with everything that hangs on the row |
| Search, export, app lock, screens, schema, plumbing | – | none that a step could break, or one flag | reads, single statements, rendering |

`PROJECT.json` lists all of them with the modules that model them.

### How they interact

The phone and the API share nothing but messages: HTTP requests, each of which can be lost, answered late
or answered to nobody, one socket for the meeting being recorded, one for a screen that follows a meeting,
and one for a recognition stream. The API's processes share PostgreSQL, where a transaction under a row or an
advisory lock is one step, and Redis, where BullMQ keeps jobs by id. Between two awaits anything else may
run. `end` is the seam between the two halves: it is the last thing the sync worker sends, after the lines
and their translations, and the first thing the pipeline sees. On the phone, an engine's events drive the
restart loop, the loop hands words to the assembler, the assembler's segments go to the session, and the session
writes them to the queue the sync worker drains.

### What is hard

* **Interleavings.** `advance()` reads the next step outside any lock and acts on it an await later,
  while another worker, the resume sweep and a re-index change the rows. A Live session closes while another
  is being opened to replace it. Two stt_starts of one user overlap.
* **Two stores, no common transaction.** A run is committed in PostgreSQL and then enqueued in Redis; a
  push is claimed and then sent; a segment is committed and then acked; a line is acked and then deleted; a token
  pair is written to secure storage and then to memory.
* **Lost, late and repeated messages.** Every request may be served after the phone gave up on it.
* **Crashes.** The phone and the API die between any two steps; a BullMQ lock expires under a live handler.
* **Wake-ups.** `kick()` during a pass only sets a flag; acks, errors and timers all arrive during passes. A
  loop, a stream or a call that waits for something that will not come is silently deaf.
* **Stale reads.** An entity read before an await is saved after it; a citation outlives its chunk; a re-run reads
  lines that are corrected while it runs; a screen shows the answer to a question asked before the news.
* **Undo.** Merges are undone out of order, after other merges, renames and deletions.
* **Other devices and other people.** A meeting can be deleted, ended, closed or continued elsewhere; a phone changes hands.

`PROJECT.json` (`hazards`) lists each of these at its line with the properties that would catch it.

### What makes each part correct

* Pipeline: ready only when every step is done; a failed meeting names what to resume; runs do not
  disturb each other; a queued meeting is processed whatever is lost; one push at most.
* Sync: no line is lost; the pipeline reads a complete transcript; everything is sent in the end and an
  ended meeting leaves the phone; a translation that was waited for is not lost with it.
* Recognition: words are saved once and in order, a hole is marked, and nobody waits for nothing.
* Recording: what is on disk can be sent as it is, and only the one who paused resumes.
* Streams: one per user, billed exactly while it runs, never deaf, and none outlives its socket.
* What is derived: nothing stale is shown unflagged, only what changed is paid for again, the user's hand on tasks
  and entities is kept, a citation leads where it says.
* Tokens and accounts: one user's recording never lands in another's account; no false theft alarm; a sign-in ends in an account; a phone gets the
  notifications of the account signed in on it.

## 2. Modules

| Module | Models | Extends / refines |
|---|---|---|
| `MeetingLifecycle` | the transition table and the status sets that depend on it | – |
| `PipelineContract` | what a client may rely on: the lifecycle, runs that only grow, ready only when done | `MeetingLifecycle` |
| `Pipeline` | engine, store, BullMQ, sweeps, re-index, push, faults | `MeetingLifecycle`; refines `PipelineContract` |
| `SegmentSync` | phone queue, worker, socket, ingest, batch writer, lifecycle requests, faults | `MeetingLifecycle` |
| `Translations` | the runner's chain, the rows on disk, the pass that PUTs them before `end`, the server | – |
| `TranscriptFreshness` | what a run derives from a transcript that is corrected meanwhile | – |
| `Chunker` | `chunker.ts` as functions, over bounded transcripts | – |
| `EntityGraph` | resolve, merge, undo, edits, deletion over one user's graph | – |
| `Answers` | retrieval, citations, threads | – |
| `LiveStream` | the legs of one recognition stream and its seam filter | – |
| `StreamSlots` | who may have a stream, and what ends it | – |
| `GeminiCalls` | places, keys, rests, retries, accounting | – |
| `Sessions` | tokens of several people on one phone | – |
| `Accounts` | one address: sign-ups, saves, purges | – |
| `PushTokens` | whose notifications one phone gets | – |
| `Recognition` | the restart loop and the assembler over any engine | – |
| `StreamEngine` | the streaming engine of the phone: socket, microphone, backlog | – |
| `ChunkEngine` | the chunked engine and the switch to it | – |
| `RecordingControl` | pause, resume, end, calls, deaths of the app | – |
| `MeetingRoom` | the screen that follows a meeting | – |
| `PipelineProofs`, `SegmentSyncProofs`, `StreamProofs`, `SessionProofs`, `PhoneProofs`, `EngineProofs`, `KnowledgeProofs`, `TranscriptProofs` | theorems | the modules they are about, `TLAPS` |
| `MC_Pipeline`, `MC_SegmentSync` | finite instances | – |
| `MC_Knowledge` | freshness, chunker, graph, translations and the screen, one part per behaviour | those five |
| `MC_Services` | the eleven modules of speech, recording, accounts and Gemini, one part per behaviour | those eleven |

The parts of `MC_Knowledge` and of `MC_Services` share no variable. A behaviour picks one part (`part`) and
leaves the others in their initial state: interleaving them would multiply the states and show nothing. Where
components do share state they are composed in one module: phone, wire and server in `SegmentSync`;
workers, sweeps, Redis and PostgreSQL in `Pipeline`; runner, pass, server and transcript screen in `Translations`;
screen, access token, socket and room in `MeetingRoom`; loop, assembler and engine in `Recognition`.

Operators whose name begins with `Bad` are variants of the definition next to them with a plausible
defect; no action uses them. They are kept to show, for every checked property, a change of the code that would
break it.

### Pipeline

One action is one transaction or one awaited call.

| Code | Actions and state |
|---|---|
| `meetings` row | `status` (`"deleted"` when there is no row), `run`, `failureReason`, `notified`; `quiet` says that `updated_at` is older than the sweeps' thresholds (5 and 10 minutes) |
| `processing_jobs` | `rows`, one status per step |
| BullMQ | `jobs`, `attemptsMade`; `Add` is a no-op while the id exists, `Take`, `Resolve`, `Reject` are the worker's side, `Stalled` the expiry of a lock |
| worker slots and the maintenance worker | `proc`: where each is between two awaits, and what it read |
| `MeetingsService.end`, `reindex` | `End`, `Reindex`: the transaction; then `EnqueueAfterCommit` or `LoseEnqueue` |
| `requeueStrandedMeetings`, `resumeStalled` | `RequeueStranded`, `SweepScan` |
| `handleRunJob` → `advance` | `StartRun`, `Advance` (the read), `EnqueueStep` or `CompleteRun` (the act) |
| `handleStepJob` | `MarkRunning`, `HandlerSucceeds` / `HandlerFails`, `MarkSucceeded`, `FailStep`, `RecordAttemptError` |
| `MeetingReadyNotifier.notify` | `ClaimPush`, `SendPush` |
| failures | `Crash`, `LoseLock`, `Throw` (PostgreSQL or Redis fails under an await outside the handler's `try`) |

Abstractions: one meeting, because meetings share no pipeline state; `current()` and the re-check in
`markRunning` are one step, because the second, under the lock, decides; a handler is a step that
succeeds, fails, or fails for good; the user has a push token (`PushTokens` says when) and has not switched the push off; the
guard of a `changed` re-index that looks for unprocessed edits needs the transcript and is left to
`TranscriptFreshness` (so the model allows a re-index the code refuses, never the reverse). The history
variable `done` is needed because the rows alone do not tell: `recordAttemptError` can put a succeeded
row back to `pending`.

### SegmentSync

One phone, one signed-in user, any number of meetings; a segment is its seq and `rows` tells text recorded here
from text recorded elsewhere.

| Code | Actions and state |
|---|---|
| SQLite | `local`, `created`, `lastSeq`, `pending`, `ops`, `blocked` |
| `SyncWorker` | `pc`, `cur`, `todo`, `retry`, `again`, `timer` (the pass), `inFlight`, `stale`, `bulkOnly` (the window); `StartPass`, `NextMeeting`, `ReplayOps`, `SendOnSocket`, `SendBulk`, `NothingToSend`, `SendEnd`, `TimerFires` |
| answers | `Succeeds`, `NotFound` (`gone`), `Refused` (`blocked`), `FailsForNow` (`retry`), `Offline` |
| `RecordingSession`, `recording-recovery.ts` | `live`; `Start`, `Hear`, `Press`, `EndUnfinished`, `ResumeUnfinished` |
| `MeetingSocket`, gateway | `conn`, `room`, `up`, `down`; `Join`, `Disconnect`, `ClientAck`, `ClientError`, and the age of the handshake's token: `TimePasses`, `TokenExpired` |
| ingest and batch writer | `buffer`; `Receive`, `WindowEnds`, `WriteBatch` |
| HTTP API | `http`; `ServeCreate`, `ServeMove`, `ServeBulk`; `end` is `EndFlushes`, `EndScans`, `EndCommits` or `EndRefused`, since its flush, its scan and its commit are separate awaits |
| the rest of the world | `AutoClose`, `StartProcessing`, `Delete`, `EndElsewhere`, `ConsentChanges`, `AcceptConsent` |
| failures | `AppDies`, `ApiCrashes`, `TimesOut` (then served late, or `Vanishes`), `ServerError`, the rate limit in `Receive`, the failed transaction in `WindowEnds` |

Abstractions: the receipt of an answer and the SQLite write it causes are one step, and so are the end of
a pass and `running = null` (nothing is awaited between them); the session's meeting is the
worker's live meeting (signing out is not modelled); acks and messages on one socket are sets, so
they may be reordered, which socket.io does not do: more behaviours, not fewer; of the pipeline only
`StartProcessing` matters here, since `processing` is when segments are refused; titles and timings
are left out, translations have a module of their own; two overlapping `start()` calls are excluded. `Delete` is the physical delete the code makes, and a replayed `create` re-creates the row.
The token of a handshake is checked at each segment (`segment-ingest.handler.ts:45`): a joined socket is young until the server has answered it once or
there was nothing to send, since 15 minutes outlast a segment and its answer, and from then on (`aged`) any segment may meet `TOKEN_EXPIRED`. The rate limit is a fault:
one segment at a time does not reach it.

### Translations

| Code | Actions and state |
|---|---|
| `translation-runner.ts` | `chain` (jobs in order; `due` ones are those `end()` waits for), `mark`, `shown`; `SpeakLine`, `JobDone`, `RetryTranslation`, `Settled` |
| `translation-queue.ts` | `rows`; `Pending`, `Syncable`, `Dropped` |
| `sync-worker.ts`, `translation-sync.ts` | `todo`, `put`, `missing`, `ending`; `PassReads`, `PutAnswered`, `PassFails`, `PassWaits`, `EndSent`, `EndAnswered` |
| `segment-translation.service.ts`, `meetings.service.ts` | `text`, `trans`, `wanted`, `closed`; `PutApplied`, `EndApplied`, `ChangeTarget`, `ServerCloses`, `CorrectLine` |
| the transcript screen | `read`, `dich`; `ReadTranscript`, `TapDich`, `DichStored` |
| the app's death and what follows | `KillApp`, `ResumeUnfinished`, `EndUnfinished` |

A text is its version and a translation the version it was made from, which is all the properties tell apart. How lines reach
the server is `SegmentSync`'s subject: here a line arrives at any time after it was spoken (`SegmentAcked`),
but before `end`. `ServerLoses` stands for a row the server no longer has (the code has a counter for it,
`TRANSLATION_MAX_NOT_FOUND`).

### TranscriptFreshness

| Code | Actions and state |
|---|---|
| `transcript.service.ts`, uploads after `end` | `version`, `editedAt`; `EditSegment`, `UploadLate` |
| `pipeline-control.service.ts`, `meeting-edits.ts` | `Reindex` (full, changed, or resumed after a failure), `HasUnprocessedEdits` |
| `pipeline-store.ts` | `phase`, `scope`, `startedAt`, `succeeded`; `StartRun`, `Running`, `Record`, `FailStep`, `Complete` |
| the five step handlers | `ChunkRead`/`ChunkWrite`, `EmbedBatch`, `ExtractGroup`, `ResolveOne`, `SummaryRead`/`SummarySave`: a read, an await and a write are two actions |
| `actions.service.ts` | `tasks`, `dismissed`; `CreateTask`, `UpdateTask`, `RemoveTask` |

One worker: who may run a step, and how often, is `Pipeline`. A chunk is its range and the versions in it, so equal records
are what equal hashes are in the code. Timestamps come from a clock that ticks whenever the code takes one it later compares.
`unseen` is a history variable: the lines changed while no run was sure to read them, the two exceptions described
under "Seen while modelling".

### Chunker

The greedy cut, the preference for a long pause, the overlap and the re-cut within old ranges are functions over
lines of bounded sizes and pauses; `ChunkStep`, `Correct` and `LateLines` let a transcript be cut, changed and cut again. The
reference definition (`CutsAreSound`): the ranges cover the transcript, begin and end in order, and no freshly cut chunk of
more than one line exceeds the target.

### EntityGraph

| Code | Actions and state |
|---|---|
| `resolve-step.handler.ts`, `entity-resolver.ts` | `Look` (before the lock), `ResolveChunk`, `ResolveFails`, `SweepUnmentioned` |
| `entity-merge.service.ts` | `Merge`, `Undo`, with the snapshots `merges` carries |
| `entity-edit.service.ts` | `Rename`, `RemoveEntity`, `RejectSuggestion` |
| `chunk-step.handler.ts`, `meeting-deletion.service.ts` | `Recut`, `DeleteMeeting` |
| foreign keys | `DeleteEntities`: what `ON DELETE CASCADE` and `SET NULL` take along |

Every writer but the rejection holds the user's advisory lock for its transaction, so a transaction is one action; the look-up
before the lock is one of its own. What the model extracts from a chunk is the constant `Extraction`, whether
two names are close is a choice (`proposed`). A merge that was undone, or whose row went with an entity, stays in `merges` but is not
`open`: nothing reads it again. `home` and `written` are history: where a mention and a relation were found.

### Answers

`Retrieve`, the model's answer and `AnswerStored` are separate, with corrections, re-cuts, embeddings, deletions and clearing of
threads between them. A ranking is any order of the passages in scope; the context budget cuts it. A passage is its
chunk row, meeting, place and text; `Available` is the check that marks an old citation unavailable.

### LiveStream and StreamSlots

| Code | Actions and state |
|---|---|
| `stt-live-session.ts` | `livePhase`, `working`, `active`, `retiring`; `RotateLeg`, `RotateOpened`, `RotateFlushed`, `OnClose`, `Recover`, `RecoverOpened`, `LegOpenFails`, `OpenedTooLate`, `Stop`, `StopFlush`, `StopDone` |
| `stt-live-leg.ts` | `legs`; a leg whose close event is on its way is `dropped`; `oldLeg` is what a leg closed at a takeover may still say (`LateFinal`) |
| `stt-audio-ring-buffer.ts`, `stt-seam-filter.ts` | `said`, `Replay`; `seam`, `Aligned`, `FilterFinal` |
| `stt-stream.gateway.ts`, `stt-stream.service.ts` | `SttStart`, then `ConsentAnswered`, `BudgetAnswered`, `Register`, `StreamOpened` as separate awaits; `SttStop`, `SocketGone` |
| `stt-stream.ts`, `stt-live-usage-meter.ts` | `streams`, `metered`; `Tick`, `TickRefuses`, `StreamFails`, `StreamStopped` |

A frame holds one word and words are numbered, so the seam filter's comparison of texts is one of numbers. `StreamSlots`
sees a Live session as something that opens, fails or stops: `LiveStream` has its inside. Gemini's own behaviour (when
a session drops, in what pieces it answers) is unconstrained.

### GeminiCalls

`calls[c]` walks through waiting, trying a key, backing off and recording; `inside` and `waiting` are the runner's counter and queue,
`restingUntil`, `disabled` and `cursor` the key pool. A finished call hands its place to the first that waits in the same
step, as the resolved promise's microtask does. Time is a bounded clock; answers other than a result are bounded by
`MaxErrors`. Embeddings, whose usage comes from a second call, are left out.

### Sessions and Accounts

`Sessions`: the server's `issued`, `holder`, `family`, `revoked`; the phone's pair in `memory` and on `disk` (`storing` between the
two); refresh requests `asked`, which can outlive the app and still be served; `uploads` that carry somebody's recording and
are retried after a refresh. A refresh token and the access token signed with it have one number.

`Accounts`: a request reads the row (`Ask`, `AskByEmail`, `Hold`), and saves the entity it holds later (`Create`, `Recovered`, `Save`);
TypeORM's `save()` writes the columns that differ from the row as it is by then. `RetentionSweep`, `RetentionPolicy`, `HardDelete`
are the jobs; `DayPasses` needs no request open, because a request does not last a day.

### PushTokens

| Code | Actions and state |
|---|---|
| `push_tokens` | `row`: the user of this phone's token; `Serve` is the upsert or the caller's own DELETE, `Cascade` the hard delete of its user |
| `use-push-notifications-lifecycle.ts` | `user`; `EnterAs`, `AppReopened`: the status becomes authenticated and a registration starts |
| `push-registration.ts` | `pushCalls`: each run asks for permission and token, then sends as whoever is signed in by then (`Send`); `NotAsked`, `CallAnswered`, `CallLost`, `TimedOut` |
| `use-auth-mutations.ts`, `use-account-mutations.ts` | `going`; `StartLeaving`, `Unregistered`, `Left` |
| `axios-client.ts` | `SendAgain` after a refresh, `SessionLost` when it fails |
| `meeting-ready.notifier.ts` | `notice`; `NoticeReads`, `NoticeSent`, `DropGone` |
| outside | `Uninstall`, `Reinstall`, `Vanishes` |

One phone, whose installation has one Expo token. How a session is refreshed is `Sessions`: here it is one account or none. Requests that
were given up on may still be served. `registered`, `late` and `cut` are history: what `PushesFollowTheUser`
excepts is named there and nowhere else.

### Recognition, StreamEngine, ChunkEngine, RecordingControl

| Code | Actions and state |
|---|---|
| `restart-loop.ts` | `loop`, `timer`; `Listen`, `DoSilence`, `TimerFires`, `Launch` (a start that works or throws), `HandleStart`, `HandleError`, `EndSession` |
| `segment-assembler.ts`, `recognition-pipeline.ts` | `lastPartial`, `pendingGap` (a length), `saved`; `Listened`, `Flush`, `Final`, `OnGap` |
| the engine | `EngineUp`, `EngineHears`, `EngineFinal`, `EngineDies`, `EngineComplains`; of the server engines `EngineUpAgain` (the chunked engine takes over, or a stream comes up after its stop), `EngineLoses`, `EngineFails` (an `error` whose `end` waits for the uploads); its events reach JavaScript by `Deliver` |
| `server-stream-stt-engine.ts` | `streamState`, `epoch`, `reconnecting`, `loops`; `StreamStart`, `StreamStop`, `Reconnect`, `DelayOver`, `ShutDown` |
| `server-stream-stt-channel.ts`, `-uplink.ts` | `opens`, `socket`, `linked`, `ended` (the server ended the stream, its close is on the way); `queue`, `online`, `dropped`, `sent` |
| `server-stt-engine.ts`, `server-stream-stt-fallback.ts` | `chunkState`, `chunkOps`, `chunkUploads`, `files` (deleting one is best effort: `Deleted`; an open purges), `told`; `fallback` |
| `recording-session.ts` | `turn` (the transition under way) and `toDo` (`serial()`); `TakeTurn` … `OpFails`, `Finish` |
| `call-interruption.ts`, buttons | `CallStarts`, `CallEnds`, `Tap`; `pausedBy`, and the history `pauser` |

No delay is measured: an armed timer may fire at any moment, so every race of an event with a timeout is a behaviour. Only the time without a session is
counted (`downTime`), since an interruption shorter than `GAP_MARK_MIN_MS` is not shown. The microphone is `StreamEngine`'s and not `ChunkEngine`'s subject.
`pausedBy` is set with the pause's write; the code sets it a microtask later, when the promise of the serialised pause is settled (`call-interruption.ts:53-58`). The native
recogniser's events arrive through a FIFO; a `start` comes before a timer fires. The server engines call their handlers
directly, and in the instance of `MC_Services` the mode is chosen with the part. `Recognition` sees its engine through the interface
`StreamEngine` and `ChunkEngine` implement, `RecordingControl` sees recognition as `listening` and the utterances it hands over.

### MeetingRoom

What the screen shows is the number of status changes its data holds. The query (`page`, `fetch`), the socket
(`sock`, `room`, `wire`) and the access token are one model because they share it: an expired token refuses the
handshake, a renewed one opens another socket. `StatusChanges` and `Announce` are two steps, as the commit and the emit are in
the engine; `missed` is the history of what fell where no announcement reaches, `raced` of what was heard while an older first answer was on its way.

## 3. Runs

| Run | Instance | Checks |
|---|---|---|
| `pipeline_steps` | 3 steps, 2 workers, the sweep, 1 run, 2 attempts, no fault | `ReadyMeansDone`, `ImplementsContract` |
| `pipeline_gap` | 3 steps, the last without a handler, 2 workers, 1 run, 1 fault | `FailedNamesStep` |
| `pipeline_runs` | 1 step, 1 worker, the sweep, 2 runs, 1 fault, fairness | `TypeOK`, `AtMostOnePush`, `NeverSwallowed`, `OldRunChangesNothing`, `QueuedIsProcessed` |
| `sync_live` | 1 meeting, 2 segments, a socket whose token expires, 1 fault (a deletion elsewhere is one), fairness | `NeverEndsAnyway`, `Synced`, `BacklogIsSent` |
| `sync_backlogs` | 2 meetings, one adopted, 2 segments, delete and consent | `NoLoss` |
| `sync_continued` | an adopted meeting, 2 more segments, 1 pause and resume, 1 fault, auto-close | `TranscriptComplete` |
| `knowledge` | five parts, see below | `FreshOrFlagged`, `ReadyIsConsistent`, `OnlyChangedChunksRedone`, `UserTasksSurviveRuns`; `CutsAreSound`; `GraphIsFlat`, `MentionsAtHome`, `UndoRestoresInOrder`; `TranslationsKept`; `HeardIsShown` |
| `services` | eleven parts, see below | `NeverDeaf`, `NoStraySession`, `SpokenOrder`; `StreamsAreHeld`; `PlacesAddUp`; `OwnersDataStaysHome`, `NoFalseAlarm`; `PushesFollowTheUser`; `SignInsMeet`; `CitationsLead`; `SavedOnce`, `DeathsAreMarked`, `KeepsListening`; `LossIsShown`; `EveryChunkAccounted`; `EndIsComplete`, `OnlyOwnPauseUndone` |
| `sync_adopt_offline` | an adopted meeting whose segments cannot be read | violates `NoLoss` |
| `sync_consent` | a new consent text, fairness | violates `BlockedUntilConsent` |
| `stream_deaf` | the streaming engine, 2 runs | violates `AudioFlows` |
| `stream_late` | one live stream, 4 words, 2 seams | violates `FirstFinalsMatched` |

### Bounds and why they are enough

*Pipeline.* Three steps give a first, a middle and a last one; two workers and the sweep are every kind of process, and
two workers already race on one step once a lock is lost; two attempts give one that is retried and one that
is final; two runs give an old and a current one (a third run relates to the second as the second to the
first); one fault is placed at every step of every interleaving. The proofs drop all these bounds for safety.

*Sync.* Two segments make a transcript that can have a hole; `BulkThreshold = 1` makes one pending segment go by
socket and two by bulk, so a backlog changes path while copies are still in flight; `BulkLimit = 1` makes a
backlog take several requests; `Window = 1` makes the in-flight window full; two meetings make a pass with one that
fails and one that does not. Meetings share only the worker and the socket. The proofs drop these bounds for
`NoLoss` and `TranscriptComplete`.

*`knowledge`.* Freshness: two lines, one of which may arrive late, make one chunk, two, or one that is cut again with its
neighbour unchanged; two corrections and two re-index requests give a correction behind a resumed run of a failed run. Chunker:
four lines of sizes under, at half and at the target, pauses under, at and over the threshold. Graph: three names in
two meetings, two merges (so that a merge of a merged entity and an undo out of order happen), and one rename, removal or
re-cut between them. Translations: two lines (one being made while another is sent), one correction, two troubles. Screen: two
changes (one missed, one heard) and three troubles (a lost socket while a token is expired).

*`services`.* Two seams of four words: a seam at a seam. Two sockets of one user, one place: a replacement, a refusal, and the
meter at its limit. Two calls, two keys, one place, one retry. Two people, three tokens: one person's pair is refreshed while the other signs in.
Two people on one phone, four
registrations or unregistrations and one loss: somebody leaves a row behind and the next user's registration moves it. Three requests on one account over three days with a grace of two: a sign-in, a deletion and a purge around each other. Two
meetings of two passages with a context that holds some of them. Two utterances and three engine sessions, each a tick after the one before,
with a mark from two ticks on: one death that is too short to show, and two that add up to a mark. One retry and a backlog of one frame: an overflow. Three chunks with one that may wait. One meeting, one death of
the app, two calls, and transitions that wait for one another.

`CHECK_DEADLOCK FALSE` everywhere: a deleted, ready or synced meeting with no requests left, or a part at its bounds, is a
legitimate end. What must not stop is stated as liveness, or as an invariant that somebody can go on (`NeverDeaf`, `KeepsListening`).

### Fairness

*Pipeline* (`Fairness`): BullMQ hands out waiting jobs, a fetched job goes on (a handler ends within its time
budget, `pipeline-engine.ts`), the call after a commit is made unless it is lost, the schedulers fire
for ever. Nothing is assumed of users and faults. `QueuedIsProcessed` assumes one more thing, in its own
statement: `HandlersRecover`, that handlers do not fail retryably for ever. Without it there is a
behaviour in which the sweep re-adds a succeeded step, that handler fails and resets the row, and two steps re-open each other
without end; it needs a failure in each of infinitely many rounds.

*Sync* (`Fairness`): the event loops of phone and API go on, timers fire, requests that are not lost are
served, what the socket carries arrives, and a socket whose token has aged and over which segments are sent again and again meets its expiry one day (strong fairness of
`ExpireAny`: a segment is not always on the wire, but a token that was valid for 15 minutes is not valid for ever). Not assumed: that the socket ever joins again (the bulk path
serves without it) or that the minute of bulk ends, nor any button, adversity or fault. Faults are
bounded by `MaxFaults`, so after the last one the world is quiet: liveness says "once things stop failing".

The other modules state safety only. Several of their invariants are what liveness would rest on: that a loop, a stream or a
rotation which waits, waits for something that is on its way.

### What the violations show

Each is a finding in `PROJECT.json`.

1. `sync_adopt_offline`: a failed `GET /segments` counts as "no segments", so the adopted meeting is
   continued from seq 1 and the server acks lines it does not store.
2. `sync_consent`: nothing ever clears `blocked`.
3. `stream_deaf`: a run that fails while it is reconnecting leaves the uplink offline; the next run records
   and sends nothing.
4. `stream_late`: a last text of the session that was closed at a takeover is delivered through the filter armed for the new one and uses it
   up; the replayed words reach the client twice.

### Seen while modelling

Behaviours of the code met on the way, which the properties either except explicitly or do not speak of.

*Pipeline.* A database error inside the failure path (`pipeline-engine.ts:122-130`) would have BullMQ try the job again while attempts are left; `Throw` takes the job's failure there as final.
`advance()` is not idempotent: a sweep that read a step before it succeeded schedules it again afterwards, since its job
id is free again and `markRunning` lets it through; `ReadyMeansDone` still holds (`pipeline-engine.ts:75-92`). The push goes out
at most once, not exactly once: the claim precedes the send. Two exceptions to `FreshOrFlagged` (`unseen`): a correction made while
the meeting is `failed` is hidden by the resumed run's new `pipeline_started_at` (`pipeline-control.service.ts:38`), and a line that arrives late
before the end of the last old chunk is cut into none (`chunker.ts:112`).

*Sync.* A pause served late, after the resume that followed it, leaves the server `paused` while the phone records
(requests carry no order; only the duration suffers). A meeting closed after 24 hours refuses the phone's backlog from `processing` on, and
the worker retries for ever (`meeting-state-machine.ts:44-46`). A `create` replayed after the meeting was deleted elsewhere makes it
again (`meetings.service.ts:80`). A meeting deleted elsewhere while its lines are on the socket is sent again and again, since
`MEETING_NOT_FOUND` is ignored there, until the handshake's token has lapsed or the rate limit is met: the join is then refused (`meeting.gateway.ts:48-52`), and the
bulk path's 404 removes the local copy (`Synced`). A meeting that cannot be synced (finding 2, and the backlog above) keeps the session in `ending`, so that no new
recording starts until the app does.

*Translations.* The PUT carries no version of the text, so a translation of the old text can stand beside the corrected line: from a
phone that was offline past the 24-hour close, or from "Dịch" on a stale transcript screen, although `transcript.service.ts:84`
clears the translation at each correction. A retry tapped while `end()` is not waiting for it is shown as done and then deleted with the local meeting
(`translation-runner.ts:33` says "Saved before it is shown as done").

*Recording.* `start()` and `resumeUnfinished()` are not serialised with the transitions. A failed `silence()` in End leaves the phase `recording`
with the microphone off. `finish()` leaves the pipeline running when the meeting being recorded was deleted. Unsaved lines of a deleted meeting block those
of the next. A call that starts while another call's resume is being written is not paused for.

*Recognition.* An interruption shorter than a second leaves no mark (`segment-assembler.ts:38-39`), even if it cost a word; most restarts are that short.
The microphone stays on after Pause or End when the recogniser starts slower than `startTimeoutMs`
(`restart-loop.ts:101-110`; the comment at `recognition-pipeline.ts:121-123` says "Mic off"). In the streaming engine, the socket of an old open can replace the new
one after a stop during a reconnect and a new start; the old run's `finally { reconnecting = false }`
(`server-stream-stt-engine.ts:116-118`) lets a second reconnect loop begin beside the new run's first, and the one that opens last closes
the live socket, so that frames are lost and no gap is told, although the comment there says "at most one reconnect runs at a time" (line 31).
`LossIsShown` excepts the runs that begin while work of an earlier one is pending (`crowded`). A failure while `mic.start` is pending leaks the microphone. In the chunked
engine the gap of an overflow is told before the text of earlier chunks, and a run that fails leaves the file of the chunk it was recording for the next open's purge
(`server-stt-engine.ts:147-154`).

*Streams and Gemini.* The limit of streams is checked and then acted on after awaits (`stt-stream.service.ts:59-62`). `STREAM_REPLACED` reaches the same socket
after a stop and a start. When reopening a session takes longer than the ring buffer holds, words
fall between the two, although `stt-live-session.ts:191` says that everything heard since the drop is still there. A short 429 shortens a daily rest (`gemini-key-pool.ts:78-82`); concurrent calls
overshoot the budget; an embedding is billed and not recorded when `countTokens` fails (`gemini.client.ts:160-178`).

*Tokens and accounts.* A refresh that ends after log-out restores the session (`axios-client.ts:59`); a network failure during a refresh logs
out (`axios-client.ts:125`); `refresh` reads and then updates, so two copies of one token fork the family (`auth.service.ts:91, 117`). `save()` of an
entity read before the account was deleted undeletes it (`users.service.ts:69, 77`). The deletion of an expired account takes
meetings that are still recorded (`account-deletion.job.ts:61-70`, against `retention.job.ts:22-24`); a shorter retention term deletes without a notice, and
`retention_notified_at` is never reset.

*Push tokens.* Asking for the account's removal unregisters the phone first, and a wrong password then keeps the account signed in without
notifications until the app is opened again (`use-account-mutations.ts:32`). A session thrown away because its refresh failed
leaves its row, so a signed-out phone goes on getting that user's notifications (`axios-client.ts:125`). A registration under way
when its user logs out can be served after the DELETE, and a DELETE given up on after three seconds can go out under the next user's token
(`push-registration.ts:102-112`). The notifier deletes a dead token whoever has it by then (`meeting-ready.notifier.ts:61`).

*Questions.* Two questions at once interleave in the thread; a meeting deleted while it is asked about makes the insert fail on its foreign
key; the screen appends an answer to a thread that was cleared meanwhile (`use-qa-thread`).

*The screen.* A change between the GET and the join, or while the socket is away, is missed: a reconnect joins again
and does not read again (`meeting-detail.tsx:43-46` says the status advances live; `HeardIsShown` excepts it by `missed`). A change that is heard while the screen's very first GET, answered already, is on its way is lost as well:
a query without data is not asked again, and the older answer clears the mark (`raced`). `recoverFromExpiredToken` gives up for good on a
failure that was only the network's (`use-meeting-room-socket.ts:88-95`). A join refused because a read failed is not tried again
(`meeting.gateway.ts:48-52`).

## 4. Proofs

`PipelineProofs` holds for every `NSteps`, `Handled`, `MaxAttempts`, `Workers`, `MaxRuns` and `MaxFaults` that
satisfy `PipelineAssumption` (numbers are naturals, there is a step, the sweeper is not a worker), so for any
number of processes, runs and faults.

| Theorem | States |
|---|---|
| `TypeOKInvariant` | `Spec => []TypeOK` |
| `ReadyMeansDoneCorrect` | `Spec => []ReadyMeansDone` |
| `FailedNamesStepCorrect` | `Spec => []FailedNamesStep` |
| `NeverSwallowedCorrect` | `Spec => NeverSwallowed` |
| `OldRunChangesNothingCorrect` | `Spec => OldRunChangesNothing` |
| `AtMostOnePushCorrect` | `Spec => []AtMostOnePush` |
| `ImplementsContractCorrect` | `Spec => ImplementsContract` |

The argument:

* `TypeInv` strengthens `TypeOK`: a busy process holds a real job, one that runs a step holds a step job,
  and a queued meeting has a run. Without the first two, the job ids that `EnqueueStep` and `Reject` form need not exist.
* `SafeInv` is the heart. `completeRun` trusts a read made outside the lock, and what makes that sound is
  `CompleteKnows`: a process about to complete the *current* run of a meeting still `queued` or
  `processing` read rows that were all succeeded, and then `done = Steps` still. It is inductive because
  `done` only shrinks in a step that also leaves `processing` (`failStep`) or counts a new run
  (`reindex`), and a meeting comes back to `queued` only under a new number. That needs `PastRuns`:
  no process, job or pending enqueue belongs to a run that has not begun.
* `PastRuns` also gives `NeverSwallowed`: the job ids of a new run are free because it is numbered past every job there is.
* `PushInv`: at most one process holds the claim, and while one does no push has gone out.
* The refinement maps `status`, `run` and `done` to themselves. Every step is one of the contract's or leaves
  the three alone; `complete` needs `CompleteKnows`.

`SegmentSyncProofs` holds for every value of the constants that satisfies `SyncAssumption`: any number of meetings,
adopted or not, of segments, presses and faults, any threshold, bulk limit and window, any set of adversities. `NoLoss` and
`TranscriptComplete` have a premise, `Adopted = {} \/ "load_fails" \notin Env`; without it
`sync_adopt_offline` is the counterexample, so the premise is exactly the code's weak point and not a convenience.

| Theorem | States |
|---|---|
| `TypeOKInvariant` | `Spec => []TypeOK` |
| `NoLossCorrect` | under the premise, `Spec => []NoLoss` |
| `TranscriptCompleteCorrect` | under the premise, `Spec => []TranscriptComplete` |
| `NeverEndsAnywayCorrect` | `Spec => []NeverEndsAnyway` |

The argument:

* `TypeInv` strengthens `TypeOK`: one request is waited for at a time (`OneAnswer`), past the `create` the pass is at a
  created meeting and a pause or resume under way is the head of its queue (`AtCreated`), and without a
  socket nothing is on the wires (`RoomInv`). Without them an answer might change a meeting, a queue head or a
  room that does not exist.
* `NoLoss`: a line leaves `pending_segments` in four places, each safe for a reason of its own, a part of `SafeInv`. An ack
  on its way is of a stored line, because acks are made after the commit (`AckStored`). The rows a bulk request leaves are
  this phone's, because no line of it has the seq of a line recorded elsewhere (`Numbered`; here the
  premise is used). `end` is answered while nothing is pending and the phone takes no line (`EndInv`). And a meeting
  that was created and is not found was deleted by its user (`OnServer`). `DiskCases` and `ServeTold`
  reduce every step to these cases; `RowsStep` says that a stored row stays.
* `TranscriptComplete`: when `end` is sent nothing is pending, so by `NoLoss` every line is stored; from then on the phone takes no
  line and the server does not take the meeting back to `recording` (`EndedInv`, `OverStep`), however
  late a request the phone gave up on is served. So the check of `last_seq` on the server is a second line of
  defence, not what completeness rests on.
* `NeverEndsAnyway` is about that second line: it never turns the phone away. What was counted is pending or on the
  server (`Filled`), nothing on its way to the server is above the phone's own count, and nothing there is but the one line another device
  sent (`HeardOnly`), so every seq up to the `last_seq` of an `end` is stored when it goes out and stays so (`EndsFull`). The property's
  `gone = {}` is needed: a meeting deleted between the flush and its `end` has no rows, and the client ends it without its
  last line, in vain. `"load_fails"` is not excluded: a line that is not the phone's own fills its seq as well.

`StreamProofs` (modules `LiveStream` and `StreamSlots`), for any number of sockets, users, streams, rotations, drops and
words, with the thresholds ordered as the code's are (`LiveAssumption`: the overlap fits in the ring and the ring in the words a seam is
matched against).

| Theorem | States |
|---|---|
| `StreamsAreHeldCorrect` | `SlotsSpec => []StreamsAreHeld` |
| `NeverDeafCorrect` | `LiveSpec => []NeverDeaf` |
| `NoStraySessionCorrect` | `LiveSpec => []NoStraySession` |
| `SpokenOrderCorrect` | `LiveSpec => []SpokenOrder` |

`StreamsAreHeld` says both ways round that streams and slots belong together: a stream that holds a session has its user's slot
(`StreamsHold`), and a slot that is taken has a stream which holds one (`NoSlotLeaks`); with the types that is inductive (`SlotsInv`). The live session's invariant says which awaits
can be under way in which phase; each of them ends in a leg that hears, in another attempt, or in the end of the session, and
an open that comes too late closes what it opened.

`SpokenOrder` compares only the transcript with itself, so its invariant (`WordsInv`) follows each word from the microphone to the
client. It holds for streams in which no closed session speaks late (`HeardInTime`: up to the first late final `WordsInv` is inductive, and after
one nothing is claimed; `stream_late` shows why). While the transcript is exact:

* the filter expects the end of it (`Fits`), and after a first match exactly the words a leg has still to repeat;
* what a leg that is listened to has still to say is a run of words that begins at most one after the transcript's end and
  in which no word is left out, up to the last one pushed while its socket lived (`Speaks`);
* what a leg said while it was held back is runs that follow each other, from a word that goes back no further than the overlap
  (`HoldsBack`, `Flushes`), and releasing it keeps that (`Released`: an induction over the texts held).

So the suffix of the transcript that a new leg repeats is always there to be found, and the first place that matches is the right one
because the words are told apart (`FilterFits`). The words of the model are all different; where a speaker
repeats a phrase near a seam the code can drop or double it, and accepts that. One assumption is about
Gemini: its shortest text has at least `MIN_FRESH_MATCH` words (`FreshMatch <= ShortestText`). A first text of one word after a
seam is passed on unfiltered, as a coincidence (`stt-seam-filter.ts:17`), and a speaker's sentence could then be begun twice.

`StreamProofs` on `GeminiCalls`, for any finite set of callers and any keys, retries and limit of at least one place:
`PlacesAddUpCorrect` states `CallsSpec => []PlacesAddUp`. The invariant (`Placed`) is the property with the queue's members told apart: a
caller is in it once, exactly while it waits. The one step that hands a place on (`Leave`) is a lemma for every way a call can end:
the counter goes down only when nobody waits, and otherwise the place passes to the head of the queue. That needs
that taking a member out of a cardinality and putting another in leaves it, and that an abort takes out its own place of the queue
(`RemovedAt`).

`SessionProofs` (modules `Sessions` and `PushTokens`), for any people (at least one), tokens, uploads and calls.

| Theorem | States |
|---|---|
| `SessionsTypeCorrect` | `SessionsSpec => []SessionsTypeOK` |
| `OwnersDataStaysHomeCorrect` | `SessionsSpec => []OwnersDataStaysHome` |
| `NoFalseAlarmCorrect` | `SessionsSpec => []NoFalseAlarm` |
| `PushesFollowTheUserCorrect` | `PushSpec => []PushesFollowTheUser` |

* `OwnerInv`: an upload under way carries a token of its recording's owner (`OwnToken`). The refresh is the hard case: an upload that waits for
  one is queued and its owner compared again with who is signed in by then.
* `AlarmInv`: as long as nothing was lost or restarted (`disturbed`), the tokens of a family form a line (`Families`), the phone's pair
  is the end of its line (`PairInv`), and only one refresh of it is in flight (`FlightInv`, the single flight of
  `refresh-single-flight.ts`). So the server never meets a token a second time.
* `PushInv`: while nothing from before the sign-in is about, a registration is the only call there is, and the row is its doing once it was
  served (`FreshInv`); while every row was taken back, the row is the user's, and the DELETE is alone and signed by that user
  (`UncutInv`), which is why it must go out before the session is cleared.

`SessionProofs` on `Accounts`, for any requests and meetings, and any grace of at least one day: `SignInsMeetCorrect` states
`AccountsSpec => []SignInsMeet`. The strengthening `RowsInv` says that an account which an open request found, or missed and lost the race
to create, cannot be cleared away yet (`Recent`): a request does not outlast a day and the grace is at least one. With a grace of
zero the sign-in could find its address gone after the insert failed.

`PhoneProofs` (modules `Recognition` and `RecordingControl`), for any number of sessions, utterances,
errors, meetings, presses and calls, and interruptions of any length against any threshold (`RecognitionAssumption`, `ControlAssumption`: lengths, the threshold and the bound on
meetings are numbers).

| Theorem | States |
|---|---|
| `KeepsListeningCorrect` | `RecognitionSpec => []KeepsListening` |
| `SavedOnceCorrect` | `RecognitionSpec => []SavedOnce` |
| `DeathsAreMarkedCorrect` | `RecognitionSpec => []DeathsAreMarked` |
| `OnlyOwnPauseUndoneCorrect` | `ControlSpec => OnlyOwnPauseUndone` |
| `EndIsCompleteCorrect` | `ControlSpec => []EndIsComplete` |

* `ListeningInv`: an engine that goes down leaves its `end` behind in the event queue (`EndIsNear`), and an `end` the loop handles arms
  the timer (`LoopInv`).
* `OrderInv`: what is in the event queue, the word half said and what was saved follow each other (`EventsInOrder`, `HalfSaid`), and what a dead
  session still delivers is not taken for news (`NewsOnly`). That is what makes the flush of a half-said word safe.
* `MarksInv` adds where the time since the last saved segment's session is accounted: in `pendingGap`, or, after a death, from the moment the loop took
  the session for dead (`Counted`, `DeathInv`). So several short interruptions add up to a mark, and one of `GAP_MARK_MIN_MS` alone is one.
* `OwnPauseInv` and `CompleteInv`: transitions are serial (`TurnInv`, `QueueInv`), who paused is known while a call's
  resume waits for its turn (`PauserInv`), the parity of the operations on disk says where the meeting stands (`OpsInv`, `HereInv`), and an end waits
  for the lines and translations before it (`EndingInv`).

`KnowledgeProofs` on `TranscriptFreshness`, for any number of lines, late lines, corrections, re-runs and tasks, and any way
of cutting a transcript that covers it.

| Theorem | States |
|---|---|
| `FreshOrFlaggedCorrect` | `FreshSpec => []FreshOrFlagged` |
| `ReadyIsConsistentCorrect` | `FreshSpec => []ReadyIsConsistent` |
| `OnlyChangedChunksRedoneCorrect` | `FreshSpec => OnlyChangedChunksRedone` |
| `UserTasksSurviveRunsCorrect` | `FreshSpec => UserTasksSurviveRuns` |

* `StepInv`: steps succeed in their order (`OrderInv`), so the chunk step finds no other step done, and what a step that
  succeeded has left stands until the chunk step runs again (`StepsInv`). What a handler read is still what it would read, since
  the row lock keeps corrections out of `processing`.
* `LinesInv`: whenever the chunk step has succeeded, or the run is a `changed` one, every line but the `unseen` ones is in some
  chunk; and once it has succeeded every such line is there as it stands, or was corrected after the meeting became ready. The first part is
  what a `changed` run rests on, which cuts within the old ranges (`DraftKeepsCuts`): a line no chunk had would stay out.

`KnowledgeProofs` on `EntityGraph`, for any finite set of names, any chunks and extractions, and any number of
entities, merges and changes.

| Theorem | States |
|---|---|
| `GraphIsFlatCorrect` | `GraphSpec => []GraphIsFlat` |
| `MentionsAtHomeCorrect` | `GraphSpec => []MentionsAtHome` |
| `UndoRestoresInOrderCorrect` | `GraphSpec => []UndoRestoresInOrder` |

* `TreeInv` is what is shown: entities are merged one level deep, into live ones. It is not inductive alone, because an undo
  moves back the rows of a snapshot taken long before.
* `MergeInv` says why the snapshot is still right. An open merge's entity, and what was below it, stand where its `keep` stands
  now, and a mention is of one of them exactly if the snapshot names it (`Holds`). Two open merges are nested or apart
  (`Nested`), so undoing one leaves the other's entities together, in whatever order.
* `CitesInv`: a citation is of a chunk row as it was cut, once per name, and ids of chunk rows are never used again. So a
  mention that a later resolve writes is in no older snapshot.
* Deletions take whole trees (`Closed`), which is why a merge with a side gone can be forgotten.
* `UndoInv` is what `UndoRestoresInOrder` needs beyond that. A relation is written once, by a chunk as it was cut (`StatedInv`). It is
  shown between those who stand for its two sides, or both sides stand under one entity (`ShownInv`); then the open merge that brought them
  together has it among what it dropped, with the side each end was on (`DropInv`), because whoever is merged was taken by an
  open merge into just that entity (`StackInv`). An undo can tell which of the relations at `keep` to take back because the row names
  exactly those with an end below its entity (`MarkInv`), also of those a later merge dropped and will give back (`LaterInv`).
  `NameInv` says the same of names. Where the order matters: a merge drops what lies between its entity and those that
  were under `keep` before it (`Beside`); undoing an earlier merge into the same `keep` takes some of those away, and the later
  one would then give back a relation at the wrong entity. That is what `tangled` records, and the theorem's premise excludes.
  Relations of an entity that takes part in no such merge are not told apart from the others: `tangled` is one flag for the graph.

`EngineProofs` (modules `StreamEngine` and `ChunkEngine`), for any backlog, number of attempts, frames, runs, chunks and failures.

| Theorem | States |
|---|---|
| `LossIsShownCorrect` | `StreamSpec => []LossIsShown` |
| `NeverDeafenedCorrect` | `StreamSpec => NeverDeafened` |
| `EveryChunkAccountedCorrect` | `ChunkSpec => []EveryChunkAccounted` |

* `AudioSound` and `NothingUnsaid` are about the frames: what left and what waits is in the order spoken, and what waits reaches up to what
  was spoken last without a hole, so a frame can only be missing before the head of the queue, where `dropped` tells of it. `OwnRun` is about
  the calls: a run that found no work of an earlier one has at most one loop and one open, both its own, is offline while the loop goes
  on, and is connected otherwise. Trying to prove it without the exception `crowded` is how the behaviour under "Seen while modelling" was found.
* `NeverDeafened` says how far the finding of `stream_deaf` goes: a run that records with its uplink online, or with a reconnect of its own
  under way, stays that way for as long as it records, unless work of an older run was pending when it began. The fault lies in
  how a run begins, not in how it reconnects. No run of the project checks this one.
* A chunk is in exactly one place: being recorded, waiting for its upload, or told of (`Places`); each operation moves one chunk to the
  next place. `Turn` says that the chunked engine runs only in its turn and that nothing waits for an upload when a recording starts, so the purge of
  its open finds no file that is still needed.

`TranscriptProofs` (modules `MeetingRoom`, `Answers`, `Translations` and `Chunker`), for any number of changes, passages, questions,
lines, and any sizes, pauses, target and overlap.

| Theorem | States |
|---|---|
| `HeardIsShownCorrect` | `RoomSpec => []HeardIsShown` |
| `CitationsLeadCorrect` | `AnswersSpec => []CitationsLead` |
| `TranslationsKeptCorrect` | `TransSpec => []TranslationsKept` |
| `CutsAreSoundCorrect` | `ChunkerSpec => []CutsAreSound` |

* `ShownInv`: unless something was missed or raced, the data on the screen or in the answer on its way is not behind what was announced, or the last
  announcement is still on the wire; and an announcement that arrives marks the data old.
* `CiteInv`: ids of chunk rows are given once (`RowsTold`), so what was found or cited is that very passage still, or no passage any more
  (`StillThat`); a correction of a line changes no chunk row.
* `TransInv` follows a translation somebody waits for from the chain to its row, to the pass that PUTs it and to the server: while
  recording such a job is made, `end()` waits for it (`DueSound`), no second job writes the row a pass holds (`JobsSound`, `TodoSound`),
  and the local copy goes only when nothing is left to PUT (`EndSound`).
* `CutsAreSoundCorrect` is about a pure algorithm: the greedy end of a chunk holds a line and fits the target
  (`FillEndIs`), the preferred pause lies within it (`PreferPauseIs`), the next chunk starts later and reaches as far (`NextReaches`), so the cut ends and
  covers the lines; a re-cut within old ranges keeps them. Recursion is on functions, and the inductions
  are over sets of numbers (`Upwards`: a set that holds 0 and with each number the next holds them all, from `LeastNumber`).

Only model-checked:

* liveness (`QueuedIsProcessed`, `Synced`, `BacklogIsSent`): fairness and `ENABLED` are outside what TLAPS supports.

The mutants listed in `PROJECT.json` show for each of them a change of the code that breaks it.

## 5. Not modelled, and why

* **Screens, hooks, widget, theme, art** (some two thirds of the implementation's lines): rendering and cached reads of the API.
  Of the hooks, the ones that race with something are in `Sessions`, `PushTokens`, `Translations` and `MeetingRoom`; the others (renaming a meeting
  optimistically, the question thread's cache) touch one screen's cache and are put right by the next fetch.
* **Search and export**: reads formatted for one request.
* **App lock**: a timer and a flag of one component.
* **Migrations, entities, DTOs, shared types, filters, pipes, logging**: declarations; the constraints the models rely on (unique
  meeting and seq, unique addresses, cascades) are part of the actions that meet them.
* **Prompts and parsing of Gemini's answers**, similarity of names, ranking of passages, estimates of tokens: data, replaced by choices.
* **The bulk recognition endpoint** (`stt.service.ts`) is one call to Gemini; **embeddings'** second call is left out of `GeminiCalls`.
* **Signing out in the middle of a pass** of the sync worker; **the keep-alive service** of a recording.
* **Overlapping `start()` calls** of the recording session, which does not serialise them; one screen makes one call at a time (`recording-setup.tsx:74`).

That is also why the models map a modest share of all lines: what remains has no state that a step of somebody else
could disturb, and a definition that stood for it would say nothing.

## 6. Plan

Done so far, in this order: pipeline, sync, what is derived from a transcript, the services around them, the phone's side of
speech and recording, then proofs in the same order. What would add most next:

1. `StreamEngine` and `ChunkEngine` shown to implement the engine `Recognition` assumes, as a refinement rather than by their common interface.
2. The optimistic rename and the cache of the question thread.
3. Signing out in the middle of a pass of the sync worker, by composing `SegmentSync` with `Sessions`.

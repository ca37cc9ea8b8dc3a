---------------------------- MODULE ChunkEngine ----------------------------
(***************************************************************************)
(* Recognition by the server from chunks of audio (server-stt-engine.ts),  *)
(* the safety net behind the stream, and the engine that switches between  *)
(* the two (server-stream-stt-fallback.ts).  Of the stream the switch sees *)
(* only that it runs, fails or ends: StreamEngine has the rest, its        *)
(* microphone included.                                                    *)
(*                                                                         *)
(* Recording is a sequence of numbered chunks.  What the screen is told is *)
(* a log of texts and gaps by chunk number; a gap for 0 is the time in     *)
(* which no engine ran.  A chunk has a file on the phone from its begin    *)
(* on; deleting one is best effort, and the next open purges what is left. *)
(***************************************************************************)
EXTENDS Naturals, Sequences

CONSTANTS
  MaxPending,    \* maxPendingChunks
  MaxChunks,     \* bound: chunks recorded
  MaxChunkRuns   \* bound: recordings started

VARIABLES
  fallback,      \* the switch: [st, fellBack, stopping, failed]; `failed` is failedAt > 0
  chunkState,    \* State: "idle" | "starting" | "recording" | "stopping"
  chunkStop,     \* stopRequested
  fatal,         \* an upload found another account signed in
  chunk,         \* the chunk being recorded, 0 for none
  chunks,        \* chunks begun
  chunkOps,      \* operations waiting: "rotate" | "shutdown" | "fail"
  chunkUploads,  \* chunks waiting for their upload, the first one under way
  files,         \* chunk files on the phone
  told,          \* history: [n, what]: "text", "silence", "gap", "sliver" or "withheld"
  chunkRuns      \* recordings started

chunkVars == <<fallback, chunkState, chunkStop, fatal, chunk, chunks, chunkOps, chunkUploads,
               files, told, chunkRuns>>

ChunkInit ==
  /\ fallback = [st |-> "idle", fellBack |-> FALSE, stopping |-> FALSE,
                 failed |-> FALSE]
  /\ chunkState = "idle" /\ chunkStop = FALSE /\ fatal = FALSE
  /\ chunk = 0 /\ chunks = 0 /\ chunkOps = <<>> /\ chunkUploads = <<>> /\ files = {}
  /\ told = <<>> /\ chunkRuns = 0

engineState == <<chunkState, chunkStop, fatal, chunk, chunks, chunkOps, chunkUploads, files>>

Tell(n, what) == told' = Append(told, [n |-> n, what |-> what])

-----------------------------------------------------------------------------
(* The switch (server-stream-stt-fallback.ts).                             *)

\* start() of the chunked engine; it ignores one while it runs.  What is left of an earlier run's
\* operations does nothing in the new epoch.
StartSecondary ==
  IF chunkState # "idle" THEN UNCHANGED engineState
  ELSE /\ chunkState' = "starting" /\ chunkStop' = FALSE /\ fatal' = FALSE
       /\ chunkOps' = <<>>
       /\ UNCHANGED <<chunk, chunks, chunkUploads, files>>

\* Streaming first; after a fallback the chunked engine until a stop has ended it.
StartRecording ==
  /\ fallback.st = "idle" /\ chunkRuns < MaxChunkRuns /\ chunkRuns' = chunkRuns + 1
  /\ fallback' = [fallback EXCEPT !.st = IF fallback.fellBack THEN "secondary" ELSE "primary",
                                  !.stopping = FALSE, !.failed = FALSE]
  /\ IF fallback.fellBack THEN StartSecondary ELSE UNCHANGED engineState
  /\ UNCHANGED told

FallbackEnded == [fallback EXCEPT !.st = "idle", !.fellBack = @ /\ ~fallback.stopping]

\* The stream ends: after a stop, or with an error the user must act on.
PrimaryEnds ==
  /\ fallback.st = "primary"
  /\ fallback' = FallbackEnded
  /\ UNCHANGED <<engineState, told, chunkRuns>>

\* STREAM_FAILED and the end after it come in one go: the chunked engine takes over unless the
\* recording was being stopped.
PrimaryFails ==
  /\ fallback.st = "primary"
  /\ IF fallback.stopping
       THEN fallback' = FallbackEnded /\ UNCHANGED engineState
       ELSE /\ fallback' = [fallback EXCEPT !.st = "secondary", !.fellBack = TRUE,
                                            !.failed = TRUE]
            /\ StartSecondary
  /\ UNCHANGED <<told, chunkRuns>>

\* stop() of the chunked engine: behind a rotation that has begun.
StopRecording ==
  /\ fallback.st # "idle" /\ ~fallback.stopping
  /\ fallback' = [fallback EXCEPT !.stopping = TRUE]
  /\ IF fallback.st = "secondary" /\ chunkState \in {"starting", "recording"}
       THEN /\ chunkStop' = TRUE
            /\ chunkOps' = IF chunkState = "recording" THEN Append(chunkOps, "shutdown") ELSE chunkOps
       ELSE UNCHANGED <<chunkStop, chunkOps>>
  /\ UNCHANGED <<chunkState, fatal, chunk, chunks, chunkUploads, files, told, chunkRuns>>

-----------------------------------------------------------------------------
(* Chunks.                                                                 *)

\* deleteFile() is best effort.
Deleted(n) == {files, files \ {n}}

\* collectChunk(): a chunk the recorder cannot close, a sliver, one to upload, or one too many; what
\* is not uploaded is deleted once it is closed.
Collect(stopped, left) ==
  \/ left = files /\ Tell(chunk, "gap") /\ UNCHANGED chunkUploads
  \/ stopped /\ Tell(chunk, "sliver") /\ UNCHANGED chunkUploads
  \/ /\ Len(chunkUploads) < MaxPending /\ left = files
     /\ chunkUploads' = Append(chunkUploads, chunk) /\ UNCHANGED told
  \/ /\ Len(chunkUploads) >= MaxPending
     /\ Tell(chunk, "gap") /\ UNCHANGED chunkUploads

\* beginChunk() worked; `left` are the files there were.
Begun(left) ==
  /\ chunks < MaxChunks /\ chunks' = chunks + 1 /\ chunk' = chunks + 1
  /\ files' = left \cup {chunks + 1}

\* run(): the recorder opens, purging what it finds except what cannot be deleted, and the first
\* chunk begins.  A stop pressed meanwhile collects it.  Only a takeover that took MIN_GAP_MS is told.
RecorderOpens ==
  /\ chunkState = "starting" /\ chunks < MaxChunks
  /\ \E stuck \in SUBSET files :
       IF chunkStop
         THEN /\ chunkState' = "stopping" /\ chunk' = 0 /\ chunks' = chunks + 1
              /\ \/ Tell(chunks + 1, "sliver") /\ files' \in {stuck, stuck \cup {chunks + 1}}
                 \/ Tell(chunks + 1, "gap") /\ files' = stuck \cup {chunks + 1}
              /\ UNCHANGED fallback
         ELSE /\ chunkState' = "recording" /\ Begun(stuck)
              /\ fallback' = [fallback EXCEPT !.failed = FALSE]
              /\ UNCHANGED told \/ (fallback.failed /\ Tell(0, "gap"))
  /\ UNCHANGED <<chunkStop, fatal, chunkOps, chunkUploads, chunkRuns>>

\* No permission, another account, or no recorder.
RecorderFails ==
  /\ chunkState = "starting"
  /\ chunkState' = "stopping" /\ files' \in SUBSET files
  /\ UNCHANGED <<fallback, chunkStop, fatal, chunk, chunks, chunkOps, chunkUploads, told, chunkRuns>>

\* A chunk is full; a stop cancels the timer.
ChunkFull ==
  /\ chunkState = "recording" /\ ~chunkStop /\ chunkOps = <<>>
  /\ chunkOps' = <<"rotate">>
  /\ UNCHANGED <<fallback, chunkState, chunkStop, fatal, chunk, chunks, chunkUploads, files,
                 told, chunkRuns>>

\* rotate(): the next chunk may fail to begin, which ends the run.
Rotate ==
  \E left \in Deleted(chunk) :
    /\ Collect(FALSE, left)
    /\ \/ Begun(left) /\ UNCHANGED chunkState
       \/ chunkState' = "stopping" /\ chunk' = 0 /\ files' = left /\ UNCHANGED chunks

ShutDownChunks ==
  /\ \E left \in Deleted(chunk) : Collect(TRUE, left) /\ files' = left
  /\ chunkState' = "stopping" /\ chunk' = 0 /\ UNCHANGED chunks

\* fail(): what is being recorded is given up with the run; the recorder is closed, not finished, and
\* the file stays.
FailChunks ==
  /\ chunkState' = "stopping" /\ chunk' = 0 /\ Tell(chunk, "withheld")
  /\ UNCHANGED <<chunks, chunkUploads, files>>

\* Operations run one at a time, and do nothing once their run has ended.
RunOp ==
  /\ chunkOps # <<>> /\ chunkOps' = Tail(chunkOps)
  /\ IF chunkState # "recording"
       THEN UNCHANGED <<chunkState, chunk, chunks, chunkUploads, files, told>>
       ELSE CASE Head(chunkOps) = "rotate" -> Rotate
              [] Head(chunkOps) = "shutdown" -> ShutDownChunks
              [] Head(chunkOps) = "fail" -> FailChunks
  /\ UNCHANGED <<fallback, chunkStop, fatal, chunkRuns>>

\* The first upload settles: words, silence, a gap, or another account, after which nothing
\* more is sent.  The file is deleted in every case, if it can be.
UploadSettles ==
  /\ chunkUploads # <<>>
  /\ chunkUploads' = Tail(chunkUploads) /\ files' \in Deleted(Head(chunkUploads))
  /\ IF fatal THEN Tell(Head(chunkUploads), "withheld") /\ UNCHANGED <<fatal, chunkOps>>
     ELSE \/ \E what \in {"text", "silence", "gap"} :
               Tell(Head(chunkUploads), what) /\ UNCHANGED <<fatal, chunkOps>>
          \/ Tell(Head(chunkUploads), "withheld") /\ fatal' = TRUE /\ chunkOps' = Append(chunkOps, "fail")
  /\ UNCHANGED <<fallback, chunkState, chunkStop, chunk, chunks, chunkRuns>>

\* Mutant: the end does not wait for the uploads.
BadDrained_AtOnce == chunkState = "stopping"

\* settle(): the end is reported when every upload has settled.
Drained == chunkState = "stopping" /\ chunkUploads = <<>>

Settled ==
  /\ Drained
  /\ chunkState' = "idle"
  /\ fallback' = IF fallback.st = "secondary" THEN FallbackEnded ELSE fallback
  /\ UNCHANGED <<chunkStop, fatal, chunk, chunks, chunkOps, chunkUploads, files, told,
                 chunkRuns>>

ChunkNext ==
  \/ StartRecording \/ StopRecording \/ PrimaryEnds \/ PrimaryFails
  \/ RecorderOpens \/ RecorderFails \/ ChunkFull \/ RunOp \/ UploadSettles \/ Settled

ChunkSpec == ChunkInit /\ [][ChunkNext]_chunkVars

-----------------------------------------------------------------------------
(* Properties.                                                             *)

Told(n) == {i \in DOMAIN told : told[i].n = n}

WaitingAt(n) == {i \in DOMAIN chunkUploads : chunkUploads[i] = n}

OnlyOne(S) == \E i \in S : S = {i}

\* At any time a chunk is in one place: it is being recorded, waits for its upload, or was dealt with
\* exactly once (its words, a gap, too short, silent, or withheld because another account is signed
\* in).  When the recording has ended all were dealt with.  Words are told in the order they were
\* spoken, and a chunk that waits has its file: the purge of a later recording takes none that is
\* still to be uploaded (server-stt-chunk-files.ts).  What files are left is not said.
EveryChunkAccounted ==
  /\ \A n \in 1 .. chunks :
       \/ n = chunk /\ WaitingAt(n) = {} /\ Told(n) = {}
       \/ n # chunk /\ OnlyOne(WaitingAt(n)) /\ Told(n) = {}
       \/ n # chunk /\ WaitingAt(n) = {} /\ OnlyOne(Told(n))
  /\ fallback.st = "idle" => chunk = 0 /\ chunkUploads = <<>>
  /\ \A i, j \in DOMAIN told :
       (i < j /\ told[i].what = "text" /\ told[j].what = "text") => told[i].n < told[j].n
  /\ \A i \in DOMAIN chunkUploads : chunkUploads[i] \in files
=============================================================================

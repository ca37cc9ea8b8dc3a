------------------------- MODULE TranscriptFreshness -------------------------
(***************************************************************************)
(* What the pipeline derives from a transcript and how far it follows the  *)
(* user's corrections: segments (transcript.service.ts), the chunks cut    *)
(* from them and what is computed per chunk (chunk-, embed-, extract- and  *)
(* resolve-step.handler.ts), the summary and its tasks                     *)
(* (summarize-step.handler.ts, actions.service.ts), and the question the   *)
(* app asks before it offers a re-run (meeting-edits.ts).                  *)
(*                                                                         *)
(* One meeting, one worker: who may run a step, and how often, is the      *)
(* subject of module Pipeline.  A step reads, awaits and writes; whatever  *)
(* the API accepts meanwhile happens in between.                           *)
(***************************************************************************)
EXTENDS Integers

CONSTANTS
  NSegs,      \* the transcript's segments, numbered by seq
  Late,       \* segments that may still be uploaded once the meeting is queued
  TaskKeys,   \* content keys of tasks
  MaxEdits,   \* bound: corrections of segments
  MaxRequeues,\* bound: re-index requests
  MaxTouches  \* bound: changes the user makes to tasks

Segs == 1..NSegs
StepSet == {"chunk", "embed", "extract", "resolve", "summarize"}

\* STEP_ORDER: what must have succeeded before a step is the next one.
Before == [chunk |-> {}, embed |-> {"chunk"}, extract |-> {"chunk", "embed"},
           resolve |-> {"chunk", "embed", "extract"}, summarize |-> StepSet \ {"summarize"}]

ASSUME FreshAssumption ==
  /\ NSegs \in Nat /\ Late \subseteq Segs
  /\ MaxEdits \in Nat /\ MaxRequeues \in Nat /\ MaxTouches \in Nat

VARIABLES
  version,    \* transcript_segments.text as a version number, 0 before the segment arrived
  editedAt,   \* transcript_segments.edited_at, 0 for NULL
  phase,      \* meetings.status
  scope,      \* meetings.pipeline_scope
  startedAt,  \* meetings.pipeline_started_at, 0 for NULL
  succeeded,  \* processing_jobs in status succeeded
  chunks,     \* meeting_chunks: [from, to, content]; equal records have equal hashes
  embedded, extracted, resolved,   \* chunks with embedding, extracted_at, resolved_at
  summaryOf,  \* the chunks the stored summary was made from
  tasks,      \* action_items: [key, manual, edited]; rows alike in all three are one
  dismissed,  \* action_item_dismissals.content_key
  handler,    \* the step the worker is in and what it has read
  clock,      \* now(): ticks at every timestamp that is compared
  unseen,     \* history: segments changed while no run was sure to read them
  edits, requeues, touches

freshVars == <<version, editedAt, phase, scope, startedAt, succeeded, chunks, embedded,
  extracted, resolved, summaryOf, tasks, dismissed, handler, clock, unseen,
  edits, requeues, touches>>

transcriptVars == <<version, editedAt, clock, unseen, edits>>
runVars == <<phase, scope, startedAt, succeeded, requeues>>
chunkVars == <<chunks, embedded, extracted, resolved>>
taskVars == <<tasks, dismissed, touches>>

Idle == [step |-> "none", read |-> {}]
Present == {s \in Segs : version[s] > 0}

FreshInit ==
  /\ version = [s \in Segs |-> IF s \in Late THEN 0 ELSE 1]
  /\ editedAt = [s \in Segs |-> 0]
  /\ phase = "queued" /\ scope = "full" /\ startedAt = 0 /\ succeeded = {}
  /\ chunks = {} /\ embedded = {} /\ extracted = {} /\ resolved = {}
  /\ summaryOf = {} /\ tasks = {} /\ dismissed = {}
  /\ handler = Idle /\ clock = 0 /\ unseen = {}
  /\ edits = 0 /\ requeues = 0 /\ touches = 0

-----------------------------------------------------------------------------
(* Corrections and late uploads.  Both are accepted while the meeting is   *)
(* queued; only corrections once it is ready or failed.  The row lock keeps *)
(* both out of `processing`.                                               *)

\* The chunk step of the run under way will not run again.
ChunkStepBehind == "chunk" \in succeeded /\ phase # "ready"

BadEditSegment_NotStamped(s) ==
  /\ phase \in {"queued", "ready", "failed"}
  /\ s \in Present /\ edits < MaxEdits
  /\ version' = [version EXCEPT ![s] = @ + 1]
  /\ edits' = edits + 1
  /\ UNCHANGED <<clock, editedAt, unseen, runVars, chunkVars, taskVars, summaryOf, handler>>

EditSegment(s) ==
  /\ phase \in {"queued", "ready", "failed"}
  /\ s \in Present /\ edits < MaxEdits
  /\ version' = [version EXCEPT ![s] = @ + 1]
  /\ clock' = clock + 1
  /\ editedAt' = [editedAt EXCEPT ![s] = clock + 1]
  /\ unseen' = IF ChunkStepBehind THEN unseen \cup {s} ELSE unseen
  /\ edits' = edits + 1
  /\ UNCHANGED <<runVars, chunkVars, taskVars, summaryOf, handler>>

UploadLate(s) ==
  /\ phase = "queued"
  /\ s \notin Present
  /\ version' = [version EXCEPT ![s] = 1]
  /\ unseen' = IF ChunkStepBehind \/ scope = "changed" THEN unseen \cup {s} ELSE unseen
  /\ UNCHANGED <<editedAt, clock, edits, runVars, chunkVars, taskVars, summaryOf, handler>>

HasUnprocessedEdits == \E s \in Present : editedAt[s] > startedAt

-----------------------------------------------------------------------------
(* Runs *)

BadKept_OnlyChunkAgain(asked, resume) ==
  IF resume \/ asked = "changed" THEN succeeded \ {"chunk"} ELSE {}

\* The rows a request leaves: a resumed run goes on behind the steps that succeeded.
Kept(asked, resume) == IF resume THEN succeeded ELSE {}

Reindex(asked) ==
  LET resume == asked = "changed" /\ phase = "failed" IN
  /\ phase \in {"ready", "failed"} /\ requeues < MaxRequeues
  /\ (asked = "changed" /\ ~resume) => HasUnprocessedEdits
  /\ phase' = "queued"
  /\ succeeded' = Kept(asked, resume)
  /\ scope' = IF resume THEN scope ELSE asked
  /\ requeues' = requeues + 1
  /\ UNCHANGED <<startedAt, transcriptVars, chunkVars, taskVars, summaryOf, handler>>

StartRun ==
  /\ phase = "queued"
  /\ phase' = "processing"
  /\ clock' = clock + 1 /\ startedAt' = clock + 1
  /\ UNCHANGED <<version, editedAt, unseen, edits, scope, succeeded, requeues, chunkVars, taskVars,
                 summaryOf, handler>>

Running(step) == phase = "processing" /\ step \notin succeeded /\ Before[step] \subseteq succeeded
Record(step) == succeeded' = succeeded \cup {step} /\ handler' = Idle

Complete ==
  /\ phase = "processing" /\ succeeded = StepSet
  /\ phase' = "ready"
  /\ UNCHANGED <<scope, startedAt, succeeded, requeues, transcriptVars, chunkVars, taskVars,
                 summaryOf, handler>>

\* The last attempt of a step failed, before or between its commits.
FailStep ==
  /\ phase = "processing" /\ succeeded # StepSet
  /\ phase' = "failed" /\ handler' = Idle
  /\ UNCHANGED <<scope, startedAt, succeeded, requeues, transcriptVars, chunkVars, taskVars,
                 summaryOf>>

-----------------------------------------------------------------------------
(* Step chunk *)

Cut(f, t) == [from |-> f, to |-> t,
              content |-> [s \in Present \cap (f..t) |-> version[s]]]

\* Every way to cut the segments S into consecutive chunks, overlapping or not:
\* what chunkSegments may return (module Chunker says how it chooses).
Cuttings(S) ==
  {C \in SUBSET {r \in S \X S : r[1] <= r[2]} :
     /\ S = UNION {S \cap (r[1]..r[2]) : r \in C}
     /\ \A r, q \in C : r # q => r[1] # q[1] /\ (r[1] < q[1] => r[2] <= q[2])}

Rechunk(C) == {Cut(c.from, c.to) : c \in {d \in C : Present \cap (d.from..d.to) # {}}}
LastEnd(C) == LET last == CHOOSE c \in C : \A d \in C : d.from <= c.from IN last.to

Drafts ==
  IF scope = "changed" /\ chunks # {}
  THEN {Rechunk(chunks) \cup {Cut(r[1], r[2]) : r \in C} :
          C \in Cuttings({s \in Present : s > LastEnd(chunks)})}
  ELSE {{Cut(r[1], r[2]) : r \in C} : C \in Cuttings(Present)}

ChunkRead ==
  /\ Running("chunk") /\ handler = Idle
  /\ \E D \in Drafts : handler' = [step |-> "chunk", read |-> D]
  /\ UNCHANGED <<transcriptVars, runVars, chunkVars, taskVars, summaryOf>>

BadChunkWrite_Replaces ==
  /\ Running("chunk") /\ handler.step = "chunk"
  /\ chunks' = handler.read /\ embedded' = {} /\ extracted' = {} /\ resolved' = {}
  /\ Record("chunk")
  /\ unseen' = {s \in unseen : \A c \in handler.read : s \notin DOMAIN c.content}
  /\ UNCHANGED <<version, editedAt, clock, edits, phase, scope, startedAt, requeues, taskVars,
                 summaryOf>>

\* Reconciled, not replaced: an unchanged chunk keeps its row and what hangs on it.
ChunkWrite ==
  /\ Running("chunk") /\ handler.step = "chunk"
  /\ chunks' = handler.read
  /\ embedded' = embedded \cap handler.read
  /\ extracted' = extracted \cap handler.read
  /\ resolved' = resolved \cap handler.read
  /\ Record("chunk")
  /\ unseen' = {s \in unseen : \A c \in handler.read : s \notin DOMAIN c.content}
  /\ UNCHANGED <<version, editedAt, clock, edits, phase, scope, startedAt, requeues, taskVars,
                 summaryOf>>

-----------------------------------------------------------------------------
(* Steps embed, extract, resolve: one commit per batch, group or chunk,    *)
(* so a failed step resumes behind what it committed.                      *)

EmbedBatch(c) ==
  /\ Running("embed") /\ c \in chunks \ embedded
  /\ embedded' = embedded \cup {c}
  /\ UNCHANGED <<transcriptVars, runVars, chunks, extracted, resolved, taskVars, summaryOf,
                 handler>>

ExtractGroup(c) ==
  /\ Running("extract") /\ c \in chunks \ extracted
  /\ extracted' = extracted \cup {c}
  /\ UNCHANGED <<transcriptVars, runVars, chunks, embedded, resolved, taskVars, summaryOf, handler>>

ResolveOne(c) ==
  /\ Running("resolve") /\ c \in extracted \ resolved
  /\ resolved' = resolved \cup {c}
  /\ UNCHANGED <<transcriptVars, runVars, chunks, embedded, extracted, taskVars, summaryOf,
                 handler>>

StepDone ==
  /\ \/ Running("embed") /\ chunks \subseteq embedded /\ Record("embed")
     \/ Running("extract") /\ chunks \subseteq extracted /\ Record("extract")
     \/ Running("resolve") /\ extracted \subseteq resolved /\ Record("resolve")
  /\ UNCHANGED <<transcriptVars, phase, scope, startedAt, requeues, chunkVars, taskVars, summaryOf>>

-----------------------------------------------------------------------------
(* Step summarize and the user's hand on the tasks *)

SummaryRead ==
  /\ Running("summarize") /\ handler = Idle
  /\ handler' = [step |-> "summarize", read |-> chunks]
  /\ UNCHANGED <<transcriptVars, runVars, chunkVars, taskVars, summaryOf>>

Untouched(t) == ~t.manual /\ ~t.edited

BadDecided_ForgetsDismissed(kept) == {t.key : t \in kept}

\* What the user has kept or deleted is not proposed again.
Decided(kept) == {t.key : t \in kept} \cup dismissed

\* The transaction deletes, then reads what is kept and dismissed, then inserts.
\* A request on a task commits before the delete or waits for it (row locks).
SummarySave(found) ==
  LET kept == {t \in tasks : ~Untouched(t)}
      seen == Decided(kept)
  IN /\ Running("summarize") /\ handler.step = "summarize"
     /\ summaryOf' = handler.read
     /\ tasks' = kept \cup {[key |-> k, manual |-> FALSE, edited |-> FALSE] : k \in found \ seen}
     /\ Record("summarize")
     /\ UNCHANGED <<transcriptVars, phase, scope, startedAt, requeues, chunkVars, dismissed,
                    touches>>

Touch == touches < MaxTouches /\ touches' = touches + 1
Others == <<transcriptVars, runVars, chunkVars, summaryOf, handler>>

CreateTask(k) ==
  /\ Touch
  /\ tasks' = tasks \cup {[key |-> k, manual |-> TRUE, edited |-> TRUE]}
  /\ UNCHANGED <<dismissed, Others>>

\* A PATCH that changes something; the new content may be any other task's.
UpdateTask(t, k) ==
  /\ Touch
  /\ tasks' = (tasks \ {t}) \cup {[t EXCEPT !.key = k, !.edited = TRUE]}
  /\ UNCHANGED <<dismissed, Others>>

RemoveTask(t) ==
  /\ Touch
  /\ tasks' = tasks \ {t}
  /\ dismissed' = IF t.manual THEN dismissed ELSE dismissed \cup {t.key}
  /\ UNCHANGED Others

-----------------------------------------------------------------------------
FreshNext ==
  \/ \E s \in Segs : EditSegment(s) \/ UploadLate(s)
  \/ \E asked \in {"changed", "full"} : Reindex(asked)
  \/ StartRun \/ Complete \/ FailStep
  \/ ChunkRead \/ ChunkWrite
  \/ \E c \in chunks : EmbedBatch(c) \/ ExtractGroup(c) \/ ResolveOne(c)
  \/ StepDone
  \/ SummaryRead
  \/ \E found \in SUBSET TaskKeys : SummarySave(found)
  \/ \E k \in TaskKeys : CreateTask(k)
  \/ \E t \in tasks, k \in TaskKeys : UpdateTask(t, k)
  \/ \E t \in tasks : RemoveTask(t)

FreshSpec == FreshInit /\ [][FreshNext]_freshVars

-----------------------------------------------------------------------------
(* Properties *)

FreshTypeOK ==
  /\ version \in [Segs -> Nat] /\ editedAt \in [Segs -> Nat]
  /\ phase \in {"queued", "processing", "ready", "failed"}
  /\ scope \in {"full", "changed"} /\ startedAt \in Nat /\ clock \in Nat
  /\ succeeded \subseteq StepSet
  /\ embedded \subseteq chunks /\ extracted \subseteq chunks /\ resolved \subseteq extracted
  /\ handler.step \in {"none", "chunk", "summarize"}
  /\ unseen \subseteq Segs

\* The text of segment s as it stands is in every chunk around it, and in one at least.
Current(s) ==
  /\ \E c \in chunks : s \in DOMAIN c.content
  /\ \A c \in chunks : s \in DOMAIN c.content => c.content[s] = version[s]

\* hasUnprocessedEdits tells the app when the summary is behind the transcript:
\* a ready meeting that says nothing has every line in its chunks as it stands,
\* but for the lines changed behind the chunk step of a run that was resumed.
FreshOrFlagged ==
  phase = "ready" /\ ~HasUnprocessedEdits => \A s \in Present \ unseen : Current(s)

\* A ready meeting is all of one piece: the summary was made from the chunks that
\* search and the graph use, and each of them went through every step - whatever
\* mixture of full, changed and resumed runs, failing anywhere, led there.
ReadyIsConsistent ==
  phase = "ready" =>
    /\ summaryOf = chunks
    /\ chunks \subseteq embedded \cap extracted \cap resolved

\* A changed run pays only for what changed (US-24): a chunk keeps its embedding
\* and its place in the graph unless a line in its range reads differently now.
OnlyChangedChunksRedone ==
  [][scope = "changed" => \A c \in embedded \ embedded' : Cut(c.from, c.to) # c]_freshVars

\* The pipeline never undoes the user's word on tasks: no step but the user's own
\* request takes away a task the user made or changed, or adds one whose content
\* the user has kept or deleted.
UserTasksSurviveRuns ==
  [][touches' = touches =>
       /\ \A t \in tasks \ tasks' : Untouched(t)
       /\ \A t \in tasks' \ tasks : t.key \notin dismissed \cup {u.key : u \in tasks \cap tasks'}]_freshVars
=============================================================================
